---------------------------- MODULE GatewayMonitor ----------------------------
(***************************************************************************)
(* The alerts about silent radio gateways (gateway/monitor.py).            *)
(*                                                                         *)
(* Every change of a gateway's online entity, and a timer of a minute,     *)
(* evaluate all gateways.  An outage is told once it has lasted, and is    *)
(* over once the entity stays on.  What was told is not stored: a reload   *)
(* of the integration forgets it, while the repairs issue stays.           *)
(***************************************************************************)
EXTENDS Integers

CONSTANTS
    None,
    Gateways,
    Threshold,  \* gateway_offline_minutes, in ticks of the timer
    Grace,      \* max(threshold, MIN_GRACE): quiet after a start
    Settle,     \* min(threshold, MIN_GRACE): on before an outage is over
    Longest     \* bound: ages are not told apart beyond this

GatewayAssumption ==
    /\ {Threshold, Grace, Settle, Longest} \subseteq Nat
    /\ None \notin 0..Longest
    /\ 0 < Threshold /\ Threshold <= Grace /\ Settle <= Threshold /\ Grace < Longest

VARIABLES
    source,   \* external: what each entity shows, and since when
    gateway,  \* GatewayState: status, offline_since and online_since as ages, alerted
    started,  \* the age of started_at
    issue,    \* the repairs issues that are open
    told      \* the alerts and recoveries of the latest evaluation

gatewayVars == <<source, gateway, started, issue, told>>

Fresh == [status |-> "unavailable", offline |-> None, online |-> None, alerted |-> FALSE]
Nothing == [alerts |-> {}, recoveries |-> {}]

Init ==
    /\ source = [g \in Gateways |-> [shows |-> "on", age |-> 0, quiet |-> 0]]
    /\ gateway = [g \in Gateways |-> [Fresh EXCEPT !.status = "online", !.online = 0]]
    /\ started = 0
    /\ issue = {}
    /\ told = Nothing

\* _evaluate_one, with the part of _alert and _recover that is state.
Alerts(g, since, up) ==
    ~g.alerted /\ since >= Threshold /\ up >= Grace

Quiet(g, s, up) ==
    LET since == IF g.offline # None THEN g.offline
                 ELSE IF s.shows = "missing" THEN 0 ELSE s.age
        silent == [g EXCEPT !.online = None, !.offline = since,
                            !.status = IF g.offline = None THEN "unavailable" ELSE @]
    IN  IF Alerts(g, since, up)
        THEN [silent EXCEPT !.alerted = TRUE, !.status = "unresponsive"] ELSE silent

Back(g) ==
    LET on == IF g.online = None THEN 0 ELSE g.online
    IN  IF g.alerted /\ on < Settle
        THEN [g EXCEPT !.online = on]
        ELSE [status |-> "online", offline |-> None, alerted |-> FALSE, online |-> on]

EvaluateOne(g, s, up) == IF s.shows = "on" THEN Back(g) ELSE Quiet(g, s, up)

\* evaluate: all gateways, from the given states, sources and time since the start.
Evaluate(gs, ss, up) ==
    LET after == [g \in Gateways |-> EvaluateOne(gs[g], ss[g], up)]
        alerts == {g \in Gateways : ~gs[g].alerted /\ after[g].alerted}
        recoveries == {g \in Gateways : gs[g].alerted /\ ~after[g].alerted}
    IN  /\ gateway' = after
        /\ told' = [alerts |-> alerts, recoveries |-> recoveries]
        /\ issue' = (issue \union alerts) \ recoveries

\* _on_state_change
Changes(g, shows) ==
    /\ shows # source[g].shows
    /\ source' = [source EXCEPT ![g] = [shows |-> shows, age |-> 0,
                                        quiet |-> IF shows = "on" THEN 0 ELSE @.quiet]]
    /\ Evaluate(gateway, source', started)
    /\ UNCHANGED started

\* A minute passes, and _on_tick comes.
Least(a, b) == IF a < b THEN a ELSE b
Older(age) == IF age = None THEN None ELSE Least(Longest, age + 1)

Tick ==
    /\ started' = Older(started)
    /\ source' = [g \in Gateways |->
                    [source[g] EXCEPT !.age = Older(@),
                                      !.quiet = IF source[g].shows = "on" THEN 0 ELSE Older(@)]]
    /\ Evaluate([g \in Gateways |-> [gateway[g] EXCEPT !.offline = Older(@), !.online = Older(@)]],
                source', started')

\* A reload makes a new monitor; a restart of Home Assistant also drops the open issues.
Reload(restart) ==
    /\ started' = 0
    /\ gateway' = [g \in Gateways |-> EvaluateOne(Fresh, source[g], 0)]
    /\ issue' = IF restart THEN {} ELSE issue
    /\ told' = Nothing
    /\ UNCHANGED source

Next ==
    \/ \E g \in Gateways, shows \in {"on", "off", "missing"} : Changes(g, shows)
    \/ Tick
    \/ \E restart \in BOOLEAN : Reload(restart)

Spec == Init /\ [][Next]_gatewayVars

-----------------------------------------------------------------------------
Ages == 0..Longest \union {None}

TypeOK ==
    /\ source \in [Gateways -> [shows : {"on", "off", "missing"}, age : 0..Longest, quiet : 0..Longest]]
    /\ gateway \in [Gateways -> [status : {"online", "unavailable", "unresponsive"},
                                 offline : Ages, online : Ages, alerted : BOOLEAN]]
    /\ started \in 0..Longest
    /\ issue \subseteq Gateways
    /\ told \in [alerts : SUBSET Gateways, recoveries : SUBSET Gateways]

\* "Each outage produces exactly one repairs issue", and "a flapping stick does not produce a
\* stream of alerts" (docs/radio-schedule-recovery.md): between two alerts about a gateway the
\* entity was on for the settling time, or the monitor was made anew.
OneAlertPerOutage ==
    /\ \A g \in told.alerts : source[g].quiet >= Threshold /\ started >= Grace
    /\ \A g \in told.recoveries : source[g].shows = "on" /\ source[g].age >= Settle

\* A gateway that goes quiet without a new event is still caught: the timer alone sees to it.
SilenceIsCaught ==
    \A g \in Gateways :
        gateway[g].offline # None /\ source[g].quiet > Threshold /\ started > Grace + Threshold
            => gateway[g].alerted

\* "On recovery the issue is deleted" (docs/radio-schedule-recovery.md:49).
IssueIsCurrent == \A g \in issue : gateway[g].alerted
=============================================================================
