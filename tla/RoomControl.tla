---------------------------- MODULE RoomControl ----------------------------
(***************************************************************************)
(* One controlled room: the override policy (control/comfort/core/         *)
(* policy.py) and the cycle that carries it out                            *)
(* (control/comfort/coordinator.py), against a thermostat that is shared   *)
(* with its schedule and with whoever turns its dial.                      *)
(*                                                                         *)
(* A command travels by radio: the service call may succeed and the        *)
(* command be late or lost, and Home Assistant shows our own transmission  *)
(* before the thermostat's reply.  The policy has to tell from the shown   *)
(* setpoint alone whether a hand has set it.  Times are in ticks; a stamp  *)
(* is kept as its age, and one report reaches Home Assistant per tick.     *)
(***************************************************************************)
EXTENDS Integers, FiniteSets

CONSTANTS
    Floor,        \* zone_off_setpoint and zone_setpoint_min
    WindowTarget, \* window_setpoint
    Low, High,    \* the two setpoints of the schedule
    Targets,      \* setpoints the model, pre-heat or overdrive may ask for
    Hands,        \* setpoints people choose at the thermostat
    None, Follow, \* no value; the command follow_schedule
    Override,     \* override_minutes, as sent with every command
    Refresh,      \* refresh_before_expiry_minutes
    Recent,       \* recent_write_minutes
    HoldTime,     \* manual_hold_minutes
    OpenDelay, CloseDelay,
    Grace,        \* switchpoint_grace_minutes
    Early,        \* preheat_release_minutes
    Period,       \* ticks between two switchpoints
    Contacts,     \* what any_window_open may be
    Faults        \* a bound: which of FaultKinds may happen

FaultKinds == {"timeout", "stop", "crash", "save", "schedule", "next", "echo"}

Schedules == {Low, High}
Ours == Targets \cup {WindowTarget, Floor}
Setpoint == Schedules \cup Ours \cup Hands

ASSUME ConstantsAssumption ==
    /\ Setpoint \subseteq Int /\ None \notin Setpoint
    /\ Low < High
    /\ {Override, Refresh, Recent, HoldTime, OpenDelay, CloseDelay, Grace, Early} \subseteq Nat
    /\ Period \in Nat \ {0}
    /\ Contacts \subseteq BOOLEAN
    /\ Faults \subseteq FaultKinds

Never == Recent + 1   \* the age of a write too old to be recognised

VARIABLES
    mem,       \* OverrideMemory and the schedule memory of the coordinator
    store,     \* the same in the room's ControlStore on disk
    storeOk,   \* ControlStore.ready
    life,      \* "down", "reconciling" (_startup_ready is false) or "up"
    pc,        \* the cycle: "idle", "call" (in _perform) or "save"
    cmd,       \* the decision being carried out
    shown,     \* the setpoint Home Assistant shows for the zone
    fresh,     \* it has been reported since startup settled
    zone,      \* the thermostat itself
    radio,     \* a command on its way to it
    slot,      \* the schedule's setpoint now
    nextIn,    \* ticks to the next switchpoint
    forgotten  \* history: setpoints commanded without the memory of it, or on
               \* show when a room without history started up

controlVars == <<mem, store, storeOk, life, pc, cmd>>
zoneVars == <<shown, fresh, zone, radio>>
scheduleVars == <<slot, nextIn>>
vars == <<controlVars, zoneVars, scheduleVars, forgotten>>

Other(s) == IF s = Low THEN High ELSE Low

Memory == [last : Setpoint \cup {None}, age : 0..Override,
           held : Setpoint \cup {None}, left : 0..HoldTime, reclaim : BOOLEAN,
           door : {"shut", "open", "closed"}, doorAge : 0..(OpenDelay + CloseDelay),
           recent : [Ours -> 0..Never],
           slot : Schedules \cup {None}, was : Schedules \cup {None}, since : 0..(Grace + 1)]

Nothing == [action |-> "none", sp |-> None, seen |-> None]

\* The type of every variable.
TypeOK ==
    /\ mem \in Memory
    /\ store \in Memory
    /\ storeOk \in BOOLEAN
    /\ life \in {"down", "reconciling", "up"}
    /\ pc \in {"idle", "call", "save"}
    /\ cmd.action \in {"none", "write", "release"}
    /\ cmd.action = "write" => cmd.sp \in Ours
    /\ shown \in Setpoint
    /\ fresh \in BOOLEAN
    /\ zone \in [v : Setpoint, by : {"schedule", "hho", "hand", "held"}, left : 0..Override]
    /\ radio \in Ours \cup {None, Follow}
    /\ slot \in Schedules
    /\ nextIn \in 1..Period
    /\ forgotten \in SUBSET Setpoint

Init ==
    /\ mem = [last |-> None, age |-> Override, held |-> None, left |-> 0, reclaim |-> FALSE,
              door |-> "shut", doorAge |-> 0, recent |-> [v \in Ours |-> Never],
              slot |-> None, was |-> None, since |-> Grace + 1]
    /\ store = mem
    /\ storeOk = FALSE
    /\ life = "down"
    /\ pc = "idle" /\ cmd = Nothing
    /\ slot = Low /\ nextIn = Period
    /\ zone = [v |-> Low, by |-> "schedule", left |-> 0]
    /\ shown = Low /\ fresh = FALSE
    /\ radio = None
    /\ forgotten = {}

-----------------------------------------------------------------------------
(* The policy.  v is what one evaluation sees of the zone: the shown       *)
(* setpoint cur (None if it cannot be read), whether the schedule can be   *)
(* read, what is known of its next switchpoint (its time and value, its    *)
(* time, nothing), a window open, the room off; w is what the room asks    *)
(* for.                                                                    *)

Holding(m) == m.last # None /\ m.age < Override
Standing(m) == m.held # None /\ m.left > 0
Disown(m) == [m EXCEPT !.last = None, !.age = Override]
Forget(m) == [m EXCEPT !.held = None, !.left = 0, !.reclaim = FALSE]

AtSchedule(v) == v.cur # None /\ v.schedule /\ v.cur = slot

Leave(m) == [action |-> "none", sp |-> None, mem |-> m]

ReleaseOrNone_Blind(m, v) ==
    IF ~Holding(m) THEN Leave(m)
    ELSE [action |-> "release", sp |-> None, mem |-> Disown(m)]

\* _release_or_none: give the zone back once, if it still shows our override.
ReleaseOrNone(m, v) ==
    IF ~Holding(m) \/ v.cur = None THEN Leave(m)
    ELSE [action |-> IF v.cur = m.last THEN "release" ELSE "none",
          sp |-> None, mem |-> Disown(m)]

WriteOrNone_NotRemembered(m, target, v) ==
    IF v.verdict # "retry" /\ m.last = target /\ Override - m.age > Refresh THEN Leave(m)
    ELSE [action |-> "write", sp |-> target,
          mem |-> [m EXCEPT !.last = target, !.age = 0, !.reclaim = m.held # None]]

\* _write, with _bound and _write_needed.
WriteOrNone(m, target, v) ==
    LET sp == IF target < Floor THEN Floor ELSE target
        needed == (v.verdict = "retry") \/ m.last = None \/ m.last # sp \/ Override - m.age <= Refresh
    IN  IF ~needed THEN Leave(m)
        ELSE [action |-> "write", sp |-> sp,
              mem |-> [m EXCEPT !.last = sp, !.age = 0, !.recent[sp] = 0,
                                !.reclaim = m.held # None]]

\* _manual_override: neither ours, nor the schedule's, nor around a switch.
ManualOverride(m, v) ==
    /\ v.verdict = "none"
    /\ v.cur # None /\ v.schedule
    /\ ~(~Standing(m) /\ Holding(m) /\ v.cur = m.last)
    /\ ~(~Standing(m) /\ v.cur \in Ours /\ m.recent[v.cur] <= Recent)
    /\ v.cur # slot
    /\ ~(v.next = "known" /\ v.cur = Other(slot) /\ nextIn <= (IF Grace > Early THEN Grace ELSE Early))
    /\ ~(v.cur = m.was /\ m.since <= Grace)

\* _update_window_memory
Door(m, v) ==
    CASE v.open /\ m.door # "open"  -> [m EXCEPT !.door = "open", !.doorAge = 0]
      [] ~v.open /\ m.door = "open" -> [m EXCEPT !.door = "closed", !.doorAge = 0]
      [] OTHER -> m

WindowOverride(m, v) ==
    \/ v.open /\ m.door = "open" /\ m.doorAge >= OpenDelay
    \/ ~v.open /\ m.door = "closed" /\ m.doorAge < CloseDelay

HandSeen_Extends(m, v) ==
    LET kept == IF v.cur = None THEN m.held ELSE v.cur
    IN  [m EXCEPT !.held = kept, !.left = HoldTime, !.reclaim = FALSE]

HandSeen_UntilSwitchpoint(m, v) ==
    LET kept == IF v.cur = None THEN m.held ELSE v.cur
    IN  [m EXCEPT !.held = kept, !.left = IF v.next # "none" THEN nextIn ELSE HoldTime]

\* A newly seen or readjusted hand setting: the hold ends at its deadline or
\* at the switchpoint if its time is known, whichever is sooner, fixed now.
HandSeen(m, v) ==
    LET anew == m.held = None \/ (v.cur # None /\ v.cur # m.held)
        kept == IF v.cur = None THEN m.held ELSE v.cur
    IN  IF anew
        THEN [m EXCEPT !.held = kept, !.reclaim = FALSE,
                       !.left = IF v.next # "none" /\ nextIn < HoldTime THEN nextIn ELSE HoldTime]
        ELSE [m EXCEPT !.held = kept]

\* A reclaim write the zone has not echoed yet stays ours; an older one is dead.
HoldOver(m) == IF m.reclaim /\ Holding(m) THEN m ELSE Disown(m)

HandSetting(m, v) ==
    IF Standing(m) THEN ~AtSchedule(v) ELSE ManualOverride(m, v)

\* While it holds the user has taken over, and no write of ours is in force.
HandHolds(m, v) == HandSetting(m, v) /\ Standing(HandSeen(m, v))

EpisodeOver_NoSchedule(m, v) ==
    ~v.schedule \/ AtSchedule(v) \/ (m.reclaim /\ Holding(m) /\ v.cur = m.last)

EpisodeOver(m, v) ==
    AtSchedule(v) \/ (m.reclaim /\ Holding(m) /\ v.cur = m.last)

\* Branch 3 of decide for the memory m after the window update.
AfterHand(m, v) ==
    CASE HandHolds(m, v) -> Disown(HandSeen(m, v))
      [] HandSetting(m, v) /\ ~HandHolds(m, v) -> HoldOver(HandSeen(m, v))
      [] ~HandSetting(m, v) -> IF m.held # None /\ EpisodeOver(m, v) THEN Forget(m) ELSE m

\* Branches 4 to 7 of decide: window, pre-heat, no data, optimum start, model.
Control(m, v, w) ==
    LET target == IF WindowOverride(m, v) THEN WindowTarget ELSE w.target
        optimumStart == v.schedule /\ v.next = "known" /\ High # slot /\ nextIn <= Early
                        /\ ~WindowOverride(m, v) /\ ~w.preheat
    IN  IF target = None THEN ReleaseOrNone(m, v)
        ELSE IF w.shadow THEN Leave(m)
        ELSE IF optimumStart THEN ReleaseOrNone(m, v)
        ELSE WriteOrNone(m, target, v)

\* The model, pre-heat and overdrive ask for a target, if the schedule is known.
Wants(v) ==
    {w \in [target : Targets \cup {None}, preheat : BOOLEAN, shadow : BOOLEAN] :
        /\ ~v.schedule => w.target = None
        /\ w.preheat => w.target # None /\ v.next # "none"}

OffByHand(m, v) ==
    v.cur # None /\ v.cur <= Floor /\ ~(Holding(m) /\ v.cur = m.last)

\* decide: one evaluation, at most one action, whatever is asked for.
Decisions(m, v) ==
    IF v.off \/ OffByHand(m, v) THEN {ReleaseOrNone(m, v)}
    ELSE LET d == Door(m, v)
             h == AfterHand(d, v)
         IN  IF HandHolds(d, v) THEN {Leave(h)}
             ELSE {Control(h, v, w) : w \in Wants(v)}

-----------------------------------------------------------------------------
(* The cycle of the coordinator.                                           *)

\* Whether the schedule can be read: from the cloud entity, else from the radio's.
Readable == {TRUE} \cup {b \in BOOLEAN : "schedule" \in Faults}

\* The radio's schedule tells no next switchpoint, the cloud's fields may be missing one by one;
\* a switchpoint that is past, as while the cloud lags, counts as none.
Nexts(read) ==
    IF "next" \in Faults THEN {"known", "time", "none"}
    ELSE IF read THEN {"known"} ELSE {"none"}

\* What an evaluation may see; command_reverted, and the retry it allows,
\* concern values of our own.  off also stands for outside the operating window
\* with no pre-heat due.
Views ==
    {v \in [cur : {shown, None}, schedule : Readable, next : {"known", "time", "none"},
            off : BOOLEAN, open : Contacts, verdict : {"none", "reverted", "retry"}] :
        /\ v.next \in Nexts(v.schedule)
        /\ v.off => ~v.open /\ v.verdict = "none"
        /\ v.verdict # "none" => v.cur \in Ours}

\* _schedule remembers the value before the last change it has seen.
ScheduleSeen(m, read) ==
    IF ~read \/ m.slot = slot THEN m
    ELSE IF m.slot = None THEN [m EXCEPT !.slot = slot]
    ELSE [m EXCEPT !.slot = slot, !.was = m.slot, !.since = 0]

\* The memory of a cycle whose command was not sent: the window part only.
NotSent(m, d) == [m EXCEPT !.door = d.mem.door, !.doorAge = d.mem.doorAge]

\* _cycle up to the service call.  The write guard may refuse, and does in
\* shadow and when the schedule is unavailable.
Cycle ==
    /\ life = "up" /\ pc = "idle"
    /\ \E v \in Views :
       LET m == ScheduleSeen(mem, v.schedule)
       IN  \E d \in Decisions(m, v) :
           \/ /\ d.action = "none"
              /\ mem' = d.mem
              /\ pc' = "save" /\ cmd' = Nothing
           \/ /\ d.action # "none"
              /\ mem' = NotSent(m, d)
              /\ pc' = "save" /\ cmd' = Nothing
           \/ /\ d.action # "none" /\ v.schedule /\ storeOk
              /\ mem' = NotSent(m, d)
              /\ pc' = "call"
              /\ cmd' = [action |-> d.action, sp |-> d.sp, mem |-> d.mem, seen |-> v.cur]
    /\ UNCHANGED <<store, storeOk, life, zoneVars, scheduleVars, forgotten>>

\* Before startup has settled a cycle decides nothing.
DeferredCycle ==
    /\ life = "reconciling" /\ pc = "idle"
    /\ \E read \in Readable : mem' = ScheduleSeen(mem, read)
    /\ pc' = "save"
    /\ UNCHANGED <<store, storeOk, life, cmd, zoneVars, scheduleVars, forgotten>>

\* The command goes out, and Home Assistant may already show it.
Transmit ==
    /\ radio = None
    /\ radio' = IF cmd.action = "write" THEN cmd.sp ELSE Follow
    /\ \/ shown' = shown
       \/ "echo" \in Faults /\ shown' = IF cmd.action = "write" THEN cmd.sp ELSE slot
    /\ UNCHANGED <<fresh, zone>>

CallSucceeds ==
    /\ pc = "call"
    /\ Transmit
    /\ mem' = cmd.mem
    /\ pc' = "save" /\ cmd' = Nothing
    /\ UNCHANGED <<store, storeOk, life, scheduleVars, forgotten>>

CallFails ==
    /\ pc = "call"
    /\ pc' = "save" /\ cmd' = Nothing
    /\ UNCHANGED <<mem, store, storeOk, life, zoneVars, scheduleVars, forgotten>>

\* Treated as failed, although the command may have gone out.
CallTimesOut ==
    /\ "timeout" \in Faults
    /\ pc = "call"
    /\ Transmit
    /\ forgotten' = forgotten \cup ({cmd.sp} \ {None})
    /\ pc' = "save" /\ cmd' = Nothing
    /\ UNCHANGED <<mem, store, storeOk, life, scheduleVars>>

Saved ==
    /\ pc = "save" /\ storeOk
    /\ store' = mem
    /\ pc' = "idle"
    /\ UNCHANGED <<mem, storeOk, life, cmd, zoneVars, scheduleVars, forgotten>>

SaveFails ==
    /\ pc = "save" /\ ("save" \in Faults \/ ~storeOk)
    /\ storeOk' = FALSE
    /\ pc' = "idle"
    /\ UNCHANGED <<mem, store, life, cmd, zoneVars, scheduleVars, forgotten>>

History == store.last # None \/ store.held # None

\* Startup: a room with history waits for a report of its thermostat.
StartUp ==
    /\ life = "down"
    /\ life' = IF History THEN "reconciling" ELSE "up"
    /\ storeOk' = TRUE
    /\ fresh' = FALSE
    /\ forgotten' = forgotten \cup (IF History THEN {} ELSE {shown})
    /\ UNCHANGED <<mem, store, pc, cmd, shown, zone, radio, scheduleVars>>

\* _startup_ready; the report is taken to be the thermostat's own.
Reconciled ==
    /\ life = "reconciling" /\ pc = "idle" /\ fresh
    /\ life' = "up"
    /\ UNCHANGED <<mem, store, storeOk, pc, cmd, zoneVars, scheduleVars, forgotten>>

\* Unload or restart; between two awaits of a cycle only by a crash.
ShutDown ==
    /\ life # "down"
    /\ (IF pc = "idle" THEN "stop" ELSE "crash") \in Faults
    /\ life' = "down" /\ pc' = "idle" /\ cmd' = Nothing
    /\ mem' = store /\ storeOk' = FALSE
    /\ \/ UNCHANGED <<radio, shown, fresh, zone>>
       \/ pc = "call" /\ Transmit
    /\ forgotten' = forgotten
          \cup {x \in Ours : mem.recent[x] < store.recent[x]}
          \cup (IF pc = "call" THEN {cmd.sp} \ {None} ELSE {})
    /\ UNCHANGED <<store, scheduleVars>>

-----------------------------------------------------------------------------
(* The thermostat, its schedule, its radio, people and time.               *)

Delivered ==
    /\ radio # None
    /\ zone' = IF radio = Follow THEN [v |-> slot, by |-> "schedule", left |-> 0]
               ELSE [v |-> radio, by |-> "hho", left |-> Override]
    /\ radio' = None
    /\ UNCHANGED <<controlVars, shown, fresh, scheduleVars, forgotten>>

Lost ==
    /\ radio # None
    /\ radio' = None
    /\ UNCHANGED <<controlVars, shown, fresh, zone, scheduleVars, forgotten>>

Report ==
    /\ life # "down" /\ (shown # zone.v \/ ~fresh)
    /\ shown' = zone.v /\ fresh' = TRUE
    /\ UNCHANGED <<controlVars, zone, radio, scheduleVars, forgotten>>

Hand(x) ==
    /\ zone' = [v |-> x, by |-> "hand", left |-> 0]
    /\ UNCHANGED <<controlVars, shown, fresh, radio, scheduleVars, forgotten>>

OptimumStart ==
    /\ zone.by = "schedule" /\ slot = Low /\ nextIn <= Early
    /\ zone' = [zone EXCEPT !.v = High]
    /\ UNCHANGED <<controlVars, shown, fresh, radio, scheduleVars, forgotten>>

Plus1(n, cap) == IF n < cap THEN n + 1 ELSE n
Minus1(n) == IF n > 0 THEN n - 1 ELSE 0

Aged(m) ==
    [m EXCEPT !.age = Plus1(@, Override), !.left = Minus1(@),
              !.doorAge = Plus1(@, OpenDelay + CloseDelay),
              !.recent = [x \in Ours |-> Plus1(@[x], Never)],
              !.since = Plus1(@, Grace + 1)]

\* A hand's setting has been "held" when its hold has run out (a history, like
\* by itself).  An override ends at its time, a hand's setting may end at a switchpoint.
Tick ==
    /\ pc = "idle" /\ radio = None
    /\ life # "down" => shown = zone.v /\ fresh
    /\ life # "down" => mem.slot = slot \/ "schedule" \in Faults
    /\ nextIn' = IF nextIn = 1 THEN Period ELSE nextIn - 1
    /\ slot' = IF nextIn = 1 THEN Other(slot) ELSE slot
    /\ LET scheduled == [v |-> slot', by |-> "schedule", left |-> 0]
       IN  CASE zone.by = "schedule" -> zone' = IF nextIn = 1 THEN scheduled ELSE zone
             [] zone.by = "hho" -> zone' = IF zone.left <= 1 THEN scheduled
                                           ELSE [zone EXCEPT !.left = @ - 1]
             [] OTHER -> \/ zone' = IF mem.held = zone.v /\ mem.left = 1
                                    THEN [zone EXCEPT !.by = "held"] ELSE zone
                         \/ nextIn = 1 /\ zone' = scheduled
    /\ mem' = Aged(mem) /\ store' = Aged(store)
    /\ forgotten' = forgotten \cap {zone.v}
    /\ UNCHANGED <<storeOk, life, pc, cmd, shown, fresh, radio>>

-----------------------------------------------------------------------------

ControlStep == Cycle \/ DeferredCycle \/ CallSucceeds \/ CallFails \/ CallTimesOut \/ Saved \/ SaveFails
               \/ StartUp \/ Reconciled \/ ShutDown
WorldStep == Delivered \/ Lost \/ Report \/ (\E x \in Hands : Hand(x)) \/ OptimumStart \/ Tick

Next == ControlStep \/ WorldStep

Spec == Init /\ [][Next]_vars

\* The coordinator's interval, its timeouts, the radio and the clock go on.
Fairness ==
    /\ WF_vars(Saved \/ SaveFails) /\ WF_vars(CallSucceeds \/ CallFails)
    /\ WF_vars(Delivered \/ Lost) /\ SF_vars(Report) /\ SF_vars(Tick)

FairSpec == Spec /\ Fairness

-----------------------------------------------------------------------------
(* Properties.                                                             *)

NewHold == life' = "up" /\ mem.held = None /\ mem'.held # None

\* What an optimum start shows while the next switchpoint may not be known.
Raised == IF "next" \in Faults /\ nextIn <= Early THEN {Other(slot)} ELSE {}

HeldIsAHands == NewHold => mem'.held \in Hands \cup forgotten \cup Raised

\* What the policy takes for a hand's setting was set by a hand: no echo, no
\* lost or late command, no switchpoint, no restart makes it hold its own
\* setting or the schedule's.  Settings sent without the memory of it, by a
\* call that timed out or a crash, are an exception (see OwnWritesAreOurs), and
\* so is what is on show when a room without history starts up, and an optimum
\* start of which the next switchpoint is not known (see OptimumStartIsNoHand).
HoldsOnlyHands == [][HeldIsAHands]_vars

\* A hand's setting that is shown is neither overwritten nor released until
\* its hold has run out, whatever the windows, pre-heat or the model ask for.
TakesNothingFromTheHand ==
    [][pc = "idle" /\ pc' = "call" /\ zone.by \in {"hand", "held"} /\ cmd'.seen = zone.v
       => mem.held = zone.v /\ mem.left = 0]_vars

\* A setting whose hold has run out is not held again: what happens to the
\* command that takes the zone back does not make it look like a fresh one.
HeldOnce ==
    [][~Standing(mem) /\ Standing(mem') /\ mem'.held = zone.v => zone.by # "held"]_vars

\* Every hold runs out: control comes back without anybody's help.
HoldEnds == []<>(~Standing(mem))

\* policy.py:60-62 says "A reading equal to one of our own writes this recent
\* is ours, not a hand"; a call that timed out is no write of ours to it.
OwnWritesAreOurs ==
    [][NewHold => mem'.held \in Hands \/ mem'.held \notin Ours]_vars

\* policy.py:239-242 says "a zone already sitting at the next switchpoint's value is following
\* its schedule, not a hand", and that this covers the optimum start; the schedule of the
\* fallback (coordinator.py:660-663) has no next switchpoint to compare with.
OptimumStartIsNoHand ==
    [][NewHold /\ mem'.held \in Schedules => zone.by # "schedule" \/ mem'.held \in forgotten]_vars
=============================================================================
