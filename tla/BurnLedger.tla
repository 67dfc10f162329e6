------------------------------ MODULE BurnLedger ------------------------------
(***************************************************************************)
(* What the boiler controller records of the burner (coordinator.py        *)
(* 1119-1377, core/efficiency.py, core/cycling.py): the estimate of the    *)
(* running efficiency with its averages, and the log of completed burns.   *)
(*                                                                         *)
(* The flame is seen only through three entities, each with its own        *)
(* outages.  Their changes are events; the averages are added to by the    *)
(* controller's cycle.  Both records must be true of the flame.            *)
(***************************************************************************)
EXTENDS Integers

CONSTANTS
    None,
    Startup,   \* STARTUP_MINUTES, in ticks of a minute
    FreshFor,  \* the age at which a burner or return reading no longer counts
    MaxGap,    \* MAX_ELAPSED_SECONDS
    Silence,   \* MAX_SILENCE_SECONDS
    Lag,       \* bound: the longest time between two cycles
    Longest,   \* bound: ages are not told apart beyond this
    MaxBurns   \* bound: ignitions of one process

LedgerAssumption ==
    /\ {Startup, FreshFor, MaxGap, Silence, Lag, Longest, MaxBurns} \subseteq Nat
    /\ MaxGap <= Startup /\ Startup <= Longest /\ Silence < Longest
    /\ None \notin Nat /\ None \notin {"fit", "outside"}

VARIABLES
    flame,    \* external: [on, age, last], the burner itself and the length of its last burn
    heat,     \* the heating-active entity: "on", "off" or "gone"
    power,    \* the modulation entity: [shows, age]; 0, 1, or None
    return,   \* the return temperature: [shows, age]; "fit", "outside", or None
    ignition, \* burn_started_at: [id, age] or None, with the number of ignitions
    estimate, \* _efficiency_seen_start, _interrupted_start, _observed_inputs and _sample
    average,  \* _efficiency_last_at, _burn_start, whether _burn_weight > 0; with the ticks
              \* that burned since the last cycle, and whether it added no more than those
    tracker,  \* BurnTracker: start and last_at as ages, last_power
    row,      \* the burn logged by this step: its length, and the length of the real one
    late      \* ticks since the last cycle

ledgerVars == <<flame, heat, power, return, ignition, estimate, average, tracker, row, late>>

Idle == [start |-> None, silent |-> 0, held |-> None]
Blank == [seen |-> None, cut |-> None, observed |-> FALSE, sample |-> FALSE]

Init ==
    /\ flame = [on |-> FALSE, age |-> 0, last |-> 0]
    /\ heat = "off"
    /\ power = [shows |-> 0, age |-> 0] /\ return = [shows |-> "fit", age |-> 0]
    /\ ignition = [id |-> None, age |-> 0, count |-> 0]
    /\ estimate = Blank
    /\ average = [at |-> None, start |-> None, weighed |-> FALSE, burned |-> 0, sound |-> TRUE]
    /\ tracker = Idle
    /\ row = None
    /\ late = 0

Least(a, b) == IF a < b THEN a ELSE b

\* _update_efficiency, on every event of the three entities and in the cycle.
Lacking(h, p, r) ==
    \/ h # "on" \/ p.shows # 1 \/ p.age > FreshFor
    \/ r.shows = None \/ r.age > FreshFor

Estimated(h, p, r, i) ==
    LET e == IF i.id = estimate.seen THEN estimate
             ELSE [Blank EXCEPT !.seen = i.id]
        none == [e EXCEPT !.sample = FALSE]
    IN  IF Lacking(h, p, r)
        THEN IF i.id # None /\ (e.observed \/ i.age >= Startup)
             THEN [none EXCEPT !.cut = i.id] ELSE none
        ELSE IF i.id = None \/ i.id = e.cut THEN none
        ELSE IF p.age > i.age \/ r.age > i.age THEN none
        ELSE [e EXCEPT !.observed = TRUE,
                       !.sample = i.age >= Startup /\ r.shows = "fit"]

\* _handle_heating_active_event: only an exact off to on is an ignition.
Ignited(h) ==
    IF h = "gone" THEN [ignition EXCEPT !.id = None, !.age = 0]
    ELSE IF heat = "off" /\ h = "on"
         THEN [id |-> ignition.count + 1, age |-> 0, count |-> ignition.count + 1]
    ELSE IF heat = "on" /\ h = "off" THEN [ignition EXCEPT !.id = None, !.age = 0]
    ELSE ignition

HeatReports(h) ==
    /\ h # heat
    /\ heat = "off" /\ h = "on" => ignition.count < MaxBurns
    /\ heat' = h
    /\ ignition' = Ignited(h)
    /\ estimate' = Estimated(h, power, return, Ignited(h))
    /\ row' = None
    /\ UNCHANGED <<flame, power, return, average, tracker, late>>

\* BurnTracker.update.  A burn is logged at its zero; it is given up when the reading is
\* lost or was silent for too long.  The zero that ends a silence is forgotten with it.
Track(p) ==
    IF tracker.start # None
    THEN IF p = None \/ tracker.silent > Silence THEN Idle
         ELSE IF p = 0 THEN [Idle EXCEPT !.held = 0]
         ELSE [tracker EXCEPT !.silent = 0, !.held = p]
    ELSE IF p = 1 /\ tracker.held = 0 THEN [start |-> 0, silent |-> 0, held |-> 1]
    ELSE [Idle EXCEPT !.held = p]

\* The row that update returns, next to the length of the burn that the flame really had.
Row(p, real) ==
    IF tracker.start # None /\ tracker.silent <= Silence /\ p = 0
    THEN [length |-> tracker.start, real |-> real] ELSE None

\* A report of the modulation, changed or not (_handle_burn_event, _handle_efficiency_event).
PowerReports(p) ==
    /\ power' = [shows |-> p, age |-> 0]
    /\ tracker' = Track(p)
    /\ row' = Row(p, flame.last)
    /\ estimate' = Estimated(heat, power', return, ignition)
    /\ UNCHANGED <<flame, heat, return, ignition, average, late>>

ReturnReports(r) ==
    /\ return' = [shows |-> r, age |-> 0]
    /\ estimate' = Estimated(heat, power, return', ignition)
    /\ row' = None
    /\ UNCHANGED <<flame, heat, power, ignition, average, tracker, late>>

-----------------------------------------------------------------------------
\* The controller's cycle: _update_efficiency, then _accumulate_efficiency.
Added(sample) == IF sample /\ average.at # None THEN Least(average.at, MaxGap) ELSE 0

Accumulated(e) ==
    LET same == ignition.id = average.start
        added == Added(e.sample)
    IN  [at |-> IF e.sample THEN 0 ELSE None,
         start |-> ignition.id,
         weighed |-> (same /\ average.weighed) \/ added > 0,
         burned |-> 0,
         sound |-> added <= average.burned]

Poll ==
    /\ late > 0
    /\ late' = 0
    /\ estimate' = Estimated(heat, power, return, ignition)
    /\ average' = Accumulated(estimate')
    /\ row' = None
    /\ UNCHANGED <<flame, heat, power, return, ignition, tracker>>

-----------------------------------------------------------------------------
\* External: the flame, what the entities are told of it, outages, and time.
Told == /\ heat = (IF flame.on THEN "on" ELSE "off") \/ heat = "gone"
        /\ power.shows = (IF flame.on THEN 1 ELSE 0) \/ power.shows = None

\* Each entity reports a change before the next one.
FlameChanges ==
    /\ Told
    /\ flame' = [on |-> ~flame.on, age |-> 0,
                 last |-> IF flame.on THEN flame.age ELSE 0]
    /\ row' = None
    /\ UNCHANGED <<heat, power, return, ignition, estimate, average, tracker, late>>

Reports ==
    \/ HeatReports(IF flame.on THEN "on" ELSE "off")
    \/ HeatReports("gone")
    \/ PowerReports(IF flame.on THEN 1 ELSE 0)
    \/ power.shows # None /\ PowerReports(None)
    \/ \E r \in {"fit", "outside", None} : r # return.shows /\ ReturnReports(r)

\* A new process knows nothing of the burn, and reads every entity as it is.
Restart ==
    /\ ignition' = [id |-> None, age |-> 0, count |-> 0]
    /\ estimate' = Blank
    /\ average' = [at |-> None, start |-> None, weighed |-> FALSE, burned |-> 0, sound |-> TRUE]
    /\ tracker' = Idle
    /\ row' = None
    /\ UNCHANGED <<flame, heat, power, return, late>>

Older(a) == Least(Longest, a + 1)

Tick ==
    /\ Told /\ late < Lag
    /\ late' = late + 1
    /\ flame' = [flame EXCEPT !.age = Older(@)]
    /\ power' = [power EXCEPT !.age = Older(@)]
    /\ return' = [return EXCEPT !.age = Older(@)]
    /\ ignition' = IF ignition.id = None THEN ignition ELSE [ignition EXCEPT !.age = Older(@)]
    /\ average' = [average EXCEPT !.at = IF @ = None THEN None ELSE @ + 1,
                                  !.burned = @ + (IF flame.on THEN 1 ELSE 0)]
    /\ tracker' = IF tracker.start = None THEN tracker
                  ELSE [tracker EXCEPT !.start = Older(@), !.silent = Older(@)]
    /\ row' = None
    /\ UNCHANGED <<heat, estimate>>

Next == FlameChanges \/ Reports \/ Poll \/ Restart \/ Tick

Spec == Init /\ [][Next]_ledgerVars

-----------------------------------------------------------------------------
Ages == 0..Longest

TypeOK ==
    /\ flame \in [on : BOOLEAN, age : Ages, last : Ages] /\ heat \in {"on", "off", "gone"}
    /\ power \in [shows : {0, 1, None}, age : Ages]
    /\ return \in [shows : {"fit", "outside", None}, age : Ages]
    /\ ignition \in [id : 1..MaxBurns \union {None}, age : Ages, count : 0..MaxBurns]
    /\ estimate \in [seen : 1..MaxBurns \union {None}, cut : 1..MaxBurns \union {None},
                     observed : BOOLEAN, sample : BOOLEAN]
    /\ average \in [at : 0..Lag \union {None}, start : 1..MaxBurns \union {None},
                    weighed : BOOLEAN, burned : 0..Lag, sound : BOOLEAN]
    /\ tracker \in [start : Ages \union {None}, silent : Ages, held : {0, 1, None}]
    /\ row \in [length : Ages, real : Ages] \union {None}
    /\ late \in 0..Lag

\* "A burn already running when tracking began (an HA restart)" or "whose readings go
\* unavailable" is not logged (core/cycling.py, BurnTracker): a logged burn is one that the
\* flame had, from its start to its end, over any outages and restarts.
LoggedBurnsAreReal == row # None => row.length = row.real

\* The averages never count more minutes than the flame burned, whatever the cycles missed.
\* (core/efficiency.py: "gaps count at most MAX_ELAPSED_SECONDS".)
CountedMinutesBurned == average.sound

\* An estimate is of a flame that is past its start-up, on the evidence of a start that was
\* seen: never of a burn joined in the middle (_handle_heating_active_event).
EstimateIsWarm ==
    estimate.sample /\ heat = "on" /\ flame.on => flame.age >= Startup
=============================================================================
