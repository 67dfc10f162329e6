---------------------------- MODULE HeatingTrims ----------------------------
(***************************************************************************)
(* The three slow corrections of the heating flow (control/boiler/         *)
(* coordinator.py, _cycle; core/curve.py, core/control.py): of sustained   *)
(* high or low demand, of a hot return, and of rooms that do not recover.  *)
(*                                                                         *)
(* Corrections are counted in steps.  A cycle follows the last one by a    *)
(* minute, or by a gap: while the setpoint cannot be read no cycle comes   *)
(* this far.                                                               *)
(***************************************************************************)
EXTENDS Integers, FiniteSets

CONSTANTS
    None,
    Scenes,      \* what a cycle can read: see Scene below
    Sustain,     \* sustain_minutes
    Period,      \* step_period_minutes
    MaxSteps,    \* max_k in steps
    MaxTrim,     \* floor_k in minutes of step_k
    LongestStep, \* minutes a return step counts for at most
    Settle,      \* minutes of heating before the return counts
    Window,      \* minutes of a room's trend
    Gap          \* minutes of a gap

\* What a cycle reads: what the boiler does; the level of the demand; the return; one room; whether the
\* return counts once heating has settled: water circulates, the target is above its floor and
\* no room is cold.
RoomReading == [short : BOOLEAN, rising : BOOLEAN, target : Nat]
Samples == [age : 0..(2 * Window), target : Nat]
Scene == [mode : {"heating", "water", "idle"}, level : {"high", "low", "between", None},
          return : {"hot", "cool", "near", None}, room : RoomReading \union {None}, free : BOOLEAN]

TrimsAssumption ==
    /\ {Sustain, Period, MaxSteps, MaxTrim, LongestStep, Settle, Window, Gap} \subseteq Nat \ {0}
    /\ Scenes \subseteq Scene
    /\ None \notin Int /\ None \notin RoomReading /\ None \notin Samples
    /\ None \notin {"high", "low", "between", "hot", "cool", "near"}

VARIABLES
    demand,   \* DemandCorrectionState: [steps, high, low, last], ages of the moments or None
    trim,     \* ReturnCorrectionState: [minutes, sampled], sampled: whether sampled_at is set
    sample,   \* RoomFeedback.samples of one room: [age, temp, target], or None
    heating,  \* age of heating_since, or None
    comfort,  \* correction of RoomFeedback in force
    side,     \* history: minutes the demand has been seen high, negative low, 0 neither
    hot,      \* history: minutes of settled heating with a hot return not yet decayed
    cold      \* history: minutes the room has been short on one target without recovering

trimsVars == <<demand, trim, sample, heating, comfort, side, hot, cold>>

Lesser(a, b) == IF a <= b THEN a ELSE b
Greater(a, b) == IF a >= b THEN a ELSE b
Oldest == Greater(Sustain, Greater(Period, Greater(Settle, 2 * Window)))
Older(age, minutes) == IF age = None THEN None ELSE Lesser(age + minutes, Oldest)
FromNow(age, minutes) == IF age = None THEN 0 ELSE Older(age, minutes)

NoDemand == [steps |-> 0, high |-> None, low |-> None, last |-> None]
NoTrim == [minutes |-> 0, sampled |-> FALSE]

Init ==
    /\ demand = NoDemand /\ trim = NoTrim /\ sample = None /\ heating = None /\ comfort = 0
    /\ side = 0 /\ hot = 0 /\ cold = None

-----------------------------------------------------------------------------
Due(minutes) == demand.last = None \/ demand.last + minutes >= Period
TowardsZero(n) == IF n > 0 THEN n - 1 ELSE IF n < 0 THEN n + 1 ELSE 0

Raised_Unclamped(steps) == steps + 1
Raised(steps) == Lesser(MaxSteps, steps + 1)

\* demand_correction_step; level: "high", "low", "between" or None.
DemandStep(level, active, minutes) ==
    LET high == IF active /\ level = "high" THEN FromNow(demand.high, minutes) ELSE None
        low == IF active /\ level = "low" THEN FromNow(demand.low, minutes) ELSE None
        to == CASE ~active -> TowardsZero(demand.steps)
                [] active /\ level = "high" /\ high >= Sustain -> Raised(demand.steps)
                [] active /\ level = "low" /\ low >= Sustain -> Greater(-MaxSteps, demand.steps - 1)
                [] active /\ level = "between" -> TowardsZero(demand.steps)
                [] OTHER -> demand.steps
        stepped == \/ ~active /\ demand.steps # 0
                   \/ active /\ level = "high" /\ high >= Sustain
                   \/ active /\ level = "low" /\ low >= Sustain
                   \/ active /\ level = "between" /\ demand.steps # 0
    IN IF level = None
       THEN [demand EXCEPT !.high = None, !.low = None, !.last = Older(@, minutes)]
       ELSE [steps |-> IF Due(minutes) THEN to ELSE demand.steps,
             high |-> high, low |-> low,
             last |-> IF Due(minutes) /\ stepped THEN 0 ELSE Older(demand.last, minutes)]

\* return_ceiling_step: a gap counts for LongestStep at most, stale data takes the trim away,
\* and a hot water charge only moves the time origin.
ReturnStep(return, water, active, minutes) ==
    LET step == IF trim.sampled THEN Lesser(LongestStep, minutes) ELSE 0
    IN IF water THEN [trim EXCEPT !.sampled = TRUE]
       ELSE IF return = None THEN [minutes |-> 0, sampled |-> TRUE]
       ELSE IF ~active \/ return = "cool"
            THEN [minutes |-> Greater(0, trim.minutes - step), sampled |-> TRUE]
       ELSE IF return = "hot" THEN [minutes |-> Lesser(MaxTrim, trim.minutes + step), sampled |-> TRUE]
       ELSE [trim EXCEPT !.sampled = TRUE]

\* RoomFeedback.update, one room a kelvin or more below its target or not (short), that has
\* gained enough since the sample or not (rising).  None: the room cannot be read.
RoomSample(room, active, minutes) ==
    IF room = None \/ ~active \/ ~room.short THEN None
    ELSE IF sample = None THEN [age |-> 0, target |-> room.target]
    ELSE IF sample.target # room.target THEN [age |-> 0, target |-> room.target]
    ELSE LET age == Older(sample.age, minutes)
         IN [sample EXCEPT !.age = IF age >= 2 * Window THEN Window ELSE age]

RoomHelp(room, after) ==
    IF after # None /\ after.age >= Window /\ ~room.rising THEN 1 ELSE 0

-----------------------------------------------------------------------------
\* One cycle.
Cycle(minutes) ==
    \E scene \in Scenes :
        LET active == scene.mode = "heating"
            level == scene.level
            return == scene.return
            room == scene.room
            since == IF active THEN FromNow(heating, minutes) ELSE None
            settled == since # None /\ since >= Settle /\ scene.free
            after == RoomSample(room, active, minutes)
        IN /\ heating' = since
           /\ demand' = DemandStep(level, active, minutes)
           /\ trim' = ReturnStep(return, scene.mode = "water", settled, minutes)
           /\ sample' = after
           /\ comfort' = RoomHelp(room, after)
           /\ side' = (CASE active /\ level = "high" -> IF side > 0 THEN Lesser(side + minutes, Oldest + 1) ELSE 1
                         [] active /\ level = "low" -> IF side < 0 THEN Greater(side - minutes, -Oldest - 1) ELSE -1
                         [] OTHER -> 0)
           /\ hot' = (IF settled /\ return = "hot" /\ trim.sampled
                      THEN Lesser(hot + Lesser(LongestStep, minutes), MaxTrim)
                      ELSE IF return = None /\ scene.mode # "water" THEN 0 ELSE hot)
           /\ cold' = (IF ~active \/ room = None THEN None
                       ELSE IF ~room.short THEN None
                       ELSE IF cold = None \/ cold.target # room.target
                       THEN [age |-> 0, target |-> room.target]
                       ELSE [cold EXCEPT !.age = Lesser(@ + minutes, Window)])

CycleEachMinute == Cycle(1)
CycleAfterGap == Cycle(Gap)

\* enabled.setter and override.setter: a new ControlState.
Switched ==
    /\ demand' = NoDemand /\ trim' = NoTrim /\ sample' = None /\ heating' = None /\ comfort' = 0
    /\ side' = 0 /\ hot' = 0 /\ cold' = None

Next == CycleEachMinute \/ CycleAfterGap \/ Switched

Spec == Init /\ [][Next]_trimsVars

-----------------------------------------------------------------------------
Ages == (0..Oldest) \union {None}

TypeOK ==
    /\ demand \in [steps : -MaxSteps..MaxSteps, high : Ages, low : Ages, last : Ages]
    /\ trim \in [minutes : 0..MaxTrim, sampled : BOOLEAN]
    /\ sample \in Samples \union {None}
    /\ heating \in Ages /\ comfort \in 0..1
    /\ hot \in 0..MaxTrim

Magnitude(n) == IF n < 0 THEN -n ELSE n

\* No correction is earned by anything but what it answers to: the demand's by heating with the
\* demand on its side for all of Sustain ("idle/dhw cannot accumulate"), the return's by the
\* minutes of settled heating with a hot return since it was last without data ("an HA outage
\* cannot create a large accumulated step"), the rooms' by one that has been cold on one target
\* for all of Window; whatever charges, gaps, silence and switches come in between.
TrimsAreEarned ==
    [][/\ Magnitude(demand'.steps) > Magnitude(demand.steps)
              => IF demand'.steps > 0 THEN side' > Sustain ELSE side' < -Sustain
       /\ trim'.minutes <= hot'
       /\ comfort' > 0 => cold' # None /\ cold'.age >= Window]_trimsVars
=============================================================================
