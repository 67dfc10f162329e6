------------------------------- MODULE Preheat -------------------------------
(***************************************************************************)
(* The planned pre-heat of one room (optimum/coordinator.py, preheat.py)   *)
(* with its two readers: the room controller, which warms the room, and    *)
(* the boiler, which lifts the flow (control/runtime.py, preheat_hint and  *)
(* _preheat_room).  The planner's step runs every five minutes, the unit   *)
(* of time; the readers' cycles run every minute, at any point between.    *)
(*                                                                         *)
(* What the predictor learned is a prediction of any of a few lengths.     *)
(***************************************************************************)
EXTENDS Integers, FiniteSets

CONSTANTS
    None,
    Horizon,       \* bound on the clock
    Switchpoints,  \* times of upward switchpoints the schedule may show
    Heatings,      \* heating_minutes a prediction may give; 0: nothing to climb
    Boosted(_),    \* the same at the boost flow
    MaxLead,       \* max_lead_minutes
    Margin,        \* margin_minutes
    Grace,         \* grace_minutes of dhw_wait_deadline
    Near,          \* how far a plan may be from the zone's own switchpoint
    ScoreAfter,    \* PREHEAT_SCORE_AFTER
    Charges,       \* expected lengths of a charge of hot water
    ChargeTimes,   \* when the cylinder's schedule may next turn it on
    Modes,         \* "active", "shadow"
    MaxEdits,      \* bound: changes of the next switchpoint
    MaxRestarts,   \* bound
    MaxFailures    \* bound: steps whose save fails

VARIABLES
    now,
    mode,       \* preheat_mode
    ahead,      \* the zone's next switchpoint, when it is upward, or None
    plan,       \* plans[room], see PlanSet, or None
    finishing,  \* a started plan past its switchpoint, or None
    dirty,      \* _dirty
    disk,       \* the plan in the store
    charging,   \* dhw_active of the boiler
    since,      \* _dhw_since
    length,     \* charge_length(dhw_charges)
    stepped,    \* this unit's step is done
    scored,     \* history: the switchpoints whose warm-up was scored, in order
    edits, restarts, failures

bounds == <<edits, restarts, failures>>
preheatVars ==
    <<now, mode, ahead, plan, finishing, dirty, disk, charging, since, length,
      stepped, scored, bounds>>

Lesser(a, b) == IF a <= b THEN a ELSE b
Greater(a, b) == IF a >= b THEN a ELSE b
Distance(a, b) == Greater(a, b) - Lesser(a, b)

\* Expected minutes, from the start on, are heating (delay and climb); late is the risk told;
\* begin is started_at, None until the plan is latched.
PlanSet ==
    [switch : Nat, start : Int, latest : Int, heating : Nat, late : Nat,
     begin : Nat \cup {None}]
Started(p) == p # None /\ p.begin # None

PreheatAssumption ==
    /\ {Horizon, MaxLead, Margin, Grace, Near, ScoreAfter} \subseteq Nat
    /\ Switchpoints \cup ChargeTimes \subseteq Nat
    /\ Heatings \subseteq Nat /\ Charges \subseteq Nat \ {0}
    /\ {MaxEdits, MaxRestarts, MaxFailures} \subseteq Nat
    /\ None \notin Nat /\ None \notin PlanSet
    /\ \A h \in Heatings : Boosted(h) \in 0..h

Init ==
    /\ now = 0 /\ mode \in Modes /\ ahead \in Switchpoints \cup {None}
    /\ plan = None /\ finishing = None /\ dirty = FALSE /\ disk = None
    /\ charging = FALSE /\ since = None /\ length \in Charges
    /\ stepped = FALSE /\ scored = [s \in Switchpoints |-> 0] /\ edits = 0 /\ restarts = 0 /\ failures = 0

-----------------------------------------------------------------------------
(* The planner's step *)

\* predict_start: heating with the margin, no longer than the longest lead.
Lead(heating) == Lesser(MaxLead, heating + Margin)

\* avoid_charge: a start that would run into the next scheduled charge moves to its end.
Overlaps(start, on) == on # None /\ start < on + length /\ on < ahead
AvoidCharge(heating, on) ==
    LET start == ahead - Lead(heating)
        end == on + length
    IN  IF Overlaps(start, on)
        THEN [start |-> Lesser(end, ahead), late |-> Greater(0, end + Lead(heating) - ahead)]
        ELSE [start |-> start, late |-> 0]

NewPlan(heating, on) ==
    LET avoided == AvoidCharge(heating, on)
    IN  [switch |-> ahead, start |-> avoided.start,
         latest |-> ahead - IF Boosted(heating) > 0 THEN Lead(Boosted(heating)) ELSE Lead(heating),
         heating |-> heating,
         late |-> Greater(avoided.late, Greater(0, heating + Margin - MaxLead)),
         begin |-> None]

\* _retire_plan.
Retires == plan # None /\ now >= plan.switch
Kept == IF Retires THEN None ELSE plan

\* _plan; heating None: no prediction, because of no fit, no reading, no switchpoint in reach.
Planned(heating, on) ==
    IF heating = None \/ Started(Kept) THEN Kept
    ELSE IF heating = 0 THEN IF Kept # None /\ Kept.switch = ahead THEN None ELSE Kept
    ELSE NewPlan(heating, on)

Predictions ==
    {None} \cup IF ahead # None /\ ahead - now <= MaxLead THEN Heatings ELSE {}
Predicts(heating) == heating # None /\ heating > 0 /\ ~Started(Kept)

\* _retire_plan and _advance_plan: a started plan past its switchpoint waits for its score.
Finishing == IF Retires /\ Started(plan) THEN plan ELSE finishing
ScoreDue(p) == p # None /\ now >= p.switch + ScoreAfter

\* _track_dhw: the length of a charge is learned when it is over.
Tracked == IF charging THEN IF since = None THEN now ELSE since ELSE None
Learns(to) == IF ~charging /\ since # None THEN to \in Charges ELSE to = length

\* What is saved: the plan after the step, if anything changed; before it also whenever the
\* hourly learning ran (early).
Changes(to, done) == dirty \/ to # plan \/ done # finishing \/ length' # length
Save(to, done, early, saved) ==
    /\ saved \/ (Changes(to, done) /\ failures < MaxFailures)
    /\ disk' = IF Changes(to, done) /\ saved THEN to ELSE IF early THEN plan ELSE disk
    /\ failures' = IF saved THEN failures ELSE failures + 1

Watched == since' = Tracked /\ \E to \in Charges : Learns(to) /\ length' = to

Step ==
    /\ ~stepped
    /\ Watched
    /\ \E heating \in Predictions, early \in BOOLEAN, saved \in BOOLEAN :
       \E on \in IF Predicts(heating) THEN {None} \cup {t \in ChargeTimes : t >= now} ELSE {None} :
       /\ plan' = Planned(heating, on)
       /\ finishing' = IF ScoreDue(Finishing) THEN None ELSE Finishing
       /\ scored' = IF ScoreDue(Finishing)
                    THEN [scored EXCEPT ![Finishing.switch] = Lesser(2, @ + 1)] ELSE scored
       /\ dirty' = FALSE
       /\ Save(plan', finishing', early, saved)
    /\ stepped' = TRUE
    /\ UNCHANGED <<now, mode, ahead, charging, edits, restarts>>

\* A step that raises: the forecast or the learning, before the hot water has been looked at,
\* or a prediction, after it.
StepFails ==
    /\ ~stepped /\ stepped' = TRUE
    /\ Watched \/ UNCHANGED <<since, length>>
    /\ UNCHANGED <<now, mode, ahead, plan, finishing, dirty, disk, charging, scored, bounds>>

-----------------------------------------------------------------------------
(* The readers *)

\* dhw_wait_deadline.
Deadline_Grace(p) == (IF since = None THEN now ELSE since) + length + Grace
Deadline(p) ==
    LET grace == (IF since = None THEN now ELSE since) + length + Grace
    IN  IF p.latest <= grace THEN Greater(p.latest, p.start) ELSE grace

Due(p) ==
    /\ ~Started(p) /\ now >= p.start
    /\ charging => now >= Deadline(p)

\* PreheatPlan.start.
Begun(p) ==
    [p EXCEPT !.begin = now, !.late = Greater(@, now + p.heating + Margin - p.switch)]

\* Optimum.preheat: the plan as its readers see it, latched by the first that finds it due.
Seen == IF plan # None /\ now < plan.switch THEN IF Due(plan) THEN Begun(plan) ELSE plan
        ELSE None
Latch ==
    /\ plan' = IF Seen = None THEN plan ELSE Seen
    /\ dirty' = (dirty \/ plan' # plan)

\* The room controller's cycle, which asks for the plan when an upward switchpoint is ahead;
\* the boiler's (preheat_rooms) asks for it except during a charge.
RoomCycle ==
    /\ ahead # None /\ Latch
    /\ UNCHANGED <<now, mode, ahead, finishing, disk, charging, since, length, stepped,
                   scored, bounds>>
BoilerCycle ==
    /\ ~charging /\ Latch
    /\ UNCHANGED <<now, mode, ahead, finishing, disk, charging, since, length, stepped,
                   scored, bounds>>

\* _preheat_now: the room is asked to warm for its own next switchpoint only; the boiler
\* lifts the flow for any plan that has started.
RoomIsAsked == ahead # None /\ Started(Seen) /\ Distance(Seen.switch, ahead) <= Near
BoilerLifts == ~charging /\ Started(Seen)

-----------------------------------------------------------------------------
(* The surroundings *)

ChargeStarts ==
    /\ ~charging /\ charging' = TRUE
    /\ UNCHANGED <<now, mode, ahead, plan, finishing, dirty, disk, since, length,
                   stepped, scored, bounds>>
ChargeEnds ==
    /\ charging /\ charging' = FALSE
    /\ UNCHANGED <<now, mode, ahead, plan, finishing, dirty, disk, since, length,
                   stepped, scored, bounds>>

\* The schedule is edited, or its next change comes into view.
ScheduleShows ==
    /\ edits < MaxEdits /\ edits' = edits + 1
    /\ ahead' \in ({None} \cup {s \in Switchpoints : s > now}) \ {ahead}
    /\ UNCHANGED <<now, mode, plan, finishing, dirty, disk, charging, since, length,
                   stepped, scored, restarts, failures>>

\* A restart, or a reload with other options.
Restart ==
    /\ restarts < MaxRestarts /\ restarts' = restarts + 1
    /\ mode' \in Modes
    /\ plan' = disk /\ finishing' = None /\ dirty' = FALSE /\ since' = None
    /\ stepped' = FALSE
    /\ length' \in Charges
    /\ UNCHANGED <<now, ahead, disk, charging, scored, edits, failures>>

\* Five minutes pass only with a step tried.
Tick ==
    /\ now < Horizon /\ stepped
    /\ now' = now + 1
    /\ stepped' = FALSE
    /\ ahead' = IF ahead # None /\ ahead <= now' THEN None ELSE ahead
    /\ UNCHANGED <<mode, plan, finishing, dirty, disk, charging, since, length, scored, bounds>>

Next ==
    \/ Step \/ StepFails \/ RoomCycle \/ BoilerCycle
    \/ ChargeStarts \/ ChargeEnds \/ ScheduleShows \/ Restart \/ Tick

Spec == Init /\ [][Next]_preheatVars

-----------------------------------------------------------------------------
TypeOK ==
    /\ now \in 0..Horizon /\ mode \in Modes /\ ahead \in Switchpoints \cup {None}
    /\ {plan, finishing, disk} \subseteq PlanSet \cup {None}
    /\ {dirty, charging, stepped} \subseteq BOOLEAN
    /\ since \in 0..Horizon \cup {None} /\ length \in Charges
    /\ scored \in [Switchpoints -> 0..2]

\* A start latched by a reader is on the disk after the next step that saves, although that
\* step clears the flag before it saves, and a reader may set it again meanwhile (preheat,
\* _step); and each warm-up is scored once, unless a save failed.
PlansAreDurable ==
    failures = 0 =>
        /\ Started(plan) /\ ~dirty => disk # None /\ disk.begin = plan.begin
        /\ \A s \in Switchpoints : scored[s] <= 1

\* "Once the pre-heat has begun the plan stops moving" (PreheatPlan): until its switchpoint
\* only a restart takes it, whatever the schedule, the predictions and hot water do.
StartedPlanHolds ==
    [][Started(plan) /\ now < plan.switch /\ restarts' = restarts
         => plan' = plan]_preheatVars

\* Hot water holds a start that has come up no longer than until even the boost flow would be
\* late: then, however many charges and restarts there were, whoever reads the plan finds it
\* started.  (A start that was planned behind a charge, and late, begins when it comes up.)
WaitIsBounded ==
    plan # None /\ now < plan.switch /\ now >= plan.start /\ now >= plan.latest => Started(Seen)

\* "A restart in the middle of a warm-up carries on" (the coordinator's docstring).
WarmupSurvives ==
    [][Started(plan) /\ now < plan.switch => Started(plan')]_preheatVars

\* The boiler lifts the flow for "a room that is pre-heating now" (PreheatRoom).
BoilerFollowsTheRoom == mode = "active" /\ BoilerLifts => RoomIsAsked
=============================================================================
