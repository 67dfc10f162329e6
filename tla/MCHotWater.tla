----------------------------- MODULE MCHotWater -----------------------------
(***************************************************************************)
(* Small instances of the three parts that write to the hot water: the     *)
(* target schedule, the cut-off and the shortened reheat period.  They     *)
(* share no state; each behaviour is one of them, the others rest.         *)
(***************************************************************************)
EXTENDS DhwSchedule

CONSTANTS
    \* DhwCutoff
    Hold, RenewBefore, MaxHold, Echo, Stops, Wait,
    \* AntiCycle
    Entities, Periods, Wanted, Shows, OffWait, TryAgain, MaxFaults, MaxChanges

VARIABLES
    part,  \* the component of this behaviour
    \* DhwCutoff
    heater, view, air, demand, reading, hold, gaveUp, charge, request, off, tries,
    \* AntiCycle
    number, options, call, auto, guard, memory, acDisk, ready, ac, sending, normal, faults,
    changes

\* What happens in a behaviour of the schedule beside its own steps: one set of each.
Weekly == [hands |-> {High, Other}, choices |-> {},
           faults |-> {"crash", "save", "lost", "back"}]
Options == [hands |-> {Other}, choices |-> {}, faults |-> {"options", "crash"}]
Visits == [hands |-> {}, choices |-> {"off", "timed"}, faults |-> {"crash"}]
Guests == [hands |-> {Other}, choices |-> {"open"}, faults |-> {}]
Unsaved == [hands |-> {}, choices |-> {"open"}, faults |-> {"save"}]
Everything == {Weekly, Options, Visits, Guests, Unsaved}

\* The reheat periods asked for.
Minutes == [dhw |-> 1, catchup |-> 2]
Lengths == 1..3

Cutoff == INSTANCE DhwCutoff WITH Confirm <- Echo, MaxAttempts <- Stops
AntiCycle == INSTANCE AntiCycle WITH Confirm <- Shows, disk <- acDisk

ASSUME CutoffAssumptionHere == Cutoff!CutoffAssumption
ASSUME AntiCycleAssumptionHere == AntiCycle!AntiCycleAssumption

ScheduleVars ==
    <<bounds, mem, disk, saves, life, pc, cmd, written, resent, evidence, usable, issue,
    repair, asked, tod, armed, zone, radio, shown, raises>>
CutoffVars ==
    <<heater, view, air, demand, reading, hold, gaveUp, charge, request, off, tries>>
AntiCycleVars ==
    <<number, options, call, auto, guard, memory, acDisk, ready, ac, sending, normal, faults,
    changes>>

SuiteInit ==
    /\ part \in {"schedule", "cutoff", "anticycle"}
    /\ Init
    /\ part # "schedule" => bounds = Weekly /\ zone.val = Other
    /\ Cutoff!Init
    /\ AntiCycle!Init
    /\ part # "anticycle" => number = [e \in Entities |-> CHOOSE p \in Periods : TRUE]

\* The component of the behaviour takes a step; the others rest.
SuiteNext ==
    \/ /\ part = "schedule" /\ Next
       /\ UNCHANGED <<part, CutoffVars, AntiCycleVars>>
    \/ /\ part = "cutoff" /\ Cutoff!Next
       /\ UNCHANGED <<part, ScheduleVars, AntiCycleVars>>
    \/ /\ part = "anticycle" /\ AntiCycle!Next
       /\ UNCHANGED <<part, ScheduleVars, CutoffVars>>

suiteVars == <<part, ScheduleVars, CutoffVars, AntiCycleVars>>

SuiteSpec == SuiteInit /\ [][SuiteNext]_suiteVars

-----------------------------------------------------------------------------
\* The types of the three components.
SuiteTypeOK ==
    /\ part = "schedule" => TypeOK
    /\ part = "cutoff" => Cutoff!TypeOK
    /\ part = "anticycle" => AntiCycle!TypeOK

\* The water is off for MAX_HOLD at most, and an unanswered stop is not sent for ever (DhwCutoff).
StopsAreBounded == part = "cutoff" => Cutoff!OffBounded /\ Cutoff!UnansweredBounded

\* What was raised or lowered is on the disk with the value to put back (DhwSchedule, AntiCycle).
ChangesAreRecorded ==
    /\ part = "schedule" => RaisedIsRecorded
    /\ part = "anticycle" => AntiCycle!LoweredIsRecorded

\* The reheat period is never raised above the normal value (AntiCycle).
NeverRaised == AntiCycle!NeverRaised
=============================================================================
