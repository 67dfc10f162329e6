----------------------------- MODULE MCReturns -----------------------------
(***************************************************************************)
(* Small instances, under fairness, of what must be put back or brought to *)
(* an end: a raised target, a lowered reheat period, a schedule transfer   *)
(* and a transfer of identities.  Each behaviour is one component's        *)
(* (part), the others rest; a condition of fairness names one action of    *)
(* each.                                                                   *)
(***************************************************************************)
EXTENDS DhwSchedule

CONSTANTS e1, a, u1

VARIABLES
    part,  \* the component of this behaviour
    \* AntiCycle
    number, options, call, auto, guard, memory, acDisk, ready, ac, sending, normal, faults,
    changes,
    \* ScheduleFetch
    fetch, known, kept, cached, present, running,
    \* IdentityMigration
    registry, saved, items, idKept, planned, idCall, active, idFaults

\* What happens in a behaviour of the target schedule beside its own steps.
Refused == [hands |-> {Other}, choices |-> {}, faults |-> {"lost"}]
NotSaved == [hands |-> {}, choices |-> {}, faults |-> {"lost", "save"}]
Timed == [hands |-> {}, choices |-> {"timed"}, faults |-> {}]
Ends == {Refused, NotSaved, Timed}

AntiCycle ==
    INSTANCE AntiCycle WITH
        Entities <- {e1}, Periods <- 1..3, Wanted <- [dhw |-> 1, catchup |-> 2],
        Confirm <- 1, OffWait <- 1, TryAgain <- 2, MaxFaults <- 1, MaxChanges <- 0,
        disk <- acDisk
Fetcher ==
    INSTANCE ScheduleFetch WITH
        Rooms <- {a}, Interval <- 1, Cap <- 2, Failures <- 1
Identity ==
    INSTANCE IdentityMigration WITH
        Items <- {u1}, RegistryLosses <- FALSE, MaxSaveFailures <- 0, MaxCrashes <- 1,
        MaxForeign <- 1, kept <- idKept, call <- idCall, faults <- idFaults


ScheduleVars ==
    <<bounds, mem, disk, saves, life, pc, cmd, written, resent, evidence, usable, issue,
    repair, asked, tod, armed, zone, radio, shown, raises>>
AntiCycleVars ==
    <<number, options, call, auto, guard, memory, acDisk, ready, ac, sending, normal, faults,
    changes>>
FetcherVars ==
    <<fetch, known, kept, cached, present, running>>
IdentityVars ==
    <<registry, saved, items, idKept, planned, idCall, active, idFaults>>

\* A step of one component, the others at rest.
InSchedule(A) ==
    /\ part = "schedule" /\ A
    /\ UNCHANGED <<part, AntiCycleVars, FetcherVars, IdentityVars>>
InAntiCycle(A) ==
    /\ part = "anticycle" /\ A
    /\ UNCHANGED <<part, ScheduleVars, FetcherVars, IdentityVars>>
InFetcher(A) ==
    /\ part = "fetch" /\ A
    /\ UNCHANGED <<part, ScheduleVars, AntiCycleVars, IdentityVars>>
InIdentity(A) ==
    /\ part = "identity" /\ A
    /\ UNCHANGED <<part, ScheduleVars, AntiCycleVars, FetcherVars>>

SuiteInit ==
    /\ part \in {"schedule", "anticycle", "fetch", "identity"}
    /\ Init
    /\ part # "schedule" => bounds = Timed
    /\ AntiCycle!Init
    /\ part # "anticycle" => number[e1] = 3
    /\ Fetcher!Init
    /\ Identity!Init

\* The component of the behaviour takes a step; the others rest.
SuiteNext ==
    \/ InSchedule(Next)
    \/ InAntiCycle(AntiCycle!Next)
    \/ InFetcher(Fetcher!Next)
    \/ InIdentity(Identity!Next)

suiteVars == <<part, ScheduleVars, AntiCycleVars, FetcherVars, IdentityVars>>

SuiteSpec == SuiteInit /\ [][SuiteNext]_suiteVars

-----------------------------------------------------------------------------
\* The event loop runs the steps and cycles, calls return, packets arrive or get lost (the
\* fairness of the components).
Steps ==
    \/ InSchedule(Step)
    \/ InAntiCycle(AntiCycle!CycleAfter(1, AntiCycle!Reading))
    \/ InFetcher(Fetcher!Request(a))
    \/ InIdentity(Identity!Step)
Goes ==
    \/ InSchedule(Continue)
    \/ InAntiCycle(AntiCycle!SendLower)
    \/ InFetcher(Fetcher!Answered(a))

\* Turns come back, what is shown settles, time passes, the owner tries again.
Turns == InSchedule(Send) \/ InFetcher(Fetcher!Start(a)) \/ InIdentity(Identity!Plan)
Shows == InSchedule(Report) \/ InFetcher(Fetcher!Tick) \/ InIdentity(Identity!Execute)

SuiteFairness ==
    /\ WF_suiteVars(Steps) /\ WF_suiteVars(Goes)
    /\ WF_suiteVars(InSchedule(VisitorSaved)) /\ WF_suiteVars(InSchedule(Deliver \/ Lose))
    /\ SF_suiteVars(Turns) /\ SF_suiteVars(Shows) /\ SF_suiteVars(InSchedule(Tick))

FairSuite == SuiteSpec /\ SuiteFairness

-----------------------------------------------------------------------------
\* A raised target and a lowered reheat period are restored, or the owner is told
\* (DhwSchedule, AntiCycle).
RestoresEnd == RestoreEnds /\ AntiCycle!RestoreEnds

\* A transfer that was begun is finished or undone, of schedules and of identities
\* (ScheduleFetch, IdentityMigration).
TransfersEnd == Fetcher!FetchSettles /\ Identity!MigrationEnds
=============================================================================
