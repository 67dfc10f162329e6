------------------------------ MODULE MCAdvice ------------------------------
(***************************************************************************)
(* Small instances of what looks at the house and advises: the planner of  *)
(* pre-heats, the advisor, the record of metered energy and the records of *)
(* burns.  Each behaviour is one of them (part), the others rest; each     *)
(* ends where its clock or its bounds do.                                  *)
(***************************************************************************)
EXTENDS Preheat

CONSTANTS
    \* Advisor, with a clock of its own
    Tasks, FollowUp, Day, Hour, MaxCalls, MaxReports, Until,
    \* EnergyMeter
    Decades, Capacity, Shown, Amounts, Units, SaveEvery, MaxUsed, MaxChanges, MaxStarts,
    \* BurnLedger
    Startup, FreshFor, MaxGap, Silence, Lag, Longest, MaxBurns

VARIABLES
    part,  \* the component of this behaviour
    \* Advisor
    today, data, advisorDisk, ready, work, pending, calls, reviewed, told,
    reloads, unsavedData,
    \* EnergyMeter
    counter, unit, counts, past, configured, meter, used, store, meterDisk, readonly, saving,
    unsaved, changes, starts, unsavedMeter,
    \* BurnLedger
    flame, heat, power, return, ignition, estimate, average, tracker, row, late

\* Minutes of heating at the boost flow.
Half(h) == h \div 2

Advisor ==
    INSTANCE Advisor WITH
        Horizon <- Until, now <- today, disk <- advisorDisk, restarts <- reloads,
        failures <- unsavedData
Meter == INSTANCE EnergyMeter WITH disk <- meterDisk, failures <- unsavedMeter
Ledger == INSTANCE BurnLedger

ASSUME PreheatAssumptionHere == PreheatAssumption
ASSUME AdvisorAssumptionHere == Advisor!AdvisorAssumption
ASSUME MeterAssumptionHere == Meter!MeterAssumption
ASSUME LedgerAssumptionHere == Ledger!LedgerAssumption

PreheatVars ==
    <<now, mode, ahead, plan, finishing, dirty, disk, charging, since, length, stepped,
    scored, edits, restarts, failures>>
AdvisorVars ==
    <<today, data, advisorDisk, ready, work, pending, calls, reviewed, told,
    reloads, unsavedData>>
MeterVars ==
    <<counter, unit, counts, past, configured, meter, used, store, meterDisk, readonly, saving,
    unsaved, changes, starts, unsavedMeter>>
LedgerVars ==
    <<flame, heat, power, return, ignition, estimate, average, tracker, row, late>>

SuiteInit ==
    /\ part \in {"preheat", "advisor", "meter", "ledger"}
    /\ Init
    /\ part # "preheat" => mode = "active" /\ ahead = None /\ length = 1
    /\ Advisor!Init
    /\ Meter!Init
    /\ part # "meter" =>
          /\ counter = (CHOOSE n \in Shown : TRUE) /\ configured = None
          /\ counts = (CHOOSE u \in Units : u # None)
    /\ Ledger!Init

\* The component of the behaviour takes a step; the others rest.
SuiteNext ==
    \/ /\ part = "preheat" /\ Next
       /\ UNCHANGED <<part, AdvisorVars, MeterVars, LedgerVars>>
    \/ /\ part = "advisor" /\ Advisor!Next
       /\ UNCHANGED <<part, PreheatVars, MeterVars, LedgerVars>>
    \/ /\ part = "meter" /\ Meter!Next
       /\ UNCHANGED <<part, PreheatVars, AdvisorVars, LedgerVars>>
    \/ /\ part = "ledger" /\ Ledger!Next
       /\ UNCHANGED <<part, PreheatVars, AdvisorVars, MeterVars>>

suiteVars == <<part, PreheatVars, AdvisorVars, MeterVars, LedgerVars>>

SuiteSpec == SuiteInit /\ [][SuiteNext]_suiteVars

-----------------------------------------------------------------------------
\* The types of the four components.
SuiteTypeOK ==
    /\ part = "preheat" => TypeOK
    /\ part = "advisor" => Advisor!TypeOK
    /\ part = "meter" => Meter!TypeOK
    /\ part = "ledger" => Ledger!TypeOK

\* A planned pre-heat survives what happens around it: it is kept on the disk, it waits for hot
\* water for a bounded time, and once begun nothing but a restart takes it (Preheat).
PlansHold == [](part = "preheat" => PlansAreDurable /\ WaitIsBounded) /\ StartedPlanHolds

\* The provider is not called, and nobody is told, more often than the records of the advisor
\* allow (Advisor).
CallsAreBudgeted == part = "advisor" => Advisor!CallsAreBudgeted /\ Advisor!ToldOnce

\* The energy told is energy that was used (EnergyMeter); burns, minutes and estimates are of a
\* flame that was seen to burn (BurnLedger).
RecordsAreTrue ==
    /\ part = "meter" => Meter!EnergyIsTrue
    /\ part = "ledger" =>
          Ledger!LoggedBurnsAreReal /\ Ledger!CountedMinutesBurned /\ Ledger!EstimateIsWarm
=============================================================================
