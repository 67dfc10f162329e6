------------------------------- MODULE MCEnds -------------------------------
(***************************************************************************)
(* Small instances, under fairness, of a trial and a manual hold, which    *)
(* must come to an end.  Each behaviour is one component's (part), the     *)
(* other rests; a condition of fairness names one action of each.          *)
(***************************************************************************)
EXTENDS Trials

CONSTANTS None, Follow, t1, owner

VARIABLES
    part,  \* the component of this behaviour
    \* RoomControl
    mem, store, storeOk, roomLife, roomPc, cmd, shown, fresh, zone, radio, slot, nextIn,
    forgotten

OneTrial == {t1}
TwoValues == {0, 1}
Leavers == {[savers |-> {}, cancels |-> TRUE]}

Room ==
    INSTANCE RoomControl WITH
        Floor <- 0, WindowTarget <- 1, Low <- 2, High <- 3, Targets <- {4}, Hands <- {6},
        Override <- 2, Refresh <- 1, Recent <- 2, HoldTime <- 2, OpenDelay <- 0,
        CloseDelay <- 0, Grace <- 0, Early <- 1, Period <- 3, Contacts <- {FALSE},
        Faults <- {"save", "echo"}, life <- roomLife, pc <- roomPc


TrialsVars ==
    <<bounds, rec, saved, writable, knob, knobDisk, cready, queue, fit, scoped, age, life, pc,
    op, cur, to, cancelled, ctl>>
RoomVars ==
    <<mem, store, storeOk, roomLife, roomPc, cmd, shown, fresh, zone, radio, slot, nextIn,
    forgotten>>

\* A step of one component, the others at rest.
InTrials(A) ==
    /\ part = "trials" /\ A
    /\ UNCHANGED <<part, RoomVars>>
InRoom(A) ==
    /\ part = "room" /\ A
    /\ UNCHANGED <<part, TrialsVars>>

SuiteInit ==
    /\ part \in {"trials", "room"}
    /\ Init
    /\ part # "trials" => knob = By(Owner, 0)
    /\ Room!Init

\* The component of the behaviour takes a step; the others rest.
SuiteNext ==
    \/ InTrials(Next)
    \/ InRoom(Room!Next)

suiteVars == <<part, TrialsVars, RoomVars>>

SuiteSpec == SuiteInit /\ [][SuiteNext]_suiteVars

-----------------------------------------------------------------------------
\* Writes end, calls return, packets arrive or get lost, cycles and steps run (the fairness of
\* the components).
Returns == InTrials(LockHolder) \/ InRoom(Room!Saved \/ Room!SaveFails)
Calls == InTrials(OtherWritten) \/ InRoom(Room!CallSucceeds \/ Room!CallFails)
Releases == InTrials(ControlsReleased) \/ InRoom(Room!Delivered \/ Room!Lost)

\* Locks are handed on in order, time passes, and reports and supervision come back.
Turns == InTrials(Activate \/ ActivateRefused) \/ InRoom(Room!Report)
Supervises == InTrials(Expire(t1) \/ Interrupted(t1)) \/ InRoom(Room!Tick)

SuiteFairness ==
    /\ WF_suiteVars(Returns) /\ WF_suiteVars(Calls) /\ WF_suiteVars(Releases)
    /\ WF_suiteVars(InTrials(TimePasses))
    /\ SF_suiteVars(Turns) /\ SF_suiteVars(Supervises)

FairSuite == SuiteSpec /\ SuiteFairness

-----------------------------------------------------------------------------
\* A manual hold ends (RoomControl).
HoldEnds == Room!HoldEnds
=============================================================================
