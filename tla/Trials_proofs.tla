---------------------------- MODULE Trials_proofs ----------------------------
(***************************************************************************)
(* Proofs about Trials, for any set of trials, any values and step, and    *)
(* whoever else saves the controller store or goes away.                   *)
(***************************************************************************)
EXTENDS Trials, FiniteSetTheorems, TLAPS

Write == [who : {"trial", "owner", "cycle", "orphan"}, val : Knob]

USE ConstantsAssumption

-----------------------------------------------------------------------------
(* The queue of the controller store's writes.                             *)

\* What is left when the write at the head has ended: every write that still
\* waits was there before, one place behind.
LEMMA TailOfQueue ==
    ASSUME NEW q \in Seq(Write), q # <<>>
    PROVE  /\ Head(q) \in Write /\ Head(q) = q[1]
           /\ Tail(q) \in Seq(Write)
           /\ 1 \in DOMAIN q
           /\ \A i \in DOMAIN Tail(q) : i + 1 \in DOMAIN q /\ Tail(q)[i] = q[i + 1]
  OBVIOUS

\* A write that is asked for goes behind all the others.
LEMMA AppendToQueue ==
    ASSUME NEW q \in Seq(Write), NEW w \in Write
    PROVE  /\ Append(q, w) \in Seq(Write)
           /\ \A i \in DOMAIN Append(q, w) :
                 \/ i \in DOMAIN q /\ Append(q, w)[i] = q[i] /\ i # Len(q) + 1
                 \/ i = Len(q) + 1 /\ Append(q, w)[i] = w
           /\ \A i \in DOMAIN q : i < Len(q) + 1
  OBVIOUS

-----------------------------------------------------------------------------
(* Types.                                                                  *)

\* Whoever stands at an await is there for a trial, short of the last save.
HolderHasTrial == pc \notin {"idle", "end_save"} => cur \in Trial

\* A rollback, on well-typed records and queue, leaves both well-typed and
\* stands at the write of the baseline.
LEMMA RollBackType ==
    ASSUME NEW r \in [Trial -> Record], NEW t \in Trial, NEW dest \in Ended,
           NEW handler \in Handlers, NEW q \in Seq(Write), NEW ok \in BOOLEAN,
           TypeOK, RollBack(r, t, dest, handler, q, ok)
    PROVE  /\ rec' \in [Trial -> Record] /\ knob' \in Knob /\ queue' \in Seq(Write)
           /\ pc' \in Pc /\ op' \in Handlers /\ cur' \in Trial \cup {Owner} /\ to' \in Ended
<1>1. rec' \in [Trial -> Record]
  <2>1. r[t].attempts \in 0..MaxAttempts /\ r[t] \in Record
    BY DEF Record
  <2>2. (IF r[t].attempts < MaxAttempts THEN r[t].attempts + 1 ELSE r[t].attempts) \in 0..MaxAttempts
    BY <2>1
  <2>3. [r[t] EXCEPT !.attempts =
            IF r[t].attempts < MaxAttempts THEN r[t].attempts + 1 ELSE r[t].attempts] \in Record
    BY <2>1, <2>2 DEF Record
  <2> QED BY <2>3 DEF RollBack
<1>2. knob' \in Knob /\ queue' \in Seq(Write)
  <2>1. r[t].base \in Value
    BY DEF Record
  <2>2. By(Owner, r[t].base) \in Knob
    BY <2>1 DEF By, Knob
  <2>3. [who |-> "trial", val |-> By(Owner, r[t].base)] \in Write
    BY <2>2 DEF Write
  <2>4. Append(q, [who |-> "trial", val |-> By(Owner, r[t].base)]) \in Seq(Write)
    BY <2>3, AppendToQueue
  <2>5. knob \in Knob
    BY DEF TypeOK
  <2> QED BY ONLY <2>2, <2>4, <2>5, q \in Seq(Write), RollBack(r, t, dest, handler, q, ok)
          DEF RollBack, TuningWrite
<1> QED BY <1>1, <1>2 DEF RollBack, Pc

\* A value that is set and its write, of whoever: both are well typed.
LEMMA TuningWriteType ==
    ASSUME NEW who \in {"trial", "owner"}, NEW v \in Value, NEW by \in Trial \cup {Owner},
           NEW q \in Seq(Write), NEW ok \in BOOLEAN, TuningWrite(who, v, by, q, ok)
    PROVE  knob' \in Knob /\ queue' \in Seq(Write)
<1>1. knob' \in Knob
  BY DEF TuningWrite, By, Knob
<1>2. [who |-> who, val |-> knob'] \in Write
  BY <1>1 DEF Write
<1> QED BY ONLY <1>1, <1>2, AppendToQueue, q \in Seq(Write), TuningWrite(who, v, by, q, ok)
        DEF TuningWrite

\* A new state of a record is a record.
LEMMA StateSet ==
    ASSUME NEW r \in [Trial -> Record], NEW t \in Trial, NEW s \in States
    PROVE  [r EXCEPT ![t].state = s] \in [Trial -> Record]
  BY DEF Record

\* What the file does not name is read as an absent trial.
LEMMA AbsentType == Absent \in Record
  BY DEF Absent, Record, States

\* A write that has landed is the file's content, a failed one leaves it alone.
LEMMA LandedType ==
    ASSUME TypeOK, queue # <<>>, WriteLands
    PROVE  knobDisk' \in Knob /\ queue' \in Seq(Write)
<1>1. queue \in Seq(Write)
  BY DEF TypeOK, Write
<1>2. Head(queue) \in Write /\ Tail(queue) \in Seq(Write)
  BY <1>1, TailOfQueue
<1> QED BY <1>2 DEF WriteLands, Write

\* The types, without those of the queue and of the fields that a step may replace.
LEMMA QueueType == TypeOK => queue \in Seq(Write) /\ rec \in [Trial -> Record] /\ saved \in [Trial -> Record]
  BY DEF TypeOK, Write

\* A save of the trials file leaves well-typed records in it, whatever its outcome.
LEMMA SavedType ==
    ASSUME TypeOK, rec' \in [Trial -> Record], TrialsSaved \/ TrialsNotSaved
    PROVE  saved' \in [Trial -> Record]
  BY DEF TypeOK, TrialsSaved, TrialsNotSaved

\* The steps of the lock's holder keep the types.
LEMMA TypeLocked == TypeOK /\ HolderHasTrial /\ LockHolder => TypeOK'
<1> SUFFICES ASSUME TypeOK, HolderHasTrial, LockHolder PROVE TypeOK'
  OBVIOUS
<1> USE DEF Pc, worldVars, recordVars, knobVars
<1>0. /\ queue \in Seq(Write) /\ rec \in [Trial -> Record] /\ saved \in [Trial -> Record]
      /\ cready \in BOOLEAN /\ to \in Ended /\ op \in Handlers /\ knob \in Knob /\ knobDisk \in Knob
  BY QueueType DEF TypeOK
<1>w. pc # "idle" /\ pc # "end_save" => cur \in Trial
  BY DEF HolderHasTrial
<1>1. CASE Approved
  BY ZenonT(40), <1>1, SavedType DEF Approved, TypeOK, Release, Handlers
<1>2. CASE StartSaved
  BY <1>2, SavedType DEF StartSaved, TypeOK, Goto
<1>3. CASE StartNotSaved
  <2>1. rec' \in [Trial -> Record]
    BY <1>0, <1>3, <1>w, StateSet DEF StartNotSaved, States
  <2> QED BY ZenonT(40), <1>3, <2>1, SavedType DEF StartNotSaved, TypeOK, Release, Handlers
<1>4. CASE Activate
  <2>1. knob' \in Knob /\ queue' \in Seq(Write)
    <3>1. cur \in Trial /\ rec[cur].target \in Value
      BY <1>0, <1>4, <1>w DEF Activate, Record
    <3> QED BY <1>0, <1>4, <3>1, TuningWriteType DEF Activate
  <2> QED BY <1>4, <2>1 DEF Activate, TypeOK, Goto, Write
<1>5. CASE ActivateRefused
  <2>1. rec' \in [Trial -> Record]
    BY <1>0, <1>5, <1>w, StateSet DEF ActivateRefused, States, Ended
  <2> QED BY <1>5, <2>1 DEF ActivateRefused, TypeOK, Goto
<1>6. CASE RefusalSaved
  BY <1>6, SavedType DEF RefusalSaved, TypeOK, Release, Handlers
<1>7. CASE TargetVerified
  <2>1. rec' \in [Trial -> Record]
    BY <1>0, <1>7, <1>w, StateSet DEF TargetVerified, States, Active
  <2>2. knobDisk' \in Knob /\ queue' \in Seq(Write)
    BY <1>7, LandedType DEF TargetVerified, HeadIs
  <2> QED BY <1>7, <2>1, <2>2 DEF TargetVerified, TypeOK, Goto, Write
<1>8. CASE TargetFailed
  <2>1. Tail(queue) \in Seq(Write) /\ Head(queue) \in Write
    BY <1>0, <1>8, TailOfQueue DEF TargetFailed, HeadIs
  <2>2. knobDisk' \in Knob /\ cready' \in BOOLEAN
    BY <1>0, <1>8, <2>1 DEF TargetFailed, Write
  <2>3. cur \in Trial /\ "stopped" \in Ended /\ "start" \in Handlers
    BY <1>8, <1>w DEF TargetFailed, Ended, Handlers
  <2>4. /\ rec' \in [Trial -> Record] /\ knob' \in Knob /\ queue' \in Seq(Write)
        /\ pc' \in Pc /\ op' \in Handlers /\ cur' \in Trial \cup {Owner} /\ to' \in Ended
    BY ONLY <1>0, <1>8, <2>1, <2>2, <2>3, TypeOK, RollBackType DEF TargetFailed
  <2> QED BY <1>8, <2>2, <2>4 DEF TargetFailed, TypeOK, Write
<1>9. CASE RunningSaved
  BY ZenonT(40), <1>9, SavedType DEF RunningSaved, TypeOK, Release, Handlers
<1>10. CASE RunningUndone
  <2>1. cur \in Trial /\ "stopped" \in Ended /\ "start" \in Handlers
    BY <1>10, <1>w DEF RunningUndone, Ended, Handlers
  <2>2. /\ rec' \in [Trial -> Record] /\ knob' \in Knob /\ queue' \in Seq(Write)
        /\ pc' \in Pc /\ op' \in Handlers /\ cur' \in Trial \cup {Owner} /\ to' \in Ended
    BY ONLY <1>0, <1>10, <2>1, TypeOK, RollBackType DEF RunningUndone
  <2> QED BY <1>0, <1>10, <2>2 DEF RunningUndone, TypeOK, Write, TrialsNotSaved
<1>11. CASE BaseSaved
  <2>1. rec' \in [Trial -> Record]
    <3>1. cur \in Trial /\ "rolled_back" \in States /\ to \in States
      BY <1>0, <1>11, <1>w DEF BaseSaved, States, Ended
    <3> QED BY <1>0, <1>11, <3>1, StateSet DEF BaseSaved
  <2>2. knobDisk' \in Knob /\ queue' \in Seq(Write)
    BY <1>11, LandedType DEF BaseSaved, HeadIs
  <2> QED BY <1>11, <2>1, <2>2 DEF BaseSaved, TypeOK, Goto, Write
<1>12. CASE BaseFailed
  <2>1. cur \in Trial /\ "rolled_back" \in Ended /\ "retry" \in Handlers
    BY <1>12, <1>w DEF BaseFailed, Ended, Handlers
  <2>2. PICK q \in Seq(Write), ok \in BOOLEAN :
            Failed(q, ok) /\ knobDisk' \in Knob /\ cready' \in BOOLEAN
    <3>1. CASE HeadIs("trial")
      <4>1. Tail(queue) \in Seq(Write) /\ Head(queue).val \in Knob
        BY <1>0, <3>1, TailOfQueue DEF HeadIs, Write
      <4> QED BY <1>0, <1>12, <4>1 DEF BaseFailed
    <3>2. CASE ~HeadIs("trial")
      BY <1>0, <1>12, <3>2 DEF BaseFailed
    <3> QED BY <3>1, <3>2
  <2>3. [rec EXCEPT ![cur].state = "rollback_failed"] \in [Trial -> Record]
    BY <1>0, <2>1, StateSet DEF States, Active
  <2>4. /\ rec' \in [Trial -> Record] /\ knob' \in Knob /\ queue' \in Seq(Write) /\ cancelled' = cancelled
        /\ pc' \in Pc /\ op' \in Handlers /\ cur' \in Trial \cup {Owner} /\ to' \in Ended
    <3>1. CASE RollBack([rec EXCEPT ![cur].state = "rollback_failed"], cur, "rolled_back", "retry", q, ok)
                  /\ UNCHANGED cancelled
      <4> HIDE DEF Pc
      <4> DEFINE marked == [rec EXCEPT ![cur].state = "rollback_failed"]
      <4>1. marked \in [Trial -> Record] /\ RollBack(marked, cur, "rolled_back", "retry", q, ok)
        BY <2>3, <3>1
      <4> HIDE DEF marked
      <4>2. /\ rec' \in [Trial -> Record] /\ knob' \in Knob /\ queue' \in Seq(Write)
            /\ pc' \in Pc /\ op' \in Handlers /\ cur' \in Trial \cup {Owner} /\ to' \in Ended
        BY ONLY <2>1, <4>1, TypeOK, RollBackType, q \in Seq(Write), ok \in BOOLEAN
      <4> QED BY <3>1, <4>2
    <3>2. CASE /\ rec' = [rec EXCEPT ![cur].state = "rollback_failed"]
               /\ knob' = knob /\ queue' = q /\ Goto("end_save")
      BY <1>0, <2>1, <2>2, <2>3, <3>2 DEF Goto
    <3> QED BY <2>2, <3>1, <3>2 DEF Failed
  <2> QED BY <1>12, <2>2, <2>4 DEF BaseFailed, TypeOK, Write
<1>13. CASE EndSaved
  <2>1. life' \in {"down", "setup", "up", "closing", "stopped"}
    BY <1>13 DEF EndSaved, TypeOK
  <2> QED BY <1>13, <2>1, SavedType DEF EndSaved, TypeOK, Release, Handlers
<1> QED BY <1>1, <1>2, <1>3, <1>4, <1>5, <1>6, <1>7, <1>8, <1>9, <1>10, <1>11, <1>12, <1>13
        DEF LockHolder, StartStep

\* A rollback that takes the free lock keeps the types of all but life.
LEMMA FromIdleType ==
    ASSUME TypeOK, NEW t \in Trial, NEW dest \in Ended, NEW handler \in Handlers,
           RollBackFromIdle(t, dest, handler), life' = life
    PROVE  TypeOK'
<1>1. /\ queue \in Seq(Write) /\ rec \in [Trial -> Record] /\ cready \in BOOLEAN
      /\ RollBack(rec, t, dest, handler, queue, cready)
  BY QueueType DEF TypeOK, RollBackFromIdle
<1>2. /\ rec' \in [Trial -> Record] /\ knob' \in Knob /\ queue' \in Seq(Write)
      /\ pc' \in Pc /\ op' \in Handlers /\ cur' \in Trial \cup {Owner} /\ to' \in Ended
  BY ONLY <1>1, TypeOK, RollBackType, t \in Trial, dest \in Ended, handler \in Handlers
<1> QED BY <1>2 DEF RollBackFromIdle, TypeOK, Write, worldVars

\* So do the requests of the owner and the steps of supervision.
LEMMA TypeRequests == TypeOK /\ (Requests \/ Supervision) => TypeOK'
<1> SUFFICES ASSUME TypeOK, Requests \/ Supervision PROVE TypeOK'
  OBVIOUS
<1> USE DEF worldVars, recordVars, knobVars, lockVars
<1>0. /\ queue \in Seq(Write) /\ rec \in [Trial -> Record] /\ saved \in [Trial -> Record]
      /\ cready \in BOOLEAN /\ to \in Ended /\ op \in Handlers /\ knob \in Knob /\ knobDisk \in Knob
  BY QueueType DEF TypeOK
<1>1. ASSUME NEW t \in Trial, NEW v \in Value, Propose(t, v) PROVE TypeOK'
  <2>1. PICK dropped \in SUBSET (Trial \ In(Active)) :
            rec' = [u \in Trial |->
                IF u = t THEN [state |-> "proposed", base |-> knob.v, target |-> v, attempts |-> 0]
                ELSE IF u \in dropped THEN Absent ELSE rec[u]]
    BY <1>1 DEF Propose
  <2>2. [state |-> "proposed", base |-> knob.v, target |-> v, attempts |-> 0] \in Record
    BY <1>0 DEF Record, States, Knob
  <2>3. rec' \in [Trial -> Record]
    BY <1>0, <2>1, <2>2, AbsentType
  <2> QED BY <1>1, <2>3, SavedType DEF Propose, TypeOK
<1>2. ASSUME NEW t \in Trial, Reject(t) PROVE TypeOK'
  <2>1. rec' \in [Trial -> Record]
    BY <1>0, <1>2, StateSet DEF Reject, States
  <2> QED BY <1>2, <2>1, SavedType DEF Reject, TypeOK
<1>3. ASSUME NEW t \in Trial, Evaluate(t) PROVE TypeOK'
  BY <1>3 DEF Evaluate, TypeOK
<1>4. ASSUME NEW t \in Trial, Approve(t) PROVE TypeOK'
  <2>1. rec' \in [Trial -> Record]
    BY <1>0, <1>4, StateSet DEF Approve, States
  <2> QED BY <1>4, <2>1 DEF Approve, Hold, TypeOK, Handlers, Pc
<1>5. ASSUME NEW t \in Trial, StartTrial(t) PROVE TypeOK'
  <2>1. rec' \in [Trial -> Record]
    BY <1>0, <1>5, StateSet DEF StartTrial, States, Active
  <2> QED BY <1>5, <2>1 DEF StartTrial, Hold, TypeOK, Handlers, Pc
<1>7. ASSUME NEW t \in Trial, Breach(t) \/ Expire(t) \/ Interrupted(t) \/ Retry(t) PROVE TypeOK'
  BY <1>7, FromIdleType DEF Breach, Expire, Interrupted, Retry, Handlers, Ended
<1>8. ASSUME NEW t \in Trial, NEW complete \in BOOLEAN, StopTrial(t, complete) PROVE TypeOK'
  BY <1>8, FromIdleType DEF StopTrial, Handlers, Ended
<1> QED BY <1>1, <1>2, <1>3, <1>4, <1>5, <1>7, <1>8 DEF Requests, Supervision

\* What a start reads back is well typed, whatever the file holds and bound() drops.
LEMMA TypeLifecycle == TypeOK /\ Lifecycle => TypeOK'
<1> SUFFICES ASSUME TypeOK, Lifecycle PROVE TypeOK'
  OBVIOUS
<1> USE DEF worldVars, recordVars, knobVars, lockVars
<1>0. /\ queue \in Seq(Write) /\ rec \in [Trial -> Record] /\ saved \in [Trial -> Record]
      /\ cready \in BOOLEAN /\ to \in Ended /\ op \in Handlers /\ knob \in Knob /\ knobDisk \in Knob
      /\ <<>> \in Seq(Write)
  BY QueueType DEF TypeOK
<1>1. CASE Initialise
  <2>1. PICK dropped \in SUBSET {t \in Trial : saved[t].state \notin Active}, readable \in BOOLEAN :
          LET loaded == [t \in Trial |->
                            IF readable /\ t \notin dropped THEN saved[t] ELSE Absent]
          IN  /\ writable' = readable
              /\ \/ /\ \A t \in Trial : loaded[t].state \notin Active
                    /\ rec' = loaded
                    /\ UNCHANGED <<knob, queue>>
                    /\ pc' = "end_save" /\ op' = "restart" /\ UNCHANGED <<cur, to>>
                 \/ \E t \in Trial :
                       /\ loaded[t].state \in Active
                       /\ RollBack(loaded, t, "stopped", "restart", <<>>, TRUE)
    BY <1>1 DEF Initialise
  <2> DEFINE loaded == [t \in Trial |-> IF readable /\ t \notin dropped THEN saved[t] ELSE Absent]
  <2>2. loaded \in [Trial -> Record]
    BY <1>0, AbsentType
  <2> HIDE DEF loaded
  <2>3. CASE /\ rec' = loaded /\ UNCHANGED <<knob, queue>>
             /\ pc' = "end_save" /\ op' = "restart" /\ UNCHANGED <<cur, to>>
    BY <1>1, <2>1, <2>2, <2>3 DEF Initialise, TypeOK, Pc, Handlers
  <2>4. ASSUME NEW t \in Trial, RollBack(loaded, t, "stopped", "restart", <<>>, TRUE) PROVE TypeOK'
    <3>1. "stopped" \in Ended /\ "restart" \in Handlers
      BY DEF Ended, Handlers
    <3>2. /\ rec' \in [Trial -> Record] /\ knob' \in Knob /\ queue' \in Seq(Write)
          /\ pc' \in Pc /\ op' \in Handlers /\ cur' \in Trial \cup {Owner} /\ to' \in Ended
      BY ONLY <1>0, <2>2, <2>4, <3>1, TypeOK, RollBackType
    <3> QED BY <1>1, <2>1, <3>2 DEF Initialise, TypeOK, Write
  <2> QED BY <2>1, <2>3, <2>4 DEF loaded
<1>2. CASE Unload
  BY <1>2 DEF Unload, TypeOK
<1>3. CASE StopAll
  <2>1. CASE In(Applied) = {} /\ Hold("unload", Owner, "end_save")
              /\ UNCHANGED <<recordVars, knobVars, worldVars, ctl>>
    BY <1>3, <2>1 DEF StopAll, Hold, TypeOK, Pc, Handlers
  <2>2. ASSUME NEW t \in In(Applied), RollBackFromIdle(t, "stopped", "unload") PROVE TypeOK'
    <3>1. t \in Trial /\ "stopped" \in Ended /\ "unload" \in Handlers
      BY DEF In, Ended, Handlers
    <3> QED BY <1>3, <2>2, <3>1, FromIdleType DEF StopAll
  <2> QED BY <1>3, <2>1, <2>2 DEF StopAll
<1>4. ASSUME MemoryLost, saved' \in [Trial -> Record], knobDisk' \in Knob PROVE TypeOK'
  BY <1>0, <1>4 DEF MemoryLost, TypeOK, Write, Pc, Handlers, Ended
<1>5. CASE Unloaded
  BY <1>0, <1>4, <1>5 DEF Unloaded
<1>6. CASE Crash
  <2>1. queue # <<>> => Head(queue).val \in Knob
    BY <1>0, TailOfQueue DEF Write
  <2> QED BY <1>0, <1>4, <1>6, <2>1 DEF Crash
<1> QED BY <1>1, <1>2, <1>3, <1>5, <1>6 DEF Lifecycle

\* So do the owner, the control cycles, callers that go away, and time.
LEMMA TypeOthers == TypeOK /\ Others => TypeOK'
<1> SUFFICES ASSUME TypeOK, Others PROVE TypeOK'
  OBVIOUS
<1> USE DEF worldVars, recordVars, knobVars, lockVars
<1>0. /\ queue \in Seq(Write) /\ rec \in [Trial -> Record] /\ saved \in [Trial -> Record]
      /\ cready \in BOOLEAN /\ knob \in Knob /\ knobDisk \in Knob
  BY QueueType DEF TypeOK
<1>1. CASE CallerLeaves
  BY <1>1 DEF CallerLeaves, TypeOK
<1>2. CASE Killed
  <2>1. queue' \in Seq(Write)
    <3>1. \A i \in DOMAIN queue : queue[i] \in Write /\ [queue[i] EXCEPT !.who = "orphan"] \in Write
      <4> SUFFICES ASSUME NEW i \in DOMAIN queue
                   PROVE  queue[i] \in Write /\ [queue[i] EXCEPT !.who = "orphan"] \in Write
        OBVIOUS
      <4>1. queue[i] \in Write
        BY <1>0
      <4> QED BY <4>1 DEF Write
    <3>2. Len(queue) \in Nat /\ DOMAIN queue = 1..Len(queue)
      BY <1>0
    <3>3. queue' \in [1..Len(queue) -> Write]
      BY <1>2, <3>1, <3>2 DEF Killed
    <3> QED BY <3>2, <3>3
  <2> QED BY <1>0, <1>2, <2>1 DEF Killed, TypeOK, Release, Write, Pc, Handlers
<1>3. ASSUME NEW v \in Value, OwnerSets(v) PROVE TypeOK'
  <2>1. TuningWrite("owner", v, Owner, queue, cready)
    BY <1>3 DEF OwnerSets
  <2>2. knob' \in Knob /\ queue' \in Seq(Write)
    BY <1>0, <2>1, TuningWriteType
  <2> QED BY <1>3, <2>2 DEF OwnerSets, TypeOK, Write
<1>4. CASE ControlsHeld \/ ControlsReleased
  BY <1>4 DEF ControlsHeld, ControlsReleased, TypeOK
<1>5. CASE CycleSaves
  <2>1. [who |-> "cycle", val |-> knob] \in Write
    BY <1>0 DEF Write
  <2>2. queue' \in Seq(Write)
    BY <1>0, <1>5, <2>1, AppendToQueue DEF CycleSaves
  <2> QED BY <1>5, <2>2 DEF CycleSaves, TypeOK, Write
<1>6. CASE OtherWritten
  <2>1. queue # <<>>
    BY <1>6 DEF OtherWritten, HeadIs
  <2>2. knobDisk' \in Knob /\ queue' \in Seq(Write) /\ cready' \in BOOLEAN
    BY <1>0, <1>6, <2>1, LandedType, TailOfQueue DEF OtherWritten
  <2> QED BY <1>6, <2>2 DEF OtherWritten, TypeOK, Write
<1>7. CASE FitChanges
  BY <1>7 DEF FitChanges, TypeOK
<1>8. CASE TimePasses
  BY <1>8 DEF TimePasses, TypeOK
<1> QED BY <1>1, <1>2, <1>3, <1>4, <1>5, <1>6, <1>7, <1>8 DEF Others

\* The holder of the lock takes it for a trial.
LEMMA HolderStep == TypeOK /\ HolderHasTrial /\ [Next]_vars => HolderHasTrial'
<1> SUFFICES ASSUME TypeOK, HolderHasTrial, [Next]_vars PROVE HolderHasTrial'
  OBVIOUS
<1> USE DEF HolderHasTrial, lockVars, Goto, Hold, Release, RollBack
<1>1. CASE LockHolder
  BY <1>1 DEF LockHolder, StartStep, Approved, StartSaved, StartNotSaved, Activate,
     ActivateRefused, RefusalSaved, TargetVerified, TargetFailed, RunningSaved, RunningUndone,
     BaseSaved, BaseFailed, Failed, EndSaved
<1>2. CASE Requests \/ Supervision
  BY <1>2 DEF Requests, Supervision, Propose, Reject, Evaluate, Approve, StartTrial, StopTrial,
     Breach, Expire, Interrupted, Retry, RollBackFromIdle
<1>3. CASE Lifecycle
  BY <1>3 DEF Lifecycle, Initialise, Unload, StopAll, Unloaded, Crash, MemoryLost,
     RollBackFromIdle, In
<1>4. CASE Others
  BY <1>4 DEF Others, CallerLeaves, Killed, OwnerSets, ControlsHeld, ControlsReleased, CycleSaves,
     OtherWritten, FitChanges, TimePasses
<1>5. CASE UNCHANGED vars
  BY <1>5 DEF vars
<1> QED BY <1>1, <1>2, <1>3, <1>4, <1>5 DEF Next

\* Every variable keeps its type: in particular a record's attempts stay within
\* their limit and a rollback's destination is an ended state.
LEMMA TypeInductive ==
    /\ Init => TypeOK /\ HolderHasTrial
    /\ TypeOK /\ HolderHasTrial /\ [Next]_vars => TypeOK' /\ HolderHasTrial'
<1>1. Init => TypeOK /\ HolderHasTrial
  <2> SUFFICES ASSUME Init PROVE TypeOK /\ HolderHasTrial
    OBVIOUS
  <2>1. rec \in [Trial -> Record] /\ saved \in [Trial -> Record]
    BY AbsentType DEF Init
  <2>2. knob \in Knob /\ knobDisk \in Knob
    BY DEF Init, Knob, By
  <2>3. queue \in Seq(Write) /\ to \in Ended /\ pc \in Pc /\ op \in Handlers
    BY DEF Init, Pc, Handlers, Ended
  <2> QED BY <2>1, <2>2, <2>3 DEF Init, TypeOK, HolderHasTrial, Write
<1>2. TypeOK /\ UNCHANGED vars => TypeOK'
  BY DEF TypeOK, vars, worldVars, recordVars, knobVars, lockVars
<1> QED BY <1>1, <1>2, TypeLocked, TypeRequests, TypeLifecycle, TypeOthers, HolderStep DEF Next

\* Type correctness of the specification.
THEOREM TypeCorrect == Spec => []TypeOK
<1> QED BY TypeInductive, PTL DEF Spec

-----------------------------------------------------------------------------
(* Safety.  The invariant follows a trial's value: from the knob into the  *)
(* queue of writes and through it into the file, and out of all three by   *)
(* the write of the baseline, which no later write of the value can pass.  *)

\* The value of t is in effect, in the file, or on its way there.
Uses(t) == knob.by = t \/ knobDisk.by = t \/ \E i \in DOMAIN queue : queue[i].val.by = t

\* What the holder of the lock may rely on at each of its awaits.
HolderKnows ==
    /\ pc \in {"start_save", "activate"} => rec[cur].state = "starting" /\ ~Uses(cur)
    /\ pc = "activate" => saved[cur].state \in Active
    /\ pc \in {"target_write", "running_save", "base_write"} => rec[cur].state \in Active

\* It waits for one write of its own, and only there.
OneOwnWrite ==
    /\ Writing("trial") => pc \in {"target_write", "base_write"}
    /\ \A i, j \in DOMAIN queue : queue[i].who = "trial" /\ queue[j].who = "trial" => i = j

\* Behind the write of the baseline there is no value of a trial.
BaseIsLast ==
    pc = "base_write" =>
        \A i \in DOMAIN queue : queue[i].who = "trial" =>
            knob.by = Owner /\ \A j \in DOMAIN queue : j >= i => queue[j].val.by = Owner

\* A value in use has an active record, in memory and in the file.
Supervised ==
    \A t \in Trial : Uses(t) => saved[t].state \in Active /\ (writable => rec[t].state \in Active)

\* A process that is down remembers what is on the disk.
Asleep ==
    life = "down" =>
        /\ rec = saved /\ writable
        /\ pc = "idle" /\ op = "none"
        /\ queue = <<>> /\ knob = knobDisk

\* A trials file that cannot be read leaves nothing to supervise.
ReadOnly ==
    ~writable =>
        /\ pc \in {"idle", "end_save"} /\ op \in {"none", "restart", "unload"}
        /\ \A t \in Trial : rec[t].state = "none"

\* Two active records are the same trial's.
Exclusive ==
    \A t, u \in Trial :
        /\ rec[t].state \in Active /\ rec[u].state \in Active => t = u
        /\ saved[t].state \in Active /\ saved[u].state \in Active => t = u

TInv == TypeOK /\ HolderHasTrial
IInv == HolderKnows /\ OneOwnWrite /\ BaseIsLast /\ Supervised /\ Asleep /\ ReadOnly /\ Exclusive

\* Only _activate puts a trial's value into use: no other step, of whomever,
\* takes it up again once it is out of the knob, the queue and the file.
LEMMA OnlyActivateUses ==
    ASSUME TInv, [Next]_vars, NEW t \in Trial, Uses(t)'
    PROVE  Uses(t) \/ (Activate /\ t = cur)
<1> USE DEF worldVars, recordVars, knobVars, lockVars
<1>0. /\ queue \in Seq(Write) /\ rec \in [Trial -> Record] /\ knob \in Knob /\ knobDisk \in Knob
      /\ t # Owner
  BY QueueType DEF TInv, TypeOK
<1>t. queue # <<>> =>
          /\ Head(queue) = queue[1] /\ 1 \in DOMAIN queue
          /\ \A i \in DOMAIN Tail(queue) : i + 1 \in DOMAIN queue /\ Tail(queue)[i] = queue[i + 1]
  BY <1>0, TailOfQueue
<1>1. ASSUME UNCHANGED <<knob, knobDisk, queue>> PROVE Uses(t)
  BY <1>1 DEF Uses
<1>2. ASSUME queue # <<>>, knobDisk' = Head(queue).val \/ knobDisk' = knobDisk,
             queue' = Tail(queue), knob' = knob
      PROVE  Uses(t)
  BY <1>t, <1>2 DEF Uses
<1>3. ASSUME NEW who \in {"trial", "owner"}, NEW v \in Value, NEW q \in Seq(Write), NEW ok \in BOOLEAN,
             TuningWrite(who, v, Owner, q, ok), knobDisk' = knobDisk
                \/ (queue # <<>> /\ knobDisk' = Head(queue).val),
             q = queue \/ (queue # <<>> /\ q = Tail(queue))
      PROVE  Uses(t)
  <2>1. knob' = By(Owner, v) /\ knob'.by # t
    BY <1>0, <1>3 DEF TuningWrite, By
  <2>2. [who |-> who, val |-> knob'] \in Write
    BY <2>1 DEF Write, By, Knob
  <2>3. \A i \in DOMAIN q : \E j \in DOMAIN queue : q[i] = queue[j]
    BY ONLY <1>3, <1>t
  <2>4. queue' = q \/ queue' = Append(q, [who |-> who, val |-> knob'])
    BY <1>3 DEF TuningWrite
  <2>5. ASSUME NEW i \in DOMAIN queue', queue'[i].val.by = t PROVE Uses(t)
    <3>1. i \in DOMAIN q /\ queue'[i] = q[i]
      BY <1>3, <2>1, <2>2, <2>4, <2>5, AppendToQueue
    <3> QED BY <2>3, <2>5, <3>1 DEF Uses
  <2>6. knobDisk'.by = t => Uses(t)
    BY <1>0, <1>3, TailOfQueue DEF Uses
  <2> QED BY <2>1, <2>5, <2>6 DEF Uses
<1>4. ASSUME NEW r \in [Trial -> Record], NEW u \in Trial, NEW dest, NEW handler,
             NEW q \in Seq(Write), NEW ok \in BOOLEAN, RollBack(r, u, dest, handler, q, ok),
             knobDisk' = knobDisk \/ (queue # <<>> /\ knobDisk' = Head(queue).val),
             q = queue \/ (queue # <<>> /\ q = Tail(queue))
      PROVE  Uses(t)
  <2>1. r[u].base \in Value
    BY DEF Record
  <2>2. CASE scoped
    BY ONLY <1>3, <1>4, <2>1, <2>2 DEF RollBack
  <2>3. CASE ~scoped
    <3>1. knob' = knob /\ queue' = q
      BY <1>4, <2>3 DEF RollBack
    <3>2. knob'.by = t \/ knobDisk'.by = t => Uses(t)
      BY <1>4, <1>t, <3>1 DEF Uses
    <3>3. ASSUME NEW i \in DOMAIN queue', queue'[i].val.by = t PROVE Uses(t)
      BY ONLY <1>4, <1>t, <3>1, <3>3 DEF Uses
    <3> QED BY <3>2, <3>3 DEF Uses
  <2> QED BY <2>2, <2>3
<1>5. ASSUME NEW u \in Trial, NEW dest, NEW handler, RollBackFromIdle(u, dest, handler)
      PROVE  Uses(t)
  <2>1. RollBack(rec, u, dest, handler, queue, cready) /\ knobDisk' = knobDisk
    BY <1>5 DEF RollBackFromIdle
  <2> QED BY ONLY <1>0, <1>4, <2>1, cready \in BOOLEAN, TInv DEF TInv, TypeOK
<1>6. CASE LockHolder
  <2>w. pc \notin {"idle", "end_save"} => cur \in Trial
    BY DEF TInv, HolderHasTrial
  <2>1. CASE Approved \/ StartSaved \/ StartNotSaved \/ ActivateRefused \/ RefusalSaved
              \/ RunningSaved \/ EndSaved
    BY <2>1, <1>1 DEF Approved, StartSaved, StartNotSaved, ActivateRefused, RefusalSaved,
       RunningSaved, EndSaved
  <2>2. CASE Activate
    <3>1. SUFFICES ASSUME t # cur PROVE Uses(t)
      BY <2>2
    <3>2. cur \in Trial /\ rec[cur].target \in Value
      BY <1>0, <2>2, <2>w DEF Activate, Record
    <3>3. knob' = By(cur, rec[cur].target) /\ knob'.by # t /\ knob' \in Knob
      BY <2>2, <3>1, <3>2 DEF Activate, TuningWrite, By, Knob
    <3>4. [who |-> "trial", val |-> knob'] \in Write
      BY <3>3 DEF Write
    <3>5. queue' = queue \/ queue' = Append(queue, [who |-> "trial", val |-> knob'])
      BY <2>2 DEF Activate, TuningWrite
    <3>6. ASSUME NEW i \in DOMAIN queue', queue'[i].val.by = t PROVE Uses(t)
      <4>1. i \in DOMAIN queue /\ queue'[i] = queue[i]
        BY <1>0, <3>3, <3>4, <3>5, <3>6, AppendToQueue
      <4> QED BY <3>6, <4>1 DEF Uses
    <3>7. knobDisk' = knobDisk
      BY <2>2 DEF Activate
    <3> QED BY <3>3, <3>6, <3>7 DEF Uses
  <2>3. CASE TargetVerified
    BY <1>2, <2>3 DEF TargetVerified, HeadIs, WriteLands
  <2>4. CASE TargetFailed
    <3>1. cur \in Trial /\ queue # <<>> /\ Tail(queue) \in Seq(Write) /\ cready' \in BOOLEAN
      BY <1>0, <2>4, <2>w, TailOfQueue DEF TargetFailed, HeadIs, TInv, TypeOK
    <3>2. RollBack(rec, cur, "stopped", "start", Tail(queue), cready')
          /\ (knobDisk' = knobDisk \/ knobDisk' = Head(queue).val)
      BY <2>4 DEF TargetFailed
    <3> QED BY ONLY <1>0, <1>4, <3>1, <3>2
  <2>5. CASE RunningUndone
    <3>1. cur \in Trial /\ cready \in BOOLEAN
      BY <2>5, <2>w DEF RunningUndone, TInv, TypeOK
    <3>2. RollBack(rec, cur, "stopped", "start", queue, cready) /\ knobDisk' = knobDisk
      BY <2>5 DEF RunningUndone
    <3> QED BY ONLY <1>0, <1>4, <3>1, <3>2
  <2>6. CASE BaseSaved
    BY <1>2, <2>6 DEF BaseSaved, HeadIs, WriteLands
  <2>7. CASE BaseFailed
    <3>1. cur \in Trial
      BY <2>7, <2>w DEF BaseFailed
    <3>2. PICK q \in Seq(Write), ok \in BOOLEAN :
              /\ Failed(q, ok)
              /\ knobDisk' = knobDisk \/ (queue # <<>> /\ knobDisk' = Head(queue).val)
              /\ q = queue \/ (queue # <<>> /\ q = Tail(queue))
      BY <1>0, <2>7, TailOfQueue DEF BaseFailed, HeadIs, TInv, TypeOK
    <3> DEFINE marked == [rec EXCEPT ![cur].state = "rollback_failed"]
    <3>3. marked \in [Trial -> Record]
      BY <1>0, <3>1, StateSet DEF States, Active
    <3> HIDE DEF marked
    <3>4. CASE RollBack(marked, cur, "rolled_back", "retry", q, ok)
      BY ONLY <1>4, <3>1, <3>2, <3>3, <3>4
    <3>5. CASE knob' = knob /\ queue' = q
      <4>1. CASE q = queue
        BY <1>t, <3>2, <3>5, <4>1 DEF Uses
      <4>2. CASE queue # <<>> /\ q = Tail(queue)
        BY <1>2, <3>2, <3>5, <4>2
      <4> QED BY <3>2, <4>1, <4>2
    <3> QED BY <3>2, <3>4, <3>5 DEF Failed, marked
  <2> QED BY <1>6, <2>1, <2>2, <2>3, <2>4, <2>5, <2>6, <2>7 DEF LockHolder, StartStep
<1>7. CASE Requests
  <2>1. ASSUME NEW u \in Trial, NEW complete \in BOOLEAN, StopTrial(u, complete) PROVE Uses(t)
    BY <1>5, <2>1 DEF StopTrial
  <2>2. ASSUME NEW u \in Trial, Reject(u) \/ Evaluate(u) \/ Approve(u) \/ StartTrial(u)
        PROVE  Uses(t)
    <3>1. UNCHANGED <<knob, knobDisk, queue>>
      BY ONLY <2>2 DEF Reject, Evaluate, Approve, StartTrial, knobVars
    <3> QED BY <1>1, <3>1
  <2>3. ASSUME NEW u \in Trial, NEW v \in Value, Propose(u, v) PROVE Uses(t)
    <3>1. UNCHANGED <<knob, knobDisk, queue>>
      BY ONLY <2>3 DEF Propose, knobVars
    <3> QED BY <1>1, <3>1
  <2> QED BY <1>7, <2>1, <2>2, <2>3 DEF Requests
<1>8. CASE Supervision
  BY <1>5, <1>8 DEF Supervision, Breach, Expire, Interrupted, Retry
<1>9. CASE Lifecycle
  <2>1. CASE Initialise
    <3>1. knobDisk' = knobDisk
      BY <2>1 DEF Initialise
    <3>2. CASE UNCHANGED <<knob, queue>>
      BY <1>1, <3>1, <3>2
    <3>3. ASSUME NEW r \in [Trial -> Record], NEW u \in Trial, RollBack(r, u, "stopped", "restart", <<>>, TRUE)
          PROVE  Uses(t)
      <4>1. r[u].base \in Value
        BY DEF Record
      <4>2. knob' = knob \/ knob'.by = Owner
        BY <3>3 DEF RollBack, TuningWrite, By
      <4>3. ASSUME scoped PROVE \A i \in DOMAIN queue' : queue'[i].val.by = Owner
        BY <3>3, <4>3 DEF RollBack, TuningWrite, By
      <4>4. ASSUME ~scoped PROVE queue' = <<>>
        BY <3>3, <4>4 DEF RollBack
      <4> QED BY <1>0, <3>1, <4>2, <4>3, <4>4 DEF Uses
    <3>4. \A readable \in BOOLEAN, dropped \in SUBSET Trial :
             [v \in Trial |-> IF readable /\ v \notin dropped THEN saved[v] ELSE Absent]
                 \in [Trial -> Record]
      BY QueueType, AbsentType DEF TInv
    <3> QED BY ZenonT(40), <2>1, <3>2, <3>3, <3>4 DEF Initialise
  <2>2. CASE Unload
    BY <1>1, <2>2 DEF Unload
  <2>3. CASE StopAll
    BY <1>1, <1>5, <2>3 DEF StopAll, In
  <2>4. ASSUME MemoryLost, knobDisk' = knobDisk \/ (queue # <<>> /\ knobDisk' = Head(queue).val)
        PROVE  Uses(t)
    BY <1>t, <2>4 DEF MemoryLost, Uses
  <2>5. CASE Unloaded \/ Crash
    BY <2>4, <2>5 DEF Unloaded, Crash
  <2> QED BY <1>9, <2>1, <2>2, <2>3, <2>5 DEF Lifecycle
<1>10. CASE Others
  <2>1. CASE CallerLeaves \/ ControlsHeld \/ ControlsReleased \/ FitChanges \/ TimePasses
    BY <1>1, <2>1 DEF CallerLeaves, ControlsHeld, ControlsReleased, FitChanges, TimePasses
  <2>2. CASE Killed
    <3>1. \A i \in DOMAIN queue' : i \in DOMAIN queue /\ queue'[i].val = queue[i].val
      <4>1. \A i \in DOMAIN queue : queue[i] \in Write
        BY <1>0
      <4> QED BY <2>2, <4>1 DEF Killed, Write
    <3> QED BY <2>2, <3>1 DEF Killed, Uses
  <2>3. CASE \E v \in Value : OwnerSets(v)
    <3>1. PICK v \in Value : TuningWrite("owner", v, Owner, queue, cready) /\ knobDisk' = knobDisk
      BY <2>3 DEF OwnerSets
    <3> QED BY ONLY <1>0, <1>3, <3>1, TInv DEF TInv, TypeOK
  <2>4. CASE CycleSaves
    <3>1. [who |-> "cycle", val |-> knob] \in Write
      BY <1>0 DEF Write
    <3>2. ASSUME NEW i \in DOMAIN queue', queue'[i].val.by = t PROVE Uses(t)
      BY <1>0, <2>4, <3>1, <3>2, AppendToQueue DEF CycleSaves, Uses
    <3> QED BY <2>4, <3>2 DEF CycleSaves, Uses
  <2>5. CASE OtherWritten
    BY <1>2, <2>5 DEF OtherWritten, HeadIs, WriteLands
  <2> QED BY <1>10, <2>1, <2>2, <2>3, <2>4, <2>5 DEF Others
<1>11. CASE UNCHANGED vars
  BY <1>1, <1>11 DEF vars
<1> QED BY <1>6, <1>7, <1>8, <1>9, <1>10, <1>11 DEF Next

\* What reaches the trials file is what memory held before or after the step,
\* and only while the file may be written.
LEMMA WhatIsSaved ==
    ASSUME TInv, ReadOnly, [Next]_vars
    PROVE  \/ saved' = saved
           \/ writable /\ saved' = rec
           \/ writable /\ saved' = rec' /\ life' # "down"
<1> USE DEF recordVars, ReadOnly
<1>1. CASE LockHolder
  <2>1. CASE Approved \/ StartSaved \/ StartNotSaved \/ RefusalSaved \/ RunningSaved \/ EndSaved
    BY <2>1 DEF Approved, StartSaved, StartNotSaved, RefusalSaved, RunningSaved, EndSaved,
       TrialsSaved, TrialsNotSaved
  <2>2. CASE Activate \/ ActivateRefused \/ TargetVerified \/ TargetFailed \/ BaseSaved \/ BaseFailed
    BY <2>2 DEF Activate, ActivateRefused, TargetVerified, TargetFailed, BaseSaved, BaseFailed
  <2>3. CASE RunningUndone
    BY <2>3 DEF RunningUndone, TrialsNotSaved
  <2> QED BY <1>1, <2>1, <2>2, <2>3 DEF LockHolder, StartStep
<1>2. CASE Requests \/ Supervision
  <2>1. ASSUME NEW t \in Trial, NEW v \in Value, Propose(t, v) PROVE
           saved' = saved \/ (writable /\ saved' = rec' /\ life' # "down")
    BY <2>1 DEF Propose, TrialsSaved, TrialsNotSaved
  <2>2. ASSUME NEW t \in Trial, Reject(t) \/ Evaluate(t) PROVE
           saved' = saved \/ (writable /\ saved' = rec' /\ life' # "down")
    BY <2>2 DEF Reject, Evaluate, TrialsSaved, TrialsNotSaved
  <2>3. ASSUME NEW t \in Trial, NEW complete \in BOOLEAN,
               \/ Approve(t) \/ StartTrial(t) \/ StopTrial(t, complete)
               \/ Breach(t) \/ Expire(t) \/ Interrupted(t) \/ Retry(t)
        PROVE  saved' = saved
    BY <2>3 DEF Approve, StartTrial, StopTrial, Breach, Expire, Interrupted, Retry, RollBackFromIdle
  <2> QED BY <1>2, <2>1, <2>2, <2>3 DEF Requests, Supervision
<1>3. CASE Lifecycle
  BY <1>3 DEF Lifecycle, Initialise, Unload, StopAll, RollBackFromIdle, Unloaded, Crash
<1>4. CASE Others
  BY <1>4 DEF Others, CallerLeaves, Killed, OwnerSets, ControlsHeld, ControlsReleased, CycleSaves,
     OtherWritten, FitChanges, TimePasses
<1>5. CASE UNCHANGED vars
  BY <1>5 DEF vars
<1> QED BY <1>1, <1>2, <1>3, <1>4, <1>5 DEF Next

\* An active record stays active in all that a process does, unless its start
\* is taken back before anything was written, or its baseline is verified.
LEMMA ActiveStays ==
    ASSUME TInv, HolderKnows, [Next]_vars, life # "down", life' # "down", NEW t \in Trial,
           rec[t].state \in Active
    PROVE  \/ rec'[t].state \in Active
           \/ t = cur /\ (StartNotSaved \/ ActivateRefused \/ BaseSaved)
<1> USE DEF recordVars
<1>0. rec \in [Trial -> Record] /\ Active \cap {"none", "proposed", "approved", "rejected"} = {}
      /\ \A u \in Trial : rec[u] \in Record
  BY QueueType DEF TInv, Active
<1>1. CASE UNCHANGED rec
  BY <1>1
<1>2. ASSUME NEW r \in [Trial -> Record], NEW u \in Trial, NEW dest, NEW handler, NEW q, NEW ok,
             RollBack(r, u, dest, handler, q, ok), r[t].state \in Active
      PROVE  rec'[t].state \in Active
  BY <1>2 DEF RollBack, Record
<1>3. CASE LockHolder
  <2>w. pc \notin {"idle", "end_save"} => cur \in Trial
    BY DEF TInv, HolderHasTrial
  <2>1. CASE Approved \/ StartSaved \/ Activate \/ RefusalSaved \/ RunningSaved \/ EndSaved
    BY <1>1, <2>1 DEF Approved, StartSaved, Activate, RefusalSaved, RunningSaved, EndSaved
  <2>2. CASE StartNotSaved \/ ActivateRefused \/ BaseSaved
    <3>1. SUFFICES ASSUME t # cur PROVE rec'[t].state \in Active
      BY <2>2
    <3> QED BY <1>0, <2>2, <3>1 DEF StartNotSaved, ActivateRefused, BaseSaved
  <2>3. CASE TargetVerified
    BY <1>0, <2>3 DEF TargetVerified, Active
  <2>4. CASE TargetFailed \/ RunningUndone
    BY <1>0, <1>2, <2>4, <2>w DEF TargetFailed, RunningUndone
  <2>5. CASE BaseFailed
    <3>1. cur \in Trial /\ (\E q, ok : Failed(q, ok))
      BY <2>5, <2>w DEF BaseFailed
    <3> DEFINE marked == [rec EXCEPT ![cur].state = "rollback_failed"]
    <3>2. marked \in [Trial -> Record] /\ marked[t].state \in Active
      BY <1>0, <3>1, StateSet DEF States, Active
    <3> HIDE DEF marked
    <3>3. (\E q, ok : RollBack(marked, cur, "rolled_back", "retry", q, ok)) \/ rec' = marked
      BY <3>1 DEF Failed, marked
    <3> QED BY <1>2, <3>1, <3>2, <3>3
  <2> QED BY <1>3, <2>1, <2>2, <2>3, <2>4, <2>5 DEF LockHolder, StartStep
<1>4. CASE Requests \/ Supervision
  <2>1. ASSUME NEW u \in Trial, NEW v \in Value, Propose(u, v) PROVE rec'[t].state \in Active
    <3>1. PICK dropped \in SUBSET (Trial \ In(Active)) :
              /\ rec[u] = Absent \/ u \in dropped
              /\ rec' = [w \in Trial |->
                  IF w = u THEN [state |-> "proposed", base |-> knob.v, target |-> v, attempts |-> 0]
                  ELSE IF w \in dropped THEN Absent ELSE rec[w]]
      BY <2>1 DEF Propose
    <3>2. t # u /\ t \notin dropped
      BY <1>0, <3>1 DEF In, Absent
    <3> QED BY <3>1, <3>2
  <2>2. ASSUME NEW u \in Trial, Reject(u) \/ Approve(u) \/ StartTrial(u) PROVE rec'[t].state \in Active
    <3>1. t # u
      BY <1>0, <2>2 DEF Reject, Approve, StartTrial
    <3> QED BY <1>0, <2>2, <3>1 DEF Reject, Approve, StartTrial
  <2>3. ASSUME NEW u \in Trial, Evaluate(u) PROVE rec'[t].state \in Active
    BY <2>3 DEF Evaluate
  <2>4. ASSUME NEW u \in Trial, NEW complete \in BOOLEAN,
               StopTrial(u, complete) \/ Breach(u) \/ Expire(u) \/ Interrupted(u) \/ Retry(u)
        PROVE  rec'[t].state \in Active
    BY <1>0, <1>2, <2>4 DEF StopTrial, Breach, Expire, Interrupted, Retry, RollBackFromIdle
  <2> QED BY <1>4, <2>1, <2>2, <2>3, <2>4 DEF Requests, Supervision
<1>5. CASE Lifecycle
  <2>1. CASE Unload
    BY <1>1, <2>1 DEF Unload
  <2>2. CASE StopAll
    BY <1>0, <1>1, <1>2, <2>2 DEF StopAll, RollBackFromIdle, In
  <2> QED BY <1>5, <2>1, <2>2 DEF Lifecycle, Initialise, Unloaded, Crash, MemoryLost
<1>6. CASE Others
  BY <1>1, <1>6 DEF Others, CallerLeaves, Killed, OwnerSets, ControlsHeld, ControlsReleased, CycleSaves,
     OtherWritten, FitChanges, TimePasses
<1>7. CASE UNCHANGED vars
  BY <1>1, <1>7 DEF vars
<1> QED BY <1>3, <1>4, <1>5, <1>6, <1>7 DEF Next

\* No record becomes active but that of a trial that starts.
LEMMA ActiveFrom ==
    ASSUME TInv, HolderKnows, [Next]_vars, life # "down", life' # "down", NEW t \in Trial,
           rec'[t].state \in Active
    PROVE  rec[t].state \in Active \/ StartTrial(t)
<1> USE DEF recordVars
<1>0. rec \in [Trial -> Record] /\ Active \cap {"none", "proposed", "approved", "rejected"} = {}
      /\ Active \cap Ended = {} /\ to \in Ended /\ \A u \in Trial : rec[u] \in Record
  BY QueueType DEF TInv, TypeOK, Active, Ended
<1>1. CASE UNCHANGED rec
  BY <1>1
<1>2. ASSUME NEW r \in [Trial -> Record], NEW u \in Trial, NEW dest, NEW handler, NEW q, NEW ok,
             RollBack(r, u, dest, handler, q, ok)
      PROVE  r[t].state \in Active
  <2>1. r[t].state = rec'[t].state
    BY <1>2 DEF RollBack, Record
  <2> QED BY <2>1
<1>3. CASE LockHolder
  <2>w. /\ pc \notin {"idle", "end_save"} => cur \in Trial
        /\ pc \in {"target_write", "running_save", "base_write"} => rec[cur].state \in Active
    BY DEF TInv, HolderHasTrial, HolderKnows
  <2>1. CASE Approved \/ StartSaved \/ Activate \/ RefusalSaved \/ RunningSaved \/ EndSaved
    BY <1>1, <2>1 DEF Approved, StartSaved, Activate, RefusalSaved, RunningSaved, EndSaved
  <2>2. CASE StartNotSaved \/ ActivateRefused
    <3>1. cur \in Trial /\ rec'[cur].state \notin Active
      BY <1>0, <2>2, <2>w DEF StartNotSaved, ActivateRefused, Active, Record
    <3>2. t # cur => rec'[t] = rec[t]
      BY <1>0, <2>2 DEF StartNotSaved, ActivateRefused
    <3> QED BY <3>1, <3>2
  <2>3. CASE TargetVerified \/ BaseSaved
    BY <1>0, <2>3, <2>w DEF TargetVerified, BaseSaved
  <2>4. CASE TargetFailed \/ RunningUndone
    BY <1>0, <1>2, <2>4, <2>w DEF TargetFailed, RunningUndone
  <2>5. CASE BaseFailed
    <3>1. cur \in Trial /\ rec[cur].state \in Active /\ (\E q, ok : Failed(q, ok))
      BY <2>5, <2>w DEF BaseFailed
    <3> DEFINE marked == [rec EXCEPT ![cur].state = "rollback_failed"]
    <3>2. marked \in [Trial -> Record] /\ (marked[t].state \in Active => rec[t].state \in Active)
      BY <1>0, <3>1, StateSet DEF States, Active
    <3> HIDE DEF marked
    <3>3. (\E q, ok : RollBack(marked, cur, "rolled_back", "retry", q, ok)) \/ rec' = marked
      BY <3>1 DEF Failed, marked
    <3> QED BY <1>2, <3>1, <3>2, <3>3
  <2> QED BY <1>3, <2>1, <2>2, <2>3, <2>4, <2>5 DEF LockHolder, StartStep
<1>4. CASE Requests \/ Supervision
  <2>1. ASSUME NEW u \in Trial, NEW v \in Value, Propose(u, v) PROVE rec[t].state \in Active
    <3>1. PICK dropped \in SUBSET (Trial \ In(Active)) :
              rec' = [w \in Trial |->
                  IF w = u THEN [state |-> "proposed", base |-> knob.v, target |-> v, attempts |-> 0]
                  ELSE IF w \in dropped THEN Absent ELSE rec[w]]
      BY <2>1 DEF Propose
    <3> QED BY <1>0, <3>1 DEF Absent
  <2>2. ASSUME NEW u \in Trial, Reject(u) \/ Approve(u) PROVE rec[t].state \in Active
    <3>1. rec'[u].state \notin Active
      BY <1>0, <2>2 DEF Reject, Approve, Record
    <3>2. t # u => rec'[t] = rec[t]
      BY <1>0, <2>2 DEF Reject, Approve
    <3> QED BY <3>1, <3>2
  <2>3. ASSUME NEW u \in Trial, StartTrial(u) PROVE rec[t].state \in Active \/ StartTrial(t)
    <3>1. SUFFICES ASSUME t # u PROVE rec[t].state \in Active
      BY <2>3
    <3> QED BY <1>0, <2>3, <3>1 DEF StartTrial
  <2>4. ASSUME NEW u \in Trial, NEW complete \in BOOLEAN,
               StopTrial(u, complete) \/ Breach(u) \/ Expire(u) \/ Interrupted(u) \/ Retry(u)
        PROVE  rec[t].state \in Active
    BY <1>0, <1>2, <2>4 DEF StopTrial, Breach, Expire, Interrupted, Retry, RollBackFromIdle
  <2>5. ASSUME NEW u \in Trial, Evaluate(u) PROVE rec[t].state \in Active
    BY <2>5 DEF Evaluate
  <2> QED BY <1>4, <2>1, <2>2, <2>3, <2>4, <2>5 DEF Requests, Supervision
<1>5. CASE Lifecycle
  <2>1. CASE Unload
    BY <1>1, <2>1 DEF Unload
  <2>2. CASE StopAll
    BY <1>0, <1>1, <1>2, <2>2 DEF StopAll, RollBackFromIdle, In
  <2> QED BY <1>5, <2>1, <2>2 DEF Lifecycle, Initialise, Unloaded, Crash, MemoryLost
<1>6. CASE Others
  BY <1>1, <1>6 DEF Others, CallerLeaves, Killed, OwnerSets, ControlsHeld, ControlsReleased, CycleSaves,
     OtherWritten, FitChanges, TimePasses
<1>7. CASE UNCHANGED vars
  BY <1>1, <1>7 DEF vars
<1> QED BY <1>3, <1>4, <1>5, <1>6, <1>7 DEF Next

\* A process that is down does nothing but start; one that goes down forgets.
LEMMA AsleepStep ==
    ASSUME TInv, Asleep, [Next]_vars
    PROVE  Asleep' /\ (life = "down" /\ life' # "down" => Initialise)
<1> USE DEF Asleep, recordVars, knobVars, worldVars, lockVars
<1>0. life' = "down" /\ life' = life => pc = "idle" /\ op = "none" /\ queue = <<>>
  OBVIOUS
<1>1. CASE LockHolder
  <2>1. life # "down"
    BY <1>1 DEF LockHolder, StartStep, Approved, StartSaved, StartNotSaved, Activate,
       ActivateRefused, RefusalSaved, TargetVerified, TargetFailed, RunningSaved, RunningUndone,
       BaseSaved, BaseFailed, EndSaved
  <2>2. life' = life \/ life' # "down"
    BY <1>1 DEF LockHolder, StartStep, Approved, StartSaved, StartNotSaved, Activate,
       ActivateRefused, RefusalSaved, TargetVerified, TargetFailed, RunningSaved, RunningUndone,
       BaseSaved, BaseFailed, EndSaved
  <2> QED BY <2>1, <2>2
<1>2. CASE Requests \/ Supervision
  <2>1. life # "down" /\ life' = life
    BY <1>2 DEF Requests, Supervision, Propose, Reject, Evaluate, Approve, StartTrial, StopTrial,
       Breach, Expire, Interrupted, Retry
  <2> QED BY <2>1
<1>3. CASE Lifecycle
  <2>1. CASE Initialise
    BY <2>1 DEF Initialise
  <2>2. CASE Unload \/ StopAll
    BY <2>2 DEF Unload, StopAll
  <2>3. CASE Unloaded \/ Crash
    BY <2>3 DEF Unloaded, Crash, MemoryLost
  <2> QED BY <1>3, <2>1, <2>2, <2>3 DEF Lifecycle
<1>4. CASE Others
  <2>1. CASE CallerLeaves \/ Killed \/ (\E v \in Value : OwnerSets(v)) \/ ControlsHeld \/ CycleSaves
              \/ OtherWritten \/ FitChanges
    <3>1. life # "down" /\ life' = life
      BY <2>1 DEF CallerLeaves, Killed, OwnerSets, ControlsHeld, CycleSaves, OtherWritten, HeadIs,
         FitChanges, Shielded
    <3> QED BY <3>1
  <2>2. CASE ControlsReleased \/ TimePasses
    BY <2>2 DEF ControlsReleased, TimePasses
  <2> QED BY <1>4, <2>1, <2>2 DEF Others
<1>5. CASE UNCHANGED vars
  BY <1>5 DEF vars
<1> QED BY <1>1, <1>2, <1>3, <1>4, <1>5 DEF Next

\* A rollback under way has changed no state yet.
LEMMA RollBackStates ==
    ASSUME NEW r \in [Trial -> Record], NEW u \in Trial, NEW dest, NEW handler, NEW q, NEW ok,
           RollBack(r, u, dest, handler, q, ok), NEW t \in Trial
    PROVE  rec'[t].state = r[t].state
  BY DEF RollBack, Record

\* A start reads all that is active, or nothing.
LEMMA WhatIsLoaded ==
    ASSUME TypeOK, Initialise
    PROVE  \E loaded \in [Trial -> Record] :
              /\ \A t \in Trial : loaded[t] = saved[t] \/ loaded[t] = Absent
              /\ ~writable' => \A t \in Trial : loaded[t] = Absent
              /\ writable' => \A t \in Trial : saved[t].state \in Active => loaded[t] = saved[t]
              /\ \/ /\ rec' = loaded
                    /\ knob' = knob /\ queue' = queue
                    /\ pc' = "end_save" /\ op' = "restart"
                 \/ \E t \in Trial :
                       /\ loaded[t].state \in Active
                       /\ RollBack(loaded, t, "stopped", "restart", <<>>, TRUE)
<1>1. PICK dropped \in SUBSET {t \in Trial : saved[t].state \notin Active}, readable \in BOOLEAN :
        LET loaded == [t \in Trial |->
                          IF readable /\ t \notin dropped THEN saved[t] ELSE Absent]
        IN  /\ writable' = readable
            /\ \/ /\ \A t \in Trial : loaded[t].state \notin Active
                  /\ rec' = loaded
                  /\ UNCHANGED <<knob, queue>>
                  /\ pc' = "end_save" /\ op' = "restart" /\ UNCHANGED <<cur, to>>
               \/ \E t \in Trial :
                     /\ loaded[t].state \in Active
                     /\ RollBack(loaded, t, "stopped", "restart", <<>>, TRUE)
  BY DEF Initialise
<1> DEFINE loaded == [t \in Trial |-> IF readable /\ t \notin dropped THEN saved[t] ELSE Absent]
<1>2. loaded \in [Trial -> Record]
  BY QueueType, AbsentType
<1>3. /\ \A t \in Trial : loaded[t] = saved[t] \/ loaded[t] = Absent
      /\ ~writable' => \A t \in Trial : loaded[t] = Absent
      /\ writable' => \A t \in Trial : saved[t].state \in Active => loaded[t] = saved[t]
  BY <1>1
<1>4. \/ rec' = loaded /\ knob' = knob /\ queue' = queue /\ pc' = "end_save" /\ op' = "restart"
      \/ \E t \in Trial :
            loaded[t].state \in Active /\ RollBack(loaded, t, "stopped", "restart", <<>>, TRUE)
  BY <1>1
<1> HIDE DEF loaded
<1> QED BY <1>2, <1>3, <1>4

\* While the file cannot be read nothing but the lifecycle goes on.
LEMMA ReadOnlyStep == TInv /\ Asleep /\ ReadOnly /\ [Next]_vars => ReadOnly'
<1> SUFFICES ASSUME TInv, Asleep, ReadOnly, [Next]_vars, ~writable' PROVE ReadOnly'
  BY DEF ReadOnly
<1> USE DEF recordVars, knobVars, worldVars, lockVars
<1>0. Active \cap {"none"} = {} /\ Applied \cap {"none"} = {} /\ Ended \cap {"none"} = {}
  BY DEF Active, Applied, Ended
<1>1. CASE Initialise
  <2>1. PICK loaded \in [Trial -> Record] :
            /\ ~writable' => \A t \in Trial : loaded[t] = Absent
            /\ \/ rec' = loaded /\ pc' = "end_save" /\ op' = "restart"
               \/ \E t \in Trial : loaded[t].state \in Active
    BY ONLY <1>1, TInv, WhatIsLoaded DEF TInv
  <2>2. Absent.state = "none"
    BY DEF Absent
  <2> QED BY <1>0, <2>1, <2>2 DEF ReadOnly
<1>2. CASE Unloaded \/ Crash
  BY <1>2 DEF Unloaded, Crash, MemoryLost
<1>3. CASE ~(Initialise \/ Unloaded \/ Crash)
  <2>1. writable' = writable
    <3>1. CASE LockHolder
      BY <3>1 DEF LockHolder, StartStep, Approved, StartSaved, StartNotSaved, Activate,
         ActivateRefused, RefusalSaved, TargetVerified, TargetFailed, RunningSaved, RunningUndone,
         BaseSaved, BaseFailed, EndSaved
    <3>2. CASE Requests \/ Supervision
      BY <3>2 DEF Requests, Supervision, Propose, Reject, Evaluate, Approve, StartTrial, StopTrial,
         Breach, Expire, Interrupted, Retry, RollBackFromIdle
    <3>3. CASE Lifecycle
      BY <1>3, <3>3 DEF Lifecycle, Unload, StopAll, RollBackFromIdle
    <3>4. CASE Others
      BY <3>4 DEF Others, CallerLeaves, Killed, OwnerSets, ControlsHeld, ControlsReleased,
         CycleSaves, OtherWritten, FitChanges, TimePasses
    <3>5. CASE UNCHANGED vars
      BY <3>5 DEF vars
    <3> QED BY <3>1, <3>2, <3>3, <3>4, <3>5 DEF Next
  <2>2. /\ pc \in {"idle", "end_save"} /\ op \in {"none", "restart", "unload"}
        /\ \A t \in Trial : rec[t].state = "none"
    BY <2>1 DEF ReadOnly
  <2>3. CASE LockHolder
    <3>1. CASE EndSaved
      BY <2>2, <3>1 DEF EndSaved, Release, ReadOnly
    <3>2. ~EndSaved => FALSE
      BY <2>2, <2>3 DEF LockHolder, StartStep, Approved, StartSaved, StartNotSaved, Activate,
         ActivateRefused, RefusalSaved, TargetVerified, TargetFailed, RunningSaved, RunningUndone,
         BaseSaved, BaseFailed
    <3> QED BY <3>1, <3>2
  <2>4. CASE Requests \/ Supervision
    <3>1. ASSUME Requests PROVE FALSE
      BY <2>1, <3>1 DEF Requests, Propose, Reject, Evaluate, Approve, StartTrial, StopTrial
    <3>2. ASSUME Supervision PROVE FALSE
      BY <1>0, <2>2, <3>2 DEF Supervision, Breach, Expire, Interrupted, Retry
    <3> QED BY <2>4, <3>1, <3>2
  <2>5. CASE Lifecycle
    <3>1. In(Applied) = {}
      BY <1>0, <2>2 DEF In
    <3> QED BY <1>3, <2>2, <2>5, <3>1 DEF Lifecycle, Unload, StopAll, Hold, ReadOnly
  <2>6. CASE Others
    <3>1. CASE Killed
      BY <2>2, <3>1 DEF Killed
    <3>2. CASE ~Killed
      BY <2>2, <2>6, <3>2 DEF Others, CallerLeaves, OwnerSets, ControlsHeld, ControlsReleased,
         CycleSaves, OtherWritten, FitChanges, TimePasses, ReadOnly
    <3> QED BY <3>1, <3>2
  <2>7. CASE UNCHANGED vars
    BY <2>2, <2>7 DEF vars, ReadOnly
  <2> QED BY <2>3, <2>4, <2>5, <2>6, <2>7 DEF Next
<1> QED BY <1>1, <1>2, <1>3

\* One change at a time: a trial starts only while no other is active.
LEMMA ExclusiveStep == TInv /\ HolderKnows /\ Asleep /\ ReadOnly /\ Exclusive /\ [Next]_vars => Exclusive'
<1> SUFFICES ASSUME TInv, HolderKnows, Asleep, ReadOnly, Exclusive, [Next]_vars PROVE Exclusive'
  OBVIOUS
<1>0. rec \in [Trial -> Record] /\ \A t \in Trial : rec[t] \in Record
  BY QueueType DEF TInv
<1>1. Asleep' /\ (life = "down" /\ life' # "down" => Initialise)
  BY AsleepStep
<1>2. life' # "down" =>
          \A t, u \in Trial : rec'[t].state \in Active /\ rec'[u].state \in Active => t = u
  <2> SUFFICES ASSUME life' # "down", NEW t \in Trial, NEW u \in Trial,
                      rec'[t].state \in Active, rec'[u].state \in Active
               PROVE  t = u
    OBVIOUS
  <2>1. CASE life # "down"
    <3>1. rec[t].state \in Active \/ StartTrial(t)
      BY ONLY <2>1, TInv, HolderKnows, [Next]_vars, life' # "down", t \in Trial,
              rec'[t].state \in Active, ActiveFrom
    <3>2. rec[u].state \in Active \/ StartTrial(u)
      BY ONLY <2>1, TInv, HolderKnows, [Next]_vars, life' # "down", u \in Trial,
              rec'[u].state \in Active, ActiveFrom
    <3>3. ASSUME NEW v \in Trial, NEW w \in Trial, StartTrial(v), rec[w].state \in Active PROVE v = w
      BY <3>3 DEF StartTrial, Readiness, In
    <3>4. ASSUME StartTrial(t), StartTrial(u), t # u PROVE FALSE
      <4>1. rec'[u] = rec[u] /\ rec'[u].state = "starting" /\ rec[u].state = "approved"
        BY <1>0, <3>4 DEF StartTrial, Record
      <4> QED BY <4>1
    <3> QED BY <3>1, <3>2, <3>3, <3>4 DEF Exclusive
  <2>2. CASE Initialise
    <3>1. \A v \in Trial : rec'[v].state \in Active => saved[v].state \in Active
      <4> SUFFICES ASSUME NEW v \in Trial, rec'[v].state \in Active PROVE saved[v].state \in Active
        OBVIOUS
      <4>1. PICK loaded \in [Trial -> Record] :
              /\ \A w \in Trial : loaded[w] = saved[w] \/ loaded[w] = Absent
              /\ \/ rec' = loaded
                 \/ \E w \in Trial : RollBack(loaded, w, "stopped", "restart", <<>>, TRUE)
        BY ONLY <2>2, TInv, WhatIsLoaded DEF TInv
      <4>2. loaded[v].state = rec'[v].state
        BY ONLY <4>1, v \in Trial, RollBackStates
      <4>3. Absent.state \notin Active
        BY DEF Absent, Active
      <4> QED BY <4>1, <4>2, <4>3
    <3> QED BY <3>1 DEF Exclusive
  <2> QED BY <1>1, <2>1, <2>2
<1>3. \A t, u \in Trial : saved'[t].state \in Active /\ saved'[u].state \in Active => t = u
  BY <1>2, WhatIsSaved DEF Exclusive
<1> QED BY <1>1, <1>2, <1>3 DEF Exclusive, Asleep

\* Of the writes that wait at most one is the holder's, and he waits for it.
LEMMA OneOwnWriteStep == TInv /\ Asleep /\ OneOwnWrite /\ [Next]_vars => OneOwnWrite'
<1> SUFFICES ASSUME TInv, Asleep, OneOwnWrite, [Next]_vars PROVE OneOwnWrite'
  OBVIOUS
<1> USE DEF recordVars, knobVars, worldVars, lockVars
<1> DEFINE Ours(q) == {i \in DOMAIN q : q[i].who = "trial"}
           Lone(q) == \A i, j \in Ours(q) : i = j
<1>0. queue \in Seq(Write) /\ cready \in BOOLEAN
  BY QueueType DEF TInv, TypeOK
<1>a. /\ Lone(queue)
      /\ pc \notin {"target_write", "base_write"} => Ours(queue) = {}
  BY DEF OneOwnWrite, Writing
<1>b. ASSUME Lone(queue'), pc' \notin {"target_write", "base_write"} => Ours(queue') = {}
      PROVE  OneOwnWrite'
  BY <1>b DEF OneOwnWrite, Writing
<1>t. queue # <<>> =>
          /\ Head(queue) = queue[1] /\ 1 \in DOMAIN queue /\ Tail(queue) \in Seq(Write)
          /\ \A i \in DOMAIN Tail(queue) : i + 1 \in DOMAIN queue /\ Tail(queue)[i] = queue[i + 1]
  BY <1>0, TailOfQueue
<1>h. queue # <<>> => Lone(Tail(queue)) /\ (Head(queue).who = "trial" => Ours(Tail(queue)) = {})
  <2> SUFFICES ASSUME queue # <<>>
               PROVE  Lone(Tail(queue)) /\ (Head(queue).who = "trial" => Ours(Tail(queue)) = {})
    OBVIOUS
  <2>1. \A i \in Ours(Tail(queue)) : i + 1 \in Ours(queue) /\ i \in Int /\ i + 1 # 1
    BY <1>0, <1>t
  <2> QED BY <1>a, <1>t, <2>1
<1>w. ASSUME NEW q \in Seq(Write), NEW who \in {"trial", "owner", "cycle"}, NEW val \in Knob,
             Lone(q), who = "trial" => Ours(q) = {}
      PROVE  /\ Lone(Append(q, [who |-> who, val |-> val]))
             /\ who # "trial" => Ours(Append(q, [who |-> who, val |-> val])) = Ours(q)
  <2>1. [who |-> who, val |-> val] \in Write
    BY DEF Write
  <2>2. \A i \in Ours(Append(q, [who |-> who, val |-> val])) :
            i \in Ours(q) \/ (i = Len(q) + 1 /\ who = "trial")
    BY <2>1, AppendToQueue
  <2>3. \A i \in Ours(q) : i \in Ours(Append(q, [who |-> who, val |-> val]))
    OBVIOUS
  <2> QED BY <1>w, <2>2, <2>3
<1>r. ASSUME NEW r \in [Trial -> Record], NEW u \in Trial, NEW dest, NEW handler,
             NEW q \in Seq(Write), NEW ok \in BOOLEAN, RollBack(r, u, dest, handler, q, ok),
             Ours(q) = {}
      PROVE  OneOwnWrite'
  <2>1. r[u].base \in Value /\ By(Owner, r[u].base) \in Knob
    BY DEF Record, By, Knob
  <2>2. pc' = "base_write" /\ (queue' = q \/ queue' = Append(q, [who |-> "trial", val |-> By(Owner, r[u].base)]))
    BY <1>r DEF RollBack, TuningWrite
  <2>3. Lone(queue')
    <3>1. Lone(q)
      BY <1>r
    <3>2. Lone(Append(q, [who |-> "trial", val |-> By(Owner, r[u].base)]))
      <4> HIDE DEF Lone, Ours
      <4> QED BY ONLY <1>r, <1>w, <2>1, <3>1
    <3> QED BY <2>2, <3>1, <3>2
  <2> QED BY <1>b, <2>2, <2>3
<1>1. CASE queue' = queue /\ (pc' = pc \/ Ours(queue) = {})
  BY <1>a, <1>b, <1>1
<1>2. CASE LockHolder
  <2>w. pc \notin {"idle", "end_save"} => cur \in Trial
    BY DEF TInv, HolderHasTrial
  <2>r. rec \in [Trial -> Record]
    BY QueueType DEF TInv
  <2>1. CASE Approved \/ StartSaved \/ StartNotSaved \/ ActivateRefused \/ RefusalSaved
              \/ RunningSaved \/ EndSaved
    <3>1. queue' = queue /\ pc \notin {"target_write", "base_write"}
      BY <2>1 DEF Approved, StartSaved, StartNotSaved, ActivateRefused, RefusalSaved, RunningSaved, EndSaved
    <3> QED BY <1>1, <1>a, <3>1
  <2>2. CASE Activate
    <3>1. cur \in Trial /\ rec[cur].target \in Value
      BY <2>2, <2>w, <2>r DEF Activate, Record
    <3>2. pc' = "target_write" /\ Ours(queue) = {} /\ By(cur, rec[cur].target) \in Knob
      BY <1>a, <2>2, <3>1 DEF Activate, Goto, By, Knob
    <3>3. queue' = queue \/ queue' = Append(queue, [who |-> "trial", val |-> By(cur, rec[cur].target)])
      BY <2>2 DEF Activate, TuningWrite
    <3>4. Lone(queue')
      <4>1. Lone(Append(queue, [who |-> "trial", val |-> By(cur, rec[cur].target)]))
        <5> HIDE DEF Lone, Ours
        <5> QED BY ONLY <1>0, <1>a, <1>w, <3>2
      <4> QED BY <1>a, <3>3, <4>1
    <3> QED BY <1>b, <3>2, <3>4
  <2>3. CASE TargetVerified \/ BaseSaved
    <3>1. queue # <<>> /\ queue' = Tail(queue) /\ Head(queue).who = "trial"
      BY <2>3 DEF TargetVerified, BaseSaved, HeadIs, WriteLands
    <3> QED BY <1>b, <1>h, <3>1
  <2>4. CASE TargetFailed
    <3>1. queue # <<>> /\ Head(queue).who = "trial" /\ cready' \in BOOLEAN /\ cur \in Trial
      BY <1>0, <2>4, <2>w DEF TargetFailed, HeadIs
    <3>2. RollBack(rec, cur, "stopped", "start", Tail(queue), cready')
      BY <2>4 DEF TargetFailed
    <3>3. Tail(queue) \in Seq(Write) /\ Ours(Tail(queue)) = {}
      BY <1>h, <1>t, <3>1
    <3> HIDE DEF Ours
    <3> QED BY ONLY <1>r, <2>r, <3>1, <3>2, <3>3
  <2>5. CASE RunningUndone
    <3>1. cur \in Trial /\ Ours(queue) = {} /\ RollBack(rec, cur, "stopped", "start", queue, cready)
      BY <1>a, <2>5, <2>w DEF RunningUndone
    <3> HIDE DEF Ours
    <3> QED BY ONLY <1>0, <1>r, <2>r, <3>1
  <2>6. CASE BaseFailed
    <3>1. cur \in Trial
      BY <2>6, <2>w DEF BaseFailed
    <3>2. PICK q \in Seq(Write), ok \in BOOLEAN : Failed(q, ok) /\ Ours(q) = {}
      <4>1. CASE HeadIs("trial")
        <5>1. Tail(queue) \in Seq(Write) /\ Ours(Tail(queue)) = {}
          BY <1>h, <1>t, <4>1 DEF HeadIs
        <5>2. Failed(Tail(queue), FALSE) \/ Failed(Tail(queue), cready) \/ (~Writing("trial") /\ Failed(queue, cready))
          BY <2>6 DEF BaseFailed
        <5> QED BY <1>0, <5>1, <5>2 DEF Writing
      <4>2. CASE ~HeadIs("trial")
        BY <1>0, <2>6, <4>2 DEF BaseFailed, Writing
      <4> QED BY <4>1, <4>2
    <3> DEFINE marked == [rec EXCEPT ![cur].state = "rollback_failed"]
    <3>3. marked \in [Trial -> Record]
      BY <2>r, <3>1, StateSet DEF States, Active
    <3> HIDE DEF marked
    <3>4. CASE RollBack(marked, cur, "rolled_back", "retry", q, ok)
      <4> HIDE DEF Ours
      <4> QED BY ONLY <1>r, <3>1, <3>2, <3>3, <3>4
    <3>5. CASE queue' = q
      BY <1>b, <3>2, <3>5
    <3> QED BY <3>2, <3>4, <3>5 DEF Failed, marked
  <2> QED BY <1>2, <2>1, <2>2, <2>3, <2>4, <2>5, <2>6 DEF LockHolder, StartStep
<1>i. ASSUME NEW u \in Trial, NEW dest, NEW handler, RollBackFromIdle(u, dest, handler) PROVE OneOwnWrite'
  <2>1. Ours(queue) = {} /\ RollBack(rec, u, dest, handler, queue, cready) /\ rec \in [Trial -> Record]
    BY <1>a, <1>i, QueueType DEF RollBackFromIdle, TInv
  <2> HIDE DEF Ours
  <2> QED BY ONLY <1>0, <1>r, <2>1
<1>3. CASE Requests \/ Supervision
  <2>1. ASSUME NEW u \in Trial, NEW complete \in BOOLEAN,
               StopTrial(u, complete) \/ Breach(u) \/ Expire(u) \/ Interrupted(u) \/ Retry(u)
        PROVE  OneOwnWrite'
    BY <1>i, <2>1 DEF StopTrial, Breach, Expire, Interrupted, Retry
  <2>2. ASSUME NEW u \in Trial, NEW v \in Value, Propose(u, v) \/ Reject(u) \/ Evaluate(u)
        PROVE  OneOwnWrite'
    <3>1. queue' = queue /\ pc' = pc
      BY <2>2 DEF Propose, Reject, Evaluate
    <3> QED BY <1>1, <3>1
  <2>3. ASSUME NEW u \in Trial, Approve(u) \/ StartTrial(u) PROVE OneOwnWrite'
    <3>1. queue' = queue /\ pc = "idle"
      BY <2>3 DEF Approve, StartTrial, Hold
    <3> QED BY <1>1, <1>a, <3>1
  <2> QED BY <1>3, <2>1, <2>2, <2>3, ConstantsAssumption DEF Requests, Supervision
<1>4. CASE Lifecycle
  <2>1. CASE Initialise
    <3>1. PICK loaded \in [Trial -> Record] :
              \/ queue' = queue /\ pc' = "end_save"
              \/ \E t \in Trial : RollBack(loaded, t, "stopped", "restart", <<>>, TRUE)
      BY ONLY <2>1, TInv, WhatIsLoaded DEF TInv
    <3>2. Ours(queue) = {} /\ <<>> \in Seq(Write) /\ Ours(<<>>) = {}
      BY <2>1 DEF Initialise, Asleep
    <3>3. ASSUME NEW t \in Trial, RollBack(loaded, t, "stopped", "restart", <<>>, TRUE) PROVE OneOwnWrite'
      <4> HIDE DEF Ours
      <4> QED BY ONLY <1>r, <3>2, <3>3, loaded \in [Trial -> Record]
    <3> QED BY <1>1, <3>1, <3>2, <3>3
  <2>2. CASE Unload
    BY <1>1, <2>2 DEF Unload
  <2>3. CASE StopAll
    <3>1. CASE queue' = queue /\ pc = "idle"
      BY <1>1, <1>a, <3>1
    <3> QED BY <1>i, <2>3, <3>1 DEF StopAll, Hold, In
  <2>4. CASE Unloaded \/ Crash
    <3>1. queue' = <<>>
      BY <2>4 DEF Unloaded, Crash, MemoryLost
    <3> QED BY <1>b, <3>1
  <2> QED BY <1>4, <2>1, <2>2, <2>3, <2>4 DEF Lifecycle
<1>5. CASE Others
  <2>1. CASE CallerLeaves \/ ControlsHeld \/ ControlsReleased \/ FitChanges \/ TimePasses
    <3>1. queue' = queue /\ pc' = pc
      BY <2>1 DEF CallerLeaves, ControlsHeld, ControlsReleased, FitChanges, TimePasses
    <3> QED BY <1>1, <3>1
  <2>2. CASE Killed
    <3>1. Ours(queue') = {}
      <4>1. \A i \in DOMAIN queue : queue[i] \in Write
        BY <1>0
      <4> QED BY <2>2, <4>1 DEF Killed, Write
    <3> QED BY <1>b, <3>1
  <2>3. CASE \E v \in Value : OwnerSets(v)
    <3>1. PICK v \in Value : OwnerSets(v)
      BY <2>3
    <3>2. By(Owner, v) \in Knob /\ pc' = pc
      BY <3>1 DEF By, Knob, OwnerSets
    <3>3. queue' = queue \/ queue' = Append(queue, [who |-> "owner", val |-> By(Owner, v)])
      BY <3>1 DEF OwnerSets, TuningWrite
    <3>4. LET q == Append(queue, [who |-> "owner", val |-> By(Owner, v)])
          IN  Lone(q) /\ Ours(q) = Ours(queue)
      <4> HIDE DEF Lone, Ours
      <4> QED BY ONLY <1>0, <1>a, <1>w, <3>2
    <3> QED BY <1>a, <1>b, <3>2, <3>3, <3>4
  <2>4. CASE CycleSaves
    <3>1. knob \in Knob /\ pc' = pc /\ queue' = Append(queue, [who |-> "cycle", val |-> knob])
      BY <2>4 DEF CycleSaves, TInv, TypeOK
    <3>2. LET q == Append(queue, [who |-> "cycle", val |-> knob])
          IN  Lone(q) /\ Ours(q) = Ours(queue)
      <4> HIDE DEF Lone, Ours
      <4> QED BY ONLY <1>0, <1>a, <1>w, <3>1
    <3> QED BY <1>a, <1>b, <3>1, <3>2
  <2>5. CASE OtherWritten
    <3>1. queue # <<>> /\ queue' = Tail(queue) /\ pc' = pc
      BY <2>5 DEF OtherWritten, HeadIs, WriteLands
    <3>2. Lone(Tail(queue))
      BY <1>h, <3>1
    <3>3. Ours(queue) = {} => Ours(Tail(queue)) = {}
      BY <1>t, <3>1
    <3> QED BY <1>a, <1>b, <3>1, <3>2, <3>3
  <2> QED BY <1>5, <2>1, <2>2, <2>3, <2>4, <2>5 DEF Others
<1>6. CASE UNCHANGED vars
  BY <1>1, <1>6 DEF vars
<1> QED BY <1>2, <1>3, <1>4, <1>5, <1>6 DEF Next

Unowned(q) == \A i \in DOMAIN q : q[i].who # "trial"

\* The holder finds no write of his own before he asks for one, and none
\* behind the one that has ended.
LEMMA NoneOfOurs ==
    ASSUME TInv, OneOwnWrite
    PROVE  /\ pc \notin {"target_write", "base_write"} => Unowned(queue)
           /\ HeadIs("trial") => Tail(queue) \in Seq(Write) /\ Unowned(Tail(queue))
<1>0. queue \in Seq(Write)
  BY QueueType DEF TInv
<1>1. pc \notin {"target_write", "base_write"} => Unowned(queue)
  BY DEF OneOwnWrite, Writing, Unowned
<1>2. ASSUME HeadIs("trial") PROVE Tail(queue) \in Seq(Write) /\ Unowned(Tail(queue))
  <2>1. /\ queue # <<>> /\ Head(queue).who = "trial"
        /\ Head(queue) = queue[1] /\ 1 \in DOMAIN queue /\ Tail(queue) \in Seq(Write)
        /\ \A i \in DOMAIN Tail(queue) : i + 1 \in DOMAIN queue /\ Tail(queue)[i] = queue[i + 1]
    BY <1>0, <1>2, TailOfQueue DEF HeadIs
  <2>2. \A i \in DOMAIN Tail(queue) : i + 1 # 1 /\ i \in Int
    BY <1>0, <2>1
  <2> QED BY <2>1, <2>2 DEF OneOwnWrite, Unowned
<1> QED BY <1>1, <1>2

\* Whoever comes to write a baseline rolls an active trial back, and his write
\* goes into a queue that holds no other of his.
LEMMA RollsBackActive ==
    ASSUME TInv, Asleep, OneOwnWrite, HolderKnows, [Next]_vars, pc' = "base_write"
    PROVE  \/ /\ pc = "base_write" /\ cur' = cur
              /\ \/ queue' = queue /\ knob' = knob
                 \/ (\E v \in Value : OwnerSets(v)) \/ CycleSaves \/ OtherWritten
           \/ \E r \in [Trial -> Record], u \in Trial, q \in Seq(Write), ok \in BOOLEAN : \E dest, handler :
                 RollBack(r, u, dest, handler, q, ok) /\ Unowned(q) /\ r[u].state \in Active
<1> USE DEF recordVars, knobVars, worldVars, lockVars
<1> DEFINE RollsBack ==
              \E r \in [Trial -> Record], u \in Trial, q \in Seq(Write), ok \in BOOLEAN : \E dest, handler :
                 RollBack(r, u, dest, handler, q, ok) /\ Unowned(q) /\ r[u].state \in Active
           Waits ==
              /\ pc = "base_write" /\ cur' = cur
              /\ \/ queue' = queue /\ knob' = knob
                 \/ (\E v \in Value : OwnerSets(v)) \/ CycleSaves \/ OtherWritten
<1> SUFFICES Waits \/ RollsBack
  OBVIOUS
<1>0. queue \in Seq(Write) /\ cready \in BOOLEAN /\ rec \in [Trial -> Record]
  BY QueueType DEF TInv, TypeOK
<1>1. ASSUME NEW u \in Trial, NEW dest, NEW handler, RollBackFromIdle(u, dest, handler),
             rec[u].state \in Active
      PROVE  RollsBack
  <2>1. Unowned(queue) /\ RollBack(rec, u, dest, handler, queue, cready)
    BY <1>1, NoneOfOurs DEF RollBackFromIdle
  <2> QED BY <1>0, <1>1, <2>1
<1>2. CASE LockHolder
  <2>w. /\ pc \notin {"idle", "end_save"} => cur \in Trial
        /\ pc \in {"target_write", "running_save", "base_write"} => rec[cur].state \in Active
    BY DEF TInv, HolderHasTrial, HolderKnows
  <2>1. CASE TargetFailed
    <3>1. cur \in Trial /\ rec[cur].state \in Active /\ cready' \in BOOLEAN
      BY <1>0, <2>1, <2>w DEF TargetFailed
    <3>2. Tail(queue) \in Seq(Write) /\ Unowned(Tail(queue))
      BY <2>1, NoneOfOurs DEF TargetFailed
    <3>3. RollBack(rec, cur, "stopped", "start", Tail(queue), cready')
      BY <2>1 DEF TargetFailed
    <3> QED BY <1>0, <3>1, <3>2, <3>3
  <2>2. CASE RunningUndone
    <3>1. cur \in Trial /\ rec[cur].state \in Active /\ Unowned(queue)
      BY <2>2, <2>w, NoneOfOurs DEF RunningUndone
    <3>2. RollBack(rec, cur, "stopped", "start", queue, cready)
      BY <2>2 DEF RunningUndone
    <3> QED BY <1>0, <3>1, <3>2
  <2>3. CASE BaseFailed
    <3>1. cur \in Trial
      BY <2>3, <2>w DEF BaseFailed
    <3>2. PICK q \in Seq(Write), ok \in BOOLEAN : Failed(q, ok) /\ Unowned(q)
      BY <1>0, <2>3, NoneOfOurs DEF BaseFailed, Writing, Unowned
    <3> DEFINE marked == [rec EXCEPT ![cur].state = "rollback_failed"]
    <3>3. marked \in [Trial -> Record] /\ marked[cur].state \in Active
      <4>1. marked \in [Trial -> Record]
        BY <1>0, <3>1, StateSet DEF States, Active
      <4>2. rec[cur] \in Record /\ marked[cur] = [rec[cur] EXCEPT !.state = "rollback_failed"]
        BY <1>0, <3>1
      <4>3. marked[cur].state = "rollback_failed"
        BY <4>2 DEF Record
      <4> QED BY <4>1, <4>3 DEF Active
    <3>4. RollBack(marked, cur, "rolled_back", "retry", q, ok)
      BY <3>2 DEF Failed, Goto
    <3> HIDE DEF marked
    <3> QED BY <3>1, <3>2, <3>3, <3>4
  <2>4. ~(TargetFailed \/ RunningUndone \/ BaseFailed) => FALSE
    BY <1>2 DEF LockHolder, StartStep, Approved, StartSaved, StartNotSaved, Activate,
       ActivateRefused, RefusalSaved, TargetVerified, RunningSaved, BaseSaved, EndSaved, Release, Goto
  <2> QED BY <2>1, <2>2, <2>3, <2>4
<1>3. CASE Requests \/ Supervision
  <2>1. ASSUME NEW u \in Trial, NEW complete \in BOOLEAN,
               StopTrial(u, complete) \/ Breach(u) \/ Expire(u) \/ Interrupted(u) \/ Retry(u)
        PROVE  RollsBack
    <3>1. rec[u].state \in Active
      BY <2>1 DEF StopTrial, Breach, Expire, Interrupted, Retry, Active, Applied
    <3> QED BY <1>1, <2>1, <3>1 DEF StopTrial, Breach, Expire, Interrupted, Retry
  <2>2. ASSUME NEW u \in Trial, NEW v \in Value, Propose(u, v) \/ Reject(u) \/ Evaluate(u) PROVE Waits
    BY <2>2 DEF Propose, Reject, Evaluate
  <2>3. ASSUME NEW u \in Trial, Approve(u) \/ StartTrial(u) PROVE FALSE
    BY <2>3 DEF Approve, StartTrial, Hold
  <2> HIDE DEF Waits, RollsBack
  <2> QED BY <1>3, <2>1, <2>2, <2>3, ConstantsAssumption DEF Requests, Supervision
<1>4. CASE Lifecycle
  <2>1. CASE Initialise
    <3>1. PICK loaded \in [Trial -> Record] :
              \/ pc' = "end_save"
              \/ \E t \in Trial : /\ loaded[t].state \in Active
                                  /\ RollBack(loaded, t, "stopped", "restart", <<>>, TRUE)
      BY ONLY <2>1, TInv, WhatIsLoaded DEF TInv
    <3>2. <<>> \in Seq(Write) /\ Unowned(<<>>)
      BY DEF Unowned
    <3> QED BY <3>1, <3>2
  <2>2. CASE Unload
    BY <2>2 DEF Unload
  <2>3. CASE StopAll
    BY <1>1, <2>3 DEF StopAll, Hold, In, Active, Applied
  <2>4. CASE Unloaded \/ Crash
    BY <2>4 DEF Unloaded, Crash, MemoryLost
  <2> QED BY <1>4, <2>1, <2>2, <2>3, <2>4 DEF Lifecycle
<1>5. CASE Others
  BY <1>5 DEF Others, CallerLeaves, Killed, Release, OwnerSets, ControlsHeld, ControlsReleased,
     CycleSaves, OtherWritten, FitChanges, TimePasses
<1>6. CASE UNCHANGED vars
  BY <1>6 DEF vars
<1> QED BY <1>2, <1>3, <1>4, <1>5, <1>6 DEF Next

\* Behind the write of the baseline nothing brings the trial's value back.
LEMMA BaseIsLastStep ==
    TInv /\ Asleep /\ OneOwnWrite /\ HolderKnows /\ BaseIsLast /\ [Next]_vars => BaseIsLast'
<1> SUFFICES ASSUME TInv, Asleep, OneOwnWrite, HolderKnows, BaseIsLast, [Next]_vars,
                    pc' = "base_write", NEW i \in DOMAIN queue', queue'[i].who = "trial"
             PROVE  knob'.by = Owner /\ \A j \in DOMAIN queue' : j >= i => queue'[j].val.by = Owner
  BY DEF BaseIsLast
<1>0. queue \in Seq(Write) /\ knob \in Knob
  BY QueueType DEF TInv, TypeOK
<1>1. ASSUME NEW r \in [Trial -> Record], NEW u \in Trial, NEW dest, NEW handler,
             NEW q \in Seq(Write), NEW ok \in BOOLEAN, RollBack(r, u, dest, handler, q, ok), Unowned(q)
      PROVE  knob'.by = Owner /\ \A j \in DOMAIN queue' : j >= i => queue'[j].val.by = Owner
  <2>1. r[u].base \in Value
    BY DEF Record
  <2> DEFINE w == [who |-> "trial", val |-> By(Owner, r[u].base)]
  <2>2. w \in Write /\ w.val.by = Owner
    BY <2>1 DEF Write, By, Knob
  <2>3. queue' # q
    BY <1>1 DEF Unowned
  <2>4. queue' = Append(q, w) /\ knob' = w.val
    BY <1>1, <2>3 DEF RollBack, TuningWrite
  <2> HIDE DEF w
  <2>5. Len(q) \in Nat /\ DOMAIN queue' = 1..(Len(q) + 1) /\ \A j \in 1..Len(q) : queue'[j] = q[j]
    BY <2>2, <2>4
  <2>6. queue'[Len(q) + 1] = w
    BY <2>2, <2>4
  <2>7. i = Len(q) + 1
    BY <1>1, <2>5 DEF Unowned
  <2> QED BY <2>2, <2>4, <2>5, <2>6, <2>7
<1>2. ASSUME pc = "base_write", queue' = queue, knob' = knob
      PROVE  knob'.by = Owner /\ \A j \in DOMAIN queue' : j >= i => queue'[j].val.by = Owner
  BY <1>2 DEF BaseIsLast
<1>3. ASSUME pc = "base_write", NEW who \in {"owner", "cycle"}, NEW val \in Knob,
             queue' = queue \/ queue' = Append(queue, [who |-> who, val |-> val]),
             knob' = val, val = knob \/ val.by = Owner
      PROVE  knob'.by = Owner /\ \A j \in DOMAIN queue' : j >= i => queue'[j].val.by = Owner
  <2> DEFINE w == [who |-> who, val |-> val]
  <2>1. w \in Write /\ w.who # "trial" /\ w.val = val
    BY DEF Write
  <2>2. queue' = queue \/ queue' = Append(queue, w)
    BY <1>3
  <2> HIDE DEF w
  <2>3. \A j \in DOMAIN queue' : (j \in DOMAIN queue /\ queue'[j] = queue[j]) \/ queue'[j] = w
    BY <1>0, <2>1, <2>2, AppendToQueue
  <2>4. i \in DOMAIN queue /\ queue[i].who = "trial"
    BY <2>1, <2>3
  <2>5. knob.by = Owner /\ \A j \in DOMAIN queue : j >= i => queue[j].val.by = Owner
    BY <1>3, <2>4 DEF BaseIsLast
  <2> QED BY <1>3, <2>1, <2>3, <2>5
<1>4. CASE pc = "base_write" /\ \E v \in Value : OwnerSets(v)
  <2>1. PICK v \in Value : OwnerSets(v)
    BY <1>4
  <2>2. By(Owner, v) \in Knob /\ By(Owner, v).by = Owner /\ knob' = By(Owner, v)
    BY <2>1 DEF By, Knob, OwnerSets, TuningWrite
  <2>3. queue' = queue \/ queue' = Append(queue, [who |-> "owner", val |-> By(Owner, v)])
    BY <2>1 DEF OwnerSets, TuningWrite
  <2> QED BY ONLY <1>3, <1>4, <2>2, <2>3
<1>5. CASE pc = "base_write" /\ CycleSaves
  <2>1. queue' = Append(queue, [who |-> "cycle", val |-> knob]) /\ knob' = knob
    BY <1>5 DEF CycleSaves
  <2> QED BY ONLY <1>0, <1>3, <1>5, <2>1
<1>6. CASE pc = "base_write" /\ OtherWritten
  <2>1. queue # <<>> /\ queue' = Tail(queue) /\ knob' = knob
    BY <1>6 DEF OtherWritten, HeadIs, WriteLands
  <2>2. \A j \in DOMAIN queue' : j + 1 \in DOMAIN queue /\ queue'[j] = queue[j + 1] /\ j \in Int
    BY <1>0, <2>1, TailOfQueue
  <2>3. queue[i + 1].who = "trial" /\ i + 1 \in DOMAIN queue
    BY <2>2
  <2>4. knob.by = Owner /\ \A j \in DOMAIN queue : j >= i + 1 => queue[j].val.by = Owner
    BY <1>6, <2>3 DEF BaseIsLast
  <2> QED BY <2>1, <2>2, <2>4
<1> QED BY <1>1, <1>2, <1>4, <1>5, <1>6, RollsBackActive

\* At each await the holder still knows what he knew: the requests that come
\* without the lock touch no active record, and no save forgets one.
LEMMA HolderKnowsStep == TInv /\ IInv /\ [Next]_vars => HolderKnows'
<1> SUFFICES ASSUME TInv, IInv, [Next]_vars PROVE HolderKnows'
  OBVIOUS
<1> USE DEF recordVars, knobVars, worldVars, lockVars
<1>0. /\ rec \in [Trial -> Record] /\ \A t \in Trial : rec[t] \in Record
      /\ "approved" \notin Active /\ "starting" \in Active /\ "running" \in Active
  BY QueueType DEF TInv, Active
<1>i. HolderKnows /\ OneOwnWrite /\ Supervised /\ Asleep /\ ReadOnly
  BY DEF IInv
<1>a. Asleep'
  BY <1>i, AsleepStep
<1>w. pc \notin {"idle", "end_save"} => cur \in Trial
  BY DEF TInv, HolderHasTrial
<1>1. CASE pc' = "base_write"
  <2>1. ASSUME NEW rr \in [Trial -> Record], NEW u \in Trial, NEW q, NEW ok, NEW dest, NEW handler,
               RollBack(rr, u, dest, handler, q, ok), rr[u].state \in Active
        PROVE  rec'[cur'].state \in Active
    <3>1. rec'[u].state = rr[u].state
      BY ONLY <2>1, RollBackStates
    <3>2. cur' = u
      BY <2>1 DEF RollBack
    <3> QED BY <2>1, <3>1, <3>2
  <2>2. ASSUME pc = "base_write", cur' = cur PROVE rec'[cur'].state \in Active
    <3>1. cur \in Trial /\ rec[cur].state \in Active /\ life # "down" /\ life' # "down"
      BY <1>1, <1>a, <1>i, <1>w, <2>2 DEF HolderKnows, Asleep
    <3>2. ~(StartNotSaved \/ ActivateRefused \/ BaseSaved)
      BY <1>1, <2>2 DEF StartNotSaved, ActivateRefused, BaseSaved, Goto
    <3> QED BY <1>i, <2>2, <3>1, <3>2, ActiveStays
  <2>3. rec'[cur'].state \in Active
    BY <1>1, <1>i, <2>1, <2>2, RollsBackActive
  <2> QED BY <1>1, <2>3 DEF HolderKnows
<1>2. ASSUME rec'[cur'] = rec[cur], cur' = cur, pc' = pc, pc # "base_write",
             pc \notin {"idle", "end_save"}
      PROVE  HolderKnows'
  <2>1. cur \in Trial /\ life' # "down"
    BY <1>a, <1>w, <1>2 DEF Asleep
  <2>2. PICK u \in Trial : u = cur
    BY <2>1
  <2>3. pc \in {"start_save", "activate"} => ~Uses(u)'
    <3> SUFFICES ASSUME pc \in {"start_save", "activate"}, Uses(u)' PROVE FALSE
      OBVIOUS
    <3>1. ~Uses(u)
      BY <1>i, <2>2 DEF HolderKnows
    <3>2. Activate
      BY ONLY <3>1, TInv, [Next]_vars, Uses(u)', u \in Trial, OnlyActivateUses
    <3> QED BY <1>2, <3>2 DEF Activate, Goto
  <2>5. u = cur'
    BY <1>2, <2>2
  <2>6. pc \in {"start_save", "activate"} => (~Uses(cur))'
    BY <2>3, <2>5 DEF Uses
  <2>4. pc = "activate" => saved'[cur].state \in Active
    BY <1>0, <1>2, <1>i, WhatIsSaved DEF HolderKnows
  <2> QED BY <1>2, <1>i, <2>1, <2>4, <2>6 DEF HolderKnows
<1>3. CASE pc' # "base_write" /\ LockHolder
  <2>1. CASE Approved \/ StartNotSaved \/ ActivateRefused \/ RefusalSaved \/ RunningSaved
              \/ BaseSaved \/ EndSaved \/ BaseFailed
    <3>1. pc' \in {"idle", "end_save", "refused_save"}
      BY <1>3, <2>1 DEF Approved, StartNotSaved, ActivateRefused, RefusalSaved, RunningSaved, BaseSaved,
         EndSaved, BaseFailed, Failed, RollBack, Goto, Release
    <3> QED BY <3>1 DEF HolderKnows
  <2>2. CASE StartSaved
    <3>1. /\ pc' = "activate" /\ cur' = cur /\ cur \in Trial /\ rec' = rec /\ saved' = rec
          /\ rec[cur].state = "starting" /\ ~Uses(cur)
          /\ knob' = knob /\ knobDisk' = knobDisk /\ queue' = queue
      BY <1>i, <1>w, <2>2 DEF StartSaved, Goto, TrialsSaved, HolderKnows
    <3> QED BY <1>0, <3>1 DEF HolderKnows, Uses
  <2>3. CASE Activate
    <3>1. pc' = "target_write" /\ cur' = cur /\ rec' = rec /\ rec[cur].state = "starting"
      BY <1>i, <2>3 DEF Activate, Goto, HolderKnows
    <3> QED BY <1>0, <3>1 DEF HolderKnows
  <2>4. CASE TargetVerified
    <3>1. pc' = "running_save" /\ cur' = cur /\ rec'[cur].state = "running"
      BY <1>0, <1>w, <2>4 DEF TargetVerified, Goto, Record
    <3> QED BY <1>0, <3>1 DEF HolderKnows
  <2>5. CASE TargetFailed \/ RunningUndone
    BY <1>3, <2>5 DEF TargetFailed, RunningUndone, RollBack
  <2> QED BY <1>3, <2>1, <2>2, <2>3, <2>4, <2>5 DEF LockHolder, StartStep
<1>4. CASE pc' # "base_write" /\ (Requests \/ Supervision)
  <2>1. ASSUME NEW u \in Trial, NEW complete \in BOOLEAN,
               StopTrial(u, complete) \/ Breach(u) \/ Expire(u) \/ Interrupted(u) \/ Retry(u)
        PROVE  FALSE
    BY <1>4, <2>1 DEF StopTrial, Breach, Expire, Interrupted, Retry, RollBackFromIdle, RollBack
  <2>2. ASSUME NEW u \in Trial, Approve(u) PROVE HolderKnows'
    BY <2>2 DEF Approve, Hold, HolderKnows
  <2>3. ASSUME NEW u \in Trial, StartTrial(u) PROVE HolderKnows'
    <3>1. pc' = "start_save" /\ cur' = u /\ rec[u].state \notin Active /\ writable /\ pc = "idle"
          /\ knob' = knob /\ knobDisk' = knobDisk /\ queue' = queue
      BY <1>0, <2>3 DEF StartTrial, Hold
    <3>2. rec'[u].state = "starting"
      BY <1>0, <2>3 DEF StartTrial, Record
    <3>3. ~Uses(u)
      BY <1>i, <3>1 DEF Supervised
    <3> QED BY <3>1, <3>2, <3>3 DEF HolderKnows, Uses
  <2>4. ASSUME NEW u \in Trial, NEW v \in Value, Propose(u, v) \/ Reject(u) \/ Evaluate(u)
        PROVE  HolderKnows'
    <3>1. pc' = pc /\ cur' = cur
      BY <2>4 DEF Propose, Reject, Evaluate
    <3>2. CASE pc \in {"start_save", "activate", "target_write", "running_save"}
      <4>1. rec[cur].state \in Active /\ cur \in Trial
        BY <1>0, <1>i, <1>w, <3>2 DEF HolderKnows
      <4>2. rec'[cur] = rec[cur]
        <5>1. CASE Propose(u, v)
          <6>1. PICK dropped \in SUBSET (Trial \ In(Active)) :
                    /\ rec[u] = Absent \/ u \in dropped
                    /\ rec' = [w \in Trial |->
                        IF w = u THEN [state |-> "proposed", base |-> knob.v, target |-> v, attempts |-> 0]
                        ELSE IF w \in dropped THEN Absent ELSE rec[w]]
            BY <5>1 DEF Propose
          <6>2. cur # u /\ cur \notin dropped
            BY <4>1, <6>1 DEF In, Absent, Active
          <6> QED BY <4>1, <6>1, <6>2
        <5>2. CASE Reject(u)
          <6>1. u # cur
            BY <4>1, <5>2 DEF Reject, Active
          <6> QED BY <1>0, <4>1, <5>2, <6>1 DEF Reject
        <5>3. CASE Evaluate(u)
          BY <5>3 DEF Evaluate
        <5> QED BY <2>4, <5>1, <5>2, <5>3
      <4> QED BY <1>2, <3>1, <3>2, <4>2
    <3>3. CASE pc \notin {"start_save", "activate", "target_write", "running_save", "base_write"}
      BY <3>1, <3>3 DEF HolderKnows
    <3> QED BY <1>4, <3>1, <3>2, <3>3
  <2> QED BY <1>4, <2>1, <2>2, <2>3, <2>4, ConstantsAssumption DEF Requests, Supervision
<1>5. CASE pc' # "base_write" /\ ~(Initialise \/ Unloaded \/ Crash \/ StopAll \/ Killed)
             /\ (Lifecycle \/ Others \/ UNCHANGED vars)
  <2>1. rec' = rec /\ cur' = cur /\ pc' = pc
    BY <1>5 DEF Lifecycle, Unload, Others, CallerLeaves, OwnerSets, ControlsHeld, ControlsReleased,
       CycleSaves, OtherWritten, FitChanges, TimePasses, vars
  <2>2. CASE pc \in {"idle", "end_save"}
    BY <2>1, <2>2 DEF HolderKnows
  <2>3. CASE pc \notin {"idle", "end_save"}
    BY <1>2, <1>5, <2>1, <2>3
  <2> QED BY <2>2, <2>3
<1>6. CASE pc' # "base_write" /\ (Unloaded \/ Crash \/ Killed \/ StopAll)
  <2>1. pc' \in {"idle", "end_save"}
    BY <1>6 DEF Unloaded, Crash, MemoryLost, Killed, Release, StopAll, Hold, RollBackFromIdle, RollBack
  <2> QED BY <2>1 DEF HolderKnows
<1>7. CASE pc' # "base_write" /\ Initialise
  <2>1. PICK loaded \in [Trial -> Record] :
            \/ pc' = "end_save"
            \/ \E t \in Trial : RollBack(loaded, t, "stopped", "restart", <<>>, TRUE)
    BY ONLY <1>7, TInv, WhatIsLoaded DEF TInv
  <2> QED BY <1>7, <2>1 DEF RollBack, HolderKnows
<1> QED BY <1>1, <1>3, <1>4, <1>5, <1>6, <1>7 DEF Next

\* A value in use keeps its active record, in memory and in the file.
LEMMA SupervisedStep == TInv /\ IInv /\ [Next]_vars => Supervised'
<1> SUFFICES ASSUME TInv, IInv, [Next]_vars, NEW t \in Trial, Uses(t)'
             PROVE  saved'[t].state \in Active /\ (writable' => rec'[t].state \in Active)
  BY DEF Supervised
<1> USE DEF recordVars, knobVars, worldVars, lockVars
<1>i. HolderKnows /\ OneOwnWrite /\ BaseIsLast /\ Supervised /\ Asleep /\ ReadOnly
  BY DEF IInv
<1>a. Asleep' /\ (life = "down" /\ life' # "down" => Initialise)
  BY <1>i, AsleepStep
<1>w. pc \notin {"idle", "end_save"} => cur \in Trial
  BY DEF TInv, HolderHasTrial
<1>1. CASE Activate
  <2>1. rec' = rec /\ saved' = saved /\ writable' = writable
    BY <1>1 DEF Activate
  <2>2. t = cur => rec[t].state \in Active /\ saved[t].state \in Active
    BY <1>1, <1>i DEF Activate, HolderKnows, Active
  <2>3. t # cur => Uses(t)
    BY ONLY TInv, [Next]_vars, Uses(t)', t \in Trial, OnlyActivateUses
  <2> QED BY <1>i, <2>1, <2>2, <2>3 DEF Supervised
<1>2. CASE ~Activate
  <2>1. Uses(t)
    BY ONLY <1>2, TInv, [Next]_vars, Uses(t)', t \in Trial, OnlyActivateUses
  <2>2. saved[t].state \in Active /\ (writable => rec[t].state \in Active)
    BY <1>i, <2>1 DEF Supervised
  <2>3. CASE life # "down" /\ life' # "down"
    <3>1. writable => rec'[t].state \in Active
      <4> SUFFICES ASSUME writable PROVE rec'[t].state \in Active
        OBVIOUS
      <4>1. rec'[t].state \in Active \/ (t = cur /\ (StartNotSaved \/ ActivateRefused \/ BaseSaved))
        BY ONLY <1>i, <2>2, <2>3, TInv, [Next]_vars, writable, t \in Trial, ActiveStays
      <4>2. ~(t = cur /\ (StartNotSaved \/ ActivateRefused))
        BY <1>i, <2>1 DEF StartNotSaved, ActivateRefused, HolderKnows
      <4>3. ~(t = cur /\ BaseSaved)
        <5> SUFFICES ASSUME BaseSaved PROVE FALSE
          OBVIOUS
        <5>1. /\ queue \in Seq(Write) /\ queue # <<>> /\ queue[1].who = "trial" /\ 1 \in DOMAIN queue
              /\ Head(queue) = queue[1]
              /\ \A i \in DOMAIN Tail(queue) : i + 1 \in DOMAIN queue /\ Tail(queue)[i] = queue[i + 1]
          BY QueueType, TailOfQueue DEF BaseSaved, HeadIs, TInv
        <5>2. knob.by = Owner /\ \A j \in DOMAIN queue : j >= 1 => queue[j].val.by = Owner
          BY <1>i, <5>1 DEF BaseSaved, BaseIsLast
        <5>3. knob' = knob /\ knobDisk' = Head(queue).val /\ queue' = Tail(queue)
          BY DEF BaseSaved, WriteLands
        <5>4. knob'.by = Owner /\ knobDisk'.by = Owner /\ \A i \in DOMAIN queue' : queue'[i].val.by = Owner
          BY <5>1, <5>2, <5>3
        <5> QED BY <5>4, ConstantsAssumption DEF Uses
      <4> QED BY <4>1, <4>2, <4>3
    <3>2. saved'[t].state \in Active
      BY <1>i, <2>2, <3>1, WhatIsSaved
    <3>3. writable' => writable
      <4>1. ASSUME ~writable, LockHolder PROVE ~writable'
        BY <4>1 DEF LockHolder, StartStep, Approved, StartSaved, StartNotSaved, Activate,
         ActivateRefused, RefusalSaved, TargetVerified, TargetFailed, RunningSaved, RunningUndone,
         BaseSaved, BaseFailed, EndSaved
      <4>2. ASSUME ~writable, Requests \/ Supervision PROVE ~writable'
        BY <4>2 DEF Requests, Supervision, Propose, Reject, Evaluate, Approve, StartTrial, StopTrial,
         Breach, Expire, Interrupted, Retry, RollBackFromIdle
      <4>3. ASSUME ~writable, Lifecycle PROVE ~writable'
        BY <2>3, <4>3 DEF Lifecycle, Unload, StopAll, RollBackFromIdle, Initialise, Unloaded, Crash, MemoryLost
      <4>4. ASSUME ~writable, Others \/ UNCHANGED vars PROVE ~writable'
        BY <4>4 DEF Others, CallerLeaves, Killed, OwnerSets, ControlsHeld, ControlsReleased,
         CycleSaves, OtherWritten, FitChanges, TimePasses, vars
      <4> QED BY <4>1, <4>2, <4>3, <4>4 DEF Next
    <3> QED BY <3>1, <3>2, <3>3
  <2>4. CASE life' = "down"
    <3>1. saved'[t].state \in Active
      BY <1>i, <2>2, <2>4, WhatIsSaved
    <3> QED BY <1>a, <2>4, <3>1 DEF Asleep
  <2>5. CASE Initialise
    <3>1. saved' = saved
      BY <2>5 DEF Initialise
    <3>2. PICK loaded \in [Trial -> Record] :
              /\ writable' => \A u \in Trial : saved[u].state \in Active => loaded[u] = saved[u]
              /\ \/ rec' = loaded
                 \/ \E u \in Trial : RollBack(loaded, u, "stopped", "restart", <<>>, TRUE)
      BY ONLY <2>5, TInv, WhatIsLoaded DEF TInv
    <3>3. rec'[t].state = loaded[t].state
      BY ONLY <3>2, t \in Trial, RollBackStates
    <3> QED BY <2>2, <3>1, <3>2, <3>3
  <2> QED BY <1>a, <2>3, <2>4, <2>5
<1> QED BY <1>1, <1>2

\* A first start has no records, no writes and nothing to supervise.
LEMMA SafetyInit == Init => IInv
  BY DEF Init, IInv, HolderKnows, OneOwnWrite, BaseIsLast, Supervised, Asleep, ReadOnly, Exclusive,
     Uses, Writing, By, Absent, Active

\* Every step preserves the invariant, part by part.
LEMMA SafetyStep == TInv /\ IInv /\ [Next]_vars => IInv'
  BY HolderKnowsStep, OneOwnWriteStep, BaseIsLastStep, SupervisedStep, AsleepStep, ReadOnlyStep,
     ExclusiveStep DEF IInv

\* The inductive invariant holds in every reachable state.
LEMMA Safety == Spec => [](TInv /\ IInv)
<1>1. Init => TInv /\ IInv
  BY TypeInductive, SafetyInit DEF TInv
<1>2. TInv /\ IInv /\ [Next]_vars => TInv' /\ IInv'
  BY TypeInductive, SafetyStep DEF TInv
<1> QED BY <1>1, <1>2, PTL DEF Spec

\* A trial's value is never in effect, nor in the file the next start reads,
\* without a record that makes supervision or that start restore the baseline.
THEOREM NothingUnsupervised == Spec => []NoUnsupervisedValue
<1>1. IInv => NoUnsupervisedValue
  BY DEF IInv, Supervised, NoUnsupervisedValue, Uses
<1> QED BY <1>1, Safety, PTL

\* A trial that counts as ended has its baseline in memory and in the file.
THEOREM EndedIsDurable == Spec => []DoneIsDurable
<1>1. IInv => DoneIsDurable
  BY DEF IInv, Supervised, ReadOnly, DoneIsDurable, Uses, Active, Ended
<1> QED BY <1>1, Safety, PTL

\* At most one trial is active, in memory and in the file.
THEOREM OneChangeAtATime == Spec => []AtMostOneActive
<1>1. ASSUME NEW S, \A t, u \in S : t = u PROVE Cardinality(S) <= 1
  <2>1. CASE S = {}
    BY <2>1, FS_EmptySet
  <2>2. CASE S # {}
    <3>1. PICK t \in S : S = {t}
      BY <1>1, <2>2
    <3>2. Cardinality(S) = 1
      BY <3>1, FS_Singleton
    <3> QED BY <3>2
  <2> QED BY <2>1, <2>2
<1>2. Exclusive => AtMostOneActive
  BY <1>1 DEF Exclusive, AtMostOneActive, In
<1> QED BY <1>2, Safety, PTL DEF IInv

\* Only _activate puts a trial's value into effect, and it does so on the
\* baseline its rollback will restore, with every condition met, whoever had
\* Controls.lock before.
THEOREM RecheckedAtOnce == Spec => ReplacesWhatItRestores
<1> USE DEF worldVars, recordVars, knobVars, lockVars
<1>1. ASSUME TypeOK, [Next]_vars, NEW t \in Trial,
             knob'.by = t, knob.by # t, life' # "down", life # "down"
      PROVE  knob.v = rec[t].base /\ fit /\ scoped /\ cready
  <2>0. t # Owner
    OBVIOUS
  <2>1. ASSUME NEW r, NEW u, NEW dest, NEW handler, NEW q, NEW ok, RollBack(r, u, dest, handler, q, ok)
        PROVE  FALSE
    BY <1>1, <2>0, <2>1 DEF RollBack, TuningWrite, By
  <2>2. CASE LockHolder
    <3>1. CASE Activate
      BY <1>1, <3>1 DEF Activate, Readiness, TuningWrite, By
    <3>2. CASE ~Activate
      BY <1>1, <2>1, <2>2, <3>2 DEF LockHolder, StartStep, Approved, StartSaved, StartNotSaved,
         ActivateRefused, RefusalSaved, TargetVerified, TargetFailed, RunningSaved, RunningUndone,
         BaseSaved, BaseFailed, EndSaved, WriteLands, Failed
    <3> QED BY <3>1, <3>2
  <2>3. CASE Requests \/ Supervision
    BY <1>1, <2>1, <2>3 DEF Requests, Supervision, Propose, Reject, Evaluate, Approve, StartTrial,
       StopTrial, Breach, Expire, Interrupted, Retry, RollBackFromIdle
  <2>4. CASE Lifecycle
    BY <1>1, <2>1, <2>4 DEF Lifecycle, Unload, StopAll, RollBackFromIdle, Initialise, Unloaded, Crash,
       MemoryLost
  <2>5. CASE Others \/ UNCHANGED vars
    BY <1>1, <2>0, <2>5 DEF Others, CallerLeaves, Killed, OwnerSets, ControlsHeld, ControlsReleased,
       CycleSaves, OtherWritten, WriteLands, TuningWrite, By, FitChanges, TimePasses, vars
  <2> QED BY <1>1, <2>2, <2>3, <2>4, <2>5 DEF Next
<1>2. TypeOK /\ [Next]_vars =>
        [\A t \in Trial :
          knob'.by = t /\ knob.by # t /\ life' # "down" /\ life # "down" =>
              knob.v = rec[t].base /\ fit /\ scoped /\ cready]_vars
  BY <1>1
<1> QED BY <1>2, TypeCorrect, PTL DEF Spec, ReplacesWhatItRestores

=============================================================================
