------------------------------- MODULE Trials -------------------------------
(***************************************************************************)
(* Supervised trials of one tunable: trials/coordinator.py (Trials),       *)
(* trials/store.py (TrialStore), trials/const.py, and the controller store *)
(* the tunable lives in (control/store.py).                                *)
(*                                                                         *)
(* A trial replaces the value of a tunable for a bounded time.  Its record *)
(* and the value are in different files: rec and saved are the record in   *)
(* memory and on disk, knob and knobDisk the value.  approve, start, stop, *)
(* the supervision tick, startup and unload hold Trials.lock, and pc says  *)
(* at which await its holder stands; owners and control cycles write and   *)
(* save the same tunable without it.                                       *)
(***************************************************************************)
EXTENDS Integers, Sequences, FiniteSets

CONSTANTS
    Trial,        \* trial ids
    Owner,        \* not a trial: whoever sets the tunable by hand
    Value,        \* values of the tunable
    MaxStep,      \* max_step of the tunable
    MaxAttempts,  \* MAX_ROLLBACK_ATTEMPTS
    Bounds        \* what may happen in a behaviour beside the steps of Trials

ASSUME ConstantsAssumption ==
    /\ Owner \notin Trial
    /\ Value \subseteq Int
    /\ Value # {}
    /\ MaxStep \in Nat
    /\ MaxAttempts \in Nat \ {0}
    /\ Bounds \subseteq [savers : SUBSET {"owner", "cycle"}, cancels : BOOLEAN]

VARIABLES
    bounds,     \* who else saves the controller store, and whether callers may go away
    rec,        \* TrialStore.trials
    saved,      \* the trials file
    writable,   \* TrialStore.ready
    knob,       \* the tunable, and which trial's target it is, if any
    knobDisk,   \* the same in the controller store's file
    cready,     \* ControlStore.ready of that store
    queue,      \* its writes, in the order Home Assistant's Store does them
    fit,        \* ownership, mode, hold and write guard all let a trial run
    scoped,     \* the scope is a controlled room or the boiler
    age,        \* since started_at of the active trial
    life,       \* "down", "setup", "up", "closing" (Trials.closed), "stopped"
    pc,         \* where the holder of Trials.lock stands
    op,         \* which handler that is
    cur,        \* the trial it is about
    to,         \* the state a successful rollback leads to
    cancelled,  \* its caller has gone away
    ctl         \* the holder of Controls.lock: "free", "owner", "trial"

recordVars == <<rec, saved, writable>>
knobVars == <<knob, knobDisk, cready, queue>>
worldVars == <<bounds, fit, scoped, age>>
lockVars == <<pc, op, cur, to, cancelled>>
vars == <<recordVars, knobVars, worldVars, life, lockVars, ctl>>

Active == {"starting", "running", "rollback_failed"}
Applied == {"starting", "running"}
Ended == {"completed", "stopped", "rolled_back", "expired"}
States == {"none", "proposed", "approved", "rejected"} \cup Active \cup Ended

Record == [state : States, base : Value, target : Value, attempts : 0..MaxAttempts]
Knob == [v : Value, by : Trial \cup {Owner}]
Handlers == {"none", "approve", "start", "stop", "tick", "retry", "restart", "unload"}
Pc == {"idle", "approve_save", "start_save", "activate", "refused_save",
       "target_write", "running_save", "base_write", "end_save"}
Saving == {"approve_save", "start_save", "refused_save", "running_save", "end_save"}

Absent == [state |-> "none", base |-> CHOOSE v \in Value : TRUE,
           target |-> CHOOSE v \in Value : TRUE, attempts |-> 0]

In(S) == {t \in Trial : rec[t].state \in S}
By(who, v) == [v |-> v, by |-> who]
Writing(who) == \E i \in DOMAIN queue : queue[i].who = who

\* The type of every variable.
TypeOK ==
    /\ bounds \in Bounds
    /\ rec \in [Trial -> Record]
    /\ saved \in [Trial -> Record]
    /\ writable \in BOOLEAN
    /\ knob \in Knob
    /\ knobDisk \in Knob
    /\ cready \in BOOLEAN
    /\ queue \in Seq([who : {"trial", "owner", "cycle", "orphan"}, val : Knob])
    /\ fit \in BOOLEAN
    /\ scoped \in BOOLEAN
    /\ age \in {"fresh", "late", "due"}
    /\ life \in {"down", "setup", "up", "closing", "stopped"}
    /\ pc \in Pc
    /\ op \in Handlers
    /\ cur \in Trial \cup {Owner}
    /\ to \in Ended
    /\ cancelled \in BOOLEAN
    /\ ctl \in {"free", "owner", "trial"}

Init ==
    /\ bounds \in Bounds
    /\ rec = [t \in Trial |-> Absent]
    /\ saved = rec
    /\ writable = TRUE
    /\ knob \in {By(Owner, v) : v \in Value}
    /\ knobDisk = knob
    /\ cready = FALSE
    /\ queue = <<>>
    /\ fit = FALSE /\ scoped = TRUE /\ age = "fresh"
    /\ life = "down"
    /\ pc = "idle" /\ op = "none" /\ cur = Owner /\ to = "stopped"
    /\ cancelled = FALSE
    /\ ctl = "free"

-----------------------------------------------------------------------------
(* Helpers of the handlers.                                                *)

\* Mutant: nobody asks whether another trial is under way.
Readiness_NotExclusive(t) == fit /\ scoped /\ cready

\* Trials.readiness, with the stores that guard_reason asks about.
Readiness(t) ==
    /\ fit /\ scoped /\ cready
    /\ In(Active) \subseteq {t}

\* check_bounds, for values the allowlist permits.
WithinBounds(base, target) ==
    /\ target # base
    /\ target - base \in -MaxStep..MaxStep

Release ==
    /\ pc' = "idle" /\ op' = "none" /\ cur' = Owner
    /\ cancelled' = FALSE
    /\ UNCHANGED to

Hold(handler, t, at) ==
    /\ pc = "idle"
    /\ pc' = at /\ op' = handler /\ cur' = t
    /\ UNCHANGED <<to, cancelled>>

Goto(at) ==
    /\ pc' = at
    /\ UNCHANGED <<op, cur, to, cancelled>>

\* TrialStore.save: a failure leaves the file alone and raises nothing.
TrialsSaved == writable /\ saved' = rec'
TrialsNotSaved == saved' = saved

\* _tuning_write up to its await, on stores q and ok: set_tunable, then
\* ControlStore.async_save, which raises at once if the store is not ready.
TuningWrite(who, v, by, q, ok) ==
    /\ knob' = By(by, v)
    /\ queue' = IF ok THEN Append(q, [who |-> who, val |-> knob']) ELSE q

\* _rollback of t up to its await, on the records r: the gate refuses a scope
\* that is no longer controlled, and then nothing is written.
RollBack(r, t, dest, handler, q, ok) ==
    /\ pc' = "base_write" /\ op' = handler /\ cur' = t /\ to' = dest
    /\ rec' = [r EXCEPT ![t].attempts = IF @ < MaxAttempts THEN @ + 1 ELSE @]
    /\ IF scoped THEN TuningWrite("trial", r[t].base, Owner, q, ok)
                 ELSE knob' = knob /\ queue' = q

\* The write at the head of the queue ends; it is the one of `who`.
HeadIs(who) == queue # <<>> /\ Head(queue).who = who

WriteLands ==
    /\ knobDisk' = Head(queue).val
    /\ queue' = Tail(queue)

-----------------------------------------------------------------------------
(* Proposals, without Trials.lock.  The handler and its save are one step: *)
(* the file's writes are serialised, and only the save's outcome matters.  *)

\* Mutant: bound() drops old records whether or not they are active.
Propose_DropsActive(t, target) ==
    /\ life = "up" /\ writable /\ scoped
    /\ WithinBounds(knob.v, target)
    /\ \E dropped \in SUBSET Trial :
          /\ rec[t] = Absent \/ t \in dropped
          /\ rec' = [u \in Trial |->
                IF u = t THEN [state |-> "proposed", base |-> knob.v,
                               target |-> target, attempts |-> 0]
                ELSE IF u \in dropped THEN Absent ELSE rec[u]]
    /\ TrialsSaved \/ TrialsNotSaved
    /\ UNCHANGED <<writable, knobVars, worldVars, life, lockVars, ctl>>

\* propose: the value of the moment is the baseline.  bound() drops records
\* of inactive trials that are too old or too many.
Propose(t, target) ==
    /\ life = "up" /\ writable /\ scoped
    /\ WithinBounds(knob.v, target)
    /\ \E dropped \in SUBSET (Trial \ In(Active)) :
          /\ rec[t] = Absent \/ t \in dropped
          /\ rec' = [u \in Trial |->
                IF u = t THEN [state |-> "proposed", base |-> knob.v,
                               target |-> target, attempts |-> 0]
                ELSE IF u \in dropped THEN Absent ELSE rec[u]]
    /\ TrialsSaved \/ TrialsNotSaved
    /\ UNCHANGED <<writable, knobVars, worldVars, life, lockVars, ctl>>

Reject(t) ==
    /\ life = "up" /\ writable
    /\ rec[t].state \in {"proposed", "approved"}
    /\ rec' = [rec EXCEPT ![t].state = "rejected"]
    /\ TrialsSaved \/ TrialsNotSaved
    /\ UNCHANGED <<writable, knobVars, worldVars, life, lockVars, ctl>>

\* evaluate: no state changes, but the file catches up with the memory.
Evaluate(t) ==
    /\ life = "up" /\ writable
    /\ rec[t].state \in Ended
    /\ saved' = rec
    /\ UNCHANGED <<rec, writable, knobVars, worldVars, life, lockVars, ctl>>

-----------------------------------------------------------------------------
(* approve and start_trial.                                                *)

Approve(t) ==
    /\ life = "up" /\ writable
    /\ rec[t].state = "proposed"
    /\ Readiness(t)
    /\ rec' = [rec EXCEPT ![t].state = "approved"]
    /\ Hold("approve", t, "approve_save")
    /\ UNCHANGED <<saved, writable, knobVars, worldVars, life, ctl>>

Approved ==
    /\ pc = "approve_save"
    /\ UNCHANGED rec
    /\ TrialsSaved \/ TrialsNotSaved
    /\ Release
    /\ UNCHANGED <<writable, knobVars, worldVars, life, ctl>>

\* The intent to roll back is saved as "starting" before anything changes.
StartTrial(t) ==
    /\ life = "up" /\ writable
    /\ rec[t].state = "approved"
    /\ Readiness(t)
    /\ WithinBounds(knob.v, rec[t].target)
    /\ knob.v = rec[t].base
    /\ rec' = [rec EXCEPT ![t].state = "starting"]
    /\ age' = "fresh"
    /\ Hold("start", t, "start_save")
    /\ UNCHANGED <<saved, writable, knobVars, bounds, fit, scoped, life, ctl>>

\* Mutant: the result of the save is not looked at.
StartSaved_NotChecked ==
    /\ pc = "start_save"
    /\ UNCHANGED rec
    /\ TrialsSaved \/ TrialsNotSaved
    /\ Goto("activate")
    /\ UNCHANGED <<writable, knobVars, worldVars, life, ctl>>

StartSaved ==
    /\ pc = "start_save"
    /\ UNCHANGED rec
    /\ TrialsSaved
    /\ Goto("activate")
    /\ UNCHANGED <<writable, knobVars, worldVars, life, ctl>>

StartNotSaved ==
    /\ pc = "start_save"
    /\ rec' = [rec EXCEPT ![cur].state = "approved"]
    /\ TrialsNotSaved
    /\ Release
    /\ UNCHANGED <<writable, knobVars, worldVars, life, ctl>>

\* Mutant: the conditions are not checked again under Controls.lock.
Activate_NoRecheck ==
    /\ pc = "activate" /\ ctl = "free"
    /\ ctl' = "trial"
    /\ TuningWrite("trial", rec[cur].target, cur, queue, cready)
    /\ Goto("target_write")
    /\ UNCHANGED <<recordVars, knobDisk, cready, worldVars, life>>

\* _activate, once it has Controls.lock: recheck, then write the target.
Activate ==
    /\ pc = "activate" /\ ctl = "free"
    /\ Readiness(cur) /\ knob.v = rec[cur].base
    /\ ctl' = "trial"
    /\ TuningWrite("trial", rec[cur].target, cur, queue, cready)
    /\ Goto("target_write")
    /\ UNCHANGED <<recordVars, knobDisk, cready, worldVars, life>>

\* conditions_changed: the saved intent ends and nothing is written.
ActivateRefused ==
    /\ pc = "activate" /\ ctl = "free"
    /\ ~(Readiness(cur) /\ knob.v = rec[cur].base)
    /\ ctl' = "trial"
    /\ rec' = [rec EXCEPT ![cur].state = "stopped"]
    /\ Goto("refused_save")
    /\ UNCHANGED <<saved, writable, knobVars, worldVars, life>>

RefusalSaved ==
    /\ pc = "refused_save"
    /\ UNCHANGED rec
    /\ TrialsSaved \/ TrialsNotSaved
    /\ Release
    /\ ctl' = "free"
    /\ UNCHANGED <<writable, knobVars, worldVars, life>>

\* The target is saved and reads back; only then is the trial "running".
TargetVerified ==
    /\ pc = "target_write" /\ HeadIs("trial")
    /\ WriteLands
    /\ cready /\ knob.v = rec[cur].target
    /\ rec' = [rec EXCEPT ![cur].state = "running"]
    /\ ctl' = "free"
    /\ Goto("running_save")
    /\ UNCHANGED <<saved, writable, knob, cready, worldVars, life>>

\* The save failed, or another save has failed since: restore at once.
TargetFailed ==
    /\ pc = "target_write" /\ HeadIs("trial")
    /\ \/ cready' = FALSE /\ knobDisk' = knobDisk
       \/ ~cready /\ cready' = cready /\ knobDisk' = Head(queue).val
    /\ RollBack(rec, cur, "stopped", "start", Tail(queue), cready')
    /\ ctl' = "free"
    /\ UNCHANGED <<saved, writable, worldVars, life, cancelled>>

RunningSaved ==
    /\ pc = "running_save" /\ ~cancelled
    /\ UNCHANGED rec
    /\ TrialsSaved
    /\ Release
    /\ UNCHANGED <<writable, knobVars, worldVars, life, ctl>>

\* "running" was not saved, or the caller went away while it was applied.
RunningUndone ==
    /\ pc = "running_save"
    /\ \/ TrialsNotSaved
       \/ cancelled /\ saved' = rec
    /\ RollBack(rec, cur, "stopped", "start", queue, cready)
    /\ UNCHANGED <<writable, knobDisk, cready, worldVars, life, cancelled, ctl>>

-----------------------------------------------------------------------------
(* _rollback after its await: verified, or rollback_failed.                *)

\* Mutant: a rollback is verified by the readback alone.
BaseSaved_ReadbackOnly ==
    /\ pc = "base_write" /\ HeadIs("trial")
    /\ \/ WriteLands /\ UNCHANGED cready
       \/ UNCHANGED knobDisk /\ queue' = Tail(queue) /\ cready' = FALSE
    /\ knob.v = rec[cur].base
    /\ rec' = [rec EXCEPT ![cur].state =
                  IF @ = "rollback_failed" THEN "rolled_back" ELSE to]
    /\ Goto("end_save")
    /\ UNCHANGED <<saved, writable, knob, worldVars, life, ctl>>

BaseSaved ==
    /\ pc = "base_write" /\ HeadIs("trial")
    /\ WriteLands
    /\ cready /\ knob.v = rec[cur].base
    /\ rec' = [rec EXCEPT ![cur].state =
                  IF @ = "rollback_failed" THEN "rolled_back" ELSE to]
    /\ Goto("end_save")
    /\ UNCHANGED <<saved, writable, knob, cready, worldVars, life, ctl>>

\* After the outcome, on the stores q and ok: _tick's second loop tries a
\* rollback that has just failed once more.
Failed(q, ok) ==
    LET marked == [rec EXCEPT ![cur].state = "rollback_failed"]
    IN  \/ /\ op = "tick" /\ rec[cur].attempts < MaxAttempts
           /\ RollBack(marked, cur, "rolled_back", "retry", q, ok)
           /\ UNCHANGED cancelled
        \/ /\ ~(op = "tick" /\ rec[cur].attempts < MaxAttempts)
           /\ rec' = marked
           /\ knob' = knob /\ queue' = q
           /\ Goto("end_save")

\* The write fails; or it lands and the store is not ready or the owner has
\* set another value; or it was refused before it began.
BaseFailed ==
    /\ pc = "base_write"
    /\ \/ /\ HeadIs("trial")
          /\ cready' = FALSE /\ knobDisk' = knobDisk
          /\ Failed(Tail(queue), FALSE)
       \/ /\ HeadIs("trial")
          /\ ~(cready /\ knob.v = rec[cur].base)
          /\ cready' = cready /\ knobDisk' = Head(queue).val
          /\ Failed(Tail(queue), cready)
       \/ /\ ~Writing("trial")
          /\ cready' = cready /\ knobDisk' = knobDisk
          /\ Failed(queue, cready)
    /\ UNCHANGED <<saved, writable, worldVars, life, ctl>>

\* The handler's last save, and the end of startup or unload.
EndSaved ==
    /\ pc = "end_save"
    /\ UNCHANGED rec
    /\ TrialsSaved \/ TrialsNotSaved
    /\ life' = CASE op = "restart" -> "up" [] op = "unload" -> "stopped" [] OTHER -> life
    /\ Release
    /\ UNCHANGED <<writable, knobVars, worldVars, ctl>>

-----------------------------------------------------------------------------
(* Who rolls back: supervision, the owner, startup and unload.  At most    *)
(* one trial is active (AtMostOneActive), so their loops have one visit.   *)

RollBackFromIdle(t, dest, handler) ==
    /\ pc = "idle"
    /\ RollBack(rec, t, dest, handler, queue, cready)
    /\ UNCHANGED <<saved, writable, knobDisk, cready, worldVars, cancelled, ctl>>

\* _check: mode, hold, manual override, guard, comfort or degree-hours.
Breach(t) ==
    /\ life = "up" /\ rec[t].state \in Applied
    /\ RollBackFromIdle(t, "stopped", "tick")
    /\ UNCHANGED life

\* Mutant: the tick gives up on a trial whose conditions cannot be read.
Expire_WhenFit(t) ==
    /\ life = "up" /\ rec[t].state \in Applied /\ age = "due"
    /\ fit
    /\ RollBackFromIdle(t, "expired", "tick")
    /\ UNCHANGED life

Expire(t) ==
    /\ life = "up" /\ rec[t].state \in Applied /\ age = "due"
    /\ RollBackFromIdle(t, "expired", "tick")
    /\ UNCHANGED life

\* start_interrupted: "starting" for more than two minutes with the lock free.
Interrupted(t) ==
    /\ life = "up" /\ rec[t].state = "starting" /\ age # "fresh"
    /\ RollBackFromIdle(t, "stopped", "tick")
    /\ UNCHANGED life

Retry(t) ==
    /\ life = "up" /\ rec[t].state = "rollback_failed"
    /\ rec[t].attempts < MaxAttempts
    /\ RollBackFromIdle(t, "rolled_back", "retry")
    /\ UNCHANGED life

\* Mutant: the state is named after the argument.
StopTrial_Misnamed(t, complete) ==
    /\ life = "up" /\ writable
    /\ rec[t].state \in Active
    /\ RollBackFromIdle(t, IF complete /\ rec[t].state = "running" THEN "complete" ELSE "stopped",
                        "stop")
    /\ UNCHANGED life

StopTrial(t, complete) ==
    /\ life = "up" /\ writable
    /\ rec[t].state \in Active
    /\ RollBackFromIdle(t, IF complete /\ rec[t].state = "running" THEN "completed" ELSE "stopped",
                        "stop")
    /\ UNCHANGED life

\* Controls and then Trials.initialise.  An unreadable file is left alone and
\* makes trials read-only; bound() applies to what was read.
Initialise ==
    /\ life = "down" /\ life' = "setup"
    /\ cready' = TRUE
    /\ \E dropped \in SUBSET {t \in Trial : saved[t].state \notin Active} :
       \E readable \in BOOLEAN :
          LET loaded == [t \in Trial |->
                            IF readable /\ t \notin dropped THEN saved[t] ELSE Absent]
          IN  /\ writable' = readable
              /\ \/ /\ \A t \in Trial : loaded[t].state \notin Active
                    /\ rec' = loaded
                    /\ UNCHANGED <<knob, queue>>
                    /\ pc' = "end_save" /\ op' = "restart" /\ UNCHANGED <<cur, to>>
                 \/ \E t \in Trial :
                       /\ loaded[t].state \in Active
                       /\ RollBack(loaded, t, "stopped", "restart", <<>>, TRUE)
    /\ UNCHANGED <<saved, knobDisk, worldVars, cancelled, ctl>>

\* Trials.stop: supervision ends, and once it has the lock it rolls back.
Unload ==
    /\ life = "up" /\ life' = "closing"
    /\ UNCHANGED <<recordVars, knobVars, worldVars, lockVars, ctl>>

StopAll ==
    /\ life = "closing" /\ UNCHANGED life
    /\ \/ /\ In(Applied) = {}
          /\ Hold("unload", Owner, "end_save")
          /\ UNCHANGED <<recordVars, knobVars, worldVars, ctl>>
       \/ \E t \in In(Applied) : RollBackFromIdle(t, "stopped", "unload")

\* What is in memory is gone; the options may change before the next setup.
MemoryLost ==
    /\ rec' = saved' /\ writable' = TRUE
    /\ knob' = knobDisk' /\ cready' = FALSE /\ queue' = <<>>
    /\ fit' = FALSE /\ scoped' \in BOOLEAN /\ age' = "fresh"
    /\ life' = "down"
    /\ pc' = "idle" /\ op' = "none" /\ cur' = Owner /\ to' = "stopped" /\ cancelled' = FALSE
    /\ ctl' = "free"
    /\ UNCHANGED bounds

Unloaded ==
    /\ life = "stopped" /\ pc = "idle"
    /\ queue = <<>> /\ ctl = "free"
    /\ UNCHANGED <<saved, knobDisk>>
    /\ MemoryLost

\* The process dies at any await; a write under way has landed or has not.
Crash ==
    /\ life # "down"
    /\ saved' = saved \/ (pc \in Saving /\ writable /\ saved' = rec)
    /\ knobDisk' = knobDisk \/ (queue # <<>> /\ knobDisk' = Head(queue).val)
    /\ MemoryLost

-----------------------------------------------------------------------------
(* A caller that goes away: shielded once, after that its task is killed.  *)

Shielded == {"activate", "refused_save", "target_write", "running_save"}

CallerLeaves ==
    /\ bounds.cancels
    /\ pc \in Shielded /\ ~cancelled
    /\ cancelled' = TRUE
    /\ UNCHANGED <<recordVars, knobVars, worldVars, life, pc, op, cur, to, ctl>>

\* Its write goes on with nobody waiting for it (one at a time: a bound).
Killed ==
    /\ bounds.cancels
    /\ op \in {"approve", "start", "stop"}
    /\ cancelled \/ pc \notin Shielded
    /\ ~Writing("orphan")
    /\ saved' = saved \/ (pc \in Saving /\ saved' = rec)
    /\ queue' = [i \in DOMAIN queue |->
                    IF queue[i].who = "trial" THEN [queue[i] EXCEPT !.who = "orphan"]
                                              ELSE queue[i]]
    /\ ctl' = IF ctl = "trial" THEN "free" ELSE ctl
    /\ Release
    /\ UNCHANGED <<rec, writable, knob, knobDisk, cready, worldVars, life>>

-----------------------------------------------------------------------------
(* The others: the owner's number entity and other holders of              *)
(* Controls.lock, the control cycles, and time.                            *)

OwnerSets(v) ==
    /\ "owner" \in bounds.savers
    /\ life \in {"up", "closing"} /\ ctl = "free"
    /\ ctl' = "owner"
    /\ TuningWrite("owner", v, Owner, queue, cready)
    /\ UNCHANGED <<recordVars, knobDisk, cready, worldVars, life, lockVars>>

ControlsHeld ==
    /\ life \in {"up", "closing"} /\ ctl = "free"
    /\ ctl' = "owner"
    /\ UNCHANGED <<recordVars, knobVars, worldVars, life, lockVars>>

ControlsReleased ==
    /\ ctl = "owner" /\ ~Writing("owner")
    /\ ctl' = "free"
    /\ UNCHANGED <<recordVars, knobVars, worldVars, life, lockVars>>

\* A control cycle saves its memory, and the tunable is in the same file.
CycleSaves ==
    /\ "cycle" \in bounds.savers
    /\ life # "down" /\ cready
    /\ ~Writing("cycle")
    /\ queue' = Append(queue, [who |-> "cycle", val |-> knob])
    /\ UNCHANGED <<recordVars, knob, knobDisk, cready, worldVars, life, lockVars, ctl>>

OtherWritten ==
    /\ HeadIs("owner") \/ HeadIs("cycle") \/ HeadIs("orphan")
    /\ \/ WriteLands /\ UNCHANGED cready
       \/ /\ queue' = Tail(queue) /\ UNCHANGED knobDisk
          /\ IF HeadIs("orphan") THEN UNCHANGED cready ELSE cready' = FALSE
    /\ UNCHANGED <<recordVars, knob, worldVars, life, lockVars, ctl>>

\* A mode, a hold, a handover or the guard changes what readiness sees.
FitChanges ==
    /\ life = "up"
    /\ fit' = ~fit
    /\ UNCHANGED <<recordVars, knobVars, bounds, scoped, age, life, lockVars, ctl>>

TimePasses ==
    /\ In(Applied) # {} /\ age # "due"
    /\ age' = IF age = "fresh" THEN "late" ELSE "due"
    /\ UNCHANGED <<recordVars, knobVars, bounds, fit, scoped, life, lockVars, ctl>>

-----------------------------------------------------------------------------

StartStep == StartSaved \/ StartNotSaved \/ Activate \/ ActivateRefused \/ RefusalSaved
             \/ TargetVerified \/ TargetFailed \/ RunningSaved \/ RunningUndone
LockHolder == Approved \/ StartStep \/ BaseSaved \/ BaseFailed \/ EndSaved

Supervision == \E t \in Trial : Breach(t) \/ Expire(t) \/ Interrupted(t) \/ Retry(t)

Requests == \E t \in Trial :
    \/ \E v \in Value : Propose(t, v)
    \/ Reject(t) \/ Evaluate(t) \/ Approve(t) \/ StartTrial(t)
    \/ \E complete \in BOOLEAN : StopTrial(t, complete)

Lifecycle == Initialise \/ Unload \/ StopAll \/ Unloaded \/ Crash

Others == CallerLeaves \/ Killed \/ (\E v \in Value : OwnerSets(v)) \/ ControlsHeld
          \/ ControlsReleased \/ CycleSaves \/ OtherWritten \/ FitChanges \/ TimePasses

Next == LockHolder \/ Supervision \/ Requests \/ Lifecycle \/ Others

Spec == Init /\ [][Next]_vars

\* Writes end, locks are handed on in the order they are asked for, time
\* passes, and the tick comes back while supervision runs.
Fairness ==
    /\ WF_vars(LockHolder) /\ SF_vars(Activate \/ ActivateRefused)
    /\ WF_vars(OtherWritten) /\ WF_vars(ControlsReleased)
    /\ WF_vars(TimePasses)
    /\ \A t \in Trial : SF_vars(Expire(t) \/ Interrupted(t))

FairSpec == Spec /\ Fairness

-----------------------------------------------------------------------------
(* Properties.                                                             *)

\* A trial's value is never in effect, nor in the file the next start reads,
\* without a record that makes supervision or the next start restore the
\* baseline (start_trial's docstring: "never an unsupervised changed value").
\* A trials file that cannot be read supervises nothing.
NoUnsupervisedValue ==
    \A t \in Trial :
        /\ knob.by = t /\ writable => rec[t].state \in Active
        /\ knobDisk.by = t => saved[t].state \in Active

\* One change at a time, in memory and in the file a restart would load.
AtMostOneActive ==
    /\ Cardinality(In(Active)) <= 1
    /\ Cardinality({t \in Trial : saved[t].state \in Active}) <= 1

\* A trial that counts as ended has its baseline in the controller's file, so
\* that no restart brings its value back (docs/bounded-trials.md:87-89).
DoneIsDurable ==
    \A t \in Trial : rec[t].state \in Ended => knob.by # t /\ knobDisk.by # t

\* The value a trial replaces is the one its rollback will restore, and all
\* conditions hold at that moment, whoever had Controls.lock before
\* (_activate's recheck).
ReplacesWhatItRestores ==
    [][\A t \in Trial :
          knob'.by = t /\ knob.by # t /\ life' # "down" /\ life # "down" =>
              knob.v = rec[t].base /\ fit /\ scoped /\ cready]_vars

\* Supervision ends every applied trial: it expires, or it was interrupted
\* while starting and is rolled back, unless the process ends first.
TrialEnds ==
    \A t \in Trial :
        (life = "up" /\ rec[t].state \in Applied) ~>
            (life # "up" \/ rec[t].state \notin Applied)

=============================================================================
