----------------------------- MODULE DhwSchedule -----------------------------
(***************************************************************************)
(* The weekly raise of the cylinder target and its restore                 *)
(* (dhw/coordinator.py, dhw/policy.py, dhw/store.py, dhw/visitor.py).      *)
(*                                                                         *)
(* The cylinder's controller is reached by radio only: a command arrives   *)
(* some time after the call, or never, and Home Assistant shows what the   *)
(* controller last reported.  The one owned change, the transaction, is    *)
(* saved before anything is sent and leaves the file when the target has   *)
(* been seen restored or in other hands.                                   *)
(*                                                                         *)
(* One action runs from one await of a handler to the next.  A step that   *)
(* goes on after a save whose result it ignores is modelled as ending      *)
(* there: what it would do next is what the next step does.                *)
(***************************************************************************)
EXTENDS Integers, Sequences

CONSTANTS
    None,          \* Python's None
    Normal, High,  \* the two configured targets
    Other,         \* any parameters that are neither
    DayLength,     \* ticks of a day; the window is [Opens, Shuts)
    Opens, Shuts,
    Settle,        \* SETTLE_SECONDS, in ticks
    Confirm,       \* CONFIRM_SECONDS
    Slow,          \* SLOW_RETRY_SECONDS
    Grace,         \* UNKNOWN_GRACE
    Quick,         \* QUICK_ATTEMPTS
    MaxAttempts,   \* MAX_ATTEMPTS
    Bounds         \* bound: the sets of [hands, choices, faults] of which a behaviour has one:
                   \* the targets the owner sets; the visitor choices made; and which of "crash",
                   \* "save", "lost", "back" (the clock is set back within a day), "options"

Targets == {Normal, High, Other}
Ages(n) == 0..n \union {None}
Transactions ==
    [kind : {"baseline", "elevation", "visitor"}, phase : {"raising", "raised", "restoring"},
     original : Targets, left : -Grace..(DayLength + Shuts), attempts : 0..MaxAttempts,
     writtenAt : Ages(Settle), sentAt : Ages(Slow), current : BOOLEAN]

ASSUME ScheduleAssumption ==
    /\ Normal # High /\ Other \notin {Normal, High} /\ None \notin Targets
    /\ {DayLength, Opens, Shuts, Settle, Confirm, Slow, Grace, Quick, MaxAttempts} \subseteq Nat
    /\ 0 < Opens /\ Opens < Shuts /\ Shuts < DayLength
    /\ 0 < Settle /\ Settle <= Confirm /\ Confirm <= Slow
    /\ 0 < Quick /\ Quick <= MaxAttempts /\ 0 < Grace
    /\ \A b \in Bounds : b.hands \subseteq Targets /\ b.choices \subseteq {"off", "open", "timed"}
    /\ None \notin Nat /\ None \notin Transactions /\ None \notin {"off", "open", "timed", "past"}

VARIABLES
    bounds,   \* the bounds of this behaviour
    mem,      \* DhwStore.data
    disk,     \* the file in .storage
    saves,    \* Store's writes under way, in order: who waits, and the data written
    life,     \* "down" (also with a file it cannot read), "up", "stopping" (waits for the
              \* step), "leaving" (restores once)
    pc,       \* where the holder of _step_lock awaits
    cmd,      \* the locals of _write: [to, expected, recovery]
    written,  \* age of _written, or None
    resent,   \* age of _restore_sent, or None
    evidence, \* "none", "counting", or "over" once it has a result
    usable,   \* policy.usable of the configuration
    issue,    \* DhwSchedule.issue: this instance has raised the repair
    repair,   \* external: the repair is open in Home Assistant
    asked,    \* the visitor choice to go back to while set_visitor saves, or None
    tod,      \* time of day
    armed,    \* armed_since is not after the start of today's window
    zone,     \* external: the controller's target, and who has set it: "both"
              \* when ours overtook a hand's
    radio,    \* external: commands on their way
    shown,    \* external: Home Assistant's view of the target, None when unavailable
    raises    \* history: weekly raises sent under today's date

vars == <<bounds, mem, disk, saves, life, pc, cmd, written, resent, evidence, usable, issue,
          repair, asked, tod, armed, zone, radio, shown, raises>>
world == <<bounds, tod, armed, zone, radio, shown, raises, usable>>
alerts == <<issue, repair>>

Older(age, cap) == IF age = None \/ age = cap THEN age ELSE age + 1

\* consumed, applied_revision and paused are compared with one value each, today's date or
\* the configured revision: kept as the result.  A visitor's end time is "timed" until it is "past".
Stored ==
    [consumed : BOOLEAN, applied : BOOLEAN, paused : BOOLEAN,
     txn : Transactions \union {None}, visitor : {"off", "open", "timed", "past"}]

Faults == bounds.faults
Txn == mem.txn
Running == life = "up" /\ pc = "idle"
Settled == written = None \/ written = Settle
\* The parameters a transaction may have brought about, or found.
Candidates(t) == {t.original, Normal} \union (IF t.kind = "baseline" THEN {} ELSE {High})
Candidate(t) == shown \in Candidates(t)
VisitorLive(data) == data.visitor \in {"open", "timed"}
Kept(data) == /\ data.txn # None
              /\ data.txn.kind = "visitor" /\ data.txn.phase = "raised"
              /\ VisitorLive(data)

Init ==
    /\ bounds \in Bounds
    /\ disk = [consumed |-> FALSE, applied |-> FALSE, paused |-> FALSE, txn |-> None,
               visitor |-> "off"]
    /\ mem = disk
    /\ saves = <<>>
    /\ life = "down" /\ pc = "idle" /\ cmd = None
    /\ written = None /\ resent = None /\ evidence = "none" /\ issue = FALSE /\ asked = None
    /\ repair = FALSE /\ usable = TRUE
    /\ tod = 0 /\ armed = FALSE /\ raises = 0
    /\ zone \in [val : bounds.hands \union {Normal}, by : {"owner"}]
    /\ radio = {} /\ shown = zone.val

-----------------------------------------------------------------------------
(* Saving.  The data is copied when the save starts; writes are carried out in order. *)

Saving(who, data) == saves' = Append(saves, [who |-> who, data |-> data])

\* The step awaits a save whose result it ignores.
StepSaves(data) ==
    /\ mem' = data
    /\ Saving("step", data)
    /\ pc' = "saving"

\* Head of the queue written, or not: the waiter `who` learns which.
Wrote(who, ok) ==
    /\ saves # <<>> /\ Head(saves).who = who
    /\ ok \/ "save" \in Faults
    /\ saves' = Tail(saves)
    /\ disk' = IF ok THEN Head(saves).data ELSE disk

SaveIgnored ==
    /\ pc = "saving"
    /\ \E ok \in BOOLEAN : Wrote("step", ok)
    /\ pc' = "idle"
    /\ UNCHANGED <<mem, life, cmd, written, resent, evidence, alerts, asked, world>>

-----------------------------------------------------------------------------
(* Life cycle. *)

\* A restart resumes no raised target but a visitor's; what to expect of requests
\* made before is derived from their saved times, now if there is none.  Where the file
\* cannot be read (`ready` is False), the instance keeps the file, does nothing in any step
\* and saves nothing until it is loaded again: such an instance is "down" here.
Initialise ==
    /\ life = "down"
    /\ \E newRevision \in (IF "options" \in Faults THEN BOOLEAN ELSE {FALSE}) :
        LET known == IF newRevision
                     THEN [disk EXCEPT !.applied = FALSE, !.paused = FALSE,
                             !.txn = IF @ = None THEN None ELSE [@ EXCEPT !.current = FALSE]]
                     ELSE disk
        IN /\ disk' = known
           /\ mem' = IF known.txn = None \/ Kept(known) THEN known
                     ELSE [known EXCEPT !.txn.phase = "restoring"]
           /\ written' = IF known.txn = None THEN None
                         ELSE IF known.txn.writtenAt = None THEN 0 ELSE known.txn.writtenAt
           /\ resent' = IF known.txn = None THEN None ELSE known.txn.sentAt
    /\ life' = "up"
    /\ armed' = (tod <= Opens)
    /\ usable' \in (IF "options" \in Faults THEN BOOLEAN ELSE {usable})
    /\ evidence' = "none" /\ issue' = FALSE
    /\ UNCHANGED <<bounds, saves, pc, cmd, asked, repair, tod, zone, radio, shown, raises>>

Stop ==
    /\ life = "up"
    /\ life' = "stopping"
    /\ UNCHANGED <<mem, disk, saves, pc, cmd, written, resent, evidence, alerts, asked, world>>

\* stop has the step lock: what is raised, and no living visitor's, is to be restored.
StopTakes ==
    /\ life = "stopping" /\ pc = "idle"
    /\ life' = "leaving"
    /\ IF Txn # None /\ ~Kept(mem) /\ Txn.phase # "restoring"
       THEN /\ LET data == [mem EXCEPT !.txn.phase = "restoring"]
               IN mem' = data /\ Saving("step", data)
            /\ pc' = "stopping"
            /\ evidence' = "none"
       ELSE pc' = "done" /\ UNCHANGED <<mem, saves, evidence>>
    /\ UNCHANGED <<disk, cmd, written, resent, alerts, asked, world>>

\* A baseline is a new choice and takes the full guard.
RestoreCommand ==
    [to |-> Normal, expected |-> Candidates(Txn), recovery |-> Txn.kind # "baseline"]

RaiseIssue(when) == issue' = (issue \/ when) /\ repair' = (repair \/ (when /\ ~issue))

\* One prompt restore (force), only from a value the transaction owns.
StopRestores ==
    /\ pc = "stopping"
    /\ \E ok \in BOOLEAN : Wrote("step", ok)
    /\ LET owned == shown \notin {Normal, None} /\ Candidate(Txn)
       IN /\ IF owned /\ Txn.attempts < MaxAttempts
             THEN pc' = "lock" /\ cmd' = RestoreCommand
             ELSE pc' = "done" /\ UNCHANGED cmd
          /\ RaiseIssue(\/ shown = None /\ Txn.left = -Grace
                        \/ owned /\ Txn.attempts >= Quick)
    /\ UNCHANGED <<mem, life, written, resent, evidence, asked, world>>

\* The instance is gone, with whatever it had not saved.
Close ==
    /\ life = "leaving" /\ pc \in {"idle", "done"} /\ saves = <<>>
    /\ life' = "down" /\ pc' = "idle"
    /\ mem' = disk /\ issue' = FALSE /\ cmd' = None
    /\ written' = None /\ resent' = None /\ evidence' = "none"
    /\ UNCHANGED <<disk, saves, repair, asked, world>>

-----------------------------------------------------------------------------
(* Opening a transaction: baseline, weekly raise, visitor. *)

Free == Running /\ Txn = None /\ usable

NewTxn(kind, phase, left) ==
    [kind |-> kind, phase |-> phase, original |-> shown, left |-> left, attempts |-> 0,
     writtenAt |-> None, sentAt |-> None, current |-> TRUE]

\* Durable intent before any command.
OpenWith(data) ==
    /\ mem' = data
    /\ Saving("step", data)
    /\ pc' = "intent"
    /\ UNCHANGED <<disk, life, cmd, written, resent, alerts, asked, world>>

\* _finish: `data` without the transaction.
Finish(data, next) ==
    /\ mem' = [data EXCEPT !.txn = None]
    /\ Saving("step", mem')
    /\ pc' = next
    /\ written' = None /\ resent' = None /\ evidence' = "none"
    /\ issue' = FALSE /\ repair' = (repair /\ ~issue)
    /\ UNCHANGED <<disk, life, asked, world>>

\* The one write of the normal target that a new revision allows.
Baseline ==
    /\ Free /\ mem.visitor = "off" /\ ~mem.paused /\ ~mem.applied /\ shown # None
    /\ IF shown = Normal
       THEN Finish([mem EXCEPT !.applied = TRUE], "saving") /\ UNCHANGED cmd
       ELSE OpenWith([mem EXCEPT !.txn = NewTxn("baseline", "restoring", 0)]) /\ UNCHANGED evidence

\* session_due: the start was seen after arming, and the date is not used.
SessionDue == armed /\ tod \in Opens..(Shuts - 1) /\ ~mem.consumed

Elevate_DateNotUsed ==
    /\ Free /\ mem.visitor = "off" /\ ~mem.paused /\ mem.applied /\ SessionDue /\ shown # None
    /\ IF shown = Normal
       THEN OpenWith([mem EXCEPT !.txn = NewTxn("elevation", "raising", Shuts - tod)])
       ELSE /\ StepSaves([mem EXCEPT !.paused = TRUE, !.consumed = TRUE])
            /\ UNCHANGED <<disk, life, cmd, written, resent, alerts, asked, world>>
    /\ UNCHANGED evidence

\* _open: the date is consumed even if the write fails; somebody else's target pauses.
Elevate ==
    /\ Free /\ mem.visitor = "off" /\ ~mem.paused /\ mem.applied /\ SessionDue /\ shown # None
    /\ IF shown = Normal
       THEN OpenWith([mem EXCEPT !.consumed = TRUE,
                                 !.txn = NewTxn("elevation", "raising", Shuts - tod)])
       ELSE /\ StepSaves([mem EXCEPT !.paused = TRUE, !.consumed = TRUE])
            /\ UNCHANGED <<disk, life, cmd, written, resent, alerts, asked, world>>
    /\ UNCHANGED evidence

\* VISITOR_OPEN_END is as good as never.
Never == DayLength
VisitorLeft == IF mem.visitor = "open" THEN Never ELSE 1

OpenVisitor ==
    /\ Free /\ VisitorLive(mem) /\ shown # None
    /\ OpenWith([mem EXCEPT !.txn = NewTxn("visitor", "raising", VisitorLeft)])
    /\ UNCHANGED evidence

\* The intent is saved.  A visitor's target already set by hand is adopted; a baseline
\* goes on as a restore, with the next step.
IntentSaved ==
    /\ pc = "intent"
    /\ CASE Txn.kind = "baseline" ->
               /\ Wrote("step", TRUE)
               /\ pc' = "idle" /\ UNCHANGED <<mem, cmd, evidence>>
         [] Txn.kind = "visitor" /\ Txn.original = High ->
               /\ saves # <<>> /\ Head(saves).who = "step"
               /\ disk' = Head(saves).data
               /\ mem' = [mem EXCEPT !.txn.phase = "raised"]
               /\ saves' = Append(Tail(saves), [who |-> "step", data |-> mem'])
               /\ pc' = "saving" /\ evidence' = "none" /\ UNCHANGED cmd
         [] OTHER ->
               /\ Wrote("step", TRUE)
               /\ pc' = "lock"
               /\ cmd' = [to |-> High, expected |-> {Txn.original}, recovery |-> FALSE]
               /\ evidence' = IF Txn.kind = "visitor" THEN "none" ELSE "counting"
               /\ UNCHANGED mem
    /\ UNCHANGED <<life, written, resent, alerts, asked, world>>

IntentNotSaved_GoesOn ==
    /\ pc = "intent" /\ Txn.kind # "baseline"
    /\ Wrote("step", FALSE)
    /\ pc' = "lock"
    /\ cmd' = [to |-> High, expected |-> {Txn.original}, recovery |-> FALSE]
    /\ UNCHANGED <<mem, life, written, resent, evidence, alerts, asked, world>>

\* No command without a saved intent.  A failed raise puts back the data it had copied.
IntentNotSaved ==
    /\ pc = "intent"
    /\ Wrote("step", FALSE)
    /\ mem' = [mem EXCEPT !.txn = None,
                          !.visitor = IF Txn.kind = "elevation" THEN "off" ELSE @]
    /\ pc' = "idle"
    /\ UNCHANGED <<life, cmd, written, resent, evidence, alerts, asked, world>>

-----------------------------------------------------------------------------
(* The steps of a raised transaction. *)

\* visitor_active: an end time that has passed switches visitor mode off; so does a
\* configuration that is no longer usable.
VisitorExpires ==
    /\ Running
    /\ \/ mem.visitor = "past" /\ usable
       \/ mem.visitor # "off" /\ ~usable
    /\ Txn # None => Txn.phase = "raised" /\ (usable \/ Txn.kind = "visitor")
    /\ StepSaves([mem EXCEPT !.visitor = "off"])
    /\ UNCHANGED <<disk, life, cmd, written, resent, evidence, alerts, asked, world>>

Raised(kind) == Running /\ Txn # None /\ Txn.kind = kind /\ Txn.phase = "raised"
Foreign == Settled /\ shown # None /\ ~Candidate(Txn)

\* A weekly raise goes on as the visitor's.
ConvertVisitor ==
    /\ Raised("elevation") /\ VisitorLive(mem)
    /\ StepSaves([mem EXCEPT !.txn.kind = "visitor", !.txn.left = VisitorLeft])
    /\ evidence' = "none"
    /\ UNCHANGED <<disk, life, cmd, written, resent, alerts, asked, world>>

BeginRestore(data) ==
    /\ StepSaves([data EXCEPT !.txn.phase = "restoring"])
    /\ evidence' = "none"
    /\ UNCHANGED <<disk, life, cmd, written, resent, alerts, asked, world>>

VisitorEnded == Raised("visitor") /\ mem.visitor = "off" /\ BeginRestore([mem EXCEPT !.txn.left = 0])

\* The visitor's target was changed by someone else: visitor mode gives way.
VisitorForeign ==
    /\ Raised("visitor") /\ VisitorLive(mem) /\ usable /\ Foreign
    /\ Finish(mem, "visitorOff")
    /\ UNCHANGED cmd

VisitorGivesWay ==
    /\ pc = "visitorOff"
    /\ saves # <<>> /\ Head(saves).who = "step"
    /\ \E ok \in BOOLEAN : (ok \/ "save" \in Faults) /\ disk' = IF ok THEN Head(saves).data ELSE disk
    /\ mem' = [mem EXCEPT !.visitor = "off"]
    /\ saves' = Append(Tail(saves), [who |-> "step", data |-> mem'])
    /\ pc' = "saving"
    /\ UNCHANGED <<life, cmd, written, resent, evidence, alerts, asked, world>>

\* _end(pause = True) stops the schedule of the revision the transaction belongs to.
Paused(data) == [data EXCEPT !.paused = data.txn.current]

\* No evidence (a restart), an external change, a result, the deadline.
ElevationEnds ==
    /\ Raised("elevation") /\ ~VisitorLive(mem)
    /\ IF evidence # "none" /\ Foreign
       THEN Finish(Paused(mem), "saving") /\ UNCHANGED cmd
       ELSE (evidence # "counting" \/ Txn.left <= 0) /\ BeginRestore(mem)

\* _restore: observe, then restore only from a value this transaction owns.
RestoreSeen ==
    /\ Running /\ Txn # None /\ Txn.phase # "raised" /\ Settled
    /\ shown = Normal
    /\ Finish(IF Txn.kind # "baseline" THEN mem
              ELSE [mem EXCEPT !.applied = Txn.current, !.paused = @ /\ ~Txn.current], "saving")
    /\ UNCHANGED cmd

RestoreForeign ==
    /\ Running /\ Txn # None /\ Txn.phase # "raised" /\ Foreign
    /\ Finish(Paused(mem), "saving")
    /\ UNCHANGED cmd

Restore_Unbounded ==
    /\ Running /\ Txn # None /\ Txn.phase # "raised"
    /\ \/ /\ shown = None
          /\ RaiseIssue(Txn.left = -Grace)
          /\ UNCHANGED <<pc, cmd>>
       \/ LET overdue == resent = None \/ resent >= Confirm
              wait == IF Txn.attempts < Quick THEN Confirm ELSE Slow
              ready == Settled /\ (resent = None \/ resent >= wait)
          IN /\ shown \notin {None, Normal} /\ Candidate(Txn)
             /\ RaiseIssue(Txn.attempts >= Quick /\ (overdue \/ ready))
             /\ IF ready
                THEN pc' = "lock" /\ cmd' = RestoreCommand
                ELSE UNCHANGED <<pc, cmd>>
    /\ UNCHANGED <<mem, disk, saves, life, written, resent, evidence, asked, world>>

Restore_SilentWhenExhausted ==
    /\ Running /\ Txn # None /\ Txn.phase # "raised"
    /\ \/ /\ shown = None
          /\ RaiseIssue(Txn.left = -Grace)
          /\ UNCHANGED <<pc, cmd>>
       \/ LET overdue == resent = None \/ resent >= Confirm
              wait == IF Txn.attempts < Quick THEN Confirm ELSE Slow
              ready == Settled /\ (resent = None \/ resent >= wait)
          IN /\ shown \notin {None, Normal} /\ Candidate(Txn)
             /\ RaiseIssue(FALSE)
             /\ IF ready /\ Txn.attempts < MaxAttempts
                THEN pc' = "lock" /\ cmd' = RestoreCommand
                ELSE UNCHANGED <<pc, cmd>>
    /\ UNCHANGED <<mem, disk, saves, life, written, resent, evidence, asked, world>>

Restore ==
    /\ Running /\ Txn # None /\ Txn.phase # "raised"
    /\ \/ /\ shown = None
          /\ RaiseIssue(Txn.left = -Grace)
          /\ UNCHANGED <<pc, cmd>>
       \/ LET overdue == resent = None \/ resent >= Confirm
              wait == IF Txn.attempts < Quick THEN Confirm ELSE Slow
              ready == Settled /\ (resent = None \/ resent >= wait)
          IN /\ shown \notin {None, Normal} /\ Candidate(Txn)
             /\ RaiseIssue(Txn.attempts >= Quick /\ (overdue \/ ready))
             /\ IF ready /\ Txn.attempts < MaxAttempts
                THEN pc' = "lock" /\ cmd' = RestoreCommand
                ELSE UNCHANGED <<pc, cmd>>
    /\ UNCHANGED <<mem, disk, saves, life, written, resent, evidence, asked, world>>

-----------------------------------------------------------------------------
(* _write: revalidate under Controls.lock, then one bounded request. *)

WriteIdle == pc' = (IF life = "leaving" THEN "done" ELSE "idle")

\* What the callers of _write do when nothing was sent for sure.
NotWritten(result) ==
    IF Txn.phase = "raising"
    THEN /\ Finish(IF result = "conflict" /\ Txn.kind = "elevation" THEN Paused(mem) ELSE mem,
                   IF Txn.kind = "visitor" /\ result # "blocked" THEN "visitorOff" ELSE "saving")
         /\ UNCHANGED cmd
    ELSE IF result = "conflict"
    THEN Finish(Paused(mem), "saving") /\ UNCHANGED cmd
    ELSE /\ WriteIdle
         /\ UNCHANGED <<mem, disk, saves, life, cmd, written, resent, evidence, alerts, asked, world>>

\* The guard refuses anything but a recovery; or the target is not what the decision was made on.
Refuse ==
    /\ pc = "lock"
    /\ \/ (shown = None \/ ~cmd.recovery) /\ NotWritten("blocked")
       \/ shown # None /\ shown \notin cmd.expected /\ NotWritten("conflict")

Send ==
    /\ pc = "lock" /\ shown \in cmd.expected
    /\ pc' = "call"
    /\ written' = 0
    /\ mem' = [mem EXCEPT !.txn.writtenAt = 0]
    /\ raises' = raises + (IF Txn.kind = "elevation" /\ cmd.to = High /\ Txn.left = Shuts - tod
                           THEN 1 ELSE 0)
    /\ UNCHANGED <<bounds, disk, saves, life, cmd, resent, evidence, usable, alerts, asked,
                   tod, armed, zone, radio, shown>>

\* A hand that has set the target unseen makes this a simultaneous write.
InFlight ==
    radio \union {[val |-> cmd.to,
                    by |-> IF zone.by = "owner" /\ zone.val # shown THEN "both" ELSE "us"]}

\* Sent, or timed out and perhaps sent: in force until seen otherwise.
CallEnds ==
    /\ pc = "call"
    /\ radio' \in {radio, InFlight}
    /\ IF Txn.phase = "raising"
       THEN mem' = [mem EXCEPT !.txn.phase = "raised"] /\ UNCHANGED resent
       ELSE /\ mem' = [mem EXCEPT !.txn.attempts = @ + 1, !.txn.sentAt = 0]
            /\ resent' = 0
    /\ Saving("step", mem')
    /\ pc' = "saving"
    /\ UNCHANGED <<bounds, disk, life, cmd, written, evidence, alerts, asked,
                   tod, armed, zone, shown, raises, usable>>

\* ServiceValidationError: a refused restore counts as an attempt, a refused raise ends.
CallRejected ==
    /\ pc = "call"
    /\ IF Txn.phase = "raising"
       THEN NotWritten("rejected")
       ELSE /\ StepSaves([mem EXCEPT !.txn.attempts = @ + 1, !.txn.sentAt = 0])
            /\ resent' = 0
            /\ UNCHANGED <<disk, life, cmd, written, evidence, alerts, asked, world>>

-----------------------------------------------------------------------------
(* Visitor mode's switch and end time: not under the step lock. *)

SetVisitor ==
    /\ life = "up" /\ asked = None
    /\ \E choice \in bounds.choices :
        /\ choice # mem.visitor
        /\ choice = "off" \/ usable
        /\ mem' = [mem EXCEPT !.visitor = choice]
    /\ asked' = mem.visitor
    /\ Saving("visitor", mem')
    /\ UNCHANGED <<disk, life, pc, cmd, written, resent, evidence, alerts, world>>

VisitorSaved ==
    /\ asked # None
    /\ \E ok \in BOOLEAN :
        /\ Wrote("visitor", ok)
        /\ mem' = IF ok THEN mem ELSE [mem EXCEPT !.visitor = asked]
    /\ asked' = None
    /\ UNCHANGED <<life, pc, cmd, written, resent, evidence, alerts, world>>

-----------------------------------------------------------------------------
(* The world: charges, the radio, the owner, time, crashes. *)

\* Evidence.result has an outcome: the charge is complete, or cannot become so.
ChargeOver ==
    /\ life = "up" /\ Txn # None /\ Txn.phase = "raised" /\ evidence = "counting"
    /\ evidence' = "over"
    /\ UNCHANGED <<mem, disk, saves, life, pc, cmd, written, resent, alerts, asked, world>>

\* What is on its way meanwhile has become a simultaneous write, which nobody can tell apart.
OwnerSets ==
    /\ \E v \in bounds.hands \ {zone.val} : zone' = [val |-> v, by |-> "owner"]
    /\ radio' = {[r EXCEPT !.by = "both"] : r \in radio}
    /\ UNCHANGED <<bounds, mem, disk, saves, life, pc, cmd, written, resent, evidence, usable, alerts,
                   asked, tod, armed, shown, raises>>

Deliver ==
    /\ \E r \in radio : zone' = r /\ radio' = radio \ {r}
    /\ UNCHANGED <<bounds, mem, disk, saves, life, pc, cmd, written, resent, evidence, usable, alerts,
                   asked, tod, armed, shown, raises>>

Lose ==
    /\ "lost" \in Faults
    /\ \E r \in radio : radio' = radio \ {r}
    /\ UNCHANGED <<bounds, mem, disk, saves, life, pc, cmd, written, resent, evidence, usable, alerts,
                   asked, tod, armed, zone, shown, raises>>

Report ==
    /\ shown # zone.val
    /\ shown' = zone.val
    /\ UNCHANGED <<bounds, mem, disk, saves, life, pc, cmd, written, resent, evidence, usable, alerts,
                   asked, tod, armed, zone, radio, raises>>

Unavailable ==
    /\ "lost" \in Faults
    /\ shown # None
    /\ shown' = None
    /\ UNCHANGED <<bounds, mem, disk, saves, life, pc, cmd, written, resent, evidence, usable, alerts,
                   asked, tod, armed, zone, radio, raises>>

Lapsed(data) == [data EXCEPT !.visitor = IF @ = "timed" THEN "past" ELSE @]

VisitorTimePasses ==
    /\ Lapsed(disk) # disk \/ Lapsed(mem) # mem
    /\ saves = <<>>
    /\ disk' = Lapsed(disk) /\ mem' = Lapsed(mem)
    /\ UNCHANGED <<saves, life, pc, cmd, written, resent, evidence, alerts, asked, world>>

AgeTxn(t) ==
    IF t = None THEN None
    ELSE [t EXCEPT !.left = IF @ \in {-Grace, Never} THEN @ ELSE @ - 1,
                   !.writtenAt = Older(@, Settle), !.sentAt = Older(@, Slow)]

Aged(data, midnight) == [data EXCEPT !.txn = AgeTxn(@), !.consumed = @ /\ ~midnight]

\* A tick is longer than a call, a save, and the time within which the radio and the
\* controller's reports have settled; the wait for Controls.lock may be longer.
Tick ==
    /\ radio = {} /\ shown \in {zone.val, None}
    /\ saves = <<>> /\ pc \in {"idle", "lock", "done"}
    /\ LET midnight == tod = DayLength - 1
       IN /\ tod' = (tod + 1) % DayLength
          /\ mem' = Aged(mem, midnight) /\ disk' = Aged(disk, midnight)
          /\ armed' = (armed \/ (midnight /\ life # "down"))
          /\ raises' = IF midnight THEN 0 ELSE raises
    /\ written' = Older(written, Settle) /\ resent' = Older(resent, Slow)
    /\ UNCHANGED <<bounds, saves, life, pc, cmd, evidence, usable, alerts, asked, zone, radio, shown>>

\* The clock repeats an hour of the same local date.
Earlier(age, n) == IF age = None THEN None ELSE IF age > n THEN age - n ELSE 0

ClockBack ==
    /\ "back" \in Faults
    /\ tod = Shuts /\ saves = <<>>
    /\ LET n == Shuts - Opens
           back(data) == IF data.txn = None THEN data
                         ELSE [data EXCEPT !.txn.left = IF @ = Never THEN @ ELSE @ + n,
                                           !.txn.writtenAt = Earlier(@, n),
                                           !.txn.sentAt = Earlier(@, n)]
       IN tod' = tod - n /\ mem' = back(mem) /\ disk' = back(disk)
    /\ UNCHANGED <<bounds, saves, life, pc, cmd, written, resent, evidence, usable, alerts,
                   asked, armed, zone, radio, shown, raises>>

\* A write under way may be complete; a call under way may have been sent.
Crash ==
    /\ "crash" \in Faults
    /\ life # "down"
    /\ life' = "down" /\ pc' = "idle" /\ cmd' = None /\ saves' = <<>> /\ asked' = None
    /\ disk' \in (IF saves = <<>> THEN {disk} ELSE {disk, Head(saves).data})
    /\ mem' = disk'
    /\ written' = None /\ resent' = None /\ evidence' = "none"
    /\ issue' = FALSE /\ repair' = FALSE
    /\ radio' \in (IF pc = "call" THEN {radio, InFlight} ELSE {radio})
    /\ UNCHANGED <<bounds, tod, armed, zone, shown, raises, usable>>

-----------------------------------------------------------------------------
Step ==
    \/ Baseline \/ Elevate \/ OpenVisitor \/ VisitorExpires \/ ConvertVisitor \/ VisitorEnded
    \/ VisitorForeign \/ ElevationEnds \/ RestoreSeen \/ RestoreForeign \/ Restore

Continue ==
    \/ SaveIgnored \/ IntentSaved \/ IntentNotSaved \/ VisitorGivesWay
    \/ Refuse \/ Send \/ CallEnds \/ CallRejected
    \/ Initialise \/ StopTakes \/ StopRestores \/ Close

World ==
    \/ Stop \/ SetVisitor \/ VisitorSaved \/ ChargeOver \/ OwnerSets \/ Deliver \/ Lose \/ Report \/ Unavailable
    \/ VisitorTimePasses \/ Tick \/ ClockBack \/ Crash

Next == Step \/ Continue \/ World

Spec == Init /\ [][Next]_vars

\* The event loop: steps run, awaits return.  Time passes, and what is shown settles.
FairSpec ==
    /\ Spec
    /\ WF_vars(Step) /\ WF_vars(Continue) /\ WF_vars(VisitorSaved) /\ SF_vars(Send)
    /\ WF_vars(Deliver \/ Lose) /\ SF_vars(Report) /\ SF_vars(Tick)

-----------------------------------------------------------------------------
TypeOK ==
    /\ mem \in Stored /\ disk \in Stored
    /\ \A i \in DOMAIN saves : saves[i].who \in {"step", "visitor"} /\ saves[i].data \in Stored
    /\ Len(saves) <= 2
    /\ life \in {"down", "up", "stopping", "leaving"}
    /\ pc \in {"idle", "intent", "lock", "call", "saving", "visitorOff", "stopping", "done"}
    /\ cmd \in [to : {Normal, High}, expected : SUBSET Targets, recovery : BOOLEAN] \union {None}
    /\ written \in Ages(Settle) /\ resent \in Ages(Slow)
    /\ evidence \in {"none", "counting", "over"}
    /\ {issue, repair, usable, armed} \subseteq BOOLEAN
    /\ asked \in {"off", "open", "timed", "past", None}
    /\ tod \in 0..(DayLength - 1) /\ raises \in Nat
    /\ zone \in [val : Targets, by : {"us", "owner", "both"}]
    /\ radio \subseteq [val : {Normal, High}, by : {"us", "both"}] /\ shown \in Targets \union {None}

Recorded(data) == data.txn # None /\ High \in Candidates(data.txn)

\* A target we have raised, or are raising, is in a saved transaction that will restore it,
\* whatever fails and whenever the process dies.  Where somebody sets the target while a
\* command is on its way, the documented limit applies (docs/control-configuration.md).
RaisedIsRecorded ==
    [val |-> High, by |-> "us"] \in radio \union {zone} =>
        Recorded(disk) /\ (life # "down" => Recorded(mem))

\* "Each date is used at most once" (docs/control-configuration.md): across restarts, failed
\* saves, sessions that end early and a clock that repeats.
OneRaisePerDay == raises <= 1

\* What is to be restored is seen restored, found in other hands, or reported to the owner.
RestoreEnds ==
    (life = "up" /\ Txn # None /\ Txn.phase = "restoring") ~>
        (Txn = None \/ issue \/ life # "up")

\* A repair is open only while there is something to restore.
RepairIsReal == repair => Txn # None
=============================================================================
