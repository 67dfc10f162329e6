------------------------------ MODULE AntiCycle ------------------------------
(***************************************************************************)
(* The boiler's minimum burn period, lowered for a charge or a catch-up    *)
(* and put back (control/boiler/coordinator.py, "DHW anti-cycle override"; *)
(* control/boiler/dhw_policy.py).                                          *)
(*                                                                         *)
(* Periods are small numbers.  A cycle is one action, but for the one      *)
(* point where it leaves something behind: the pending flag is saved       *)
(* before the lower value is sent (`sending`).  A request for a     *)
(* refresh runs a cycle of its own, so no time need pass between two.      *)
(***************************************************************************)
EXTENDS Integers, FiniteSets

CONSTANTS
    None,
    Entities,     \* number entities that hold a minimum burn period
    Periods,      \* its values
    Wanted,       \* anticycle_minutes and catchup_minutes: [dhw |-> ., catchup |-> .]
    Confirm,      \* minutes for a write to be shown
    OffWait,      \* minutes without a charge before the value is put back
    TryAgain,     \* minutes after a write that failed
    MaxFaults,    \* bound: lost calls, failed saves
    MaxChanges    \* bound: edits of the options, changes by hand, restarts

AntiCycleAssumption ==
    /\ Periods \subseteq Nat /\ {Wanted.dhw, Wanted.catchup} \subseteq Periods
    /\ {Confirm, OffWait, TryAgain, MaxFaults, MaxChanges} \subseteq Nat
    /\ None \notin Nat /\ None \notin Entities /\ None \notin {"dhw", "catchup"}

VARIABLES
    number,   \* external: the value of each entity
    options,  \* anticycle_entity, and which of the two aids is on
    call,     \* external: what asks for the lower value: "dhw", "catchup" or None
    auto,     \* the boiler is enabled and in auto
    guard,    \* write_guard: "starting" until Controls.start, then "open" or "shut"
    memory,   \* anticycle_pending, _normal and _entity in the store
    disk,     \* the same, as last saved
    ready,    \* ControlStore.ready
    ac,       \* the _ac_ fields
    sending,  \* the lower value about to be sent, its normal one saved; or None
    normal,   \* history: the value each entity had when it was lowered; None when it is not
    faults,
    changes

anticycleVars == <<number, options, call, auto, guard, memory, disk, ready, ac, sending, normal,
                   faults, changes>>

Fresh == [expected |-> None, age |-> 0, retried |-> FALSE, restoring |-> FALSE, first |-> TRUE,
          wait |-> 0, off |-> None, sent |-> FALSE]
Unset == [pending |-> FALSE, normal |-> None, entity |-> None]

Init ==
    /\ number \in [Entities -> Periods]
    /\ \E e \in Entities : options = [entity |-> e, dhw |-> TRUE, catchup |-> TRUE]
    /\ call = None /\ auto = FALSE /\ guard = "starting"
    /\ memory = Unset /\ disk = Unset /\ ready = TRUE
    /\ ac = Fresh /\ sending = None
    /\ normal = [e \in Entities |-> None]
    /\ faults = 0 /\ changes = 0

-----------------------------------------------------------------------------
(* What a cycle starts from. *)

Lesser(a, b) == IF a <= b THEN a ELSE b

Enabled == options.dhw \/ options.catchup
Entity == IF Enabled THEN options.entity ELSE memory.entity

\* The charge comes before the catch-up; each counts when its aid is on.
Want == IF call = "dhw" /\ options.dhw THEN Wanted.dhw
        ELSE IF call = "catchup" /\ options.catchup THEN Wanted.catchup ELSE None

\* The ages at the start of a cycle `minutes` after the last one; None stays None.
Aged(minutes) ==
    [ac EXCEPT !.age = Lesser(@ + minutes, Confirm),
               !.wait = IF @ <= minutes THEN 0 ELSE @ - minutes,
               !.off = IF @ = None THEN None ELSE Lesser(@ + minutes, OffWait),
               !.first = FALSE]

\* "Confirm or retry the last write": the record afterwards, what is pending, and the step.
Checked(a, current) ==
    IF a.expected = None THEN [ac |-> a, pending |-> memory.pending, step |-> "none"]
    ELSE IF current = a.expected
         THEN [ac |-> [a EXCEPT !.expected = None, !.restoring = FALSE],
               pending |-> memory.pending /\ ~a.restoring, step |-> "save"]
    ELSE IF a.age < Confirm THEN [ac |-> a, pending |-> memory.pending, step |-> "none"]
    ELSE IF ~a.retried
         THEN [ac |-> [a EXCEPT !.retried = TRUE], pending |-> memory.pending, step |-> "retry"]
    ELSE [ac |-> [a EXCEPT !.expected = None, !.wait = TryAgain],
          pending |-> memory.pending, step |-> "none"]

-----------------------------------------------------------------------------
(* Writes and saves. *)

Fault == faults < MaxFaults /\ faults' = faults + 1

\* can_write("boiler"): Controls.start has run, the stores are sound, nothing else is in the way.
GuardOpen == guard = "open" /\ ready

\* One number.set_value.  A call that fails may have reached the boiler, one that succeeds
\* may not have.  `base` is what the value is lowered from.
Write(e, value, base, a) ==
    \/ /\ GuardOpen
       /\ number' = [number EXCEPT ![e] = value]
       /\ normal' = [normal EXCEPT ![e] = IF @ = None /\ value < base THEN base
                                          ELSE IF value = @ THEN None ELSE @]
       /\ \/ ac' = [a EXCEPT !.expected = value, !.age = 0, !.sent = TRUE] /\ UNCHANGED faults
          \/ ac' = [a EXCEPT !.wait = TryAgain, !.sent = TRUE] /\ Fault
    \/ /\ GuardOpen /\ Fault
       /\ ac' \in {[a EXCEPT !.expected = value, !.age = 0, !.sent = TRUE],
                   [a EXCEPT !.wait = TryAgain, !.sent = TRUE]}
       /\ UNCHANGED <<number, normal>>
    \/ ~GuardOpen /\ ac' = [a EXCEPT !.wait = TryAgain] /\ UNCHANGED <<number, normal, faults>>

\* The one retry of an unconfirmed write.  When it cannot be sent nothing is recorded, and the
\* next cycle gives the write up.
Retry(a) ==
    \/ GuardOpen /\ ac' = [a EXCEPT !.age = 0, !.sent = TRUE]
       /\ \/ number' = [number EXCEPT ![Entity] = a.expected] /\ UNCHANGED faults
          \/ Fault /\ UNCHANGED number
       /\ normal' = [normal EXCEPT ![Entity] =
                        IF number'[Entity] = memory.normal THEN None
                        ELSE IF number'[Entity] = a.expected THEN memory.normal ELSE @]
    \/ ac' = a /\ UNCHANGED <<number, normal>> /\ (IF GuardOpen THEN Fault ELSE UNCHANGED faults)

\* async_save of the store; one that fails closes it for good, and ends the cycle there.
SaveOf(m) ==
    /\ memory' = m
    /\ \/ ready /\ disk' = m /\ UNCHANGED <<ready, faults>>
       \/ ready /\ Fault /\ ready' = FALSE /\ UNCHANGED disk
       \/ ~ready /\ UNCHANGED <<disk, ready, faults>>

Unsaved(m) == memory' = m /\ disk' = (IF ready THEN m ELSE disk) /\ UNCHANGED ready

world == <<options, call, auto, guard, changes>>

-----------------------------------------------------------------------------
(* _dhw_anticycle, at the end of every control cycle of the boiler. *)

\* The value is lowered only from auto, and only when no write of ours is open.
LowerDue(a, target, current) ==
    a.expected = None /\ a.wait = 0 /\ auto /\ current # None /\ current # target

Target_AsConfigured(m, current) == Want

Target(m, current) ==
    IF m.pending THEN (IF m.normal = None THEN Want ELSE Lesser(Want, m.normal))
    ELSE IF current = None THEN Want ELSE Lesser(Want, current)

\* Nothing to lower, nothing to put back: the value shown is the normal one.
Learn(m, a, current) ==
    /\ UNCHANGED <<number, normal, sending>>
    /\ ac' = a
    /\ IF Enabled /\ a.expected = None /\ current # None /\ m.normal # current
       THEN SaveOf([m EXCEPT !.normal = current, !.entity = Entity])
       ELSE Unsaved(m) /\ UNCHANGED faults

\* A first lowering is recorded, and saved, before it is sent.
Lower(m, a, current) ==
    LET target == Target(m, current)
        free == [a EXCEPT !.off = None, !.retried = FALSE, !.restoring = FALSE]
    IN IF ~LowerDue(a, target, current)
       THEN /\ ac' = [a EXCEPT !.off = None]
            /\ Unsaved(m) /\ UNCHANGED <<number, normal, sending, faults>>
       ELSE IF m.pending
       THEN Unsaved(m) /\ UNCHANGED sending /\ Write(Entity, target, m.normal, free)
       ELSE /\ SaveOf([pending |-> TRUE, normal |-> current, entity |-> Entity])
            /\ sending' = IF ready' THEN target ELSE None
            /\ ac' = [a EXCEPT !.off = None]
            /\ UNCHANGED <<number, normal>>

\* The second half of a first lowering.
SendLower ==
    /\ sending # None
    /\ Write(memory.entity, sending, number[memory.entity],
             [ac EXCEPT !.retried = FALSE, !.restoring = FALSE])
    /\ sending' = None
    /\ UNCHANGED <<world, memory, disk, ready>>

\* Put back after OffWait, or in the first cycle of a new instance.
PutBack(m, a, current, first) ==
    LET since == [a EXCEPT !.off = IF @ = None THEN 0 ELSE @] IN
    /\ UNCHANGED sending
    /\ IF a.expected # None \/ a.wait > 0 \/ ~(first \/ since.off >= OffWait)
       THEN ac' = since /\ Unsaved(m) /\ UNCHANGED <<number, normal, faults>>
       ELSE IF current = m.normal
       THEN /\ ac' = since
            /\ SaveOf([m EXCEPT !.pending = FALSE]) /\ UNCHANGED <<number, normal>>
       ELSE /\ Unsaved(m)
            /\ Write(Entity, m.normal, m.normal,
                     [since EXCEPT !.retried = FALSE, !.restoring = TRUE])

Decide(m, a, current, first) ==
    IF Want # None THEN Lower(m, a, current)
    ELSE IF m.pending THEN PutBack(m, a, current, first)
    ELSE Learn(m, a, current)

\* A confirmation is saved at once, and a save that fails ends the cycle.  The reading of the
\* number can be missing.
CycleAfter(minutes, current) ==
    /\ sending = None
    /\ Enabled \/ memory.pending
    /\ LET seen == Checked(Aged(minutes), current)
           m == [memory EXCEPT !.pending = seen.pending]
           off == CASE Want # None -> None
                    [] Want = None /\ m.pending /\ seen.ac.off = None -> 0
                    [] OTHER -> seen.ac.off
       IN \/ /\ seen.step = "retry"
             /\ Retry([seen.ac EXCEPT !.off = off])
             /\ Unsaved(m) /\ UNCHANGED sending
          \/ /\ seen.step = "save"
             /\ \/ ready /\ Fault
                \/ ~ready /\ UNCHANGED faults
             /\ memory' = m /\ ac' = seen.ac /\ ready' = FALSE
             /\ UNCHANGED <<disk, number, normal, sending>>
          \/ /\ seen.step # "retry"
             /\ seen.step = "save" => ready
             /\ Decide(m, seen.ac, current, ac.first)
    /\ UNCHANGED world

Reading == IF Entity = None THEN None ELSE number[Entity]

Cycle == \E minutes \in 0..1 : \E current \in {Reading, None} : CycleAfter(minutes, current)

\* Neither aid is on and nothing is pending.
CycleDisabled ==
    /\ sending = None /\ ~Enabled /\ ~memory.pending
    /\ ac' = [ac EXCEPT !.first = FALSE]
    /\ UNCHANGED <<world, number, memory, disk, ready, sending, normal, faults>>

-----------------------------------------------------------------------------
(* The rest of the program, the household, restarts. *)

\* A charge or a catch-up begins, turns into the other, or ends.
CallChanges ==
    /\ call' \in {"dhw", "catchup", None} \ {call}
    /\ UNCHANGED <<number, options, auto, guard, memory, disk, ready, ac, sending, normal, faults,
                   changes>>

\* Controls.start opens the guard and puts the modes back.  The first refresh of the boiler
\* runs before, in Controls.initialise; without a readable flow setpoint it returns early.
Started ==
    /\ guard = "starting"
    /\ guard' = "open" /\ auto' \in BOOLEAN
    /\ UNCHANGED <<number, options, call, memory, disk, ready, ac, sending, normal, faults, changes>>

Change == changes < MaxChanges /\ changes' = changes + 1

\* The mode switches; a legacy controller or an automation closes the guard for a while.
ModeChanges ==
    /\ guard # "starting" /\ Change
    /\ \/ auto' = ~auto /\ UNCHANGED guard
       \/ guard' \in {"open", "shut"} \ {guard} /\ UNCHANGED auto
    /\ UNCHANGED <<number, options, call, memory, disk, ready, ac, sending, normal, faults>>

\* The owner sets the number; what he sets while it is not lowered is its normal value.
OwnerSets ==
    /\ Change
    /\ \E e \in Entities : \E p \in Periods \ {number[e]} :
        /\ normal[e] = None => sending = None
        /\ number' = [number EXCEPT ![e] = p]
        /\ normal' = [normal EXCEPT ![e] = IF @ = p THEN None ELSE @]
    /\ UNCHANGED <<options, call, auto, guard, memory, disk, ready, ac, sending, faults>>

NewInstance ==
    /\ memory' = disk /\ ready' = TRUE /\ ac' = Fresh /\ sending' = None
    /\ guard' = "starting" /\ auto' = FALSE

Restart == Change /\ NewInstance /\ UNCHANGED <<number, options, call, disk, normal, faults>>

\* Saved options reload the entry; one aid, or both, are turned on or off.
Toggled ==
    /\ Change /\ NewInstance
    /\ \E d, c \in BOOLEAN : options' = [options EXCEPT !.dhw = d, !.catchup = c]
    /\ options' # options
    /\ UNCHANGED <<number, call, disk, normal, faults>>

\* Saved options name another entity.
EntityChosen ==
    /\ Change /\ NewInstance
    /\ \E e \in Entities \ {options.entity} : options' = [options EXCEPT !.entity = e]
    /\ UNCHANGED <<number, call, disk, normal, faults>>

Next ==
    \/ Cycle \/ SendLower \/ CycleDisabled
    \/ CallChanges \/ Started \/ ModeChanges \/ OwnerSets \/ Restart \/ Toggled

\* With a change of the entity in the options.
NextChosen == Next \/ EntityChosen

Spec == Init /\ [][Next]_anticycleVars
SpecChosen == Init /\ [][NextChosen]_anticycleVars

\* A cycle runs every minute and the number is read; a lower value recorded is sent.
FairSpec == Spec /\ WF_anticycleVars(CycleAfter(1, Reading)) /\ WF_anticycleVars(SendLower)

-----------------------------------------------------------------------------
PeriodOrNone == Periods \union {None}
Record == [pending : BOOLEAN, normal : PeriodOrNone, entity : Entities \union {None}]

TypeOK ==
    /\ number \in [Entities -> Periods] /\ normal \in [Entities -> PeriodOrNone]
    /\ options \in [entity : Entities, dhw : BOOLEAN, catchup : BOOLEAN]
    /\ call \in {"dhw", "catchup", None} /\ auto \in BOOLEAN
    /\ guard \in {"starting", "open", "shut"}
    /\ memory \in Record /\ disk \in Record /\ ready \in BOOLEAN
    /\ ac \in [expected : PeriodOrNone, age : 0..Confirm, retried : BOOLEAN, restoring : BOOLEAN,
               first : BOOLEAN, wait : 0..TryAgain, off : (0..OffWait) \union {None},
               sent : BOOLEAN]
    /\ sending \in PeriodOrNone
    /\ faults \in 0..MaxFaults /\ changes \in 0..MaxChanges

\* "The remembered normal value and a pending-restore flag are persisted, so a restart in the
\* middle of either still restores it": a period we have lowered is on disk, with the value to
\* put back, whatever is lost, refused, unsaved or restarted, and changed by hand meanwhile.
LoweredIsRecorded ==
    \A e \in Entities : normal[e] # None =>
        disk.pending /\ disk.entity = e /\ disk.normal = normal[e]

\* "It is only ever lowered, never raised above the normal value": not by a retry, a move from
\* one lower value to the other, or a restore, whoever else sets the number in between.
NeverRaised ==
    [][\A e \in Entities : number'[e] > number[e] /\ changes' = changes =>
           disk.pending /\ number'[e] <= disk.normal]_anticycleVars

\* Once nothing asks for the lower value and writes are allowed, the normal one comes back, with
\* no more calls lost than the bound and whatever was open when the charge ended.
Quiet == call = None /\ guard = "open" /\ ready
RestoreEnds == <>[]Quiet => <>[](\A e \in Entities : normal[e] = None)

\* "After a restart HHO restores it straight away unless a charge is running"
\* (docs/control-configuration.md): it does not wait for anything before it has tried.
RestoredAtOnce ==
    Quiet /\ (\E e \in Entities : normal[e] # None) => ac.wait = 0 \/ ac.sent
=============================================================================
