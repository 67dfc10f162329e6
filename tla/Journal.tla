------------------------------- MODULE Journal -------------------------------
(***************************************************************************)
(* The intervention journal (journal/coordinator.py, journal/store.py):    *)
(* events are recorded synchronously and saved later, by a timer that the  *)
(* first unsaved event starts and that backs off when saves fail.          *)
(*                                                                         *)
(* An event is a number; what is stored is the events kept, oldest first.  *)
(***************************************************************************)
EXTENDS Integers, Sequences, FiniteSets

CONSTANTS
    MaxEvents,        \* MAX_EVENTS
    MaxSaveFailures,  \* MAX_SAVE_FAILURES
    Recorded          \* bound: events recorded in a behaviour

JournalAssumption ==
    /\ {MaxEvents, MaxSaveFailures, Recorded} \subseteq Nat
    /\ 0 < MaxEvents /\ 0 < MaxSaveFailures

VARIABLES
    events,      \* JournalStore.events
    journaled,   \* the events in the file
    journal,     \* status, dirty, generation, _save_failures, _save_cancel (timer), closed
    writes,      \* saves in the order of the store's lock: who, the copy made, its generation
    flushes,     \* calls of _flush waiting for the lock: "timer" or "stop"
    count        \* events recorded so far

journalVars == <<events, journaled, journal, writes, flushes, count>>

Init ==
    /\ events = <<>> /\ journaled = <<>>
    /\ journal = [status |-> "ready", dirty |-> FALSE, generation |-> 0, failures |-> 0,
                  timer |-> FALSE, closed |-> FALSE]
    /\ writes = <<>> /\ flushes = <<>> /\ count = 0

Limited_KeepsAll(es) == es

\* limit: the newest MAX_EVENTS.
Limited(es) == IF Len(es) > MaxEvents THEN SubSeq(es, Len(es) - MaxEvents + 1, Len(es)) ELSE es

\* record, append, _schedule_save: a timer that runs is left running.
Record ==
    /\ ~journal.closed /\ journal.status # "storage_read_only" /\ count < Recorded
    /\ count' = count + 1
    /\ events' = Limited(Append(events, count'))
    /\ journal' = [journal EXCEPT !.dirty = TRUE, !.generation = @ + 1, !.timer = TRUE]
    /\ UNCHANGED <<journaled, writes, flushes>>

\* prune: retention drops the oldest events.
Prune(k) == SubSeq(events, k + 1, Len(events))

\* _flush up to the save; without anything to save it ends here.
Flush(who, before) ==
    /\ \E k \in 0..Len(events) :
        /\ events' = Prune(k)
        /\ journal' = [before EXCEPT !.dirty = @ \/ k > 0,
                                     !.generation = @ + (IF k > 0 THEN 1 ELSE 0)]
    /\ flushes' = IF journal'.dirty /\ journal'.status # "storage_read_only"
                  THEN Append(flushes, who) ELSE flushes

TimerFires ==
    /\ journal.timer
    /\ Flush("timer", [journal EXCEPT !.timer = FALSE])
    /\ UNCHANGED <<journaled, writes, count>>

\* stop, at shutdown or by the unload: the timer is cancelled and what is unsaved saved now.
Stop ==
    /\ ~journal.closed
    /\ Flush("stop", [journal EXCEPT !.closed = TRUE, !.timer = FALSE])
    /\ UNCHANGED <<journaled, writes, count>>

\* save has the lock and copies the events.
Copy ==
    /\ writes = <<>> /\ flushes # <<>>
    /\ writes' = <<[who |-> Head(flushes), data |-> events, generation |-> journal.generation]>>
    /\ flushes' = Tail(flushes)
    /\ UNCHANGED <<events, journaled, journal, count>>

\* What _flush does after the save, written or not.
AfterSave_ClearsDirty(saved) ==
    LET j == [journal EXCEPT !.status = IF saved THEN "ready" ELSE "save_failed",
                             !.dirty = @ /\ ~saved]
        failing == j.dirty /\ ~j.closed /\ ~saved
    IN [j EXCEPT !.failures = IF saved THEN 0 ELSE @ + (IF failing THEN 1 ELSE 0),
                 !.timer = @ \/ (j.dirty /\ ~j.closed /\ (saved \/ j.failures + 1 < MaxSaveFailures))]

AfterSave(saved) ==
    LET j == [journal EXCEPT !.status = IF saved THEN "ready" ELSE "save_failed",
                             !.dirty = @ /\ ~(saved /\ journal.generation = Head(writes).generation)]
        failing == j.dirty /\ ~j.closed /\ ~saved
    IN [j EXCEPT !.failures = IF saved THEN 0 ELSE @ + (IF failing THEN 1 ELSE 0),
                 !.timer = @ \/ (j.dirty /\ ~j.closed /\ (saved \/ j.failures + 1 < MaxSaveFailures))]

SaveEnds ==
    /\ writes # <<>>
    /\ \E saved \in BOOLEAN :
        /\ journal' = AfterSave(saved)
        /\ journaled' = IF saved THEN Head(writes).data ELSE journaled
    /\ writes' = <<>>
    /\ UNCHANGED <<events, flushes, count>>

\* The next instance loads the file; one that cannot be read is left alone.
Load ==
    /\ journal.closed /\ writes = <<>> /\ flushes = <<>>
    /\ \E readable \in BOOLEAN :
        /\ events' = IF readable THEN journaled ELSE <<>>
        /\ journal' = [status |-> IF readable THEN "ready" ELSE "storage_read_only",
                       dirty |-> FALSE, generation |-> 0, failures |-> 0, timer |-> FALSE,
                       closed |-> FALSE]
    /\ UNCHANGED <<journaled, writes, flushes, count>>

Crash ==
    /\ journal' = [journal EXCEPT !.closed = TRUE, !.timer = FALSE, !.dirty = FALSE]
    /\ events' = journaled
    /\ writes' = <<>> /\ flushes' = <<>>
    /\ UNCHANGED <<journaled, count>>

Next == Record \/ TimerFires \/ Stop \/ Copy \/ SaveEnds \/ Load \/ Crash

Spec == Init /\ [][Next]_journalVars

-----------------------------------------------------------------------------
TypeOK ==
    /\ events \in Seq(1..Recorded) /\ Len(events) <= MaxEvents
    /\ journaled \in Seq(1..Recorded) /\ Len(journaled) <= MaxEvents
    /\ journal \in [status : {"ready", "save_failed", "storage_read_only"}, dirty : BOOLEAN,
                    generation : Nat, failures : Nat, timer : BOOLEAN, closed : BOOLEAN]
    /\ Len(writes) <= 1 /\ flushes \in Seq({"timer", "stop"})
    /\ count \in 0..Recorded

InWriting == writes # <<>> \/ flushes # <<>>

\* An event that is in memory only is being saved, waits for a timer, or for the next event
\* after MAX_SAVE_FAILURES: those recorded while a save was under way too.
NothingForgotten ==
    ~journal.closed /\ journal.status # "storage_read_only" /\ events # journaled =>
        InWriting \/ journal.timer \/ journal.failures >= MaxSaveFailures

\* Once the journal has stopped, whatever it had recorded is in the file, unless the save failed.
StopSaves ==
    journal.closed /\ ~InWriting /\ journal.status = "ready" => journaled = events
=============================================================================
