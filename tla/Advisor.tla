------------------------------- MODULE Advisor -------------------------------
(***************************************************************************)
(* The heating advisor (advisor/coordinator.py): reviews and follow-up     *)
(* questions, each one call of an AI provider that costs money, within a   *)
(* rolling limit; scheduled reviews; notifications.  A review is split     *)
(* where it awaits: another caller, a failing save, a restart or a reload  *)
(* may come between any two of its steps.                                  *)
(*                                                                         *)
(* A report is known by its number, and what it says is left out.          *)
(***************************************************************************)
EXTENDS Integers, FiniteSets, Sequences

CONSTANTS
    None,
    Tasks,        \* TASKS that may be scheduled
    FollowUp,     \* FOLLOWUP_TASK
    Day,          \* a day's length; the unit is the minimum gap between calls
    Hour,         \* the units of a day that make up schedule_hour
    MaxCalls,     \* max_calls_per_day
    MaxReports,   \* MAX_REPORTS
    Horizon,      \* bound on the clock
    MaxRestarts,  \* bound
    MaxFailures   \* bound: saves that fail

VARIABLES
    now,
    data,      \* Advisor.data: [attempts, scheduled, reports, failed]
    disk,      \* what the store holds
    ready,     \* storage_ready
    work,      \* the review under way, see Review, or None
    pending,   \* schedule_task before it runs: its task and day, or None
    calls,     \* history: the calls of the provider in their order, each with the time at
               \* which its review was begun and the time at which it was made
    reviewed,  \* history: calls for the scheduled review of a task, by day
    told,      \* history: alerts of a task's failures, by day
    restarts, failures

advisorVars ==
    <<now, data, disk, ready, work, pending, calls, reviewed, told, restarts,
      failures>>

Least(a, b) == IF a <= b THEN a ELSE b
Last(n, S) == {x \in S : Cardinality({y \in S : y > x}) < n}

Today == now \div Day
Days == 0..Horizon \div Day
Numbers == 1..Horizon + 1
Review == [task : Tasks \cup {FollowUp}, key : Days \cup {None}, at : 0..Horizon,
           stage : {"refresh", "saving", "calling", "storing", "telling", "failing", "sending"}]

Request == [task : Tasks, key : Days]
MadeCall == [at : 0..Horizon, made : 0..Horizon]

AdvisorAssumption ==
    /\ Day \in Nat \ {0} /\ Hour \subseteq 0..Day - 1 /\ FollowUp \notin Tasks
    /\ {MaxCalls, MaxReports} \subseteq Nat \ {0}
    /\ {Horizon, MaxRestarts, MaxFailures} \subseteq Nat
    /\ None \notin Nat /\ None \notin Review /\ None \notin Request

\* last: the last report that was announced; failed: the day of the last alert of each task.
DataSet ==
    [attempts : SUBSET (0..Horizon), scheduled : [Tasks -> Days \cup {None}],
     reports : SUBSET Numbers, last : Numbers \cup {None}, failed : [Tasks -> Days \cup {None}]]

Fresh ==
    [attempts |-> {}, scheduled |-> [t \in Tasks |-> None], reports |-> {}, last |-> None,
     failed |-> [t \in Tasks |-> None]]

Init ==
    /\ now = 0 /\ data = Fresh /\ disk = Fresh /\ ready = TRUE /\ work = None /\ pending = None
    /\ calls = <<>>
    /\ reviewed = [t \in Tasks |-> [d \in Days |-> 0]]
    /\ told = [t \in Tasks |-> [d \in Days |-> 0]]
    /\ restarts = 0 /\ failures = 0

-----------------------------------------------------------------------------
(* Starting *)

\* gate: one at a time, the store in order, the limit and the gap kept.  Whether the profile
\* is ready, and for a review the analytics, is the caller's luck.
Recent == {t \in data.attempts : t > now - Day}
Gate ==
    /\ work = None /\ ready
    /\ Cardinality(Recent) < MaxCalls
    /\ now \notin Recent

\* key: the day of a scheduled review, None of another.
Begin(task, key) ==
    work' = [task |-> task, key |-> key, at |-> now,
             stage |-> IF task = FollowUp THEN "saving" ELSE "refresh"]

\* What execute does first of all, for a follow-up: there is no refresh, so the attempt is
\* counted at once.
Counted == [data EXCEPT !.attempts = Recent \cup {now}]

Ask ==
    /\ Gate /\ data.reports # {}
    /\ Begin(FollowUp, None)
    /\ data' = Counted
    /\ UNCHANGED <<now, disk, ready, pending, calls, reviewed, told, restarts,
                   failures>>

Run ==
    /\ Gate
    /\ \E t \in Tasks : Begin(t, None)
    /\ UNCHANGED <<now, data, disk, ready, pending, calls, reviewed, told, restarts,
                   failures>>

\* schedule, each minute of the hour; scheduled_run starts later, and may be refused.
Due(t) == now % Day \in Hour /\ data.scheduled[t] # Today
Schedule ==
    /\ work = None /\ pending = None
    /\ \E t \in Tasks : Due(t) /\ pending' = [task |-> t, key |-> Today]
    /\ UNCHANGED <<now, data, disk, ready, work, calls, reviewed, told, restarts,
                   failures>>
ScheduledRun ==
    /\ pending # None /\ pending' = None
    /\ IF Gate THEN Begin(pending.task, pending.key) ELSE UNCHANGED work
    /\ UNCHANGED <<now, data, disk, ready, calls, reviewed, told, restarts, failures>>
ScheduledRunRefused ==
    /\ pending # None /\ pending' = None
    /\ UNCHANGED <<now, data, disk, ready, work, calls, reviewed, told, restarts,
                   failures>>

-----------------------------------------------------------------------------
(* The work, one step per await *)

At(stage) == work # None /\ work.stage = stage
Goes(stage) == work' = [work EXCEPT !.stage = stage]

\* The analytics are refreshed and the evidence is built: the attempt and the day are noted.
\* The attempts are those seen at the gate.
Noted(d) ==
    [d EXCEPT !.attempts = {t \in @ : t > work.at - Day} \cup {work.at},
              !.scheduled = IF work.key # None THEN [@ EXCEPT ![work.task] = work.key] ELSE @]
Refreshed ==
    /\ At("refresh")
    /\ data' = Noted(data) /\ Goes("saving")
    /\ UNCHANGED <<now, disk, ready, pending, calls, reviewed, told, restarts,
                   failures>>

\* The refresh, the evidence or the profile is no good any more.
Unfit ==
    /\ At("refresh") \/ At("saving")
    /\ IF work.task = FollowUp THEN work' = None ELSE Goes("failing")
    /\ UNCHANGED <<now, data, disk, ready, pending, calls, reviewed, told, restarts,
                   failures>>

\* persist.
SaveFails ==
    /\ failures < MaxFailures /\ failures' = failures + 1
    /\ ready' = FALSE /\ work' = None /\ UNCHANGED disk

\* call_profile: the provider is called with the attempt on the disk, which is the time of the
\* gate, however long the refresh and the save have taken.
ToSave_NotTheAttempt(d) == [d EXCEPT !.attempts = disk.attempts]
ToSave(d) == d
Call ==
    /\ At("saving")
    /\ \/ /\ disk' = ToSave(data) /\ Goes("calling")
          /\ calls' = Append(calls, [at |-> work.at, made |-> now])
          /\ reviewed' = IF work.key # None
                         THEN [reviewed EXCEPT ![work.task][work.key] = Least(2, @ + 1)]
                         ELSE reviewed
          /\ UNCHANGED <<ready, failures>>
       \/ SaveFails /\ UNCHANGED <<calls, reviewed>>
    /\ UNCHANGED <<now, data, pending, told, restarts>>

\* The answer is valid: a new report, or a turn of a conversation.
Number == 1 + work.at
Answered ==
    /\ At("calling")
    /\ data' = IF work.task = FollowUp THEN data
               ELSE [data EXCEPT !.reports = Last(MaxReports, @ \cup {Number})]
    /\ Goes("storing")
    /\ UNCHANGED <<now, disk, ready, pending, calls, reviewed, told, restarts,
                   failures>>

\* Timed out, failed, or answered with nonsense.
Unanswered ==
    /\ At("calling")
    /\ IF work.task = FollowUp THEN work' = None ELSE Goes("failing")
    /\ UNCHANGED <<now, data, disk, ready, pending, calls, reviewed, told, restarts,
                   failures>>

Store ==
    /\ At("storing")
    /\ \/ /\ disk' = data
          /\ IF work.task = FollowUp THEN work' = None ELSE Goes("telling")
          /\ UNCHANGED <<ready, failures>>
       \/ SaveFails
    /\ UNCHANGED <<now, data, pending, calls, reviewed, told, restarts>>

\* notify_report and notify_failure, of an event that is wanted: recorded, saved if that works,
\* then sent.
Announced == [data EXCEPT !.last = Number]
Tell ==
    /\ At("telling")
    /\ IF data.last = Number
       THEN work' = None /\ UNCHANGED <<data, disk, failures>>
       ELSE /\ data' = Announced
            /\ \/ disk' = data' /\ UNCHANGED failures
               \/ failures < MaxFailures /\ failures' = failures + 1 /\ UNCHANGED disk
            /\ Goes("sending")
    /\ UNCHANGED <<now, ready, pending, calls, reviewed, told, restarts>>

Alerted == data.failed[work.task] = Today
Recorded(d) == [d EXCEPT !.failed[work.task] = Today]
Alert ==
    /\ At("failing") /\ ~Alerted
    /\ data' = Recorded(data)
    /\ \/ disk' = (IF ready THEN data' ELSE disk) /\ UNCHANGED failures
       \/ ready /\ failures < MaxFailures /\ failures' = failures + 1 /\ UNCHANGED disk
    /\ told' = [told EXCEPT ![work.task][Today] = Least(2, @ + 1)]
    /\ Goes("sending")
    /\ UNCHANGED <<now, ready, pending, calls, reviewed, restarts>>
AlertSkipped ==
    /\ At("failing") /\ Alerted
    /\ work' = None
    /\ UNCHANGED <<now, data, disk, ready, pending, calls, reviewed, told, restarts,
                   failures>>

\* deliver, which may fail: the end either way.
Sent ==
    /\ At("sending") /\ work' = None
    /\ UNCHANGED <<now, data, disk, ready, pending, calls, reviewed, told, restarts,
                   failures>>

-----------------------------------------------------------------------------
(* The surroundings *)

\* A crash, or a stop, which cancels the work and saves nothing.  A file that cannot be read
\* is preserved, and nothing runs until the next start.
Restart ==
    /\ restarts < MaxRestarts /\ restarts' = restarts + 1
    /\ \/ data' = disk /\ ready' = TRUE
       \/ data' = Fresh /\ ready' = FALSE
    /\ work' = None /\ pending' = None
    /\ UNCHANGED <<now, disk, calls, reviewed, told, failures>>

Tick ==
    /\ now < Horizon /\ now' = now + 1
    /\ UNCHANGED <<data, disk, ready, work, pending, calls, reviewed, told, restarts,
                   failures>>

Next ==
    \/ Ask \/ Run \/ Schedule \/ ScheduledRun \/ ScheduledRunRefused
    \/ Refreshed \/ Unfit \/ Call \/ Answered \/ Unanswered \/ Store
    \/ Tell \/ Alert \/ AlertSkipped \/ Sent \/ Restart \/ Tick

Spec == Init /\ [][Next]_advisorVars

-----------------------------------------------------------------------------
TypeOK ==
    /\ now \in 0..Horizon /\ {data, disk} \subseteq DataSet /\ ready \in BOOLEAN
    /\ work \in Review \cup {None} /\ pending \in Request \cup {None}
    /\ calls \in Seq(MadeCall)
    /\ reviewed \in [Tasks -> [Days -> 0..2]] /\ told \in [Tasks -> [Days -> 0..2]]

\* Whatever fails, restarts or is cancelled on the way, no more than max_calls_per_day reviews
\* that call the provider are begun in a rolling day, so that no more than one call above them is
\* made in one ("The attempt is saved before contacting the provider"); no third call is made in
\* the minute of another; and a scheduled review is not paid for twice ("persisted scheduled
\* dates prevent duplicate calls after a restart").
CallsAreBudgeted ==
    /\ \A i \in DOMAIN calls :
          /\ i > MaxCalls => calls[i].at >= calls[i - MaxCalls].at + Day
          /\ i > MaxCalls + 1 => calls[i].made >= calls[i - MaxCalls - 1].made + Day
          /\ i > 2 => calls[i].made > calls[i - 2].made
    /\ \A t \in Tasks, d \in Days : reviewed[t][d] <= 1

\* "failure notifications are sent at most once per task per local day", over restarts too,
\* unless a save failed: what was told is then forgotten at a restart.
ToldOnce == failures = 0 => \A t \in Tasks, d \in Days : told[t][d] <= 1

\* docs/heating-advisor.md:179-181 says "The advisor attempts each task once during that hour, with
\* a one-minute minimum gap between calls"; what is compared is when the reviews were begun.
CallsKeepTheGap == \A i \in DOMAIN calls : i > 1 => calls[i].made > calls[i - 1].made

\* docs/heating-advisor.md:186 says "The default cap is four attempted calls in a rolling 24 hours".
CallsKeepTheCap ==
    \A i \in DOMAIN calls : i > MaxCalls => calls[i].made >= calls[i - MaxCalls].made + Day
=============================================================================
