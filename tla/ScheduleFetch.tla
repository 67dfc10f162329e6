---------------------------- MODULE ScheduleFetch ----------------------------
(***************************************************************************)
(* The download of the rooms' schedules over the radio                     *)
(* (control/comfort/schedule_fetch.py).                                    *)
(*                                                                         *)
(* Every room has a fetcher; all share one lock, for a transfer is many    *)
(* messages long.  What is known of a download is part of the room's       *)
(* store, which the room's cycle saves when it runs.                       *)
(***************************************************************************)
EXTENDS Integers, FiniteSets

CONSTANTS
    None,
    Rooms,
    Interval,  \* _retry_interval after one failure, in ticks; it doubles
    Cap,       \* and grows no longer than this; 24 hours with a cached schedule
    Failures   \* the number of failures from which none are counted

FetchAssumption ==
    {Interval, Cap, Failures} \subseteq Nat /\ 0 < Interval /\ Interval <= Cap

VARIABLES
    fetch,    \* a room's task: "none", "queued" for the lock, or "calling"
    known,    \* ramses_schedule_status, _failures, and the age of _requested_at
    kept,     \* the same in the room's file
    cached,   \* cache_available
    present,  \* external: the room's entity and the service are there
    running   \* the fetchers are not closed

fetchVars == <<fetch, known, kept, cached, present, running>>

Fresh == [status |-> "not_attempted", failures |-> 0, age |-> None]

Init ==
    /\ fetch = [r \in Rooms |-> "none"]
    /\ known = [r \in Rooms |-> Fresh] /\ kept = known
    /\ cached = [r \in Rooms |-> FALSE]
    /\ present = [r \in Rooms |-> TRUE]
    /\ running = TRUE

Smallest(a, b) == IF a < b THEN a ELSE b

Retry(r) == IF cached[r] THEN Cap + 1
            ELSE Smallest(Cap, Interval * 2 ^ (IF known[r].failures = 0 THEN 0
                                               ELSE known[r].failures - 1))

\* Asked by every cycle of the room; a background task is made.
Request(r) ==
    /\ running /\ fetch[r] = "none" /\ present[r]
    /\ known[r].age # None => known[r].age >= Retry(r)
    /\ fetch' = [fetch EXCEPT ![r] = "queued"]
    /\ UNCHANGED <<known, kept, cached, present, running>>

\* The room's turn: the entity has gone away, or the call goes out.
Start(r) ==
    /\ fetch[r] = "queued"
    /\ \A s \in Rooms : fetch[s] # "calling"
    /\ IF ~present[r]
       THEN fetch' = [fetch EXCEPT ![r] = "none"] /\ UNCHANGED known
       ELSE /\ fetch' = [fetch EXCEPT ![r] = "calling"]
            /\ known' = [known EXCEPT ![r].status = "fetching", ![r].age = 0]
    /\ UNCHANGED <<kept, cached, present, running>>

\* The call answers with a schedule; or with none, an error or nothing within 45 seconds.
Answered(r) ==
    /\ fetch[r] = "calling"
    /\ fetch' = [fetch EXCEPT ![r] = "none"]
    /\ \E success \in BOOLEAN :
        /\ known' = [known EXCEPT
                        ![r].status = IF success THEN "ok" ELSE "failed",
                        ![r].failures = IF success THEN 0 ELSE Smallest(Failures, @ + 1)]
        /\ cached' = [cached EXCEPT ![r] = @ \/ success]
    /\ UNCHANGED <<kept, present, running>>

\* The store is saved with the policy's memory, never by the fetch itself.
CycleSaves(r) ==
    /\ running /\ kept[r] # known[r]
    /\ kept' = [kept EXCEPT ![r] = known[r]]
    /\ UNCHANGED <<fetch, known, cached, present, running>>

\* stop cancels the task wherever it waits; the status stays as it is.
Stop ==
    /\ running
    /\ running' = FALSE
    /\ fetch' = [r \in Rooms |-> "none"]
    /\ UNCHANGED <<known, kept, cached, present>>

Restart ==
    /\ ~running
    /\ running' = TRUE
    /\ known' = kept
    /\ UNCHANGED <<fetch, kept, cached, present>>

PresenceChanges(r) ==
    /\ present' = [present EXCEPT ![r] = ~@]
    /\ UNCHANGED <<fetch, known, kept, cached, running>>

\* A cached schedule grows old.
CacheExpires(r) ==
    /\ cached[r]
    /\ cached' = [cached EXCEPT ![r] = FALSE]
    /\ UNCHANGED <<fetch, known, kept, present, running>>

Older(k) == [k EXCEPT !.age = IF @ = None \/ @ = Cap + 1 THEN @ ELSE @ + 1]

\* A call lasts less than a tick.
Tick ==
    /\ \A r \in Rooms : fetch[r] # "calling"
    /\ known' = [r \in Rooms |-> Older(known[r])]
    /\ kept' = [r \in Rooms |-> Older(kept[r])]
    /\ UNCHANGED <<fetch, cached, present, running>>

Next ==
    \/ \E r \in Rooms : \/ Request(r) \/ Start(r) \/ Answered(r) \/ CycleSaves(r)
                        \/ PresenceChanges(r) \/ CacheExpires(r)
    \/ Stop \/ Restart \/ Tick

Spec == Init /\ [][Next]_fetchVars

\* The lock is handed on first come, first served; cycles run, calls end, time passes.
FetchFairness ==
    /\ \A r \in Rooms : WF_fetchVars(Request(r)) /\ SF_fetchVars(Start(r)) /\ WF_fetchVars(Answered(r))
    /\ SF_fetchVars(Tick)

FairSpec == Spec /\ FetchFairness

-----------------------------------------------------------------------------
TypeOK ==
    /\ fetch \in [Rooms -> {"none", "queued", "calling"}]
    /\ known \in [Rooms -> [status : {"not_attempted", "fetching", "ok", "failed"},
                            failures : 0..Failures, age : 0..(Cap + 1) \union {None}]]
    /\ kept \in [Rooms -> [status : {"not_attempted", "fetching", "ok", "failed"},
                           failures : 0..Failures, age : 0..(Cap + 1) \union {None}]]
    /\ cached \in [Rooms -> BOOLEAN] /\ present \in [Rooms -> BOOLEAN] /\ running \in BOOLEAN

\* "Nine rooms must not start transfers together when the integration is restored"
\* (schedule_fetch.py): one at a time, over cancellations and restarts.
OneTransfer == Cardinality({r \in Rooms : fetch[r] = "calling"}) <= 1

\* A status of "fetching" that a cancelled task or a restart has left behind is resolved by
\* a later fetch, as long as the room can be asked.
FetchSettles ==
    \A r \in Rooms : known[r].status = "fetching" ~>
        (known[r].status # "fetching" \/ ~present[r] \/ ~running)
=============================================================================
