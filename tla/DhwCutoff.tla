------------------------------ MODULE DhwCutoff ------------------------------
(***************************************************************************)
(* The cutoff that stops a charge of the cylinder above its target         *)
(* (dhw/cutoff.py, dhw/cutoff_policy.py).                                  *)
(*                                                                         *)
(* A stop is a temporary override, which the controller ends by itself.    *)
(* The record of it lives in memory only.  One action runs from one await  *)
(* of step to the next: the wait for Controls.lock, then the call.  The    *)
(* time `now` is read once, at the start of the step.                      *)
(***************************************************************************)
EXTENDS Integers, FiniteSets

CONSTANTS
    None,
    Hold,         \* HOLD, in ticks
    RenewBefore,  \* RENEW_BEFORE
    MaxHold,      \* MAX_HOLD
    Confirm,      \* CONFIRM
    MaxAttempts,  \* MAX_ATTEMPTS
    Wait          \* bound: ticks a step waits for Controls.lock

Modes == {"schedule", "boost", "off"}
Levels == {"low", "between", "high"}
Longest == MaxHold + Wait + 1
Holds ==
    [left : 0..Hold, age : 0..Longest, sent : 0..Confirm, confirmed : BOOLEAN,
     attempts : 1..MaxAttempts]
Requests == [action : {"stop", "release", "renew"}, at : {"lock", "call"}, lag : 0..Wait]

CutoffAssumption ==
    /\ {Hold, RenewBefore, MaxHold, Confirm, MaxAttempts, Wait} \subseteq Nat
    /\ 0 < RenewBefore /\ RenewBefore + Wait < Hold /\ MaxAttempts * Hold <= MaxHold
    /\ 0 < Confirm /\ Wait <= Confirm /\ 2 <= MaxAttempts
    /\ None \notin {"on", "off", "schedule"} /\ None \notin Holds /\ None \notin Requests

VARIABLES
    heater,   \* external: the controller's mode, and the ticks for which it still lasts
    view,     \* external: the mode Home Assistant shows
    air,      \* external: a command on its way, or None
    demand,   \* external: "on", "off", or None when unknown or stale
    reading,  \* the cylinder against target and reheat point; recent; taken in this charge
    hold,     \* hold_until, hold_started, sent_at, confirmed, attempts; None without a hold
    gaveUp,   \* gave_up
    charge,   \* charge_since is set
    request,  \* what the step has decided to send, and how long ago; None when idle
    off,      \* history: ticks for which our holds have kept the water off without a break
    tries     \* history: stops whose call returned, without an echo, and the ticks since the first

cutoffVars == <<heater, view, air, demand, reading, hold, gaveUp, charge, request, off, tries>>
house == <<heater, view, air, demand, off>>

Untried == [sent |-> 0, age |-> 0]

Init ==
    /\ heater = [mode |-> "schedule", left |-> 0, ours |-> FALSE]
    /\ view = "schedule" /\ air = None
    /\ demand = "off" /\ reading = [level |-> "low", recent |-> TRUE, inCharge |-> FALSE]
    /\ hold = None /\ gaveUp = FALSE /\ charge = FALSE /\ request = None
    /\ off = 0 /\ tries = Untried

-----------------------------------------------------------------------------
(* One step. *)

\* A hold whose time has passed is cleared first.
Held == hold # None /\ hold.left > 0

\* recent_temperature; charge_temperature takes any reading of a charge already seen.
Recent == reading.recent
OfCharge == reading.recent \/ (charge /\ reading.inCharge)

\* should_stop, and the mode and cloud checks before it.
StopDue ==
    /\ demand = "on" /\ ~gaveUp
    /\ view = "schedule"
    /\ reading.level = "high" /\ OfCharge

\* should_release
ReleaseDue == Recent /\ reading.level = "low"

\* RENEW_BEFORE the end, and not beyond MAX_HOLD in all.
RenewDue == hold.left <= RenewBefore /\ hold.age + Hold <= MaxHold

\* What every step sees of the charge.
ChargeSeen ==
    /\ gaveUp' = (gaveUp /\ demand # "off")
    /\ charge' = (IF demand = None THEN charge ELSE demand = "on")
    /\ reading' = IF demand = "on" /\ ~charge THEN [reading EXCEPT !.inCharge = FALSE] ELSE reading

Decide(action) == request' = [action |-> action, at |-> "lock", lag |-> 0]

\* An Evohome cloud entity that answers shows the controller's own mode (`cloud`).
Watch ==
    /\ request = None /\ ~Held
    /\ ChargeSeen
    /\ hold' = None
    /\ \E cloud \in {None, heater.mode} :
        IF StopDue /\ cloud \in {None, "schedule"} THEN Decide("stop") ELSE UNCHANGED request
    /\ tries' = IF demand = "off" THEN Untried ELSE tries
    /\ UNCHANGED house

\* The hold is shown: confirmed, and handed back, renewed or kept.
Shown ==
    /\ request = None /\ Held /\ view = "off"
    /\ ChargeSeen
    /\ hold' = [hold EXCEPT !.confirmed = TRUE]
    /\ IF ReleaseDue THEN Decide("release")
       ELSE IF RenewDue THEN Decide("renew")
       ELSE UNCHANGED request
    /\ tries' = Untried
    /\ UNCHANGED house

\* A confirmed hold that is no longer shown is not ours any more.
TakenOver ==
    /\ request = None /\ Held /\ view # "off" /\ hold.confirmed
    /\ ChargeSeen
    /\ hold' = None
    /\ UNCHANGED <<house, request, tries>>

\* Never echoed: sent once more, then given up for this charge.
Unconfirmed_AnyNumber ==
    /\ request = None /\ Held /\ view # "off" /\ ~hold.confirmed
    /\ ChargeSeen
    /\ IF hold.sent < Confirm THEN UNCHANGED request ELSE Decide("stop")
    /\ UNCHANGED <<house, hold, tries>>

Unconfirmed ==
    /\ request = None /\ Held /\ view # "off" /\ ~hold.confirmed
    /\ IF hold.sent >= Confirm /\ hold.attempts >= MaxAttempts
       THEN /\ hold' = None /\ gaveUp' = TRUE
            /\ charge' = (IF demand = None THEN charge ELSE demand = "on")
            /\ UNCHANGED <<request, reading>>
       ELSE /\ ChargeSeen
            /\ IF hold.sent < Confirm THEN UNCHANGED request ELSE Decide("stop")
            /\ UNCHANGED hold
    /\ UNCHANGED <<house, tries>>

-----------------------------------------------------------------------------
(* _send *)

\* dhw_guard_reason, asked under the lock.
Blocked ==
    /\ request # None /\ request.at = "lock"
    /\ request' = None
    /\ UNCHANGED <<house, reading, hold, gaveUp, charge, tries>>

Command == IF request.action = "release" THEN "schedule" ELSE "off"

Send ==
    /\ request # None /\ request.at = "lock" /\ air = None
    /\ air' = Command
    /\ request' = [request EXCEPT !.at = "call"]
    /\ UNCHANGED <<heater, view, demand, off, reading, hold, gaveUp, charge, tries>>

\* A retry keeps hold_started; a renewal keeps it and starts a new count of attempts.
Sent ==
    /\ request # None /\ request.at = "call"
    /\ hold' = CASE request.action = "release" -> None
                 [] OTHER ->
                     [left |-> Hold - request.lag, sent |-> request.lag, confirmed |-> FALSE,
                      age |-> IF hold = None THEN request.lag ELSE hold.age,
                      attempts |-> IF hold = None \/ request.action = "renew" THEN 1
                                   ELSE hold.attempts + 1]
    /\ request' = None
    /\ tries' = IF request.action = "stop"
                THEN [sent |-> tries.sent + 1, age |-> IF tries.sent = 0 THEN 0 ELSE tries.age]
                ELSE tries
    /\ UNCHANGED <<house, reading, gaveUp, charge>>

\* An error or a time-out changes no record; the command may have gone out all the same, and
\* the next step decides without it: such a stop is no attempt, in the code as in `tries`.
CallFails ==
    /\ request # None /\ request.at = "call"
    /\ request' = None
    /\ air' \in {air, None}
    /\ UNCHANGED <<heater, view, demand, off, reading, hold, gaveUp, charge, tries>>

-----------------------------------------------------------------------------
(* The controller, the radio, the household, Home Assistant. *)

Deliver ==
    /\ air # None
    /\ heater' \in {heater, [mode |-> air, ours |-> air = "off",
                             left |-> IF air = "off" THEN Hold ELSE 0]}
    /\ air' = None
    /\ off' = IF heater' # heater /\ ~(heater.mode = "off" /\ heater.ours) THEN 0 ELSE off
    /\ UNCHANGED <<view, demand, reading, hold, gaveUp, charge, request, tries>>

Report ==
    /\ view # heater.mode
    /\ view' = heater.mode
    /\ UNCHANGED <<heater, air, demand, off, reading, hold, gaveUp, charge, request, tries>>

\* Water runs into the cylinder, or does not; the sensor is heard, or is not.
ChargeChanges ==
    /\ demand' \in {"on", "off", None} \ {demand}
    /\ demand' = "on" => heater.mode # "off"
    /\ UNCHANGED <<heater, view, air, off, reading, hold, gaveUp, charge, request, tries>>

SensorReports ==
    /\ \E level \in Levels : reading' = [level |-> level, recent |-> TRUE, inCharge |-> charge]
    /\ UNCHANGED <<house, hold, gaveUp, charge, request, tries>>

\* The owner boosts, holds the water off himself, or goes back to the schedule.
OwnerSets ==
    /\ \E mode \in Modes : heater' = [mode |-> mode, ours |-> FALSE, left |-> 1]
    /\ heater' # heater
    /\ off' = 0
    /\ UNCHANGED <<view, air, demand, reading, hold, gaveUp, charge, request, tries>>

\* Nothing is persisted; the heater's entity can come back as following its schedule.
Restart ==
    /\ hold' = None /\ gaveUp' = FALSE /\ charge' = FALSE /\ request' = None /\ tries' = Untried
    /\ reading' = [reading EXCEPT !.inCharge = FALSE]
    /\ view' \in {"schedule", heater.mode}
    /\ UNCHANGED <<heater, air, demand, off>>

\* A tick is longer than a call and a command's way; only the wait for the lock is longer.
Tick ==
    /\ air = None
    /\ heater.mode = "off" => demand # "on"
    /\ request # None => request.at = "lock" /\ request.lag < Wait
    /\ heater' = IF heater.left <= 1 THEN [mode |-> "schedule", left |-> 0, ours |-> FALSE]
                 ELSE [heater EXCEPT !.left = @ - 1]
    /\ hold' = IF hold = None THEN None
               ELSE [hold EXCEPT !.left = IF @ = 0 THEN 0 ELSE @ - 1,
                                 !.age = IF @ = Longest THEN @ ELSE @ + 1,
                                 !.sent = IF @ = Confirm THEN @ ELSE @ + 1]
    /\ request' = IF request = None THEN None ELSE [request EXCEPT !.lag = @ + 1]
    /\ reading' = [reading EXCEPT !.recent = FALSE]
    /\ off' = IF heater.mode = "off" /\ heater.ours /\ off < Longest THEN off + 1 ELSE off
    /\ tries' = IF tries.sent = 0 \/ tries.age + 1 >= Hold THEN Untried
                ELSE [tries EXCEPT !.age = @ + 1]
    /\ UNCHANGED <<view, air, demand, gaveUp, charge>>

Step == Watch \/ Shown \/ TakenOver \/ Unconfirmed

Next ==
    \/ Step \/ Blocked \/ Send \/ Sent \/ CallFails
    \/ Deliver \/ Report \/ ChargeChanges \/ SensorReports \/ OwnerSets \/ Restart \/ Tick

Spec == Init /\ [][Next]_cutoffVars

-----------------------------------------------------------------------------
TypeOK ==
    /\ heater \in [mode : Modes, left : 0..Hold, ours : BOOLEAN]
    /\ view \in Modes /\ air \in {"schedule", "off", None}
    /\ demand \in {"on", "off", None}
    /\ reading \in [level : Levels, recent : BOOLEAN, inCharge : BOOLEAN]
    /\ hold \in Holds \union {None}
    /\ gaveUp \in BOOLEAN /\ charge \in BOOLEAN
    /\ request \in Requests \union {None}
    /\ off \in 0..Longest /\ tries \in [sent : Nat, age : 0..(Hold - 1)]

\* However holds are renewed, lost, repeated and forgotten over restarts or by a call that
\* fails after it was sent, ours keep the water off for MAX_HOLD, and the one wait for the
\* lock, at most.
OffBounded == off <= MaxHold + Wait

\* A stop whose call returned and that is never echoed is sent MAX_ATTEMPTS times in a charge
\* and a hold's time, no more ("A stop the controller never echoed is not retried until this
\* charge ends").  Stops reported as failed are not among them: they are repeated unbounded.
UnansweredBounded == tries.sent <= MaxAttempts

\* "Boosts and manual overrides are left alone" (docs/control-configuration.md): a hold is
\* sent over a mode that is shown as the schedule's, or as our hold.
BoostsLeftAlone == [][air = None /\ air' = "off" => view # "boost"]_cutoffVars
=============================================================================
