----------------------------- MODULE RoomReadback -----------------------------
(***************************************************************************)
(* What the room controller concludes about a command it has sent          *)
(* (control/comfort/coordinator.py 1099-1397 and the end of _cycle): is it *)
(* confirmed, and did the zone go back to the command before it?           *)
(*                                                                         *)
(* Home Assistant shows one state of the zone.  It may be a report of the  *)
(* zone, or the integration's projection of what it has just transmitted;  *)
(* packets get lost, calls end without an answer, and people turn dials.   *)
(* Which command to send is left open here (see RoomControl).              *)
(***************************************************************************)
EXTENDS Integers

CONSTANTS
    None,
    Targets,    \* setpoints a command or a hand may choose
    Scheduled,  \* the setpoint of the schedule
    MaxTags,    \* bound: overrides made, by commands and hands together
    MaxHands    \* bound: overrides made by hand

VARIABLES
    zone,    \* external: the setting in force in the zone
    shown,   \* external: [state, there, newer] of the primary entity; there when readable and
             \* not older than READBACK_MAX_AGE, newer than _service_completed_at
    tags,    \* the number of overrides made so far
    over,    \* external: how many of them have run out: an override lasts override_minutes,
             \* so that they do so in their order
    hands,   \* how many overrides were made by hand
    sent,    \* the last command the service accepted: _sent_target, _pending_action, _pre_send_*, _pre_send_owned, and whether
             \* _service_echo_state differs from what was there before
    belief,  \* _pending_target, _confirmed_target, _owned_command_state, _command_reverted,
             \* _reversion_retry_used
    call,    \* the command whose service call runs, with what was captured before it
    history  \* [retries, confirmed]: resendings of a reverted command since the last
             \* confirmation, and the overrides this process has confirmed

readbackVars == <<zone, shown, tags, over, hands, sent, belief, call, history>>

\* A setting: an override is identified by its expiry, which no two share.
Follow == [sp |-> Scheduled, mode |-> "follow_schedule", until |-> None]
Override(sp, tag) == [sp |-> sp, mode |-> "temporary_override", until |-> tag]

Settings == {Follow} \union {Override(sp, n) : sp \in Targets, n \in 1..MaxTags}

\* A command whose call runs, and one that was accepted.
Calls ==
    [action : {"write", "release"}, target : Targets \union {Scheduled}, retry : BOOLEAN,
     out : BOOLEAN, pre : Settings \union {None}, owned : BOOLEAN]
Sendings ==
    [action : {"write", "release"}, target : Targets \union {Scheduled},
     pre : Settings \union {None}, owned : BOOLEAN, moved : BOOLEAN]

ReadbackAssumption ==
    /\ Targets \subseteq Nat /\ Scheduled \in Nat
    /\ {MaxTags, MaxHands} \subseteq Nat
    /\ None \notin Targets /\ None # Scheduled
    /\ None \notin Settings /\ None \notin Calls /\ None \notin Sendings

Nobody == [pending |-> None, confirmed |-> None, owned |-> None, reverted |-> FALSE,
           used |-> FALSE]

Init ==
    /\ zone = Follow
    /\ shown = [state |-> Follow, there |-> TRUE, newer |-> FALSE]
    /\ tags = 0 /\ over = 0 /\ hands = 0
    /\ sent = None /\ belief = Nobody
    /\ call = None
    /\ history = [retries |-> 0, confirmed |-> {}]

InForce(state) == state # None /\ state.until # None /\ state.until > over

\* _primary_setpoint_observation: the state; None when unavailable, stale or unreadable.
Observed == IF shown.there THEN shown.state ELSE None

-----------------------------------------------------------------------------
\* _is_command_reversion: the exact return of a setting of ours that was confirmed, after
\* something else was projected.
IsReversion(state) ==
    /\ sent.owned /\ sent.moved
    /\ InForce(sent.pre)
    /\ state = sent.pre

\* _has_command_evidence: a change since the sending, not just a heartbeat.
Evidence(state) ==
    IF sent.action = "release"
    THEN sent.pre # None /\ state.mode = "follow_schedule" /\ sent.pre.mode # state.mode
    ELSE sent.pre # None /\ (\/ state.sp # sent.pre.sp
                              \/ (state.mode = "temporary_override" /\ sent.pre.mode # state.mode))

Reverted(b) ==
    [b EXCEPT !.reverted = TRUE, !.confirmed = None, !.pending = sent.target,
              !.owned = sent.pre]

Confirmed(b, state) ==
    [b EXCEPT !.confirmed = b.pending, !.owned = state, !.pending = None, !.reverted = FALSE,
              !.used = FALSE]

\* _advance_readback
Advanced ==
    LET fresh == shown.there /\ shown.newer
        seen == IF fresh THEN [belief EXCEPT !.reverted = FALSE] ELSE belief
    IN  IF sent = None THEN belief
        ELSE IF fresh /\ IsReversion(shown.state) THEN Reverted(belief)
        ELSE IF seen.pending = None THEN seen
        ELSE IF fresh /\ shown.state.sp = seen.pending /\ Evidence(shown.state)
             THEN Confirmed(seen, shown.state)
        ELSE seen

-----------------------------------------------------------------------------
\* The cycle: the readback is advanced, and a command may go out.  Whether a hold by hand
\* stands is the policy's to say.
PreOwned_NotCompared(pre, standing) ==
    /\ ~standing
    /\ pre # None /\ InForce(pre)

PreOwned(pre, standing) ==
    /\ ~standing
    /\ pre # None /\ pre = belief'.owned /\ InForce(pre)

\* retry_reverted_command
RetryDue(action, b) == action = "write" /\ b.reverted /\ ~b.used

Watch ==
    /\ call = None
    /\ belief' = Advanced /\ belief' # belief
    /\ UNCHANGED <<zone, shown, tags, over, hands, sent, call>>

Ask(action, target) ==
    /\ call = None
    /\ belief' = Advanced
    /\ \E standing \in BOOLEAN :
        call' = [action |-> action, target |-> target, retry |-> RetryDue(action, belief'),
                 out |-> FALSE, pre |-> Observed, owned |-> PreOwned(Observed, standing)]
    /\ UNCHANGED <<zone, shown, tags, over, hands, sent>>

Commands ==
    \/ \E t \in Targets : Ask("write", t)
    \/ Ask("release", Scheduled)

\* The service transmits: the packet may get lost, and may be projected at once.
Transmit(projects, arrives) ==
    LET write == call.action = "write"
        setting == IF write THEN Override(call.target, tags + 1) ELSE Follow
    IN  /\ tags' = IF write THEN tags + 1 ELSE tags
        /\ zone' = IF arrives THEN setting ELSE zone
        /\ shown' = IF projects THEN [shown EXCEPT !.state = setting, !.there = TRUE] ELSE shown

Transmitted ==
    /\ call # None /\ ~call.out
    /\ call.action = "write" => tags < MaxTags
    /\ \E projects, arrives \in BOOLEAN : Transmit(projects, arrives)
    /\ call' = [call EXCEPT !.out = TRUE]
    /\ UNCHANGED <<over, hands, sent, belief>>

\* The call returns: the command is sent, and nothing seen so far acknowledges it.
Accepted ==
    /\ call # None /\ call.out
    /\ sent' = [action |-> call.action, target |-> call.target, pre |-> call.pre,
                owned |-> call.owned, moved |-> Observed \notin {None, call.pre}]
    /\ belief' = [belief EXCEPT !.pending = call.target, !.confirmed = None, !.reverted = FALSE,
                                !.used = @ \/ call.retry]
    /\ shown' = [shown EXCEPT !.newer = FALSE]
    /\ call' = None
    /\ UNCHANGED <<zone, tags, over, hands>>

\* It fails, is refused, or does not return in time: an older command stays pending.
NotAccepted ==
    /\ call # None
    /\ call' = None
    /\ UNCHANGED <<zone, shown, tags, over, hands, sent, belief>>

\* Memory of this process only; what was written is restored.
Restart ==
    /\ call' = None /\ sent' = None /\ belief' = Nobody
    /\ shown' = [shown EXCEPT !.newer = FALSE]
    /\ UNCHANGED <<zone, tags, over, hands>>

-----------------------------------------------------------------------------
\* External: the reports, the dial, and time.
\* Any packet refreshes the entity; it brings the zone's state, or keeps what is shown.
Report ==
    /\ \E state \in {zone, shown.state} :
        shown' = [state |-> state, there |-> TRUE, newer |-> sent # None]
    /\ UNCHANGED <<zone, tags, over, hands, sent, belief, call>>

Silent ==
    /\ shown.there
    /\ shown' = [shown EXCEPT !.there = FALSE, !.newer = FALSE]
    /\ UNCHANGED <<zone, tags, over, hands, sent, belief, call>>

Hand(sp) ==
    /\ tags < MaxTags /\ hands < MaxHands
    /\ call # None => call.out
    /\ tags' = tags + 1
    /\ zone' = Override(sp, tags')
    /\ hands' = hands + 1
    /\ UNCHANGED <<shown, over, sent, belief, call>>

\* The oldest override runs out.
Expires ==
    /\ call = None
    /\ over < tags
    /\ over' = over + 1
    /\ zone' = IF zone.until = over' THEN Follow ELSE zone
    /\ UNCHANGED <<shown, tags, hands, sent, belief, call>>

Recorded ==
    history' = IF belief' = Nobody THEN [retries |-> 0, confirmed |-> {}]
               ELSE IF belief'.confirmed # None
               THEN [retries |-> 0, confirmed |-> history.confirmed \union {belief'.owned}]
               ELSE IF call # None /\ call' = None /\ call.retry /\ belief'.used
               THEN [history EXCEPT !.retries = @ + 1] ELSE history

Next ==
    /\ \/ Watch \/ Commands \/ Transmitted \/ Accepted \/ NotAccepted \/ Restart
       \/ Report \/ Silent \/ (\E sp \in Targets : Hand(sp))
       \/ Expires
    /\ Recorded

Spec == Init /\ [][Next]_readbackVars

-----------------------------------------------------------------------------
TypeOK ==
    /\ zone \in Settings
    /\ shown \in [state : Settings, there : BOOLEAN, newer : BOOLEAN]
    /\ tags \in 0..MaxTags /\ over \in 0..tags /\ hands \in 0..MaxHands
    /\ sent \in Sendings \union {None} /\ call \in Calls \union {None}
    /\ belief \in [pending : Targets \union {Scheduled, None},
                   confirmed : Targets \union {Scheduled, None},
                   owned : Settings \union {None}, reverted : BOOLEAN, used : BOOLEAN]

\* "Recognise only an exact return to a still-valid command HHO had confirmed" (coordinator.py
\* 1233): while a reversion is believed, which suspends the detection of overrides by hand,
\* what came back is an override that this process has confirmed, and no look-alike.
RevertedWasConfirmed == belief.reverted => sent.pre \in history.confirmed

\* "permits one retry; another return does not create an endless retry loop"
\* (docs/command-confirmation.md).
RetriedOnce == call # None /\ call.retry => history.retries = 0

\* Nothing is confirmed on the strength of what was published during the service call, nor by
\* the setting that was there before: a confirmation has a later report with a change in it.
ConfirmedByChange ==
    [][belief'.confirmed # None /\ belief.confirmed = None =>
          /\ shown.newer /\ shown.there
          /\ shown.state.sp = sent.target
          /\ sent.pre # None /\ shown.state # sent.pre]_readbackVars
=============================================================================
