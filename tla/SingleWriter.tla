---------------------------- MODULE SingleWriter ----------------------------
(***************************************************************************)
(* What the exclusive handover promises, without the way it is carried     *)
(* out: "keep one writer responsible for each controlled setting".  Old    *)
(* controllers and the consolidated one share the actuators; the           *)
(* consolidated one may call an actuator only while it holds a claim made   *)
(* with every old controller off, and it gives an old controller back only  *)
(* when it has neither a claim nor a call under way.  What a crash makes of *)
(* the platform's own record of old controllers is not in its hands.        *)
(***************************************************************************)
EXTENDS FiniteSets

CONSTANTS Legacy,   \* the controllers that owned the actuators before
          Scope     \* the actuators: one per room, and the boiler

VARIABLES up,       \* the consolidated controller is running
          claim,    \* "none", "pending" (made, not yet durable) or "held"
          old,      \* old controllers that may write: enabled or still loaded
          back,     \* old controllers enabled by a rollback of ours
          busy      \* actuators with a call of ours under way

vars == <<up, claim, old, back, busy>>

TypeOK ==
    /\ up \in BOOLEAN
    /\ claim \in {"none", "pending", "held"}
    /\ old \in SUBSET Legacy
    /\ back \in SUBSET Legacy
    /\ busy \in SUBSET Scope

Init ==
    /\ up = FALSE
    /\ claim = "none"
    /\ old \in SUBSET Legacy
    /\ back = {}
    /\ busy = {}

-----------------------------------------------------------------------------
\* A claim needs every old controller off; making it durable comes after.
Claim ==
    /\ up
    /\ claim = "none"
    /\ old = {}
    /\ claim' = "pending"
    /\ UNCHANGED <<up, old, back, busy>>

Record ==
    /\ claim = "pending"
    /\ claim' = "held"
    /\ UNCHANGED <<up, old, back, busy>>

Drop ==
    /\ claim # "none"
    /\ claim' = "none"
    /\ UNCHANGED <<up, old, back, busy>>

\* An actuator call begins under a claim and with no old controller around.
Call(s) ==
    /\ up
    /\ claim # "none"
    /\ old = {}
    /\ s \notin busy
    /\ busy' = busy \cup {s}
    /\ UNCHANGED <<up, claim, old, back>>

Settle ==
    /\ busy' \in SUBSET busy
    /\ UNCHANGED <<up, claim, old, back>>

\* Giving an old controller back: the one step that must find everything quiet.
GiveBack(e) ==
    /\ up
    /\ claim = "none"
    /\ busy = {}
    /\ old' = old \cup {e}
    /\ back' = back \cup {e}
    /\ UNCHANGED <<up, claim, busy>>

\* Old controllers come and go by their owner's hand at any time.
OwnerSwitches ==
    /\ old' \in SUBSET Legacy
    /\ back' \in SUBSET (back \cap old')
    /\ UNCHANGED <<up, claim, busy>>

Start ==
    /\ ~up
    /\ up' = TRUE
    /\ UNCHANGED <<claim, old, back, busy>>

\* An orderly end waits for the calls under way.
Stop ==
    /\ up
    /\ busy = {}
    /\ up' = FALSE
    /\ UNCHANGED <<claim, old, back, busy>>

\* A crash ends every call; a pending claim is durable or lost, and the
\* platform may come up with any recent switch of an old controller undone.
Crash ==
    /\ up' = FALSE
    /\ claim' \in (CASE claim = "pending" -> {"none", "held"}
                     [] OTHER -> {claim, "none"})
    /\ busy' = {}
    /\ old' \in SUBSET Legacy
    /\ back' \in SUBSET old'

Next ==
    \/ Start \/ Stop
    \/ Claim \/ Record \/ Drop \/ Settle \/ OwnerSwitches \/ Crash
    \/ \E s \in Scope : Call(s)
    \/ \E e \in Legacy : GiveBack(e)

Spec == Init /\ [][Next]_vars
=============================================================================
