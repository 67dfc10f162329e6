--------------------------- MODULE MCRoomControl ---------------------------
(***************************************************************************)
(* Small instances of RoomControl for TLC, each behaviour one scene: a     *)
(* process that stops, crashes and starts again; windows that open, with   *)
(* a dial turned off or up; a schedule that becomes unreadable and calls   *)
(* that time out.                                                          *)
(***************************************************************************)
EXTENDS RoomControl

VARIABLE scene

OneTarget == {4}
OneHand == {6}
Shut == {FALSE}
Restarts == {"next", "stop", "crash", "echo"}
Windows ==
    INSTANCE RoomControl WITH
        Hands <- {0, 6}, HoldTime <- 2, CloseDelay <- 1, Contacts <- BOOLEAN, Faults <- {}

Unreadable ==
    INSTANCE RoomControl WITH
        Override <- 2, Refresh <- 1, Recent <- 2, HoldTime <- 2, Faults <- {"schedule", "timeout"}

ScenesInit ==
    \/ scene = "restarts" /\ Init
    \/ scene = "windows" /\ Windows!Init
    \/ scene = "unreadable" /\ Unreadable!Init

ScenesNext ==
    /\ \/ scene = "restarts" /\ Next
       \/ scene = "windows" /\ Windows!Next
       \/ scene = "unreadable" /\ Unreadable!Next
    /\ UNCHANGED scene

scenesVars == <<scene, vars>>

Scenes == ScenesInit /\ [][ScenesNext]_scenesVars

-----------------------------------------------------------------------------
\* The types of each scene.
ScenesTypeOK ==
    /\ scene = "restarts" => TypeOK
    /\ scene = "windows" => Windows!TypeOK
    /\ scene = "unreadable" => Unreadable!TypeOK

\* What is held as a hand's setting was set by a hand (HoldsOnlyHands of RoomControl), over
\* restarts, schedules that tell no next switchpoint, and open windows.
OnlyHandsAreHeld ==
    [][/\ scene = "restarts" => HeldIsAHands
       /\ scene = "windows" => Windows!HeldIsAHands]_scenesVars

\* A setting whose hold has run out is not held again (HeldOnce of RoomControl), in the
\* scenes in which Home Assistant shows nothing before the thermostat answers.  In the scene of
\* the restarts it may show our setting first, and there a setting can be held twice.
EndedHoldsStayEnded ==
    [][scene # "restarts" /\ ~Standing(mem) /\ Standing(mem') /\ mem'.held = zone.v
       => zone.by # "held"]_scenesVars
=============================================================================
