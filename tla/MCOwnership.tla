----------------------------- MODULE MCOwnership -----------------------------
(* Small instances of Ownership for TLC. *)
EXTENDS Ownership, TLC

CONSTANTS e1, e2, r1, boiler

TwoLegacy == {e1, e2}
OneLegacy == {e1}
OneRoom == {r1}
NoRoom == {}

\* Both legacy entries are configured, so nothing tells them apart.
LegacySymmetry == Permutations(TwoLegacy)
=============================================================================
