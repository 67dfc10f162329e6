------------------------------ MODULE MCTrials ------------------------------
(* Small instances of Trials for TLC. *)
EXTENDS Trials, TLC

CONSTANTS t1, t2, owner

OneTrial == {t1}
TwoTrials == {t1, t2}
TwoValues == {0, 1}
\* Other writers of the controller's file, or callers that go away.
Undisturbed == [savers |-> {}, cancels |-> FALSE]
WritersOrLeavers ==
    {[Undisturbed EXCEPT !.savers = {"owner", "cycle"}], [Undisturbed EXCEPT !.cancels = TRUE]}
Nothing == {Undisturbed}

TrialSymmetry == Permutations(TwoTrials)
=============================================================================
