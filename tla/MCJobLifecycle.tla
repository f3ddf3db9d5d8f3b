---------------------------- MODULE MCJobLifecycle ----------------------------
(* Instances of JobLifecycle for TLC. *)
EXTENDS JobLifecycle, TLC

CONSTANTS j1, j2, u1, u2

OneJob == {j1}

TwoJobs == {j1, j2}

TwoUsers == {u1, u2}

\* Both jobs of one user, and one job of each user.
SameOwner == [j \in Jobs |-> u1]

EachItsOwner == (j1 :> u1) @@ (j2 :> u2)

\* With the same owner, jobs can be exchanged.
JobSymmetry == Permutations(Jobs)

=============================================================================
