------------------------------- MODULE MCApiKeys -------------------------------
(* Instances of ApiKeys for TLC. *)
EXTENDS ApiKeys, TLC

CONSTANTS k1, k2, u1, u2, v1, v2, m1, m2, r1, r2, p1

TwoKeys == {k1, k2}

OnePrefix == {p1}

SamePrefix == [k \in Keys |-> p1]

TwoUsers == {u1, u2}

TwoValues == {v1, v2}

TwoMasters == {m1, m2}

TwoRequests == {r1, r2}

KeySymmetry ==
  Permutations(Keys) \cup Permutations(Users) \cup Permutations(Values)
    \cup Permutations(Masters) \cup Permutations(Requests)

================================================================================
