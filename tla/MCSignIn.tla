------------------------------- MODULE MCSignIn -------------------------------
(* Instances of SignIn for TLC. *)
EXTENDS SignIn, TLC

CONSTANTS a1, a2, a3, b1, b2, g1

ThreeAttempts == {a1, a2, a3}

TwoBrowsers == {b1, b2}

OneAccount == {g1}

SignInSymmetry == Permutations(Attempts) \cup Permutations(Browsers)

=============================================================================
