---------------------------- MODULE MCInstallations ----------------------------
(* Instances of Installations for TLC. *)
EXTENDS Installations, TLC

CONSTANTS i1, u1, u2, r1, r2, k1, k2, h1, h2, f1

OneInstall == {i1}

TwoUsers == {u1, u2}

TwoRepos == {r1, r2}

TwoCallbacks == {k1, k2}

TwoHandlers == {h1, h2}

OneLookup == {f1}

InstallSymmetry ==
  Permutations(Installs) \cup Permutations(Users) \cup Permutations(Repos)
    \cup Permutations(Callbacks) \cup Permutations(Handlers)

=============================================================================
