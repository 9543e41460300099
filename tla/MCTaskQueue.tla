---------------------------- MODULE MCTaskQueue ----------------------------
(* Small instances of TaskQueue for TLC. *)
EXTENDS TaskQueue, TLC

CONSTANTS w1, w2, k1, k2, k3, k4

TwoWorkers == {w1, w2}
OneWorker  == {w1}
FourTokens  == {k1, k2, k3, k4}
ThreeTokens == {k1, k2, k3}

\* Workers are interchangeable, and so are tokens.
ServerSymmetry  == Permutations(TwoWorkers) \union Permutations(FourTokens)
DesktopSymmetry == Permutations(ThreeTokens)
=============================================================================
