----------------------------- MODULE MCLocalQueue -----------------------------
(* An instance of LocalQueue for TLC.                                      *)
EXTENDS LocalQueue, TLC

CONSTANTS g, k, l, p1, c1

BothModes == BOOLEAN
OneGroup == {g}
TwoKeys == {k, l}
OnePoller == {p1}
OneClient == {c1}
NowOrLater == {0, 1}
AtOnceOrInFull == {0, 2}

KeySymmetry == Permutations(TwoKeys)
===============================================================================
