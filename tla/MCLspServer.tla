---------------------------- MODULE MCLspServer -----------------------------
(* Instances of LspServer for TLC.                                         *)
EXTENDS LspServer, TLC

CONSTANTS c1, c2, c3, f1

ThreeCallers == {c1, c2, c3}
AllFaults == {"crash", "kill", "spawn", "refuse", "error"}
OneFile == {f1}

CallerSymmetry == Permutations(ThreeCallers)
=============================================================================
