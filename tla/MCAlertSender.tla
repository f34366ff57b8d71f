--------------------------- MODULE MCAlertSender ---------------------------
(* Model-checking instance of AlertSender. *)
EXTENDS AlertSender, TLC

CONSTANTS f1, f2

Findings == {f1, f2}
Symmetry == Permutations(Findings)
=============================================================================
