---------------------------- MODULE MCDayClosing ----------------------------
(* Small instances of DayClosing for TLC.                                  *)
EXTENDS DayClosing, TLC

Symmetry == Permutations(Owner)
=============================================================================
