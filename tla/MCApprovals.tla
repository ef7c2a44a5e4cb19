---------------------------- MODULE MCApprovals -----------------------------
(* Small instances of Approvals for TLC.                                   *)
EXTENDS Approvals, TLC

Symmetry == Permutations(Owner) \cup Permutations(Payload)
=============================================================================
