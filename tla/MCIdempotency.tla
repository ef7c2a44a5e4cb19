--------------------------- MODULE MCIdempotency ---------------------------
(***************************************************************************)
(* Idempotency for TLC: a leader, a follower and a late retry. Attempts    *)
(* are interchangeable, but symmetry would be unsound for Answered.        *)
(***************************************************************************)
EXTENDS Idempotency, TLC
=============================================================================
