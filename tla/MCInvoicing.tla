---------------------------- MODULE MCInvoicing ----------------------------
(* Invoicing for TLC.                                                      *)
EXTENDS Invoicing, TLC

Symmetry == Permutations(Trip) \cup Permutations(Price) \cup Permutations(Invoice)
              \cup Permutations(Receipt) \cup Permutations(Remittance) \cup Permutations(Clerk)
=============================================================================
