-------------------------- MODULE MCFinProjection --------------------------
(***************************************************************************)
(* Small instances of FinProjection with two kinds of document.            *)
(*   e1, e2  an expense: no compound ids, and the key of its credit leg    *)
(*           depends on the routing (paid now, owed to a vendor);          *)
(*   i1, i2  an invoice: its own leg under the exact id and, for i1, a     *)
(*           receipt under a compound id;                                  *)
(*   none    a deleted, historical or zero document: no legs.              *)
(***************************************************************************)
EXTENDS FinProjection, TLC

MCKey == {"credit_cash", "credit_vendor", "ar_debit", "bank_in"}
MCLeg == [key : MCKey, of : Doc]
MCKeyOf == [l \in MCLeg |-> l.key]

MCSuffixes(d) ==
  CASE d = "e1" -> <<"credit_cash">>
    [] d = "e2" -> <<"credit_vendor">>
    [] d = "i1" -> <<"ar_debit", "bank_in">>
    [] d = "i2" -> <<"ar_debit">>
    [] OTHER -> <<>>

MCProject ==
  [d \in Doc |->
     [i \in 1 .. Len(MCSuffixes(d)) |-> [key |-> MCSuffixes(d)[i], of |-> d]]]

MCExact == MCKey \ {"bank_in"}

WriterSymmetry == Permutations(Writer)
=============================================================================
