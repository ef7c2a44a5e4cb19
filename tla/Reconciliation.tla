---------------------------- MODULE Reconciliation ----------------------------
(***************************************************************************)
(* The Reconciliation Center, services_reconciliation.py: what it compares *)
(* of the general ledger with the documents, by the domains it names A to  *)
(* F.  G lists the open rows of the module FinProjection, and H compares   *)
(* the snapshots of DayClosing account by account.                         *)
(*                                                                         *)
(* The Center decides by itself which documents should have legs, by other *)
(* conditions than the projection does, so that it may be silent about a   *)
(* ledger that is wrong and complain of one that is right.  Each domain is *)
(* an operator of the documents, the ledger and the days asked for; 0 and  *)
(* Always stand for no day.  Amounts are whole, so that the tolerance of a *)
(* paisa is none.                                                          *)
(***************************************************************************)
EXTENDS CustomerBooks

(* _date_range, _is_alive; a field that a model lacks is false.            *)
Dated(S, from, to) == {d \in S : from <= d.date /\ d.date <= to}
Set(d, fields) == \E f \in fields \cap DOMAIN d : d[f]
Dead(d) == Set(d, {"is_deleted", "is_reversed"})
Past(d) == Set(d, {"historical"})

Status(delta) == IF delta = 0 THEN "emerald" ELSE "rose"
Compared(source, projected) ==
  [source |-> source, projected |-> projected, delta |-> projected - source,
   status |-> Status(projected - source)]

-----------------------------------------------------------------------------
(* A: documents without legs, and legs without a document.  The payments   *)
(* of drivers and the receipts of invoices are not looked at.              *)

SourceTypes ==
  {"invoice", "credit_debit_note", "supplier_payment", "vendor_payment",
   "mechanic_payment", "expense", "vendor_bill", "mechanic_work_order",
   "trip_customer_receipt", "wallet_recharge", "wallet_transfer", "wallet_adjustment"}

Collection(type) == IF type = "trip_customer_receipt" THEN "trip" ELSE type
Root(l) == IF l.key[1][1] = "trip_customer_receipt" THEN l.key[1][2][1] ELSE l.key[1][2]
Projected(ledger, type) == {Root(l) : l \in {m \in ledger : m.key[1][1] = type}}

DomainA(docs, ledger, from, to) ==
  UNION {LET found == {d \in Dated(Of(docs, Collection(type)), from, to) : ~Past(d)}
             legs == Projected(Dated(ledger, from, to), type)
             rows(ids, note) == {[type |-> type, id |-> i, note |-> note] : i \in ids}
         IN  rows({d.id : d \in {x \in found : ~Dead(x)}} \ legs, "missing")
             \cup rows({d.id : d \in {x \in found : Dead(x)}} \cap legs, "ghost")
             \cup rows(legs \ {d.id : d \in found}, "orphan")
         : type \in SourceTypes}

-----------------------------------------------------------------------------
(* B, C and D: totals.  The invoices of C owe what they owe without their  *)
(* notes, whose legs are receivables too.                                  *)

DomainB(docs, ledger, from, to) ==
  Compared(SumOf({e \in Dated(Of(docs, "expense"), from, to) : ~Dead(e) /\ ~Past(e)},
               LAMBDA e : Positive(e.amount)),
           SumOf({l \in Dated(ledger, from, to) : l.account = "EXPENSE_DEFAULT" /\ l.dir = "in"},
               LAMBDA l : l.amount))

(* Amber: no more than a rupee, or five per cent of what is due.           *)
DomainC(docs, ledger, from, to) ==
  LET due == SumOf({i \in Dated(Of(docs, "invoice"), from, to) : ~Past(i)}, BalanceDue)
      found == Compared(due, Net(Dated(ledger, from, to), "AR"))
      size == IF found.delta < 0 THEN -found.delta ELSE found.delta
  IN  IF found.delta # 0 /\ (size <= 1 \/ 100 * size <= 5 * due)
      THEN [found EXCEPT !.status = "amber"] ELSE found

DomainD(docs, ledger, from, to) ==
  [kind \in {"credit", "debit"} |->
     Compared(SumOf({n \in Dated(Issued(docs), from, to) : n.kind = kind /\ ~Past(n)},
                  LAMBDA n : n.amount),
              SumOf({l \in Dated(ledger, from, to) :
                     /\ l.key[1][1] = "credit_debit_note" /\ l.account = "AR"
                     /\ l.dir = IF kind = "credit" THEN "out" ELSE "in"},
                  LAMBDA l : l.amount))]

-----------------------------------------------------------------------------
(* E: what the wallets should hold by the documents, where an imported     *)
(* expense is taken out of the wallet whose import it is from.             *)

Wallets == {"WALLET_FUEL", "WALLET_FASTAG"}
ImportOf(wallet) ==
  IF wallet = "WALLET_FASTAG" THEN "fastag_import" ELSE "fleet_card_import"
Consumed(docs, wallet) ==
  {e \in Of(docs, "expense") : ~Dead(e) /\ ~Past(e) /\ e.source_type = ImportOf(wallet)}

(* What a movement does to a wallet; a transfer to itself does nothing.    *)
Moves(w, wallet) ==
  CASE w.type = "wallet_recharge"   -> IF w.wallet = wallet THEN w.amount ELSE 0
    [] w.type = "wallet_adjustment" -> IF w.wallet # wallet THEN 0
                                       ELSE IF w.increase THEN w.amount ELSE -w.amount
    [] OTHER -> (IF w.to = wallet THEN w.amount ELSE 0)
                - (IF w.wallet = wallet THEN w.amount ELSE 0)

DomainE(docs, ledger, from, to) ==
  LET movements == {w \in docs : ~Set(w, {"is_deleted"})
                      /\ w.type \in {"wallet_recharge", "wallet_adjustment", "wallet_transfer"}}
  IN  [wallet \in Wallets |->
         Compared(SumOf(Dated(movements, from, to), LAMBDA w : Moves(w, wallet))
                    - SumOf(Dated(Consumed(docs, wallet), from, to), LAMBDA e : e.amount),
                  Net(Dated(ledger, from, to), wallet))]

-----------------------------------------------------------------------------
(* F: a bill, or a work order, has legs of its own or one expense.         *)

PairedBy(docs, d) ==
  {e \in Of(docs, "expense") : ~Dead(e) /\ d.id = IF d.type = "vendor_bill" THEN e.bill ELSE e.order}
HasOrphanLegs(ledger, d) == \E l \in ledger : l.key[1] = Source(d) /\ l.key[2] = "orphan"

DomainF(docs, ledger, from, to) ==
  {d \in Dated(Of(docs, "vendor_bill") \cup Of(docs, "mechanic_work_order"), from, to) :
     /\ ~Set(d, {"is_deleted"})
     /\ LET paired == Cardinality(PairedBy(docs, d))
        IN  \/ paired = 0 /\ ~HasOrphanLegs(ledger, d)
            \/ paired >= 2
            \/ paired >= 1 /\ HasOrphanLegs(ledger, d)}

-----------------------------------------------------------------------------
(* Properties.                                                             *)

RowsOfA(docs, ledger) == DomainA(docs, ledger, 0, Always)

(* Of a ledger that is the projection of the documents the Center does not *)
(* complain but in the ways that are known: a live document whose          *)
(* projection is empty by design is "missing" (a note that is not issued,  *)
(* a paired bill, a trip without receipts, an invoice over nothing), a     *)
(* historical payment to a vendor or mechanic, which is projected all the  *)
(* same, is an "orphan", the receivables differ by the notes, and a wallet *)
(* by the imported expenses that it did not pay.                           *)
NoFalseAlarm(docs) ==
  LET ledger == Ledger(docs)
      rows == RowsOfA(docs, ledger)
      notes == {n \in Issued(docs) : ~Past(n)}
      e == DomainE(docs, ledger, 0, Always)
  IN  /\ \A r \in rows : r.note # "ghost"
      /\ \A r \in rows : r.note = "missing" =>
           \E d \in Of(docs, Collection(r.type)) : d.id = r.id /\ Legs(d, docs) = {}
      /\ \A r \in rows : r.note = "orphan" =>
           \E d \in Of(docs, Collection(r.type)) : d.id = r.id /\ Past(d)
      /\ DomainB(docs, ledger, 0, Always).status = "emerald"
      /\ (\A i \in Of(docs, "invoice") : i.amount > 0) =>
           DomainC(docs, ledger, 0, Always).delta = SumOf(notes, Signed)
      /\ \A kind \in {"credit", "debit"} :
           DomainD(docs, ledger, 0, Always)[kind].status = "emerald"
      /\ \A w \in Wallets :
           e[w].delta = SumOf({x \in Consumed(docs, w) : CreditAccount(x) # w}, LAMBDA x : x.amount)
      /\ \A d \in DomainF(docs, ledger, 0, Always) : Cardinality(PairedBy(docs, d)) >= 2

(* Of any ledger, a document whose legs are all missing, and one that has  *)
(* legs and should have none, is a row of A or of F; the historical        *)
(* payments are looked past.                                               *)
AlarmIsRaised(docs, ledger) ==
  \A type \in SourceTypes : \A d \in {x \in Of(docs, Collection(type)) : ~Past(x)} :
    LET there == d.id \in Projected(ledger, type)
    IN  there # (Legs(d, docs) # {}) =>
          \/ \E r \in RowsOfA(docs, ledger) : r.type = type /\ r.id = d.id
          \/ d \in DomainF(docs, ledger, 0, Always)
=============================================================================
