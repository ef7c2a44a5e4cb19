------------------------------- MODULE FinLegs -------------------------------
(***************************************************************************)
(* What services_fin_txn.py makes of each source document: the legs of the *)
(* general ledger.  Every document is a record with a type, an id and a    *)
(* date; a project_... function is an operator from the document to a set  *)
(* of legs.                                                                *)
(*                                                                         *)
(* A leg has the key under which the unique index of fin_txn knows it.     *)
(* The legs of a document come in pairs, a debit ("in") and a credit       *)
(* ("out") of one amount, and the pairs of one document have different     *)
(* names.  Amounts are whole numbers: rounding to paise, narrations and    *)
(* the names of parties are left out.                                      *)
(***************************************************************************)
EXTENDS Integers, FiniteSets, Functions

-----------------------------------------------------------------------------
(* The leg factory.                                                        *)

ModeAccount(mode) == IF mode = "Cash" THEN "CASH" ELSE "BANK_DEFAULT"

Leg(source, pair, dir, account, amount, date, party) ==
  [key |-> <<source, pair, dir>>, dir |-> dir, account |-> account,
   amount |-> amount, date |-> date, party |-> party]

(* dr is debited and cr is credited with the amount, if there is any.      *)
Pair(source, pair, dr, cr, amount, date, party) ==
  IF amount <= 0 THEN {}
  ELSE {Leg(source, pair, "in", dr, amount, date, party),
        Leg(source, pair, "out", cr, amount, date, party)}

Source(d) == <<d.type, d.id>>

-----------------------------------------------------------------------------
(* Customers.                                                              *)

(* The receivable is net of what the customer has advanced; the advances   *)
(* that the invoice uses up are sales too; each payment is a receipt.      *)
(* Nothing is written of an invoice that comes to nothing.                 *)
InvoiceLegs(inv) ==
  IF inv.historical \/ inv.amount <= 0 THEN {}
  ELSE Pair(Source(inv), "raise", "AR", "SALES", inv.amount, inv.date, inv.party)
       \cup Pair(Source(inv), "offset", "CUSTOMER_ADVANCE", "SALES", inv.offset,
                 inv.date, inv.party)
       \cup UNION {Pair(<<"invoice_payment", <<inv.id, p.id>>>>, "receipt",
                        ModeAccount(p.mode), "AR", p.amount, p.date, inv.party)
                   : p \in inv.payments}

NoteLegs(n) ==
  IF n.status # "issued" \/ n.historical THEN {}
  ELSE IF n.kind = "credit"
  THEN Pair(Source(n), "credit", "SALES", "AR", n.amount, n.date, n.party)
  ELSE Pair(Source(n), "debit", "AR", "SALES", n.amount, n.date, n.party)

(* What a customer pays on a trip, before there is an invoice.             *)
ReceiptLegs(t) ==
  IF t.historical THEN {}
  ELSE UNION {Pair(<<"trip_customer_receipt", <<t.id, r.id>>>>, r.kind,
                   ModeAccount(r.mode), "CUSTOMER_ADVANCE", r.amount, r.date, t.party)
              : r \in t.receipts}

-----------------------------------------------------------------------------
(* Payments to and from the other parties.                                 *)

Gone(d) == d.is_deleted \/ d.is_reversed

PaidLegs(p, payable) ==
  IF p.out THEN Pair(Source(p), "out", payable, ModeAccount(p.mode), p.amount, p.date, p.party)
  ELSE Pair(Source(p), "in", ModeAccount(p.mode), payable, p.amount, p.date, p.party)

SupplierPaymentLegs(p) ==
  IF Gone(p) \/ p.historical THEN {} ELSE PaidLegs(p, "AP_SUPPLIER")

(* Vendors, mechanics and drivers: nobody asks whether it is historical.   *)
PartyPaymentLegs(p, payable) == IF Gone(p) THEN {} ELSE PaidLegs(p, payable)

-----------------------------------------------------------------------------
(* Costs.                                                                  *)

(* The first rule that applies names the account that is credited.         *)
CreditAccount(e) ==
  IF e.supplier_mode = "supplier_settlement_adjustment" THEN "AP_SUPPLIER"
  ELSE IF e.supplier_mode = "company_borne" THEN "CASH"
  ELSE IF e.source_type = "fastag_import" THEN "WALLET_FASTAG"
  ELSE IF e.source_type = "fleet_card_import" THEN "WALLET_FUEL"
  ELSE IF e.bill # "none" THEN "AP_VENDOR"
  ELSE IF e.order # "none" THEN "AP_MECHANIC"
  ELSE IF e.cash_now THEN "CASH" ELSE "SUSPENSE"

ExpenseLegs(e) ==
  IF Gone(e) \/ e.historical THEN {}
  ELSE Pair(Source(e), "expense", "EXPENSE_DEFAULT", CreditAccount(e), e.amount,
            e.date, e.party)

(* _has_paired_expense: a historical expense counts.                       *)
Paired(d, docs) ==
  \E e \in docs :
    /\ e.type = "expense" /\ ~Gone(e)
    /\ (d.type = "vendor_bill" /\ e.bill = d.id)
       \/ (d.type = "mechanic_work_order" /\ e.order = d.id)

(* A bill, or a work order, that no expense stands for.                    *)
OrphanLegs(d, payable, docs) ==
  IF d.is_deleted \/ Paired(d, docs) THEN {}
  ELSE Pair(Source(d), "orphan", "SUSPENSE", payable, d.amount, d.date, d.party)

-----------------------------------------------------------------------------
(* Wallets.                                                                *)

RechargeLegs(w) ==
  IF w.is_deleted THEN {}
  ELSE Pair(Source(w), "recharge", w.wallet, ModeAccount(w.mode), w.amount, w.date, "none")

TransferLegs(w) ==
  IF w.is_deleted \/ w.wallet = w.to THEN {}
  ELSE Pair(Source(w), "transfer", w.to, w.wallet, w.amount, w.date, "none")

AdjustmentLegs(w) ==
  IF w.is_deleted THEN {}
  ELSE IF w.increase
  THEN Pair(Source(w), "up", w.wallet, "SUSPENSE", w.amount, w.date, "none")
  ELSE Pair(Source(w), "down", "SUSPENSE", w.wallet, w.amount, w.date, "none")

-----------------------------------------------------------------------------
(* reproject_source: the document as it is now, if it is there.            *)
Legs(d, docs) ==
  CASE d.type = "invoice"             -> InvoiceLegs(d)
    [] d.type = "credit_debit_note"   -> NoteLegs(d)
    [] d.type = "supplier_payment"    -> SupplierPaymentLegs(d)
    [] d.type = "vendor_payment"      -> PartyPaymentLegs(d, "AP_VENDOR")
    [] d.type = "mechanic_payment"    -> PartyPaymentLegs(d, "AP_MECHANIC")
    [] d.type = "driver_payment"      -> PartyPaymentLegs(d, "DRIVER_OUTFLOW")
    [] d.type = "expense"             -> ExpenseLegs(d)
    [] d.type = "vendor_bill"         -> OrphanLegs(d, "AP_VENDOR", docs)
    [] d.type = "mechanic_work_order" -> OrphanLegs(d, "AP_MECHANIC", docs)
    [] d.type = "trip"                -> ReceiptLegs(d)
    [] d.type = "wallet_recharge"     -> RechargeLegs(d)
    [] d.type = "wallet_transfer"     -> TransferLegs(d)
    [] d.type = "wallet_adjustment"   -> AdjustmentLegs(d)
    [] OTHER                          -> {}

(* The whole ledger of a company.                                          *)
Ledger(docs) == UNION {Legs(d, docs) : d \in docs}

(* _persist_legs: an upsert by key.                                        *)
Upsert(ledger, legs) ==
  {l \in ledger : \A m \in legs : l.key # m.key} \cup legs

(* _delete_by_source, with the receipts of an invoice or of a trip.        *)
Embedded == [invoice |-> "invoice_payment", trip |-> "trip_customer_receipt"]
Without(ledger, type, id) ==
  {l \in ledger :
     /\ l.key[1] # <<type, id>>
     /\ ~(/\ type \in DOMAIN Embedded
          /\ l.key[1][1] = Embedded[type] /\ l.key[1][2][1] = id)}

Reproject(ledger, type, id, docs) ==
  LET now == {d \in docs : d.type = type /\ d.id = id}
  IN  Upsert(Without(ledger, type, id), UNION {Legs(d, docs) : d \in now})

-----------------------------------------------------------------------------
(* Sums over the ledger.                                                   *)

SumOf(S, f(_)) == SumFunction([x \in S |-> f(x)])

(* The debits of an account less its credits.                              *)
Net(ledger, account) ==
  SumOf({l \in ledger : l.account = account},
      LAMBDA l : IF l.dir = "in" THEN l.amount ELSE -l.amount)

(* Debits and credits of the whole ledger are the same.                    *)
TrialBalance(ledger) ==
  SumOf(ledger, LAMBDA l : IF l.dir = "in" THEN l.amount ELSE -l.amount) = 0

(* _run_invariants, the first: the costs are the debits of the expenses.   *)
ExpenseSum(docs) ==
  SumOf({e \in docs : e.type = "expense" /\ ~Gone(e) /\ ~e.historical}, LAMBDA e : e.amount)
ExpenseInvariant(docs, ledger) == ExpenseSum(docs) = Net(ledger, "EXPENSE_DEFAULT")

=============================================================================
