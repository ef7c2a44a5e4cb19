------------------------------ MODULE PartyLedger ------------------------------
(***************************************************************************)
(* The ledger of a vendor or of a mechanic, as services_party_ledger.py    *)
(* builds it for the screen and for the printed form: bills or work orders *)
(* as debits, payments as credits, the balance before the period as the    *)
(* opening.  The documents have the shape that FinLegs gives them; the day *)
(* 0 is before every day.                                                  *)
(***************************************************************************)
EXTENDS FinLegs, Sequences

LOCAL INSTANCE SequencesExt

(* What each kind of party has, and the account of the general ledger.     *)
BillType == [vendor |-> "vendor_bill", mechanic |-> "mechanic_work_order"]
PaymentType == [vendor |-> "vendor_payment", mechanic |-> "mechanic_payment"]
Payable == [vendor |-> "AP_VENDOR", mechanic |-> "AP_MECHANIC"]

-----------------------------------------------------------------------------
(* _load_bill_rows, _load_payment_rows                                     *)

BillRows(docs, kind, p) ==
  {[id |-> d.id, date |-> d.date, kind |-> 1, vehicle |-> d.vehicle, link |-> "none",
    debit |-> d.amount, credit |-> 0]
   : d \in {b \in docs : b.type = BillType[kind] /\ b.party = p /\ ~b.is_deleted}}

(* A payment that came in is a negative credit.                            *)
PaymentRows(docs, kind, p, reversed) ==
  {[id |-> d.id, date |-> d.date, kind |-> 2, vehicle |-> "none", link |-> d.link,
    debit |-> 0, credit |-> IF d.out THEN d.amount ELSE -d.amount]
   : d \in {q \in docs : q.type = PaymentType[kind] /\ q.party = p /\ ~q.is_deleted
                         /\ (q.is_reversed => reversed)}}

(* _batched_vehicle_lookup: of the bill, deleted or not, that it pays.     *)
WithVehicle(docs, kind, rows) ==
  {LET of == {b \in docs : b.type = BillType[kind] /\ b.id = r.link}
   IN  IF of = {} THEN r ELSE [r EXCEPT !.vehicle = (CHOOSE b \in of : TRUE).vehicle]
   : r \in rows}

Rows(docs, kind, p, reversed) ==
  BillRows(docs, kind, p) \cup WithVehicle(docs, kind, PaymentRows(docs, kind, p, reversed))

(* _sort_key: the day, bills before payments; the order of ids is left out. *)
Before(a, b) == a.date < b.date \/ (a.date = b.date /\ a.kind < b.kind)

Delta(r) == r.debit - r.credit

-----------------------------------------------------------------------------
(* build_party_ledger                                                      *)

(* A mutant: the first day of the period is in the opening too.            *)
OpeningTwice(rows, opening, start) ==
  opening + SumOf({r \in rows : start > 0 /\ r.date <= start}, Delta)

OpeningOf(rows, opening, start) ==
  opening + SumOf({r \in rows : start > 0 /\ r.date < start}, Delta)

(* "all" is no filter; the opening is of every vehicle.                    *)
PartyBook(docs, kind, p, opening, start, end, reversed, vehicle) ==
  LET rows == Rows(docs, kind, p, reversed)
      shown == {r \in rows : /\ start <= r.date /\ r.date <= end
                             /\ vehicle \in {"all", r.vehicle}}
      sorted == SetToSortSeq(shown, Before)
      first == OpeningOf(rows, opening, start)
      closing == first + SumOf(shown, Delta)
  IN  [opening |-> first,
       entries |-> [i \in DOMAIN sorted |->
                      [id |-> sorted[i].id,
                       balance |-> first + SumOf({sorted[j] : j \in 1 .. i}, Delta)]],
       closing |-> closing,
       outstanding |-> IF closing > 0 THEN closing ELSE 0]

-----------------------------------------------------------------------------
(* Two periods one after the other meet, and the balance that runs through *)
(* the rows ends with the closing one.                                     *)
PeriodsMeet(docs, kind, p, opening, day) ==
  LET before == PartyBook(docs, kind, p, opening, 1, day, FALSE, "all")
      after == PartyBook(docs, kind, p, opening, day + 1, 99, FALSE, "all")
      rows == Len(before.entries)
  IN  /\ before.closing = after.opening
      /\ rows > 0 => before.entries[rows].balance = before.closing

(* Every bill stands in the general ledger by itself, or by the one live   *)
(* expense that it is linked with, for the same amount.                    *)
Twinned(docs, kind) ==
  /\ \A e \in docs :
       e.type = "expense" /\ ~Gone(e) =>
         /\ ~e.historical /\ ~(e.bill # "none" /\ e.order # "none")
         /\ \A d \in docs : d.type = BillType[kind] /\ d.id \in {e.bill, e.order} =>
                              ~d.is_deleted /\ d.amount = e.amount /\ d.party = e.party
         /\ CreditAccount(e) = Payable[kind] =>
              \E d \in docs : d.type = BillType[kind] /\ d.id \in {e.bill, e.order}
  /\ \A d \in docs : d.type = BillType[kind] =>
       Cardinality({e \in docs : e.type = "expense" /\ ~Gone(e) /\ d.id \in {e.bill, e.order}}) <= 1

(* The ledger of the party says of the payable what the general ledger     *)
(* says of it, although it never reads an expense and the general ledger   *)
(* never reads the bill of an expense.                                     *)
PayableAgrees(docs, kind, p) ==
  Twinned(docs, kind) =>
    PartyBook(docs, kind, p, 0, 0, 99, FALSE, "all").closing
      = -Net({l \in Ledger(docs) : l.party = p}, Payable[kind])
=============================================================================
