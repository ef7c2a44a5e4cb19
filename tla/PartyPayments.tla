---------------------------- MODULE PartyPayments ----------------------------
(***************************************************************************)
(* Payments to a vendor, a mechanic or a supplier, the bill they settle,   *)
(* and their corrections: services_payment_corrections.py, the payment     *)
(* handlers of routers/vendors.py (routers/mechanics.py has the same) and  *)
(* of routers/suppliers.py, and the deletion of a bill of                  *)
(* routers/vendor_bills.py.                                                *)
(*                                                                         *)
(* A correction of the amount reverses the payment first and inserts the   *)
(* replacement then; nothing is undone when a step raises.  The expected   *)
(* correction_count that a client may send is compared with the copy.      *)
(*                                                                         *)
(* A request does one operation; the id of the row, and of the correction, *)
(* that it inserts is the request itself.  The hook is one step here.      *)
(***************************************************************************)
EXTENDS Naturals, FiniteSets

CONSTANTS
  Request,  \* requests, each of which runs at most once
  Opening,  \* the payment there is from the beginning
  Amount,   \* amounts
  Party,    \* which handlers edit a payment: "vendor" (or mechanic), "supplier"
  Nothing   \* no document, no legs

Row == Request \cup {Opening}
Count == 0..Cardinality(Request)

VARIABLES
  party,       \* the type of this payment's party
  bill,        \* the bill (or work order, or trip): "live" or "deleted"
  payments,    \* db.vendor_payments, .mechanic_payments or .supplier_payments
  corrections, \* db.payment_corrections
  legs,        \* the amount that fin_txn shows of each payment
  pc,          \* where each request is
  hand,        \* what it has read and been asked for
  marred       \* history: what has happened besides one request after the other

vars == <<party, bill, payments, corrections, legs, pc, hand, marred>>

-----------------------------------------------------------------------------
(* Data.                                                                   *)

Payment ==
  [amount : Amount, billed : BOOLEAN, is_deleted : BOOLEAN, is_reversed : BOOLEAN,
   reversal_of : Row \cup {Nothing}, correction_count : Nat,
   latest_correction_id : Request \cup {Nothing}]

Correction ==
  [payment_id : Row, correction_index : Nat,
   kind : {"attribute", "amount_reversal_new"}]

Fresh(a, b) ==
  [amount |-> a, billed |-> b, is_deleted |-> FALSE, is_reversed |-> FALSE,
   reversal_of |-> Nothing, correction_count |-> 0, latest_correction_id |-> Nothing]

Exists(p) == payments[p] # Nothing

(* _load_payment: what may be corrected.                                   *)
Correctable(p) == Exists(p) /\ ~payments[p].is_deleted /\ ~payments[p].is_reversed

(* A deleted or reversed payment has no legs.                              *)
View(p) == IF Correctable(p) THEN payments[p].amount ELSE Nothing

Blank == [pid |-> Nothing, doc |-> Nothing, amount |-> Nothing, billed |-> FALSE]

Idle == {"new", "done"}
Busy == {r \in Request : pc[r] \notin Idle}
Quiet == Busy = {}

Init ==
  /\ party \in Party
  /\ bill = "live"
  /\ \E a \in Amount, b \in BOOLEAN :
       /\ payments = [p \in Row |-> IF p = Opening THEN Fresh(a, b) ELSE Nothing]
       /\ legs = [p \in Row |-> IF p = Opening THEN a ELSE Nothing]
  /\ corrections = [r \in Request |-> Nothing]
  /\ pc = [r \in Request |-> "new"]
  /\ hand = [r \in Request |-> Blank]
  /\ marred = {}

-----------------------------------------------------------------------------
(* Requests.                                                               *)

Begin(r, at, what) ==
  /\ pc[r] = "new"
  /\ pc' = [pc EXCEPT ![r] = at]
  /\ hand' = [hand EXCEPT ![r] = what]
  /\ marred' = IF Quiet THEN marred ELSE marred \cup {"overlap"}
  /\ UNCHANGED <<party, bill, payments, corrections, legs>>

(* A request goes on, or ends and forgets what it held.                    *)
Goto(r, from, to) ==
  /\ pc[r] = from
  /\ pc' = [pc EXCEPT ![r] = to]
  /\ hand' = IF to = "done" THEN [hand EXCEPT ![r] = Blank] ELSE hand
  /\ UNCHANGED <<party, marred>>

Set(p, doc) == payments' = [payments EXCEPT ![p] = doc]

(* hook_after_source_write on one payment, then on.                        *)
Hook(r, p, from, to) ==
  /\ Goto(r, from, to)
  /\ legs' = [legs EXCEPT ![p] = View(p)]
  /\ UNCHANGED <<bill, payments, corrections>>

(* A step raises, or the process dies: nothing is undone.                  *)
Die(r) ==
  /\ r \in Busy
  /\ pc' = [pc EXCEPT ![r] = "done"]
  /\ hand' = [hand EXCEPT ![r] = Blank]
  /\ marred' = marred \cup {"death"}
  /\ UNCHANGED <<party, bill, payments, corrections, legs>>

-----------------------------------------------------------------------------
(* create_vendor_payment: a bill it names is looked up, and is live.       *)

CreateFind(r, a, b) ==
  /\ b => bill = "live"
  /\ Begin(r, "create", [Blank EXCEPT !.amount = a, !.billed = b])

CreateInsert(r) ==
  /\ Goto(r, "create", "create_hook")
  /\ Set(r, Fresh(hand[r].amount, hand[r].billed))
  /\ UNCHANGED <<bill, corrections, legs>>

CreateHook(r) == Hook(r, r, "create_hook", "done")

(* delete_vendor_payment: whatever the payment's state.                    *)
DeleteFind(r, p) ==
  /\ Exists(p)
  /\ Begin(r, "delete", [Blank EXCEPT !.pid = p])

DeleteWrite(r) ==
  /\ Goto(r, "delete", "hook")
  /\ Set(hand[r].pid, [payments[hand[r].pid] EXCEPT !.is_deleted = TRUE])
  /\ UNCHANGED <<bill, corrections, legs>>

(* The PUT handlers take any payment that exists.                          *)
EditFind(r, p, a, b) ==
  /\ Exists(p)
  /\ Begin(r, "edit", [Blank EXCEPT !.pid = p, !.amount = a, !.billed = b])

(* update_vendor_payment writes every field of the model, and those of the *)
(* correction with the defaults of a body that does not name them.         *)
EditVendor(r) ==
  /\ party = "vendor"
  /\ Goto(r, "edit", "hook")
  /\ LET p == hand[r].pid IN
     Set(p, [Fresh(hand[r].amount, hand[r].billed) EXCEPT
               !.is_deleted = payments[p].is_deleted])
  /\ UNCHANGED <<bill, corrections, legs>>

(* update_payment of suppliers.py takes those fields out of the patch.     *)
EditSupplier(r) ==
  /\ party = "supplier"
  /\ Goto(r, "edit", "hook")
  /\ Set(hand[r].pid, [payments[hand[r].pid] EXCEPT
                         !.amount = hand[r].amount, !.billed = hand[r].billed])
  /\ UNCHANGED <<bill, corrections, legs>>

HookOfOne(r) == Hook(r, hand[r].pid, "hook", "done")

-----------------------------------------------------------------------------
(* apply_attribute_correction: load, check the expected count if there is  *)
(* one, look the new bill up, write, record, project.                      *)

Expected(p, e) == e # Nothing => payments[p].correction_count = e

AttrLoad(r, p, b, e) ==
  /\ Correctable(p)
  /\ Expected(p, e)
  /\ payments[p].billed # b
  /\ Begin(r, IF b THEN "attr_bill" ELSE "attr_write",
           [pid |-> p, doc |-> payments[p], amount |-> Nothing, billed |-> b])

AttrBill(r) ==
  /\ Goto(r, "attr_bill", IF bill = "live" THEN "attr_write" ELSE "done")
  /\ UNCHANGED <<bill, payments, corrections, legs>>

(* The count is that of the copy and one more.                             *)
AttrWrite(r) ==
  /\ Goto(r, "attr_write", "attr_record")
  /\ Set(hand[r].pid, [payments[hand[r].pid] EXCEPT
                         !.billed = hand[r].billed,
                         !.correction_count = hand[r].doc.correction_count + 1,
                         !.latest_correction_id = r])
  /\ UNCHANGED <<bill, corrections, legs>>

Record(r, i, kind) ==
  corrections' = [corrections EXCEPT ![r] =
    [payment_id |-> hand[r].pid, correction_index |-> i, kind |-> kind]]

AttrRecord(r) ==
  /\ Goto(r, "attr_record", "hook")
  /\ Record(r, hand[r].doc.correction_count + 1, "attribute")
  /\ UNCHANGED <<bill, payments, legs>>

-----------------------------------------------------------------------------
(* apply_amount_reversal_new: reverse, insert, record, project both.       *)

(* A mutant: a payment that is reversed already may be loaded.             *)
AmountLoadAny(r, p, a, e) ==
  /\ Exists(p) /\ ~payments[p].is_deleted
  /\ Expected(p, e)
  /\ payments[p].amount # a
  /\ Begin(r, "reverse",
           [pid |-> p, doc |-> payments[p], amount |-> a, billed |-> FALSE])

AmountLoad(r, p, a, e) ==
  /\ Correctable(p)
  /\ Expected(p, e)
  /\ payments[p].amount # a
  /\ Begin(r, "reverse",
           [pid |-> p, doc |-> payments[p], amount |-> a, billed |-> FALSE])

(* The count is incremented where it is stored.                            *)
MarkReversed(r) ==
  /\ Goto(r, "reverse", "insert")
  /\ Set(hand[r].pid, [payments[hand[r].pid] EXCEPT
                         !.is_reversed = TRUE, !.correction_count = @ + 1,
                         !.latest_correction_id = r])
  /\ UNCHANGED <<bill, corrections, legs>>

(* The replacement is the copy with the new amount.                        *)
InsertFresh(r) ==
  /\ Goto(r, "insert", "record")
  /\ Set(r, [hand[r].doc EXCEPT
               !.amount = hand[r].amount, !.reversal_of = hand[r].pid,
               !.correction_count = 0, !.latest_correction_id = Nothing])
  /\ UNCHANGED <<bill, corrections, legs>>

(* A mutant: the correction is recorded under the count of the copy.       *)
RecordAmountOld(r) ==
  /\ Goto(r, "record", "hook_both")
  /\ Record(r, hand[r].doc.correction_count, "amount_reversal_new")
  /\ UNCHANGED <<bill, payments, legs>>

(* The count is read again; a stored 0 counts as 1.                        *)
RecordAmount(r) ==
  /\ Goto(r, "record", "hook_both")
  /\ LET n == payments[hand[r].pid].correction_count
     IN  Record(r, IF n = 0 THEN 1 ELSE n, "amount_reversal_new")
  /\ UNCHANGED <<bill, payments, legs>>

HookReversed(r) == Hook(r, hand[r].pid, "hook_both", "hook_fresh")

(* A mutant: only the reversed payment is projected again.                 *)
HookFreshNot(r) == Hook(r, hand[r].pid, "hook_fresh", "done")

HookFresh(r) == Hook(r, r, "hook_fresh", "done")

-----------------------------------------------------------------------------
(* delete_vendor_bill: no live payment names the bill, when it is counted. *)

Linked == \E p \in Row : Exists(p) /\ payments[p].billed /\ ~payments[p].is_deleted

BillCount(r) ==
  /\ bill = "live"
  /\ ~Linked
  /\ Begin(r, "bill", Blank)

BillDelete(r) ==
  /\ Goto(r, "bill", "done")
  /\ bill' = "deleted"
  /\ UNCHANGED <<payments, corrections, legs>>

-----------------------------------------------------------------------------
Expectation == Count \cup {Nothing}

Step(r) ==
  \/ \E a \in Amount, b \in BOOLEAN : CreateFind(r, a, b)
  \/ CreateInsert(r) \/ CreateHook(r)
  \/ \E p \in Row : DeleteFind(r, p)
  \/ DeleteWrite(r)
  \/ \E p \in Row, a \in Amount, b \in BOOLEAN : EditFind(r, p, a, b)
  \/ EditVendor(r) \/ EditSupplier(r) \/ HookOfOne(r)
  \/ \E p \in Row, b \in BOOLEAN, e \in Expectation : AttrLoad(r, p, b, e)
  \/ AttrBill(r) \/ AttrWrite(r) \/ AttrRecord(r)
  \/ \E p \in Row, a \in Amount, e \in Expectation : AmountLoad(r, p, a, e)
  \/ MarkReversed(r) \/ InsertFresh(r) \/ RecordAmount(r)
  \/ HookReversed(r) \/ HookFresh(r)
  \/ BillCount(r) \/ BillDelete(r)
  \/ Die(r)

Next == \E r \in Request : Step(r)

Spec == Init /\ [][Next]_vars

-----------------------------------------------------------------------------
(* Properties.                                                             *)

TypeOK ==
  /\ party \in Party
  /\ bill \in {"live", "deleted"}
  /\ payments \in [Row -> Payment \cup {Nothing}]
  /\ corrections \in [Request -> Correction \cup {Nothing}]
  /\ legs \in [Row -> Amount \cup {Nothing}]
  /\ marred \subseteq {"overlap", "death"}

Trail(p) == {r \in Request : corrections[r] # Nothing /\ corrections[r].payment_id = p}
Replacements(p) == {q \in Row : Exists(q) /\ payments[q].reversal_of = p}

(* What the corrections of a payment tell: they are numbered from one to   *)
(* its count, none twice; the last of them is the latest; and the payment  *)
(* is reversed exactly when it has one replacement.                        *)
Told(p) ==
  LET n == payments[p].correction_count IN
  /\ {corrections[r].correction_index : r \in Trail(p)} = 1..n
  /\ Cardinality(Trail(p)) = n
  /\ n > 0 => corrections[payments[p].latest_correction_id].correction_index = n
  /\ Cardinality(Replacements(p)) = IF payments[p].is_reversed THEN 1 ELSE 0

(* They promise it of a supplier's payments, between requests that come    *)
(* one after the other and end.                                            *)
TrailMatches ==
  Quiet /\ marred = {} /\ party = "supplier" => \A p \in Row : Exists(p) => Told(p)

(* Every handler projects what it has written, after it has written it: so *)
(* however requests overlap, once they have all ended, and none has died,  *)
(* the ledger shows each payment that is live, and no other.               *)
LedgerFollows ==
  Quiet /\ "death" \notin marred => \A p \in Row : legs[p] = View(p)

(* "Delete or reverse them first": between requests that come one after    *)
(* the other, a live payment does not name a deleted bill.                 *)
BillHasNoPayments ==
  "overlap" \notin marred /\ bill = "deleted" => ~Linked

(* "Corrections are frozen": a reversed payment stays reversed.  The       *)
(* handlers of a supplier's payment keep this, those of a vendor's do not. *)
Frozen(P) ==
  \A p \in Row :
    party \in P /\ Exists(p) /\ payments[p].is_reversed => payments'[p].is_reversed

ReversedStays == [][Frozen({"supplier"})]_vars
ReversedStaysAll == [][Frozen(Party)]_vars

=============================================================================
