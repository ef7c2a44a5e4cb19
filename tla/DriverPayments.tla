--------------------------- MODULE DriverPayments ---------------------------
(***************************************************************************)
(* Payments to drivers and their corrections: routers/driver_payments.py.  *)
(*                                                                         *)
(* A correction of the amount writes four documents and projects two of    *)
(* them, one await after the other; when a step raises, the handler undoes *)
(* what it has done with up to five best-effort calls (_compensate), each  *)
(* of which may fail in silence.  Any request may run between two calls,   *)
(* and a process may die at each.                                          *)
(*                                                                         *)
(* A request does one operation; the id of the row, and of the audit row,  *)
(* that it inserts is the request itself.  The hook is one step here.      *)
(***************************************************************************)
EXTENDS Naturals, FiniteSets

CONSTANTS
  Request,  \* requests, each of which runs at most once
  Opening,  \* the payment there is from the beginning
  Amount,   \* amounts, as positive numbers
  Nothing   \* no document, no legs

Row == Request \cup {Opening}

VARIABLES
  payments, \* db.driver_payments
  audits,   \* db.driver_payment_corrections
  legs,     \* the amount that fin_txn shows of each payment
  owed,     \* the payments with an open row in fin_hook_failures
  pc,       \* where each request is
  hand,     \* the payment it corrects, as it has read it, and the new amount
  undo,     \* what _compensate has left to do
  marred    \* history: what has happened besides one request after the other

vars == <<payments, audits, legs, owed, pc, hand, undo, marred>>

-----------------------------------------------------------------------------
(* Data.                                                                   *)

Payment ==
  [amount : Amount, is_reversed : BOOLEAN, reversal_of : Row \cup {Nothing},
   correction_count : Nat,
   latest_correction_id : Request \cup {Nothing}]

Audit ==
  [payment_id : Row, correction_index : Nat \ {0},
   kind : {"attribute", "amount_reversal_new"}]

Fresh(a, p) ==
  [amount |-> a, is_reversed |-> FALSE, reversal_of |-> p,
   correction_count |-> 0, latest_correction_id |-> Nothing]

Exists(p) == payments[p] # Nothing
Live(p) == Exists(p) /\ ~payments[p].is_reversed

(* A reversed payment has no legs, and one that is not there has none.     *)
View(p) == IF Live(p) THEN payments[p].amount ELSE Nothing

Blank == [pid |-> Nothing, doc |-> Nothing, amount |-> Nothing]

Ended == {"new", "done"}
Busy == {r \in Request : pc[r] \notin Ended}
Quiet == Busy = {}

Init ==
  /\ \E a \in Amount :
       /\ payments = [p \in Row |-> IF p = Opening THEN Fresh(a, Nothing) ELSE Nothing]
       /\ legs = [p \in Row |-> IF p = Opening THEN a ELSE Nothing]
  /\ audits = [r \in Request |-> Nothing]
  /\ owed = {}
  /\ pc = [r \in Request |-> "new"]
  /\ hand = [r \in Request |-> Blank]
  /\ undo = [r \in Request |-> {}]
  /\ marred = {}

-----------------------------------------------------------------------------
(* Requests.                                                               *)

Begin(r, at, what) ==
  /\ pc[r] = "new"
  /\ pc' = [pc EXCEPT ![r] = at]
  /\ hand' = [hand EXCEPT ![r] = what]
  /\ marred' = IF Quiet THEN marred ELSE marred \cup {"overlap"}
  /\ UNCHANGED <<payments, audits, legs, owed, undo>>

(* A request goes on, or ends and forgets what it held.                    *)
Continue(r, to) ==
  /\ pc' = [pc EXCEPT ![r] = to]
  /\ hand' = IF to \in Ended THEN [hand EXCEPT ![r] = Blank] ELSE hand

Goto(r, from, to) ==
  /\ pc[r] = from
  /\ Continue(r, to)
  /\ UNCHANGED <<undo, marred>>

(* hook_after_source_write: the legs become those of the document, or the  *)
(* projection fails, before or after its delete, and leaves a failure row. *)
HookOk(p) ==
  /\ legs' = [legs EXCEPT ![p] = View(p)]
  /\ owed' = owed \ {p}

HookFails(p) ==
  /\ legs' \in {legs, [legs EXCEPT ![p] = Nothing]}
  /\ owed' = owed \cup {p}

(* The retry driver.                                                       *)
Replay(p) ==
  /\ p \in owed
  /\ HookOk(p)
  /\ UNCHANGED <<payments, audits, pc, hand, undo, marred>>

-----------------------------------------------------------------------------
(* create_driver_payment: insert, then the hook, whose failure is queued.  *)

Create(r, a) == Begin(r, "create", [Blank EXCEPT !.amount = a])

CreateInsert(r) ==
  /\ Goto(r, "create", "create_hook")
  /\ payments' = [payments EXCEPT ![r] = Fresh(hand[r].amount, Nothing)]
  /\ UNCHANGED <<audits, legs, owed>>

CreateHook(r) ==
  /\ Goto(r, "create_hook", "done")
  /\ HookOk(r) \/ HookFails(r)
  /\ UNCHANGED <<payments, audits>>

-----------------------------------------------------------------------------
(* correct_driver_payment: attributes in place, the audit row first.  The  *)
(* attributes have no leg and no hook is called.                           *)

CorrectRead(r, p) ==
  /\ Live(p)
  /\ Begin(r, "attr_audit", [pid |-> p, doc |-> payments[p], amount |-> Nothing])

AuditOf(r, kind) ==
  [payment_id |-> hand[r].pid, correction_index |-> hand[r].doc.correction_count + 1,
   kind |-> kind]

CorrectAudit(r) ==
  /\ Goto(r, "attr_audit", "attr_write")
  /\ audits' = [audits EXCEPT ![r] = AuditOf(r, "attribute")]
  /\ UNCHANGED <<payments, legs, owed>>

(* What both corrections write on the original; the copy may be gone.      *)
Counted(r, reversed) ==
  [payments[hand[r].pid] EXCEPT
     !.is_reversed = @ \/ reversed,
     !.correction_count = hand[r].doc.correction_count + 1,
     !.latest_correction_id = r]

SetOriginal(r, doc) ==
  payments' = IF Exists(hand[r].pid)
              THEN [payments EXCEPT ![hand[r].pid] = doc] ELSE payments

CorrectWrite(r) ==
  /\ Goto(r, "attr_write", "done")
  /\ SetOriginal(r, Counted(r, FALSE))
  /\ UNCHANGED <<audits, legs, owed>>

-----------------------------------------------------------------------------
(* correct_driver_payment_amount: five steps, each of which may raise.     *)

(* A mutant: a reversed payment may be corrected again.                    *)
AmountReadAny(r, p, a) ==
  /\ Exists(p)
  /\ Begin(r, "insert", [pid |-> p, doc |-> payments[p], amount |-> a])

AmountRead(r, p, a) ==
  /\ Live(p)
  /\ Begin(r, "insert", [pid |-> p, doc |-> payments[p], amount |-> a])

(* Step 1: the replacement.                                                *)
InsertFresh(r) ==
  /\ Goto(r, "insert", "project")
  /\ payments' = [payments EXCEPT ![r] = Fresh(hand[r].amount, hand[r].pid)]
  /\ UNCHANGED <<audits, legs, owed>>

(* A mutant: the audit row is forgotten.                                   *)
ProjectFreshOnly(r) ==
  /\ Goto(r, "project", "flip")
  /\ HookOk(r)
  /\ UNCHANGED <<payments, audits>>

(* Step 2: its legs.                                                       *)
ProjectFresh(r) ==
  /\ Goto(r, "project", "audit")
  /\ HookOk(r)
  /\ UNCHANGED <<payments, audits>>

(* Step 3: the audit row.                                                  *)
InsertAudit(r) ==
  /\ Goto(r, "audit", "flip")
  /\ audits' = [audits EXCEPT ![r] = AuditOf(r, "amount_reversal_new")]
  /\ UNCHANGED <<payments, legs, owed>>

(* Step 4: the original is reversed.                                       *)
Flip(r) ==
  /\ Goto(r, "flip", "reproject")
  /\ SetOriginal(r, Counted(r, TRUE))
  /\ UNCHANGED <<audits, legs, owed>>

(* Step 5: and its legs go.                                                *)
ReprojectOriginal(r) ==
  /\ Goto(r, "reproject", "done")
  /\ HookOk(hand[r].pid)
  /\ UNCHANGED <<payments, audits>>

(* What is undone depends on the step that raised.                         *)
Undoing ==
  [project   |-> {"fresh", "fresh_legs"},
   audit     |-> {"fresh", "fresh_legs"},
   flip      |-> {"fresh", "fresh_legs", "audit"},
   reproject |-> {"fresh", "fresh_legs", "audit", "original", "original_legs"}]

(* A step raises, or its hook is not ok: the work is undone.               *)
StepRaises(r) ==
  /\ pc[r] \in DOMAIN Undoing
  /\ undo' = [undo EXCEPT ![r] = Undoing[pc[r]]]
  /\ CASE pc[r] = "project"   -> HookFails(r)
       [] pc[r] = "reproject" -> HookFails(hand[r].pid)
       [] OTHER               -> UNCHANGED <<legs, owed>>
  /\ pc' = [pc EXCEPT ![r] = "undo"]
  /\ marred' = marred \cup {"step"}
  /\ UNCHANGED <<payments, audits, hand>>

(* Elsewhere the request ends with the error, and nothing is undone.       *)
Raises(r) ==
  /\ pc[r] \in {"create", "attr_audit", "attr_write", "insert"}
  /\ Continue(r, "done")
  /\ marred' = IF pc[r] = "attr_write" THEN marred \cup {"death"} ELSE marred
  /\ UNCHANGED <<payments, audits, legs, owed, undo>>

-----------------------------------------------------------------------------
(* _compensate: its calls in their order.                                  *)

Before(item) ==
  CASE item = "fresh"         -> {}
    [] item = "fresh_legs"    -> {"fresh"}
    [] item = "audit"         -> {"fresh", "fresh_legs"}
    [] item = "original"      -> {"fresh", "fresh_legs", "audit"}
    [] item = "original_legs" -> {"fresh", "fresh_legs", "audit", "original"}

UndoNext(r, item) ==
  /\ pc[r] = "undo"
  /\ item \in undo[r]
  /\ undo[r] \cap Before(item) = {}
  /\ undo' = [undo EXCEPT ![r] = @ \ {item}]
  /\ Continue(r, IF undo[r] = {item} THEN "done" ELSE "undo")

DropFresh(r) ==
  /\ UndoNext(r, "fresh")
  /\ payments' = [payments EXCEPT ![r] = Nothing]
  /\ UNCHANGED <<audits, legs, owed, marred>>

DropFreshLegs(r) ==
  /\ UndoNext(r, "fresh_legs")
  /\ legs' = [legs EXCEPT ![r] = Nothing]
  /\ UNCHANGED <<payments, audits, owed, marred>>

DropAudit(r) ==
  /\ UndoNext(r, "audit")
  /\ audits' = [audits EXCEPT ![r] = Nothing]
  /\ UNCHANGED <<payments, legs, owed, marred>>

(* restore_fields are those of the copy, whatever happened since.          *)
RestoreOriginal(r) ==
  /\ UndoNext(r, "original")
  /\ SetOriginal(r, [payments[hand[r].pid] EXCEPT
                       !.is_reversed = hand[r].doc.is_reversed,
                       !.correction_count = hand[r].doc.correction_count,
                       !.latest_correction_id = hand[r].doc.latest_correction_id])
  /\ UNCHANGED <<audits, legs, owed, marred>>

RestoreLegs(r) ==
  /\ UndoNext(r, "original_legs")
  /\ HookOk(hand[r].pid) \/ HookFails(hand[r].pid)
  /\ UNCHANGED <<payments, audits, marred>>

(* A call of _compensate fails, and nobody is told.                        *)
UndoFails(r) ==
  /\ \E item \in undo[r] \ {"original_legs"} : UndoNext(r, item)
  /\ marred' = marred \cup {"undo"}
  /\ UNCHANGED <<payments, audits, legs, owed>>

Die(r) ==
  /\ r \in Busy
  /\ Continue(r, "done")
  /\ undo' = [undo EXCEPT ![r] = {}]
  /\ marred' = marred \cup {"death"}
  /\ UNCHANGED <<payments, audits, legs, owed>>

-----------------------------------------------------------------------------
Step(r) ==
  \/ \E a \in Amount : Create(r, a)
  \/ CreateInsert(r) \/ CreateHook(r)
  \/ \E p \in Row : CorrectRead(r, p)
  \/ CorrectAudit(r) \/ CorrectWrite(r)
  \/ \E p \in Row, a \in Amount : AmountRead(r, p, a)
  \/ InsertFresh(r) \/ ProjectFresh(r) \/ InsertAudit(r) \/ Flip(r)
  \/ ReprojectOriginal(r)
  \/ StepRaises(r) \/ Raises(r)
  \/ DropFresh(r) \/ DropFreshLegs(r) \/ DropAudit(r)
  \/ RestoreOriginal(r) \/ RestoreLegs(r) \/ UndoFails(r)
  \/ Die(r)

Next ==
  \/ \E r \in Request : Step(r)
  \/ \E p \in Row : Replay(p)

Spec == Init /\ [][Next]_vars

-----------------------------------------------------------------------------
(* Properties.                                                             *)

TypeOK ==
  /\ payments \in [Row -> Payment \cup {Nothing}]
  /\ audits \in [Request -> Audit \cup {Nothing}]
  /\ legs \in [Row -> Amount \cup {Nothing}]
  /\ owed \subseteq Row
  /\ \A r \in Request : undo[r] \subseteq Undoing.reproject
  /\ marred \subseteq {"overlap", "step", "undo", "death"}

Replacements(p) == {q \in Row : Exists(q) /\ payments[q].reversal_of = p}
Trail(p) == {r \in Request : audits[r] # Nothing /\ audits[r].payment_id = p}

(* A payment is reversed with one replacement and one audit row that names *)
(* it, or it is not reversed and has neither; its audit rows are numbered  *)
(* one after the other up to its count; and the ledger shows what is live, *)
(* or a repair is queued.                                                  *)
Whole(p) ==
  /\ IF payments[p].is_reversed
     THEN \E r \in Trail(p) :
            /\ Replacements(p) = {r}
            /\ payments[p].latest_correction_id = r
            /\ audits[r].kind = "amount_reversal_new"
     ELSE /\ Replacements(p) = {}
          /\ \A r \in Trail(p) : audits[r].kind = "attribute"
  /\ {audits[r].correction_index : r \in Trail(p)} = 1..payments[p].correction_count
  /\ Cardinality(Trail(p)) = payments[p].correction_count
  /\ legs[p] = View(p) \/ p \in owed

(* The docstring of correct_driver_payment_amount: all of it or none.  Its *)
(* payments are whole between any two requests, whichever step raised, as  *)
(* long as requests do not overlap and no undoing call fails.              *)
AllOrNothing ==
  Quiet /\ marred \subseteq {"step"} => \A p \in Row : Exists(p) => Whole(p)

(* No payment is lost while its corrections overlap: as long as no step    *)
(* fails and nobody dies, whatever is reversed has a replacement that is   *)
(* there, and an audit row that names the two, at every moment.            *)
NeverLost ==
  marred \subseteq {"overlap"} =>
    \A p \in Row : Exists(p) /\ payments[p].is_reversed =>
      \E r \in Trail(p) :
        /\ Exists(r) /\ payments[r].reversal_of = p
        /\ audits[r].kind = "amount_reversal_new"

=============================================================================
