----------------------------- MODULE ExpenseLinks -----------------------------
(***************************************************************************)
(* Expenses and the bills and work orders they stand for:                  *)
(* routers/expenses.py, routers/vendor_bills.py,                           *)
(* routers/mechanic_work_orders.py and services_expense_linkage_hooks.py.  *)
(*                                                                         *)
(* A bill has legs of its own only as long as no expense is linked to it,  *)
(* so that a write of an expense changes the projection of other           *)
(* documents: the ones it was linked to, by what the request had read, and *)
(* the ones it is linked to now.  Each of them is projected again in a     *)
(* step of its own.                                                        *)
(*                                                                         *)
(* A request does one operation.  A twin is a bill or a work order; the    *)
(* payments that name one are in PartyPayments.  A projection is one step  *)
(* here; FinProjection has its steps and its failures.                     *)
(***************************************************************************)
EXTENDS FinLegs, Sequences

CONSTANTS
  Request,  \* requests, each of which runs at most once
  Bill,     \* ids of vendor bills
  Order,    \* ids of work orders
  Expense,  \* ids of expenses
  Amount    \* amounts, all of them positive

Twin == Bill \cup Order

VARIABLES
  docs,     \* db.vendor_bills, db.mechanic_work_orders and db.expenses
  ledger,   \* db.fin_txn
  pc,       \* where each request is
  hand,     \* what it has read and been asked for
  marred    \* history: what has happened besides one request after the other

vars == <<docs, ledger, pc, hand, marred>>

-----------------------------------------------------------------------------
(* Data.                                                                   *)

Type(t) == IF t \in Bill THEN "vendor_bill" ELSE "mechanic_work_order"

TwinDoc(t, a, deleted) ==
  [type |-> Type(t), id |-> t, amount |-> a, is_deleted |-> deleted,
   date |-> 1, party |-> "p"]

(* _validate_and_normalise: an expense has at most one twin.               *)
ExpenseDoc(e, t, a, deleted) ==
  [type |-> "expense", id |-> e, amount |-> a, is_deleted |-> deleted,
   is_reversed |-> FALSE, historical |-> FALSE, date |-> 1, party |-> "p",
   supplier_mode |-> "n/a", source_type |-> "manual", cash_now |-> FALSE,
   bill |-> IF t \in Bill THEN t ELSE "none",
   order |-> IF t \in Order THEN t ELSE "none"]

Find(id) == {d \in docs : d.id = id}
Live(id) == \E d \in Find(id) : ~d.is_deleted
Save(doc) == docs' = {d \in docs : d.id # doc.id} \cup {doc}

(* _effective_linkage                                                      *)
Linkage(found, field) ==
  {d[field] : d \in {x \in found : ~Gone(x) /\ x[field] # "none"}}

(* refresh_linked_paired_sources: what is projected, and in which order;   *)
(* there is at most one of a kind before and one after.                    *)
One(set) == IF set = {} THEN <<>> ELSE <<CHOOSE x \in set : TRUE>>
Linked(before, after) ==
  LET changed(field, type) ==
        LET old == Linkage(before, field)
            new == Linkage(after, field)
        IN  One({<<type, x>> : x \in old \ new})
            \o One({<<type, x>> : x \in new \ old})
  IN  changed("bill", "vendor_bill") \o changed("order", "mechanic_work_order")

Blank == [kind |-> "none", doc |-> {}, before |-> {}, todo |-> <<>>]
Busy == {r \in Request : pc[r] \notin {"new", "done"}}

Init ==
  /\ docs = {}
  /\ ledger = {}
  /\ pc = [r \in Request |-> "new"]
  /\ hand = [r \in Request |-> Blank]
  /\ marred = {}

-----------------------------------------------------------------------------
(* Requests.                                                               *)

Begin(r, kind, before, doc, todo) ==
  /\ pc[r] = "new"
  /\ pc' = [pc EXCEPT ![r] = "write"]
  /\ hand' = [hand EXCEPT ![r] = [kind |-> kind, doc |-> {doc}, before |-> before,
                                  todo |-> todo]]
  /\ marred' = IF Busy = {} THEN marred ELSE marred \cup {"overlap"}
  /\ UNCHANGED <<docs, ledger>>

(* The write: an edit keeps the deletion marks, and a deletion all else,   *)
(* as they are by now.                                                     *)
Write(r) ==
  /\ pc[r] = "write"
  /\ pc' = [pc EXCEPT ![r] = "project"]
  /\ \E doc \in hand[r].doc :
       /\ \/ hand[r].kind = "insert" /\ Save(doc)
          \/ hand[r].kind = "edit" /\ Save([doc EXCEPT !.is_deleted = ~Live(doc.id)])
          \/ hand[r].kind = "delete"
             /\ \E d \in Find(doc.id) : Save([d EXCEPT !.is_deleted = TRUE])
       /\ marred' = IF doc.type = "expense" /\ Find(doc.id) # hand[r].before
                    THEN marred \cup {"stale"} ELSE marred
  /\ UNCHANGED <<ledger, hand>>

(* The hooks, one document after the other.                                *)
ProjectOne(r) ==
  /\ pc[r] = "project" /\ hand[r].todo # <<>>
  /\ LET source == Head(hand[r].todo)
     IN  ledger' = Reproject(ledger, source[1], source[2], docs)
  /\ hand' = [hand EXCEPT ![r].todo = Tail(@)]
  /\ UNCHANGED <<docs, pc, marred>>

Finish(r) ==
  /\ pc[r] = "project" /\ hand[r].todo = <<>>
  /\ pc' = [pc EXCEPT ![r] = "done"]
  /\ hand' = [hand EXCEPT ![r] = Blank]
  /\ UNCHANGED <<docs, ledger, marred>>

(* The process dies: nothing is undone.                                    *)
Die(r) ==
  /\ r \in Busy
  /\ pc' = [pc EXCEPT ![r] = "done"]
  /\ hand' = [hand EXCEPT ![r] = Blank]
  /\ marred' = marred \cup {"death"}
  /\ UNCHANGED <<docs, ledger>>

-----------------------------------------------------------------------------
(* Expenses.                                                               *)

(* A link is good when the twin is there and not deleted.                  *)
Linkable(t) == t = "none" \/ Live(t)

ExpenseTodo(e, before, after) == <<<<"expense", e>>>> \o Linked(before, {after})

CreateExpense(r, e, t, a) ==
  LET doc == ExpenseDoc(e, t, a, FALSE)
  IN  /\ Find(e) = {} /\ Linkable(t)
      /\ Begin(r, "insert", {}, doc, ExpenseTodo(e, {}, doc))

(* An expense that is deleted is found and edited as well, and stays so.   *)
UpdateExpense(r, e, t, a) ==
  LET doc == ExpenseDoc(e, t, a, ~Live(e))
  IN  /\ Find(e) # {} /\ Linkable(t)
      /\ Begin(r, "edit", Find(e), doc, ExpenseTodo(e, Find(e), doc))

DeleteExpense(r, e) ==
  \E d \in Find(e) :
    LET doc == [d EXCEPT !.is_deleted = TRUE]
    IN  /\ ~d.is_deleted
        /\ Begin(r, "delete", {d}, doc, ExpenseTodo(e, {d}, doc))

-----------------------------------------------------------------------------
(* Bills and work orders.                                                  *)

CreateTwin(r, t, a) ==
  /\ Find(t) = {}
  /\ Begin(r, "insert", {}, TwinDoc(t, a, FALSE), <<<<Type(t), t>>>>)

UpdateTwin(r, t, a) ==
  /\ Find(t) # {}
  /\ Begin(r, "edit", Find(t), TwinDoc(t, a, ~Live(t)), <<<<Type(t), t>>>>)

(* A mutant: the expenses that are linked are not counted.                 *)
DeleteTwinAny(r, t) ==
  \E d \in Find(t) :
    /\ ~d.is_deleted
    /\ Begin(r, "delete", {d}, [d EXCEPT !.is_deleted = TRUE], <<<<Type(t), t>>>>)

(* "Block delete if a live twin Expense still references it."              *)
DeleteTwin(r, t) ==
  \E d \in Find(t) :
    /\ ~d.is_deleted
    /\ ~\E e \in docs : e.type = "expense" /\ ~e.is_deleted /\ t \in {e.bill, e.order}
    /\ Begin(r, "delete", {d}, [d EXCEPT !.is_deleted = TRUE], <<<<Type(t), t>>>>)

-----------------------------------------------------------------------------
Start(r) ==
  \/ \E e \in Expense, t \in Twin \cup {"none"}, a \in Amount :
       CreateExpense(r, e, t, a) \/ UpdateExpense(r, e, t, a)
  \/ \E e \in Expense : DeleteExpense(r, e)
  \/ \E t \in Twin, a \in Amount : CreateTwin(r, t, a) \/ UpdateTwin(r, t, a)
  \/ \E t \in Twin : DeleteTwin(r, t)

Next ==
  \E r \in Request : Start(r) \/ Write(r) \/ ProjectOne(r) \/ Finish(r) \/ Die(r)

Spec == Init /\ [][Next]_vars

-----------------------------------------------------------------------------
(* "Paired-vs-orphan transitions cannot leave stale FinTxn legs behind":   *)
(* however requests overlap, when nobody is at work and nobody has died    *)
(* the ledger is the projection of the documents as they are - unless an   *)
(* edit of an expense wrote over one that it had not read.                 *)
LinksProjected ==
  Busy = {} /\ marred \cap {"stale", "death"} = {} => ledger = Ledger(docs)

(* A live expense stands for a twin that is live, as long as requests come *)
(* one after the other.                                                    *)
TwinsLive ==
  Busy = {} /\ "overlap" \notin marred =>
    \A e \in {d \in docs : d.type = "expense" /\ ~d.is_deleted} :
      \A t \in {e.bill, e.order} \ {"none"} : Live(t)

(* Expenses, bills and work orders agree with the ledger and each other.   *)
ExpensesAgree == LinksProjected /\ TwinsLive
=============================================================================
