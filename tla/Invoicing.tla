------------------------------ MODULE Invoicing ------------------------------
(***************************************************************************)
(* Invoices, their trips and their payments: routers/invoices.py, the      *)
(* trip handlers of routers/trips.py that touch an invoiced trip, the      *)
(* customer payment of routers/customers.py and _recompute_invoice of      *)
(* services.py, for ONE customer of one company.                           *)
(*                                                                         *)
(* No request holds a lock and nothing is a transaction: every `await` on  *)
(* the database is a step of its own, and a request may die at each.       *)
(* A sum is represented by what it was summed from: the total of an        *)
(* invoice by the prices of its trips, what is paid by its payments, and   *)
(* the balance by the total and the payments that were subtracted.         *)
(* Invoice numbers are left out; ids are never used twice.                 *)
(***************************************************************************)
EXTENDS Naturals, FiniteSets

CONSTANTS
  Trip,       \* the customer's trips
  Price,      \* what a trip may be billed at
  Invoice,    \* ids of invoices
  Receipt,    \* payments entered on an invoice
  Remittance, \* payments entered on the customer, for any of his invoices
  Clerk,      \* requests at work at the same time
  Nothing,    \* no document
  Deaths      \* whether a request may die between two steps

Money == Receipt \cup Remittance

ASSUME NothingAssumption == Nothing \notin Trip \cup Invoice \cup Money

ASSUME MoneyAssumption == Receipt \cap Remittance = {}

ASSUME DeathsAssumption == Deaths \in BOOLEAN

VARIABLES
  trips,      \* each trip: its price and its invoice_id
  invoices,   \* each invoice document
  minted,     \* the ids in use, now or earlier
  fin_txn,    \* what the ledger shows of each invoice
  pc,         \* where each request is
  hand,       \* what it holds
  met,        \* history: the requests that have overlapped another
  calm,       \* history: no two requests have overlapped so far
  died,       \* history: a request has died
  received    \* history: the payments that were written, with their invoice

vars == <<trips, invoices, minted, fin_txn, pc, hand, met, calm, died, received>>

-----------------------------------------------------------------------------
(* Data.                                                                   *)

Total == UNION {[S -> Price] : S \in SUBSET Trip}

TripDoc == [price : Price, invoice : Invoice \cup {Nothing}]

InvoiceDoc ==
  [trips : SUBSET Trip, payments : SUBSET Money, total : Total,
   paid : SUBSET Money, due : Total \X SUBSET Money]

LedgerView == Total \X SUBSET Receipt

ASSUME DocumentAssumption == Nothing \notin TripDoc \cup InvoiceDoc

Live(i) == invoices[i] # Nothing

(* The prices of those of the trips that still exist.                      *)
PricesOf(S) == [t \in {u \in S : trips[u] # Nothing} |-> trips[t].price]

(* What project_invoice shows: a payment without an id gives no leg, and   *)
(* only add_payment gives its payment an id.                               *)
ViewOf(i) ==
  IF Live(i) THEN <<invoices[i].total, invoices[i].payments \cap Receipt>> ELSE Nothing

NoTotal == [t \in {} |-> 0]

Blank ==
  [invoice |-> Nothing, trip |-> Nothing, trips |-> {}, receipt |-> Nothing,
   total |-> NoTotal, docs |-> [i \in Invoice |-> Nothing], next |-> "idle"]

(* The copy of one document.                                               *)
Copy(i) == [j \in Invoice |-> IF j = i THEN invoices[i] ELSE Nothing]

Busy == {c \in Clerk : pc[c] # "idle"}

Init ==
  /\ trips \in [Trip -> [price : Price, invoice : {Nothing}]]
  /\ invoices = [i \in Invoice |-> Nothing]
  /\ minted = {}
  /\ fin_txn = [i \in Invoice |-> Nothing]
  /\ pc = [c \in Clerk |-> "idle"]
  /\ hand = [c \in Clerk |-> Blank]
  /\ met = {}
  /\ calm = TRUE
  /\ died = FALSE
  /\ received = {}

-----------------------------------------------------------------------------
(* Requests.                                                               *)

Begin(c, where, what) ==
  /\ pc[c] = "idle"
  /\ pc' = [pc EXCEPT ![c] = where]
  /\ hand' = [hand EXCEPT ![c] = what]
  /\ met' = IF Busy = {} THEN met \ {c} ELSE met \cup Busy \cup {c}
  /\ calm' = (calm /\ Busy = {})
  /\ UNCHANGED <<died, received>>

Goto(c, from, to) == pc[c] = from /\ pc' = [pc EXCEPT ![c] = to]

Hold(c, what) == hand' = [hand EXCEPT ![c] = what]

(* The request goes on, or ends and forgets what it held.                  *)
Continue(c, where) ==
  /\ pc' = [pc EXCEPT ![c] = where]
  /\ IF where = "idle" THEN Hold(c, Blank) ELSE UNCHANGED hand

History == UNCHANGED <<met, calm, died, received>>

-----------------------------------------------------------------------------
(* hook_after_source_write, as one step; FinProjection looks inside. Only   *)
(* create_invoice goes on after it.                                        *)
AfterHook(c) == IF hand[c].next = "mark" THEN "mark" ELSE "idle"

Hook(c) ==
  /\ pc[c] = "hook"
  /\ fin_txn' = [fin_txn EXCEPT ![hand[c].invoice] = ViewOf(hand[c].invoice)]
  /\ Continue(c, AfterHook(c))
  /\ History
  /\ UNCHANGED <<trips, invoices, minted>>

-----------------------------------------------------------------------------
(* create_invoice.                                                         *)

(* A mutant: the status of the trips is not looked at.                     *)
CreateFindAnyTrips(c, S) ==
  /\ \A t \in S : trips[t] # Nothing
  /\ Begin(c, "insert", [Blank EXCEPT !.trips = S, !.total = PricesOf(S)])
  /\ UNCHANGED <<trips, invoices, minted, fin_txn>>

CreateFind(c, S) ==
  /\ \A t \in S : trips[t] # Nothing /\ trips[t].invoice = Nothing
  /\ Begin(c, "insert", [Blank EXCEPT !.trips = S, !.total = PricesOf(S)])
  /\ UNCHANGED <<trips, invoices, minted, fin_txn>>

(* A mutant: a trip that has been invoiced meanwhile is left out, here but *)
(* not where the trips are marked.                                         *)
InsertFree(c, i) ==
  /\ Goto(c, "insert", "hook")
  /\ i \notin minted
  /\ minted' = minted \cup {i}
  /\ LET free == {t \in hand[c].trips : trips[t] # Nothing /\ trips[t].invoice = Nothing} IN
       invoices' =
         [invoices EXCEPT ![i] =
            [trips |-> free, payments |-> {}, total |-> hand[c].total,
             paid |-> {}, due |-> <<hand[c].total, {}>>]]
  /\ Hold(c, [hand[c] EXCEPT !.invoice = i, !.next = "mark"])
  /\ History
  /\ UNCHANGED <<trips, fin_txn>>

Insert(c, i) ==
  /\ Goto(c, "insert", "hook")
  /\ i \notin minted
  /\ minted' = minted \cup {i}
  /\ invoices' =
       [invoices EXCEPT ![i] =
          [trips |-> hand[c].trips, payments |-> {}, total |-> hand[c].total,
           paid |-> {}, due |-> <<hand[c].total, {}>>]]
  /\ Hold(c, [hand[c] EXCEPT !.invoice = i, !.next = "mark"])
  /\ History
  /\ UNCHANGED <<trips, fin_txn>>

(* update_many sets status and invoice_id, whatever they are by now.       *)
MarkAll(S, i) ==
  trips' = [t \in Trip |->
    IF t \in S /\ trips[t] # Nothing THEN [trips[t] EXCEPT !.invoice = i] ELSE trips[t]]

Mark(c) ==
  /\ pc[c] = "mark"
  /\ MarkAll(hand[c].trips, hand[c].invoice)
  /\ Continue(c, "idle")
  /\ History
  /\ UNCHANGED <<invoices, minted, fin_txn>>

-----------------------------------------------------------------------------
(* delete_invoice, of an invoice without notes.                            *)

DeleteFind(c, i) ==
  /\ Live(i)
  /\ Begin(c, "unmark", [Blank EXCEPT !.invoice = i, !.docs = Copy(i)])
  /\ UNCHANGED <<trips, invoices, minted, fin_txn>>

(* A mutant: the trips stay as they are.                                   *)
UnmarkNothing(c) ==
  /\ Goto(c, "unmark", "remove")
  /\ History
  /\ UNCHANGED <<trips, invoices, minted, fin_txn, hand>>

Unmark(c) ==
  /\ Goto(c, "unmark", "remove")
  /\ MarkAll(hand[c].docs[hand[c].invoice].trips, Nothing)
  /\ History
  /\ UNCHANGED <<invoices, minted, fin_txn, hand>>

(* A mutant: the hook runs first, while the document is still there.       *)
RemoveAfterHook(c) ==
  /\ pc[c] = "remove"
  /\ invoices' = [invoices EXCEPT ![hand[c].invoice] = Nothing]
  /\ fin_txn' = [fin_txn EXCEPT ![hand[c].invoice] = ViewOf(hand[c].invoice)]
  /\ Continue(c, "idle")
  /\ History
  /\ UNCHANGED <<trips, minted>>

Remove(c) ==
  /\ Goto(c, "remove", "hook")
  /\ invoices' = [invoices EXCEPT ![hand[c].invoice] = Nothing]
  /\ History
  /\ UNCHANGED <<trips, minted, fin_txn, hand>>

-----------------------------------------------------------------------------
(* _recompute_invoice: the invoice, then its trips, then the update.       *)

(* It is the whole of a GET of the invoice, or of its PDF.                 *)
Look(c, i) ==
  /\ Live(i)
  /\ Begin(c, "trips", [Blank EXCEPT !.invoice = i, !.docs = Copy(i)])
  /\ UNCHANGED <<trips, invoices, minted, fin_txn>>

(* An update of the invoice recomputes when gst_type or rcm has changed,   *)
(* and reads the invoice again in any case. An override of the number goes *)
(* to its hook. Tax and number are left out.                               *)
UpdateInvoice(c, i) ==
  /\ Live(i)
  /\ \E where \in {"recompute", "reread", "hook"} :
       Begin(c, where,
             [Blank EXCEPT !.invoice = i,
                           !.next = IF where = "recompute" THEN "reread" ELSE "idle"])
  /\ UNCHANGED <<trips, invoices, minted, fin_txn>>

(* The hook is run for the company of what is read: for none, and without  *)
(* effect, when the invoice is gone.                                       *)
Reread(c) ==
  /\ pc[c] = "reread"
  /\ Continue(c, IF Live(hand[c].invoice) THEN "hook" ELSE "idle")
  /\ History
  /\ UNCHANGED <<trips, invoices, minted, fin_txn>>

RecomputeFind(c) ==
  /\ pc[c] = "recompute"
  /\ LET i == hand[c].invoice IN
       IF Live(i)
       THEN /\ pc' = [pc EXCEPT ![c] = "trips"]
            /\ Hold(c, [hand[c] EXCEPT !.docs = Copy(i)])
       ELSE Continue(c, hand[c].next)
  /\ History
  /\ UNCHANGED <<trips, invoices, minted, fin_txn>>

RecomputeTrips(c) ==
  /\ Goto(c, "trips", "totals")
  /\ Hold(c, [hand[c] EXCEPT !.total = PricesOf(hand[c].docs[hand[c].invoice].trips)])
  /\ History
  /\ UNCHANGED <<trips, invoices, minted, fin_txn>>

(* A mutant: amount_paid is taken from the copy instead of its payments.   *)
RecomputeOldPaid(c) ==
  /\ pc[c] = "totals"
  /\ LET i == hand[c].invoice
         paid == hand[c].docs[i].paid
     IN invoices' =
          IF Live(i)
          THEN [invoices EXCEPT ![i].total = hand[c].total, ![i].paid = paid,
                                ![i].due = <<hand[c].total, paid>>]
          ELSE invoices
  /\ Continue(c, hand[c].next)
  /\ History
  /\ UNCHANGED <<trips, minted, fin_txn>>

Recompute(c) ==
  /\ pc[c] = "totals"
  /\ LET i == hand[c].invoice
         paid == hand[c].docs[i].payments
     IN invoices' =
          IF Live(i)
          THEN [invoices EXCEPT ![i].total = hand[c].total, ![i].paid = paid,
                                ![i].due = <<hand[c].total, paid>>]
          ELSE invoices
  /\ Continue(c, hand[c].next)
  /\ History
  /\ UNCHANGED <<trips, minted, fin_txn>>

-----------------------------------------------------------------------------
(* Payments.                                                               *)

NewMoney(r) ==
  /\ \A c \in Clerk : hand[c].receipt # r
  /\ \A i \in Invoice : <<i, r>> \notin received

(* add_payment.                                                            *)
PayFind(c, i, r) ==
  /\ Live(i) /\ NewMoney(r)
  /\ Begin(c, "pay", [Blank EXCEPT !.invoice = i, !.receipt = r, !.docs = Copy(i)])
  /\ UNCHANGED <<trips, invoices, minted, fin_txn>>

(* update_one sets three fields, computed from the copy of the invoice.    *)
SetPayments(i, doc, payments, paid) ==
  invoices' =
    IF Live(i)
    THEN [invoices EXCEPT ![i].payments = payments, ![i].paid = paid,
                          ![i].due = <<doc.total, paid>>]
    ELSE invoices

Received(i, r) == received' = received \cup IF Live(i) THEN {<<i, r>>} ELSE {}

(* A mutant: the payments are replaced by the new one.                     *)
PayAfresh(c) ==
  /\ Goto(c, "pay", "hook")
  /\ LET i == hand[c].invoice
         r == hand[c].receipt
     IN SetPayments(i, hand[c].docs[i], {r}, {r}) /\ Received(i, r)
  /\ UNCHANGED <<trips, minted, fin_txn, hand, met, calm, died>>

Pay(c) ==
  /\ Goto(c, "pay", "hook")
  /\ LET i == hand[c].invoice
         r == hand[c].receipt
         payments == hand[c].docs[i].payments \cup {r}
     IN SetPayments(i, hand[c].docs[i], payments, payments) /\ Received(i, r)
  /\ UNCHANGED <<trips, minted, fin_txn, hand, met, calm, died>>

(* add_customer_payment reads all invoices with a balance, then allocates  *)
(* the sum to some of them, one after the other. There is no hook.         *)
CustomerFind(c, r) ==
  /\ NewMoney(r)
  /\ Begin(c, "allocate", [Blank EXCEPT !.receipt = r, !.docs = invoices])
  /\ UNCHANGED <<trips, invoices, minted, fin_txn>>

Allocate(c, i) ==
  /\ pc[c] = "allocate"
  /\ LET doc == hand[c].docs[i]
         r == hand[c].receipt
     IN /\ doc # Nothing
        /\ SetPayments(i, doc, doc.payments \cup {r}, doc.paid \cup {r})
        /\ Received(i, r)
  /\ Hold(c, [hand[c] EXCEPT !.docs = [@ EXCEPT ![i] = Nothing]])
  /\ UNCHANGED <<trips, minted, fin_txn, pc, met, calm, died>>

Allocated(c) ==
  /\ pc[c] = "allocate"
  /\ Continue(c, "idle")
  /\ History
  /\ UNCHANGED <<trips, invoices, minted, fin_txn>>

-----------------------------------------------------------------------------
(* update_trip and delete_trip.                                            *)

EditFind(c, t) ==
  /\ trips[t] # Nothing
  /\ Begin(c, "save", [Blank EXCEPT !.trip = t, !.invoice = trips[t].invoice])
  /\ UNCHANGED <<trips, invoices, minted, fin_txn>>

Linked(c) == IF hand[c].invoice = Nothing THEN "idle" ELSE "recompute"

(* A mutant: the invoice is not recomputed.                                *)
SaveOnly(c) ==
  /\ pc[c] = "save"
  /\ LET t == hand[c].trip IN
       \E p \in Price :
         trips' = IF trips[t] = Nothing THEN trips
                  ELSE [trips EXCEPT ![t] = [price |-> p, invoice |-> hand[c].invoice]]
  /\ Continue(c, "idle")
  /\ History
  /\ UNCHANGED <<invoices, minted, fin_txn>>

(* The whole document is set, with the status and invoice_id it had.       *)
Save(c) ==
  /\ pc[c] = "save"
  /\ LET t == hand[c].trip IN
       \E p \in Price :
         trips' = IF trips[t] = Nothing THEN trips
                  ELSE [trips EXCEPT ![t] = [price |-> p, invoice |-> hand[c].invoice]]
  /\ Continue(c, Linked(c))
  /\ History
  /\ UNCHANGED <<invoices, minted, fin_txn>>

DeleteTripFind(c, t) ==
  /\ trips[t] # Nothing
  /\ Begin(c, "erase", [Blank EXCEPT !.trip = t, !.invoice = trips[t].invoice])
  /\ UNCHANGED <<trips, invoices, minted, fin_txn>>

Erase(c) ==
  /\ pc[c] = "erase"
  /\ trips' = [trips EXCEPT ![hand[c].trip] = Nothing]
  /\ Continue(c, Linked(c))
  /\ History
  /\ UNCHANGED <<invoices, minted, fin_txn>>

-----------------------------------------------------------------------------
Die(c) ==
  /\ Deaths
  /\ pc[c] # "idle"
  /\ Continue(c, "idle")
  /\ died' = TRUE
  /\ UNCHANGED <<trips, invoices, minted, fin_txn, met, calm, received>>

Next ==
  \E c \in Clerk :
    \/ \E S \in SUBSET Trip : CreateFind(c, S)
    \/ \E i \in Invoice : Insert(c, i)
    \/ Hook(c) \/ Mark(c)
    \/ \E i \in Invoice : DeleteFind(c, i)
    \/ Unmark(c) \/ Remove(c)
    \/ \E i \in Invoice : Look(c, i) \/ UpdateInvoice(c, i)
    \/ Reread(c)
    \/ RecomputeFind(c) \/ RecomputeTrips(c) \/ Recompute(c)
    \/ \E i \in Invoice, r \in Receipt : PayFind(c, i, r)
    \/ Pay(c)
    \/ \E r \in Remittance : CustomerFind(c, r)
    \/ \E i \in Invoice : Allocate(c, i)
    \/ Allocated(c)
    \/ \E t \in Trip : EditFind(c, t) \/ DeleteTripFind(c, t)
    \/ Save(c) \/ Erase(c)
    \/ Die(c)

Spec == Init /\ [][Next]_vars

-----------------------------------------------------------------------------
(* Properties.                                                             *)

Where == {"idle", "insert", "hook", "mark", "unmark", "remove", "reread", "recompute",
          "trips", "totals", "pay", "allocate", "save", "erase"}

Held ==
  [invoice : Invoice \cup {Nothing}, trip : Trip \cup {Nothing}, trips : SUBSET Trip,
   receipt : Money \cup {Nothing}, total : Total,
   docs : [Invoice -> InvoiceDoc \cup {Nothing}], next : {"idle", "reread", "mark"}]

(* Every document and every request has the fields that the code gives it. *)
TypeOK ==
  /\ trips \in [Trip -> TripDoc \cup {Nothing}]
  /\ invoices \in [Invoice -> InvoiceDoc \cup {Nothing}]
  /\ minted \subseteq Invoice
  /\ fin_txn \in [Invoice -> LedgerView \cup {Nothing}]
  /\ pc \in [Clerk -> Where]
  /\ hand \in [Clerk -> Held]
  /\ met \subseteq Clerk
  /\ calm \in BOOLEAN /\ died \in BOOLEAN
  /\ received \subseteq Invoice \X Money

(* Requests have come one after the other so far, and each has ended.      *)
Quiet == calm /\ ~died

Idle == Busy = {}

(* While requests come one after the other, no trip is on two invoices:    *)
(* what create_invoice checks, what delete_invoice gives back and what the *)
(* trip handlers write back fit together.                                  *)
TripOnOneBill ==
  Quiet =>
    \A i, j \in Invoice :
      i # j /\ Live(i) /\ Live(j) => invoices[i].trips \cap invoices[j].trips = {}

(* Between such requests the invoice_id of a trip is the invoice that      *)
(* lists it, in both directions.                                           *)
MarksAgree ==
  Quiet /\ Idle =>
    \A t \in Trip, i \in Invoice :
      trips[t] # Nothing => (trips[t].invoice = i <=> Live(i) /\ t \in invoices[i].trips)

(* The figures of an invoice are those of its trips and its payments.      *)
Exact(i) ==
  Live(i) =>
    /\ invoices[i].total = PricesOf(invoices[i].trips)
    /\ invoices[i].paid = invoices[i].payments
    /\ invoices[i].due = <<invoices[i].total, invoices[i].paid>>

(* Between such requests every figure of every invoice is right, whoever   *)
(* wrote it last: the creation, a payment, an allocation or a recompute    *)
(* that an edit or a deletion of a trip has asked for.                     *)
BooksAgree == Quiet /\ Idle => \A i \in Invoice : Exact(i)

(* While requests come one after the other, an invoice has exactly the     *)
(* payments that were made on it.                                          *)
PaymentsOnRecord ==
  Quiet =>
    \A i \in Invoice :
      Live(i) => invoices[i].payments = {r \in Money : <<i, r>> \in received}

(* However requests overlap and die, a trip never carries the id of a live *)
(* invoice that does not list it, although update_trip writes back the id  *)
(* it has read.                                                            *)
MarkIsGenuine ==
  \A t \in Trip, i \in Invoice :
    trips[t] # Nothing /\ trips[t].invoice = i /\ Live(i) => t \in invoices[i].trips

(* However requests overlap, unless one dies, an invoice that was deleted  *)
(* is out of the ledger when its requests have ended: delete_invoice runs  *)
(* its hook after the delete, and no later hook brings the legs back.      *)
LedgerForgetsDeleted ==
  ~died /\ Idle => \A i \in Invoice : ~Live(i) => fin_txn[i] = Nothing

(* Whatever has gone before, a recompute that overlaps no other request    *)
(* leaves the figures right: stale invoices heal when they are looked at.  *)
RecomputeHeals ==
  [][\A c \in Clerk, i \in Invoice :
       Recompute(c) /\ c \notin met /\ hand[c].invoice = i => Exact(i)']_vars

-----------------------------------------------------------------------------
(* What overlapping requests break.                                        *)

(* Only trips that are not invoiced can be invoiced, as create_invoice and *)
(* the preflight of a bulk invoice tell the user.                          *)
TripBilledOnce ==
  \A i, j \in Invoice :
    i # j /\ Live(i) /\ Live(j) => invoices[i].trips \cap invoices[j].trips = {}

(* The balance of an invoice is its total less what is paid, as the tests  *)
(* of the workflow assert.                                                 *)
BalanceAgrees ==
  Idle =>
    \A i \in Invoice : Live(i) => invoices[i].due = <<invoices[i].total, invoices[i].paid>>

(* Payments add up: one that was written to an invoice stays there.        *)
PaymentStays ==
  \A i \in Invoice :
    Live(i) => \A r \in Money : <<i, r>> \in received => r \in invoices[i].payments

(* Every authoritative write is followed by its hook, so between requests  *)
(* that come one after the other the ledger shows each invoice as it is.   *)
LedgerIsTold == Quiet /\ Idle => \A i \in Invoice : fin_txn[i] = ViewOf(i)

(* A hook after a write rebuilds the legs of all payments of the invoice.  *)
LedgerHasPayments ==
  [][\A c \in Clerk : Hook(c) =>
       LET i == hand[c].invoice IN Live(i) => fin_txn'[i][2] = invoices[i].payments]_vars

-----------------------------------------------------------------------------
(* The inductive invariant of the proofs.                                  *)

(* What a request holds at each place.                                     *)
HandsFit ==
  \A c \in Clerk :
    /\ pc[c] \in {"hook", "mark", "unmark", "remove", "reread", "recompute", "trips", "totals",
                   "pay"} => hand[c].invoice \in Invoice
    /\ pc[c] \in {"unmark", "trips", "totals", "pay"}
         => hand[c].docs[hand[c].invoice] # Nothing
    /\ pc[c] \in {"save", "erase"} => hand[c].trip \in Trip
    /\ pc[c] \in {"pay", "allocate"} => hand[c].receipt \in Money
    /\ pc[c] \in {"reread", "recompute", "trips", "totals", "save", "erase"}
         => hand[c].next \in {"idle", "reread"}
    /\ pc[c] \in {"unmark", "remove", "pay"} => hand[c].next = "idle"

(* A request that has met nobody is alone.                                 *)
AloneIsAlone ==
  /\ \A c \in Busy : c \notin met => Busy = {c}
  /\ calm => Busy \cap met = {}

(* What it has read is what there is.                                      *)
AloneIsFresh ==
  \A c \in Busy : c \notin met =>
    LET h == hand[c] IN
    /\ pc[c] \in {"unmark", "trips", "totals", "pay"} => h.docs[h.invoice] = invoices[h.invoice]
    /\ pc[c] = "totals" => h.total = PricesOf(h.docs[h.invoice].trips)
    /\ pc[c] = "allocate" => \A i \in Invoice : h.docs[i] \in {Nothing, invoices[i]}
    /\ pc[c] = "insert" =>
         /\ h.total = PricesOf(h.trips)
         /\ \A t \in h.trips : trips[t] # Nothing /\ trips[t].invoice = Nothing
    /\ pc[c] \in {"save", "erase"} =>
         trips[h.trip] # Nothing /\ trips[h.trip].invoice = h.invoice

(* An id that is written on a trip, or is about to be, is genuine.         *)
Genuine(t, i) == i \in minted /\ (Live(i) => t \in invoices[i].trips)

Marking(c) == pc[c] = "mark" \/ (pc[c] = "hook" /\ hand[c].next = "mark")

GenuineMarks ==
  /\ \A t \in Trip :
       trips[t] # Nothing /\ trips[t].invoice # Nothing => Genuine(t, trips[t].invoice)
  /\ \A c \in Clerk : Marking(c) => \A t \in hand[c].trips : Genuine(t, hand[c].invoice)
  /\ \A c \in Clerk :
       pc[c] = "save" /\ hand[c].invoice # Nothing => Genuine(hand[c].trip, hand[c].invoice)

(* An id that was never used is nowhere.                                   *)
MintedOnly ==
  \A i \in Invoice \ minted :
    ~Live(i) /\ fin_txn[i] = Nothing /\ \A r \in Money : <<i, r>> \notin received

(* The legs of an invoice that is gone have a hook to come.                *)
LegsAreSwept ==
  \A i \in Invoice :
    ~Live(i) /\ fin_txn[i] # Nothing => died \/ \E c \in Clerk : pc[c] = "hook" /\ hand[c].invoice = i

(* The one request that is in the middle of listing or freeing trips.      *)
Removing(c, i) == pc[c] = "remove" /\ hand[c].invoice = i

Between(c, i) == Removing(c, i) \/ (Marking(c) /\ hand[c].invoice = i)

MarksFollow ==
  Quiet =>
    /\ \A t \in Trip, i \in Invoice : trips[t] # Nothing =>
         /\ trips[t].invoice = i =>
              Live(i) /\ t \in invoices[i].trips /\ \A c \in Clerk : ~Removing(c, i)
         /\ Live(i) /\ t \in invoices[i].trips =>
              \/ trips[t].invoice = i
              \/ trips[t].invoice = Nothing /\ \E c \in Clerk : Between(c, i)
    /\ \A c \in Clerk : Marking(c) =>
         Live(hand[c].invoice) /\ hand[c].trips = invoices[hand[c].invoice].trips

(* A recompute is under way.                                               *)
Recomputing(c, i) ==
  pc[c] \in {"recompute", "trips", "totals"} /\ hand[c].invoice = i

FiguresFollow ==
  Quiet => \A i \in Invoice : Live(i) =>
    /\ invoices[i].paid = invoices[i].payments
    /\ invoices[i].due = <<invoices[i].total, invoices[i].paid>>
    /\ \/ invoices[i].total = PricesOf(invoices[i].trips)
       \/ \E c \in Clerk : Recomputing(c, i)

IInv ==
  /\ TypeOK /\ HandsFit /\ AloneIsAlone /\ AloneIsFresh
  /\ GenuineMarks /\ MintedOnly /\ LegsAreSwept
  /\ MarksFollow /\ TripOnOneBill /\ FiguresFollow /\ PaymentsOnRecord

=============================================================================
