-------------------------- MODULE Invoicing_proofs --------------------------
(***************************************************************************)
(* Proofs about Invoicing, for every set of trips, prices, invoices,       *)
(* payments and requests, with and without dying requests.                 *)
(***************************************************************************)
EXTENDS Invoicing, TLAPS

-----------------------------------------------------------------------------
(* Sums.                                                                   *)

LEMMA PricesTyped ==
  ASSUME trips \in [Trip -> TripDoc \cup {Nothing}], NEW S \in SUBSET Trip
  PROVE  PricesOf(S) \in Total
<1> DEFINE D == {u \in S : trips[u] # Nothing}
<1>1. D \in SUBSET Trip
  OBVIOUS
<1>2. \A t \in D : trips[t].price \in Price
  BY DEF TripDoc
<1>3. PricesOf(S) \in [D -> Price]
  BY <1>2 DEF PricesOf
<1> QED BY <1>1, <1>3 DEF Total

LEMMA NoTotalTyped == NoTotal \in Total
<1>1. NoTotal \in [{} -> Price]
  BY DEF NoTotal
<1> QED BY <1>1 DEF Total

(* The same trips at the same prices give the same sum.                    *)
LEMMA PricesSame ==
  ASSUME NEW S,
         \A t \in S : /\ trips'[t] # Nothing <=> trips[t] # Nothing
                      /\ trips[t] # Nothing => trips'[t].price = trips[t].price
  PROVE  PricesOf(S)' = PricesOf(S)
<1>1. {u \in S : trips'[u] # Nothing} = {u \in S : trips[u] # Nothing}
  OBVIOUS
<1>2. \A t \in {u \in S : trips[u] # Nothing} : trips'[t].price = trips[t].price
  OBVIOUS
<1> QED BY <1>1, <1>2 DEF PricesOf

-----------------------------------------------------------------------------
(* What the updates of documents do.                                       *)

(* Every invoice but i is as it was.                                       *)
Others(i) == \A j \in Invoice : j # i => invoices'[j] = invoices[j]

(* The invoice has other figures, and lists the trips it listed.           *)
Figures(i, total, payments, paid, due) ==
  /\ Others(i)
  /\ Live(i) => /\ invoices'[i] \in InvoiceDoc
                /\ invoices'[i].trips = invoices[i].trips
                /\ invoices'[i].total = total
                /\ invoices'[i].payments = payments
                /\ invoices'[i].paid = paid
                /\ invoices'[i].due = due
  /\ ~Live(i) => invoices'[i] = Nothing

LEMMA FiguresKeep ==
  ASSUME NEW i \in Invoice, NEW total, NEW payments, NEW paid, NEW due,
         invoices \in [Invoice -> InvoiceDoc \cup {Nothing}],
         invoices' \in [Invoice -> InvoiceDoc \cup {Nothing}],
         Figures(i, total, payments, paid, due)
  PROVE  \A j \in Invoice :
           /\ Live(j)' <=> Live(j)
           /\ Live(j) => invoices'[j].trips = invoices[j].trips
BY DocumentAssumption DEF Figures, Others, Live

LEMMA SetPaymentsDoes ==
  ASSUME TypeOK, NEW i \in Invoice, NEW doc \in InvoiceDoc,
         NEW payments \in SUBSET Money, NEW paid \in SUBSET Money,
         SetPayments(i, doc, payments, paid)
  PROVE  /\ invoices' \in [Invoice -> InvoiceDoc \cup {Nothing}]
         /\ Figures(i, invoices[i].total, payments, paid, <<doc.total, paid>>)
<1>1. doc.total \in Total
  BY DEF InvoiceDoc
<1>2. CASE Live(i)
  <2> DEFINE new == [invoices[i] EXCEPT !.payments = payments, !.paid = paid,
                                        !.due = <<doc.total, paid>>]
  <2>1. invoices[i] \in InvoiceDoc
    BY <1>2 DEF TypeOK, Live
  <2>2. /\ new \in InvoiceDoc
        /\ new.trips = invoices[i].trips /\ new.total = invoices[i].total
        /\ new.payments = payments /\ new.paid = paid /\ new.due = <<doc.total, paid>>
    BY <1>1, <2>1 DEF InvoiceDoc
  <2>3. invoices' = [invoices EXCEPT ![i] = new]
    BY <1>2, <2>1 DEF SetPayments, TypeOK, InvoiceDoc
  <2> HIDE DEF new
  <2> QED BY <1>2, <2>2, <2>3 DEF TypeOK, Figures, Others, Live
<1>3. CASE ~Live(i)
  BY <1>3 DEF SetPayments, TypeOK, Figures, Others, Live
<1> QED BY <1>2, <1>3

LEMMA RecomputeDoes ==
  ASSUME TypeOK, HandsFit, NEW c \in Clerk, Recompute(c)
  PROVE  LET i == hand[c].invoice
             paid == hand[c].docs[i].payments
         IN /\ i \in Invoice
            /\ invoices' \in [Invoice -> InvoiceDoc \cup {Nothing}]
            /\ Figures(i, hand[c].total, invoices[i].payments, paid,
                       <<hand[c].total, paid>>)
<1> DEFINE i == hand[c].invoice
           paid == hand[c].docs[i].payments
           total == hand[c].total
<1>1. /\ i \in Invoice /\ paid \in SUBSET Money /\ total \in Total
  <2>1. i \in Invoice /\ hand[c] \in Held /\ hand[c].docs[i] # Nothing
    BY DEF Recompute, HandsFit, TypeOK
  <2>2. hand[c].docs[i] \in InvoiceDoc /\ total \in Total
    BY <2>1 DEF Held
  <2> QED BY <2>1, <2>2 DEF InvoiceDoc
<1>2. CASE Live(i)
  <2> DEFINE new == [invoices[i] EXCEPT !.total = total, !.paid = paid,
                                        !.due = <<total, paid>>]
  <2>1. invoices[i] \in InvoiceDoc
    BY <1>1, <1>2 DEF TypeOK, Live
  <2>2. /\ new \in InvoiceDoc
        /\ new.trips = invoices[i].trips /\ new.payments = invoices[i].payments
        /\ new.total = total /\ new.paid = paid /\ new.due = <<total, paid>>
    <3> HIDE DEF total, paid
    <3> QED BY <1>1, <2>1 DEF InvoiceDoc
  <2>3. invoices' = [invoices EXCEPT ![i] = new]
    BY <1>1, <1>2, <2>1 DEF Recompute, TypeOK, InvoiceDoc
  <2> HIDE DEF new, total, paid, i
  <2>4. /\ invoices' \in [Invoice -> InvoiceDoc \cup {Nothing}]
        /\ Figures(i, total, invoices[i].payments, paid, <<total, paid>>)
    BY <1>1, <1>2, <2>2, <2>3 DEF TypeOK, Figures, Others, Live
  <2> QED BY <1>1, <2>4 DEF i, total, paid
<1>3. CASE ~Live(i)
  BY <1>1, <1>3 DEF Recompute, TypeOK, Figures, Others, Live
<1> QED BY <1>2, <1>3

LEMMA InsertDoes ==
  ASSUME TypeOK, NEW c \in Clerk, NEW i \in Invoice, Insert(c, i)
  PROVE  /\ invoices' \in [Invoice -> InvoiceDoc \cup {Nothing}]
         /\ Others(i) /\ Live(i)'
         /\ invoices'[i].trips = hand[c].trips /\ invoices'[i].payments = {}
         /\ invoices'[i].total = hand[c].total /\ invoices'[i].paid = {}
         /\ invoices'[i].due = <<hand[c].total, {}>>
<1> DEFINE new == [trips |-> hand[c].trips, payments |-> {}, total |-> hand[c].total,
                   paid |-> {}, due |-> <<hand[c].total, {}>>]
<1>1. hand[c].trips \in SUBSET Trip /\ hand[c].total \in Total
  BY DEF TypeOK, Held
<1>2. new \in InvoiceDoc
  BY <1>1 DEF InvoiceDoc
<1>3. invoices' = [invoices EXCEPT ![i] = new]
  BY DEF Insert
<1>4. new # Nothing
  BY <1>2, DocumentAssumption
<1>5. /\ new.trips = hand[c].trips /\ new.payments = {} /\ new.total = hand[c].total
      /\ new.paid = {} /\ new.due = <<hand[c].total, {}>>
  OBVIOUS
<1> HIDE DEF new
<1> QED BY <1>2, <1>3, <1>4, <1>5 DEF TypeOK, Others, Live

(* Trips that exist keep their price; those of S are given the id i.       *)
Marked(S, i) ==
  /\ trips' \in [Trip -> TripDoc \cup {Nothing}]
  /\ \A t \in Trip :
       /\ trips'[t] # Nothing <=> trips[t] # Nothing
       /\ trips[t] # Nothing =>
            /\ trips'[t].price = trips[t].price
            /\ trips'[t].invoice = IF t \in S THEN i ELSE trips[t].invoice

LEMMA MarkAllDoes ==
  ASSUME TypeOK, NEW S \in SUBSET Trip, NEW i \in Invoice \cup {Nothing}, MarkAll(S, i)
  PROVE  Marked(S, i)
<1>1. ASSUME NEW t \in Trip
      PROVE  /\ trips'[t] \in TripDoc \cup {Nothing}
             /\ trips'[t] # Nothing <=> trips[t] # Nothing
             /\ trips[t] # Nothing =>
                  /\ trips'[t].price = trips[t].price
                  /\ trips'[t].invoice = IF t \in S THEN i ELSE trips[t].invoice
  <2>1. CASE trips[t] = Nothing \/ t \notin S
    BY <2>1 DEF MarkAll, TypeOK
  <2>2. CASE trips[t] # Nothing /\ t \in S
    <3> DEFINE new == [trips[t] EXCEPT !.invoice = i]
    <3>1. trips[t] \in TripDoc
      BY <2>2 DEF TypeOK
    <3>2. new \in TripDoc /\ new.price = trips[t].price /\ new.invoice = i
      BY <3>1 DEF TripDoc
    <3>3. trips'[t] = new
      BY <2>2 DEF MarkAll
    <3> HIDE DEF new
    <3> QED BY <2>2, <3>2, <3>3, DocumentAssumption
  <2> QED BY <2>1, <2>2
<1>2. trips' = [t \in Trip |-> trips'[t]]
  BY DEF MarkAll
<1> QED BY <1>1, <1>2 DEF Marked

(* One trip gets a price, and an id that was read before.                  *)
Saved(t, i) ==
  /\ trips' \in [Trip -> TripDoc \cup {Nothing}]
  /\ \A u \in Trip : u # t => trips'[u] = trips[u]
  /\ trips'[t] # Nothing <=> trips[t] # Nothing
  /\ trips[t] # Nothing => trips'[t].invoice = i

LEMMA SaveDoes ==
  ASSUME TypeOK, HandsFit, NEW c \in Clerk, Save(c)
  PROVE  hand[c].trip \in Trip /\ Saved(hand[c].trip, hand[c].invoice)
<1>1. hand[c].trip \in Trip /\ hand[c].invoice \in Invoice \cup {Nothing}
  BY DEF Save, HandsFit, TypeOK, Held
<1>2. PICK p \in Price :
        trips' = IF trips[hand[c].trip] = Nothing THEN trips
                 ELSE [trips EXCEPT ![hand[c].trip] =
                         [price |-> p, invoice |-> hand[c].invoice]]
  BY DEF Save
<1> DEFINE new == [price |-> p, invoice |-> hand[c].invoice]
<1>3. new \in TripDoc /\ new # Nothing /\ new.invoice = hand[c].invoice
  BY <1>1, DocumentAssumption DEF TripDoc
<1>4. trips' = IF trips[hand[c].trip] = Nothing THEN trips
               ELSE [trips EXCEPT ![hand[c].trip] = new]
  BY <1>2
<1> HIDE DEF new
<1> QED BY <1>1, <1>3, <1>4 DEF TypeOK, Saved

LEMMA EraseDoes ==
  ASSUME TypeOK, HandsFit, NEW c \in Clerk, Erase(c)
  PROVE  /\ hand[c].trip \in Trip
         /\ trips' \in [Trip -> TripDoc \cup {Nothing}]
         /\ \A u \in Trip : u # hand[c].trip => trips'[u] = trips[u]
         /\ trips'[hand[c].trip] = Nothing
BY DEF Erase, HandsFit, TypeOK

-----------------------------------------------------------------------------
(* Requests.                                                               *)

LEMMA CopyTyped ==
  ASSUME TypeOK, NEW i \in Invoice
  PROVE  /\ Copy(i) \in [Invoice -> InvoiceDoc \cup {Nothing}]
         /\ Copy(i)[i] = invoices[i]
BY DEF TypeOK, Copy

LEMMA BlankTyped == Blank \in Held
<1> DEFINE none == [i \in Invoice |-> Nothing]
<1>1. none \in [Invoice -> InvoiceDoc \cup {Nothing}]
  OBVIOUS
<1>2. NoTotal \in Total
  BY NoTotalTyped
<1> HIDE DEF none
<1>3. [invoice |-> Nothing, trip |-> Nothing, trips |-> {}, receipt |-> Nothing,
       total |-> NoTotal, docs |-> none, next |-> "idle"] \in Held
  BY <1>1, <1>2 DEF Held
<1> QED BY <1>3 DEF Blank, none

(* Only the request that takes the step moves.                             *)
Moves(c, where, what) ==
  /\ pc' = [pc EXCEPT ![c] = where]
  /\ hand' = [hand EXCEPT ![c] = what]

LEMMA MovesTyped ==
  ASSUME TypeOK, NEW c \in Clerk, NEW where \in Where, NEW what \in Held,
         Moves(c, where, what)
  PROVE  /\ pc' \in [Clerk -> Where] /\ hand' \in [Clerk -> Held]
         /\ pc'[c] = where /\ hand'[c] = what
         /\ \A d \in Clerk : d # c => pc'[d] = pc[d] /\ hand'[d] = hand[d]
BY DEF TypeOK, Moves

LEMMA ContinueMoves ==
  ASSUME TypeOK, NEW c \in Clerk, NEW where \in Where, Continue(c, where)
  PROVE  \E what \in Held :
           /\ what = IF where = "idle" THEN Blank ELSE hand[c]
           /\ Moves(c, where, what)
<1>1. hand[c] \in Held /\ hand = [hand EXCEPT ![c] = hand[c]]
  BY DEF TypeOK
<1> QED BY <1>1, BlankTyped DEF Continue, Hold, Moves

LEMMA GotoMoves ==
  ASSUME TypeOK, NEW c \in Clerk, NEW from, NEW to \in Where, Goto(c, from, to), hand' = hand
  PROVE  hand[c] \in Held /\ Moves(c, to, hand[c])
BY DEF TypeOK, Goto, Moves

LEMMA AllocateMoves ==
  ASSUME TypeOK, NEW c \in Clerk, NEW i \in Invoice, Allocate(c, i)
  PROVE  \E what \in Held :
           /\ Moves(c, "allocate", what)
           /\ what.receipt = hand[c].receipt
           /\ what.docs = [hand[c].docs EXCEPT ![i] = Nothing]
<1> DEFINE rest == [hand[c].docs EXCEPT ![i] = Nothing]
           what == [hand[c] EXCEPT !.docs = rest]
<1>1. hand[c] \in Held /\ rest \in [Invoice -> InvoiceDoc \cup {Nothing}]
  BY DEF TypeOK, Held
<1>2. what \in Held /\ what.receipt = hand[c].receipt /\ what.docs = rest
  <2> HIDE DEF rest
  <2> QED BY <1>1 DEF Held
<1>3. hand' = [hand EXCEPT ![c] = what]
  BY <1>1 DEF Allocate, Hold, Held
<1>4. pc' = [pc EXCEPT ![c] = "allocate"]
  BY DEF Allocate, TypeOK
<1> HIDE DEF what
<1> QED BY <1>2, <1>3, <1>4 DEF Moves

(* What the two requests that hold a document hold.                        *)
LEMMA FoundTyped ==
  ASSUME TypeOK, NEW i \in Invoice, NEW r \in Money \cup {Nothing}
  PROVE  /\ [Blank EXCEPT !.invoice = i, !.docs = Copy(i)] \in Held
         /\ [Blank EXCEPT !.invoice = i, !.receipt = r, !.docs = Copy(i)] \in Held
<1>1. \A copy \in [Invoice -> InvoiceDoc \cup {Nothing}] :
        /\ [Blank EXCEPT !.invoice = i, !.docs = copy] \in Held
        /\ [Blank EXCEPT !.invoice = i, !.receipt = r, !.docs = copy] \in Held
  BY BlankTyped DEF Held
<1> QED BY <1>1, CopyTyped

(* The requests and the history keep their types.                          *)
RequestsTyped ==
  /\ pc \in [Clerk -> Where] /\ hand \in [Clerk -> Held]
  /\ met \subseteq Clerk /\ calm \in BOOLEAN /\ died \in BOOLEAN

LEMMA BeginDoes ==
  ASSUME TypeOK, NEW c \in Clerk, NEW where \in Where, NEW what \in Held,
         Begin(c, where, what)
  PROVE  RequestsTyped' /\ Moves(c, where, what)
<1>1. Moves(c, where, what)
  BY DEF Begin, Moves
<1>2. met' \subseteq Clerk
  BY DEF TypeOK, Begin, Busy
<1>3. calm' \in BOOLEAN /\ died' \in BOOLEAN
  BY DEF TypeOK, Begin
<1> QED BY <1>1, <1>2, <1>3, MovesTyped DEF RequestsTyped

(* A request begins.                                                       *)
Begins(c) == \E where \in Where \ {"idle"}, what \in Held : Begin(c, where, what)

(* A request that is at work takes a step.                                 *)
Goes(c) ==
  /\ pc[c] # "idle"
  /\ met' = met /\ calm' = calm /\ died' \in BOOLEAN
  /\ \E where \in Where, what \in Held : Moves(c, where, what)

LEMMA StepKinds ==
  ASSUME TypeOK, HandsFit, NEW c \in Clerk
  PROVE  /\ \A S \in SUBSET Trip : CreateFind(c, S) => Begins(c)
         /\ \A i \in Invoice : DeleteFind(c, i) \/ Look(c, i) \/ UpdateInvoice(c, i)
              => Begins(c)
         /\ \A i \in Invoice, r \in Receipt : PayFind(c, i, r) => Begins(c)
         /\ \A r \in Remittance : CustomerFind(c, r) => Begins(c)
         /\ \A t \in Trip : EditFind(c, t) \/ DeleteTripFind(c, t) => Begins(c)
         /\ \A i \in Invoice : Insert(c, i) \/ Allocate(c, i) => Goes(c)
         /\ Hook(c) \/ Mark(c) \/ Unmark(c) \/ Remove(c) => Goes(c)
         /\ RecomputeFind(c) \/ RecomputeTrips(c) \/ Recompute(c) => Goes(c)
         /\ Pay(c) \/ Allocated(c) \/ Save(c) \/ Erase(c) \/ Reread(c) \/ Die(c) => Goes(c)
<1> USE DEF Where
<1>1. ASSUME NEW S \in SUBSET Trip, CreateFind(c, S)
      PROVE  Begins(c)
  <2>1. PricesOf(S) \in Total
    BY PricesTyped DEF TypeOK
  <2>2. [Blank EXCEPT !.trips = S, !.total = PricesOf(S)] \in Held
    BY <2>1, BlankTyped DEF Held
  <2> QED BY <1>1, <2>2 DEF CreateFind, Begins
<1>2. ASSUME NEW i \in Invoice, DeleteFind(c, i) \/ Look(c, i)
      PROVE  Begins(c)
  BY <1>2, FoundTyped DEF DeleteFind, Look, Begins
<1>3. ASSUME NEW i \in Invoice, UpdateInvoice(c, i)
      PROVE  Begins(c)
  <2>1. \A w \in {"recompute", "reread", "hook"} :
          [Blank EXCEPT !.invoice = i,
                        !.next = IF w = "recompute" THEN "reread" ELSE "idle"] \in Held
    BY BlankTyped DEF Held
  <2> QED BY <1>3, <2>1 DEF UpdateInvoice, Begins
<1>4. ASSUME NEW i \in Invoice, NEW r \in Receipt, PayFind(c, i, r)
      PROVE  Begins(c)
  BY <1>4, FoundTyped DEF PayFind, Begins, Money
<1>5. ASSUME NEW r \in Remittance, CustomerFind(c, r)
      PROVE  Begins(c)
  <2>1. [Blank EXCEPT !.receipt = r, !.docs = invoices] \in Held
    BY BlankTyped DEF TypeOK, Held, Money
  <2> QED BY <1>5, <2>1 DEF CustomerFind, Begins
<1>6. ASSUME NEW t \in Trip, EditFind(c, t) \/ DeleteTripFind(c, t)
      PROVE  Begins(c)
  <2>1. trips[t].invoice \in Invoice \cup {Nothing}
    BY <1>6 DEF EditFind, DeleteTripFind, TypeOK, TripDoc
  <2>2. [Blank EXCEPT !.trip = t, !.invoice = trips[t].invoice] \in Held
    BY <2>1, BlankTyped DEF Held
  <2> QED BY <1>6, <2>2 DEF EditFind, DeleteTripFind, Begins
<1>7. ASSUME NEW i \in Invoice, Insert(c, i)
      PROVE  Goes(c)
  <2>1. [hand[c] EXCEPT !.invoice = i, !.next = "mark"] \in Held
    BY ZenonT(60) DEF TypeOK, Held
  <2> QED BY <1>7, <2>1 DEF Insert, Goto, Hold, History, Goes, TypeOK, Moves
<1>8. ASSUME NEW i \in Invoice, Allocate(c, i)
      PROVE  Goes(c)
  BY <1>8, AllocateMoves DEF Allocate, Goes, TypeOK
<1>9. ASSUME Hook(c) \/ Recompute(c)
      PROVE  Goes(c)
  <2>1. hand[c].next \in Where /\ AfterHook(c) \in Where
    BY DEF TypeOK, Held, AfterHook
  <2> QED BY <1>9, <2>1, ContinueMoves DEF Hook, Recompute, History, Goes, TypeOK
<1>10. ASSUME Mark(c) \/ Allocated(c) \/ Die(c)
       PROVE  Goes(c)
  BY <1>10, ContinueMoves DEF Mark, Allocated, Die, History, Goes, TypeOK
<1>11. ASSUME Unmark(c) \/ Remove(c) \/ Pay(c)
       PROVE  Goes(c)
  BY <1>11, GotoMoves DEF Unmark, Remove, Pay, Goto, History, Goes, TypeOK
<1>12. ASSUME RecomputeFind(c)
       PROVE  Goes(c)
  <2>1. hand[c].invoice \in Invoice /\ hand[c].next \in Where
    BY <1>12 DEF RecomputeFind, HandsFit, TypeOK, Held
  <2>2. \A copy \in [Invoice -> InvoiceDoc \cup {Nothing}] :
          [hand[c] EXCEPT !.docs = copy] \in Held
    BY ZenonT(60) DEF TypeOK, Held
  <2>3. [hand[c] EXCEPT !.docs = Copy(hand[c].invoice)] \in Held
    BY <2>1, <2>2, CopyTyped
  <2>4. CASE Live(hand[c].invoice)
    BY <1>12, <2>3, <2>4 DEF RecomputeFind, Hold, History, Goes, TypeOK, Moves
  <2>5. CASE ~Live(hand[c].invoice)
    BY <1>12, <2>1, <2>5, ContinueMoves DEF RecomputeFind, History, Goes, TypeOK
  <2> QED BY <2>4, <2>5
<1>13. ASSUME RecomputeTrips(c)
       PROVE  Goes(c)
  <2> DEFINE S == hand[c].docs[hand[c].invoice].trips
  <2>1. hand[c] \in Held /\ hand[c].invoice \in Invoice
        /\ hand[c].docs[hand[c].invoice] # Nothing
    BY <1>13 DEF RecomputeTrips, Goto, HandsFit, TypeOK
  <2>2. hand[c].docs[hand[c].invoice] \in InvoiceDoc
    BY <2>1 DEF Held
  <2>3. S \in SUBSET Trip
    BY <2>2 DEF InvoiceDoc
  <2>4. PricesOf(S) \in Total
    BY <2>3, PricesTyped DEF TypeOK
  <2>5. \A sum \in Total : [hand[c] EXCEPT !.total = sum] \in Held
    BY <2>1 DEF Held
  <2> QED BY <1>13, <2>4, <2>5 DEF RecomputeTrips, Goto, Hold, History, Goes, TypeOK, Moves
<1>14. ASSUME Save(c) \/ Erase(c)
       PROVE  Goes(c)
  BY <1>14, ContinueMoves DEF Save, Erase, Linked, History, Goes, TypeOK
<1>15. ASSUME Reread(c)
       PROVE  Goes(c)
  BY <1>15, ContinueMoves DEF Reread, History, Goes, TypeOK
<1> QED
  BY <1>1, <1>2, <1>3, <1>4, <1>5, <1>6, <1>7, <1>8, <1>9, <1>10, <1>11, <1>12,
     <1>13, <1>14, <1>15

LEMMA SomebodySteps ==
  ASSUME TypeOK, HandsFit, Next
  PROVE  \E c \in Clerk : Begins(c) \/ Goes(c)
BY StepKinds DEF Next

LEMMA RequestsStep == ASSUME TypeOK, HandsFit, [Next]_vars PROVE RequestsTyped'
<1>1. ASSUME NEW c \in Clerk, Begins(c)
      PROVE  RequestsTyped'
  BY <1>1, BeginDoes DEF Begins
<1>2. ASSUME NEW c \in Clerk, Goes(c)
      PROVE  RequestsTyped'
  BY <1>2, MovesTyped DEF Goes, RequestsTyped, TypeOK
<1>3. CASE UNCHANGED vars
  BY <1>3 DEF vars, TypeOK, RequestsTyped
<1> QED BY <1>1, <1>2, <1>3, SomebodySteps

-----------------------------------------------------------------------------
(* Documents.                                                              *)

DocumentsTyped ==
  /\ trips \in [Trip -> TripDoc \cup {Nothing}]
  /\ invoices \in [Invoice -> InvoiceDoc \cup {Nothing}]
  /\ minted \subseteq Invoice
  /\ fin_txn \in [Invoice -> LedgerView \cup {Nothing}]
  /\ received \subseteq Invoice \X Money

LEMMA TypeParts == TypeOK <=> DocumentsTyped /\ RequestsTyped
BY DEF TypeOK, DocumentsTyped, RequestsTyped

LEMMA DocumentsStep == ASSUME TypeOK, HandsFit, [Next]_vars PROVE DocumentsTyped'
<1> USE DEF History
<1>1. ASSUME NEW c \in Clerk, NEW S \in SUBSET Trip, CreateFind(c, S)
      PROVE  DocumentsTyped'
  BY <1>1 DEF CreateFind, Begin, TypeOK, DocumentsTyped
<1>2. ASSUME NEW c \in Clerk, NEW i \in Invoice, Insert(c, i)
      PROVE  DocumentsTyped'
  BY <1>2, InsertDoes DEF Insert, TypeOK, DocumentsTyped
<1>3. ASSUME NEW c \in Clerk, Hook(c)
      PROVE  DocumentsTyped'
  <2> DEFINE i == hand[c].invoice
             view == ViewOf(i)
  <2>1. i \in Invoice
    BY <1>3 DEF Hook, HandsFit
  <2>2. view \in LedgerView \cup {Nothing}
    <3>1. CASE Live(i)
      <4>1. invoices[i].total \in Total /\ invoices[i].payments \cap Receipt \in SUBSET Receipt
        BY <2>1, <3>1 DEF TypeOK, Live, InvoiceDoc
      <4> QED BY <3>1, <4>1 DEF ViewOf, LedgerView
    <3> QED BY <3>1 DEF ViewOf
  <2>3. fin_txn' = [fin_txn EXCEPT ![i] = view]
    BY <1>3 DEF Hook
  <2> HIDE DEF view
  <2> QED BY <1>3, <2>2, <2>3 DEF Hook, TypeOK, DocumentsTyped
<1>4. ASSUME NEW c \in Clerk, Mark(c)
      PROVE  DocumentsTyped'
  <2>1. hand[c].trips \in SUBSET Trip /\ hand[c].invoice \in Invoice \cup {Nothing}
    BY DEF TypeOK, Held
  <2>2. Marked(hand[c].trips, hand[c].invoice)
    BY <1>4, <2>1, MarkAllDoes DEF Mark
  <2> QED BY <1>4, <2>2 DEF Mark, Marked, TypeOK, DocumentsTyped
<1>5. ASSUME NEW c \in Clerk, NEW i \in Invoice, DeleteFind(c, i)
      PROVE  DocumentsTyped'
  BY <1>5 DEF DeleteFind, Begin, TypeOK, DocumentsTyped
<1>6. ASSUME NEW c \in Clerk, Unmark(c)
      PROVE  DocumentsTyped'
  <2>1. hand[c] \in Held /\ hand[c].invoice \in Invoice /\ hand[c].docs[hand[c].invoice] # Nothing
    BY <1>6 DEF Unmark, Goto, HandsFit, TypeOK
  <2>2. hand[c].docs[hand[c].invoice] \in InvoiceDoc
    BY <2>1 DEF Held
  <2>3. Marked(hand[c].docs[hand[c].invoice].trips, Nothing)
    BY <1>6, <2>2, MarkAllDoes DEF Unmark, InvoiceDoc
  <2> QED BY <1>6, <2>3 DEF Unmark, Marked, TypeOK, DocumentsTyped
<1>7. ASSUME NEW c \in Clerk, Remove(c)
      PROVE  DocumentsTyped'
  BY <1>7 DEF Remove, TypeOK, DocumentsTyped
<1>8. ASSUME NEW c \in Clerk, NEW i \in Invoice, Look(c, i) \/ UpdateInvoice(c, i)
      PROVE  DocumentsTyped'
  BY <1>8 DEF Look, UpdateInvoice, Begin, TypeOK, DocumentsTyped
<1>9. ASSUME NEW c \in Clerk, RecomputeFind(c) \/ RecomputeTrips(c)
      PROVE  DocumentsTyped'
  BY <1>9 DEF RecomputeFind, RecomputeTrips, TypeOK, DocumentsTyped
<1>10. ASSUME NEW c \in Clerk, Recompute(c)
       PROVE  DocumentsTyped'
  <2>1. invoices' \in [Invoice -> InvoiceDoc \cup {Nothing}]
    BY <1>10, RecomputeDoes
  <2> QED BY <1>10, <2>1 DEF Recompute, TypeOK, DocumentsTyped
<1>11. ASSUME NEW c \in Clerk, NEW i \in Invoice, NEW r \in Receipt, PayFind(c, i, r)
       PROVE  DocumentsTyped'
  BY <1>11 DEF PayFind, Begin, TypeOK, DocumentsTyped
<1>12. ASSUME NEW c \in Clerk, Pay(c)
       PROVE  DocumentsTyped'
  <2>1. /\ hand[c] \in Held /\ hand[c].invoice \in Invoice
        /\ hand[c].receipt \in Money /\ hand[c].docs[hand[c].invoice] # Nothing
    BY <1>12 DEF Pay, Goto, HandsFit, TypeOK
  <2>2. hand[c].docs[hand[c].invoice] \in InvoiceDoc
    BY <2>1 DEF Held
  <2>3. hand[c].docs[hand[c].invoice].payments \cup {hand[c].receipt} \in SUBSET Money
    BY <2>1, <2>2 DEF InvoiceDoc
  <2>4. invoices' \in [Invoice -> InvoiceDoc \cup {Nothing}]
    BY <1>12, <2>1, <2>2, <2>3, SetPaymentsDoes DEF Pay
  <2> QED BY <1>12, <2>1, <2>4 DEF Pay, Received, TypeOK, DocumentsTyped
<1>13. ASSUME NEW c \in Clerk, NEW r \in Remittance, CustomerFind(c, r)
       PROVE  DocumentsTyped'
  BY <1>13 DEF CustomerFind, Begin, TypeOK, DocumentsTyped
<1>14. ASSUME NEW c \in Clerk, NEW i \in Invoice, Allocate(c, i)
       PROVE  DocumentsTyped'
  <2>1. /\ hand[c] \in Held /\ hand[c].receipt \in Money /\ hand[c].docs[i] # Nothing
    BY <1>14 DEF Allocate, HandsFit, TypeOK
  <2>2. hand[c].docs[i] \in InvoiceDoc
    BY <2>1 DEF Held
  <2>3. /\ hand[c].docs[i].payments \cup {hand[c].receipt} \in SUBSET Money
        /\ hand[c].docs[i].paid \cup {hand[c].receipt} \in SUBSET Money
    BY <2>1, <2>2 DEF InvoiceDoc
  <2>4. invoices' \in [Invoice -> InvoiceDoc \cup {Nothing}]
    BY <1>14, <2>2, <2>3, SetPaymentsDoes DEF Allocate
  <2> QED BY <1>14, <2>1, <2>4 DEF Allocate, Received, TypeOK, DocumentsTyped
<1>15. ASSUME NEW c \in Clerk, Allocated(c) \/ Reread(c) \/ Die(c)
       PROVE  DocumentsTyped'
  BY <1>15 DEF Allocated, Reread, Die, TypeOK, DocumentsTyped
<1>16. ASSUME NEW c \in Clerk, NEW t \in Trip, EditFind(c, t) \/ DeleteTripFind(c, t)
       PROVE  DocumentsTyped'
  BY <1>16 DEF EditFind, DeleteTripFind, Begin, TypeOK, DocumentsTyped
<1>17. ASSUME NEW c \in Clerk, Save(c)
       PROVE  DocumentsTyped'
  BY <1>17, SaveDoes DEF Save, Saved, TypeOK, DocumentsTyped
<1>18. ASSUME NEW c \in Clerk, Erase(c)
       PROVE  DocumentsTyped'
  BY <1>18, EraseDoes DEF Erase, TypeOK, DocumentsTyped
<1>19. CASE UNCHANGED vars
  BY <1>19 DEF vars, TypeOK, DocumentsTyped
<1> QED
  BY <1>1, <1>2, <1>3, <1>4, <1>5, <1>6, <1>7, <1>8, <1>9, <1>10, <1>11, <1>12,
     <1>13, <1>14, <1>15, <1>16, <1>17, <1>18, <1>19 DEF Next

-----------------------------------------------------------------------------
(* What requests hold.                                                     *)

Fit(p, h) ==
  /\ p \in {"hook", "mark", "unmark", "remove", "reread", "recompute", "trips", "totals",
            "pay"}
       => h.invoice \in Invoice
  /\ p \in {"unmark", "trips", "totals", "pay"} => h.docs[h.invoice] # Nothing
  /\ p \in {"save", "erase"} => h.trip \in Trip
  /\ p \in {"pay", "allocate"} => h.receipt \in Money
  /\ p \in {"reread", "recompute", "trips", "totals", "save", "erase"} => h.next \in {"idle", "reread"}
  /\ p \in {"unmark", "remove", "pay"} => h.next = "idle"

LEMMA HandsFitParts == HandsFit <=> \A c \in Clerk : Fit(pc[c], hand[c])
BY DEF HandsFit, Fit

LEMMA FitMoves ==
  ASSUME TypeOK, HandsFit, NEW c \in Clerk, NEW where, NEW what,
         Moves(c, where, what), Fit(where, what)
  PROVE  HandsFit'
<1>1. \A d \in Clerk : Fit(pc[d], hand[d])
  BY HandsFitParts
<1>2. \A d \in Clerk : Fit(pc'[d], hand'[d])
  <2>1. pc'[c] = where /\ hand'[c] = what
    BY DEF TypeOK, Moves
  <2>2. \A d \in Clerk \ {c} : pc'[d] = pc[d] /\ hand'[d] = hand[d]
    BY DEF TypeOK, Moves
  <2>3. TAKE d \in Clerk
  <2>4. CASE d = c
    BY <2>1, <2>4
  <2>5. CASE d # c
    BY <1>1, <2>2, <2>5
  <2> QED BY <2>4, <2>5
<1> QED BY <1>2 DEF HandsFit, Fit

LEMMA IdleFits == \A h : Fit("idle", h)
BY DEF Fit

LEMMA HandsStep == ASSUME TypeOK, HandsFit, [Next]_vars PROVE HandsFit'
<1> USE DEF Where
<1>0. \A c \in Clerk : Fit(pc[c], hand[c])
  BY HandsFitParts
<1>1. ASSUME NEW c \in Clerk, NEW S \in SUBSET Trip, CreateFind(c, S)
      PROVE  HandsFit'
  <2>1. \A what : Fit("insert", what)
    BY DEF Fit
  <2> QED BY <1>1, <2>1, FitMoves DEF CreateFind, Begin, Moves
<1>2. ASSUME NEW c \in Clerk, NEW i \in Invoice, Insert(c, i)
      PROVE  HandsFit'
  <2> DEFINE what == [hand[c] EXCEPT !.invoice = i, !.next = "mark"]
  <2>1. what.invoice = i
    BY DEF TypeOK, Held
  <2>2. Fit("hook", what)
    <3> HIDE DEF what
    <3> QED BY <2>1 DEF Fit
  <2>3. Moves(c, "hook", what)
    BY <1>2 DEF Insert, Goto, Hold, Moves
  <2> QED BY <2>2, <2>3, FitMoves
<1>3. ASSUME NEW c \in Clerk, Hook(c)
      PROVE  HandsFit'
  <2>1. hand[c].next \in {"idle", "reread", "mark"} /\ hand[c].invoice \in Invoice
    BY <1>3 DEF TypeOK, Held, Hook, HandsFit
  <2>2. AfterHook(c) \in {"idle", "mark"} /\ Fit(AfterHook(c), hand[c])
    BY <2>1 DEF Fit, AfterHook
  <2> QED BY <1>3, <2>2, IdleFits, ContinueMoves, FitMoves DEF Hook
<1>4. ASSUME NEW c \in Clerk, Mark(c) \/ Allocated(c) \/ Die(c)
      PROVE  HandsFit'
  BY <1>4, IdleFits, ContinueMoves, FitMoves DEF Mark, Allocated, Die
<1>5. ASSUME NEW c \in Clerk, NEW i \in Invoice, DeleteFind(c, i) \/ Look(c, i)
      PROVE  HandsFit'
  <2> DEFINE what == [Blank EXCEPT !.invoice = i, !.docs = Copy(i)]
  <2>1. what.invoice = i /\ what.docs = Copy(i) /\ what.next = "idle"
    BY DEF Blank
  <2>2. what.docs[what.invoice] # Nothing
    BY <1>5, <2>1, CopyTyped DEF DeleteFind, Look, Live
  <2>3. Moves(c, "unmark", what) \/ Moves(c, "trips", what)
    BY <1>5 DEF DeleteFind, Look, Begin, Moves
  <2> HIDE DEF what
  <2>4. Fit("unmark", what) /\ Fit("trips", what)
    BY <2>1, <2>2 DEF Fit
  <2> QED BY <2>3, <2>4, FitMoves
<1>6. ASSUME NEW c \in Clerk, Unmark(c)
      PROVE  HandsFit'
  <2>1. hand[c].invoice \in Invoice
    BY <1>6 DEF Unmark, Goto, HandsFit
  <2>2. hand[c].next = "idle"
    BY <1>6, <1>0 DEF Unmark, Goto, Fit
  <2>3. Fit("remove", hand[c])
    BY <2>1, <2>2 DEF Fit
  <2> QED BY <1>6, <2>3, GotoMoves, FitMoves DEF Unmark
<1>7. ASSUME NEW c \in Clerk, Remove(c)
      PROVE  HandsFit'
  <2>1. Fit("hook", hand[c])
    BY <1>7 DEF Remove, Goto, HandsFit, Fit
  <2> QED BY <1>7, <2>1, GotoMoves, FitMoves DEF Remove
<1>8. ASSUME NEW c \in Clerk, NEW i \in Invoice, UpdateInvoice(c, i)
      PROVE  HandsFit'
  <2>1. PICK w \in {"recompute", "reread", "hook"} :
          Begin(c, w, [Blank EXCEPT !.invoice = i,
                                    !.next = IF w = "recompute" THEN "reread" ELSE "idle"])
    BY <1>8 DEF UpdateInvoice
  <2>2. Fit(w, [Blank EXCEPT !.invoice = i,
                             !.next = IF w = "recompute" THEN "reread" ELSE "idle"])
    BY <2>1 DEF Fit, Blank
  <2> QED BY <2>1, <2>2, FitMoves DEF Begin, Moves
<1>9. ASSUME NEW c \in Clerk, RecomputeFind(c)
      PROVE  HandsFit'
  <2> DEFINE i == hand[c].invoice
             what == [hand[c] EXCEPT !.docs = Copy(i)]
  <2>1. i \in Invoice /\ hand[c].next \in {"idle", "reread"}
    BY <1>9 DEF RecomputeFind, HandsFit
  <2>2. CASE Live(i)
    <3>1. what.invoice = i /\ what.docs = Copy(i) /\ what.next = hand[c].next
      BY DEF TypeOK, Held
    <3>2. what.docs[what.invoice] # Nothing
      BY <2>1, <2>2, <3>1, CopyTyped DEF Live
    <3>3. Moves(c, "trips", what)
      BY <1>9, <2>2 DEF RecomputeFind, Hold, Moves
    <3> HIDE DEF what
    <3>4. Fit("trips", what)
      BY <2>1, <3>1, <3>2 DEF Fit
    <3> QED BY <3>3, <3>4, FitMoves
  <2>3. CASE ~Live(i)
    <3>1. Fit(hand[c].next, hand[c])
      BY <2>1 DEF Fit
    <3> QED BY <1>9, <2>1, <2>3, <3>1, IdleFits, ContinueMoves, FitMoves DEF RecomputeFind
  <2> QED BY <2>2, <2>3
<1>10. ASSUME NEW c \in Clerk, RecomputeTrips(c)
       PROVE  HandsFit'
  <2> DEFINE sum == PricesOf(hand[c].docs[hand[c].invoice].trips)
             what == [hand[c] EXCEPT !.total = sum]
  <2>1. what.invoice = hand[c].invoice /\ what.docs = hand[c].docs /\ what.next = hand[c].next
    <3> HIDE DEF sum
    <3> QED BY DEF TypeOK, Held
  <2>2. Moves(c, "totals", what)
    BY <1>10 DEF RecomputeTrips, Goto, Hold, Moves
  <2> HIDE DEF what
  <2>3. Fit("totals", what)
    BY <1>0, <1>10, <2>1 DEF RecomputeTrips, Goto, Fit
  <2> QED BY <2>2, <2>3, FitMoves
<1>11. ASSUME NEW c \in Clerk, Recompute(c)
       PROVE  HandsFit'
  <2>1. Fit(hand[c].next, hand[c]) /\ hand[c].next \in Where
    BY <1>11 DEF Recompute, HandsFit, Fit
  <2> QED BY <1>11, <2>1, IdleFits, ContinueMoves, FitMoves DEF Recompute
<1>12. ASSUME NEW c \in Clerk, NEW i \in Invoice, NEW r \in Receipt, PayFind(c, i, r)
       PROVE  HandsFit'
  <2> DEFINE what == [Blank EXCEPT !.invoice = i, !.receipt = r, !.docs = Copy(i)]
  <2>1. what.invoice = i /\ what.docs = Copy(i) /\ what.receipt = r /\ what.next = "idle"
    BY DEF Blank
  <2>2. what.docs[what.invoice] # Nothing
    BY <1>12, <2>1, CopyTyped DEF PayFind, Live
  <2>3. Moves(c, "pay", what)
    BY <1>12 DEF PayFind, Begin, Moves
  <2> HIDE DEF what
  <2>4. Fit("pay", what)
    BY <2>1, <2>2 DEF Fit, Money
  <2> QED BY <2>3, <2>4, FitMoves
<1>13. ASSUME NEW c \in Clerk, Pay(c)
       PROVE  HandsFit'
  <2>1. Fit("hook", hand[c])
    BY <1>13 DEF Pay, Goto, HandsFit, Fit
  <2> QED BY <1>13, <2>1, GotoMoves, FitMoves DEF Pay
<1>14. ASSUME NEW c \in Clerk, NEW r \in Remittance, CustomerFind(c, r)
       PROVE  HandsFit'
  <2>1. Fit("allocate", [Blank EXCEPT !.receipt = r, !.docs = invoices])
    BY DEF Fit, Blank, Money
  <2> QED BY <1>14, <2>1, FitMoves DEF CustomerFind, Begin, Moves
<1>15. ASSUME NEW c \in Clerk, NEW i \in Invoice, Allocate(c, i)
       PROVE  HandsFit'
  <2>1. PICK what \in Held : Moves(c, "allocate", what) /\ what.receipt = hand[c].receipt
    BY <1>15, AllocateMoves
  <2>2. pc[c] = "allocate"
    BY <1>15 DEF Allocate
  <2>3. Fit("allocate", what)
    BY <1>0, <2>1, <2>2 DEF Fit
  <2> QED BY <2>1, <2>3, FitMoves
<1>16. ASSUME NEW c \in Clerk, NEW t \in Trip, EditFind(c, t) \/ DeleteTripFind(c, t)
       PROVE  HandsFit'
  <2> DEFINE what == [Blank EXCEPT !.trip = t, !.invoice = trips[t].invoice]
  <2>1. Fit("save", what) /\ Fit("erase", what)
    BY DEF Fit, Blank
  <2>2. Moves(c, "save", what) \/ Moves(c, "erase", what)
    BY <1>16 DEF EditFind, DeleteTripFind, Begin, Moves
  <2> QED BY <2>1, <2>2, FitMoves
<1>17. ASSUME NEW c \in Clerk, Save(c) \/ Erase(c)
       PROVE  HandsFit'
  <2>1. hand[c].next \in {"idle", "reread"}
    BY <1>0, <1>17 DEF Save, Erase, Fit
  <2>2. Fit(Linked(c), hand[c]) /\ Linked(c) \in {"idle", "recompute"}
    BY <2>1 DEF Linked, Fit, TypeOK, Held
  <2> QED BY <1>17, <2>2, IdleFits, ContinueMoves, FitMoves DEF Save, Erase
<1>18. CASE UNCHANGED vars
  BY <1>18 DEF vars, HandsFit
<1>19. ASSUME NEW c \in Clerk, Reread(c)
       PROVE  HandsFit'
  <2>1. hand[c].invoice \in Invoice
    BY <1>19 DEF Reread, HandsFit
  <2>2. Fit("hook", hand[c])
    BY <2>1 DEF Fit
  <2> QED BY <1>19, <2>2, IdleFits, ContinueMoves, FitMoves DEF Reread
<1> QED
  BY <1>1, <1>2, <1>3, <1>4, <1>5, <1>6, <1>7, <1>8, <1>9, <1>10, <1>11, <1>12,
     <1>13, <1>14, <1>15, <1>16, <1>17, <1>18, <1>19 DEF Next

-----------------------------------------------------------------------------
(* Requests that meet nobody.                                              *)

LEMMA AloneStep ==
  ASSUME TypeOK, HandsFit, AloneIsAlone, [Next]_vars
  PROVE  AloneIsAlone'
<1>1. ASSUME NEW c \in Clerk, Begins(c)
      PROVE  AloneIsAlone'
  <2>1. Busy' = Busy \cup {c}
    BY <1>1 DEF Begins, Begin, Busy, TypeOK
  <2>2. met' = IF Busy = {} THEN met \ {c} ELSE met \cup Busy \cup {c}
    BY <1>1 DEF Begins, Begin
  <2>3. calm' = (calm /\ Busy = {})
    BY <1>1 DEF Begins, Begin
  <2> QED BY <2>1, <2>2, <2>3 DEF AloneIsAlone
<1>2. ASSUME NEW c \in Clerk, Goes(c)
      PROVE  AloneIsAlone'
  <2>1. Busy' \subseteq Busy /\ met' = met /\ calm' = calm
    BY <1>2 DEF Goes, Moves, Busy, TypeOK
  <2> QED BY <2>1 DEF AloneIsAlone
<1>3. CASE UNCHANGED vars
  BY <1>3 DEF vars, AloneIsAlone, Busy
<1> QED BY <1>1, <1>2, <1>3, SomebodySteps

-----------------------------------------------------------------------------
(* Which trips an invoice lists.                                           *)

LEMMA PayDoes ==
  ASSUME TypeOK, HandsFit, NEW c \in Clerk, Pay(c)
  PROVE  LET i == hand[c].invoice
             doc == hand[c].docs[i]
             payments == doc.payments \cup {hand[c].receipt}
         IN /\ i \in Invoice /\ hand[c].receipt \in Money
            /\ invoices' \in [Invoice -> InvoiceDoc \cup {Nothing}]
            /\ Figures(i, invoices[i].total, payments, payments, <<doc.total, payments>>)
<1>1. /\ hand[c] \in Held /\ hand[c].invoice \in Invoice
      /\ hand[c].receipt \in Money /\ hand[c].docs[hand[c].invoice] # Nothing
  BY DEF Pay, Goto, HandsFit, TypeOK
<1>2. hand[c].docs[hand[c].invoice] \in InvoiceDoc
  BY <1>1 DEF Held
<1>3. hand[c].docs[hand[c].invoice].payments \cup {hand[c].receipt} \in SUBSET Money
  BY <1>1, <1>2 DEF InvoiceDoc
<1> QED BY <1>1, <1>2, <1>3, SetPaymentsDoes DEF Pay

LEMMA AllocateDoes ==
  ASSUME TypeOK, HandsFit, NEW c \in Clerk, NEW i \in Invoice, Allocate(c, i)
  PROVE  LET doc == hand[c].docs[i]
             payments == doc.payments \cup {hand[c].receipt}
             paid == doc.paid \cup {hand[c].receipt}
         IN /\ doc # Nothing /\ hand[c].receipt \in Money
            /\ invoices' \in [Invoice -> InvoiceDoc \cup {Nothing}]
            /\ Figures(i, invoices[i].total, payments, paid, <<doc.total, paid>>)
<1>1. hand[c] \in Held /\ hand[c].receipt \in Money /\ hand[c].docs[i] # Nothing
  BY DEF Allocate, HandsFit, TypeOK
<1>2. hand[c].docs[i] \in InvoiceDoc
  BY <1>1 DEF Held
<1>3. /\ hand[c].docs[i].payments \cup {hand[c].receipt} \in SUBSET Money
      /\ hand[c].docs[i].paid \cup {hand[c].receipt} \in SUBSET Money
  BY <1>1, <1>2 DEF InvoiceDoc
<1> QED BY <1>1, <1>2, <1>3, SetPaymentsDoes DEF Allocate

(* A live invoice lists the same trips from its creation to its deletion.  *)
ListsStay ==
  \A i \in Invoice :
    /\ i \in minted => i \in minted' /\ (Live(i)' => Live(i))
    /\ Live(i) /\ Live(i)' /\ i \in minted => invoices'[i].trips = invoices[i].trips

LEMMA ListsStayStep == ASSUME TypeOK, HandsFit, [Next]_vars PROVE ListsStay
<1>1. CASE UNCHANGED <<invoices, minted>>
  BY <1>1 DEF ListsStay, Live
<1>2. ASSUME NEW c \in Clerk, NEW i \in Invoice, Insert(c, i)
      PROVE  ListsStay
  <2>1. Others(i) /\ i \notin minted /\ minted' = minted \cup {i}
    BY <1>2, InsertDoes DEF Insert
  <2> QED BY <2>1 DEF Others, ListsStay, Live
<1>3. ASSUME NEW c \in Clerk, Remove(c)
      PROVE  ListsStay
  BY <1>3 DEF Remove, ListsStay, Live, TypeOK
<1>4. ASSUME NEW c \in Clerk, Recompute(c)
      PROVE  ListsStay
  BY ZenonT(60), <1>4, RecomputeDoes, FiguresKeep DEF Recompute, ListsStay, TypeOK
<1>5. ASSUME NEW c \in Clerk, Pay(c)
      PROVE  ListsStay
  BY <1>5, PayDoes, FiguresKeep DEF Pay, ListsStay, TypeOK
<1>6. ASSUME NEW c \in Clerk, NEW i \in Invoice, Allocate(c, i)
      PROVE  ListsStay
  BY <1>6, AllocateDoes, FiguresKeep DEF Allocate, ListsStay, TypeOK
<1> QED
  BY ZenonT(60), <1>1, <1>2, <1>3, <1>4, <1>5, <1>6 DEF Next, vars, CreateFind, Hook, Mark,
     DeleteFind, Unmark, Look, UpdateInvoice, Reread, RecomputeFind, RecomputeTrips, PayFind,
     CustomerFind, Allocated, EditFind, DeleteTripFind, Save, Erase, Die

LEMMA GenuineStays ==
  ASSUME ListsStay, NEW t \in Trip, NEW i \in Invoice, Genuine(t, i)
  PROVE  Genuine(t, i)'
BY DEF ListsStay, Genuine, Live

-----------------------------------------------------------------------------
(* Genuine marks.                                                          *)

MarksGenuine ==
  \A t \in Trip :
    trips[t] # Nothing /\ trips[t].invoice # Nothing => Genuine(t, trips[t].invoice)

(* What one request is about to write on trips.                            *)
HandGenuine(c) ==
  /\ Marking(c) => \A t \in hand[c].trips : Genuine(t, hand[c].invoice)
  /\ pc[c] = "save" /\ hand[c].invoice # Nothing => Genuine(hand[c].trip, hand[c].invoice)

LEMMA GenuineParts ==
  GenuineMarks <=> MarksGenuine /\ \A c \in Clerk : HandGenuine(c)
BY DEF GenuineMarks, MarksGenuine, HandGenuine

(* The requests that do not step keep what they hold.                      *)
LEMMA OtherHands ==
  ASSUME TypeOK, HandsFit, GenuineMarks, ListsStay, NEW c \in Clerk, NEW d \in Clerk,
         pc'[d] = pc[d], hand'[d] = hand[d]
  PROVE  HandGenuine(d)'
<1>1. HandGenuine(d)
  BY GenuineParts
<1>2. ASSUME Marking(d), NEW t \in hand[d].trips
      PROVE  Genuine(t, hand[d].invoice) /\ t \in Trip /\ hand[d].invoice \in Invoice
  BY <1>1, <1>2 DEF HandGenuine, Marking, HandsFit, TypeOK, Held
<1>3. ASSUME pc[d] = "save", hand[d].invoice # Nothing
      PROVE  /\ Genuine(hand[d].trip, hand[d].invoice)
             /\ hand[d].trip \in Trip /\ hand[d].invoice \in Invoice
  BY <1>1, <1>3 DEF HandGenuine, HandsFit, TypeOK, Held
<1>4. \A t \in Trip, i \in Invoice : Genuine(t, i) => Genuine(t, i)'
  BY GenuineStays
<1>5. Marking(d)' <=> Marking(d)
  BY DEF Marking
<1> QED BY <1>2, <1>3, <1>4, <1>5 DEF HandGenuine, Genuine

LEMMA MarksKeep ==
  ASSUME TypeOK, GenuineMarks, ListsStay, trips' = trips
  PROVE  MarksGenuine'
<1>1. ASSUME NEW t \in Trip, trips[t] # Nothing, trips[t].invoice # Nothing
      PROVE  Genuine(t, trips[t].invoice)'
  <2>1. trips[t].invoice \in Invoice
    BY <1>1 DEF TypeOK, TripDoc
  <2> QED BY <1>1, <2>1, GenuineStays DEF GenuineMarks
<1> QED BY <1>1 DEF MarksGenuine, Genuine

LEMMA OthersRest ==
  ASSUME TypeOK, NEW c \in Clerk, Begins(c) \/ Goes(c)
  PROVE  \A d \in Clerk : d # c => pc'[d] = pc[d] /\ hand'[d] = hand[d]
BY DEF Begins, Begin, Goes, Moves, TypeOK

(* What a request holds when it has begun.                                 *)
LEMMA BeginHolds ==
  ASSUME TypeOK, NEW c \in Clerk
  PROVE  /\ \A S \in SUBSET Trip : CreateFind(c, S) =>
              /\ pc'[c] = "insert" /\ hand'[c].trips = S
              /\ hand'[c].total = PricesOf(S) /\ hand'[c].next = "idle"
         /\ \A i \in Invoice : DeleteFind(c, i) =>
              /\ pc'[c] = "unmark" /\ hand'[c].invoice = i
              /\ hand'[c].docs[i] = invoices[i] /\ hand'[c].next = "idle"
         /\ \A i \in Invoice : Look(c, i) =>
              /\ pc'[c] = "trips" /\ hand'[c].invoice = i
              /\ hand'[c].docs[i] = invoices[i] /\ hand'[c].next = "idle"
         /\ \A i \in Invoice : UpdateInvoice(c, i) =>
              /\ pc'[c] \in {"recompute", "reread", "hook"} /\ hand'[c].invoice = i
              /\ hand'[c].next \in {"reread", "idle"}
         /\ \A i \in Invoice, r \in Receipt : PayFind(c, i, r) =>
              /\ pc'[c] = "pay" /\ hand'[c].invoice = i /\ hand'[c].receipt = r
              /\ hand'[c].docs[i] = invoices[i] /\ hand'[c].next = "idle"
         /\ \A r \in Remittance : CustomerFind(c, r) =>
              /\ pc'[c] = "allocate" /\ hand'[c].receipt = r
              /\ hand'[c].docs = invoices /\ hand'[c].next = "idle"
         /\ \A t \in Trip : EditFind(c, t) =>
              /\ pc'[c] = "save" /\ hand'[c].trip = t
              /\ hand'[c].invoice = trips[t].invoice /\ hand'[c].next = "idle"
         /\ \A t \in Trip : DeleteTripFind(c, t) =>
              /\ pc'[c] = "erase" /\ hand'[c].trip = t
              /\ hand'[c].invoice = trips[t].invoice /\ hand'[c].next = "idle"
<1>1. ASSUME NEW S \in SUBSET Trip, CreateFind(c, S)
      PROVE  /\ pc'[c] = "insert" /\ hand'[c].trips = S
             /\ hand'[c].total = PricesOf(S) /\ hand'[c].next = "idle"
  <2>1. \A sum : LET what == [Blank EXCEPT !.trips = S, !.total = sum]
                 IN what.trips = S /\ what.total = sum /\ what.next = "idle"
    BY DEF Blank
  <2> QED BY <1>1, <2>1 DEF CreateFind, Begin, TypeOK
<1>2. \A i \in Invoice : LET what == [Blank EXCEPT !.invoice = i, !.docs = Copy(i)]
                         IN what.invoice = i /\ what.docs = Copy(i) /\ what.next = "idle"
  BY DEF Blank
<1>3. ASSUME NEW i \in Invoice, DeleteFind(c, i)
      PROVE  /\ pc'[c] = "unmark" /\ hand'[c].invoice = i
             /\ hand'[c].docs[i] = invoices[i] /\ hand'[c].next = "idle"
  BY <1>2, <1>3, CopyTyped DEF DeleteFind, Begin, TypeOK
<1>4. ASSUME NEW i \in Invoice, Look(c, i)
      PROVE  /\ pc'[c] = "trips" /\ hand'[c].invoice = i
             /\ hand'[c].docs[i] = invoices[i] /\ hand'[c].next = "idle"
  BY <1>2, <1>4, CopyTyped DEF Look, Begin, TypeOK
<1>5. ASSUME NEW i \in Invoice, UpdateInvoice(c, i)
      PROVE  /\ pc'[c] \in {"recompute", "reread", "hook"} /\ hand'[c].invoice = i
             /\ hand'[c].next \in {"reread", "idle"}
  <2>1. \A next : LET what == [Blank EXCEPT !.invoice = i, !.next = next]
                  IN what.invoice = i /\ what.next = next
    BY DEF Blank
  <2> QED BY <1>5, <2>1 DEF UpdateInvoice, Begin, TypeOK
<1>6. ASSUME NEW i \in Invoice, NEW r \in Receipt, PayFind(c, i, r)
      PROVE  /\ pc'[c] = "pay" /\ hand'[c].invoice = i /\ hand'[c].receipt = r
             /\ hand'[c].docs[i] = invoices[i] /\ hand'[c].next = "idle"
  <2>1. LET what == [Blank EXCEPT !.invoice = i, !.receipt = r, !.docs = Copy(i)]
        IN /\ what.invoice = i /\ what.receipt = r
           /\ what.docs = Copy(i) /\ what.next = "idle"
    BY DEF Blank
  <2> QED BY <1>6, <2>1, CopyTyped DEF PayFind, Begin, TypeOK
<1>7. ASSUME NEW r \in Remittance, CustomerFind(c, r)
      PROVE  /\ pc'[c] = "allocate" /\ hand'[c].receipt = r
             /\ hand'[c].docs = invoices /\ hand'[c].next = "idle"
  BY <1>7 DEF CustomerFind, Begin, TypeOK, Blank
<1>8. \A t, i : LET what == [Blank EXCEPT !.trip = t, !.invoice = i]
               IN what.trip = t /\ what.invoice = i /\ what.next = "idle"
  BY DEF Blank
<1>9. ASSUME NEW t \in Trip, EditFind(c, t)
      PROVE  /\ pc'[c] = "save" /\ hand'[c].trip = t
             /\ hand'[c].invoice = trips[t].invoice /\ hand'[c].next = "idle"
  BY <1>8, <1>9 DEF EditFind, Begin, TypeOK
<1>10. ASSUME NEW t \in Trip, DeleteTripFind(c, t)
       PROVE  /\ pc'[c] = "erase" /\ hand'[c].trip = t
              /\ hand'[c].invoice = trips[t].invoice /\ hand'[c].next = "idle"
  BY <1>8, <1>10 DEF DeleteTripFind, Begin, TypeOK
<1> QED BY <1>1, <1>3, <1>4, <1>5, <1>6, <1>7, <1>9, <1>10

(* What a request holds when it has gone on.                               *)
LEMMA GoHolds ==
  ASSUME TypeOK, HandsFit, NEW c \in Clerk
  PROVE  /\ \A i \in Invoice : Insert(c, i) =>
              /\ pc'[c] = "hook" /\ hand'[c].invoice = i /\ hand'[c].next = "mark"
              /\ hand'[c].trips = hand[c].trips
         /\ Hook(c) => /\ pc'[c] = IF hand[c].next = "mark" THEN "mark" ELSE "idle"
                       /\ pc'[c] # "idle" => hand'[c] = hand[c]
         /\ Recompute(c) =>
              pc'[c] = hand[c].next /\ (pc'[c] # "idle" => hand'[c] = hand[c])
         /\ Mark(c) \/ Allocated(c) \/ Die(c) => pc'[c] = "idle"
         /\ Unmark(c) => pc'[c] = "remove" /\ hand'[c] = hand[c]
         /\ Remove(c) \/ Pay(c) =>
              pc'[c] = "hook" /\ hand'[c] = hand[c] /\ hand[c].next = "idle"
         /\ RecomputeFind(c) =>
              \/ /\ pc'[c] = "trips" /\ hand'[c].invoice = hand[c].invoice
                 /\ hand'[c].docs[hand[c].invoice] = invoices[hand[c].invoice]
                 /\ hand'[c].next = hand[c].next
              \/ /\ ~Live(hand[c].invoice) /\ pc'[c] = hand[c].next
                 /\ pc'[c] # "idle" => hand'[c] = hand[c]
         /\ RecomputeTrips(c) =>
              /\ pc'[c] = "totals" /\ hand'[c].invoice = hand[c].invoice
              /\ hand'[c].docs = hand[c].docs /\ hand'[c].next = hand[c].next
              /\ hand'[c].total = PricesOf(hand[c].docs[hand[c].invoice].trips)
         /\ Reread(c) => pc'[c] \in {"hook", "idle"} /\ (pc'[c] # "idle" => hand'[c] = hand[c])
         /\ Save(c) \/ Erase(c) =>
              /\ pc'[c] = IF hand[c].invoice = Nothing THEN "idle" ELSE "recompute"
              /\ pc'[c] # "idle" => hand'[c] = hand[c]
<1>1. ASSUME NEW i \in Invoice, Insert(c, i)
      PROVE  /\ pc'[c] = "hook" /\ hand'[c].invoice = i /\ hand'[c].next = "mark"
             /\ hand'[c].trips = hand[c].trips
  <2>1. LET what == [hand[c] EXCEPT !.invoice = i, !.next = "mark"]
        IN what.invoice = i /\ what.next = "mark" /\ what.trips = hand[c].trips
    BY DEF TypeOK, Held
  <2> QED BY <1>1, <2>1 DEF Insert, Goto, Hold, TypeOK
<1>2. ASSUME Recompute(c)
      PROVE  pc'[c] = hand[c].next /\ (pc'[c] # "idle" => hand'[c] = hand[c])
  BY <1>2 DEF Recompute, Continue, TypeOK
<1>9. ASSUME Hook(c)
      PROVE  /\ pc'[c] = IF hand[c].next = "mark" THEN "mark" ELSE "idle"
             /\ pc'[c] # "idle" => hand'[c] = hand[c]
  BY <1>9 DEF Hook, AfterHook, Continue, TypeOK
<1>3. ASSUME Mark(c) \/ Allocated(c) \/ Die(c)
      PROVE  pc'[c] = "idle"
  BY <1>3 DEF Mark, Allocated, Die, Continue, TypeOK
<1>4. ASSUME Unmark(c)
      PROVE  pc'[c] = "remove" /\ hand'[c] = hand[c]
  BY <1>4 DEF Unmark, Goto, TypeOK
<1>5. ASSUME Remove(c) \/ Pay(c)
      PROVE  pc'[c] = "hook" /\ hand'[c] = hand[c] /\ hand[c].next = "idle"
  BY <1>5 DEF Remove, Pay, Goto, HandsFit, TypeOK
<1>6. ASSUME RecomputeFind(c)
      PROVE  \/ /\ pc'[c] = "trips" /\ hand'[c].invoice = hand[c].invoice
                /\ hand'[c].docs[hand[c].invoice] = invoices[hand[c].invoice]
                /\ hand'[c].next = hand[c].next
             \/ /\ ~Live(hand[c].invoice) /\ pc'[c] = hand[c].next
                /\ pc'[c] # "idle" => hand'[c] = hand[c]
  <2>1. hand[c].invoice \in Invoice
    BY <1>6 DEF RecomputeFind, HandsFit
  <2>2. \A copy : LET what == [hand[c] EXCEPT !.docs = copy]
                  IN /\ what.invoice = hand[c].invoice /\ what.docs = copy
                     /\ what.next = hand[c].next
    BY DEF TypeOK, Held
  <2>3. CASE Live(hand[c].invoice)
    <3> DEFINE copy == Copy(hand[c].invoice)
               what == [hand[c] EXCEPT !.docs = copy]
    <3>1. /\ what.invoice = hand[c].invoice /\ what.docs = copy
          /\ what.next = hand[c].next
      BY <2>2
    <3>2. pc'[c] = "trips" /\ hand'[c] = what
      BY <1>6, <2>3 DEF RecomputeFind, Hold, TypeOK
    <3>3. copy[hand[c].invoice] = invoices[hand[c].invoice]
      BY <2>1, CopyTyped
    <3> HIDE DEF what, copy
    <3> QED BY <3>1, <3>2, <3>3
  <2>4. CASE ~Live(hand[c].invoice)
    BY <1>6, <2>4 DEF RecomputeFind, Continue, TypeOK
  <2> QED BY <2>3, <2>4
<1>7. ASSUME RecomputeTrips(c)
      PROVE  /\ pc'[c] = "totals" /\ hand'[c].invoice = hand[c].invoice
             /\ hand'[c].docs = hand[c].docs /\ hand'[c].next = hand[c].next
             /\ hand'[c].total = PricesOf(hand[c].docs[hand[c].invoice].trips)
  <2>1. \A sum : LET what == [hand[c] EXCEPT !.total = sum]
                 IN /\ what.invoice = hand[c].invoice /\ what.docs = hand[c].docs
                    /\ what.next = hand[c].next /\ what.total = sum
    BY DEF TypeOK, Held
  <2> QED BY <1>7, <2>1 DEF RecomputeTrips, Goto, Hold, TypeOK
<1>8. ASSUME Save(c) \/ Erase(c)
      PROVE  /\ pc'[c] = IF hand[c].invoice = Nothing THEN "idle" ELSE "recompute"
             /\ pc'[c] # "idle" => hand'[c] = hand[c]
  BY <1>8 DEF Save, Erase, Linked, Continue, TypeOK
<1>10. ASSUME Reread(c)
       PROVE  pc'[c] \in {"hook", "idle"} /\ (pc'[c] # "idle" => hand'[c] = hand[c])
  BY <1>10 DEF Reread, Continue, TypeOK
<1> QED BY <1>1, <1>2, <1>3, <1>4, <1>5, <1>6, <1>7, <1>8, <1>9, <1>10

(* The steps that write marks, or are about to, one by one.                *)
LEMMA GenuineStep ==
  ASSUME TypeOK, HandsFit, GenuineMarks, [Next]_vars
  PROVE  GenuineMarks'
<1>0. ListsStay
  BY ListsStayStep
<1>1. ASSUME NEW c \in Clerk, Begins(c) \/ Goes(c), HandGenuine(c)', MarksGenuine'
      PROVE  GenuineMarks'
  <2>1. \A d \in Clerk : d # c => HandGenuine(d)'
    BY <1>0, <1>1, OthersRest, OtherHands
  <2>2. \A d \in Clerk : HandGenuine(d)'
    BY <1>1, <2>1
  <2> QED BY <1>1, <2>2 DEF GenuineMarks, MarksGenuine, HandGenuine
<1>2. ASSUME NEW c \in Clerk, pc'[c] # "mark", pc'[c] # "save",
             pc'[c] = "hook" => hand'[c].next # "mark"
      PROVE  HandGenuine(c)'
  BY <1>2 DEF HandGenuine, Marking
<1>3. \A t \in Trip, i \in Invoice : Genuine(t, i) => Genuine(t, i)'
  BY <1>0, GenuineStays
<1>4. trips' = trips => MarksGenuine'
  BY <1>0, MarksKeep
<1>5. ASSUME NEW c \in Clerk, NEW S \in SUBSET Trip, CreateFind(c, S)
      PROVE  GenuineMarks'
  BY <1>1, <1>2, <1>4, <1>5, StepKinds, BeginHolds DEF CreateFind
<1>6. ASSUME NEW c \in Clerk, NEW i \in Invoice, Insert(c, i)
      PROVE  GenuineMarks'
  <2>1. /\ i \in minted' /\ invoices'[i].trips = hand[c].trips
    BY <1>6, InsertDoes DEF Insert
  <2>2. HandGenuine(c)'
    BY <1>6, <2>1, GoHolds DEF HandGenuine, Genuine
  <2> QED BY <1>1, <1>4, <1>6, <2>2, StepKinds DEF Insert
<1>7. ASSUME NEW c \in Clerk, Hook(c)
      PROVE  GenuineMarks'
  <2>1. HandGenuine(c) /\ pc[c] = "hook" /\ hand[c].invoice \in Invoice
        /\ hand[c].next \in {"idle", "reread", "mark"} /\ hand[c].trips \in SUBSET Trip
    BY <1>7, GenuineParts DEF Hook, HandsFit, TypeOK, Held
  <2>2. /\ pc'[c] = IF hand[c].next = "mark" THEN "mark" ELSE "idle"
        /\ pc'[c] # "idle" => hand'[c] = hand[c]
    BY <1>7, GoHolds
  <2>3. CASE hand[c].next = "mark"
    <3>1. \A t \in hand[c].trips : Genuine(t, hand[c].invoice)
      BY <2>1, <2>3 DEF HandGenuine, Marking
    <3>2. \A t \in hand[c].trips : hand[c].invoice \in minted'
                /\ (Live(hand[c].invoice) => t \in invoices[hand[c].invoice].trips)
      BY <1>3, <2>1, <3>1 DEF Genuine
    <3>3. HandGenuine(c)'
      BY <1>7, <2>2, <2>3, <3>2 DEF HandGenuine, Genuine, Live, Hook
    <3> QED BY <1>1, <1>4, <1>7, <3>3, StepKinds DEF Hook
  <2>4. CASE hand[c].next # "mark"
    <3>1. HandGenuine(c)'
      BY <1>2, <2>1, <2>2, <2>4
    <3> QED BY <1>1, <1>4, <1>7, <3>1, StepKinds DEF Hook
  <2> QED BY <2>3, <2>4
<1>8. ASSUME NEW c \in Clerk, Mark(c)
      PROVE  GenuineMarks'
  <2>1. hand[c].trips \in SUBSET Trip /\ hand[c].invoice \in Invoice
    BY <1>8 DEF Mark, HandsFit, TypeOK, Held
  <2>2. Marked(hand[c].trips, hand[c].invoice)
    BY <1>8, <2>1, MarkAllDoes DEF Mark
  <2>3. \A t \in hand[c].trips : Genuine(t, hand[c].invoice)
    BY <1>8, GenuineParts DEF Mark, HandGenuine, Marking
  <2>4. ASSUME NEW t \in Trip, trips'[t] # Nothing, trips'[t].invoice # Nothing
        PROVE  Genuine(t, trips[t].invoice)'
    <3>1. trips[t] # Nothing /\ trips'[t].invoice
             = IF t \in hand[c].trips THEN hand[c].invoice ELSE trips[t].invoice
      BY <2>2, <2>4 DEF Marked
    <3>2. Genuine(t, trips'[t].invoice) /\ trips'[t].invoice \in Invoice
      BY <2>1, <2>3, <2>4, <3>1, GenuineParts DEF MarksGenuine, TypeOK, TripDoc
    <3> QED BY <1>3, <3>2 DEF Genuine
  <2>5. MarksGenuine'
    BY <2>4 DEF MarksGenuine
  <2> QED BY <1>1, <1>2, <1>8, <2>5, StepKinds, GoHolds
<1>9. ASSUME NEW c \in Clerk, NEW i \in Invoice,
             DeleteFind(c, i) \/ Look(c, i) \/ UpdateInvoice(c, i)
      PROVE  GenuineMarks'
  <2>1. HandGenuine(c)'
    BY SMTT(40), <1>2, <1>9, BeginHolds
  <2>2. trips' = trips /\ Begins(c)
    BY <1>9, StepKinds DEF DeleteFind, Look, UpdateInvoice
  <2> QED BY <1>1, <1>4, <2>1, <2>2
<1>10. ASSUME NEW c \in Clerk, Unmark(c)
       PROVE  GenuineMarks'
  <2>1. hand[c] \in Held /\ hand[c].invoice \in Invoice /\ hand[c].docs[hand[c].invoice] # Nothing
    BY <1>10 DEF Unmark, Goto, HandsFit, TypeOK
  <2>2. hand[c].docs[hand[c].invoice] \in InvoiceDoc
    BY <2>1 DEF Held
  <2>3. Marked(hand[c].docs[hand[c].invoice].trips, Nothing)
    BY <1>10, <2>2, MarkAllDoes DEF Unmark, InvoiceDoc
  <2>4. ASSUME NEW t \in Trip, trips'[t] # Nothing, trips'[t].invoice # Nothing
        PROVE  Genuine(t, trips[t].invoice)'
    <3>1. trips[t] # Nothing /\ trips'[t].invoice = trips[t].invoice
      BY <2>3, <2>4 DEF Marked
    <3>2. Genuine(t, trips[t].invoice) /\ trips[t].invoice \in Invoice
      BY SMTT(40), <2>4, <3>1, GenuineParts DEF MarksGenuine, TypeOK, TripDoc
    <3> QED BY <1>3, <3>1, <3>2 DEF Genuine
  <2>5. MarksGenuine'
    BY <2>4 DEF MarksGenuine
  <2> QED BY <1>1, <1>2, <1>10, <2>5, StepKinds, GoHolds
<1>11. ASSUME NEW c \in Clerk, Remove(c) \/ Pay(c)
       PROVE  GenuineMarks'
  BY <1>1, <1>2, <1>4, <1>11, StepKinds, GoHolds DEF Remove, Pay
<1>12. ASSUME NEW c \in Clerk, RecomputeFind(c)
       PROVE  GenuineMarks'
  <2>1. hand[c].next \in {"idle", "reread"}
    BY <1>12 DEF RecomputeFind, HandsFit
  <2>2. HandGenuine(c)'
    BY <1>2, <1>12, <2>1, GoHolds
  <2> QED BY <1>1, <1>4, <1>12, <2>2, StepKinds DEF RecomputeFind
<1>13. ASSUME NEW c \in Clerk, RecomputeTrips(c)
       PROVE  GenuineMarks'
  BY SMTT(40), <1>1, <1>2, <1>4, <1>13, StepKinds, GoHolds DEF RecomputeTrips
<1>14. ASSUME NEW c \in Clerk, Recompute(c)
       PROVE  GenuineMarks'
  <2>1. hand[c].next \in {"idle", "reread"}
    BY <1>14 DEF Recompute, HandsFit
  <2>2. HandGenuine(c)'
    BY <1>2, <1>14, <2>1, GoHolds
  <2> QED BY <1>1, <1>4, <1>14, <2>2, StepKinds DEF Recompute
<1>15. ASSUME NEW c \in Clerk, NEW i \in Invoice, NEW r \in Receipt, PayFind(c, i, r)
       PROVE  GenuineMarks'
  BY <1>1, <1>2, <1>4, <1>15, StepKinds, BeginHolds DEF PayFind
<1>16. ASSUME NEW c \in Clerk, NEW r \in Remittance, CustomerFind(c, r)
       PROVE  GenuineMarks'
  BY <1>1, <1>2, <1>4, <1>16, StepKinds, BeginHolds DEF CustomerFind
<1>17. ASSUME NEW c \in Clerk, NEW i \in Invoice, Allocate(c, i)
       PROVE  GenuineMarks'
  BY <1>1, <1>2, <1>4, <1>17, StepKinds DEF Allocate
<1>18. ASSUME NEW c \in Clerk, Allocated(c) \/ Die(c)
       PROVE  GenuineMarks'
  BY <1>1, <1>2, <1>4, <1>18, StepKinds, GoHolds DEF Allocated, Die
<1>19. ASSUME NEW c \in Clerk, NEW t \in Trip, EditFind(c, t)
       PROVE  GenuineMarks'
  <2>1. trips[t] # Nothing /\ trips' = trips
    BY <1>19 DEF EditFind
  <2>2. pc'[c] = "save" /\ hand'[c].trip = t /\ hand'[c].invoice = trips[t].invoice
    BY <1>19, BeginHolds
  <2>3. trips[t].invoice # Nothing
          => Genuine(t, trips[t].invoice) /\ trips[t].invoice \in Invoice
    BY <2>1, GenuineParts DEF MarksGenuine, TypeOK, TripDoc
  <2>4. HandGenuine(c)'
    BY <1>3, <2>2, <2>3 DEF HandGenuine, Marking, Genuine
  <2> QED BY <1>1, <1>4, <1>19, <2>1, <2>4, StepKinds
<1>20. ASSUME NEW c \in Clerk, NEW t \in Trip, DeleteTripFind(c, t)
       PROVE  GenuineMarks'
  <2>1. HandGenuine(c)'
    BY <1>2, <1>20, BeginHolds
  <2>2. trips' = trips /\ Begins(c)
    BY <1>20, StepKinds DEF DeleteTripFind
  <2> QED BY <1>1, <1>4, <2>1, <2>2
<1>21. ASSUME NEW c \in Clerk, Save(c)
       PROVE  GenuineMarks'
  <2>1. hand[c].trip \in Trip /\ Saved(hand[c].trip, hand[c].invoice)
    BY <1>21, SaveDoes
  <2>2. hand[c].invoice # Nothing => Genuine(hand[c].trip, hand[c].invoice)
    BY <1>21, GenuineParts DEF Save, HandGenuine
  <2>3. ASSUME NEW t \in Trip, trips'[t] # Nothing, trips'[t].invoice # Nothing
        PROVE  Genuine(t, trips[t].invoice)'
    <3>1. trips[t] # Nothing /\ trips'[t].invoice
             = IF t = hand[c].trip THEN hand[c].invoice ELSE trips[t].invoice
      BY <2>1, <2>3 DEF Saved
    <3>2. trips'[t].invoice \in Invoice
      BY <2>1, <2>3 DEF Saved, TripDoc
    <3>3. Genuine(t, trips'[t].invoice)
      BY <2>2, <2>3, <3>1, GenuineParts DEF MarksGenuine
    <3> QED BY <1>3, <3>2, <3>3 DEF Genuine
  <2>4. MarksGenuine'
    BY <2>3 DEF MarksGenuine
  <2> QED BY <1>1, <1>2, <1>21, <2>4, StepKinds, GoHolds
<1>22. ASSUME NEW c \in Clerk, Erase(c)
       PROVE  GenuineMarks'
  <2>1. ASSUME NEW t \in Trip, trips'[t] # Nothing, trips'[t].invoice # Nothing
        PROVE  Genuine(t, trips[t].invoice)'
    <3>1. trips'[t] = trips[t]
      BY <1>22, <2>1, EraseDoes
    <3>2. Genuine(t, trips[t].invoice) /\ trips[t].invoice \in Invoice
      BY <2>1, <3>1, GenuineParts DEF MarksGenuine, TypeOK, TripDoc
    <3> QED BY <1>3, <3>1, <3>2 DEF Genuine
  <2>2. MarksGenuine'
    BY <2>1 DEF MarksGenuine
  <2> QED BY <1>1, <1>2, <1>22, <2>2, StepKinds, GoHolds
<1>23. CASE UNCHANGED vars
  BY <1>23 DEF vars, GenuineMarks, Genuine, Marking, Live
<1>24. ASSUME NEW c \in Clerk, Reread(c)
       PROVE  GenuineMarks'
  <2>1. trips' = trips /\ hand[c].next # "mark"
    BY <1>24 DEF Reread, HandsFit
  <2>2. HandGenuine(c)'
    BY SMTT(40), <1>2, <1>24, <2>1, GoHolds
  <2> QED BY <1>1, <1>4, <1>24, <2>1, <2>2, StepKinds
<1> QED
  BY <1>5, <1>6, <1>7, <1>8, <1>9, <1>10, <1>11, <1>12, <1>13, <1>14, <1>15, <1>16,
     <1>17, <1>18, <1>19, <1>20, <1>21, <1>22, <1>23, <1>24 DEF Next

-----------------------------------------------------------------------------
(* Ids that were never used, and legs of invoices that are gone.           *)

LEMMA MintedStep ==
  ASSUME TypeOK, HandsFit, MintedOnly, [Next]_vars
  PROVE  MintedOnly'
<1>1. CASE UNCHANGED <<invoices, minted, fin_txn, received>>
  BY <1>1 DEF MintedOnly, Live
<1>2. ASSUME NEW c \in Clerk, NEW i \in Invoice, Insert(c, i)
      PROVE  MintedOnly'
  BY <1>2, InsertDoes DEF Insert, History, Others, MintedOnly, Live
<1>3. ASSUME NEW c \in Clerk, Hook(c)
      PROVE  MintedOnly'
  <2>1. hand[c].invoice \in Invoice /\ fin_txn' = [fin_txn EXCEPT ![hand[c].invoice] =
                                                     ViewOf(hand[c].invoice)]
    BY <1>3 DEF Hook, HandsFit
  <2>2. hand[c].invoice \notin minted => ViewOf(hand[c].invoice) = Nothing
    BY <2>1 DEF MintedOnly, ViewOf
  <2> QED BY <1>3, <2>1, <2>2 DEF Hook, History, MintedOnly, Live, TypeOK
<1>4. ASSUME NEW c \in Clerk, Remove(c)
      PROVE  MintedOnly'
  BY <1>4 DEF Remove, History, MintedOnly, Live, TypeOK
<1>5. ASSUME NEW c \in Clerk, Recompute(c)
      PROVE  MintedOnly'
  BY <1>5, RecomputeDoes, FiguresKeep DEF Recompute, History, MintedOnly, TypeOK
<1>6. ASSUME NEW c \in Clerk, Pay(c)
      PROVE  MintedOnly'
  BY <1>6, PayDoes, FiguresKeep DEF Pay, Received, MintedOnly, TypeOK
<1>7. ASSUME NEW c \in Clerk, NEW i \in Invoice, Allocate(c, i)
      PROVE  MintedOnly'
  BY <1>7, AllocateDoes, FiguresKeep DEF Allocate, Received, MintedOnly, TypeOK
<1> QED
  BY ZenonT(60), <1>1, <1>2, <1>3, <1>4, <1>5, <1>6, <1>7 DEF Next, vars, Begin, History,
     CreateFind, Mark, DeleteFind, Unmark, Look, UpdateInvoice, Reread, RecomputeFind,
     RecomputeTrips, PayFind, CustomerFind, Allocated, EditFind, DeleteTripFind,
     Save, Erase, Die

(* Some request will run its hook on the invoice.                          *)
Sweeper(i) == \E c \in Clerk : pc[c] = "hook" /\ hand[c].invoice = i

LEMMA SweeperStays ==
  ASSUME TypeOK, HandsFit, NEW c \in Clerk, Begins(c) \/ (Goes(c) /\ pc[c] # "hook"),
         NEW i \in Invoice, Sweeper(i)
  PROVE  Sweeper(i)'
<1>1. PICK d \in Clerk : pc[d] = "hook" /\ hand[d].invoice = i
  BY DEF Sweeper
<1>2. d # c
  BY <1>1 DEF Begins, Begin
<1> QED BY <1>1, <1>2, OthersRest DEF Sweeper

LEMMA SweptStep ==
  ASSUME TypeOK, HandsFit, MintedOnly, LegsAreSwept, [Next]_vars
  PROVE  LegsAreSwept'
<1>1. ASSUME NEW c \in Clerk, Begins(c) \/ (Goes(c) /\ pc[c] # "hook"), fin_txn' = fin_txn,
             died => died',
             \A i \in Invoice : ~Live(i)' /\ Live(i) => Sweeper(i)'
      PROVE  LegsAreSwept'
  BY <1>1, SweeperStays DEF LegsAreSwept, Sweeper, Live
<1>2. ASSUME NEW c \in Clerk, Begins(c), fin_txn' = fin_txn, invoices' = invoices
      PROVE  LegsAreSwept'
  <2>1. died' = died
    BY <1>2 DEF Begins, Begin
  <2>2. \A i \in Invoice : Live(i)' <=> Live(i)
    BY <1>2 DEF Live
  <2> QED BY <1>1, <1>2, <2>1, <2>2
<1>3. ASSUME NEW c \in Clerk, Goes(c), pc[c] # "hook", fin_txn' = fin_txn,
             invoices' = invoices, died' = died
      PROVE  LegsAreSwept'
  BY <1>1, <1>3 DEF Live
<1>4. ASSUME NEW c \in Clerk,
             \/ \E S \in SUBSET Trip : CreateFind(c, S)
             \/ \E i \in Invoice : DeleteFind(c, i) \/ Look(c, i) \/ UpdateInvoice(c, i)
             \/ \E i \in Invoice, r \in Receipt : PayFind(c, i, r)
             \/ \E r \in Remittance : CustomerFind(c, r)
             \/ \E t \in Trip : EditFind(c, t) \/ DeleteTripFind(c, t)
      PROVE  LegsAreSwept'
  <2>1. Begins(c)
    BY SMTT(40), <1>4, StepKinds
  <2>2. fin_txn' = fin_txn /\ invoices' = invoices
    BY <1>4 DEF CreateFind, DeleteFind, Look, UpdateInvoice, PayFind, CustomerFind,
       EditFind, DeleteTripFind
  <2> QED BY <1>2, <2>1, <2>2
<1>5. ASSUME NEW c \in Clerk,
             \/ Mark(c) \/ Unmark(c) \/ Reread(c) \/ RecomputeFind(c) \/ RecomputeTrips(c)
             \/ Allocated(c) \/ Save(c) \/ Erase(c)
      PROVE  LegsAreSwept'
  <2>1. Goes(c)
    BY <1>5, StepKinds
  <2>2. /\ fin_txn' = fin_txn /\ invoices' = invoices /\ died' = died /\ pc[c] # "hook"
    BY <1>5 DEF Mark, Unmark, Reread, RecomputeFind, RecomputeTrips, Allocated, Save,
       Erase, Goto, History
  <2> QED BY <1>3, <2>1, <2>2
<1>6. ASSUME NEW c \in Clerk, NEW i \in Invoice, Insert(c, i)
      PROVE  LegsAreSwept'
  <2>1. Others(i) /\ Live(i)' /\ Goes(c) /\ pc[c] # "hook" /\ fin_txn' = fin_txn
        /\ died' = died
    BY <1>6, InsertDoes, StepKinds DEF Insert, Goto, History
  <2>2. \A j \in Invoice : ~Live(j)' => ~Live(j)
    BY <2>1 DEF Others, Live
  <2> QED BY <1>1, <2>1, <2>2
<1>7. ASSUME NEW c \in Clerk, Hook(c)
      PROVE  LegsAreSwept'
  <2> DEFINE k == hand[c].invoice
  <2>1. k \in Invoice /\ fin_txn' = [fin_txn EXCEPT ![k] = ViewOf(k)]
        /\ invoices' = invoices /\ died' = died
    BY <1>7 DEF Hook, HandsFit, History
  <2>2. ASSUME NEW i \in Invoice, ~Live(i), fin_txn'[i] # Nothing
        PROVE  died \/ Sweeper(i)'
    <3>1. i # k /\ fin_txn[i] # Nothing
      BY <2>1, <2>2 DEF ViewOf, TypeOK
    <3>2. CASE died
      BY <3>2
    <3>3. CASE ~died
      <4>1. PICK d \in Clerk : pc[d] = "hook" /\ hand[d].invoice = i
        BY <2>2, <3>1, <3>3 DEF LegsAreSwept
      <4>2. d # c /\ Goes(c)
        BY <1>7, <3>1, <4>1, StepKinds
      <4> QED BY <4>1, <4>2, OthersRest DEF Sweeper
    <3> QED BY <3>2, <3>3
  <2> HIDE DEF k
  <2> QED BY <2>1, <2>2 DEF LegsAreSwept, Sweeper, Live
<1>8. ASSUME NEW c \in Clerk, Remove(c)
      PROVE  LegsAreSwept'
  <2>1. /\ hand[c].invoice \in Invoice /\ Goes(c) /\ pc[c] # "hook"
        /\ fin_txn' = fin_txn /\ died' = died
        /\ invoices' = [invoices EXCEPT ![hand[c].invoice] = Nothing]
        /\ pc'[c] = "hook" /\ hand'[c] = hand[c]
    BY <1>8, StepKinds, GoHolds DEF Remove, Goto, HandsFit, History
  <2>2. \A i \in Invoice : ~Live(i)' /\ Live(i) => Sweeper(i)'
    BY <2>1 DEF Live, Sweeper, TypeOK
  <2> QED BY <1>1, <2>1, <2>2
<1>9. ASSUME NEW c \in Clerk, Recompute(c) \/ Pay(c) \/ \E i \in Invoice : Allocate(c, i)
      PROVE  LegsAreSwept'
  <2>1. Goes(c) /\ pc[c] # "hook" /\ fin_txn' = fin_txn /\ died' = died
    BY <1>9, StepKinds DEF Recompute, Pay, Allocate, Goto, History
  <2>2. \A j \in Invoice : Live(j)' <=> Live(j)
    <3>1. CASE Recompute(c)
      BY <3>1, RecomputeDoes, FiguresKeep DEF TypeOK
    <3>2. CASE Pay(c)
      BY <3>2, PayDoes, FiguresKeep DEF TypeOK
    <3>3. ASSUME NEW i \in Invoice, Allocate(c, i)
          PROVE  \A j \in Invoice : Live(j)' <=> Live(j)
      BY <3>3, AllocateDoes, FiguresKeep DEF TypeOK
    <3> QED BY <1>9, <3>1, <3>2, <3>3
  <2> QED BY <1>1, <2>1, <2>2
<1>10. ASSUME NEW c \in Clerk, Die(c)
       PROVE  LegsAreSwept'
  BY <1>10 DEF Die, LegsAreSwept
<1>11. CASE UNCHANGED vars
  BY <1>11 DEF vars, LegsAreSwept, Live
<1> QED
  BY <1>4, <1>5, <1>6, <1>7, <1>8, <1>9, <1>10, <1>11 DEF Next

-----------------------------------------------------------------------------
(* What a request that meets nobody has read.                              *)

Fresh(c) ==
  LET h == hand[c] IN
  /\ pc[c] \in {"unmark", "trips", "totals", "pay"} => h.docs[h.invoice] = invoices[h.invoice]
  /\ pc[c] = "totals" => h.total = PricesOf(h.docs[h.invoice].trips)
  /\ pc[c] = "allocate" => \A i \in Invoice : h.docs[i] \in {Nothing, invoices[i]}
  /\ pc[c] = "insert" =>
       /\ h.total = PricesOf(h.trips)
       /\ \A t \in h.trips : trips[t] # Nothing /\ trips[t].invoice = Nothing
  /\ pc[c] \in {"save", "erase"} =>
       trips[h.trip] # Nothing /\ trips[h.trip].invoice = h.invoice

LEMMA FreshParts == AloneIsFresh <=> \A c \in Busy : c \notin met => Fresh(c)
BY DEF AloneIsFresh, Fresh

LEMMA OnlyOne ==
  ASSUME TypeOK, AloneIsAlone, NEW c \in Clerk, Begins(c) \/ Goes(c),
         NEW d \in Clerk, d # c, pc'[d] # "idle"
  PROVE  d \in met'
<1>1. pc[d] # "idle"
  BY OthersRest
<1>2. d \in Busy
  BY <1>1 DEF Busy
<1>3. CASE Begins(c)
  BY <1>2, <1>3 DEF Begins, Begin
<1>4. CASE Goes(c)
  <2>1. c \in Busy
    BY <1>4 DEF Goes, Busy
  <2> QED BY <1>2, <1>4, <2>1 DEF AloneIsAlone, Goes
<1> QED BY <1>3, <1>4

LEMMA FreshStep ==
  ASSUME TypeOK, HandsFit, AloneIsAlone, AloneIsFresh, [Next]_vars
  PROVE  AloneIsFresh'
<1>1. ASSUME NEW c \in Clerk, Begins(c) \/ Goes(c),
             pc'[c] # "idle" /\ c \notin met' => Fresh(c)'
      PROVE  AloneIsFresh'
  <2>1. ASSUME NEW d \in Clerk, pc'[d] # "idle", d \notin met'
        PROVE  Fresh(d)'
    BY <1>1, <2>1, OnlyOne
  <2> QED BY <2>1 DEF AloneIsFresh, Fresh, Busy
<1>2. ASSUME NEW c \in Clerk, Goes(c), c \notin met'
      PROVE  Fresh(c)
  BY <1>2, FreshParts DEF Goes, Busy
<1>3. ASSUME NEW c \in Clerk, pc'[c] \in {"idle", "hook", "mark", "remove", "reread", "recompute"}
      PROVE  Fresh(c)'
  BY <1>3 DEF Fresh
<1>4. ASSUME NEW c \in Clerk, NEW S \in SUBSET Trip, CreateFind(c, S)
      PROVE  AloneIsFresh'
  <2>1. /\ trips' = trips /\ pc'[c] = "insert"
        /\ hand'[c].trips = S /\ hand'[c].total = PricesOf(S)
        /\ \A t \in S : trips[t] # Nothing /\ trips[t].invoice = Nothing
    BY <1>4, BeginHolds DEF CreateFind, Blank
  <2>2. PricesOf(hand[c].trips)' = PricesOf(S)
    BY <2>1 DEF PricesOf
  <2>3. Fresh(c)'
    BY <2>1, <2>2 DEF Fresh
  <2> QED BY <1>1, <1>4, <2>3, StepKinds
<1>5. ASSUME NEW c \in Clerk, NEW i \in Invoice, DeleteFind(c, i) \/ Look(c, i)
      PROVE  AloneIsFresh'
  <2>1. invoices' = invoices
    BY <1>5 DEF DeleteFind, Look
  <2>2. Fresh(c)'
    BY <1>5, <2>1, BeginHolds DEF Fresh
  <2> QED BY <1>1, <1>5, <2>2, StepKinds
<1>6. ASSUME NEW c \in Clerk, NEW i \in Invoice, UpdateInvoice(c, i)
      PROVE  AloneIsFresh'
  BY <1>1, <1>3, <1>6, StepKinds, BeginHolds
<1>7. ASSUME NEW c \in Clerk, NEW i \in Invoice, NEW r \in Receipt, PayFind(c, i, r)
      PROVE  AloneIsFresh'
  <2>1. invoices' = invoices
    BY <1>7 DEF PayFind
  <2>2. Fresh(c)'
    BY <1>7, <2>1, BeginHolds DEF Fresh
  <2> QED BY <1>1, <1>7, <2>2, StepKinds
<1>8. ASSUME NEW c \in Clerk, NEW r \in Remittance, CustomerFind(c, r)
      PROVE  AloneIsFresh'
  <2>1. invoices' = invoices
    BY <1>8 DEF CustomerFind
  <2>2. Fresh(c)'
    BY <1>8, <2>1, BeginHolds DEF Fresh
  <2> QED BY <1>1, <1>8, <2>2, StepKinds
<1>9. ASSUME NEW c \in Clerk, NEW t \in Trip, EditFind(c, t) \/ DeleteTripFind(c, t)
      PROVE  AloneIsFresh'
  <2>1. trips' = trips /\ trips[t] # Nothing
    BY <1>9 DEF EditFind, DeleteTripFind
  <2>2. Fresh(c)'
    BY <1>9, <2>1, BeginHolds DEF Fresh
  <2> QED BY <1>1, <1>9, <2>2, StepKinds
<1>10. ASSUME NEW c \in Clerk, NEW i \in Invoice, Insert(c, i)
       PROVE  AloneIsFresh'
  BY <1>1, <1>3, <1>10, StepKinds, GoHolds
<1>11. ASSUME NEW c \in Clerk, Hook(c) \/ Recompute(c)
       PROVE  AloneIsFresh'
  <2>1. hand[c].next \in {"idle", "reread", "mark"}
    BY DEF TypeOK, Held
  <2> QED BY <1>1, <1>3, <1>11, <2>1, StepKinds, GoHolds
<1>12. ASSUME NEW c \in Clerk,
              \/ Mark(c) \/ Allocated(c) \/ Die(c) \/ Unmark(c) \/ Remove(c) \/ Pay(c)
              \/ Save(c) \/ Erase(c) \/ Reread(c)
       PROVE  AloneIsFresh'
  BY <1>1, <1>3, <1>12, StepKinds, GoHolds
<1>13. ASSUME NEW c \in Clerk, RecomputeFind(c)
       PROVE  AloneIsFresh'
  <2>1. hand[c].next \in {"idle", "reread"} /\ invoices' = invoices
    BY <1>13 DEF RecomputeFind, HandsFit
  <2>2. CASE pc'[c] = "trips"
    <3>1. hand'[c].docs[hand'[c].invoice] = invoices'[hand'[c].invoice]
      BY <1>13, <2>1, <2>2, GoHolds
    <3>2. Fresh(c)'
      BY <2>2, <3>1 DEF Fresh
    <3> QED BY <1>1, <1>13, <3>2, StepKinds
  <2>3. CASE pc'[c] # "trips"
    BY <1>1, <1>3, <1>13, <2>1, <2>3, StepKinds, GoHolds
  <2> QED BY <2>2, <2>3
<1>14. ASSUME NEW c \in Clerk, RecomputeTrips(c)
       PROVE  AloneIsFresh'
  <2>1. invoices' = invoices /\ trips' = trips /\ pc[c] = "trips"
    BY <1>14 DEF RecomputeTrips, Goto
  <2>2. ASSUME c \notin met'
        PROVE  Fresh(c)'
    <3>1. Fresh(c)
      BY <1>2, <1>14, <2>2, StepKinds
    <3>2. /\ pc'[c] = "totals" /\ hand'[c].invoice = hand[c].invoice
          /\ hand'[c].docs = hand[c].docs
          /\ hand'[c].total = PricesOf(hand[c].docs[hand[c].invoice].trips)
      BY <1>14, GoHolds
    <3> QED BY <2>1, <3>1, <3>2 DEF Fresh, PricesOf
  <2> QED BY <1>1, <1>14, <2>2, StepKinds
<1>15. ASSUME NEW c \in Clerk, NEW i \in Invoice, Allocate(c, i)
       PROVE  AloneIsFresh'
  <2>1. PICK what \in Held : /\ Moves(c, "allocate", what)
                             /\ what.docs = [hand[c].docs EXCEPT ![i] = Nothing]
    BY <1>15, AllocateMoves
  <2>2. hand'[c] = what /\ pc'[c] = "allocate" /\ pc[c] = "allocate"
    BY <1>15, <2>1 DEF Moves, TypeOK, Allocate
  <2>3. Others(i)
    BY <1>15, AllocateDoes DEF Figures
  <2>4. ASSUME c \notin met'
        PROVE  Fresh(c)'
    <3>1. Fresh(c)
      BY <1>2, <1>15, <2>4, StepKinds
    <3>2. \A j \in Invoice : what.docs[j] = IF j = i THEN Nothing ELSE hand[c].docs[j]
      BY <2>1 DEF TypeOK, Held
    <3>3. \A j \in Invoice : hand'[c].docs[j] \in {Nothing, invoices'[j]}
      BY <2>2, <2>3, <3>1, <3>2 DEF Fresh, Others
    <3> QED BY <2>2, <3>3 DEF Fresh
  <2> QED BY <1>1, <1>15, <2>4, StepKinds
<1>16. CASE UNCHANGED vars
  BY <1>16 DEF vars, AloneIsFresh, Busy, PricesOf
<1> QED
  BY <1>4, <1>5, <1>6, <1>7, <1>8, <1>9, <1>10, <1>11, <1>12, <1>13, <1>14, <1>15,
     <1>16 DEF Next

-----------------------------------------------------------------------------
(* Requests that come one after the other.                                 *)

(* While it is quiet, a request begins when none is at work, or is the     *)
(* only one and has read what there is.                                    *)
LEMMA QuietBegins ==
  ASSUME TypeOK, NEW c \in Clerk, Begins(c), Quiet'
  PROVE  Quiet /\ Busy = {} /\ Busy' = {c} /\ received' = received
BY DEF Begins, Begin, Quiet, Busy, TypeOK

LEMMA QuietGoes ==
  ASSUME TypeOK, AloneIsAlone, AloneIsFresh, NEW c \in Clerk, Goes(c),
         Quiet', died => died'
  PROVE  Quiet /\ Busy = {c} /\ Busy' \subseteq {c} /\ Fresh(c)
<1>1. Quiet /\ c \in Busy
  BY DEF Goes, Quiet, Busy
<1>2. c \notin met
  BY <1>1 DEF AloneIsAlone, Quiet
<1>3. Busy = {c}
  BY <1>1, <1>2 DEF AloneIsAlone
<1>4. Busy' \subseteq {c}
  BY <1>3, OthersRest DEF Busy
<1> QED BY <1>1, <1>2, <1>3, <1>4, FreshParts

(* The steps by which a request begins change no document.                 *)
Beginning(c) ==
  \/ \E S \in SUBSET Trip : CreateFind(c, S)
  \/ \E i \in Invoice : DeleteFind(c, i) \/ Look(c, i) \/ UpdateInvoice(c, i)
  \/ \E i \in Invoice, r \in Receipt : PayFind(c, i, r)
  \/ \E r \in Remittance : CustomerFind(c, r)
  \/ \E t \in Trip : EditFind(c, t) \/ DeleteTripFind(c, t)

LEMMA BeginningDoes ==
  ASSUME TypeOK, HandsFit, NEW c \in Clerk, Beginning(c)
  PROVE  /\ Begins(c)
         /\ UNCHANGED <<trips, invoices, minted, fin_txn, received>>
<1>1. Begins(c)
  BY SMTT(40), StepKinds DEF Beginning
<1>2. UNCHANGED <<trips, invoices, minted, fin_txn>>
  BY DEF Beginning, CreateFind, DeleteFind, Look, UpdateInvoice, PayFind, CustomerFind,
     EditFind, DeleteTripFind
<1>3. UNCHANGED received
  BY <1>1 DEF Begins, Begin
<1> QED BY <1>1, <1>2, <1>3

(* The steps of the request that is alone.                                 *)
Going(c) ==
  \/ \E i \in Invoice : Insert(c, i) \/ Allocate(c, i)
  \/ Hook(c) \/ Mark(c) \/ Unmark(c) \/ Remove(c)
  \/ Reread(c) \/ RecomputeFind(c) \/ RecomputeTrips(c) \/ Recompute(c)
  \/ Pay(c) \/ Allocated(c) \/ Save(c) \/ Erase(c)

LEMMA QuietGoing ==
  ASSUME TypeOK, HandsFit, AloneIsAlone, AloneIsFresh, NEW c \in Clerk, Going(c), Quiet'
  PROVE  Quiet /\ Busy = {c} /\ Busy' \subseteq {c} /\ Fresh(c) /\ Goes(c)
<1>1. died' = died
  BY DEF Going, Insert, Allocate, Hook, Mark, Unmark, Remove, Reread, RecomputeFind,
     RecomputeTrips, Recompute, Pay, Allocated, Save, Erase, History
<1>2. Goes(c)
  BY StepKinds DEF Going
<1> QED BY SMTT(40), <1>1, <1>2, QuietGoes

LEMMA QuietSteps ==
  ASSUME [Next]_vars, Quiet'
  PROVE  \/ \E c \in Clerk : Beginning(c) \/ Going(c)
         \/ UNCHANGED vars
BY DEF Next, Beginning, Going, Die, Quiet

(* A request is not at two places.                                         *)
LEMMA NotBetween ==
  ASSUME NEW c \in Clerk, Busy \subseteq {c}, ~Marking(c), pc[c] # "remove", NEW i
  PROVE  \A d \in Clerk : ~Between(d, i) /\ ~Removing(d, i) /\ ~Marking(d)
BY DEF Between, Removing, Marking, Busy

(* The trips and the lists agree, except between two writes.               *)
Follow(t, i) ==
  /\ trips[t].invoice = i =>
       Live(i) /\ t \in invoices[i].trips /\ \A c \in Clerk : ~Removing(c, i)
  /\ Live(i) /\ t \in invoices[i].trips =>
       \/ trips[t].invoice = i
       \/ trips[t].invoice = Nothing /\ \E c \in Clerk : Between(c, i)

Listing(c) ==
  Marking(c) => Live(hand[c].invoice) /\ hand[c].trips = invoices[hand[c].invoice].trips

LEMMA FollowParts ==
  MarksFollow <=>
    (Quiet => /\ \A t \in Trip, i \in Invoice : trips[t] # Nothing => Follow(t, i)
              /\ \A c \in Clerk : Listing(c))
BY DEF MarksFollow, Follow, Listing

LEMMA MarksFollowStep ==
  ASSUME TypeOK, HandsFit, AloneIsAlone, AloneIsFresh, MintedOnly, MarksFollow,
         [Next]_vars, Quiet'
  PROVE  MarksFollow'
<1>1. CASE UNCHANGED vars
  BY <1>1 DEF vars, MarksFollow, Quiet, Live, Removing, Between, Marking
<1>2. ASSUME NEW c \in Clerk, Beginning(c)
      PROVE  MarksFollow'
  <2>1. /\ Quiet /\ Busy = {} /\ Busy' = {c} /\ Begins(c)
        /\ trips' = trips /\ invoices' = invoices
    BY <1>2, BeginningDoes, QuietBegins
  <2>2. pc'[c] # "remove" /\ ~Marking(c)'
    BY <1>2, BeginHolds DEF Beginning, Marking
  <2>3. \A d \in Clerk : ~Marking(d)' /\ pc'[d] # "remove"
    BY <2>1, <2>2 DEF Busy, Marking
  <2>4. \A d \in Clerk : ~Marking(d) /\ pc[d] # "remove"
    BY <2>1 DEF Busy, Marking
  <2> QED BY <2>1, <2>3, <2>4 DEF MarksFollow, Between, Removing, Live
<1>3. ASSUME NEW c \in Clerk, Going(c)
      PROVE  MarksFollow'
  <2>1. Quiet /\ Busy = {c} /\ Busy' \subseteq {c} /\ Fresh(c) /\ Goes(c)
    BY <1>3, QuietGoing
  <2>2. /\ \A t \in Trip, i \in Invoice : trips[t] # Nothing => Follow(t, i)
        /\ \A d \in Clerk : Listing(d)
    BY <2>1, FollowParts
  <2>3. ASSUME Listing(c)', \A t \in Trip, i \in Invoice : trips'[t] # Nothing => Follow(t, i)'
        PROVE  MarksFollow'
    <3>1. \A d \in Clerk : d # c => ~Marking(d)'
      BY <2>1 DEF Busy, Marking
    <3> QED BY <2>3, <3>1 DEF MarksFollow, Follow, Listing
  <2>4. ASSUME ~Marking(c), pc[c] # "remove", ~Marking(c)', pc'[c] # "remove",
               \A i \in Invoice : /\ Live(i)' <=> Live(i)
                                  /\ Live(i) => invoices'[i].trips = invoices[i].trips,
               \A t \in Trip : trips'[t] # Nothing =>
                 trips[t] # Nothing /\ trips'[t].invoice = trips[t].invoice
        PROVE  MarksFollow'
    <3>1. \A d \in Clerk, i \in Invoice : ~Between(d, i) /\ ~Removing(d, i)'
      BY <2>1, <2>4 DEF Between, Removing, Marking, Busy
    <3>2. ASSUME NEW t \in Trip, NEW i \in Invoice, trips'[t] # Nothing
          PROVE  Follow(t, i)'
      <4>1. Follow(t, i) /\ trips'[t].invoice = trips[t].invoice
        BY <2>2, <2>4, <3>2
      <4> QED BY <2>4, <3>1, <4>1 DEF Follow
    <3>3. Listing(c)'
      BY <2>4 DEF Listing
    <3> QED BY <2>3, <3>2, <3>3
  <2>5. ASSUME ~Marking(c), pc[c] # "remove"
        PROVE  \A t \in Trip, i \in Invoice : trips[t] # Nothing =>
                 (trips[t].invoice = i <=> Live(i) /\ t \in invoices[i].trips)
    <3>1. \A d \in Clerk, i \in Invoice : ~Between(d, i)
      BY <2>1, <2>5 DEF Between, Removing, Marking, Busy
    <3> QED BY <2>2, <3>1 DEF Follow
  <2>6. ASSUME NEW k \in Invoice, Insert(c, k)
        PROVE  MarksFollow'
    <3>1. /\ pc[c] = "insert" /\ trips' = trips /\ k \notin minted
          /\ Others(k) /\ Live(k)' /\ invoices'[k].trips = hand[c].trips
          /\ pc'[c] = "hook" /\ hand'[c].invoice = k /\ hand'[c].next = "mark"
          /\ hand'[c].trips = hand[c].trips
      BY ZenonT(60), <2>6, InsertDoes, GoHolds DEF Insert, Goto
    <3>2. Listing(c)' /\ Between(c, k)'
      BY <3>1 DEF Listing, Between, Marking
    <3>3. \A d \in Clerk, i \in Invoice : ~Removing(d, i)'
      BY <2>1, <3>1 DEF Busy, Removing
    <3>4. ASSUME NEW t \in Trip, NEW i \in Invoice, trips'[t] # Nothing
          PROVE  Follow(t, i)'
      <4>1. trips[t].invoice = i <=> Live(i) /\ t \in invoices[i].trips
        BY <2>5, <3>1, <3>4 DEF Marking
      <4>2. CASE i = k
        <5>1. ~Live(k)
          BY <3>1 DEF MintedOnly
        <5>2. t \in hand[c].trips => trips[t].invoice = Nothing
          BY <2>1, <3>1 DEF Fresh
        <5> QED BY <3>1, <3>2, <4>1, <4>2, <5>1, <5>2 DEF Follow
      <4>3. CASE i # k
        BY <3>1, <3>3, <4>1, <4>3 DEF Follow, Others, Live
      <4> QED BY <4>2, <4>3
    <3> QED BY <2>3, <3>2, <3>4
  <2>7. ASSUME Hook(c)
        PROVE  MarksFollow'
    <3>1. /\ pc[c] = "hook" /\ trips' = trips /\ invoices' = invoices
          /\ pc'[c] = IF hand[c].next = "mark" THEN "mark" ELSE "idle"
          /\ pc'[c] # "idle" => hand'[c] = hand[c]
      BY <2>7, GoHolds DEF Hook
    <3>2. \A d \in Clerk, i \in Invoice : (Between(d, i) => Between(d, i)') /\ ~Removing(d, i)'
      BY <2>1, <3>1 DEF Busy, Between, Removing, Marking
    <3>3. Listing(c)'
      BY <2>2, <3>1 DEF Listing, Marking, Live
    <3>4. \A t \in Trip, i \in Invoice : trips'[t] # Nothing => Follow(t, i)'
      BY <2>2, <3>1, <3>2 DEF Follow, Live
    <3> QED BY <2>3, <3>3, <3>4
  <2>8. ASSUME Mark(c)
        PROVE  MarksFollow'
    <3> DEFINE k == hand[c].invoice
               S == hand[c].trips
    <3>1. /\ pc[c] = "mark" /\ k \in Invoice /\ S \in SUBSET Trip /\ invoices' = invoices
          /\ MarkAll(S, k) /\ pc'[c] = "idle"
      BY <2>8, GoHolds DEF Mark, HandsFit, TypeOK, Held
    <3>2. Marked(S, k)
      <4> HIDE DEF k, S
      <4> QED BY <3>1, MarkAllDoes
    <3>3. Live(k) /\ S = invoices[k].trips
      BY <2>2, <3>1 DEF Listing, Marking
    <3>4. \A d \in Clerk, i \in Invoice :
            /\ ~Removing(d, i)'
            /\ Between(d, i) => i = k
      BY <2>1, <3>1 DEF Busy, Between, Removing, Marking
    <3> HIDE DEF k, S
    <3>5. ASSUME NEW t \in Trip, NEW i \in Invoice, trips'[t] # Nothing
          PROVE  Follow(t, i)'
      <4>1. /\ trips[t] # Nothing /\ Follow(t, i) /\ Follow(t, k)
            /\ trips'[t].invoice = IF t \in S THEN k ELSE trips[t].invoice
        BY <2>2, <3>1, <3>2, <3>5 DEF Marked
      <4>2. t \in S => trips[t].invoice \in {k, Nothing}
        BY <3>3, <4>1 DEF Follow
      <4>3. Nothing \notin Invoice
        BY NothingAssumption
      <4> QED BY <3>1, <3>3, <3>4, <4>1, <4>2, <4>3 DEF Follow, Live
    <3>6. Listing(c)'
      BY <3>1 DEF Listing, Marking
    <3> QED BY <2>3, <3>5, <3>6
  <2>9. ASSUME Unmark(c)
        PROVE  MarksFollow'
    <3>0. PICK k \in Invoice : k = hand[c].invoice
      BY <2>9 DEF Unmark, Goto, HandsFit
    <3> DEFINE S == hand[c].docs[k].trips
    <3>1. /\ pc[c] = "unmark" /\ hand[c].docs[k] # Nothing
          /\ invoices' = invoices /\ MarkAll(S, Nothing)
          /\ pc'[c] = "remove" /\ hand'[c] = hand[c]
      BY <2>9, <3>0, GoHolds DEF Unmark, Goto, HandsFit
    <3>2. hand[c].docs[k] = invoices[k] /\ Live(k)
      BY <2>1, <3>0, <3>1 DEF Fresh, Live
    <3>3. S = invoices[k].trips /\ S \in SUBSET Trip
      BY <3>1, <3>2 DEF TypeOK, InvoiceDoc, Live
    <3>4. Between(c, k)' /\ \A d \in Clerk, i \in Invoice : Removing(d, i)' => i = k
      BY <2>1, <3>0, <3>1 DEF Busy, Between, Removing
    <3> HIDE DEF S
    <3>5. Marked(S, Nothing)
      BY <3>1, <3>3, MarkAllDoes
    <3>6. ASSUME NEW t \in Trip, NEW i \in Invoice, trips'[t] # Nothing
          PROVE  Follow(t, i)'
      <4>1. /\ trips[t] # Nothing
            /\ trips'[t].invoice = IF t \in S THEN Nothing ELSE trips[t].invoice
        BY <3>5, <3>6 DEF Marked
      <4>2. /\ trips[t].invoice = i <=> Live(i) /\ t \in invoices[i].trips
            /\ trips[t].invoice = k <=> Live(k) /\ t \in invoices[k].trips
        BY <2>5, <3>1, <4>1 DEF Marking
      <4>3. Nothing \notin Invoice
        BY NothingAssumption
      <4> QED BY <3>1, <3>2, <3>3, <3>4, <4>1, <4>2, <4>3 DEF Follow, Live
    <3>7. Listing(c)'
      BY <3>1 DEF Listing, Marking
    <3> QED BY <2>3, <3>6, <3>7
  <2>10. ASSUME Remove(c)
         PROVE  MarksFollow'
    <3>0. PICK k \in Invoice : k = hand[c].invoice
      BY <2>10 DEF Remove, Goto, HandsFit
    <3>1. /\ pc[c] = "remove" /\ trips' = trips
          /\ invoices' = [invoices EXCEPT ![k] = Nothing]
          /\ pc'[c] = "hook" /\ hand'[c] = hand[c] /\ hand[c].next = "idle"
      BY <2>10, <3>0, GoHolds DEF Remove, Goto
    <3>2. Removing(c, k)
      BY <3>0, <3>1 DEF Removing
    <3>3. \A d \in Clerk, i \in Invoice : ~Removing(d, i)' /\ (Between(d, i) => i = k)
      BY <2>1, <3>0, <3>1 DEF Busy, Between, Removing, Marking
    <3>4. Listing(c)'
      BY <3>1 DEF Listing, Marking
    <3>5. /\ ~Live(k)'
          /\ \A i \in Invoice : i # k => invoices'[i] = invoices[i]
      BY <3>1 DEF Live, TypeOK
    <3>6. ASSUME NEW t \in Trip, NEW i \in Invoice, trips'[t] # Nothing
          PROVE  Follow(t, i)'
      <4>1. Follow(t, i)
        BY <2>2, <3>1, <3>6
      <4> QED BY <3>1, <3>2, <3>3, <3>5, <4>1 DEF Follow, Live
    <3> QED BY <2>3, <3>4, <3>6
  <2>11. ASSUME Reread(c) \/ RecomputeFind(c) \/ RecomputeTrips(c) \/ Allocated(c)
         PROVE  MarksFollow'
    <3>1. /\ pc[c] \in {"reread", "recompute", "trips", "allocate"}
          /\ trips' = trips /\ invoices' = invoices
      BY <2>11 DEF Reread, RecomputeFind, RecomputeTrips, Allocated, Goto
    <3>2. pc'[c] # "remove" /\ ~Marking(c)'
      BY SMTT(40), <2>11, GoHolds DEF HandsFit, Reread, RecomputeFind, Marking
    <3> QED BY <2>4, <3>1, <3>2 DEF Live, Marking
  <2>12. ASSUME Recompute(c) \/ Pay(c) \/ \E i \in Invoice : Allocate(c, i)
         PROVE  MarksFollow'
    <3>1. /\ pc[c] \in {"totals", "pay", "allocate"} /\ trips' = trips
      BY <2>12 DEF Recompute, Pay, Allocate, Goto
    <3>2. pc'[c] # "remove" /\ ~Marking(c)'
      BY <2>12, GoHolds DEF HandsFit, Recompute, Allocate, Marking
    <3>3. \A j \in Invoice : /\ Live(j)' <=> Live(j)
                             /\ Live(j) => invoices'[j].trips = invoices[j].trips
      <4>1. CASE Recompute(c)
        BY <4>1, RecomputeDoes, FiguresKeep DEF TypeOK
      <4>2. CASE Pay(c)
        BY <4>2, PayDoes, FiguresKeep DEF TypeOK
      <4>3. ASSUME NEW i \in Invoice, Allocate(c, i)
            PROVE  \A j \in Invoice :
                     /\ Live(j)' <=> Live(j)
                     /\ Live(j) => invoices'[j].trips = invoices[j].trips
        BY <4>3, AllocateDoes, FiguresKeep DEF TypeOK
      <4> QED BY <2>12, <4>1, <4>2, <4>3
    <3> QED BY <2>4, <3>1, <3>2, <3>3 DEF Marking
  <2>13. ASSUME Save(c) \/ Erase(c)
         PROVE  MarksFollow'
    <3>1. pc[c] \in {"save", "erase"} /\ invoices' = invoices
      BY <2>13 DEF Save, Erase
    <3>2. pc'[c] \in {"idle", "recompute"}
      BY <2>13, GoHolds
    <3>3. \A t \in Trip : trips'[t] # Nothing =>
            trips[t] # Nothing /\ trips'[t].invoice = trips[t].invoice
      <4>1. CASE Save(c)
        <5>1. trips[hand[c].trip].invoice = hand[c].invoice
          BY <2>1, <3>1 DEF Fresh
        <5> QED BY <4>1, <5>1, SaveDoes DEF Saved
      <4>2. CASE Erase(c)
        BY <4>2, EraseDoes
      <4> QED BY <2>13, <4>1, <4>2
    <3> QED BY <2>4, <3>1, <3>2, <3>3 DEF Marking, Live
  <2> QED
    BY <1>3, <2>6, <2>7, <2>8, <2>9, <2>10, <2>11, <2>12, <2>13 DEF Going
<1> QED BY <1>1, <1>2, <1>3, QuietSteps

LEMMA BillsStep ==
  ASSUME TypeOK, HandsFit, AloneIsAlone, AloneIsFresh, MintedOnly, MarksFollow,
         TripOnOneBill, [Next]_vars, Quiet'
  PROVE  TripOnOneBill'
<1>0. \A i, j \in Invoice :
        Quiet /\ i # j /\ Live(i) /\ Live(j) => invoices[i].trips \cap invoices[j].trips = {}
  BY DEF TripOnOneBill
<1>1. ASSUME Quiet, \A i \in Invoice : Live(i)' =>
               Live(i) /\ invoices'[i].trips = invoices[i].trips
      PROVE  TripOnOneBill'
  BY <1>0, <1>1 DEF TripOnOneBill, Live
<1>2. ASSUME NEW c \in Clerk, NEW k \in Invoice, Insert(c, k)
      PROVE  TripOnOneBill'
  <2>1. Quiet /\ Busy = {c} /\ Fresh(c)
    BY <1>2, QuietGoing DEF Going
  <2>2. /\ pc[c] = "insert" /\ Others(k) /\ invoices'[k].trips = hand[c].trips
        /\ hand[c].trips \in SUBSET Trip
    BY <1>2, InsertDoes DEF Insert, Goto, TypeOK, Held
  <2>3. ASSUME NEW i \in Invoice, i # k, Live(i), NEW t \in hand[c].trips
        PROVE  t \notin invoices[i].trips
    <3>1. t \in Trip /\ trips[t] # Nothing /\ trips[t].invoice = Nothing
      BY <2>1, <2>2, <2>3 DEF Fresh
    <3>2. ~Between(c, i) /\ \A d \in Clerk : ~Between(d, i)
      BY <2>1, <2>2, NotBetween DEF Marking
    <3>3. Nothing \notin Invoice
      BY NothingAssumption
    <3> QED BY <2>1, <2>3, <3>1, <3>2, <3>3 DEF MarksFollow
  <2>4. \A i \in Invoice : i # k /\ Live(i) => invoices[i].trips \cap hand[c].trips = {}
    BY <2>3
  <2> QED BY <1>0, <2>1, <2>2, <2>4 DEF TripOnOneBill, Others, Live
<1>3. CASE minted' = minted
  <2>1. Quiet
    <3>1. CASE UNCHANGED vars
      BY <3>1 DEF vars, Quiet
    <3>2. ASSUME NEW c \in Clerk, Beginning(c) \/ Going(c)
          PROVE  Quiet
      BY <3>2, BeginningDoes, QuietBegins, QuietGoing
    <3> QED BY <3>1, <3>2, QuietSteps
  <2>2. MintedOnly' /\ ListsStay
    BY MintedStep, ListsStayStep
  <2>3. \A i \in Invoice : (Live(i)' => i \in minted) /\ (Live(i) => i \in minted)
    BY SMTT(40), <1>3, <2>2 DEF MintedOnly, Live
  <2> QED BY <1>1, <2>1, <2>2, <2>3 DEF ListsStay
<1>4. minted' = minted \/ \E c \in Clerk, k \in Invoice : Insert(c, k)
  BY ZenonT(60) DEF Next, vars, CreateFind, Hook, Mark, DeleteFind, Unmark, Remove, Look,
     UpdateInvoice, Reread, RecomputeFind, RecomputeTrips, Recompute, PayFind, Pay,
     CustomerFind,
     Allocate, Allocated, EditFind, DeleteTripFind, Save, Erase, Die
<1> QED BY <1>2, <1>3, <1>4

-----------------------------------------------------------------------------
(* Figures.                                                                *)

(* The figures of one invoice, except while it is recomputed.              *)
Right(i) ==
  Live(i) =>
    /\ invoices[i].paid = invoices[i].payments
    /\ invoices[i].due = <<invoices[i].total, invoices[i].paid>>
    /\ \/ invoices[i].total = PricesOf(invoices[i].trips)
       \/ \E c \in Clerk : Recomputing(c, i)

LEMMA FiguresParts == FiguresFollow <=> (Quiet => \A i \in Invoice : Right(i))
BY DEF FiguresFollow, Right

(* An invoice that does not change is right as long as its trips keep      *)
(* their prices.                                                           *)
LEMMA RightStays ==
  ASSUME NEW i, Right(i), invoices'[i] = invoices[i],
         Live(i) => PricesOf(invoices[i].trips)' = PricesOf(invoices[i].trips),
         \A c \in Clerk : Live(i) /\ Recomputing(c, i) => Recomputing(c, i)'
  PROVE  Right(i)'
BY DEF Right, Live, PricesOf

LEMMA FiguresStep ==
  ASSUME TypeOK, HandsFit, AloneIsAlone, AloneIsFresh, MintedOnly, MarksFollow,
         FiguresFollow, [Next]_vars, Quiet'
  PROVE  FiguresFollow'
<1>1. CASE UNCHANGED vars
  BY <1>1 DEF vars, FiguresFollow, Quiet, Live, PricesOf, Recomputing
<1>2. ASSUME NEW c \in Clerk, Beginning(c)
      PROVE  FiguresFollow'
  <2>1. /\ Quiet /\ Busy = {}
        /\ trips' = trips /\ invoices' = invoices
    BY <1>2, BeginningDoes, QuietBegins
  <2>2. \A d \in Clerk, i \in Invoice : ~Recomputing(d, i)
    BY <2>1 DEF Busy, Recomputing
  <2>3. \A i \in Invoice : Right(i)
    BY <2>1, FiguresParts
  <2>4. \A S : PricesOf(S)' = PricesOf(S)
    BY <2>1 DEF PricesOf
  <2> QED BY <2>1, <2>2, <2>3, <2>4 DEF FiguresFollow, Right, Live
<1>3. ASSUME NEW c \in Clerk, Going(c)
      PROVE  FiguresFollow'
  <2>1. Quiet /\ Busy = {c} /\ Fresh(c)
    BY <1>3, QuietGoing
  <2>2. \A i \in Invoice : Right(i)
    BY <2>1, FiguresParts
  <2>3. ASSUME \A i \in Invoice : Right(i)'
        PROVE  FiguresFollow'
    BY <2>3 DEF FiguresFollow, Right
  <2>4. ASSUME pc[c] \notin {"recompute", "trips", "totals"}
        PROVE  \A d \in Clerk, i \in Invoice : ~Recomputing(d, i)
    BY <2>1, <2>4 DEF Busy, Recomputing
  <2>5. ASSUME trips' = trips
        PROVE  \A S : PricesOf(S)' = PricesOf(S)
    BY <2>5 DEF PricesOf
  <2>6. ASSUME NEW k \in Invoice, Insert(c, k)
        PROVE  FiguresFollow'
    <3>1. /\ pc[c] = "insert" /\ trips' = trips
          /\ Others(k) /\ invoices'[k].trips = hand[c].trips
          /\ invoices'[k].payments = {} /\ invoices'[k].total = hand[c].total
          /\ invoices'[k].paid = {} /\ invoices'[k].due = <<hand[c].total, {}>>
      BY <2>6, InsertDoes DEF Insert, Goto
    <3>2. PricesOf(invoices[k].trips)' = hand[c].total
      <4>1. hand[c].total = PricesOf(hand[c].trips)
        BY <2>1, <3>1 DEF Fresh
      <4> QED BY <3>1, <4>1 DEF PricesOf
    <3>3. Right(k)'
      BY <3>1, <3>2 DEF Right, PricesOf
    <3>4. ASSUME NEW i \in Invoice, i # k
          PROVE  Right(i)'
      BY <2>2, <2>4, <2>5, <3>1, <3>4, RightStays DEF Others
    <3> QED BY <2>3, <3>3, <3>4
  <2>7. ASSUME Hook(c) \/ Allocated(c) \/ Reread(c)
        PROVE  FiguresFollow'
    <3>1. trips' = trips /\ invoices' = invoices /\ pc[c] \in {"hook", "allocate", "reread"}
      BY <2>7 DEF Hook, Allocated, Reread
    <3>2. \A i \in Invoice : Right(i)'
      BY <2>2, <2>4, <2>5, <3>1, RightStays
    <3> QED BY <2>3, <3>2
  <2>8. ASSUME Mark(c) \/ Unmark(c)
        PROVE  FiguresFollow'
    <3>1. /\ pc[c] \in {"mark", "unmark"} /\ invoices' = invoices
          /\ \E S, i : Marked(S, i)
      <4>1. CASE Mark(c)
        <5>1. hand[c].trips \in SUBSET Trip /\ hand[c].invoice \in Invoice
          BY <4>1 DEF Mark, HandsFit, TypeOK, Held
        <5> QED BY <4>1, <5>1, MarkAllDoes DEF Mark
      <4>2. CASE Unmark(c)
        <5>1. hand[c] \in Held /\ hand[c].invoice \in Invoice
              /\ hand[c].docs[hand[c].invoice] # Nothing
          BY <4>2 DEF Unmark, Goto, HandsFit, TypeOK
        <5>2. hand[c].docs[hand[c].invoice].trips \in SUBSET Trip
          BY <5>1 DEF Held, InvoiceDoc
        <5> QED BY <4>2, <5>2, MarkAllDoes DEF Unmark, Goto
      <4> QED BY <2>8, <4>1, <4>2
    <3>2. ASSUME NEW i \in Invoice, Live(i)
          PROVE  PricesOf(invoices[i].trips)' = PricesOf(invoices[i].trips)
      <4>1. invoices[i].trips \in SUBSET Trip
        BY <3>2 DEF TypeOK, InvoiceDoc, Live
      <4>2. PICK S, j : Marked(S, j)
        BY <3>1
      <4>3. {u \in invoices[i].trips : trips'[u] # Nothing}
              = {u \in invoices[i].trips : trips[u] # Nothing}
        BY <4>1, <4>2 DEF Marked
      <4>4. \A t \in {u \in invoices[i].trips : trips[u] # Nothing} :
              trips'[t].price = trips[t].price
        BY <4>1, <4>2 DEF Marked
      <4> QED BY <3>1, <4>3, <4>4 DEF PricesOf
    <3>3. \A i \in Invoice : Right(i)'
      BY <2>2, <2>4, <3>1, <3>2, RightStays
    <3> QED BY <2>3, <3>3
  <2>9. ASSUME Remove(c)
        PROVE  FiguresFollow'
    <3>0. PICK k \in Invoice : k = hand[c].invoice
      BY <2>9 DEF Remove, Goto, HandsFit
    <3>1. /\ pc[c] = "remove" /\ trips' = trips
          /\ invoices' = [invoices EXCEPT ![k] = Nothing]
      BY <2>9, <3>0 DEF Remove, Goto
    <3>2. Right(k)'
      BY <3>1 DEF Right, Live, TypeOK
    <3>3. ASSUME NEW i \in Invoice, i # k
          PROVE  Right(i)'
      <4>1. invoices'[i] = invoices[i]
        BY <3>1, <3>3
      <4> QED BY <2>2, <2>4, <2>5, <3>1, <4>1, RightStays
    <3> QED BY <2>3, <3>2, <3>3
  <2>10. ASSUME RecomputeFind(c) \/ RecomputeTrips(c)
         PROVE  FiguresFollow'
    <3>1. /\ trips' = trips /\ invoices' = invoices
          /\ pc[c] \in {"recompute", "trips"}
      BY <2>10 DEF RecomputeFind, RecomputeTrips, Goto
    <3>2. \A i \in Invoice, d \in Clerk : Live(i) /\ Recomputing(d, i) => Recomputing(d, i)'
      <4>1. Live(hand[c].invoice) =>
              pc'[c] \in {"trips", "totals"} /\ hand'[c].invoice = hand[c].invoice
        BY <2>10, GoHolds
      <4> QED BY <2>1, <4>1 DEF Busy, Recomputing
    <3>3. \A i \in Invoice : Right(i)'
      BY <2>2, <2>5, <3>1, <3>2, RightStays
    <3> QED BY <2>3, <3>3
  <2>11. ASSUME Recompute(c)
         PROVE  FiguresFollow'
    <3>0. PICK k \in Invoice : k = hand[c].invoice
      BY <2>11, RecomputeDoes
    <3>1. /\ pc[c] = "totals" /\ trips' = trips
          /\ Figures(k, hand[c].total, invoices[k].payments, hand[c].docs[k].payments,
                     <<hand[c].total, hand[c].docs[k].payments>>)
          /\ hand[c].docs[k] # Nothing
      BY <2>11, <3>0, RecomputeDoes DEF Recompute, HandsFit
    <3>2. /\ hand[c].docs[k] = invoices[k]
          /\ hand[c].total = PricesOf(invoices[k].trips)
      BY <2>1, <3>0, <3>1 DEF Fresh
    <3>3. Right(k)'
      <4>1. Live(k)
        BY <3>1, <3>2 DEF Live
      <4>2. PricesOf(invoices[k].trips)' = hand[c].total
        BY <3>1, <3>2, <4>1 DEF Figures, PricesOf
      <4> QED BY <3>1, <3>2, <4>1, <4>2 DEF Figures, Right
    <3>4. ASSUME NEW i \in Invoice, i # k
          PROVE  Right(i)'
      <4>1. invoices'[i] = invoices[i]
        BY <3>1, <3>4 DEF Figures, Others
      <4>2. \A d \in Clerk : ~Recomputing(d, i)
        BY <2>1, <3>0, <3>4 DEF Busy, Recomputing
      <4> QED BY <2>2, <2>5, <3>1, <4>1, <4>2, RightStays
    <3> QED BY <2>3, <3>3, <3>4
  <2>12. ASSUME NEW k \in Invoice, NEW payments,
                Figures(k, invoices[k].total, payments, payments,
                        <<invoices[k].total, payments>>),
                Live(k), trips' = trips, pc[c] \in {"pay", "allocate"}
         PROVE  FiguresFollow'
    <3>1. Right(k)'
      <4>1. invoices[k].total = PricesOf(invoices[k].trips)
        BY <2>2, <2>4, <2>12 DEF Right
      <4>2. PricesOf(invoices[k].trips)' = invoices[k].total
        BY <2>12, <4>1 DEF Figures, PricesOf
      <4> QED BY <2>12, <4>2 DEF Figures, Right
    <3>2. ASSUME NEW i \in Invoice, i # k
          PROVE  Right(i)'
      <4>1. invoices'[i] = invoices[i]
        BY <2>12, <3>2 DEF Figures, Others
      <4> QED BY <2>2, <2>4, <2>5, <2>12, <4>1, RightStays
    <3> QED BY <2>3, <3>1, <3>2
  <2>13. ASSUME Pay(c)
         PROVE  FiguresFollow'
    <3>0. PICK k \in Invoice : k = hand[c].invoice
      BY <2>13, PayDoes
    <3> DEFINE payments == hand[c].docs[k].payments \cup {hand[c].receipt}
    <3>1. /\ pc[c] = "pay" /\ trips' = trips /\ hand[c].docs[k] # Nothing
          /\ Figures(k, invoices[k].total, payments, payments,
                     <<hand[c].docs[k].total, payments>>)
      BY <2>13, <3>0, PayDoes DEF Pay, Goto, HandsFit
    <3>2. hand[c].docs[k] = invoices[k] /\ Live(k)
      BY <2>1, <3>0, <3>1 DEF Fresh, Live
    <3> HIDE DEF payments
    <3> QED BY <2>12, <3>1, <3>2
  <2>14. ASSUME NEW k \in Invoice, Allocate(c, k)
         PROVE  FiguresFollow'
    <3> DEFINE payments == hand[c].docs[k].payments \cup {hand[c].receipt}
               paid == hand[c].docs[k].paid \cup {hand[c].receipt}
    <3>1. /\ pc[c] = "allocate" /\ trips' = trips /\ hand[c].docs[k] # Nothing
          /\ Figures(k, invoices[k].total, payments, paid, <<hand[c].docs[k].total, paid>>)
      BY <2>14, AllocateDoes DEF Allocate
    <3>2. hand[c].docs[k] = invoices[k] /\ Live(k)
      BY <2>1, <3>1 DEF Fresh, Live
    <3>3. paid = payments
      BY <2>2, <3>2 DEF Right
    <3> HIDE DEF payments, paid
    <3> QED BY <2>12, <3>1, <3>2, <3>3
  <2>15. ASSUME Save(c) \/ Erase(c)
         PROVE  FiguresFollow'
    <3>0. PICK t \in Trip : t = hand[c].trip
      BY <2>15, SaveDoes, EraseDoes
    <3>1. /\ pc[c] \in {"save", "erase"} /\ invoices' = invoices
          /\ \A u \in Trip : u # t => trips'[u] = trips[u]
      BY <2>15, <3>0, SaveDoes, EraseDoes DEF Save, Erase, Saved
    <3>2. trips[t] # Nothing /\ trips[t].invoice = hand[c].invoice
      BY <2>1, <3>0, <3>1 DEF Fresh
    <3>3. ASSUME NEW i \in Invoice, Live(i), t \notin invoices[i].trips
          PROVE  Right(i)'
      <4>1. invoices[i].trips \in SUBSET Trip
        BY <3>3 DEF TypeOK, InvoiceDoc, Live
      <4>2. \A u \in invoices[i].trips : trips'[u] = trips[u]
        BY <3>1, <3>3, <4>1
      <4>3. {u \in invoices[i].trips : trips'[u] # Nothing}
              = {u \in invoices[i].trips : trips[u] # Nothing}
        BY <4>2
      <4>4. PricesOf(invoices[i].trips)' = PricesOf(invoices[i].trips)
        BY <3>1, <4>2, <4>3 DEF PricesOf
      <4> QED BY <2>2, <2>4, <3>1, <4>4, RightStays
    <3>4. ASSUME NEW i \in Invoice, Live(i), t \in invoices[i].trips
          PROVE  Right(i)'
      <4>1. \A d \in Clerk : ~Between(d, i)
        BY <2>1, <3>1, NotBetween DEF Marking
      <4>2. hand[c].invoice = i
        BY <2>1, <3>2, <3>4, <4>1 DEF MarksFollow
      <4>3. Nothing \notin Invoice
        BY NothingAssumption
      <4>4. pc'[c] = "recompute" /\ hand'[c] = hand[c]
        BY <2>15, <4>2, <4>3, GoHolds
      <4>5. Recomputing(c, i)'
        BY <4>2, <4>4 DEF Recomputing
      <4> QED BY <2>2, <2>4, <3>1, <3>4, <4>5 DEF Right, Live
    <3>5. ASSUME NEW i \in Invoice, ~Live(i)
          PROVE  Right(i)'
      BY <3>1, <3>5 DEF Right, Live
    <3> QED BY <2>3, <3>3, <3>4, <3>5
  <2> QED
    BY <1>3, <2>6, <2>7, <2>8, <2>9, <2>10, <2>11, <2>13, <2>14, <2>15 DEF Going
<1> QED BY <1>1, <1>2, <1>3, QuietSteps

-----------------------------------------------------------------------------
(* Payments.                                                               *)

(* The payments of one invoice are those that were received on it.         *)
Recorded(i) ==
  Live(i) => invoices[i].payments = {r \in Money : <<i, r>> \in received}

LEMMA RecordParts == PaymentsOnRecord <=> (Quiet => \A i \in Invoice : Recorded(i))
BY DEF PaymentsOnRecord, Recorded

LEMMA RecordStep ==
  ASSUME TypeOK, HandsFit, AloneIsAlone, AloneIsFresh, MintedOnly, PaymentsOnRecord,
         [Next]_vars, Quiet'
  PROVE  PaymentsOnRecord'
<1>1. ASSUME Quiet, received' = received,
             \A i \in Invoice : Live(i)' => Live(i) /\ invoices'[i].payments = invoices[i].payments
      PROVE  PaymentsOnRecord'
  BY <1>1 DEF PaymentsOnRecord
<1>2. CASE UNCHANGED vars
  <2>1. /\ Quiet /\ received' = received
        /\ \A i \in Invoice : Live(i)' => Live(i)
    BY <1>2 DEF vars, Quiet, Live
  <2> QED BY <1>1, <1>2, <2>1 DEF vars
<1>3. ASSUME NEW c \in Clerk, Beginning(c)
      PROVE  PaymentsOnRecord'
  <2>1. Quiet /\ received' = received /\ invoices' = invoices
    BY <1>3, BeginningDoes, QuietBegins
  <2> QED BY <1>1, <2>1 DEF Live
<1>4. ASSUME NEW c \in Clerk, Going(c)
      PROVE  PaymentsOnRecord'
  <2>1. Quiet /\ Busy = {c} /\ Fresh(c)
    BY <1>4, QuietGoing
  <2>2. \A i \in Invoice : Recorded(i)
    BY <2>1, RecordParts
  <2>3. ASSUME \A i \in Invoice : Recorded(i)'
        PROVE  PaymentsOnRecord'
    BY <2>3 DEF PaymentsOnRecord, Recorded
  <2>4. ASSUME NEW k \in Invoice, Insert(c, k)
        PROVE  PaymentsOnRecord'
    <3>1. /\ Others(k) /\ k \notin minted /\ received' = received
          /\ invoices'[k].payments = {}
      BY <2>4, InsertDoes DEF Insert, History
    <3>2. Recorded(k)'
      BY <3>1 DEF MintedOnly, Recorded
    <3>3. ASSUME NEW i \in Invoice, i # k
          PROVE  Recorded(i)'
      BY <2>2, <3>1, <3>3 DEF Others, Recorded, Live
    <3> QED BY <2>3, <3>2, <3>3
  <2>5. ASSUME NEW k \in Invoice, NEW r \in Money, NEW total, NEW payments, NEW paid, NEW due,
               Figures(k, total, payments, paid, due), payments = invoices[k].payments \cup {r},
               Live(k), Received(k, r)
        PROVE  PaymentsOnRecord'
    <3>1. received' = received \cup {<<k, r>>}
      BY <2>5 DEF Received
    <3>2. Recorded(k)'
      <4>1. invoices[k].payments = {q \in Money : <<k, q>> \in received}
        BY <2>2, <2>5 DEF Recorded
      <4> QED BY <2>5, <3>1, <4>1 DEF Figures, Recorded
    <3>3. ASSUME NEW i \in Invoice, i # k
          PROVE  Recorded(i)'
      BY <2>2, <2>5, <3>1, <3>3 DEF Figures, Others, Recorded, Live
    <3> QED BY <2>3, <3>2, <3>3
  <2>6. ASSUME Pay(c)
        PROVE  PaymentsOnRecord'
    <3>0. PICK k \in Invoice, r \in Money : k = hand[c].invoice /\ r = hand[c].receipt
      BY <2>6, PayDoes
    <3> DEFINE payments == hand[c].docs[k].payments \cup {r}
    <3>1. /\ pc[c] = "pay" /\ Received(k, r) /\ hand[c].docs[k] # Nothing
          /\ Figures(k, invoices[k].total, payments, payments,
                     <<hand[c].docs[k].total, payments>>)
      BY <2>6, <3>0, PayDoes DEF Pay, Goto, HandsFit
    <3>2. hand[c].docs[k] = invoices[k] /\ Live(k)
      BY <2>1, <3>0, <3>1 DEF Fresh, Live
    <3>3. payments = invoices[k].payments \cup {r}
      BY <3>2
    <3> HIDE DEF payments
    <3> QED BY <2>5, <3>1, <3>2, <3>3
  <2>7. ASSUME NEW k \in Invoice, Allocate(c, k)
        PROVE  PaymentsOnRecord'
    <3>0. PICK r \in Money : r = hand[c].receipt
      BY <2>7, AllocateDoes
    <3> DEFINE payments == hand[c].docs[k].payments \cup {r}
               paid == hand[c].docs[k].paid \cup {r}
    <3>1. /\ pc[c] = "allocate" /\ Received(k, r) /\ hand[c].docs[k] # Nothing
          /\ Figures(k, invoices[k].total, payments, paid, <<hand[c].docs[k].total, paid>>)
      BY <2>7, <3>0, AllocateDoes DEF Allocate
    <3>2. hand[c].docs[k] = invoices[k] /\ Live(k)
      BY <2>1, <3>1 DEF Fresh, Live
    <3>3. payments = invoices[k].payments \cup {r}
      BY <3>2
    <3> HIDE DEF payments, paid
    <3> QED BY <2>5, <3>1, <3>2, <3>3
  <2>8. ASSUME Recompute(c)
        PROVE  PaymentsOnRecord'
    <3>0. PICK k \in Invoice : k = hand[c].invoice
      BY <2>8, RecomputeDoes
    <3>1. \E total, paid, due : Figures(k, total, invoices[k].payments, paid, due)
      BY <2>8, <3>0, RecomputeDoes
    <3>2. received' = received
      BY <2>8 DEF Recompute, History
    <3>3. \A i \in Invoice : Live(i)' => Live(i) /\ invoices'[i].payments = invoices[i].payments
      BY <3>1 DEF Figures, Others, Live
    <3> QED BY <1>1, <2>1, <3>2, <3>3
  <2>9. ASSUME \/ Hook(c) \/ Mark(c) \/ Unmark(c) \/ Remove(c) \/ Reread(c) \/ RecomputeFind(c)
               \/ RecomputeTrips(c) \/ Allocated(c) \/ Save(c) \/ Erase(c)
        PROVE  PaymentsOnRecord'
    <3>1. /\ received' = received
          /\ \/ invoices' = invoices
             \/ /\ hand[c].invoice \in Invoice
                /\ invoices' = [invoices EXCEPT ![hand[c].invoice] = Nothing]
      BY <2>9 DEF Hook, Mark, Unmark, Remove, Reread, RecomputeFind, RecomputeTrips,
         Allocated, Save, Erase, History, Goto, HandsFit
    <3>2. \A i \in Invoice : Live(i)' => Live(i) /\ invoices'[i].payments = invoices[i].payments
      BY <3>1 DEF Live, TypeOK
    <3> QED BY <1>1, <2>1, <3>1, <3>2
  <2> QED BY <1>4, <2>4, <2>6, <2>7, <2>8, <2>9 DEF Going
<1> QED BY <1>2, <1>3, <1>4, QuietSteps

-----------------------------------------------------------------------------
(* The invariant.                                                          *)

LEMMA InitHolds == ASSUME Init PROVE IInv
<1>1. \A c \in Clerk : pc[c] = "idle"
  BY DEF Init
<1>2. Busy = {} /\ \A i \in Invoice : ~Live(i)
  BY <1>1 DEF Init, Busy, Live
<1>3. TypeOK
  <2>1. trips \in [Trip -> TripDoc \cup {Nothing}]
    <3>1. [price : Price, invoice : {Nothing}] \subseteq TripDoc \cup {Nothing}
      BY DEF TripDoc
    <3> QED BY <3>1 DEF Init
  <2>2. hand \in [Clerk -> Held] /\ pc \in [Clerk -> Where]
    BY BlankTyped DEF Init, Where
  <2> QED BY <2>1, <2>2 DEF Init, TypeOK
<1>4. HandsFit
  BY <1>1 DEF HandsFit
<1>5. AloneIsAlone /\ AloneIsFresh
  BY <1>2 DEF AloneIsAlone, AloneIsFresh
<1>6. GenuineMarks /\ MintedOnly /\ LegsAreSwept
  <2>1. \A t \in Trip : trips[t].invoice = Nothing
    BY DEF Init
  <2>2. MintedOnly /\ LegsAreSwept
    BY <1>2 DEF Init, MintedOnly, LegsAreSwept
  <2> QED BY <1>1, <2>1, <2>2 DEF GenuineMarks, Marking
<1>7. MarksFollow
  <2>1. \A t \in Trip : trips[t].invoice = Nothing
    BY DEF Init
  <2>2. Nothing \notin Invoice
    BY NothingAssumption
  <2> QED BY <1>1, <1>2, <2>1, <2>2 DEF MarksFollow, Marking
<1>8. TripOnOneBill /\ FiguresFollow /\ PaymentsOnRecord
  BY <1>2 DEF TripOnOneBill, FiguresFollow, PaymentsOnRecord
<1> QED BY <1>3, <1>4, <1>5, <1>6, <1>7, <1>8 DEF IInv

LEMMA StepHolds == ASSUME IInv, [Next]_vars PROVE IInv'
<1> USE DEF IInv
<1>1. TypeOK' /\ HandsFit'
  BY RequestsStep, DocumentsStep, HandsStep, TypeParts DEF DocumentsTyped, RequestsTyped, TypeOK
<1>2. AloneIsAlone' /\ AloneIsFresh'
  BY AloneStep, FreshStep
<1>3. GenuineMarks' /\ MintedOnly' /\ LegsAreSwept'
  BY GenuineStep, MintedStep, SweptStep
<1>4. Quiet' => MarksFollow' /\ TripOnOneBill' /\ FiguresFollow' /\ PaymentsOnRecord'
  BY MarksFollowStep, BillsStep, FiguresStep, RecordStep
<1>5. ~Quiet' => MarksFollow' /\ TripOnOneBill' /\ FiguresFollow' /\ PaymentsOnRecord'
  BY DEF MarksFollow, TripOnOneBill, FiguresFollow, PaymentsOnRecord
<1> QED BY <1>1, <1>2, <1>3, <1>4, <1>5

(* Every state of the invoice handlers satisfies the inductive invariant:  *)
(* what requests hold, what they have read when they meet nobody, genuine  *)
(* invoice ids on trips, and, while requests come one after the other,     *)
(* lists, figures and payments that agree or are about to.                 *)
THEOREM InductiveInvariant == Spec => []IInv
<1>1. Init => IInv
  BY InitHolds
<1>2. IInv /\ [Next]_vars => IInv'
  BY StepHolds
<1> QED BY <1>1, <1>2, PTL DEF Spec

(* The handlers write documents with the fields the code gives them.       *)
THEOREM TypeCorrect == Spec => []TypeOK
<1>1. IInv => TypeOK
  BY DEF IInv
<1> QED BY <1>1, InductiveInvariant, PTL

(* While requests come one after the other, create_invoice never lists a   *)
(* trip that another live invoice lists.                                   *)
THEOREM OneBill == Spec => []TripOnOneBill
<1>1. IInv => TripOnOneBill
  BY DEF IInv
<1> QED BY <1>1, InductiveInvariant, PTL

(* Between such requests the invoice_id of a trip and the lists of the     *)
(* invoices agree in both directions.                                      *)
THEOREM MarksAgreeAlways == Spec => []MarksAgree
<1>1. IInv => MarksAgree
  <2> SUFFICES ASSUME MarksFollow, Quiet, Idle
               PROVE  MarksAgree
    BY DEF IInv, MarksAgree
  <2>1. \A c \in Clerk, i \in Invoice : ~Between(c, i)
    BY DEF Idle, Busy, Between, Removing, Marking
  <2> QED BY <2>1 DEF MarksFollow, MarksAgree
<1> QED BY <1>1, InductiveInvariant, PTL

(* Between such requests total, amount_paid and balance_due of every       *)
(* invoice are those of its trips and payments.                            *)
THEOREM BooksAgreeAlways == Spec => []BooksAgree
<1>1. IInv => BooksAgree
  <2> SUFFICES ASSUME FiguresFollow, Quiet, Idle
               PROVE  BooksAgree
    BY DEF IInv, BooksAgree
  <2>1. \A c \in Clerk, i \in Invoice : ~Recomputing(c, i)
    BY DEF Idle, Busy, Recomputing
  <2> QED BY <2>1 DEF FiguresFollow, BooksAgree, Exact
<1> QED BY <1>1, InductiveInvariant, PTL

(* While requests come one after the other, add_payment and                *)
(* add_customer_payment lose no payment and invent none.                   *)
THEOREM PaymentsKept == Spec => []PaymentsOnRecord
<1>1. IInv => PaymentsOnRecord
  BY DEF IInv
<1> QED BY <1>1, InductiveInvariant, PTL

(* However requests overlap and die, update_trip and create_invoice never  *)
(* leave a trip with the id of a live invoice that does not list it.       *)
THEOREM MarksGenuineAlways == Spec => []MarkIsGenuine
<1>1. IInv => MarkIsGenuine
  <2> SUFFICES ASSUME GenuineMarks
               PROVE  MarkIsGenuine
    BY DEF IInv
  <2>1. Nothing \notin Invoice
    BY NothingAssumption
  <2> QED BY <2>1 DEF GenuineMarks, Genuine, MarkIsGenuine
<1> QED BY <1>1, InductiveInvariant, PTL

(* However requests overlap, unless one dies, delete_invoice leaves no leg *)
(* of the invoice in the ledger.                                           *)
THEOREM DeletedForgotten == Spec => []LedgerForgetsDeleted
<1>1. IInv => LedgerForgetsDeleted
  <2> SUFFICES ASSUME LegsAreSwept, ~died, Idle
               PROVE  LedgerForgetsDeleted
    BY DEF IInv, LedgerForgetsDeleted
  <2>1. \A c \in Clerk : pc[c] # "hook"
    BY DEF Idle, Busy
  <2> QED BY <2>1 DEF LegsAreSwept, LedgerForgetsDeleted
<1> QED BY <1>1, InductiveInvariant, PTL

(* Whatever has happened before, a _recompute_invoice that overlaps no     *)
(* other request leaves total, amount_paid and balance_due right.          *)
THEOREM RecomputeHealsAlways == Spec => RecomputeHeals
<1>1. ASSUME IInv, [Next]_vars, NEW c \in Clerk, NEW i \in Invoice, Recompute(c),
             c \notin met, hand[c].invoice = i
      PROVE  Exact(i)'
  <2>1. TypeOK /\ HandsFit /\ AloneIsFresh
    BY <1>1 DEF IInv
  <2>2. pc[c] = "totals" /\ trips' = trips /\ hand[c].docs[i] # Nothing
    BY <1>1, <2>1 DEF Recompute, HandsFit
  <2>3. c \in Busy
    BY <2>2 DEF Busy
  <2>4. /\ hand[c].docs[i] = invoices[i]
        /\ hand[c].total = PricesOf(invoices[i].trips)
    BY <1>1, <2>1, <2>2, <2>3, FreshParts DEF Fresh
  <2>5. Figures(i, hand[c].total, invoices[i].payments, hand[c].docs[i].payments,
                <<hand[c].total, hand[c].docs[i].payments>>)
    BY <1>1, <2>1, RecomputeDoes
  <2>6. Live(i)
    BY <2>2, <2>4 DEF Live
  <2>7. PricesOf(invoices[i].trips)' = hand[c].total
    BY <2>2, <2>4, <2>5, <2>6 DEF Figures, PricesOf
  <2> QED BY <2>4, <2>5, <2>6, <2>7 DEF Figures, Exact
<1>2. IInv /\ [Next]_vars =>
        [\A c \in Clerk, i \in Invoice :
           Recompute(c) /\ c \notin met /\ hand[c].invoice = i => Exact(i)']_vars
  BY <1>1
<1> QED BY <1>2, InductiveInvariant, PTL DEF Spec, RecomputeHeals
=============================================================================
