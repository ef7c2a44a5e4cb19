------------------------------ MODULE TaxReturns ------------------------------
(***************************************************************************)
(* The monthly returns of the goods and services tax (routers/gst.py) and  *)
(* the register of credit and debit notes (routers/reports.py).            *)
(*                                                                         *)
(* A report reads its documents, then the customers, lays the documents    *)
(* out in tables, and then reads the documents once more to compare the    *)
(* sums.  Anything may change between the reads.  The return of the notes  *)
(* is refused when the sums differ, the other two say so in a warning.     *)
(* The file for the offline utility of the portal is made from the return  *)
(* of the notes and of nothing else.                                       *)
(*                                                                         *)
(* Days are numbers and a month has two of them.  The parts of the tax and *)
(* the lines of an item are left out, and so are the other spreadsheets    *)
(* and prints, which show the same payload.                                *)
(***************************************************************************)
EXTENDS Integers, FiniteSets, Functions

CONSTANTS
  Request,
  Drafts,     \* the notes, as drafts: [id, party, kind, date, amount, gst, igst,
              \* reason, fits], the last two: the reason is in the list of the
              \* portal, the number is no longer than its sixteen characters
  Bills,      \* the invoices that may be there: [id, party, date, amount]
  Total,      \* Total[id]: of the invoice of each note
  Customers,  \* those that may get a GSTIN
  State,      \* State[c]: the code of the customer's state, "none" if unknown
  Large,      \* the invoice total above which an unregistered sale is listed
  Horizon     \* bound: the last day

MonthOf(day) == (day + 1) \div 2
LastDay(month) == 2 * month
Month == 1 .. Horizon \div 2  \* whose end the model reaches

Sum(S, f(_)) == SumFunction([x \in S |-> f(x)])
Amounts(ns) == Sum(ns, LAMBDA n : n.amount)

VARIABLES
  today, notes, invoices,
  registered,  \* the customers that have a valid GSTIN
  pc,
  hand,        \* what each report has read and laid out
  filed        \* history: <<month, note>> of the returns made after the month

vars == <<today, notes, invoices, registered, pc, hand, filed>>

-----------------------------------------------------------------------------
(* The documents.                                                          *)

Issue(n) ==
  /\ n.status = "draft"
  /\ notes' = (notes \ {n}) \cup {[n EXCEPT !.status = "issued", !.number = n.id]}
  /\ UNCHANGED <<today, invoices, registered, pc, hand, filed>>

Cancel(n) ==
  /\ n.status # "cancelled"
  /\ notes' = (notes \ {n}) \cup {[n EXCEPT !.status = "cancelled", !.cancelled = today]}
  /\ UNCHANGED <<today, invoices, registered, pc, hand, filed>>

Bill(i) ==
  /\ i \notin invoices
  /\ invoices' = invoices \cup {i}
  /\ UNCHANGED <<today, notes, registered, pc, hand, filed>>

Register(c) ==
  /\ c \notin registered
  /\ registered' = registered \cup {c}
  /\ UNCHANGED <<today, notes, invoices, pc, hand, filed>>

NextDay ==
  /\ today < Horizon
  /\ today' = today + 1
  /\ UNCHANGED <<notes, invoices, registered, pc, hand, filed>>

-----------------------------------------------------------------------------
(* _gstr1_9b_payload                                                       *)

NotesOf(ns, month) ==
  {n \in ns : MonthOf(n.date) = month /\ n.status \in {"issued", "cancelled"}}

(* A mutant: what is cancelled on the day after the month is forgotten.    *)
AmendsLater(n, month) == n.number # "none" /\ n.cancelled > LastDay(month) + 1

(* A note that was cancelled after the month has to be amended.            *)
Amends(n, month) == n.number # "none" /\ n.cancelled > LastDay(month)

Table(n, month, gstins) ==
  CASE n.status = "cancelled" -> IF Amends(n, month) THEN "amended" ELSE "dropped"
    [] n.status = "issued" /\ ~n.gst -> "commercial"
    [] n.status = "issued" /\ n.gst /\ n.party \in gstins -> "cdnr"
    [] n.status = "issued" /\ n.gst /\ n.party \notin gstins /\ n.igst
         /\ Total[n.id] > Large -> "cdnur"
    [] OTHER -> "b2cs"

Tables(ns, month, gstins) ==
  [t \in {"cdnr", "cdnur", "b2cs", "commercial", "amended", "dropped"} |->
     {n \in ns : Table(n, month, gstins) = t}]

Taxed(tables) == tables["cdnr"] \cup tables["cdnur"] \cup tables["b2cs"]
Listed(tables) == Taxed(tables) \cup tables["commercial"]

(* What is not on the list of the portal becomes "others", with a warning. *)
Remapped(tables) == Cardinality({n \in Listed(tables) : ~n.reason})

(* The second read, of what is issued.                                     *)
Reconciles(tables, truth) ==
  LET issued == {n \in truth : n.status = "issued"}
  IN  /\ Amounts(Taxed(tables)) = Amounts({n \in issued : n.gst})
      /\ Amounts(tables["commercial"]) = Amounts({n \in issued : ~n.gst})
      /\ Cardinality(Listed(tables)) = Cardinality(issued)

(* The credits and the debits of a table.                                  *)
Split(ns) ==
  [credit |-> Amounts({n \in ns : n.kind = "credit"}),
   debit |-> Amounts({n \in ns : n.kind = "debit"})]

-----------------------------------------------------------------------------
(* _gstr1_9b_offline_json_projection: a note that the portal would not     *)
(* take is left out, and an advisory says which.                           *)

Fitting(ns) == {n \in ns : n.number # "none" /\ n.fits}
Keyed(key) == {CHOOSE n \in DOMAIN key : key[n] = key[m] : m \in DOMAIN key}

Offline(tables) ==
  LET cdnr == Keyed([n \in Fitting(tables["cdnr"]) |-> <<n.party, n.number>>])
      placed == {n \in tables["cdnur"] : State[n.party] # "none"}
      cdnur == Keyed([n \in Fitting(placed) |-> n.number])
  IN  [cdnr |-> cdnr, cdnur |-> cdnur,
       gaps |-> (tables["cdnr"] \cup tables["cdnur"]) \ (cdnr \cup cdnur),
       excluded |-> tables["commercial"] \cup tables["b2cs"],
       amend |-> Cardinality(tables["amended"])]

(* _validate_gstn_utility_envelope: what it would refuse.                  *)
Problems(file) ==
  {n \in file.cdnr \cup file.cdnur : n.number = "none" \/ ~n.fits}
  \cup {n \in file.cdnur : State[n.party] = "none"}
  \cup {n \in file.cdnr : \E o \in file.cdnr \ {n} : o.party = n.party /\ o.number = n.number}
  \cup {n \in file.cdnur : \E o \in file.cdnur \ {n} : o.number = n.number}

-----------------------------------------------------------------------------
(* _gstr1_payload: the invoices of the month, by customer and by state; a  *)
(* customer that is gone has neither.                                      *)

InvoicesOf(is, month) == {i \in is : MonthOf(i.date) = month}

ByCustomer(is, gstins) ==
  LET stateOf(i) == IF i.party \in DOMAIN State THEN State[i.party] ELSE "none"
  IN  [b2b |-> {i \in is : i.party \in gstins}, b2c |-> {i \in is : i.party \notin gstins},
       missing |-> {i \in is : i.party \notin DOMAIN State},
       states |-> [s \in {stateOf(i) : i \in is} |-> Amounts({i \in is : stateOf(i) = s})],
       total |-> Amounts(is)]

-----------------------------------------------------------------------------
(* _cndn_register_payload, with its filters of kind and status.            *)

RegisterRows(ns, month, kind, status) ==
  {n \in ns : MonthOf(n.date) = month /\ kind \in {"all", n.kind} /\ status \in {"all", n.status}}

RegisterKpis(rows) ==
  [count |-> Cardinality(rows),
   net |-> Split(rows).debit - Split(rows).credit,
   applied |-> Amounts({n \in rows : n.gst}), excluded |-> Amounts({n \in rows : ~n.gst}),
   total |-> Amounts(rows),
   reasons |-> [b \in {n.reason : n \in rows} |-> Amounts({n \in rows : n.reason = b})],
   customers |-> [c \in {n.party : n \in rows} |->
                    LET own == {n \in rows : n.party = c}
                    IN  Split(own).debit - Split(own).credit]]

-----------------------------------------------------------------------------
(* A report, in three steps.                                               *)

Report == {"gstr1", "gstr1_9b", "cndn_register"}

Documents(what, month) ==
  CASE what = "gstr1" -> InvoicesOf(invoices, month)
    [] what = "gstr1_9b" -> NotesOf(notes, month)
    [] what = "cndn_register" -> RegisterRows(notes, month, "all", "issued")

(* A screen may ask again.                                                 *)
Read(r, what, month) ==
  /\ pc[r] \in {"idle", "served", "refused"}
  /\ hand' = [hand EXCEPT ![r] =
       [what |-> what, month |-> month, day |-> today, docs |-> Documents(what, month),
        gstins |-> {}, truth |-> {}, reconciled |-> FALSE, owed |-> filed]]
  /\ pc' = [pc EXCEPT ![r] = "read"]
  /\ UNCHANGED <<today, notes, invoices, registered, filed>>

ReadCustomers(r) ==
  /\ pc[r] = "read"
  /\ hand' = [hand EXCEPT ![r].gstins = registered]
  /\ pc' = [pc EXCEPT ![r] = "laid out"]
  /\ UNCHANGED <<today, notes, invoices, registered, filed>>

TablesOf(h) == Tables(h.docs, h.month, h.gstins)

Agrees(h, truth) ==
  IF h.what = "gstr1_9b" THEN Reconciles(TablesOf(h), truth)
  ELSE Cardinality(h.docs) = Cardinality(truth) /\ Amounts(h.docs) = Amounts(truth)

Compare(r) ==
  /\ pc[r] = "laid out"
  /\ LET h == hand[r]
         truth == Documents(h.what, h.month)
         served == h.what = "gstr1_9b" => Agrees(h, truth)
     IN  /\ hand' = [hand EXCEPT ![r].truth = truth, ![r].reconciled = Agrees(h, truth)]
         /\ pc' = [pc EXCEPT ![r] = IF served THEN "served" ELSE "refused"]
         /\ filed' = IF h.what = "gstr1_9b" /\ served /\ h.day > LastDay(h.month)
                     THEN filed \cup {<<h.month, n.id>> : n \in Listed(TablesOf(h))} ELSE filed
  /\ UNCHANGED <<today, notes, invoices, registered>>

Init ==
  /\ today = 1
  /\ notes = {[id |-> d.id, party |-> d.party, kind |-> d.kind, date |-> d.date,
               amount |-> d.amount, gst |-> d.gst, igst |-> d.igst, reason |-> d.reason,
               fits |-> d.fits, number |-> "none", status |-> "draft", cancelled |-> 0]
              : d \in Drafts}
  /\ invoices = {}
  /\ registered = {}
  /\ pc = [r \in Request |-> "idle"]
  /\ hand = [r \in Request |-> [what |-> "none"]]
  /\ filed = {}

Next ==
  \/ \E n \in notes : Issue(n) \/ Cancel(n)
  \/ \E i \in Bills : Bill(i)
  \/ \E c \in Customers : Register(c)
  \/ NextDay
  \/ \E r \in Request :
       \/ \E what \in Report, month \in Month : Read(r, what, month)
       \/ ReadCustomers(r) \/ Compare(r)

Spec == Init /\ [][Next]_vars

-----------------------------------------------------------------------------
(* Properties.                                                             *)

TypeOK ==
  /\ today \in 1 .. Horizon /\ invoices \subseteq Bills /\ registered \subseteq Customers
  /\ \A n \in notes : n.status \in {"draft", "issued", "cancelled"}
  /\ pc \in [Request -> {"idle", "read", "laid out", "served", "refused"}]
  /\ filed \subseteq Month \X {n.id : n \in notes}

Returns(h) == h.what = "gstr1_9b"

(* "Never silently disappears": a note that a return of a past month lists *)
(* is in every return of that month that is asked for afterwards, among    *)
(* the tables or, once it is cancelled, among what has to be amended.      *)
NeverDisappears ==
  \A r \in Request : pc[r] = "served" /\ Returns(hand[r]) =>
    LET tables == TablesOf(hand[r])
    IN  \A n \in notes : <<hand[r].month, n.id>> \in hand[r].owed =>
          \E m \in Listed(tables) \cup tables["amended"] : m.id = n.id

(* A return that is served tells what was issued when it was made: what    *)
(* the credits and the debits of its tables come to is what the register   *)
(* of the same moment has, unless one kind grew by what the other shrank;  *)
(* and the file for the portal has or accounts for every note, and passes  *)
(* the validation.                                                         *)
ReturnsAddUp ==
  \A r \in Request : pc[r] = "served" =>
    LET h == hand[r]
        tables == TablesOf(h)
        kpis == RegisterKpis({n \in h.truth : n.status = "issued"})
        file == Offline(tables)
    IN  CASE Returns(h) ->
               /\ Amounts(Taxed(tables)) = kpis.applied
               /\ Amounts(tables["commercial"]) = kpis.excluded
               /\ Split(Listed(tables)).debit + Split(Listed(tables)).credit = kpis.total
               /\ h.docs \cap h.truth \subseteq Listed(tables) \cup tables["amended"] \cup tables["dropped"]
               /\ file.cdnr \cup file.cdnur \cup file.gaps \cup file.excluded = Listed(tables)
               /\ Problems(file) = {}
          [] h.what = "gstr1" ->
               LET by == ByCustomer(h.docs, h.gstins)
               IN  /\ Sum(DOMAIN by.states, LAMBDA s : by.states[s]) = by.total
                   /\ by.missing \subseteq by.b2c
                   /\ h.reconciled => Amounts(by.b2b \cup by.b2c) = Amounts(h.truth)
          [] h.what = "cndn_register" ->
               LET own == RegisterKpis(h.docs)
               IN  /\ Sum(DOMAIN own.customers, LAMBDA c : own.customers[c]) = own.net
                   /\ own.applied + own.excluded = own.total
                   /\ Sum(DOMAIN own.reasons, LAMBDA b : own.reasons[b]) = own.total
                   /\ h.reconciled => own.count = kpis.count /\ own.total = kpis.total

(* The returns agree with the notes, with each other and with the past.    *)
ReturnsAgree == NeverDisappears /\ ReturnsAddUp
=============================================================================
