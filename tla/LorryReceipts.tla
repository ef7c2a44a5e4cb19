---------------------------- MODULE LorryReceipts ----------------------------
(***************************************************************************)
(* The numbers of the lorry receipts: backend/services.py                  *)
(* _next_lr_number and backend/routers/trips.py (create_trip, the copies   *)
(* of a trip, and everything that prints a receipt: one receipt, its three *)
(* copies, a regenerated one, a shared one, and the two archives).         *)
(*                                                                         *)
(* A trip gets its number when it is created or, if it has none, when it   *)
(* is printed first.  The number is read from the company, written back    *)
(* one higher, and written into the trip: three awaits.  A form of the     *)
(* trip, and the form of the company with its counter in it, write back    *)
(* what they were opened with.                                             *)
(***************************************************************************)
EXTENDS Naturals, FiniteSets

CONSTANTS
  Request,    \* requests, each of which comes at most once
  Trip,       \* ids of trips
  Company,    \* the companies of the account
  First,      \* the trips there are at first: trip -> [company, customer]
  Typed,      \* numbers that somebody types when creating a trip
  Limit       \* _ITER125_MAX_TRIPS, the trips that fit into an archive

VARIABLES
  trips,      \* db.trips: [status, company, customer, number, typed]
  counter,    \* next_lr_number of each company
  pc,         \* where each request is
  hand,       \* what it has read and what it has to do
  papers,     \* history: the receipts handed out, [trip, number, by]
  stale       \* history: trips and companies over which somebody wrote
              \* something that had changed since it was read

vars == <<trips, counter, pc, hand, papers, stale>>

None == 0
Live == {t \in Trip : trips[t].status = "live"}

Blank == [status |-> "new", company |-> "none", customer |-> FALSE, number |-> None,
          typed |-> FALSE]
Idle == [kind |-> "none", trip |-> "none", company |-> "none", seen |-> <<>>, todo |-> {},
         asked |-> {}, skipped |-> {}, number |-> None, typed |-> FALSE]

TypeOK ==
  /\ \A t \in Trip : /\ trips[t].status \in {"new", "draft", "live", "gone"}
                     /\ trips[t].number \in Nat
                     /\ trips[t].status # "new" => trips[t].company \in Company
  /\ counter \in [Company -> Nat \ {0}]
  /\ \A r \in Request :
       /\ pc[r] \in {"new", "sheets", "counter", "taken", "number", "form", "settings",
                     "done", "refused"}
       /\ hand[r].todo \subseteq Trip
  /\ \A p \in papers : p.trip \in Trip /\ p.number \in Nat \ {0} /\ p.by \in Request
  /\ stale \subseteq Trip \cup Company

Init ==
  /\ trips = [t \in Trip |->
                IF t \in DOMAIN First
                THEN [Blank EXCEPT !.status = "live", !.company = First[t].company,
                                   !.customer = First[t].customer]
                ELSE Blank]
  /\ counter = [c \in Company |-> 1]
  /\ pc = [r \in Request |-> "new"] /\ hand = [r \in Request |-> Idle]
  /\ papers = {} /\ stale = {}

-----------------------------------------------------------------------------
(* _next_lr_number                                                         *)

ReadCounter(r) ==
  /\ pc[r] = "counter"
  /\ pc' = [pc EXCEPT ![r] = "taken"]
  /\ hand' = [hand EXCEPT ![r].number = counter[hand[r].company]]
  /\ UNCHANGED <<trips, counter, papers, stale>>

WriteCounter(r) ==
  /\ pc[r] = "taken"
  /\ LET c == hand[r].company
     IN  /\ counter' = [counter EXCEPT ![c] = hand[r].number + 1]
         /\ stale' = IF counter[c] # hand[r].number THEN stale \cup {c} ELSE stale
  /\ pc' = [pc EXCEPT ![r] = "number"]
  /\ UNCHANGED <<trips, hand, papers>>

-----------------------------------------------------------------------------
(* create_trip: a typed number is taken as it is.                          *)
Insert(t, c, n, typed) ==
  trips' = [trips EXCEPT ![t] = [status |-> "live", company |-> c, customer |-> TRUE,
                                 number |-> n, typed |-> typed]]

CreateTyped(r, t, c, n) ==
  /\ pc[r] = "new" /\ trips[t].status = "new"
  /\ Insert(t, c, n, TRUE)
  /\ pc' = [pc EXCEPT ![r] = "done"]
  /\ UNCHANGED <<counter, hand, papers, stale>>

CreateTrip(r, t, c) ==
  /\ pc[r] = "new" /\ trips[t].status = "new"
  /\ hand' = [hand EXCEPT ![r] = [Idle EXCEPT !.kind = "create", !.trip = t, !.company = c]]
  /\ pc' = [pc EXCEPT ![r] = "counter"]
  /\ trips' = [trips EXCEPT ![t].status = "draft", ![t].company = c]
  /\ UNCHANGED <<counter, papers, stale>>

InsertTrip(r) ==
  /\ pc[r] = "number" /\ hand[r].kind = "create"
  /\ Insert(hand[r].trip, hand[r].company, hand[r].number, FALSE)
  /\ pc' = [pc EXCEPT ![r] = "done"]
  /\ UNCHANGED <<counter, hand, papers, stale>>

(* A duplicate or a repeated trip: everything but the number.              *)
CopyTrip(r, s, t) ==
  /\ pc[r] = "new" /\ s \in Live /\ trips[t].status = "new"
  /\ trips' = [trips EXCEPT ![t] = [trips[s] EXCEPT !.number = None, !.typed = FALSE]]
  /\ pc' = [pc EXCEPT ![r] = "done"]
  /\ UNCHANGED <<counter, hand, papers, stale>>

DeleteTrip(t) ==
  /\ t \in Live
  /\ trips' = [trips EXCEPT ![t].status = "gone"]
  /\ UNCHANGED <<counter, pc, hand, papers, stale>>

-----------------------------------------------------------------------------
(* What a printing request has found.  The rest of it works on this copy.  *)
Found(r, kind, T, asked) ==
  /\ hand' = [hand EXCEPT ![r] =
       [Idle EXCEPT !.kind = kind, !.todo = T, !.asked = asked, !.skipped = asked \ T,
                    !.seen = [t \in T |-> trips[t].number]]]
  /\ UNCHANGED <<trips, counter, papers, stale>>

(* trip_lr_pdf, its three copies, regenerate and share.                    *)
PrintOne(r, t, kind) ==
  /\ pc[r] = "new"
  /\ pc' = [pc EXCEPT ![r] = IF t \in Live THEN "sheets" ELSE "refused"]
  /\ Found(r, kind, {t} \cap Live, {t})

(* bulk_regenerate_lr refuses all if one trip is missing.                  *)
PrintMany(r, asked) ==
  /\ pc[r] = "new"
  /\ pc' = [pc EXCEPT ![r] = IF asked \subseteq Live /\ Cardinality(asked) <= Limit
                             THEN "sheets" ELSE "refused"]
  /\ Found(r, "many", asked \cap Live, asked)

(* trips_bulk_all_copies_zip of a selection: who is left out, and why.     *)
Reason(t, c) ==
  IF t \notin Live THEN "not_found"
  ELSE IF trips[t].company # c THEN "wrong_company"
  ELSE IF ~trips[t].customer THEN "missing_customer"
  ELSE "none"

Archive(r, c, asked) ==
  LET packed == {t \in asked : Reason(t, c) = "none"}
  IN  /\ pc[r] = "new"
      /\ pc' = [pc EXCEPT ![r] = IF packed # {} /\ Cardinality(asked) <= Limit
                                 THEN "sheets" ELSE "refused"]
      /\ Found(r, "archive", packed, asked)

(* The same of a filter: what it asks for are the live trips it matches.   *)
ArchiveMatching(r, c, matching) ==
  /\ matching \subseteq {t \in Live : trips[t].company = c}
  /\ Archive(r, c, matching)

-----------------------------------------------------------------------------
(* One receipt of the loop.                                                *)
Render(r, t, n, out) ==
  LET todo == hand[r].todo \ {t}
  IN  /\ papers' = IF out THEN papers \cup {[trip |-> t, number |-> n, by |-> r]} ELSE papers
      /\ pc' = [pc EXCEPT ![r] = IF todo = {} THEN "done" ELSE "sheets"]

(* Sharing uploads the file, which may fail.                               *)
Uploads(r) == IF hand[r].kind = "share" THEN BOOLEAN ELSE {TRUE}

PrintSheet(r, t, out) ==
  /\ pc[r] = "sheets" /\ t \in hand[r].todo
  /\ hand[r].seen[t] # None
  /\ Render(r, t, hand[r].seen[t], out)
  /\ hand' = [hand EXCEPT ![r].todo = @ \ {t}]
  /\ UNCHANGED <<trips, counter, stale>>

(* It has no number, as far as the request knows.  A mutant that looks at  *)
(* no copy and takes a number each time.                                   *)
LacksNumberAny(r, t) == TRUE
LacksNumber(r, t) == hand[r].seen[t] = None

TakeNumber(r, t) ==
  /\ pc[r] = "sheets" /\ t \in hand[r].todo
  /\ LacksNumber(r, t)
  /\ hand' = [hand EXCEPT ![r].trip = t, ![r].company = trips[t].company]
  /\ pc' = [pc EXCEPT ![r] = "counter"]
  /\ UNCHANGED <<trips, counter, papers, stale>>

(* The back-fill, and the receipt with the number just taken.              *)
Backfill(r, out) ==
  /\ pc[r] = "number" /\ hand[r].kind # "create"
  /\ LET t == hand[r].trip  n == hand[r].number
     IN  /\ trips' = IF t \in Live THEN [trips EXCEPT ![t].number = n] ELSE trips
         /\ stale' = IF trips[t].number # hand[r].seen[t] THEN stale \cup {t} ELSE stale
         /\ Render(r, t, n, out)
         /\ hand' = [hand EXCEPT ![r].todo = @ \ {t}]
  /\ UNCHANGED counter

-----------------------------------------------------------------------------
(* update_trip: the number of the form, as it was when it was opened.      *)
OpenForm(r, t) ==
  /\ pc[r] = "new" /\ t \in Live
  /\ hand' = [hand EXCEPT ![r] = [Idle EXCEPT !.kind = "form", !.trip = t,
                                  !.number = trips[t].number]]
  /\ pc' = [pc EXCEPT ![r] = "form"]
  /\ UNCHANGED <<trips, counter, papers, stale>>

SaveForm(r) ==
  /\ pc[r] = "form"
  /\ LET t == hand[r].trip
     IN  IF t \in Live
         THEN /\ trips' = [trips EXCEPT ![t].number = hand[r].number]
              /\ stale' = IF trips[t].number # hand[r].number THEN stale \cup {t} ELSE stale
              /\ pc' = [pc EXCEPT ![r] = "done"]
         ELSE pc' = [pc EXCEPT ![r] = "refused"] /\ UNCHANGED <<trips, stale>>
  /\ UNCHANGED <<counter, hand, papers>>

(* save_company: the whole company, the counter included.                  *)
OpenSettings(r, c) ==
  /\ pc[r] = "new"
  /\ hand' = [hand EXCEPT ![r] = [Idle EXCEPT !.kind = "settings", !.company = c,
                                  !.number = counter[c]]]
  /\ pc' = [pc EXCEPT ![r] = "settings"]
  /\ UNCHANGED <<trips, counter, papers, stale>>

SaveSettings(r) ==
  /\ pc[r] = "settings"
  /\ LET c == hand[r].company
     IN  /\ counter' = [counter EXCEPT ![c] = hand[r].number]
         /\ stale' = IF counter[c] # hand[r].number THEN stale \cup {c} ELSE stale
  /\ pc' = [pc EXCEPT ![r] = "done"]
  /\ UNCHANGED <<trips, hand, papers>>

-----------------------------------------------------------------------------
Next ==
  \/ \E r \in Request, t \in Trip :
       \/ \E c \in Company : CreateTrip(r, t, c) \/ \E n \in Typed : CreateTyped(r, t, c, n)
       \/ \E s \in Trip : CopyTrip(r, s, t)
       \/ \E kind \in {"print", "share"} : PrintOne(r, t, kind)
       \/ \E out \in Uploads(r) : PrintSheet(r, t, out)
       \/ TakeNumber(r, t)
       \/ OpenForm(r, t)
  \/ \E r \in Request, T \in SUBSET Trip \ {{}} :
       \/ PrintMany(r, T)
       \/ \E c \in Company : Archive(r, c, T) \/ ArchiveMatching(r, c, T)
  \/ \E r \in Request :
       \/ ReadCounter(r) \/ WriteCounter(r)
       \/ InsertTrip(r)
       \/ \E out \in Uploads(r) : Backfill(r, out)
       \/ SaveForm(r) \/ SaveSettings(r)
       \/ \E c \in Company : OpenSettings(r, c)
  \/ \E t \in Trip : DeleteTrip(t)

Spec == Init /\ [][Next]_vars

-----------------------------------------------------------------------------
(* All receipts of a trip bear one number, and it is the trip's: however   *)
(* many were printed, in whatever way, singly and in archives.  Only a     *)
(* trip over whose number somebody has written without knowing it is       *)
(* excepted (two first prints at once, a form opened before the first).    *)
(* Behaviour: "if not trip.get('lr_number')" before each print.            *)
PapersBearTheNumber ==
  \A p \in papers : trips[p.trip].status = "live" /\ p.trip \notin stale
                      => p.number = trips[p.trip].number

(* Two trips of one company never share a number, unless one was typed or  *)
(* the counter of the company was written by somebody who had not seen its *)
(* value.  Behaviour: _next_lr_number.                                     *)
ReceiptNumbersUnique ==
  \A t, u \in Live :
    /\ t # u /\ trips[t].number # None /\ trips[t].number = trips[u].number
    /\ trips[t].company = trips[u].company
    => trips[t].typed \/ trips[u].typed \/ trips[t].company \in stale

(* The manifest of an archive tells the truth: each trip asked for is in   *)
(* it or on the list of those left out, and none of those in it belongs to *)
(* a company other than its trips' or lacks the customer.                  *)
ArchiveIsComplete ==
  \A r \in Request :
    pc[r] = "done" /\ hand[r].kind = "archive" =>
      LET packed == {p.trip : p \in {q \in papers : q.by = r}}
      IN  /\ packed = hand[r].asked \ hand[r].skipped
          /\ \A t \in packed : trips[t].customer
          /\ \A t, u \in packed : trips[t].company = trips[u].company

(* Receipts, trips, counters and archives agree.                           *)
ReceiptsAgree == PapersBearTheNumber /\ ReceiptNumbersUnique /\ ArchiveIsComplete
=============================================================================
