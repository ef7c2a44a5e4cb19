-------------------------------- MODULE Trips --------------------------------
(***************************************************************************)
(* Trips, the canonical expenses made of their lines, the toll that an     *)
(* operator links to a trip, and the recovery that is mirrored in the      *)
(* driver's ledger: routers/trips.py, services_expense_bridge.py, the      *)
(* deletion and the linking of an expense in routers/expenses.py, and      *)
(* sync_trip_recovery_to_ledger in routers/driver_ledger.py.               *)
(*                                                                         *)
(* The flag has_canonical_expenses says which side the reports take the    *)
(* costs of a trip from: its own lines, or the expenses.  A unique index   *)
(* keeps one expense per source_key, which is the trip and the line; there *)
(* is none on the mirrored entries.  Writing a trip, its expenses and its  *)
(* mirror takes a request many steps, on the copy it has sent.             *)
(*                                                                         *)
(* A request does one operation.  The invoice of a trip is in Invoicing,   *)
(* the projection that follows each write in FinProjection.                *)
(***************************************************************************)
EXTENDS Naturals, FiniteSets

CONSTANTS
  Request,   \* requests, each of which runs at most once
  Trip,      \* ids of trips
  Driver,    \* drivers
  Amount,    \* what a line, or a recovery, may come to, zero included
  Sheet,     \* what a client may enter for a trip
  Nothing    \* no document

Line == {"toll", "other"}    \* Trip.expenses.toll, a row of other_expenditures
Key == Trip \X Line          \* source_key
Entry == Request \cup Trip   \* ids of mirrored entries

VARIABLES
  trips,     \* db.trips
  expenses,  \* the expenses that have a source_key
  fastag,    \* the trip_id of a toll imported from FASTag
  entries,   \* the mirrored entries of db.driver_ledger_entries
  pc,        \* where each request is
  hand,      \* what it has read and been asked for
  met,       \* history: the requests that have overlapped another
  marred     \* history: what has happened besides one request after the other

vars == <<trips, expenses, fastag, entries, pc, hand, met, marred>>

-----------------------------------------------------------------------------
(* Data.                                                                   *)

TripDoc ==
  [lines : [Line -> Amount], has_canonical : BOOLEAN, driver : Driver,
   recovery : Amount]

ExpenseDoc == [amount : Amount \ {0}, is_deleted : BOOLEAN]

EntryDoc == [trip : Trip, driver : Driver, amount : Amount \ {0}]

Live(t) == trips[t] # Nothing
Active(k) == expenses[k] # Nothing /\ ~expenses[k].is_deleted
KeysOf(t) == {t} \X Line

(* _build_desired_rows: the lines that cost something.                     *)
Desired(t, doc) == {k \in KeysOf(t) : doc.lines[k[2]] > 0}

(* The entries that the natural key finds.                                 *)
Mirrors(t) == {e \in Entry : entries[e] # Nothing /\ entries[e].trip = t}

(* vehicle_cost_summary: the expenses of the trip, and, unless it is       *)
(* flagged, its own lines.                                                 *)
Charged(t) ==
  {<<k[2], "expense", expenses[k].amount>> : k \in {j \in KeysOf(t) : Active(j)}}
  \cup
  IF Live(t) /\ ~trips[t].has_canonical
  THEN {<<k[2], "trip", trips[t].lines[k[2]]>> : k \in Desired(t, trips[t])}
  ELSE {}

(* A sheet of the client: the lines, the driver, and the recovery.         *)
Fresh(s) ==
  [lines |-> s.lines, has_canonical |-> FALSE, driver |-> s.driver, recovery |-> s.recovery]

Blank ==
  [trip |-> Nothing, doc |-> Nothing, old |-> Nothing, seen |-> {}, gone |-> {},
   todo |-> {}]

Busy == {r \in Request : pc[r] \notin {"new", "done"}}

(* A trip that an import has left, without expenses; the toll is unlinked. *)
Init ==
  /\ \E t \in Trip, s \in Sheet :
       trips = [u \in Trip |-> IF u = t THEN [Fresh(s) EXCEPT !.recovery = 0] ELSE Nothing]
  /\ expenses = [k \in Key |-> Nothing]
  /\ fastag = Nothing
  /\ entries = [e \in Entry |-> Nothing]
  /\ pc = [r \in Request |-> "new"]
  /\ hand = [r \in Request |-> Blank]
  /\ met = {}
  /\ marred = {}

-----------------------------------------------------------------------------
(* Requests.                                                               *)

Begin(r, at, what) ==
  /\ pc[r] = "new"
  /\ pc' = [pc EXCEPT ![r] = at]
  /\ hand' = [hand EXCEPT ![r] = what]
  /\ met' = IF Busy = {} THEN met ELSE met \cup Busy \cup {r}
  /\ marred' = IF Busy = {} THEN marred ELSE marred \cup {"overlap"}
  /\ UNCHANGED <<trips, expenses, fastag, entries>>

(* A request goes on with what it holds, or ends and forgets it.           *)
Goto(r, from, to, what) ==
  /\ pc[r] = from
  /\ pc' = [pc EXCEPT ![r] = to]
  /\ hand' = [hand EXCEPT ![r] = IF to = "done" THEN Blank ELSE what]
  /\ UNCHANGED met

Read(r, from, to, what) ==
  /\ Goto(r, from, to, what)
  /\ UNCHANGED <<trips, expenses, fastag, entries, marred>>

(* The process dies: nothing is undone.                                    *)
Die(r) ==
  /\ r \in Busy
  /\ pc' = [pc EXCEPT ![r] = "done"]
  /\ hand' = [hand EXCEPT ![r] = Blank]
  /\ marred' = marred \cup {"death"}
  /\ UNCHANGED <<trips, expenses, fastag, entries, met>>

-----------------------------------------------------------------------------
(* create_trip and update_trip: the document, then its expenses, then its  *)
(* mirror.  A client sends the flag along with the rest of the trip.       *)

CreateTrip(r, t, s) ==
  /\ ~Live(t)
  /\ KeysOf(t) \cap {k \in Key : expenses[k] # Nothing} = {}
  /\ Begin(r, "write", [Blank EXCEPT !.trip = t, !.doc = Fresh(s)])

UpdateFind(r, t, s) ==
  /\ Live(t)
  /\ Begin(r, "write", [Blank EXCEPT !.trip = t, !.old = trips[t],
                          !.doc = [Fresh(s) EXCEPT
                                     !.has_canonical = trips[t].has_canonical]])

(* An update matches nothing when the trip is gone, and goes on.           *)
WriteTrip(r) ==
  LET t == hand[r].trip
  IN  /\ pc[r] = "write"
      /\ Goto(r, "write", "read_rows", hand[r])
      /\ trips' = IF hand[r].old = Nothing \/ Live(t)
                  THEN [trips EXCEPT ![t] = hand[r].doc] ELSE trips
      /\ UNCHANGED <<expenses, fastag, entries, marred>>

(* sync_trip_expenses_to_canonical.                                        *)
ReadRows(r) ==
  LET t == hand[r].trip
      seen == {k \in KeysOf(t) : expenses[k] # Nothing}
  IN  /\ pc[r] = "read_rows"
      /\ Read(r, "read_rows", "upsert",
              [hand[r] EXCEPT !.seen = seen,
                              !.gone = {k \in seen : ~Active(k)} \cup Desired(t, hand[r].doc),
                              !.todo = Desired(t, hand[r].doc)])

Put(r, k) ==
  expenses' = [expenses EXCEPT ![k] =
                 [amount |-> hand[r].doc.lines[k[2]], is_deleted |-> FALSE]]

(* A row that was seen is updated, or brought back; another is inserted,   *)
(* and when the index refuses it the request gives the sync up.            *)
UpsertRow(r) ==
  /\ pc[r] = "upsert"
  /\ \E k \in hand[r].todo :
       IF k \in hand[r].seen \/ expenses[k] = Nothing
       THEN /\ Goto(r, "upsert", "upsert", [hand[r] EXCEPT !.todo = @ \ {k}])
            /\ Put(r, k)
            /\ UNCHANGED <<trips, fastag, entries, marred>>
       ELSE Read(r, "upsert", "mirror", hand[r])

(* A mutant: rows that the trip no longer has stay.                        *)
RowsDoneKeep(r) ==
  /\ pc[r] = "upsert" /\ hand[r].todo = {}
  /\ Read(r, "upsert", "remove", hand[r])

(* The rows that were active then and that the trip does not have now.     *)
RowsDone(r) ==
  /\ pc[r] = "upsert" /\ hand[r].todo = {}
  /\ Read(r, "upsert", "remove", [hand[r] EXCEPT !.todo = hand[r].seen \ hand[r].gone])

RemoveRow(r) ==
  /\ pc[r] = "remove"
  /\ \E k \in hand[r].todo :
       /\ Goto(r, "remove", "remove", [hand[r] EXCEPT !.todo = @ \ {k}])
       /\ expenses' = [expenses EXCEPT ![k].is_deleted = TRUE]
  /\ UNCHANGED <<trips, fastag, entries, marred>>

SetFlag(r) ==
  LET t == hand[r].trip
  IN  /\ pc[r] = "remove" /\ hand[r].todo = {}
      /\ Goto(r, "remove", "mirror", hand[r])
      /\ trips' = IF Live(t)
                  THEN [trips EXCEPT ![t].has_canonical = Desired(t, hand[r].doc) # {}]
                  ELSE trips
      /\ UNCHANGED <<expenses, fastag, entries, marred>>

(* sync_trip_recovery_to_ledger: a recovery of nothing removes the entry;  *)
(* otherwise one entry that is found is updated, or replaced when it is    *)
(* another driver's.                                                       *)
AfterMirror(r) ==
  IF hand[r].old # Nothing /\ hand[r].old.driver # hand[r].doc.driver
  THEN "old_driver" ELSE "done"

Without(S) == [e \in Entry |-> IF e \in S THEN Nothing ELSE entries[e]]

MirrorNothing(r) ==
  /\ pc[r] = "mirror" /\ hand[r].doc.recovery = 0
  /\ Goto(r, "mirror", AfterMirror(r), hand[r])
  /\ entries' = Without(Mirrors(hand[r].trip))
  /\ UNCHANGED <<trips, expenses, fastag, marred>>

MirrorFind(r) ==
  /\ pc[r] = "mirror" /\ hand[r].doc.recovery > 0
  /\ \/ /\ Mirrors(hand[r].trip) = {}
        /\ Read(r, "mirror", "mirror_insert", hand[r])
     \/ \E e \in Mirrors(hand[r].trip) :
          Read(r, "mirror",
               IF entries[e].driver = hand[r].doc.driver THEN "mirror_update" ELSE "mirror_drop",
               [hand[r] EXCEPT !.seen = {e}])

MirrorDoc(r) ==
  [trip |-> hand[r].trip, driver |-> hand[r].doc.driver, amount |-> hand[r].doc.recovery]

MirrorUpdate(r) ==
  /\ pc[r] = "mirror_update"
  /\ Goto(r, "mirror_update", AfterMirror(r), hand[r])
  /\ entries' = [e \in Entry |-> IF e \in hand[r].seen /\ entries[e] # Nothing
                                 THEN MirrorDoc(r) ELSE entries[e]]
  /\ UNCHANGED <<trips, expenses, fastag, marred>>

MirrorDrop(r) ==
  /\ pc[r] = "mirror_drop"
  /\ Goto(r, "mirror_drop", "mirror_insert", hand[r])
  /\ entries' = Without(hand[r].seen)
  /\ UNCHANGED <<trips, expenses, fastag, marred>>

MirrorInsert(r) ==
  /\ pc[r] = "mirror_insert"
  /\ Goto(r, "mirror_insert", AfterMirror(r), hand[r])
  /\ entries' = [entries EXCEPT ![r] = MirrorDoc(r)]
  /\ UNCHANGED <<trips, expenses, fastag, marred>>

DropOldDriver(r) ==
  /\ pc[r] = "old_driver"
  /\ Goto(r, "old_driver", "done", Blank)
  /\ entries' = Without({e \in Mirrors(hand[r].trip) :
                           entries[e].driver = hand[r].old.driver})
  /\ UNCHANGED <<trips, expenses, fastag, marred>>

-----------------------------------------------------------------------------
(* delete_trip, in its order, and bulk_delete_trips, which removes the     *)
(* trip and its receipts only.                                             *)

DeleteFind(r, t) ==
  /\ Live(t)
  /\ Begin(r, "delete_trip", [Blank EXCEPT !.trip = t])

DeleteTrip(r) ==
  /\ pc[r] = "delete_trip"
  /\ Goto(r, "delete_trip", "delete_rows", hand[r])
  /\ trips' = [trips EXCEPT ![hand[r].trip] = Nothing]
  /\ UNCHANGED <<expenses, fastag, entries, marred>>

(* delete_trip_canonical_expenses                                          *)
DeleteRows(r) ==
  LET gone == {k \in KeysOf(hand[r].trip) : Active(k)}
  IN  /\ pc[r] = "delete_rows"
      /\ Goto(r, "delete_rows", "unlink", hand[r])
      /\ expenses' = [k \in Key |-> IF k \in gone THEN [expenses[k] EXCEPT !.is_deleted = TRUE]
                                    ELSE expenses[k]]
      /\ UNCHANGED <<trips, fastag, entries, marred>>

(* A mutant: the toll stays with the deleted trip.                         *)
UnlinkNot(r) == pc[r] = "unlink" /\ Read(r, "unlink", "delete_mirror", hand[r])

(* unlink_operator_expenses_on_trip_delete                                 *)
Unlink(r) ==
  /\ pc[r] = "unlink"
  /\ Goto(r, "unlink", "delete_mirror", hand[r])
  /\ fastag' = IF fastag = hand[r].trip THEN Nothing ELSE fastag
  /\ UNCHANGED <<trips, expenses, entries, marred>>

(* delete_trip_recovery_from_ledger                                        *)
DeleteMirror(r) ==
  /\ pc[r] = "delete_mirror"
  /\ Goto(r, "delete_mirror", "done", Blank)
  /\ entries' = Without(Mirrors(hand[r].trip))
  /\ UNCHANGED <<trips, expenses, fastag, marred>>

BulkFind(r, t) ==
  /\ Live(t)
  /\ Begin(r, "bulk", [Blank EXCEPT !.trip = t])

BulkDelete(r) ==
  /\ pc[r] = "bulk"
  /\ Goto(r, "bulk", "done", Blank)
  /\ trips' = [trips EXCEPT ![hand[r].trip] = Nothing]
  /\ marred' = marred \cup {"bulk_delete"}
  /\ UNCHANGED <<expenses, fastag, entries>>

-----------------------------------------------------------------------------
(* duplicate_trip resets the scalars, quick_repeat_trip nothing of this;   *)
(* both keep the flag and the recovery, and make neither expenses nor a    *)
(* mirror.                                                                 *)
CopyFind(r, t, u, resets) ==
  /\ Live(t) /\ ~Live(u)
  /\ KeysOf(u) \cap {k \in Key : expenses[k] # Nothing} = {}
  /\ Begin(r, "copy",
           [Blank EXCEPT !.trip = u,
                         !.doc = [trips[t] EXCEPT !.lines["toll"] = IF resets THEN 0 ELSE @]])

CopyInsert(r) ==
  /\ pc[r] = "copy"
  /\ Goto(r, "copy", "done", Blank)
  /\ trips' = [trips EXCEPT ![hand[r].trip] = hand[r].doc]
  /\ marred' = marred \cup {"copy"}
  /\ UNCHANGED <<expenses, fastag, entries>>

-----------------------------------------------------------------------------
(* delete_expense on an expense of a trip, and link_toll_expense_to_trip.  *)

ExpenseFind(r, k) ==
  /\ Active(k)
  /\ Begin(r, "delete_expense", [Blank EXCEPT !.seen = {k}])

ExpenseDelete(r) ==
  /\ pc[r] = "delete_expense"
  /\ Goto(r, "delete_expense", "done", Blank)
  /\ expenses' = [k \in Key |-> IF k \in hand[r].seen
                                THEN [expenses[k] EXCEPT !.is_deleted = TRUE] ELSE expenses[k]]
  /\ marred' = marred \cup {"expense_deleted"}
  /\ UNCHANGED <<trips, fastag, entries>>

(* is_legacy_conflicting_toll_trip                                         *)
Conflicting(t) == ~trips[t].has_canonical /\ trips[t].lines["toll"] > 0

LinkFind(r, t) ==
  /\ Live(t) /\ ~Conflicting(t) /\ fastag # t
  /\ Begin(r, "link", [Blank EXCEPT !.trip = t])

UnlinkFind(r) ==
  /\ fastag # Nothing
  /\ Begin(r, "link", Blank)

LinkWrite(r) ==
  /\ pc[r] = "link"
  /\ Goto(r, "link", "done", Blank)
  /\ fastag' = hand[r].trip
  /\ UNCHANGED <<trips, expenses, entries, marred>>

-----------------------------------------------------------------------------
Start(r) ==
  \/ \E t \in Trip, s \in Sheet : CreateTrip(r, t, s) \/ UpdateFind(r, t, s)
  \/ \E t \in Trip :
       \/ DeleteFind(r, t) \/ BulkFind(r, t) \/ LinkFind(r, t)
       \/ \E u \in Trip, resets \in BOOLEAN : CopyFind(r, t, u, resets)
  \/ \E k \in Key : ExpenseFind(r, k)
  \/ UnlinkFind(r)

Step(r) ==
  \/ WriteTrip(r) \/ ReadRows(r) \/ UpsertRow(r) \/ RowsDone(r) \/ RemoveRow(r)
  \/ SetFlag(r) \/ MirrorNothing(r) \/ MirrorFind(r) \/ MirrorUpdate(r)
  \/ MirrorDrop(r) \/ MirrorInsert(r) \/ DropOldDriver(r)
  \/ DeleteTrip(r) \/ DeleteRows(r) \/ Unlink(r) \/ DeleteMirror(r)
  \/ BulkDelete(r) \/ CopyInsert(r) \/ ExpenseDelete(r) \/ LinkWrite(r)

Next == \E r \in Request : Start(r) \/ Step(r) \/ Die(r)

Spec == Init /\ [][Next]_vars

-----------------------------------------------------------------------------
Hand ==
  [trip : Trip \cup {Nothing}, doc : TripDoc \cup {Nothing}, old : TripDoc \cup {Nothing},
   seen : SUBSET (Key \cup Entry), gone : SUBSET Key, todo : SUBSET Key]

TypeOK ==
  /\ trips \in [Trip -> TripDoc \cup {Nothing}]
  /\ expenses \in [Key -> ExpenseDoc \cup {Nothing}]
  /\ fastag \in Trip \cup {Nothing}
  /\ entries \in [Entry -> EntryDoc \cup {Nothing}]
  /\ \A r \in Request : hand[r] \in Hand
  /\ met \subseteq Request
  /\ marred \subseteq {"overlap", "death", "bulk_delete", "copy", "expense_deleted"}

(* The cost of each line, however the reports come by it.                  *)
Costs(t, doc) == {<<k[2], doc.lines[k[2]]>> : k \in Desired(t, doc)}
ChargedOnce(t) ==
  /\ {<<c[1], c[3]>> : c \in Charged(t)} = IF Live(t) THEN Costs(t, trips[t]) ELSE {}
  /\ Cardinality(Charged(t)) = Cardinality({c[1] : c \in Charged(t)})

(* "Never additive - exactly ONE side per trip" and "Never double-counts": *)
(* between requests that come one after the other, the reports charge      *)
(* every line of a live trip once and of a deleted trip not at all.        *)
TripCostsOnce ==
  Busy = {} /\ marred = {} => \A t \in Trip : ChargedOnce(t)

(* "Trip = SSoT": between such requests the ledger of the drivers holds    *)
(* the recovery of each trip, under its driver and no other, except for a  *)
(* trip that has been imported and never saved since.                      *)
Mirrored(t) ==
  {<<entries[e].driver, entries[e].amount>> : e \in Mirrors(t)}
    = IF Live(t) /\ trips[t].recovery > 0 THEN {<<trips[t].driver, trips[t].recovery>>} ELSE {}
RecoveryMirrored ==
  Busy = {} /\ marred \subseteq {"expense_deleted"} =>
    \A t \in Trip : Mirrored(t) /\ Cardinality(Mirrors(t)) <= 1

(* "Idempotent": whatever has gone wrong before, a request that meets no   *)
(* other and finishes its sync leaves every line of its trip charged once. *)
Healed ==
  \A r \in Request \ met, t \in Trip :
    pc[r] = "remove" /\ pc'[r] = "mirror" /\ hand[r].trip = t => ChargedOnce(t)'
SyncHeals == [][Healed]_vars

(* The toll is linked to a trip that exists, as long as requests come one  *)
(* after the other and no trip is deleted in bulk.                         *)
TollHasTrip ==
  (Busy = {} /\ marred \cap {"overlap", "death", "bulk_delete"} = {} /\ fastag # Nothing)
    => Live(fastag)

(* The trips and what stands for them elsewhere: expenses, entries of the  *)
(* drivers' ledger, and the toll.                                          *)
TripsAgree == TripCostsOnce /\ RecoveryMirrored /\ TollHasTrip
=============================================================================
