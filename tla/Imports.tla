-------------------------------- MODULE Imports --------------------------------
(***************************************************************************)
(* The statements of fuel cards and of toll tags that become expenses:     *)
(* services_fuel_import.py, services_toll_import.py and their routers, the *)
(* entry of many expenses at once (services_quick_expense.py) and the      *)
(* other ways to change such an expense (routers/expenses.py).             *)
(*                                                                         *)
(* A statement is looked at first: each of its rows goes into one of five  *)
(* buckets.  The rows that the operator then sends are written one by one; *)
(* the unique index on the source key is what keeps a transaction from     *)
(* being there twice.  The screen keeps the preview when the process dies, *)
(* and the operator may send it again.                                     *)
(*                                                                         *)
(* The reads of one preview are one step, as what is stale about a preview *)
(* is stale as a whole by the time it is sent.  A litre, an odometer and   *)
(* a narration are left out; amounts are alike when they are the same.     *)
(***************************************************************************)
EXTENDS Integers, FiniteSets, Sequences

CONSTANTS
  Request,
  Statement,  \* what may be uploaded: [source, rows]
  Vehicle,
  Registered, \* Registered[ref]: the vehicle of a registration, or Nothing
  Entered,    \* fuel records, and trips with their flat diesel and toll
  Manual,     \* expenses entered by hand: [id, vehicle]
  Nothing

Source == {"fuel", "toll", "quick"}
Category(source) == IF source = "toll" THEN "Toll" ELSE "Diesel"

VARIABLES
  expenses,
  maps,      \* fuel_vehicle_maps
  pc, hand,
  answer,    \* what each request was told of each row
  edited,    \* history: the expenses that PUT has changed
  mapMarred  \* history: two requests have saved a mapping at once

vars == <<expenses, maps, pc, hand, answer, edited, mapMarred>>

-----------------------------------------------------------------------------
(* The key of a row: the number of the transaction, or what it says.       *)

(* make_source_key, _content_key                                           *)
Key(source, row) ==
  IF row.ref # "none" THEN <<source, row.ref>>
  ELSE <<source, row.vehicle, row.date, row.amount, row.place>>

Live(e) == ~e.is_deleted /\ ~e.is_reversed

(* The vehicle of a row: by a mapping, or by its registration.             *)
MapsOf(row) == {m \in maps : m.ref = row.vehicle}
Resolved(source, row) ==
  CASE source = "toll"  -> {Registered[row.vehicle]} \ {Nothing}
    [] source = "fuel"  -> {m.vehicle : m \in MapsOf(row)}
    [] source = "quick" -> {row.vehicle}

(* _similar, within a day of the row and for the same vehicle.             *)
Near(row, v, x) ==
  /\ x.vehicle = v /\ x.date - row.date \in -1 .. 1
  /\ x.amount = row.amount \/ (row.place # "none" /\ x.place = row.place)

(* _scan_possible_duplicates: expenses, fuel records (for fuel), and trips *)
(* whose costs are not expenses.                                           *)
Possible(source, row, v) ==
  {e \in expenses : Live(e) /\ e.category = Category(source) /\ Near(row, v, e)}
  \cup {x \in Entered :
          /\ Near(row, v, x)
          /\ \/ x.kind = "fuel" /\ source = "fuel"
             \/ x.kind = "trip" /\ x.category = Category(source) /\ ~x.canonical}

-----------------------------------------------------------------------------
(* build_preview                                                           *)

(* The keys of the rows before; fuel leaves out the rows it cannot map.    *)
KeysBefore(source, rows, i) ==
  {Key(source, rows[j]) : j \in {k \in 1 .. i - 1 :
     ~rows[k].error /\ (source = "fuel" => Resolved(source, rows[k]) # {})}}

Known(source, rows, i) ==
  \/ Key(source, rows[i]) \in KeysBefore(source, rows, i)
  \/ \E e \in expenses : Live(e) /\ e.key = Key(source, rows[i])

(* A toll is known by its number before its vehicle is looked for.         *)
Bucket(source, rows, i, v) ==
  IF rows[i].error THEN "error"
  ELSE IF source = "toll" /\ Known(source, rows, i) THEN "exact_duplicate"
  ELSE IF v = Nothing THEN "vehicle_mapping_required"
  ELSE IF Known(source, rows, i) THEN "exact_duplicate"
  ELSE IF Possible(source, rows[i], v) # {} THEN "possible_duplicate" ELSE "ready"

(* bulk_create_operational_expenses takes its entries without a preview.   *)
Previewed(s, i, v) ==
  [row |-> s.rows[i], vehicle |-> v, key |-> Key(s.source, s.rows[i]),
   bucket |-> IF s.source = "quick" THEN IF s.rows[i].error THEN "error" ELSE "ready"
              ELSE Bucket(s.source, s.rows, i, v)]

(* Of two mappings of one reference, any may be the last that is read.     *)
Choices(s) ==
  {f \in [DOMAIN s.rows -> Vehicle \cup {Nothing}] :
     \A i \in DOMAIN s.rows :
       LET found == Resolved(s.source, s.rows[i])
       IN  IF found = {} THEN f[i] = Nothing ELSE f[i] \in found}

Preview(r, s) ==
  /\ pc[r] = "idle"
  /\ \E f \in Choices(s) :
       hand' = [hand EXCEPT ![r] =
         [source |-> s.source, at |-> 1,
          rows |-> [i \in DOMAIN s.rows |-> Previewed(s, i, f[i])]]]
  /\ pc' = [pc EXCEPT ![r] = "previewed"]
  /\ UNCHANGED <<expenses, maps, answer, edited, mapMarred>>

(* The operator sends the rows that are ready, those of the possible       *)
(* duplicates that are none, and by mistake any other.                     *)
Send(r) ==
  /\ pc[r] = "previewed"
  /\ hand' = [hand EXCEPT ![r].at = 1]
  /\ answer' = [answer EXCEPT ![r] = <<>>]
  /\ pc' = [pc EXCEPT ![r] = "row"]
  /\ UNCHANGED <<expenses, maps, edited, mapMarred>>

-----------------------------------------------------------------------------
(* commit_rows, one row after the other.                                   *)

Current(r) == hand[r].rows[hand[r].at]

Told(r, what) ==
  /\ answer' = [answer EXCEPT ![r] =
                  Append(@, [key |-> Current(r).key, status |-> what])]
  /\ hand' = [hand EXCEPT ![r].at = @ + 1]
  /\ pc' = [pc EXCEPT ![r] = IF hand[r].at = Len(hand[r].rows) THEN "done" ELSE "row"]

(* The imports look past a deleted expense here, the bulk entry does not.  *)
Exists(source, key) ==
  \E e \in expenses : e.key = key /\ (source = "quick" \/ ~e.is_deleted)

(* A row that the operator does not send.                                  *)
Skip(r) ==
  /\ pc[r] = "row"
  /\ Current(r).bucket = "possible_duplicate"
  /\ Told(r, "skipped")
  /\ UNCHANGED <<expenses, maps, edited, mapMarred>>

Refuse(r) ==
  /\ pc[r] = "row"
  /\ Current(r).row.error \/ Current(r).vehicle = Nothing
  /\ Told(r, "failed")
  /\ UNCHANGED <<expenses, maps, edited, mapMarred>>

Check(r) ==
  /\ pc[r] = "row"
  /\ ~Current(r).row.error /\ Current(r).vehicle # Nothing
  /\ IF Exists(hand[r].source, Current(r).key)
     THEN Told(r, "duplicate")
     ELSE pc' = [pc EXCEPT ![r] = "insert"] /\ UNCHANGED <<hand, answer>>
  /\ UNCHANGED <<expenses, maps, edited, mapMarred>>

(* The index is over every expense that has a key, the deleted ones too.   *)
Indexed(e, key) == e.key = key

NewExpense(source, item) ==
  [key |-> item.key, category |-> Category(source), vehicle |-> item.vehicle,
   date |-> item.row.date, amount |-> item.row.amount, place |-> item.row.place,
   source |-> source, ref |-> item.key, is_deleted |-> FALSE, is_reversed |-> FALSE]

(* A mutant: the check that was made before is relied upon.                *)
InsertAny(r) ==
  /\ pc[r] = "insert"
  /\ expenses' = expenses \cup {NewExpense(hand[r].source, Current(r))}
  /\ Told(r, "created")
  /\ UNCHANGED <<maps, edited, mapMarred>>

(* A key that the index knows is answered as a duplicate.                  *)
Insert(r) ==
  /\ pc[r] = "insert"
  /\ IF \E e \in expenses : Indexed(e, Current(r).key)
     THEN Told(r, "duplicate") /\ UNCHANGED expenses
     ELSE Told(r, "created") /\ expenses' = expenses \cup {NewExpense(hand[r].source, Current(r))}
  /\ UNCHANGED <<maps, edited, mapMarred>>

(* The process dies; what it has written stays, and so does the screen.    *)
Die(r) ==
  /\ pc[r] \in {"row", "insert"}
  /\ pc' = [pc EXCEPT ![r] = "previewed"]
  /\ answer' = [answer EXCEPT ![r] = <<>>]
  /\ UNCHANGED <<expenses, maps, hand, edited, mapMarred>>

-----------------------------------------------------------------------------
(* Other ways to change these expenses, each in one step.                  *)

Rest == UNCHANGED <<maps, pc, hand, answer, mapMarred>>
Replace(e, f) == expenses' = (expenses \ {e}) \cup {f}

(* create_manual_fuel_expense                                              *)
EnterManual(m) ==
  /\ \A e \in expenses : e.ref # <<"manual", m.id>>
  /\ expenses' = expenses \cup
       {[key |-> <<"manual", m.id>>, category |-> "Diesel", vehicle |-> m.vehicle, date |-> 2,
         amount |-> 5, place |-> "none", source |-> "manual", ref |-> <<"manual", m.id>>,
         is_deleted |-> FALSE, is_reversed |-> FALSE]}
  /\ UNCHANGED edited /\ Rest

(* delete_expense                                                          *)
Cancel(e) ==
  /\ ~e.is_deleted
  /\ Replace(e, [e EXCEPT !.is_deleted = TRUE])
  /\ UNCHANGED edited /\ Rest

(* update_expense writes the source key of the payload, which a form may   *)
(* leave out.                                                              *)
Put(e) ==
  /\ ~e.is_reversed
  /\ Replace(e, [e EXCEPT !.key = <<>>])
  /\ edited' = edited \cup {e.ref}
  /\ Rest

(* correct_fleet_card_expense_vehicle, and quick_diesel_edit               *)
CorrectVehicle(e) ==
  /\ e.source = "fuel" /\ Live(e)
  /\ \E v \in Vehicle \ {e.vehicle} : Replace(e, [e EXCEPT !.vehicle = v])
  /\ UNCHANGED edited /\ Rest

QuickDiesel(e) ==
  /\ e.source = "quick" /\ Live(e) /\ e.amount < 6
  /\ Replace(e, [e EXCEPT !.amount = 6])
  /\ UNCHANGED edited /\ Rest

-----------------------------------------------------------------------------
(* upsert_fuel_vehicle_map, which looks for the mapping and then writes;   *)
(* delete_fuel_vehicle_map.  No index keeps two from being there.          *)

MapRead(r, ref, v) ==
  /\ pc[r] = "idle"
  /\ pc' = [pc EXCEPT ![r] = "map"]
  /\ hand' = [hand EXCEPT ![r] =
       [ref |-> ref, vehicle |-> v, found |-> \E m \in maps : m.ref = ref]]
  /\ mapMarred' = (mapMarred \/ \E q \in Request : pc[q] = "map")
  /\ UNCHANGED <<expenses, maps, answer, edited>>

MapWrite(r) ==
  /\ pc[r] = "map"
  /\ LET m == [ref |-> hand[r].ref, vehicle |-> hand[r].vehicle, by |-> r]
         there == {n \in maps : n.ref = hand[r].ref}
     IN  IF ~hand[r].found THEN maps' = maps \cup {m}
         ELSE IF there = {} THEN UNCHANGED maps
         ELSE \E n \in there : maps' = (maps \ {n}) \cup {m}
  /\ pc' = [pc EXCEPT ![r] = "done"]
  /\ hand' = [hand EXCEPT ![r] = Nothing]
  /\ UNCHANGED <<expenses, answer, edited, mapMarred>>

MapDelete ==
  /\ \E m \in maps : maps' = maps \ {m}
  /\ UNCHANGED <<expenses, pc, hand, answer, edited, mapMarred>>

-----------------------------------------------------------------------------
References == {s.rows[i].vehicle : s \in {t \in Statement : t.source = "fuel"}, i \in {1}}

Init ==
  /\ expenses = {}
  /\ maps = {}
  /\ pc = [r \in Request |-> "idle"]
  /\ hand = [r \in Request |-> Nothing]
  /\ answer = [r \in Request |-> <<>>]
  /\ edited = {}
  /\ mapMarred = FALSE

Next ==
  \/ \E r \in Request :
       \/ \E s \in Statement : Preview(r, s)
       \/ Send(r) \/ Skip(r) \/ Refuse(r) \/ Check(r) \/ Insert(r) \/ Die(r)
       \/ \E ref \in References, v \in Vehicle : MapRead(r, ref, v)
       \/ MapWrite(r)
  \/ \E m \in Manual : EnterManual(m)
  \/ \E e \in expenses : Cancel(e) \/ Put(e) \/ CorrectVehicle(e) \/ QuickDiesel(e)
  \/ MapDelete

Spec == Init /\ [][Next]_vars

-----------------------------------------------------------------------------
(* What the screens show.                                                  *)

(* unified_fuel_log: the trips with their flat diesel only where no        *)
(* expense stands for it.                                                  *)
FuelLog ==
  {e \in expenses : e.category = "Diesel" /\ Live(e)}
  \cup {x \in Entered : x.kind = "fuel"
                        \/ (x.kind = "trip" /\ x.category = "Diesel" /\ ~x.canonical)}

(* toll_import_reconcile: a cancelled expense counts as matched.           *)
Matched(rows) ==
  {i \in DOMAIN rows : ~rows[i].error /\ \E e \in expenses : e.key = Key("toll", rows[i])}

-----------------------------------------------------------------------------
(* Properties.                                                             *)

TypeOK ==
  /\ \A e \in expenses : e.category \in {"Toll", "Diesel"} /\ e.vehicle \in Vehicle
  /\ \A m \in maps : m.vehicle \in Vehicle
  /\ pc \in [Request -> {"idle", "previewed", "row", "insert", "map", "done"}]
  /\ mapMarred \in BOOLEAN

(* However often a statement is sent, by how many at once, and wherever    *)
(* the process dies: a transaction is one expense, and it is the expense   *)
(* of the vehicle that it was previewed for or corrected to.  Only an      *)
(* expense that PUT has changed may be there again.                        *)
ImportedOnce ==
  \A e, f \in expenses : e.ref = f.ref /\ e.ref \notin edited => e = f

(* The answer is true: whatever was said to be created, or to have been    *)
(* there, is an expense, unless PUT has changed it since; and the log and  *)
(* the reconciliation show what they should.                               *)
AnswerIsTrue ==
  \A r \in Request : \A i \in DOMAIN answer[r] :
    answer[r][i].status \in {"created", "duplicate"} =>
      \E e \in expenses : e.ref = answer[r][i].key

(* As long as mappings are saved one after the other, a reference means    *)
(* one vehicle.                                                            *)
OneVehicle == ~mapMarred => \A m, n \in maps : m.ref = n.ref => m = n

(* Statements, expenses, answers and mappings agree.                       *)
ImportsAgree == ImportedOnce /\ AnswerIsTrue /\ OneVehicle
=============================================================================
