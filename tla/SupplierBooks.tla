----------------------------- MODULE SupplierBooks -----------------------------
(***************************************************************************)
(* What a supplier of vehicles is owed: the rows of advances and of diesel *)
(* on a supplier's trip (routers/trips.py), the ledger, the outstanding    *)
(* and the dashboard (routers/suppliers.py), and the profit, the statement *)
(* and its monthly form (routers/reports.py).                              *)
(*                                                                         *)
(* An older trip has its advance and its diesel as flat amounts; the first *)
(* request that looks at it turns each into a row.  A request reads the    *)
(* whole trip and writes the whole trip back, with everything computed     *)
(* from the rows anew.  Days are numbers, 0 stands for no date.            *)
(***************************************************************************)
EXTENDS FinLegs

CONSTANTS
  Request,
  Supplier,
  Sheets,    \* sets of trips that may be there at the beginning
  Payments,  \* sets of payments
  Expenses,  \* sets of expenses of the suppliers' vehicles
  Opening,   \* the opening balances: positive is payable
  Row,       \* the ids of the rows that may be added
  Amount,    \* the amounts a request may enter
  Day,
  Nothing

Kind == {"advance", "diesel"}

VARIABLES
  trips, payments, expenses,
  opening,  \* the balance in each supplier's master
  pc, hand,
  given,    \* history: what each trip's supplier was given, by kind
  marred    \* history: the trips that two requests had in hand at once

vars == <<trips, payments, expenses, opening, pc, hand, given, marred>>

-----------------------------------------------------------------------------
(* The rows of a trip.                                                     *)

(* _sup_entry_active, _sup_entries_total                                   *)
Active(rows) == {e \in rows : ~e.deleted}
Total(rows) == SumOf(Active(rows), LAMBDA e : e.amount)

(* _lazy_migrate_supplier_entries: the kind of a row that was a flat       *)
(* amount is its id.                                                       *)
Migrated(t) ==
  [t EXCEPT !.rows = [k \in Kind |->
     IF t.flat[k] > 0 /\ t.rows[k] = {}
     THEN {[id |-> k, date |-> t.date, amount |-> t.flat[k], deleted |-> FALSE]}
     ELSE t.rows[k]]]

(* _persist_supplier_entries: what is derived from the rows.               *)
Recomputed(t) ==
  LET flat == [k \in Kind |-> Total(t.rows[k])]
  IN  [t EXCEPT !.flat = flat,
                !.net = t.freight + t.halting + t.income - flat["advance"] - flat["diesel"]
                        - t.fuel - t.shortage - t.recoveries]

Trip(id) == CHOOSE t \in trips : t.id = id

-----------------------------------------------------------------------------
(* The requests.                                                           *)

Init ==
  /\ trips \in Sheets
  /\ payments \in Payments
  /\ expenses \in Expenses
  /\ opening \in [Supplier -> Opening]
  /\ pc = [r \in Request |-> "idle"]
  /\ hand = [r \in Request |-> Nothing]
  /\ given = [id \in {t.id : t \in trips} |-> Trip(id).flat]
  /\ marred = {}

Money == UNCHANGED <<payments, expenses, opening>>

(* _load_supplier_trip, and get_trip                                       *)
Load(r, what, id) ==
  /\ pc[r] = "idle"
  /\ hand' = [hand EXCEPT ![r] = [trip |-> Migrated(Trip(id)), was |-> Trip(id)]]
  /\ pc' = [pc EXCEPT ![r] = what]
  /\ marred' = IF \E q \in Request : pc[q] \notin {"idle", "done"} /\ hand[q].was.id = id
               THEN marred \cup {id} ELSE marred
  /\ UNCHANGED <<trips, given>> /\ Money

Write(r, t, gave) ==
  /\ trips' = {u \in trips : u.id # t.id} \cup {t}
  /\ given' = [given EXCEPT ![t.id] = gave]
  /\ pc' = [pc EXCEPT ![r] = "done"]
  /\ hand' = [hand EXCEPT ![r] = Nothing]
  /\ UNCHANGED marred /\ Money

(* get_trip: the rows that come of the migration are written by themselves. *)
View(r) ==
  /\ pc[r] = "view"
  /\ LET id == hand[r].was.id
     IN  Write(r, [Trip(id) EXCEPT !.rows = IF hand[r].trip # hand[r].was
                                            THEN hand[r].trip.rows ELSE @],
               given[id])

(* add_supplier_..., edit_supplier_... and delete_supplier_..._entry       *)
Change(r, k, rows, gift) ==
  LET t == hand[r].trip
  IN  Write(r, Recomputed([t EXCEPT !.rows[k] = rows]), [given[t.id] EXCEPT ![k] = @ + gift])

Add(r) ==
  /\ pc[r] = "entry"
  /\ \E k \in Kind, i \in Row, a \in Amount, d \in Day :
       LET rows == hand[r].trip.rows[k]
       IN  /\ \A t \in trips, l \in Kind : \A e \in t.rows[l] : e.id # i
           /\ Change(r, k, rows \cup {[id |-> i, date |-> d, amount |-> a, deleted |-> FALSE]}, a)

Edit(r) ==
  /\ pc[r] = "entry"
  /\ \E k \in Kind : \E e \in Active(hand[r].trip.rows[k]), a \in Amount, d \in Day :
       Change(r, k, (hand[r].trip.rows[k] \ {e}) \cup {[e EXCEPT !.amount = a, !.date = d]},
              a - e.amount)

Delete(r) ==
  /\ pc[r] = "entry"
  /\ \E k \in Kind : \E e \in Active(hand[r].trip.rows[k]) :
       Change(r, k, (hand[r].trip.rows[k] \ {e}) \cup {[e EXCEPT !.deleted = TRUE]}, -e.amount)

Next ==
  \E r \in Request :
    \/ \E t \in trips, what \in {"view", "entry"} : Load(r, what, t.id)
    \/ View(r) \/ Add(r) \/ Edit(r) \/ Delete(r)

Spec == Init /\ [][Next]_vars

-----------------------------------------------------------------------------
(* _build_ledger: a trip of the period counts with all its rows, whatever  *)
(* their days.                                                             *)

Within(day, start, end) == start <= day /\ day <= end

TripsOf(s) == {t \in trips : t.supplier = s /\ ~t.historical}

(* The rows of a kind, or else the flat amount.                            *)
Advanced(t, k) == IF Active(t.rows[k]) # {} THEN Total(t.rows[k]) ELSE t.flat[k]

(* The debits and the credits of a trip.                                   *)
Owed(t) == t.freight + t.halting + t.income
Had(t) == Advanced(t, "advance") + Advanced(t, "diesel") + t.fuel + t.shortage + t.recoveries

LivePayments(s) == {p \in payments : p.party = s /\ ~Gone(p) /\ ~p.historical}
Given(p) == IF p.out THEN p.amount ELSE -p.amount

Settlements(s) ==
  {e \in expenses : e.party = s /\ ~Gone(e)
                    /\ e.supplier_mode = "supplier_settlement_adjustment"}

LedgerClosing(s, start, end) ==
  opening[s]
  + SumOf({t \in TripsOf(s) : Within(t.date, start, end)}, LAMBDA t : Owed(t) - Had(t))
  - SumOf({p \in LivePayments(s) : Within(p.date, start, end)}, Given)
  - SumOf({e \in Settlements(s) : Within(e.date, start, end)}, LAMBDA e : e.amount)

(* The rows of a trip in the ledger, each with its day.                    *)
LedgerRows(t) ==
  {[type |-> "debit", id |-> <<t.id>>, date |-> t.date, amount |-> Owed(t)],
   [type |-> "credit", id |-> <<t.id>>, date |-> t.date,
    amount |-> t.fuel + t.shortage + t.recoveries]}
  \cup UNION {IF Active(t.rows[k]) # {}
              THEN {[type |-> "credit", id |-> <<t.id, k, e.id>>, amount |-> e.amount,
                     date |-> IF e.date # 0 THEN e.date ELSE t.date] : e \in Active(t.rows[k])}
              ELSE {[type |-> "credit", id |-> <<t.id, k>>, date |-> t.date,
                     amount |-> t.flat[k]]}
              : k \in Kind}

(* supplier_outstanding: the debits of the ledger by age; the opening, the *)
(* payments out and the advances are of no age.                            *)
Aged(s, today, oldest, youngest) ==
  SumOf({r \in UNION {LedgerRows(t) : t \in TripsOf(s)} :
         r.type = "debit" /\ Within(today - r.date, youngest, oldest)}, LAMBDA r : r.amount)
  + SumOf({p \in LivePayments(s) : ~p.out /\ Within(today - p.date, youngest, oldest)},
        LAMBDA p : p.amount)

(* suppliers_dashboard: the same without the settlements.                  *)
Dashboard(s) ==
  LET trip == TripsOf(s)
  IN  [freight |-> SumOf(trip, LAMBDA t : t.freight),
       advances |-> SumOf(trip, LAMBDA t : Advanced(t, "advance")),
       payments |-> SumOf({p \in LivePayments(s) : p.out}, LAMBDA p : p.amount),
       closing |-> opening[s] + SumOf(trip, Owed) - SumOf(trip, Had) - SumOf(LivePayments(s), Given)]

(* report_supplier_pl                                                      *)
ProfitLoss(s, start, end) ==
  LET trip == {t \in TripsOf(s) : t.date # 0 /\ Within(t.date, start, end)}
  IN  [payable |-> SumOf(trip, LAMBDA t : t.freight - t.flat["advance"] - t.recoveries),
       profit |-> SumOf(trip, LAMBDA t : t.billed - (t.freight - t.flat["advance"]))]

(* _supplier_statement_data: what a trip comes to, and the flat amounts.   *)
Statement(s, start, end) ==
  LET trip == {t \in TripsOf(s) : t.date # 0 /\ Within(t.date, start, end)}
  IN  [debit |-> SumOf(trip, LAMBDA t : t.freight + t.income),
       credit |-> SumOf(trip, LAMBDA t : t.flat["advance"] + t.flat["diesel"] + t.fuel
                                       + t.shortage + t.recoveries),
       net |-> SumOf(trip, LAMBDA t : t.net),
       profit |-> SumOf(trip, LAMBDA t : t.billed - t.net)]

(* The payments of the monthly statement: reversed and historical ones     *)
(* count, and what came in counts only when it says so.                    *)
StatementPayments(s, start, end) ==
  SumOf({p \in payments : p.party = s /\ ~p.is_deleted /\ p.date # 0
                        /\ Within(p.date, start, end)}, Given)

(* _supplier_ledger_closing                                                *)
ClosingUpTo(s, day) ==
  opening[s] + Statement(s, 1, day).debit - Statement(s, 1, day).credit
  - StatementPayments(s, 1, day)

Carried(s, start) == ClosingUpTo(s, start - 1)

(* _supplier_deep_statement_blocks, with the balance carried forward.      *)
DeepClosing(s, start, end) ==
  Carried(s, start) + Statement(s, start, end).debit - Statement(s, start, end).credit
  - StatementPayments(s, start, end)

-----------------------------------------------------------------------------
(* Properties.                                                             *)

TypeOK ==
  /\ \A t \in trips : t.flat \in [Kind -> Int] /\ t.net \in Int
  /\ pc \in [Request -> {"idle", "view", "entry", "done"}]
  /\ marred \subseteq {t.id : t \in trips}

(* Whatever was given on a trip and not taken back is in the ledger, in    *)
(* the flat figure of the statement and in what the trip comes to: the     *)
(* migration of an old trip neither loses nor doubles an amount.           *)
GivenIsKept ==
  \A t \in trips : t.id \notin marred =>
    \A k \in Kind : Advanced(t, k) = given[t.id][k] /\ t.flat[k] = given[t.id][k]

(* The rows of a trip in the ledger sum to what the dashboard counts, and  *)
(* a trip owes what it comes to; the dashboard is the ledger without the   *)
(* settlements.                                                            *)
LedgerAndDashboard ==
  \A s \in Supplier :
    /\ Dashboard(s).closing - SumOf(Settlements(s), LAMBDA e : e.amount) = LedgerClosing(s, 0, 99)
    /\ \A t \in TripsOf(s) :
         /\ SumOf({r \in LedgerRows(t) : r.type = "credit"}, LAMBDA r : r.amount) = Had(t)
         /\ t.id \notin marred => t.net = Owed(t) - Had(t)

(* The monthly statements of a supplier meet: one begins with the balance  *)
(* that the one before ends with.                                          *)
StatementsMeet ==
  \A s \in Supplier, d \in Day, e \in Day :
    d <= e => DeepClosing(s, d, e) = Carried(s, e + 1)

(* The statement is the ledger, where there is no halting, no settlement   *)
(* and no payment that only one of them counts.                            *)
StatementIsLedger ==
  \A s \in Supplier :
    (/\ \A t \in TripsOf(s) : t.halting = 0 /\ t.id \notin marred
     /\ \A p \in payments : p.party = s => Gone(p) = p.is_deleted /\ ~p.historical
     /\ Settlements(s) = {})
    => ClosingUpTo(s, 99) = LedgerClosing(s, 0, 99)

SupplierBooksAgree == GivenIsKept /\ LedgerAndDashboard /\ StatementsMeet /\ StatementIsLedger
=============================================================================
