------------------------------- MODULE Policies -------------------------------
(***************************************************************************)
(* The policy of a customer and the trips that have frozen it: the change  *)
(* of a policy and its undoing (routers/policy_changes.py), the creation   *)
(* and the update of a trip as far as the figures go (routers/trips.py),   *)
(* and the rule by which a driver answers for a shortage                   *)
(* (routers/driver_shortage_policies.py).                                  *)
(*                                                                         *)
(* A trip is computed from the snapshot of the policy that it carries.     *)
(* Applying a policy rewrites the customer, then the chosen trips one by   *)
(* one from copies it has read, and writes the event last; reverting reads *)
(* the event, looks whether one of its trips has been invoiced, and writes *)
(* everything back.  The product, the supplier and their limits do not     *)
(* change; a request does one operation.                                   *)
(***************************************************************************)
EXTENDS TripViews

CONSTANTS
  Request,   \* requests, and ids of the events they write
  Trip,      \* ids of trips
  Sheet,     \* what a client may enter for a trip, and its figures when blank
  Policy,    \* policies of the customer
  Limit,     \* limits of the driver's rule, in kilograms
  Day,       \* days a policy may be effective from
  Charge,    \* what a recovery may be overridden with
  Crowd,     \* bound: requests at work at once
  Nothing    \* no document

VARIABLES
  customer,  \* the policy in the customer's document
  rule,      \* the driver's rule: its limit, its version, whether it is active
  trips,     \* db.trips
  events,    \* db.policy_change_events
  pc,        \* where each request is
  hand,      \* what it has read and been asked for
  was,       \* history: customer and trips before an event, if nothing but its
             \* undoing has happened since
  marred     \* history: what has happened besides one request after the other

vars == <<customer, rule, trips, events, pc, hand, was, marred>>
data == <<customer, rule, trips, events, was, marred>>

-----------------------------------------------------------------------------
(* Data.                                                                   *)

Days == 0 .. 99  \* bound: the days that are told apart

Method == {"per_ton_loading", "per_ton_unloading", "per_ton_higher_of", "fixed"}
Deduct == {"net_shortage", "full_after_limit"}
PolicyDoc == [method : Method, deduct : Deduct, limit : Int, limit_type : {"pct", "kg"}]
SnapDoc ==
  [method : Method, deduct : Deduct, limit : Int, limit_type : {"none", "pct", "kg"},
   product : Int, supplier_limit : Int]

RecoveryDoc ==
  [limit : Limit \cup {Nothing}, version : Nat, system : Int, final : Int,
   override : Charge \cup {Nothing}]

(* Rows of a trip: what the customer has paid on the way, what the         *)
(* supplier was advanced.                                                  *)
Rows(doc) == {rows \in SUBSET doc : IsFiniteSet(rows)}
ReceiptDoc == [kind : STRING, amount : Int]
AdvanceDoc == [amount : Int]

TripDoc ==
  [date : Days, historical : BOOLEAN, invoiced : BOOLEAN, vehicle_type : STRING,
   tons : Int, loaded_qty : Int, unloaded_qty : Int, rate : Int, snap : SnapDoc,
   freight_mode : STRING, freight_override : Int, fixed_amount : Int,
   freight_amount : Int, freight_qty : Int, kms : Int, km_rate : Int,
   product_rate : Int, shortage_override : BOOLEAN, shortage_amount : Int,
   shortage_qty : Int, excess_override : BOOLEAN, excess_amount : Int, excess_qty : Int,
   loading_date : Int, unloading_date : Int, total_halting_days : Int, grace_days : Int,
   halting_rate : Int, halting_override : BOOLEAN, halting_amount : Int,
   lines : Int, customer_diesel : Int, cash_advance : Int, other_income : Int,
   receipts : Rows(ReceiptDoc), diesel_received : Int,
   supplier_mode : STRING, supplier_rate : Int, supplier_fixed : Int,
   supplier_freight : Int, supplier_override : BOOLEAN, supplier_shortage : Int,
   supplier_halting : Int, supplier_advance : Int, advances : Rows(AdvanceDoc),
   supplier_diesel : Int, diesels : Rows(AdvanceDoc), supplier_recoveries : Int,
   supplier_income : Int, supplier_net : Int,
   expense : Int, profit : Int, settlement : Int, recovery : RecoveryDoc \cup {Nothing}]

EventDoc ==
  [old : Policy, deltas : SUBSET [trip : Trip, old : TripDoc], status : {"applied", "reverted"}]

Live(t) == trips[t] # Nothing
Invoiced(t) == Live(t) /\ trips[t].invoiced

(* _snapshot_fields_from_masters: the limit counts only if there is one.   *)
Snapshot(policy, doc) ==
  [doc.snap EXCEPT
     !.method = policy.method, !.deduct = policy.deduct,
     !.limit = policy.limit,
     !.limit_type = IF policy.limit > 0 THEN policy.limit_type ELSE "none"]

Restamped(doc, policy) == Compute([doc EXCEPT !.snap = Snapshot(policy, doc)])

(* The fields that an event keeps of a trip as it was.                     *)
Kept == {"snap", "freight_amount", "shortage_qty", "shortage_amount", "excess_amount",
         "settlement"}

(* The figures that create_trip computes again with the snapshot.  Profit, *)
(* expense and settlement stay as they were computed without it.           *)
Recomputed == {"freight_amount", "freight_qty", "shortage_qty", "excess_qty",
               "shortage_amount", "excess_amount", "supplier_freight", "supplier_net",
               "supplier_shortage"}

(* The fields of one record put into another.                              *)
With(doc, fields, from) ==
  [f \in DOMAIN doc |-> IF f \in fields THEN from[f] ELSE doc[f]]

(* build_trip_driver_recovery_snapshot                                     *)
RecoveryOf(doc) ==
  IF ~rule.active
  THEN [limit |-> Nothing, version |-> 0, system |-> 0, final |-> 0, override |-> Nothing]
  ELSE LET due == Recovery(doc.shortage_qty, rule.limit, doc.product_rate)
       IN  [limit |-> rule.limit, version |-> rule.version, system |-> due, final |-> due,
            override |-> Nothing]

(* refresh_trip_driver_recovery_from_snapshot: the limit stays, and so     *)
(* does what somebody has decided instead.                                 *)
Refreshed(rec, doc) ==
  IF rec.limit = Nothing THEN rec
  ELSE LET due == Recovery(doc.shortage_qty, rec.limit, doc.product_rate)
       IN  [rec EXCEPT !.system = due,
                       !.final = IF rec.override = Nothing THEN due ELSE rec.override]

Created(s, policy) ==
  LET blank == Compute(s)
  IN  With([blank EXCEPT !.snap = Snapshot(policy, s)], Recomputed, Restamped(s, policy))

(* Whom a policy may be applied to: what is invoiced, historical or        *)
(* earlier is left alone.                                                  *)
Eligible(t, from) ==
  Live(t) /\ ~trips[t].invoiced /\ ~trips[t].historical /\ trips[t].date >= from

(* preview_policy_change: the trips that would change, and what each would *)
(* come to.                                                                *)
Preview(policy, from) ==
  {[trip |-> t, old |-> Compute(trips[t]), new |-> Restamped(trips[t], policy)]
   : t \in {u \in Trip : Eligible(u, from)}}

Blank == [trip |-> Nothing, doc |-> Nothing, policy |-> Nothing, old |-> Nothing,
          from |-> 0, todo |-> {}, event |-> Nothing, deltas |-> {}]

Busy == {r \in Request : pc[r] \notin {"new", "done"}}

Init ==
  /\ customer \in Policy
  /\ \E n \in Limit : rule = [limit |-> n, version |-> 1, active |-> TRUE]
  /\ \E t \in Trip, s \in Sheet :
       LET doc == Created(s, customer)
       IN  trips = [u \in Trip |-> IF u = t THEN [doc EXCEPT !.recovery = RecoveryOf(doc)]
                                   ELSE Nothing]
  /\ events = [r \in Request |-> Nothing]
  /\ pc = [r \in Request |-> "new"]
  /\ hand = [r \in Request |-> Blank]
  /\ was = [r \in Request |-> Nothing]
  /\ marred = {}

-----------------------------------------------------------------------------
(* Requests.                                                               *)

(* An update of a trip, or its recovery, writes what it has read before.   *)
Marked(at) ==
  IF Busy = {} THEN marred
  ELSE marred \cup {"overlap"}
       \cup IF at = "update" \/ \E q \in Busy : pc[q] = "update" THEN {"update met"} ELSE {}

(* A request that begins ends what was known of every event but its own    *)
(* and the one it is to undo.                                              *)
Begin(r, at, what) ==
  /\ pc[r] = "new" /\ Cardinality(Busy) < Crowd
  /\ pc' = [pc EXCEPT ![r] = at]
  /\ hand' = [hand EXCEPT ![r] = what]
  /\ was' = [e \in Request |->
               CASE at = "apply customer" /\ e = r ->
                      [customer |-> customer, trips |-> trips,
                       shown |-> Preview(what.policy, what.from)]
                 [] what.event = e                 -> was[e]
                 [] OTHER                          -> Nothing]
  /\ marred' = Marked(at)
  /\ UNCHANGED <<customer, rule, trips, events>>

Goto(r, from, to, what) ==
  /\ pc[r] = from
  /\ pc' = [pc EXCEPT ![r] = to]
  /\ hand' = [hand EXCEPT ![r] = IF to = "done" THEN Blank ELSE what]

Read(r, from, to, what) == Goto(r, from, to, what) /\ UNCHANGED data

(* An operation that is over in one step.                                  *)
AtOnce(r) ==
  /\ pc[r] = "new" /\ Cardinality(Busy) < Crowd
  /\ pc' = [pc EXCEPT ![r] = "done"]
  /\ was' = [e \in Request |-> Nothing]
  /\ marred' = Marked("at once")
  /\ UNCHANGED hand

Die(r) ==
  /\ r \in Busy
  /\ pc' = [pc EXCEPT ![r] = "done"]
  /\ hand' = [hand EXCEPT ![r] = Blank]
  /\ marred' = marred \cup {"death"}
  /\ UNCHANGED <<customer, rule, trips, events, was>>

PutTrip(t, doc) ==
  /\ trips' = [trips EXCEPT ![t] = doc]
  /\ UNCHANGED <<customer, rule, events, was>>

-----------------------------------------------------------------------------
(* create_trip and update_trip.                                            *)

CreateRead(r, t, s) ==
  /\ ~Live(t) /\ \A q \in Busy : hand[q].trip # t
  /\ Begin(r, "create", [Blank EXCEPT !.trip = t, !.doc = Created(s, customer)])

CreateInsert(r) ==
  LET doc == hand[r].doc
  IN  /\ pc[r] = "create"
      /\ Goto(r, "create", "done", Blank)
      /\ PutTrip(hand[r].trip, [doc EXCEPT !.recovery = RecoveryOf(doc)])
      /\ UNCHANGED marred

(* The client sends the trip as it has it, with what it enters anew.       *)
Entered(doc, s) ==
  [doc EXCEPT !.tons = s.tons, !.unloaded_qty = s.unloaded_qty, !.rate = s.rate]

UpdateFind(r, t, s) ==
  /\ Live(t)
  /\ Begin(r, "update", [Blank EXCEPT !.trip = t, !.old = trips[t],
                           !.doc = Compute(Entered(trips[t], s))])

(* The event that would put figures back which are older than this update. *)
Applied(t) == \E e \in Request : /\ events[e] # Nothing /\ events[e].status = "applied"
                                 /\ \E d \in events[e].deltas : d.trip = t

UpdateWrite(r) ==
  LET old == hand[r].old
      doc == hand[r].doc
      t == hand[r].trip
  IN  /\ pc[r] = "update"
      /\ Goto(r, "update", "done", Blank)
      /\ PutTrip(t, [doc EXCEPT !.invoiced = old.invoiced,
                                !.recovery = Refreshed(old.recovery, doc)])
      /\ marred' = IF Applied(t) THEN marred \cup {"updated since"} ELSE marred

(* override_driver_recovery; an amount of nothing clears it.               *)
OverrideFind(r, t, amount) ==
  /\ Live(t)
  /\ Begin(r, "override", [Blank EXCEPT !.trip = t, !.doc = trips[t].recovery, !.old = amount])

OverrideWrite(r) ==
  LET t == hand[r].trip
      rec == hand[r].doc
      amount == hand[r].old
  IN  /\ pc[r] = "override"
      /\ Goto(r, "override", "done", Blank)
      /\ PutTrip(t, [trips[t] EXCEPT !.recovery =
                       [rec EXCEPT !.override = amount,
                                   !.final = IF amount = Nothing THEN rec.system ELSE amount]])
      /\ UNCHANGED marred

(* An invoice takes the trip, or lets it go.                               *)
Invoice(r, t) ==
  /\ Live(t)
  /\ AtOnce(r)
  /\ trips' = [trips EXCEPT ![t].invoiced = ~@]
  /\ UNCHANGED <<customer, rule, events>>

-----------------------------------------------------------------------------
(* The masters: PUT /customers, and the rule of the drivers, whose version *)
(* two edits that overlap raise once; nobody reads it but for display.     *)

EditCustomer(r, policy) ==
  /\ policy # customer
  /\ AtOnce(r)
  /\ customer' = policy
  /\ UNCHANGED <<rule, trips, events>>

RuleEdit(r, limit, active) ==
  /\ AtOnce(r)
  /\ rule' = [limit |-> limit, version |-> rule.version + 1, active |-> active]
  /\ UNCHANGED <<customer, trips, events>>

(* Switched off, never removed.                                            *)
RuleDelete(r) ==
  /\ rule.active
  /\ AtOnce(r)
  /\ rule' = [rule EXCEPT !.active = FALSE]
  /\ UNCHANGED <<customer, trips, events>>

-----------------------------------------------------------------------------
(* apply_policy_change                                                     *)

ApplyFind(r, policy, from, chosen) ==
  Begin(r, "apply customer", [Blank EXCEPT !.policy = policy, !.old = customer, !.from = from,
                                !.todo = chosen])

ApplyCustomer(r) ==
  /\ pc[r] = "apply customer"
  /\ Goto(r, "apply customer", "apply read", hand[r])
  /\ customer' = hand[r].policy
  /\ UNCHANGED <<rule, trips, events, was, marred>>

(* The customer is read back and the chosen trips are fetched, in one copy. *)
ApplyRead(r) ==
  /\ pc[r] = "apply read"
  /\ Goto(r, "apply read", "apply trips",
          [hand[r] EXCEPT !.policy = customer, !.doc = trips,
                          !.todo = {t \in @ : Eligible(t, hand[r].from)}])
  /\ UNCHANGED data

(* The figures that are written: the snapshot and the dry run.             *)
Rewritten == Recomputed \cup {"snap", "profit", "settlement", "expense"}

(* A mutant: what the event keeps is what has just been written.           *)
ApplyTripAfter(r) ==
  /\ pc[r] = "apply trips"
  /\ \E t \in hand[r].todo :
       LET new == With(trips[t], Rewritten, Restamped(hand[r].doc[t], hand[r].policy))
       IN  /\ Goto(r, "apply trips", "apply trips",
                   [hand[r] EXCEPT !.todo = @ \ {t},
                                   !.deltas = @ \cup {[trip |-> t, old |-> new]}])
           /\ PutTrip(t, new)
  /\ UNCHANGED marred

ApplyTrip(r) ==
  /\ pc[r] = "apply trips"
  /\ \E t \in hand[r].todo :
       /\ Goto(r, "apply trips", "apply trips",
               [hand[r] EXCEPT !.todo = @ \ {t},
                               !.deltas = @ \cup {[trip |-> t, old |-> hand[r].doc[t]]}])
       /\ PutTrip(t, With(trips[t], Rewritten, Restamped(hand[r].doc[t], hand[r].policy)))
  /\ UNCHANGED marred

ApplyEvent(r) ==
  /\ pc[r] = "apply trips" /\ hand[r].todo = {}
  /\ Goto(r, "apply trips", "done", Blank)
  /\ events' = [events EXCEPT ![r] = [old |-> hand[r].old, deltas |-> hand[r].deltas,
                                      status |-> "applied"]]
  /\ UNCHANGED <<customer, rule, trips, was, marred>>

-----------------------------------------------------------------------------
(* revert_policy_change                                                    *)

RevertFind(r, e) ==
  /\ events[e] # Nothing /\ events[e].status = "applied"
  /\ Begin(r, "revert gate", [Blank EXCEPT !.event = e])

TripsOf(e) == {d.trip : d \in events[e].deltas}

RevertGate(r) ==
  LET e == hand[r].event
  IN  /\ pc[r] = "revert gate"
      /\ IF \E t \in TripsOf(e) : Invoiced(t)
         THEN Read(r, "revert gate", "done", Blank)
         ELSE Read(r, "revert gate", "revert customer", hand[r])

RevertCustomer(r) ==
  LET e == hand[r].event
  IN  /\ pc[r] = "revert customer"
      /\ Goto(r, "revert customer", "revert trips",
              [hand[r] EXCEPT !.deltas = events[e].deltas])
      /\ customer' = events[e].old
      /\ UNCHANGED <<rule, trips, events, was, marred>>

RevertTrip(r) ==
  /\ pc[r] = "revert trips"
  /\ \E d \in hand[r].deltas :
       /\ Goto(r, "revert trips", "revert trips", [hand[r] EXCEPT !.deltas = @ \ {d}])
       /\ PutTrip(d.trip, With(trips[d.trip], Kept, d.old))
  /\ UNCHANGED marred

RevertFlip(r) ==
  /\ pc[r] = "revert trips" /\ hand[r].deltas = {}
  /\ Goto(r, "revert trips", "done", Blank)
  /\ events' = [events EXCEPT ![hand[r].event].status = "reverted"]
  /\ UNCHANGED <<customer, rule, trips, was, marred>>

-----------------------------------------------------------------------------
Start(r) ==
  \/ \E t \in Trip, s \in Sheet : CreateRead(r, t, s) \/ UpdateFind(r, t, s)
  \/ \E t \in Trip, a \in Charge \cup {Nothing} : OverrideFind(r, t, a)
  \/ \E t \in Trip : Invoice(r, t)
  \/ \E p \in Policy : EditCustomer(r, p)
  \/ \E n \in Limit, on \in BOOLEAN : RuleEdit(r, n, on)
  \/ RuleDelete(r)
  \/ \E p \in Policy, d \in Day, S \in SUBSET Trip : ApplyFind(r, p, d, S)
  \/ \E e \in Request : RevertFind(r, e)

Step(r) ==
  \/ CreateInsert(r) \/ UpdateWrite(r) \/ OverrideWrite(r)
  \/ ApplyCustomer(r) \/ ApplyRead(r) \/ ApplyTrip(r) \/ ApplyEvent(r)
  \/ RevertGate(r) \/ RevertCustomer(r) \/ RevertTrip(r) \/ RevertFlip(r)

Next == \E r \in Request : Start(r) \/ Step(r) \/ Die(r)

Spec == Init /\ [][Next]_vars

-----------------------------------------------------------------------------
(* "Each applied trip's snapshot + recomputed financial fields are         *)
(* restored": when a change is undone and nothing else has happened since, *)
(* the customer has its policy back and every trip what the event keeps.   *)
UndoRestores ==
  \A e \in Request :
    (/\ events[e] # Nothing /\ events[e].status = "reverted"
     /\ was[e] # Nothing /\ marred \cap {"overlap"} = {})
    => /\ customer = was[e].customer
       /\ \A t \in Trip : Live(t) => \A f \in Kept : trips[t][f] = was[e].trips[t][f]

(* What the preview has shown is what an apply leaves behind, in the       *)
(* chosen trips that it has shown and in no others.                        *)
AppliedAsShown ==
  \A e \in Request :
    (/\ events[e] # Nothing /\ events[e].status = "applied" /\ Busy = {}
     /\ was[e] # Nothing /\ marred = {})
    => \A t \in Trip : Live(t) =>
         LET shown == {p \in was[e].shown : p.trip = t}
         IN  IF t \in TripsOf(e)
             THEN \E p \in shown : \A f \in Rewritten : trips[t][f] = p.new[f]
             ELSE trips[t] = was[e].trips[t]

(* The figures that every path writes are those that the snapshot of the   *)
(* trip gives, computed again, whatever dies half way and in whatever      *)
(* order changes are undone, and also when requests overlap, unless one of *)
(* them is an update, or an update comes between a change and its undoing. *)
Billing == {"freight_amount", "shortage_qty", "shortage_amount", "excess_amount"}
FiguresFollow ==
  marred \cap {"update met", "updated since"} = {} =>
    \A t \in Trip : Live(t) =>
      \A f \in Billing : trips[t][f] = Compute(trips[t])[f]

(* What a driver answers for: the shortage beyond the limit of the         *)
(* snapshot, unless something has been decided instead.                    *)
Answers(rec, doc) ==
  IF rec.override # Nothing THEN rec.override
  ELSE IF rec.limit = Nothing THEN 0
  ELSE Recovery(doc.shortage_qty, rec.limit, doc.product_rate)

(* The screens that repeat the arithmetic agree with it and each other:    *)
(* the verification of halting finds nothing to flag but days of grace     *)
(* below zero; the register, a "READ-ONLY mirror" of the allowance, shows  *)
(* a shortage beyond the allowance where the customer deducts one and only *)
(* there, unless what was lost is worth nothing or the load is below zero; *)
(* its rows by the status of the invoice and its totals by period make up  *)
(* the whole; and it has the trips and the freight of the list of drivers  *)
(* and of a driver's history, whose recovery is what the overrides and     *)
(* limits say.                                                             *)
Statuses == {"un_invoiced", "unpaid", "partially_paid", "paid"}
StatusOf(t) == InvoiceStatus(t.invoiced, t.freight_amount, 0)
Register(ts, start, end, wanted) == LrRegister(ts, start, end, wanted, [t \in ts |-> StatusOf(t)])

ViewsAgree ==
  marred \cap {"update met", "updated since"} = {} =>
    /\ \A t \in {u \in Trip : Live(u)} :
         (/\ HasLimit(trips[t]) /\ ~trips[t].shortage_override
          /\ trips[t].tons >= 0 /\ Worth(trips[t].product_rate, 1) > 0) =>
           (RegisterRow(trips[t]).net > 0 <=> trips[t].shortage_amount > 0)
    /\ LET ts == {trips[t] : t \in {u \in Trip : Live(u)}}
           all == Register(ts, 0, 99, "all")
           history == DriverHistory(ts, 0, 99)
       IN  /\ \A t \in HaltingRows(ts, 0, 99, TRUE, ts) : t.grace_days < 0
           /\ all.rows = UNION {Register(ts, 0, 99, s).rows : s \in Statuses}
           /\ all.freight = Register(ts, 0, 1, "all").freight + Register(ts, 2, 99, "all").freight
           /\ all.freight = DriverStats(ts).freight
           /\ {all.count, history.total} = {DriverStats(ts).trips}
           /\ "overlap" \notin marred =>
                history.recovery = SumFunction([t \in Shown(ts) |-> Answers(t.recovery, t)])

(* "Invoiced trips are hard-filtered out", and a revert "is REFUSED": the  *)
(* figures of an invoiced trip change by an update of the trip only, as    *)
(* long as requests do not overlap.                                        *)
InvoicedKept ==
  \A t \in Trip :
    Invoiced(t) /\ "overlap" \notin marred' /\ (\A r \in Request : pc[r] # "update")
      => \A f \in Rewritten : trips'[t][f] = trips[t][f]
InvoicedStand == [][InvoicedKept]_vars

(* "Future policy edits will NEVER change this snapshot", "Overrides are   *)
(* preserved": a driver answers for the shortage beyond the limit that was *)
(* in force when the trip was created, or for what has been decided        *)
(* instead, as long as requests do not overlap and no update comes between *)
(* a change of policy and its undoing.                                     *)
RecoveryKept ==
  \A t \in Trip :
    Live(t) /\ marred' \cap {"overlap", "updated since"} = {} =>
      LET old == trips[t].recovery
          new == trips'[t].recovery
      IN  /\ new.limit = old.limit /\ new.version = old.version
          /\ (\A r \in Request : pc[r] # "override") => new.override = old.override
          /\ new.final = Answers(new, trips'[t])
RecoveryFollows == [][RecoveryKept]_vars

(* A change of policy does what was shown, and its undoing takes it back.  *)
ChangesAgree == UndoRestores /\ AppliedAsShown

(* The figures of the trips, and the screens that repeat them.             *)
FiguresAgree == FiguresFollow /\ ViewsAgree
=============================================================================
