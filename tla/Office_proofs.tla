----------------------------- MODULE Office_proofs -----------------------------
(***************************************************************************)
(* Theorems about the office, for every set of requests, documents,        *)
(* amounts and dates.                                                      *)
(***************************************************************************)
EXTENDS Office, OfficeDesks_proofs


-----------------------------------------------------------------------------
(* The policies, and the trips that have frozen one.                       *)

PApplying == {"apply customer", "apply read", "apply trips"}
PReverting == {"revert gate", "revert customer", "revert trips"}
PPlaces == {"new", "create", "update", "override", "done"} \cup PApplying \cup PReverting
PBusy(r) == pc[r] \notin {"new", "done"}
PLive(t) == v3[t] # nothing
PDelta == [trip : Couple, old : C!TripDoc]
PEvent == C!EventDoc
PHand == {"trip", "doc", "policy", "old", "from", "todo", "event", "deltas"}

(* What a request has in hand where it is.                                 *)
PHeld(r) ==
  /\ DOMAIN hand[r] = PHand
  /\ pc[r] \in {"create", "update", "override"} => hand[r].trip \in Couple
  /\ pc[r] = "create" => ~PLive(hand[r].trip) /\ hand[r].doc \in C!TripDoc
  /\ pc[r] \in {"update", "override"} => PLive(hand[r].trip)
  /\ pc[r] = "update" =>
       hand[r].doc \in C!TripDoc /\ hand[r].old \in C!TripDoc
         /\ hand[r].old.recovery \in C!RecoveryDoc
  /\ pc[r] = "override" =>
       hand[r].doc \in C!RecoveryDoc /\ hand[r].old \in PolicyCharge \cup {nothing}
  /\ pc[r] \in PApplying =>
       /\ hand[r].policy \in PolicyChoice /\ hand[r].old \in PolicyChoice
       /\ hand[r].todo \subseteq Couple
  /\ pc[r] \in {"apply customer", "apply read"} => hand[r].deltas = {}
  /\ pc[r] = "apply trips" =>
       \A t \in hand[r].todo : PLive(t) /\ hand[r].doc[t] \in C!TripDoc
  /\ pc[r] \in PReverting => hand[r].event \in Three /\ v4[hand[r].event] # nothing
  /\ pc[r] \in {"apply trips", "revert trips"} =>
       hand[r].deltas \subseteq PDelta /\ \A d \in hand[r].deltas : PLive(d.trip)

PTyped ==
  /\ v1 \in PolicyChoice
  /\ v2 \in [limit : PolicyLimit, version : Nat, active : BOOLEAN]
  /\ v3 \in [Couple -> C!TripDoc \cup {nothing}]
  /\ \A t \in Couple : PLive(t) => v3[t].recovery \in C!RecoveryDoc
  /\ DOMAIN v4 = Three
  /\ \A e \in Three : v4[e] # nothing =>
       v4[e] \in PEvent /\ pc[e] = "done" /\ \A d \in v4[e].deltas : PLive(d.trip)
  /\ pc \in [Three -> PPlaces] /\ DOMAIN hand = Three /\ \A r \in Three : PHeld(r)
  /\ DOMAIN v5 = Three

(* What overlaps is marked, and no trip is created twice.                  *)
PMarked ==
  /\ "update met" \in marred => "overlap" \in marred
  /\ \A q, r \in Three : q # r /\ PBusy(q) /\ PBusy(r) =>
       /\ "overlap" \in marred
       /\ pc[r] = "update" => "update met" \in marred
       /\ pc[q] = "create" /\ pc[r] = "create" => hand[q].trip # hand[r].trip

(* A trip has the figures that it would be given again.                    *)
PBilled(doc) ==
  /\ doc.freight_amount = C!Freight(doc).amount
  /\ doc.shortage_qty = C!Shortage(doc) /\ doc.shortage_amount = C!ShortageAmount(doc)
  /\ doc.excess_amount = C!ExcessAmount(doc)
PHalted(doc) ==
  doc.total_halting_days = C!HaltingDays(doc) /\ doc.halting_amount = C!Halting(doc)
PRight(doc) == PBilled(doc) /\ PHalted(doc)

(* Two trips of which so much has been entered alike.                      *)
PEntered == {"tons", "unloaded_qty", "freight_override", "fixed_amount", "freight_mode",
             "rate", "kms", "km_rate", "shortage_override", "excess_override", "product_rate"}
PSame(x, y) == C!Loaded(x) = C!Loaded(y) /\ \A f \in PEntered : x[f] = y[f]

(* What an event keeps could be put back.                                  *)
PFits(d) == PRight(d.old) /\ PSame(d.old, v3[d.trip])
POpen(e) ==
  /\ v4[e] # nothing
  /\ \/ v4[e].status = "applied"
     \/ \E r \in Three : pc[r] \in {"revert gate", "revert customer"} /\ hand[r].event = e

PDrawn(r) ==
  /\ pc[r] \in {"create", "update"} => PRight(hand[r].doc)
  /\ pc[r] = "apply trips" =>
       \A t \in hand[r].todo : PRight(hand[r].doc[t]) /\ PSame(hand[r].doc[t], v3[t])
  /\ pc[r] \in {"apply trips", "revert trips"} => \A d \in hand[r].deltas : PFits(d)

PGood == marred \cap {"update met", "updated since"} = {}
PFigures ==
  PGood =>
    /\ \A t \in Couple : PLive(t) => PRight(v3[t])
    /\ \A r \in Three : PDrawn(r)
    /\ \A e \in Three : POpen(e) => \A d \in v4[e].deltas : PFits(d)

(* A request that meets no other finds everything as it was.               *)
PFound(r) ==
  /\ pc[r] = "update" => hand[r].old = v3[hand[r].trip]
  /\ pc[r] = "override" => hand[r].doc = v3[hand[r].trip].recovery
  /\ pc[r] = "apply trips" => \A t \in hand[r].todo : hand[r].doc[t] = v3[t] /\ ~v3[t].invoiced
  /\ pc[r] = "revert customer" => \A d \in v4[hand[r].event].deltas : ~v3[d.trip].invoiced
  /\ pc[r] = "revert trips" => \A d \in hand[r].deltas : ~v3[d.trip].invoiced
PLone == "overlap" \notin marred => \A r \in Three : PFound(r)

(* The recovery from the driver is that of the limit it was given.         *)
PAnswers(rec, doc) ==
  /\ rec.system = IF rec.limit = nothing THEN 0
                  ELSE C!Recovery(doc.shortage_qty, rec.limit, doc.product_rate)
  /\ rec.final = IF rec.override = nothing THEN rec.system ELSE rec.override
PClean == marred \cap {"overlap", "updated since"} = {}
PRecovered ==
  PClean =>
    \A t \in Couple : PLive(t) => PAnswers(v3[t].recovery, v3[t])

(* What has been shown of a trip is what it has become.                    *)
PShows(was, t) ==
  \E x \in was.shown : x.trip = t /\ \A f \in C!Rewritten : v3[t][f] = x.new[f]
PReady(was, t, policy) ==
  \E x \in was.shown : x.trip = t /\ x.new = C!Restamped(was.trips[t], policy)
PRestored(was, t) == \A f \in C!Kept : v3[t][f] = was.trips[t][f]
PTripsOf(deltas) == {d.trip : d \in deltas}

(* As long as nothing else happens, it is known what was before an event:  *)
(* who may be at work, what applying it has done so far, and what undoing  *)
(* it has.                                                                 *)
PWho(e) ==
  \A r \in Three : PBusy(r) =>
    \/ r = e /\ pc[r] \in PApplying
    \/ pc[r] \in PReverting /\ hand[r].event = e
PApplied(e, was) ==
  /\ pc[e] \in {"apply customer", "apply read"} =>
       /\ v3 = was.trips
       /\ \A t \in Couple : C!Eligible(t, hand[e].from) => PReady(was, t, hand[e].policy)
  /\ pc[e] = "apply customer" => v1 = was.customer
  /\ pc[e] = "apply read" => v1 = hand[e].policy
  /\ pc[e] \in PApplying => hand[e].old = was.customer
  /\ pc[e] = "apply trips" =>
       /\ hand[e].doc = was.trips
       /\ \A t \in hand[e].todo : PReady(was, t, hand[e].policy) /\ t \notin PTripsOf(hand[e].deltas)
       /\ \A d \in hand[e].deltas : d.old = was.trips[d.trip] /\ PShows(was, d.trip)
       /\ \A t \in Couple \ PTripsOf(hand[e].deltas) : v3[t] = was.trips[t]
PUndone(e, was) ==
  v4[e] # nothing =>
    /\ v4[e].old = was.customer
    /\ \A d \in v4[e].deltas : d.old = was.trips[d.trip]
    /\ \A t \in Couple \ PTripsOf(v4[e].deltas) : v3[t] = was.trips[t]
    /\ v4[e].status = "reverted" =>
         v1 = was.customer /\ \A t \in Couple : PLive(t) => PRestored(was, t)
    /\ \A r \in Three : pc[r] \in PReverting => v4[e].status = "applied"
    /\ \A r \in Three : pc[r] = "revert trips" =>
         /\ v1 = was.customer /\ hand[r].deltas \subseteq v4[e].deltas
         /\ \A d \in v4[e].deltas \ hand[r].deltas : PRestored(was, d.trip)
    /\ v4[e].status = "applied" /\ marred = {} /\ (\A r \in Three : pc[r] # "revert trips") =>
         \A d \in v4[e].deltas : PShows(was, d.trip)
PWas(e, was) == PWho(e) /\ PApplied(e, was) /\ PUndone(e, was)
PRemembered ==
  "overlap" \notin marred => \A e \in Three : v5[e] # nothing => PWas(e, v5[e])

PCore == PTyped /\ PMarked /\ PFigures /\ PLone /\ PRecovered
PInv == PCore /\ PRemembered

(* The figures of a trip are numbers.                                      *)
LEMMA PolicyTotal ==
  ASSUME NEW rows, IsFiniteSet(rows), \A x \in rows : x.amount \in Int
  PROVE  C!Total(rows) \in Int
<1> DEFINE fun == [x \in rows |-> x.amount]
<1>1. fun \in [rows -> Int] /\ DOMAIN fun = rows
  OBVIOUS
<1>2. C!Total(rows) = SumFunctionOnSet(fun, rows)
  BY DEF C!Total, C!SumFunction, C!SumFunctionOnSet, C!FoldFunctionOnSet, C!MapThenFoldSet,
         SumFunctionOnSet, FoldFunctionOnSet, MapThenFoldSet
<1> HIDE DEF fun
<1> QED
  BY <1>1, <1>2, SumRest

LEMMA PolicyRows ==
  ASSUME NEW doc, \A x \in doc : x.amount \in Int, NEW rows \in C!Rows(doc), NEW some,
         some \subseteq rows
  PROVE  C!Total(some) \in Int
<1>1. IsFiniteSet(rows) /\ rows \subseteq doc
  BY DEF C!Rows, C!IsFiniteSet, IsFiniteSet
<1>2. IsFiniteSet(some)
  BY <1>1, FS_Subset
<1> QED
  BY <1>1, <1>2, PolicyTotal

LEMMA PolicyFields ==
  ASSUME NEW t \in C!TripDoc
  PROVE  /\ t.tons \in Int /\ t.loaded_qty \in Int /\ t.unloaded_qty \in Int /\ t.rate \in Int
         /\ t.freight_override \in Int /\ t.fixed_amount \in Int /\ t.freight_amount \in Int
         /\ t.kms \in Int /\ t.km_rate \in Int /\ t.product_rate \in Int
         /\ t.shortage_amount \in Int /\ t.excess_amount \in Int
         /\ t.shortage_override \in BOOLEAN /\ t.excess_override \in BOOLEAN
         /\ t.loading_date \in Int /\ t.unloading_date \in Int /\ t.total_halting_days \in Int
         /\ t.grace_days \in Int /\ t.halting_rate \in Int /\ t.halting_amount \in Int
         /\ t.snap \in C!SnapDoc /\ t.snap.limit \in Int /\ t.snap.product \in Int
         /\ t.snap.supplier_limit \in Int
BY DEF C!TripDoc, C!SnapDoc

LEMMA PolicyCosts ==
  ASSUME NEW t \in C!TripDoc
  PROVE  /\ t.lines \in Int /\ t.customer_diesel \in Int /\ t.cash_advance \in Int
         /\ t.other_income \in Int /\ t.receipts \in C!Rows(C!ReceiptDoc)
         /\ t.diesel_received \in Int /\ t.supplier_rate \in Int /\ t.supplier_fixed \in Int
         /\ t.supplier_freight \in Int /\ t.supplier_shortage \in Int
         /\ t.supplier_halting \in Int /\ t.supplier_advance \in Int
         /\ t.advances \in C!Rows(C!AdvanceDoc) /\ t.supplier_diesel \in Int
         /\ t.diesels \in C!Rows(C!AdvanceDoc) /\ t.supplier_recoveries \in Int
         /\ t.supplier_income \in Int
BY DEF C!TripDoc

LEMMA PolicyFigures ==
  ASSUME NEW t \in C!TripDoc
  PROVE  /\ C!Loaded(t) \in Int /\ C!Shortage(t) \in Int /\ C!Excess(t) \in Int
         /\ C!Freight(t).amount \in Int /\ C!Freight(t).qty \in Int
         /\ C!ShortageAmount(t) \in Int /\ C!ExcessAmount(t) \in Int
         /\ C!HaltingDays(t) \in Int /\ C!Halting(t) \in Int
         /\ C!Allowance(t) \in Int /\ C!BasisQty(t) \in Int
<1>1. C!Loaded(t) \in Int
  BY PolicyFields DEF C!Loaded
<1>2. C!BasisQty(t) \in Int
  BY <1>1, PolicyFields DEF C!BasisQty, C!Higher
<1>3. C!Shortage(t) \in Int /\ C!Excess(t) \in Int
  BY <1>1, PolicyFields DEF C!Shortage, C!Excess, C!Positive
<1>4. C!Allowance(t) \in Int
  BY PolicyFields DEF C!Allowance
<1>5. \A rate, kg \in Int : C!Worth(rate, kg) \in Int
  BY DEF C!Worth
<1>6. t.kms * t.km_rate \in Int
  BY PolicyFields
<1>7. C!Freight(t).amount \in Int /\ C!Freight(t).qty \in Int
  <2>1. /\ C!Worth(t.rate, C!BasisQty(t)) \in Int
        /\ C!Worth(t.kms * t.km_rate, C!BasisQty(t)) \in Int
    BY <1>2, <1>5, <1>6, PolicyFields
  <2>2. /\ t.freight_override \in Int /\ t.fixed_amount \in Int /\ t.freight_amount \in Int
    BY PolicyFields
  <2>3. CASE t.freight_override > 0
    BY <1>1, <2>2, <2>3 DEF C!Freight
  <2>4. CASE ~(t.freight_override > 0) /\ t.snap.method = "fixed"
    BY <2>2, <2>4 DEF C!Freight
  <2>5. CASE ~(t.freight_override > 0) /\ t.snap.method # "fixed" /\ t.freight_mode = "per_ton"
    BY <1>2, <2>1, <2>5 DEF C!Freight
  <2>6. CASE ~(t.freight_override > 0) /\ t.snap.method # "fixed" /\ t.freight_mode # "per_ton"
    <3>1. CASE t.kms > 0 /\ t.km_rate > 0
      BY <1>2, <2>1, <2>6, <3>1 DEF C!Freight
    <3>2. CASE ~(t.kms > 0 /\ t.km_rate > 0)
      BY <2>2, <2>6, <3>2 DEF C!Freight
    <3> QED
      BY <3>1, <3>2
  <2> QED
    BY <2>3, <2>4, <2>5, <2>6
<1>8. C!ShortageAmount(t) \in Int
  <2>1. C!Positive(C!Shortage(t) - C!Allowance(t)) \in Int
    BY <1>3, <1>4 DEF C!Positive
  <2>2. t.product_rate \in Int /\ t.shortage_amount \in Int
    BY PolicyFields
  <2>3. /\ C!Worth(t.product_rate, C!Shortage(t)) \in Int
        /\ C!Worth(t.product_rate, C!Positive(C!Shortage(t) - C!Allowance(t))) \in Int
    BY <1>3, <1>5, <2>1, <2>2
  <2> QED
    BY <2>2, <2>3 DEF C!ShortageAmount
<1>9. C!ExcessAmount(t) \in Int
  <2>1. t.product_rate \in Int /\ t.excess_amount \in Int
    BY PolicyFields
  <2>2. C!Worth(t.product_rate, C!Excess(t)) \in Int
    BY <1>3, <1>5, <2>1
  <2> QED
    BY <2>1, <2>2 DEF C!ExcessAmount
<1>10. C!HaltingDays(t) \in Int
  BY PolicyFields DEF C!HaltingDays, C!Positive
<1>11. C!Halting(t) \in Int
  BY <1>10, PolicyFields DEF C!Halting, C!Positive
<1> QED
  BY <1>1, <1>2, <1>3, <1>4, <1>7, <1>8, <1>9, <1>10, <1>11

LEMMA PolicySupplier ==
  ASSUME NEW t \in C!TripDoc
  PROVE  /\ C!DieselReceived(t) \in Int /\ C!OwnExpense(t) \in Int
         /\ C!SupplierFreight(t) \in Int /\ C!SupplierShortage(t) \in Int
         /\ C!Advanced(t.advances, t.supplier_advance) \in Int
         /\ C!Advanced(t.diesels, t.supplier_diesel) \in Int
         /\ C!SupplierNet(t) \in Int
<1>0. /\ \A x \in C!ReceiptDoc : x.amount \in Int
      /\ \A x \in C!AdvanceDoc : x.amount \in Int
  BY DEF C!ReceiptDoc, C!AdvanceDoc
<1>1. C!DieselReceived(t) \in Int
  <2>1. C!ReceiptsOf(t, "diesel") \in Int
    <3> DEFINE some == {x \in t.receipts : x.kind = "diesel"}
    <3>1. some \subseteq t.receipts /\ C!ReceiptsOf(t, "diesel") = C!Total(some)
      BY DEF C!ReceiptsOf
    <3> HIDE DEF some
    <3> QED
      BY <1>0, <3>1, PolicyRows, PolicyCosts
  <2> QED
    BY <2>1, PolicyCosts DEF C!DieselReceived
<1>2. C!OwnExpense(t) \in Int
  BY PolicyCosts DEF C!OwnExpense, C!Positive
<1>3. \A rate, kg \in Int : C!Worth(rate, kg) \in Int
  BY DEF C!Worth
<1>4. C!SupplierFreight(t) \in Int /\ C!SupplierShortage(t) \in Int
  BY <1>3, PolicyCosts, PolicyFields, PolicyFigures DEF C!SupplierFreight, C!SupplierShortage
<1>5. /\ C!Advanced(t.advances, t.supplier_advance) \in Int
      /\ C!Advanced(t.diesels, t.supplier_diesel) \in Int
  <2>1. C!Total(t.advances) \in Int /\ C!Total(t.diesels) \in Int
    BY <1>0, PolicyRows, PolicyCosts
  <2> QED
    BY <2>1, PolicyCosts DEF C!Advanced
<1>6. C!SupplierNet(t) \in Int
  BY <1>1, <1>4, <1>5, PolicyCosts DEF C!SupplierNet
<1> QED
  BY <1>1, <1>2, <1>4, <1>5, <1>6

(* The figures of a trip depend on what has been entered and on the        *)
(* snapshot, and computing them again changes nothing.                     *)
LEMMA PolicyBasis ==
  ASSUME NEW x, NEW y, PSame(x, y), x.snap = y.snap
  PROVE  /\ C!BasisQty(y) = C!BasisQty(x) /\ C!Shortage(y) = C!Shortage(x)
         /\ C!Excess(y) = C!Excess(x) /\ C!Allowance(y) = C!Allowance(x)
         /\ C!HasLimit(y) = C!HasLimit(x)
BY DEF PSame, PEntered, C!BasisQty, C!Shortage, C!Excess, C!Allowance, C!HasLimit

LEMMA PolicyFreight ==
  ASSUME NEW x, NEW y, PSame(x, y), x.snap = y.snap,
         y.freight_amount \in {x.freight_amount, C!Freight(x).amount}
  PROVE  C!Freight(y).amount = C!Freight(x).amount
<1>1. C!BasisQty(y) = C!BasisQty(x)
  BY PolicyBasis
<1>2. \A f \in {"tons", "unloaded_qty", "freight_override", "fixed_amount", "freight_mode",
                "rate", "kms", "km_rate"} : x[f] = y[f]
  BY DEF PSame, PEntered
<1> QED
  BY <1>1, <1>2 DEF C!Freight

LEMMA PolicyShortage ==
  ASSUME NEW x, NEW y, PSame(x, y), x.snap = y.snap,
         y.shortage_amount \in {x.shortage_amount, C!ShortageAmount(x)},
         y.excess_amount \in {x.excess_amount, C!ExcessAmount(x)}
  PROVE  /\ C!ShortageAmount(y) = C!ShortageAmount(x)
         /\ C!ExcessAmount(y) = C!ExcessAmount(x)
<1>1. /\ C!Shortage(y) = C!Shortage(x) /\ C!Excess(y) = C!Excess(x)
      /\ C!Allowance(y) = C!Allowance(x) /\ C!HasLimit(y) = C!HasLimit(x)
  BY PolicyBasis
<1>2. /\ x.product_rate = y.product_rate /\ x.shortage_override = y.shortage_override
      /\ x.excess_override = y.excess_override
  BY DEF PSame, PEntered
<1> QED
  BY <1>1, <1>2 DEF C!ShortageAmount, C!ExcessAmount

PHalting == {"loading_date", "unloading_date", "grace_days", "halting_rate", "halting_override"}

LEMMA PolicyHalting ==
  ASSUME NEW x \in C!TripDoc, NEW y, \A f \in PHalting : x[f] = y[f],
         y.total_halting_days \in {x.total_halting_days, C!HaltingDays(x)},
         y.halting_amount \in {x.halting_amount, C!Halting(x)}
  PROVE  C!HaltingDays(y) = C!HaltingDays(x) /\ C!Halting(y) = C!Halting(x)
<1>1. /\ x.loading_date = y.loading_date /\ x.unloading_date = y.unloading_date
      /\ x.grace_days = y.grace_days /\ x.halting_rate = y.halting_rate
      /\ x.halting_override = y.halting_override
  BY DEF PHalting
<1>2. C!HaltingDays(y) = C!HaltingDays(x)
  BY <1>1, PolicyFields DEF C!HaltingDays, C!Positive
<1> QED
  BY <1>1, <1>2 DEF C!Halting

PFilled == {"loaded_qty", "total_halting_days", "freight_amount", "freight_qty", "shortage_qty",
            "excess_qty", "shortage_amount", "excess_amount", "halting_amount",
            "diesel_received", "supplier_freight", "supplier_shortage", "supplier_advance",
            "supplier_diesel", "supplier_net", "expense", "profit", "settlement"}

LEMMA PolicyFilled ==
  ASSUME NEW t \in C!TripDoc, NEW fun, \A f \in PFilled : fun[f] \in Int
  PROVE  C!With(t, PFilled, fun) \in C!TripDoc
BY DEF C!TripDoc, C!With, PFilled

LEMMA PolicyComputed ==
  ASSUME NEW t \in C!TripDoc
  PROVE  /\ C!Compute(t) \in C!TripDoc
         /\ DOMAIN C!Compute(t) = DOMAIN t
         /\ \A f \in DOMAIN t : f \notin PFilled => C!Compute(t)[f] = t[f]
         /\ C!Compute(t).loaded_qty = C!Loaded(t)
         /\ C!Compute(t).freight_amount = C!Freight(t).amount
         /\ C!Compute(t).shortage_qty = C!Shortage(t)
         /\ C!Compute(t).shortage_amount = C!ShortageAmount(t)
         /\ C!Compute(t).excess_amount = C!ExcessAmount(t)
         /\ C!Compute(t).total_halting_days = C!HaltingDays(t)
         /\ C!Compute(t).halting_amount = C!Halting(t)
<1>1. \A f \in DOMAIN t : f \notin PFilled => C!Compute(t)[f] = t[f]
  BY DEF C!Compute, PFilled
<1>2. DOMAIN C!Compute(t) = DOMAIN t /\ C!Compute(t) = [f \in DOMAIN t |-> C!Compute(t)[f]]
  <2>1. DOMAIN C!Compute(t) = DOMAIN t
    BY DEF C!Compute
  <2>2. C!Compute(t) = [f \in DOMAIN C!Compute(t) |-> C!Compute(t)[f]]
    <3>1. PICK x, value : C!Compute(t) = [x EXCEPT !.settlement = value]
      BY DEF C!Compute
    <3> QED
      BY <3>1
  <2> QED
    BY <2>1, <2>2
<1>3. C!Compute(t) = C!With(t, PFilled, C!Compute(t))
  BY <1>1, <1>2 DEF C!With
<1>4. \A f \in PFilled : f \in DOMAIN t
  BY DEF C!TripDoc, PFilled
<1>5. /\ C!Compute(t).loaded_qty = C!Loaded(t)
      /\ C!Compute(t).freight_amount = C!Freight(t).amount
      /\ C!Compute(t).shortage_qty = C!Shortage(t)
      /\ C!Compute(t).shortage_amount = C!ShortageAmount(t)
      /\ C!Compute(t).excess_amount = C!ExcessAmount(t)
      /\ C!Compute(t).total_halting_days = C!HaltingDays(t)
      /\ C!Compute(t).halting_amount = C!Halting(t)
  BY <1>4 DEF C!Compute, PFilled
<1>6. \A f \in PFilled : C!Compute(t)[f] \in Int
  <2>1. /\ C!Compute(t).freight_qty \in Int /\ C!Compute(t).excess_qty \in Int
        /\ C!Compute(t).diesel_received \in Int /\ C!Compute(t).supplier_freight \in Int
        /\ C!Compute(t).supplier_shortage \in Int
    BY <1>4, PolicyFigures, PolicySupplier, PolicyCosts DEF C!Compute, PFilled
  <2>2. /\ C!Compute(t).supplier_advance \in Int /\ C!Compute(t).supplier_diesel \in Int
        /\ C!Compute(t).supplier_net \in Int
    BY <1>4, PolicySupplier, PolicyCosts DEF C!Compute, PFilled
  <2>3. /\ C!Compute(t).expense \in Int /\ C!Compute(t).profit \in Int
        /\ C!Compute(t).settlement \in Int
    BY <1>4, PolicyFigures, PolicySupplier, PolicyCosts DEF C!Compute, PFilled
  <2> QED
    BY <1>5, <2>1, <2>2, <2>3, PolicyFigures DEF PFilled
<1>7. C!Compute(t) \in C!TripDoc
  BY <1>3, <1>6, PolicyFilled
<1> QED
  BY <1>1, <1>2, <1>5, <1>7

LEMMA PolicyAgain ==
  ASSUME NEW t \in C!TripDoc
  PROVE  /\ PRight(C!Compute(t)) /\ PSame(C!Compute(t), t) /\ PSame(t, C!Compute(t))
         /\ C!Compute(t).snap = t.snap /\ C!Compute(t).recovery = t.recovery
         /\ \A f \in PHalting : t[f] = C!Compute(t)[f]
<1> DEFINE y == C!Compute(t)
<1>1. \A f \in PEntered \cup PHalting \cup {"snap", "recovery"} : f \in DOMAIN t /\ f \notin PFilled
  BY DEF C!TripDoc, PEntered, PHalting, PFilled
<1>2. /\ \A f \in PEntered \cup PHalting \cup {"snap", "recovery"} : y[f] = t[f]
      /\ y.loaded_qty = C!Loaded(t) /\ y.freight_amount = C!Freight(t).amount
      /\ y.shortage_qty = C!Shortage(t) /\ y.shortage_amount = C!ShortageAmount(t)
      /\ y.excess_amount = C!ExcessAmount(t)
      /\ y.total_halting_days = C!HaltingDays(t) /\ y.halting_amount = C!Halting(t)
  BY <1>1, PolicyComputed
<1> HIDE DEF y
<1>3. y.tons = t.tons
  BY <1>2 DEF PEntered
<1>4. C!Loaded(y) = C!Loaded(t)
  BY <1>2, <1>3 DEF C!Loaded
<1>5. PSame(y, t) /\ PSame(t, y) /\ y.snap = t.snap /\ y.recovery = t.recovery
  BY <1>2, <1>4 DEF PSame
<1>6. C!Freight(y).amount = C!Freight(t).amount
  BY <1>2, <1>5, PolicyFreight
<1>7. C!ShortageAmount(y) = C!ShortageAmount(t) /\ C!ExcessAmount(y) = C!ExcessAmount(t)
  BY <1>2, <1>5, PolicyShortage
<1>8. C!HaltingDays(y) = C!HaltingDays(t) /\ C!Halting(y) = C!Halting(t)
  BY <1>2, PolicyHalting
<1>9. C!Shortage(y) = C!Shortage(t)
  BY <1>5, PolicyBasis
<1>10. PRight(y)
  BY <1>2, <1>6, <1>7, <1>8, <1>9 DEF PRight, PBilled, PHalted
<1> QED
  BY <1>2, <1>5, <1>10 DEF y

(* What steps make of a trip.                                              *)
LEMMA PolicyAlike ==
  ASSUME NEW x, NEW y, PSame(x, y)
  PROVE  PSame(y, x) /\ \A z : PSame(y, z) => PSame(x, z)
BY DEF PSame

LEMMA PolicyBilled ==
  ASSUME NEW x, NEW y, PBilled(x), PSame(x, y), x.snap = y.snap,
         \A f \in C!Billing : x[f] = y[f]
  PROVE  PBilled(y)
<1>1. /\ x.freight_amount = y.freight_amount /\ x.shortage_qty = y.shortage_qty
      /\ x.shortage_amount = y.shortage_amount /\ x.excess_amount = y.excess_amount
  BY DEF C!Billing
<1>2. C!Freight(y).amount = C!Freight(x).amount
  BY <1>1, PolicyFreight
<1>3. C!ShortageAmount(y) = C!ShortageAmount(x) /\ C!ExcessAmount(y) = C!ExcessAmount(x)
  BY <1>1, PolicyShortage
<1>4. C!Shortage(y) = C!Shortage(x)
  BY PolicyBasis
<1> QED
  BY <1>1, <1>2, <1>3, <1>4 DEF PBilled

LEMMA PolicyHalted ==
  ASSUME NEW x \in C!TripDoc, NEW y, PHalted(x), \A f \in PHalting : x[f] = y[f],
         x.total_halting_days = y.total_halting_days, x.halting_amount = y.halting_amount
  PROVE  PHalted(y)
BY PolicyHalting DEF PHalted


LEMMA PolicyMixed ==
  ASSUME NEW x \in C!TripDoc, NEW y \in C!TripDoc, NEW fields
  PROVE  /\ C!With(x, fields, y) \in C!TripDoc
         /\ DOMAIN C!With(x, fields, y) = DOMAIN x /\ DOMAIN y = DOMAIN x
         /\ \A f \in DOMAIN x : C!With(x, fields, y)[f] = IF f \in fields THEN y[f] ELSE x[f]
<1>1. C!With(x, fields, y) \in C!TripDoc
  BY DEF C!With, C!TripDoc
<1>2. DOMAIN y = DOMAIN x
  BY DEF C!TripDoc
<1> QED
  BY <1>1, <1>2 DEF C!With

LEMMA PolicyNamed ==
  ASSUME NEW x \in C!TripDoc
  PROVE  PEntered \cup PHalting \cup PFilled \cup C!Rewritten \cup C!Kept \cup C!Billing
           \cup {"snap", "recovery", "invoiced", "date", "historical", "loaded_qty"}
         \subseteq DOMAIN x
BY DEF C!TripDoc, PEntered, PHalting, PFilled, C!Rewritten, C!Recomputed, C!Kept, C!Billing

LEMMA PolicyAside ==
  ASSUME NEW x \in C!TripDoc, NEW y \in C!TripDoc,
         \A f \in DOMAIN x \ {"invoiced", "recovery"} : y[f] = x[f]
  PROVE  /\ PSame(x, y) /\ PSame(y, x) /\ (PRight(x) => PRight(y))
         /\ y.shortage_qty = x.shortage_qty /\ y.product_rate = x.product_rate
<1>1. /\ \A f \in PEntered \cup PHalting \cup C!Billing \cup {"snap", "loaded_qty"} : x[f] = y[f]
      /\ x.total_halting_days = y.total_halting_days /\ x.halting_amount = y.halting_amount
  BY PolicyNamed DEF PEntered, PHalting, PFilled, C!Billing
<1>2. C!Loaded(x) = C!Loaded(y)
  BY <1>1 DEF C!Loaded, PEntered
<1>3. PSame(x, y)
  BY <1>1, <1>2 DEF PSame
<1>4. PRight(x) => PRight(y)
  BY <1>1, <1>3, PolicyBilled, PolicyHalted DEF PRight
<1> QED
  BY <1>1, <1>3, <1>4, PolicyAlike DEF C!Billing, PEntered

LEMMA PolicySnapshot ==
  ASSUME NEW x \in C!TripDoc, NEW policy \in PolicyChoice
  PROVE  /\ [x EXCEPT !.snap = C!Snapshot(policy, x)] \in C!TripDoc
         /\ PSame([x EXCEPT !.snap = C!Snapshot(policy, x)], x)
         /\ C!Snapshot(policy, x) \in C!SnapDoc
<1>1. policy \in C!PolicyDoc /\ x.snap \in C!SnapDoc
  BY OfficePolicies, PolicyFields
<1>2. C!Snapshot(policy, x) \in C!SnapDoc
  <2> DEFINE a == [x.snap EXCEPT !.method = policy.method]
             b == [a EXCEPT !.deduct = policy.deduct]
             c == [b EXCEPT !.limit = policy.limit]
             d == [c EXCEPT !.limit_type = IF policy.limit > 0 THEN policy.limit_type ELSE "none"]
  <2>1. a \in C!SnapDoc
    BY <1>1 DEF C!PolicyDoc, C!SnapDoc
  <2>2. b \in C!SnapDoc
    BY <1>1, <2>1 DEF C!PolicyDoc, C!SnapDoc
  <2>3. c \in C!SnapDoc
    BY <1>1, <2>2 DEF C!PolicyDoc, C!SnapDoc
  <2> HIDE DEF c
  <2>4. (IF policy.limit > 0 THEN policy.limit_type ELSE "none") \in {"none", "pct", "kg"}
    BY <1>1 DEF C!PolicyDoc
  <2>5. d \in C!SnapDoc
    BY <2>3, <2>4 DEF C!SnapDoc
  <2> QED
    BY <2>5 DEF C!Snapshot, c
<1> DEFINE y == [x EXCEPT !.snap = C!Snapshot(policy, x)]
<1>3. y \in C!TripDoc
  BY <1>2 DEF C!TripDoc
<1>4. \A f \in PEntered \cup {"loaded_qty"} : y[f] = x[f]
  BY PolicyNamed DEF PEntered
<1>5. C!Loaded(y) = C!Loaded(x)
  BY <1>4 DEF C!Loaded, PEntered
<1> QED
  BY <1>2, <1>3, <1>4, <1>5 DEF PSame

LEMMA PolicyRestamped ==
  ASSUME NEW x \in C!TripDoc, NEW policy \in PolicyChoice
  PROVE  /\ C!Restamped(x, policy) \in C!TripDoc /\ PRight(C!Restamped(x, policy))
         /\ PSame(C!Restamped(x, policy), x) /\ PSame(x, C!Restamped(x, policy))
         /\ C!Restamped(x, policy).snap = C!Snapshot(policy, x)
<1> DEFINE z == [x EXCEPT !.snap = C!Snapshot(policy, x)]
<1>1. z \in C!TripDoc /\ PSame(z, x) /\ z.snap = C!Snapshot(policy, x)
  BY PolicySnapshot, PolicyNamed
<1>2. C!Restamped(x, policy) = C!Compute(z)
  BY DEF C!Restamped
<1> HIDE DEF z
<1> QED
  BY <1>1, <1>2, PolicyComputed, PolicyAgain, PolicyAlike

LEMMA PolicyCreated ==
  ASSUME NEW x \in PolicySheet, NEW policy \in PolicyChoice
  PROVE  C!Created(x, policy) \in C!TripDoc /\ PRight(C!Created(x, policy))
<1> DEFINE blank == C!Compute(x)
           stamped == C!Restamped(x, policy)
           base == [blank EXCEPT !.snap = C!Snapshot(policy, x)]
           y == C!With(base, C!Recomputed, stamped)
<1>1. x \in C!TripDoc
  BY OfficePolicies
<1>2. blank \in C!TripDoc /\ PRight(blank) /\ PSame(blank, x)
  BY <1>1, PolicyComputed, PolicyAgain
<1>3. /\ stamped \in C!TripDoc /\ PRight(stamped) /\ PSame(stamped, x)
      /\ stamped.snap = C!Snapshot(policy, x) /\ C!Snapshot(policy, x) \in C!SnapDoc
  BY <1>1, PolicyRestamped, PolicySnapshot
<1> HIDE DEF blank, stamped
<1>4. base \in C!TripDoc
  BY <1>2, <1>3 DEF C!TripDoc
<1>5. base.snap = C!Snapshot(policy, x) /\ \A f \in DOMAIN base \ {"snap"} : base[f] = blank[f]
  BY <1>2, <1>4, PolicyNamed
<1> HIDE DEF base
<1>6. /\ y \in C!TripDoc /\ DOMAIN y = DOMAIN base
      /\ \A f \in DOMAIN base : y[f] = IF f \in C!Recomputed THEN stamped[f] ELSE base[f]
  BY <1>3, <1>4, PolicyMixed
<1>7. C!Created(x, policy) = y
  BY DEF C!Created, y, base, blank, stamped
<1> HIDE DEF y
<1>8. PEntered \cup PHalting \cup PFilled \cup C!Billing \cup {"snap", "loaded_qty"} \subseteq DOMAIN base
  BY <1>4, PolicyNamed
<1>9. /\ \A f \in C!Billing : y[f] = stamped[f]
      /\ y.snap = stamped.snap
      /\ \A f \in PEntered \cup PHalting \cup {"loaded_qty", "total_halting_days", "halting_amount"} : y[f] = blank[f]
  BY <1>3, <1>5, <1>6, <1>8 DEF C!Billing, C!Recomputed, PEntered, PHalting, PFilled
<1>10. PSame(y, blank)
  <2>1. C!Loaded(y) = C!Loaded(blank)
    BY <1>9 DEF C!Loaded, PEntered
  <2> QED
    BY <1>9, <2>1 DEF PSame
<1>11. PSame(stamped, y)
  BY <1>2, <1>3, <1>10, PolicyAlike
<1>12. PBilled(y)
  BY <1>3, <1>9, <1>11, PolicyBilled DEF PRight
<1>13. PHalted(y)
  BY <1>2, <1>9, PolicyHalted DEF PRight
<1> QED
  BY <1>6, <1>7, <1>12, <1>13 DEF PRight

(* A trip that takes some figures and the snapshot of another.             *)
LEMMA PolicyTaken ==
  ASSUME NEW x \in C!TripDoc, NEW y \in C!TripDoc, NEW fields,
         fields \in {C!Rewritten, C!Kept}
  PROVE  LET new == C!With(x, fields, y)
         IN  /\ new \in C!TripDoc /\ PSame(new, x) /\ PSame(x, new)
             /\ new.recovery = x.recovery /\ new.product_rate = x.product_rate
             /\ new.invoiced = x.invoiced /\ new.shortage_qty = y.shortage_qty
             /\ \A f \in fields : new[f] = y[f]
             /\ (PRight(x) /\ PBilled(y) /\ PSame(x, y)) =>
                  PRight(new) /\ new.shortage_qty = x.shortage_qty
<1> DEFINE new == C!With(x, fields, y)
<1>1. /\ new \in C!TripDoc /\ DOMAIN new = DOMAIN x
      /\ \A f \in DOMAIN x : new[f] = IF f \in fields THEN y[f] ELSE x[f]
  BY PolicyMixed
<1> HIDE DEF new
<1>2. PEntered \cup PHalting \cup PFilled \cup C!Rewritten \cup C!Kept \cup C!Billing
        \cup {"snap", "recovery", "invoiced", "loaded_qty"} \subseteq DOMAIN x
  BY PolicyNamed
<1>3. /\ \A f \in C!Billing \cup {"snap"} : f \in fields
      /\ \A f \in PEntered \cup PHalting \cup {"loaded_qty", "recovery", "invoiced", "total_halting_days",
                                    "halting_amount"} : f \notin fields /\ f \in DOMAIN x
  BY <1>2 DEF C!Rewritten, C!Recomputed, C!Kept, C!Billing, PEntered, PHalting, PFilled
<1>4. /\ \A f \in C!Billing \cup {"snap"} : new[f] = y[f]
      /\ \A f \in PEntered \cup PHalting \cup {"loaded_qty", "recovery", "invoiced", "total_halting_days",
                                    "halting_amount"} : new[f] = x[f]
      /\ \A f \in fields : new[f] = y[f]
  BY <1>1, <1>2, <1>3
<1>5. PSame(new, x)
  <2>1. C!Loaded(new) = C!Loaded(x)
    BY <1>4 DEF C!Loaded, PEntered
  <2> QED
    BY <1>4, <2>1 DEF PSame
<1>6. ASSUME PRight(x), PBilled(y), PSame(x, y)
      PROVE  PRight(new) /\ new.shortage_qty = x.shortage_qty
  <2>1. PSame(y, new)
    BY <1>5, <1>6, PolicyAlike
  <2>2. PBilled(new)
    BY <1>4, <1>6, <2>1, PolicyBilled
  <2>3. PHalted(new)
    BY <1>4, <1>6, PolicyHalted DEF PRight
  <2>4. C!Shortage(x) = C!Shortage(y)
    BY <1>6 DEF PSame, PEntered, C!Shortage
  <2> QED
    BY <1>4, <1>6, <2>2, <2>3, <2>4 DEF PRight, PBilled, C!Billing
<1> QED
  BY <1>1, <1>4, <1>5, <1>6, PolicyAlike DEF new, C!Billing, PEntered

LEMMA PolicyEntered ==
  ASSUME NEW x \in C!TripDoc, NEW y \in C!TripDoc
  PROVE  C!Entered(x, y) \in C!TripDoc /\ C!Entered(x, y).recovery = x.recovery
<1> DEFINE a == [x EXCEPT !.tons = y.tons]
           b == [a EXCEPT !.unloaded_qty = y.unloaded_qty]
           c == [b EXCEPT !.rate = y.rate]
<1>1. a \in C!TripDoc /\ a.recovery = x.recovery
  BY PolicyFields, PolicyNamed DEF C!TripDoc
<1> HIDE DEF a
<1>2. b \in C!TripDoc /\ b.recovery = a.recovery
  BY <1>1, PolicyFields, PolicyNamed DEF C!TripDoc
<1> HIDE DEF b
<1>3. c \in C!TripDoc /\ c.recovery = b.recovery
  BY <1>2, PolicyFields, PolicyNamed DEF C!TripDoc
<1> QED
  BY <1>1, <1>2, <1>3 DEF C!Entered, a, b

LEMMA PolicyRecovered ==
  ASSUME NEW x \in C!TripDoc, NEW rec \in C!RecoveryDoc
  PROVE  /\ [x EXCEPT !.recovery = rec] \in C!TripDoc
         /\ [x EXCEPT !.recovery = rec].recovery = rec
         /\ \A f \in DOMAIN x \ {"recovery"} : [x EXCEPT !.recovery = rec][f] = x[f]
BY DEF C!TripDoc

LEMMA PolicyInvoiced ==
  ASSUME NEW x \in C!TripDoc, NEW on \in BOOLEAN
  PROVE  /\ [x EXCEPT !.invoiced = on] \in C!TripDoc
         /\ [x EXCEPT !.invoiced = on].invoiced = on
         /\ \A f \in DOMAIN x \ {"invoiced"} : [x EXCEPT !.invoiced = on][f] = x[f]
BY DEF C!TripDoc

(* What every step has to keep, given what it does to one request.         *)
LEMMA PolicyAlone ==
  ASSUME PMarked, NEW r \in Three, PBusy(r), "overlap" \notin marred
  PROVE  \A q \in Three \ {r} : ~PBusy(q)
BY DEF PMarked

(* A trip that is there stays, with what has been entered, and right.      *)
PStay ==
  \A t \in Couple :
    /\ PLive(t) => PSame(v3[t], v3'[t]) /\ (PRight(v3[t]) => PRight(v3'[t]))
    /\ ~PLive(t) /\ PLive(t)' => PRight(v3'[t])

LEMMA PolicyFitsOn ==
  ASSUME NEW d \in PDelta, PFits(d), PLive(d.trip), PStay
  PROVE  PFits(d)'
<1>1. PSame(v3[d.trip], v3'[d.trip])
  BY DEF PStay, PDelta
<1>2. PSame(d.old, v3'[d.trip])
  BY <1>1, PolicyAlike DEF PFits
<1> QED
  BY <1>2 DEF PFits, PSame

LEMMA PolicyFiguresKept ==
  ASSUME PTyped, PFigures, NEW r \in Three, marred \subseteq marred',
         \A q \in Three \ {r} : pc'[q] = pc[q] /\ hand'[q] = hand[q],
         \A t \in Couple : PLive(t) => PLive(t)',
         PGood' => PStay, PGood' => PDrawn(r)',
         \A e \in Three : POpen(e)' =>
           \/ POpen(e) /\ v4'[e].deltas = v4[e].deltas
           \/ PGood' => \A d \in v4'[e].deltas : PFits(d)'
  PROVE  PFigures'
<1> SUFFICES ASSUME PGood'
             PROVE  /\ \A t \in Couple : PLive(t)' => PRight(v3'[t])
                    /\ \A q \in Three : PDrawn(q)'
                    /\ \A e \in Three : POpen(e)' => \A d \in v4'[e].deltas : PFits(d)'
  BY DEF PFigures, PRight, PBilled, PHalted
<1>1. PGood /\ PStay
  BY DEF PGood
<1>2. /\ \A t \in Couple : PLive(t) => PRight(v3[t])
      /\ \A q \in Three : PDrawn(q)
      /\ \A e \in Three : POpen(e) => \A d \in v4[e].deltas : PFits(d)
  BY <1>1 DEF PFigures
<1>3. \A t \in Couple : PLive(t)' => PRight(v3'[t])
  BY <1>1, <1>2 DEF PStay
<1>4. ASSUME NEW q \in Three \ {r}
      PROVE  PDrawn(q)'
  <2>1. pc'[q] = pc[q] /\ hand'[q] = hand[q] /\ PDrawn(q) /\ PHeld(q)
    BY <1>2, <1>4 DEF PTyped
  <2>2. ASSUME pc[q] = "apply trips", NEW t \in hand[q].todo
        PROVE  PRight(hand[q].doc[t]) /\ PSame(hand[q].doc[t], v3'[t])
    <3>1. PLive(t) /\ t \in Couple /\ PRight(hand[q].doc[t]) /\ PSame(hand[q].doc[t], v3[t])
      BY <2>1, <2>2 DEF PHeld, PDrawn, PApplying
    <3>2. PSame(v3[t], v3'[t])
      BY <1>1, <3>1 DEF PStay
    <3> QED
      BY <3>1, <3>2, PolicyAlike
  <2>3. ASSUME pc[q] \in {"apply trips", "revert trips"}, NEW d \in hand[q].deltas
        PROVE  PFits(d)'
    <3>1. PFits(d) /\ d \in PDelta /\ PLive(d.trip)
      BY <2>1, <2>3 DEF PHeld, PDrawn
    <3> QED
      BY <1>1, <3>1, PolicyFitsOn
  <2>4. pc[q] \in {"create", "update"} => PRight(hand[q].doc)
    BY <2>1 DEF PDrawn
  <2>5. /\ pc'[q] \in {"create", "update"} => PRight(hand'[q].doc)
        /\ pc'[q] = "apply trips" =>
             \A t \in hand'[q].todo : PRight(hand'[q].doc[t]) /\ PSame(hand'[q].doc[t], v3'[t])
        /\ pc'[q] \in {"apply trips", "revert trips"} => \A d \in hand'[q].deltas : PFits(d)'
    BY <2>1, <2>2, <2>3, <2>4
  <2> QED
    BY <2>5 DEF PDrawn, PRight, PBilled, PHalted, PSame
<1>5. ASSUME NEW e \in Three, POpen(e)', NEW d \in v4'[e].deltas
      PROVE  PFits(d)'
  <2>1. CASE POpen(e) /\ v4'[e].deltas = v4[e].deltas
    <3>1. PFits(d) /\ d \in PDelta /\ PLive(d.trip)
      BY <1>2, <1>5, <2>1 DEF PTyped, POpen, PEvent, PDelta, C!EventDoc
    <3> QED
      BY <1>1, <3>1, PolicyFitsOn
  <2>2. CASE PGood' => \A dd \in v4'[e].deltas : PFits(dd)'
    BY <1>5, <2>2
  <2> QED
    BY <1>5, <2>1, <2>2
<1> QED
  BY <1>3, <1>4, <1>5

LEMMA PolicyLoneKept ==
  ASSUME NEW r \in Three, \A q \in Three \ {r} : pc'[q] = pc[q],
         "overlap" \notin marred' =>
           PFound(r)' /\ \A q \in Three \ {r} : ~PBusy(q)
  PROVE  PLone'
<1> SUFFICES ASSUME "overlap" \notin marred', NEW q \in Three
             PROVE  PFound(q)'
  BY DEF PLone
<1>1. CASE q = r
  BY <1>1
<1>2. CASE q # r
  BY <1>2 DEF PFound, PBusy
<1> QED
  BY <1>1, <1>2

LEMMA PolicyTypedKept ==
  ASSUME PTyped, NEW r \in Three, NEW at \in PPlaces,
         pc' = [pc EXCEPT ![r] = at], DOMAIN hand' = Three,
         \A q \in Three \ {r} : hand'[q] = hand[q],
         v1' \in PolicyChoice, v2' \in [limit : PolicyLimit, version : Nat, active : BOOLEAN],
         v3' \in [Couple -> C!TripDoc \cup {nothing}],
         \A t \in Couple : PLive(t) => PLive(t)',
         \A t \in Couple : PLive(t)' => v3'[t].recovery \in C!RecoveryDoc,
         \A q \in Three \ {r} : pc[q] = "create" => ~PLive(hand[q].trip)',
         DOMAIN v4' = Three, \A e \in Three : v4[e] # nothing => v4'[e] # nothing,
         \A e \in Three : v4'[e] # nothing =>
           v4'[e] \in PEvent /\ pc'[e] = "done" /\ \A d \in v4'[e].deltas : PLive(d.trip),
         DOMAIN v5' = Three, PHeld(r)'
  PROVE  PTyped'
<1>1. \A q \in Three \ {r} : pc'[q] = pc[q] /\ PHeld(q)
  BY DEF PTyped
<1>2. ASSUME NEW q \in Three \ {r}
      PROVE  PHeld(q)'
  <2>1. pc'[q] = pc[q] /\ hand'[q] = hand[q] /\ PHeld(q)
    BY <1>1, <1>2
  <2>2. pc[q] \in {"update", "override"} => PLive(hand[q].trip)'
    BY <2>1 DEF PHeld
  <2>3. pc[q] = "create" => ~PLive(hand[q].trip)'
    BY <1>2
  <2>4. pc[q] \in PReverting => hand[q].event \in Three /\ v4'[hand[q].event] # nothing
    BY <2>1 DEF PHeld
  <2>5. pc[q] = "apply trips" => \A t \in hand[q].todo : PLive(t)'
    <3>1. pc[q] = "apply trips" => \A t \in hand[q].todo : t \in Couple /\ PLive(t)
      BY <2>1 DEF PHeld, PApplying
    <3> QED
      BY <3>1
  <2>6. pc[q] \in {"apply trips", "revert trips"} => \A d \in hand[q].deltas : PLive(d.trip)'
    <3>1. pc[q] \in {"apply trips", "revert trips"} =>
            \A d \in hand[q].deltas : d.trip \in Couple /\ PLive(d.trip)
      BY <2>1 DEF PHeld, PDelta
    <3> QED
      BY <3>1
  <2> QED
    BY <2>1, <2>2, <2>3, <2>4, <2>5, <2>6 DEF PHeld
<1>3. \A q \in Three : PHeld(q)'
  BY <1>2
<1>4. \A e \in Three : v4'[e] # nothing => \A d \in v4'[e].deltas : PLive(d.trip)'
  BY DEF PEvent, C!EventDoc, PDelta
<1>5. pc' \in [Three -> PPlaces]
  BY DEF PTyped
<1> QED
  BY <1>3, <1>4, <1>5 DEF PTyped

LEMMA PolicyMarkedKept ==
  ASSUME PMarked, PTyped, NEW r \in Three, PBusy(r), NEW at \in PPlaces \ {"create", "update"},
         pc' = [pc EXCEPT ![r] = at], \A q \in Three \ {r} : hand'[q] = hand[q],
         marred \subseteq marred', marred' \subseteq marred \cup {"death", "updated since"}
  PROVE  PMarked'
<1>1. /\ \A q \in Three \ {r} : pc'[q] = pc[q]
      /\ pc'[r] = at
  BY DEF PTyped
<1>2. "update met" \in marred' => "overlap" \in marred'
  BY DEF PMarked
<1>3. ASSUME NEW p \in Three, NEW q \in Three, p # q, PBusy(p)', PBusy(q)'
      PROVE  /\ "overlap" \in marred'
             /\ pc'[q] = "update" => "update met" \in marred'
             /\ pc'[p] = "create" /\ pc'[q] = "create" => hand'[p].trip # hand'[q].trip
  <2>1. PBusy(p) /\ PBusy(q)
    BY <1>1, <1>3 DEF PBusy
  <2>2. /\ "overlap" \in marred
        /\ pc[q] = "update" => "update met" \in marred
        /\ pc[p] = "create" /\ pc[q] = "create" => hand[p].trip # hand[q].trip
    BY <1>3, <2>1 DEF PMarked
  <2>3. at # "create" /\ at # "update"
    OBVIOUS
  <2> QED
    BY <1>1, <2>2, <2>3
<1> QED
  BY <1>2, <1>3 DEF PMarked

LEMMA PolicyAnswers ==
  ASSUME NEW rec \in C!RecoveryDoc, NEW doc, PAnswers(rec, doc)
  PROVE  rec.final = C!Answers(rec, doc)
<1>1. CASE rec.override # nothing
  BY <1>1 DEF PAnswers, C!Answers
<1>2. CASE rec.override = nothing /\ rec.limit = nothing
  BY <1>2 DEF PAnswers, C!Answers
<1>3. CASE rec.override = nothing /\ rec.limit # nothing
  BY <1>3 DEF PAnswers, C!Answers
<1> QED
  BY <1>1, <1>2, <1>3

(* A trip that is written, and what is settled.                            *)
LEMMA PolicyPut ==
  ASSUME PTyped, PRecovered, NEW t \in Couple, NEW new \in C!TripDoc,
         v3' = [v3 EXCEPT ![t] = new], marred \subseteq marred',
         new.recovery \in C!RecoveryDoc,
         PClean' => PAnswers(new.recovery, new),
         PClean' /\ PLive(t) =>
           /\ new.recovery.limit = v3[t].recovery.limit
           /\ new.recovery.version = v3[t].recovery.version
           /\ \/ new.recovery.override = v3[t].recovery.override
              \/ \E q \in Three : pc[q] = "override",
         "overlap" \notin marred' /\ C!Invoiced(t) /\ (\A q \in Three : pc[q] # "update") =>
           \A f \in C!Rewritten : new[f] = v3[t][f]
  PROVE  PRecovered' /\ C!InvoicedKept /\ C!RecoveryKept
<1>1. v3'[t] = new /\ \A u \in Couple \ {t} : v3'[u] = v3[u]
  BY DEF PTyped
<1>2. PClean' => PClean
  BY DEF PClean
<1>3. PRecovered'
  <2> SUFFICES ASSUME PClean', NEW u \in Couple, PLive(u)'
               PROVE  PAnswers(v3'[u].recovery, v3'[u])
    BY DEF PRecovered, PAnswers
  <2>1. CASE u = t
    BY <1>1, <2>1
  <2>2. CASE u # t
    BY <1>1, <1>2, <2>2 DEF PRecovered, PLive
  <2> QED
    BY <2>1, <2>2
<1>4. C!InvoicedKept
  BY <1>1 DEF C!InvoicedKept
<1>5. ASSUME NEW u \in Couple, C!Live(u), PClean'
      PROVE  /\ v3'[u].recovery.limit = v3[u].recovery.limit
             /\ v3'[u].recovery.version = v3[u].recovery.version
             /\ (\A q \in Three : pc[q] # "override") =>
                  v3'[u].recovery.override = v3[u].recovery.override
             /\ v3'[u].recovery.final = C!Answers(v3'[u].recovery, v3'[u])
  <2>1. CASE u = t
    <3>1. new.recovery.final = C!Answers(new.recovery, new)
      BY <1>5, PolicyAnswers
    <3> QED
      BY <1>1, <1>5, <2>1, <3>1 DEF C!Live, PLive
  <2>2. CASE u # t
    <3>1. PAnswers(v3[u].recovery, v3[u]) /\ v3[u].recovery \in C!RecoveryDoc
      BY <1>2, <1>5 DEF PRecovered, PTyped, PLive, C!Live
    <3>2. v3[u].recovery.final = C!Answers(v3[u].recovery, v3[u])
      BY <3>1, PolicyAnswers
    <3> QED
      BY <1>1, <2>2, <3>2
  <2> QED
    BY <2>1, <2>2
<1>6. C!RecoveryKept
  BY <1>5 DEF C!RecoveryKept, PClean
<1> QED
  BY <1>3, <1>4, <1>6

LEMMA PolicyIdle ==
  ASSUME PTyped, PRecovered, v3' = v3, marred \subseteq marred'
  PROVE  PRecovered' /\ C!InvoicedKept /\ C!RecoveryKept
<1>1. PClean' => PClean
  BY DEF PClean
<1>2. PRecovered'
  BY <1>1 DEF PRecovered, PAnswers, PLive
<1>3. C!InvoicedKept
  BY DEF C!InvoicedKept
<1>4. ASSUME NEW u \in Couple, C!Live(u), PClean'
      PROVE  v3[u].recovery.final = C!Answers(v3[u].recovery, v3[u])
  <2>1. PAnswers(v3[u].recovery, v3[u]) /\ v3[u].recovery \in C!RecoveryDoc
    BY <1>1, <1>4 DEF PRecovered, PTyped, PLive, C!Live
  <2> QED
    BY <2>1, PolicyAnswers
<1>5. C!RecoveryKept
  BY <1>4 DEF C!RecoveryKept, PClean
<1> QED
  BY <1>2, <1>3, <1>5

(* A request begins.                                                       *)
LEMMA PolicyBlank ==
  /\ DOMAIN C!Blank = PHand /\ C!Blank.deltas = {} /\ C!Blank.event = nothing
  /\ C!Blank.todo = {}
BY DEF C!Blank, PHand

LEMMA PolicyBusy ==
  /\ \A q \in Three : q \in C!Busy <=> PBusy(q)
  /\ C!Busy = {} <=> \A q \in Three : ~PBusy(q)
BY DEF C!Busy, PBusy

LEMMA PolicyStarts ==
  ASSUME PMarked, NEW r \in Three, NEW at, NEW named, named = at \/ at = "done",
         pc[r] = "new", pc' = [pc EXCEPT ![r] = at], DOMAIN pc = Three,
         \A q \in Three \ {r} : hand'[q] = hand[q],
         at = "create" => \A q \in Three : PBusy(q) => hand[q].trip # hand'[r].trip,
         marred' = C!Marked(named)
  PROVE  /\ PMarked' /\ marred \subseteq marred'
         /\ "overlap" \notin marred' => \A q \in Three : ~PBusy(q)
<1>1. \A q \in Three \ {r} : pc'[q] = pc[q]
  OBVIOUS
<1>2. /\ marred \subseteq marred'
      /\ "overlap" \notin marred' => \A q \in Three : ~PBusy(q)
  BY PolicyBusy DEF C!Marked
<1>3. "update met" \in marred' => "overlap" \in marred'
  BY DEF C!Marked, PMarked
<1>4. ASSUME NEW q \in Three, q # r, PBusy(q), PBusy(r)'
      PROVE  /\ "overlap" \in marred'
             /\ pc'[r] = "update" => "update met" \in marred'
             /\ pc[q] = "update" => "update met" \in marred'
  <2>1. q \in C!Busy /\ at # "done" /\ pc'[r] = at
    BY <1>4, PolicyBusy DEF PBusy
  <2>2. marred' = C!Marked(at) /\ C!Busy # {}
    BY <2>1
  <2> QED
    BY <2>1, <2>2 DEF C!Marked
<1>5. ASSUME NEW p \in Three, NEW q \in Three, p # q, PBusy(p)', PBusy(q)'
      PROVE  /\ "overlap" \in marred'
             /\ pc'[q] = "update" => "update met" \in marred'
             /\ pc'[p] = "create" /\ pc'[q] = "create" => hand'[p].trip # hand'[q].trip
  <2>1. CASE p = r
    <3>1. PBusy(q) /\ pc'[q] = pc[q]
      BY <1>1, <1>5, <2>1 DEF PBusy
    <3>2. hand'[q] = hand[q]
      BY <1>5, <2>1
    <3> QED
      BY <1>4, <1>5, <2>1, <3>1, <3>2
  <2>2. CASE q = r
    <3>1. PBusy(p) /\ pc'[p] = pc[p]
      BY <1>1, <1>5, <2>2 DEF PBusy
    <3>2. hand'[p] = hand[p]
      BY <1>5, <2>2
    <3> QED
      BY <1>4, <1>5, <2>2, <3>1, <3>2
  <2>3. CASE p # r /\ q # r
    <3>1. PBusy(p) /\ PBusy(q) /\ pc'[p] = pc[p] /\ pc'[q] = pc[q]
      BY <1>1, <1>5, <2>3 DEF PBusy
    <3>2. hand'[p] = hand[p] /\ hand'[q] = hand[q]
      BY <1>5, <2>3
    <3>3. /\ "overlap" \in marred
          /\ pc[q] = "update" => "update met" \in marred
          /\ pc[p] = "create" /\ pc[q] = "create" => hand[p].trip # hand[q].trip
      BY <1>5, <3>1 DEF PMarked
    <3> QED
      BY <1>2, <3>1, <3>2, <3>3
  <2> QED
    BY <2>1, <2>2, <2>3
<1>6. PMarked'
  BY <1>3, <1>5 DEF PMarked
<1> QED
  BY <1>2, <1>6

LEMMA PolicySelf ==
  ASSUME v3' = v3
  PROVE  PStay
BY DEF PStay, PSame, PLive

LEMMA PolicyBegins ==
  ASSUME PCore, NEW r \in Three, NEW at \in PPlaces \ {"apply read", "apply trips", "revert customer", "revert trips"},
         NEW what, C!Begin(r, at, what), PHeld(r)',
         at = "create" => \A q \in Three : PBusy(q) => hand[q].trip # what.trip,
         PGood /\ at \in {"create", "update"} => PRight(what.doc),
         at = "update" => what.old = v3[what.trip],
         at = "override" => what.doc = v3[what.trip].recovery,
         at = "revert gate" => v4[what.event].status = "applied"
  PROVE  PCore' /\ C!InvoicedKept /\ C!RecoveryKept
<1>1. /\ pc[r] = "new" /\ pc' = [pc EXCEPT ![r] = at] /\ hand' = [hand EXCEPT ![r] = what]
      /\ marred' = C!Marked(at) /\ UNCHANGED <<v1, v2, v3, v4>> /\ DOMAIN v5' = Three
  BY DEF C!Begin
<1>2. /\ \A q \in Three \ {r} : pc'[q] = pc[q] /\ hand'[q] = hand[q]
      /\ pc'[r] = at /\ hand'[r] = what /\ DOMAIN hand' = Three /\ DOMAIN pc = Three
  BY <1>1 DEF PCore, PTyped
<1>3. /\ PMarked' /\ marred \subseteq marred'
      /\ "overlap" \notin marred' => \A q \in Three : ~PBusy(q)
  <2>1. at = "create" => \A q \in Three : PBusy(q) => hand[q].trip # hand'[r].trip
    BY <1>2
  <2>2. PMarked
    BY DEF PCore
  <2> QED
    BY <1>1, <1>2, <2>1, <2>2, PolicyStarts
<1>4. PTyped'
  <2>1. \A t \in Couple : PLive(t)' = PLive(t)
    BY <1>1 DEF PLive
  <2>2. \A e \in Three : v4[e] # nothing =>
          v4[e] \in PEvent /\ pc'[e] = "done" /\ \A d \in v4[e].deltas : PLive(d.trip)
    BY <1>1, <1>2 DEF PCore, PTyped
  <2>3. \A q \in Three \ {r} : pc[q] = "create" => ~PLive(hand[q].trip)'
    BY <1>1 DEF PCore, PTyped, PHeld, PLive
  <2>4. \A e \in Three : v4'[e] # nothing =>
          v4'[e] \in PEvent /\ pc'[e] = "done" /\ \A d \in v4'[e].deltas : PLive(d.trip)
    BY <1>1, <2>2 DEF PLive
  <2> QED
    <3>1. /\ PTyped /\ v1' \in PolicyChoice
          /\ v2' \in [limit : PolicyLimit, version : Nat, active : BOOLEAN]
          /\ v3' \in [Couple -> C!TripDoc \cup {nothing}]
          /\ DOMAIN v4' = Three /\ \A e \in Three : v4[e] # nothing => v4'[e] # nothing
      BY <1>1 DEF PCore, PTyped
    <3>2. \A t \in Couple : PLive(t)' => v3'[t].recovery \in C!RecoveryDoc
      BY <1>1, <3>1 DEF PTyped, PLive
    <3> QED
      BY <1>1, <1>2, <2>1, <2>3, <2>4, <3>1, <3>2, PolicyTypedKept
<1>5. PFigures'
  <2>1. PStay /\ \A t \in Couple : PLive(t) => PLive(t)'
    BY <1>1, PolicySelf DEF PLive
  <2>2. PGood' => PGood
    BY <1>3 DEF PGood
  <2>3. PGood' => PDrawn(r)'
    <3>1. at \notin {"apply trips", "revert trips"}
      OBVIOUS
    <3>2. PGood' => (at \in {"create", "update"} => PRight(what.doc))
      BY <2>2
    <3>3. PGood' => (pc'[r] \in {"create", "update"} => PRight(hand'[r].doc))
      BY <1>2, <3>2
    <3> QED
      BY <1>2, <3>1, <3>3 DEF PDrawn, PRight, PBilled, PHalted
  <2>4. \A e \in Three : POpen(e)' => POpen(e) /\ v4'[e].deltas = v4[e].deltas
    <3> SUFFICES ASSUME NEW e \in Three, POpen(e)'
                 PROVE  POpen(e)
      BY <1>1
    <3>1. CASE v4'[e].status = "applied"
      BY <1>1, <3>1 DEF POpen
    <3>2. ASSUME NEW q \in Three, pc'[q] \in {"revert gate", "revert customer"}, hand'[q].event = e
          PROVE  POpen(e)
      <4>1. CASE q = r
        BY <1>1, <1>2, <3>2, <4>1 DEF POpen
      <4>2. CASE q # r
        BY <1>1, <1>2, <3>2, <4>2 DEF POpen
      <4> QED
        BY <4>1, <4>2
    <3> QED
      BY <3>1, <3>2 DEF POpen
  <2> QED
    BY <1>2, <1>3, <2>1, <2>3, <2>4, PolicyFiguresKept DEF PCore
<1>6. PLone'
  <2>1. PFound(r)'
    <3>1. at \notin {"apply trips", "revert customer", "revert trips"}
      OBVIOUS
    <3> QED
      BY <1>1, <1>2, <3>1 DEF PFound
  <2> QED
    BY <1>2, <1>3, <2>1, PolicyLoneKept
<1>7. PRecovered' /\ C!InvoicedKept /\ C!RecoveryKept
  BY <1>1, <1>3, PolicyIdle DEF PCore
<1> QED
  BY <1>3, <1>4, <1>5, <1>6, <1>7 DEF PCore

LEMMA PolicyThere ==
  /\ \A x \in C!TripDoc : x # nothing
  /\ \A t \in Couple : PTyped /\ PLive(t) => v3[t] \in C!TripDoc
BY OfficePolicies DEF PTyped, PLive

LEMMA PolicyRecoveredAs ==
  ASSUME NEW x, NEW y, PAnswers(x.recovery, x), y.recovery = x.recovery,
         y.shortage_qty = x.shortage_qty, y.product_rate = x.product_rate
  PROVE  PAnswers(y.recovery, y)
BY DEF PAnswers

(* What is over at once leaves trips alone, or an invoice takes one.       *)
LEMMA PolicyOnce ==
  ASSUME PCore, NEW r \in Three, C!AtOnce(r), v4' = v4, v1' \in PolicyChoice,
         v2' \in [limit : PolicyLimit, version : Nat, active : BOOLEAN],
         \/ v3' = v3
         \/ \E t \in Couple : PLive(t) /\ v3' = [v3 EXCEPT ![t] = [v3[t] EXCEPT !.invoiced = ~v3[t].invoiced]]
  PROVE  PCore' /\ C!InvoicedKept /\ C!RecoveryKept
<1>1. /\ pc[r] = "new" /\ pc' = [pc EXCEPT ![r] = "done"] /\ hand' = hand
      /\ marred' = C!Marked("at once") /\ DOMAIN v5' = Three
  BY DEF C!AtOnce
<1>2. /\ \A q \in Three \ {r} : pc'[q] = pc[q] /\ hand'[q] = hand[q]
      /\ pc'[r] = "done" /\ DOMAIN hand' = Three /\ DOMAIN pc = Three
  BY <1>1 DEF PCore, PTyped
<1>3. /\ PMarked' /\ marred \subseteq marred'
      /\ "overlap" \notin marred' => \A q \in Three : ~PBusy(q)
  <2>1. PMarked
    BY DEF PCore
  <2> QED
    BY <1>1, <1>2, <2>1, PolicyStarts
<1>4. PTyped /\ PRecovered /\ (PGood' => PGood) /\ (PClean' => PClean)
  BY <1>3 DEF PCore, PGood, PClean
<1>5. /\ v3' \in [Couple -> C!TripDoc \cup {nothing}]
      /\ \A t \in Couple : PLive(t)' = PLive(t)
      /\ \A t \in Couple : PLive(t)' => v3'[t].recovery \in C!RecoveryDoc
      /\ PStay /\ PRecovered' /\ C!InvoicedKept /\ C!RecoveryKept
  <2>1. CASE v3' = v3
    BY <1>3, <1>4, <2>1, PolicySelf, PolicyIdle DEF PTyped, PLive
  <2>2. ASSUME NEW t \in Couple, PLive(t),
               v3' = [v3 EXCEPT ![t] = [v3[t] EXCEPT !.invoiced = ~v3[t].invoiced]]
        PROVE  /\ v3' \in [Couple -> C!TripDoc \cup {nothing}]
               /\ \A u \in Couple : PLive(u)' = PLive(u)
               /\ \A u \in Couple : PLive(u)' => v3'[u].recovery \in C!RecoveryDoc
               /\ PStay /\ PRecovered' /\ C!InvoicedKept /\ C!RecoveryKept
    <3> DEFINE new == [v3[t] EXCEPT !.invoiced = ~v3[t].invoiced]
    <3>1. v3[t] \in C!TripDoc /\ v3[t].recovery \in C!RecoveryDoc
      BY <1>4, <2>2, PolicyThere DEF PTyped
    <3>2. /\ new \in C!TripDoc
          /\ \A f \in DOMAIN v3[t] \ {"invoiced"} : new[f] = v3[t][f]
      <4>1. (~v3[t].invoiced) \in BOOLEAN
        OBVIOUS
      <4> QED
        BY <3>1, <4>1, PolicyInvoiced
    <3>3. v3' = [v3 EXCEPT ![t] = new]
      BY <2>2
    <3> HIDE DEF new
    <3>4. v3'[t] = new /\ \A u \in Couple \ {t} : v3'[u] = v3[u]
      BY <1>4, <3>3 DEF PTyped
    <3>5. new # nothing /\ {"recovery"} \cup C!Rewritten \subseteq DOMAIN v3[t] \ {"invoiced"}
      BY <3>1, <3>2, PolicyThere, PolicyNamed DEF C!Rewritten, C!Recomputed
    <3>6. new.recovery = v3[t].recovery /\ \A f \in C!Rewritten : new[f] = v3[t][f]
      BY <3>2, <3>5
    <3>7. /\ PSame(v3[t], new) /\ (PRight(v3[t]) => PRight(new))
          /\ new.shortage_qty = v3[t].shortage_qty /\ new.product_rate = v3[t].product_rate
      BY <3>1, <3>2, PolicyAside
    <3>8. PStay
      <4>1. \A u \in Couple \ {t} : PSame(v3[u], v3'[u]) /\ (PRight(v3[u]) => PRight(v3'[u])) /\ PLive(u)' = PLive(u)
        BY <3>4 DEF PSame, PLive
      <4> QED
        BY <2>2, <3>4, <3>7, <4>1 DEF PStay
    <3>9. PClean' => PAnswers(new.recovery, new)
      <4>1. PClean' => PAnswers(v3[t].recovery, v3[t])
        BY <1>4, <2>2 DEF PRecovered
      <4> QED
        BY <3>6, <3>7, <4>1, PolicyRecoveredAs
    <3>10. PRecovered' /\ C!InvoicedKept /\ C!RecoveryKept
      BY <1>3, <1>4, <3>1, <3>2, <3>3, <3>6, <3>9, PolicyPut
    <3>11. v3' \in [Couple -> C!TripDoc \cup {nothing}]
      BY <1>4, <3>2, <3>3 DEF PTyped
    <3>12. \A u \in Couple : PLive(u)' = PLive(u)
      BY <2>2, <3>4, <3>5 DEF PLive
    <3>13. \A u \in Couple : PLive(u)' => v3'[u].recovery \in C!RecoveryDoc
      BY <1>4, <3>1, <3>4, <3>6, <3>12 DEF PTyped
    <3> QED
      BY <3>8, <3>10, <3>11, <3>12, <3>13
  <2> QED
    BY <2>1, <2>2
<1>6. PTyped'
  <2>1. \A e \in Three : v4[e] # nothing =>
          v4[e] \in PEvent /\ pc'[e] = "done" /\ \A d \in v4[e].deltas : PLive(d.trip)
    BY <1>1, <1>2, <1>4 DEF PTyped
  <2>2. \A e \in Three : v4[e] # nothing => \A d \in v4[e].deltas : PLive(d.trip)'
    BY <1>5, <2>1 DEF PEvent, C!EventDoc, PDelta
  <2>3. \A q \in Three \ {r} : pc[q] = "create" => ~PLive(hand[q].trip)'
    <3>1. \A q \in Three : pc[q] = "create" => hand[q].trip \in Couple /\ ~PLive(hand[q].trip)
      BY <1>4 DEF PTyped, PHeld
    <3>2. \A q \in Three : pc[q] = "create" => hand'[q].trip = hand[q].trip /\ ~(v3'[hand[q].trip] # nothing)
      BY <1>1, <1>5, <3>1 DEF PLive
    <3> QED
      BY <3>2 DEF PLive
  <2>4. PHeld(r)'
    <3>1. DOMAIN hand[r] = PHand
      BY <1>4 DEF PTyped, PHeld
    <3> QED
      BY <1>1, <1>2, <3>1 DEF PHeld, PApplying, PReverting
  <2>5. "done" \in PPlaces
    BY DEF PPlaces
  <2> QED
    BY <1>1, <1>2, <1>4, <1>5, <2>1, <2>2, <2>3, <2>4, <2>5, PolicyTypedKept DEF PTyped
<1>7. PFigures'
  <2>1. PDrawn(r)'
    BY <1>2 DEF PDrawn
  <2>2. \A e \in Three : POpen(e)' => POpen(e) /\ v4'[e].deltas = v4[e].deltas
    <3> SUFFICES ASSUME NEW e \in Three, POpen(e)'
                 PROVE  POpen(e)
      OBVIOUS
    <3>1. \A q \in Three : pc'[q] \in {"revert gate", "revert customer"} => pc'[q] = pc[q] /\ hand'[q] = hand[q]
      BY <1>1, <1>2
    <3> QED
      BY <3>1 DEF POpen
  <2> QED
    BY <1>2, <1>3, <1>5, <2>1, <2>2, PolicyFiguresKept DEF PCore
<1>8. PLone'
  <2>1. PFound(r)'
    BY <1>2 DEF PFound
  <2> QED
    BY <1>2, <1>3, <2>1, PolicyLoneKept
<1> QED
  BY <1>3, <1>5, <1>6, <1>7, <1>8 DEF PCore

(* A request at work takes a step.                                         *)
LEMMA PolicyGoes ==
  ASSUME PCore, NEW r \in Three, PBusy(r), NEW at \in PPlaces \ {"create", "update"}, NEW what,
         pc' = [pc EXCEPT ![r] = at], hand' = [hand EXCEPT ![r] = what],
         marred \subseteq marred', marred' \subseteq marred \cup {"death", "updated since"},
         v1' \in PolicyChoice, v2' = v2, v5' = v5,
         v3' \in [Couple -> C!TripDoc \cup {nothing}],
         \A t \in Couple : PLive(t) => PLive(t)',
         \A t \in Couple : PLive(t)' => v3'[t].recovery \in C!RecoveryDoc,
         \A q \in Three \ {r} : pc[q] = "create" => ~(v3'[hand[q].trip] # nothing),
         DOMAIN v4' = Three, \A e \in Three : v4[e] # nothing => v4'[e] # nothing,
         \A e \in Three : v4'[e] # nothing =>
           v4'[e] \in PEvent /\ pc'[e] = "done" /\ \A d \in v4'[e].deltas : PLive(d.trip),
         PHeld(r)', PGood' => PStay /\ PDrawn(r)', "overlap" \notin marred' => PFound(r)',
         \A e \in Three : POpen(e)' =>
           \/ POpen(e) /\ v4'[e].deltas = v4[e].deltas
           \/ PGood' => \A d \in v4'[e].deltas : PFits(d)'
  PROVE  PTyped' /\ PMarked' /\ PFigures' /\ PLone'
<1>1. /\ \A q \in Three \ {r} : pc'[q] = pc[q] /\ hand'[q] = hand[q]
      /\ pc'[r] = at /\ hand'[r] = what /\ DOMAIN hand' = Three /\ DOMAIN pc = Three
  BY DEF PCore, PTyped
<1>2. PTyped /\ PMarked /\ PFigures
  BY DEF PCore
<1>3. PTyped'
  <2>1. \A q \in Three \ {r} : pc[q] = "create" => ~PLive(hand[q].trip)'
    BY <1>1 DEF PLive
  <2> QED
    BY <1>1, <1>2, <2>1, PolicyTypedKept DEF PTyped
<1>4. PMarked'
  BY <1>1, <1>2, PolicyMarkedKept
<1>5. PFigures'
  BY <1>1, <1>2, PolicyFiguresKept
<1>6. PLone'
  <2>1. "overlap" \notin marred' => \A q \in Three \ {r} : ~PBusy(q)
    BY <1>2, PolicyAlone
  <2> QED
    BY <1>1, <2>1, PolicyLoneKept
<1> QED
  BY <1>3, <1>4, <1>5, <1>6

(* It reads, or writes the customer or an event.                           *)
LEMMA PolicyReads ==
  ASSUME PCore, NEW r \in Three, PBusy(r), NEW at \in PPlaces \ {"create", "update"}, NEW what,
         pc' = [pc EXCEPT ![r] = at], hand' = [hand EXCEPT ![r] = what],
         marred \subseteq marred', marred' \subseteq marred \cup {"death"},
         v1' \in PolicyChoice, v2' = v2, v5' = v5, v3' = v3,
         DOMAIN v4' = Three, \A e \in Three : v4[e] # nothing => v4'[e] # nothing,
         \A e \in Three : v4'[e] # nothing =>
           v4'[e] \in PEvent /\ pc'[e] = "done" /\ \A d \in v4'[e].deltas : PLive(d.trip),
         PHeld(r)', PGood' => PDrawn(r)', "overlap" \notin marred' => PFound(r)',
         \A e \in Three : POpen(e)' =>
           \/ POpen(e) /\ v4'[e].deltas = v4[e].deltas
           \/ PGood' => \A d \in v4'[e].deltas : PFits(d)'
  PROVE  PCore' /\ C!InvoicedKept /\ C!RecoveryKept
<1>1. PTyped /\ PRecovered
  BY DEF PCore
<1>2. PStay /\ \A t \in Couple : PLive(t)' = PLive(t)
  BY PolicySelf DEF PLive
<1>3. /\ v3' \in [Couple -> C!TripDoc \cup {nothing}]
      /\ \A t \in Couple : PLive(t)' => v3'[t].recovery \in C!RecoveryDoc
      /\ \A q \in Three \ {r} : pc[q] = "create" => ~(v3'[hand[q].trip] # nothing)
  BY <1>1 DEF PTyped, PHeld, PLive
<1>4. PTyped' /\ PMarked' /\ PFigures' /\ PLone'
  BY <1>2, <1>3, PolicyGoes
<1>5. PRecovered' /\ C!InvoicedKept /\ C!RecoveryKept
  BY <1>1, PolicyIdle
<1> QED
  BY <1>4, <1>5 DEF PCore

LEMMA PolicyDies ==
  ASSUME PCore, NEW r \in Three, C!Die(r)
  PROVE  PCore' /\ C!InvoicedKept /\ C!RecoveryKept
<1>1. /\ PBusy(r) /\ pc' = [pc EXCEPT ![r] = "done"] /\ hand' = [hand EXCEPT ![r] = C!Blank]
      /\ marred' = marred \cup {"death"} /\ UNCHANGED <<v1, v2, v3, v4, v5>>
  BY PolicyBusy DEF C!Die
<1>2. /\ \A q \in Three \ {r} : pc'[q] = pc[q] /\ hand'[q] = hand[q]
      /\ pc'[r] = "done" /\ hand'[r] = C!Blank
  BY <1>1 DEF PCore, PTyped
<1>3. PHeld(r)' /\ PDrawn(r)' /\ PFound(r)'
  <2>1. PHeld(r)'
    BY <1>2, PolicyBlank DEF PHeld, PApplying, PReverting
  <2> QED
    BY <1>2, <2>1 DEF PDrawn, PFound
<1>4. \A e \in Three : v4[e] # nothing =>
        v4[e] \in PEvent /\ pc'[e] = "done" /\ \A d \in v4[e].deltas : PLive(d.trip)
  BY <1>1, <1>2 DEF PCore, PTyped, PBusy
<1>5. \A e \in Three : POpen(e)' => POpen(e) /\ v4'[e].deltas = v4[e].deltas
  <2> SUFFICES ASSUME NEW e \in Three, POpen(e)'
               PROVE  POpen(e)
    BY <1>1
  <2>1. \A q \in Three : pc'[q] \in {"revert gate", "revert customer"} => pc'[q] = pc[q] /\ hand'[q] = hand[q]
    BY <1>2
  <2> QED
    BY <1>1, <2>1 DEF POpen
<1>6. v1 \in PolicyChoice /\ "done" \in PPlaces /\ DOMAIN v4 = Three
  BY DEF PCore, PTyped, PPlaces
<1> QED
  BY <1>1, <1>3, <1>4, <1>5, <1>6, PolicyReads

LEMMA PolicyGoto ==
  ASSUME NEW r \in Three, NEW from, NEW to, NEW what, C!Goto(r, from, to, what),
         DOMAIN pc = Three, DOMAIN hand = Three
  PROVE  /\ pc[r] = from /\ pc' = [pc EXCEPT ![r] = to]
         /\ \A q \in Three \ {r} : pc'[q] = pc[q] /\ hand'[q] = hand[q]
         /\ to = "done" => hand' = [hand EXCEPT ![r] = C!Blank] /\ hand'[r] = C!Blank
         /\ to # "done" => hand' = [hand EXCEPT ![r] = what] /\ hand'[r] = what
         /\ pc'[r] = to
BY DEF C!Goto

(* A request that is over has nothing in hand.                             *)
LEMMA PolicyOver ==
  ASSUME NEW r \in Three, pc'[r] = "done", hand'[r] = C!Blank
  PROVE  PHeld(r)' /\ PDrawn(r)' /\ PFound(r)'
<1>1. PHeld(r)'
  BY PolicyBlank DEF PHeld, PApplying, PReverting
<1> QED
  BY <1>1 DEF PDrawn, PFound

LEMMA PolicyEvents ==
  ASSUME PTyped, NEW r \in Three, PBusy(r), \A q \in Three \ {r} : pc'[q] = pc[q]
  PROVE  \A e \in Three : v4[e] # nothing =>
           e # r /\ v4[e] \in PEvent /\ pc'[e] = "done" /\ \A d \in v4[e].deltas : PLive(d.trip)
BY DEF PTyped, PBusy

LEMMA PolicyOpens ==
  ASSUME NEW r \in Three, \A q \in Three \ {r} : pc'[q] = pc[q] /\ hand'[q] = hand[q],
         pc'[r] \in {"revert gate", "revert customer"} =>
           pc[r] \in {"revert gate", "revert customer"} /\ hand'[r].event = hand[r].event,
         NEW e \in Three, v4'[e] = v4[e], POpen(e)'
  PROVE  POpen(e) /\ v4'[e].deltas = v4[e].deltas
<1>1. CASE v4[e].status = "applied"
  BY <1>1 DEF POpen
<1>2. ASSUME NEW q \in Three, pc'[q] \in {"revert gate", "revert customer"}, hand'[q].event = e
      PROVE  POpen(e)
  BY <1>2 DEF POpen
<1> QED
  BY <1>1, <1>2 DEF POpen

LEMMA PolicyAt ==
  ASSUME PCore, NEW r \in Three
  PROVE  /\ PTyped /\ PMarked /\ PFigures /\ PLone /\ PRecovered /\ PHeld(r)
         /\ DOMAIN pc = Three /\ DOMAIN hand = Three /\ DOMAIN v4 = Three
         /\ DOMAIN hand[r] = PHand
         /\ v1 \in PolicyChoice /\ (PGood => PDrawn(r)) /\ ("overlap" \notin marred => PFound(r))
BY DEF PCore, PTyped, PHeld, PFigures, PLone

(* The steps that read, and those that write the customer or an event.     *)
LEMMA PolicyApplyCustomer ==
  ASSUME PCore, NEW r \in Three, C!ApplyCustomer(r)
  PROVE  PCore' /\ C!InvoicedKept /\ C!RecoveryKept
<1>1. /\ C!Goto(r, "apply customer", "apply read", hand[r]) /\ v1' = hand[r].policy
      /\ UNCHANGED <<v2, v3, v4, v5, marred>>
  BY DEF C!ApplyCustomer
<1>2. /\ pc[r] = "apply customer" /\ pc' = [pc EXCEPT ![r] = "apply read"]
      /\ \A q \in Three \ {r} : pc'[q] = pc[q] /\ hand'[q] = hand[q]
      /\ hand' = [hand EXCEPT ![r] = hand[r]] /\ hand'[r] = hand[r] /\ pc'[r] = "apply read"
  BY <1>1, PolicyAt DEF C!Goto
<1>3. PHeld(r) /\ PBusy(r) /\ "apply read" \in PPlaces /\ hand[r].policy \in PolicyChoice
  BY <1>2, PolicyAt DEF PBusy, PPlaces, PApplying, PHeld
<1>4. PHeld(r)' /\ PDrawn(r)' /\ PFound(r)'
  <2>1. PHeld(r)'
    BY <1>2, <1>3 DEF PHeld, PApplying, PReverting
  <2> QED
    BY <1>2, <2>1 DEF PDrawn, PFound
<1>5. \A e \in Three : v4[e] # nothing =>
        v4[e] \in PEvent /\ pc'[e] = "done" /\ \A d \in v4[e].deltas : PLive(d.trip)
  BY <1>2, <1>3, PolicyEvents, PolicyAt
<1>6. \A e \in Three : POpen(e)' => POpen(e) /\ v4'[e].deltas = v4[e].deltas
  BY <1>1, <1>2, PolicyOpens
<1> QED
  BY <1>1, <1>2, <1>3, <1>4, <1>5, <1>6, PolicyReads, PolicyAt

LEMMA PolicyApplyRead ==
  ASSUME PCore, NEW r \in Three, C!ApplyRead(r)
  PROVE  PCore' /\ C!InvoicedKept /\ C!RecoveryKept
<1> DEFINE todo == {t \in hand[r].todo : C!Eligible(t, hand[r].from)}
           what == [hand[r] EXCEPT !.policy = v1, !.doc = v3, !.todo = todo]
<1>1. C!Goto(r, "apply read", "apply trips", what) /\ UNCHANGED <<v1, v2, v3, v4, v5, marred>>
  BY DEF C!ApplyRead, C!data
<1>2. /\ pc[r] = "apply read" /\ pc' = [pc EXCEPT ![r] = "apply trips"]
      /\ \A q \in Three \ {r} : pc'[q] = pc[q] /\ hand'[q] = hand[q]
      /\ hand' = [hand EXCEPT ![r] = what] /\ hand'[r] = what /\ pc'[r] = "apply trips"
  BY <1>1, PolicyAt DEF C!Goto
<1>3. PHeld(r) /\ PBusy(r) /\ "apply trips" \in PPlaces /\ DOMAIN hand[r] = PHand
  BY <1>2, PolicyAt DEF PBusy, PPlaces, PApplying
<1>4. /\ DOMAIN what = PHand /\ what.policy = v1 /\ what.doc = v3 /\ what.todo = todo
      /\ what.old = hand[r].old /\ what.deltas = hand[r].deltas
  BY <1>3 DEF PHand
<1>5. /\ \A t \in todo : t \in Couple /\ PLive(t) /\ ~v3[t].invoiced
      /\ todo \subseteq Couple
  BY <1>2, <1>3 DEF PHeld, PApplying, C!Eligible, C!Live, PLive
<1> HIDE DEF what, todo
<1>6. PHeld(r)'
  <2>1. \A t \in todo : v3[t] \in C!TripDoc
    BY <1>5, PolicyThere, PolicyAt
  <2>2. hand[r].old \in PolicyChoice /\ hand[r].deltas = {}
    BY <1>2, <1>3 DEF PHeld, PApplying
  <2>3. v1 \in PolicyChoice
    BY PolicyAt
  <2>4. \A t \in todo : PLive(t)'
    BY <1>1, <1>5 DEF PLive
  <2> QED
    BY <1>2, <1>4, <1>5, <2>1, <2>2, <2>3, <2>4 DEF PHeld, PApplying, PReverting
<1>7. PGood' => PDrawn(r)'
  <2> SUFFICES ASSUME PGood'
               PROVE  PDrawn(r)'
    OBVIOUS
  <2>1. \A t \in todo : PRight(v3[t]) /\ PSame(v3[t], v3[t])
    <3>1. PGood
      BY <1>1 DEF PGood
    <3> QED
      BY <1>5, <3>1, PolicyAt DEF PFigures, PSame
  <2>2. what.deltas = {}
    BY <1>2, <1>3, <1>4 DEF PHeld
  <2>3. \A t \in what.todo : PRight(what.doc[t]) /\ PSame(what.doc[t], v3'[t])
    BY <1>1, <1>4, <2>1
  <2>4. \A t \in hand'[r].todo : PRight(hand'[r].doc[t]) /\ PSame(hand'[r].doc[t], v3'[t])
    BY <1>2, <2>3
  <2> QED
    BY <1>2, <2>2, <2>4 DEF PDrawn, PRight, PBilled, PHalted, PSame
<1>8. PFound(r)'
  BY <1>1, <1>2, <1>4, <1>5 DEF PFound
<1>9. \A e \in Three : v4[e] # nothing =>
        v4[e] \in PEvent /\ pc'[e] = "done" /\ \A d \in v4[e].deltas : PLive(d.trip)
  BY <1>2, <1>3, PolicyEvents, PolicyAt
<1>10. \A e \in Three : POpen(e)' => POpen(e) /\ v4'[e].deltas = v4[e].deltas
  BY <1>1, <1>2, PolicyOpens
<1> QED
  BY <1>1, <1>2, <1>3, <1>6, <1>7, <1>8, <1>9, <1>10, PolicyReads, PolicyAt

LEMMA PolicyApplyEvent ==
  ASSUME PCore, NEW r \in Three, C!ApplyEvent(r)
  PROVE  PCore' /\ C!InvoicedKept /\ C!RecoveryKept
<1> DEFINE event == [old |-> hand[r].old, deltas |-> hand[r].deltas, status |-> "applied"]
<1>1. /\ C!Goto(r, "apply trips", "done", C!Blank) /\ v4' = [v4 EXCEPT ![r] = event]
      /\ UNCHANGED <<v1, v2, v3, v5, marred>>
  BY DEF C!ApplyEvent
<1>2. /\ pc[r] = "apply trips" /\ pc' = [pc EXCEPT ![r] = "done"]
      /\ \A q \in Three \ {r} : pc'[q] = pc[q] /\ hand'[q] = hand[q]
      /\ hand' = [hand EXCEPT ![r] = C!Blank] /\ hand'[r] = C!Blank /\ pc'[r] = "done"
  BY <1>1, PolicyAt DEF C!Goto
<1>3. PHeld(r) /\ PBusy(r) /\ "done" \in PPlaces
  BY <1>2, PolicyAt DEF PBusy, PPlaces
<1>4. PHeld(r)' /\ PDrawn(r)' /\ PFound(r)'
  BY <1>2, PolicyOver
<1>5. /\ hand[r].deltas \subseteq PDelta /\ hand[r].old \in PolicyChoice
      /\ \A d \in hand[r].deltas : PLive(d.trip)
  BY <1>2, <1>3 DEF PHeld, PApplying
<1>6. event \in PEvent /\ event.deltas = hand[r].deltas
  BY <1>5 DEF PEvent, PDelta, C!EventDoc
<1> HIDE DEF event
<1>7. v4'[r] = event /\ \A e \in Three \ {r} : v4'[e] = v4[e]
  BY <1>1, PolicyAt
<1>8. \A e \in Three : v4[e] # nothing =>
        e # r /\ v4[e] \in PEvent /\ pc'[e] = "done" /\ \A d \in v4[e].deltas : PLive(d.trip)
  BY <1>2, <1>3, PolicyEvents, PolicyAt
<1>9. ASSUME NEW e \in Three, POpen(e)'
      PROVE  \/ POpen(e) /\ v4'[e].deltas = v4[e].deltas
             \/ PGood' => \A d \in v4'[e].deltas : PFits(d)'
  <2>1. CASE e # r
    BY <1>2, <1>7, <1>9, <2>1, PolicyOpens
  <2>2. CASE e = r
    <3>1. PGood' => \A d \in hand[r].deltas : PFits(d)
      BY <1>1, <1>2, PolicyAt DEF PGood, PDrawn
    <3>2. PGood' => \A d \in hand[r].deltas : PFits(d)'
      BY <1>1, <3>1 DEF PFits, PSame
    <3> QED
      BY <1>6, <1>7, <2>2, <3>2
  <2> QED
    BY <2>1, <2>2
<1>10. DOMAIN v4' = Three
  BY <1>1, PolicyAt
<1>11. \A e \in Three : v4'[e] # nothing =>
         v4'[e] \in PEvent /\ pc'[e] = "done" /\ \A d \in v4'[e].deltas : PLive(d.trip)
  BY <1>2, <1>5, <1>6, <1>7, <1>8
<1>12. \A e \in Three : v4[e] # nothing => v4'[e] # nothing
  BY <1>7, <1>8
<1>13. v1' \in PolicyChoice
  BY <1>1, PolicyAt
<1> QED
  BY <1>1, <1>2, <1>3, <1>4, <1>9, <1>10, <1>11, <1>12, <1>13, PolicyReads

LEMMA PolicyRevertGate ==
  ASSUME PCore, NEW r \in Three, C!RevertGate(r)
  PROVE  PCore' /\ C!InvoicedKept /\ C!RecoveryKept
<1> DEFINE e == hand[r].event
<1>1. /\ pc[r] = "revert gate" /\ UNCHANGED <<v1, v2, v3, v4, v5, marred>>
      /\ \/ C!Goto(r, "revert gate", "done", C!Blank)
         \/ /\ C!Goto(r, "revert gate", "revert customer", hand[r])
            /\ ~ \E t \in C!TripsOf(e) : C!Invoiced(t)
  BY DEF C!RevertGate, C!Read, C!data
<1>2. PHeld(r) /\ PBusy(r) /\ {"done", "revert customer"} \subseteq PPlaces
  BY <1>1, PolicyAt DEF PBusy, PPlaces, PReverting
<1>3. CASE C!Goto(r, "revert gate", "done", C!Blank)
  <2>1. /\ pc' = [pc EXCEPT ![r] = "done"]
        /\ \A q \in Three \ {r} : pc'[q] = pc[q] /\ hand'[q] = hand[q]
        /\ hand' = [hand EXCEPT ![r] = C!Blank] /\ hand'[r] = C!Blank /\ pc'[r] = "done"
    BY <1>3, PolicyAt DEF C!Goto
  <2>2. PHeld(r)' /\ PDrawn(r)' /\ PFound(r)'
    BY <2>1, PolicyOver
  <2>3. \A f \in Three : v4[f] # nothing =>
          v4[f] \in PEvent /\ pc'[f] = "done" /\ \A d \in v4[f].deltas : PLive(d.trip)
    BY <1>2, <2>1, PolicyEvents, PolicyAt
  <2>4. \A f \in Three : POpen(f)' => POpen(f) /\ v4'[f].deltas = v4[f].deltas
    BY <1>1, <2>1, PolicyOpens
  <2> QED
    BY <1>1, <1>2, <2>1, <2>2, <2>3, <2>4, PolicyReads, PolicyAt
<1>4. CASE /\ C!Goto(r, "revert gate", "revert customer", hand[r])
           /\ ~ \E t \in C!TripsOf(e) : C!Invoiced(t)
  <2>1. /\ pc' = [pc EXCEPT ![r] = "revert customer"]
        /\ \A q \in Three \ {r} : pc'[q] = pc[q] /\ hand'[q] = hand[q]
        /\ hand' = [hand EXCEPT ![r] = hand[r]] /\ hand'[r] = hand[r] /\ pc'[r] = "revert customer"
    BY <1>4, PolicyAt DEF C!Goto
  <2>2. PHeld(r)'
    BY <1>1, <1>2, <2>1 DEF PHeld, PApplying, PReverting
  <2>3. PDrawn(r)'
    BY <2>1 DEF PDrawn
  <2>4. PFound(r)'
    <3>1. e \in Three /\ v4[e] # nothing
      BY <1>1, <1>2 DEF PHeld, PReverting
    <3>2. \A d \in v4[e].deltas : PLive(d.trip) /\ d.trip \in C!TripsOf(e)
      BY <3>1, PolicyAt DEF PTyped, C!TripsOf
    <3>3. \A d \in v4[e].deltas : ~v3[d.trip].invoiced
      BY <1>4, <3>2 DEF C!Invoiced, C!Live, PLive
    <3> QED
      BY <1>1, <2>1, <3>3 DEF PFound
  <2>5. \A f \in Three : v4[f] # nothing =>
          v4[f] \in PEvent /\ pc'[f] = "done" /\ \A d \in v4[f].deltas : PLive(d.trip)
    BY <1>2, <2>1, PolicyEvents, PolicyAt
  <2>6. \A f \in Three : POpen(f)' => POpen(f) /\ v4'[f].deltas = v4[f].deltas
    BY <1>1, <2>1, PolicyOpens
  <2> QED
    BY <1>1, <1>2, <2>1, <2>2, <2>3, <2>4, <2>5, <2>6, PolicyReads, PolicyAt
<1> QED
  BY <1>1, <1>3, <1>4

LEMMA PolicyRevertCustomer ==
  ASSUME PCore, NEW r \in Three, C!RevertCustomer(r)
  PROVE  PCore' /\ C!InvoicedKept /\ C!RecoveryKept
<1> DEFINE e == hand[r].event
           what == [hand[r] EXCEPT !.deltas = v4[e].deltas]
<1>1. /\ C!Goto(r, "revert customer", "revert trips", what)
      /\ v1' = v4[e].old /\ UNCHANGED <<v2, v3, v4, v5, marred>>
  BY DEF C!RevertCustomer
<1>2. /\ pc[r] = "revert customer" /\ pc' = [pc EXCEPT ![r] = "revert trips"]
      /\ \A q \in Three \ {r} : pc'[q] = pc[q] /\ hand'[q] = hand[q]
      /\ hand' = [hand EXCEPT ![r] = what] /\ hand'[r] = what /\ pc'[r] = "revert trips"
  BY <1>1, PolicyAt DEF C!Goto
<1>3. PHeld(r) /\ PBusy(r) /\ "revert trips" \in PPlaces /\ DOMAIN hand[r] = PHand
  BY <1>2, PolicyAt DEF PBusy, PPlaces, PReverting
<1>4. DOMAIN what = PHand /\ what.event = hand[r].event /\ what.deltas = v4[e].deltas
  BY <1>3 DEF PHand
<1>5. /\ hand[r].event \in Three /\ v4[e] # nothing /\ v4[e] \in PEvent
      /\ \A d \in v4[e].deltas : PLive(d.trip)
  <2>1. hand[r].event \in Three /\ v4[hand[r].event] # nothing
    BY <1>2, <1>3 DEF PHeld, PReverting
  <2> QED
    BY <2>1, PolicyAt DEF PTyped
<1> HIDE DEF what
<1>6. PHeld(r)'
  <2>1. v4[e].deltas \subseteq PDelta
    BY <1>5 DEF PEvent, PDelta, C!EventDoc
  <2>2. \A d \in v4[e].deltas : PLive(d.trip)'
    BY <1>1, <1>5 DEF PLive
  <2>3. v4'[e] # nothing
    BY <1>1, <1>5
  <2> QED
    BY <1>2, <1>4, <1>5, <2>1, <2>2, <2>3 DEF PHeld, PApplying, PReverting
<1>7. PGood' => PDrawn(r)'
  <2>1. POpen(e)
    BY <1>2, <1>5 DEF POpen
  <2>2. PGood' => \A d \in v4[e].deltas : PFits(d)
    BY <1>1, <1>5, <2>1, PolicyAt DEF PGood, PFigures
  <2>3. PGood' => \A d \in v4[e].deltas : PFits(d)'
    BY <1>1, <2>2 DEF PFits, PSame
  <2>4. pc'[r] \notin {"create", "update", "apply trips"}
    BY <1>2
  <2>5. PGood' => \A d \in hand'[r].deltas : PFits(d)'
    BY <1>2, <1>4, <2>3
  <2> QED
    BY <2>4, <2>5 DEF PDrawn
<1>8. "overlap" \notin marred' => PFound(r)'
  <2>1. "overlap" \notin marred => \A d \in v4[e].deltas : ~v3[d.trip].invoiced
    BY <1>2, PolicyAt DEF PFound
  <2> QED
    BY <1>1, <1>2, <1>4, <2>1 DEF PFound
<1>9. \A f \in Three : v4[f] # nothing =>
        v4[f] \in PEvent /\ pc'[f] = "done" /\ \A d \in v4[f].deltas : PLive(d.trip)
  BY <1>2, <1>3, PolicyEvents, PolicyAt
<1>10. \A f \in Three : POpen(f)' => POpen(f) /\ v4'[f].deltas = v4[f].deltas
  BY <1>1, <1>2, PolicyOpens
<1>11. v1' \in PolicyChoice
  BY <1>1, <1>5 DEF PEvent, PDelta, C!EventDoc
<1> QED
  BY <1>1, <1>2, <1>3, <1>6, <1>7, <1>8, <1>9, <1>10, <1>11, PolicyReads, PolicyAt

LEMMA PolicyRevertFlip ==
  ASSUME PCore, NEW r \in Three, C!RevertFlip(r)
  PROVE  PCore' /\ C!InvoicedKept /\ C!RecoveryKept
<1> DEFINE e == hand[r].event
           event == [v4[e] EXCEPT !.status = "reverted"]
<1>1. /\ C!Goto(r, "revert trips", "done", C!Blank) /\ v4' = [v4 EXCEPT ![e] = event]
      /\ UNCHANGED <<v1, v2, v3, v5, marred>>
  BY DEF C!RevertFlip
<1>2. /\ pc[r] = "revert trips" /\ pc' = [pc EXCEPT ![r] = "done"]
      /\ \A q \in Three \ {r} : pc'[q] = pc[q] /\ hand'[q] = hand[q]
      /\ hand' = [hand EXCEPT ![r] = C!Blank] /\ hand'[r] = C!Blank /\ pc'[r] = "done"
  BY <1>1, PolicyAt DEF C!Goto
<1>3. PHeld(r) /\ PBusy(r) /\ "done" \in PPlaces
  BY <1>2, PolicyAt DEF PBusy, PPlaces
<1>4. PHeld(r)' /\ PDrawn(r)' /\ PFound(r)'
  BY <1>2, PolicyOver
<1>5. \A f \in Three : v4[f] # nothing =>
        v4[f] \in PEvent /\ pc'[f] = "done" /\ \A d \in v4[f].deltas : PLive(d.trip)
  BY <1>2, <1>3, PolicyEvents, PolicyAt
<1>6. e \in Three /\ v4[e] # nothing
  BY <1>2, <1>3 DEF PHeld, PReverting
<1>7. event \in PEvent /\ event.deltas = v4[e].deltas /\ event.status = "reverted"
  <2>1. v4[e] \in PEvent
    BY <1>5, <1>6
  <2> QED
    BY <2>1 DEF PEvent, PDelta, C!EventDoc
<1> HIDE DEF event
<1>8. v4'[e] = event /\ \A f \in Three \ {e} : v4'[f] = v4[f]
  BY <1>1, <1>6, PolicyAt
<1>9. ASSUME NEW f \in Three, POpen(f)'
      PROVE  POpen(f) /\ v4'[f].deltas = v4[f].deltas
  <2>1. CASE f # e
    BY <1>2, <1>8, <1>9, <2>1, PolicyOpens
  <2>2. CASE f = e
    <3>1. \E q \in Three : pc'[q] \in {"revert gate", "revert customer"} /\ hand'[q].event = e
      BY <1>7, <1>8, <1>9, <2>2 DEF POpen
    <3>2. \E q \in Three : pc[q] \in {"revert gate", "revert customer"} /\ hand[q].event = e
      BY <1>2, <3>1
    <3> QED
      BY <1>6, <1>7, <1>8, <2>2, <3>2 DEF POpen
  <2> QED
    BY <2>1, <2>2
<1>10. DOMAIN v4' = Three
  BY <1>1, PolicyAt
<1>11. v1' \in PolicyChoice
  BY <1>1, PolicyAt
<1>12. \A f \in Three : v4'[f] # nothing =>
         v4'[f] \in PEvent /\ pc'[f] = "done" /\ \A d \in v4'[f].deltas : PLive(d.trip)
  BY <1>5, <1>6, <1>7, <1>8
<1>13. \A f \in Three : v4[f] # nothing => v4'[f] # nothing
  BY <1>7, <1>8, OfficePolicies DEF PEvent, PDelta, C!EventDoc
<1> QED
  BY <1>1, <1>2, <1>3, <1>4, <1>9, <1>10, <1>11, <1>12, <1>13, PolicyReads

(* The steps that write a trip.                                            *)
LEMMA PolicySets ==
  ASSUME PTyped, NEW t \in Couple, NEW new \in C!TripDoc, new.recovery \in C!RecoveryDoc,
         v3' = [v3 EXCEPT ![t] = new]
  PROVE  /\ v3'[t] = new /\ \A u \in Couple \ {t} : v3'[u] = v3[u]
         /\ v3' \in [Couple -> C!TripDoc \cup {nothing}] /\ PLive(t)'
         /\ \A u \in Couple : PLive(u) => PLive(u)'
         /\ \A u \in Couple : PLive(u)' => v3'[u].recovery \in C!RecoveryDoc
         /\ PLive(t) /\ PSame(v3[t], new) /\ (PRight(v3[t]) => PRight(new)) => PStay
         /\ ~PLive(t) /\ PRight(new) => PStay
<1>1. /\ v3'[t] = new /\ \A u \in Couple \ {t} : v3'[u] = v3[u]
      /\ v3' \in [Couple -> C!TripDoc \cup {nothing}] /\ PLive(t)'
  BY PolicyThere DEF PTyped, PLive
<1>2. \A u \in Couple : PLive(u) => PLive(u)'
  BY <1>1 DEF PLive
<1>3. \A u \in Couple : PLive(u)' => v3'[u].recovery \in C!RecoveryDoc
  BY <1>1 DEF PLive, PTyped
<1>4. \A u \in Couple \ {t} :
        /\ PLive(u) => PSame(v3[u], v3'[u]) /\ (PRight(v3[u]) => PRight(v3'[u]))
        /\ ~PLive(u) /\ PLive(u)' => PRight(v3'[u])
  BY <1>1 DEF PSame, PLive
<1>5. PLive(t) /\ PSame(v3[t], new) /\ (PRight(v3[t]) => PRight(new)) => PStay
  BY <1>1, <1>4 DEF PStay
<1>6. ~PLive(t) /\ PRight(new) => PStay
  BY <1>1, <1>4 DEF PStay
<1> QED
  BY <1>1, <1>2, <1>3, <1>5, <1>6

LEMMA PolicySound ==
  ASSUME PCore
  PROVE  /\ PClean => PGood /\ "overlap" \notin marred
         /\ \A t \in Couple : PGood /\ PLive(t) => PRight(v3[t])
         /\ \A t \in Couple : PClean /\ PLive(t) => PAnswers(v3[t].recovery, v3[t])
         /\ \A t \in Couple : PLive(t) => v3[t] \in C!TripDoc /\ v3[t].recovery \in C!RecoveryDoc
<1>1. PClean => PGood /\ "overlap" \notin marred
  BY DEF PCore, PMarked, PClean, PGood
<1>2. \A t \in Couple : PGood /\ PLive(t) => PRight(v3[t])
  BY DEF PCore, PFigures
<1>3. \A t \in Couple : PClean /\ PLive(t) => PAnswers(v3[t].recovery, v3[t])
  BY DEF PCore, PRecovered
<1>4. \A t \in Couple : PLive(t) => v3[t] \in C!TripDoc /\ v3[t].recovery \in C!RecoveryDoc
  BY PolicyThere DEF PCore, PTyped
<1> QED
  BY <1>1, <1>2, <1>3, <1>4

(* The events stay, and no undoing of one begins.                          *)
LEMMA PolicyUntouched ==
  ASSUME PTyped, NEW r \in Three, PBusy(r), pc'[r] \notin {"revert gate", "revert customer"},
         \A q \in Three \ {r} : pc'[q] = pc[q] /\ hand'[q] = hand[q], v4' = v4
  PROVE  /\ DOMAIN v4' = Three
         /\ \A e \in Three : v4[e] # nothing => v4'[e] # nothing
         /\ \A e \in Three : v4'[e] # nothing =>
              v4'[e] \in PEvent /\ pc'[e] = "done" /\ \A d \in v4'[e].deltas : PLive(d.trip)
         /\ \A e \in Three : POpen(e)' => POpen(e) /\ v4'[e].deltas = v4[e].deltas
<1>1. \A e \in Three : v4'[e] # nothing =>
        v4'[e] \in PEvent /\ pc'[e] = "done" /\ \A d \in v4'[e].deltas : PLive(d.trip)
  BY PolicyEvents
<1>2. \A e \in Three : POpen(e)' => POpen(e) /\ v4'[e].deltas = v4[e].deltas
  BY PolicyOpens
<1> QED
  BY <1>1, <1>2 DEF PTyped

LEMMA PolicyOfRule ==
  ASSUME v2 \in [limit : PolicyLimit, version : Nat, active : BOOLEAN], NEW doc \in C!TripDoc
  PROVE  /\ C!RecoveryOf(doc) \in C!RecoveryDoc
         /\ \A x : PSame(doc, x) /\ x.shortage_qty = doc.shortage_qty
              => PAnswers(C!RecoveryOf(doc), x)
<1>1. /\ v2.limit \in PolicyLimit /\ v2.version \in Nat /\ v2.active \in BOOLEAN
      /\ v2.limit \in Int /\ v2.limit # nothing
  BY OfficePolicies
<1>2. C!Recovery(doc.shortage_qty, v2.limit, doc.product_rate) \in Int
  <2>1. doc.shortage_qty \in Int
    BY DEF C!TripDoc
  <2> QED
    BY <1>1, <2>1, PolicyFields DEF C!Recovery, C!Positive
<1>3. CASE ~v2.active
  BY <1>3 DEF C!RecoveryOf, C!RecoveryDoc, PAnswers
<1>4. CASE v2.active
  <2>1. C!RecoveryOf(doc).limit = v2.limit /\ C!RecoveryOf(doc).override = nothing
        /\ C!RecoveryOf(doc).system = C!Recovery(doc.shortage_qty, v2.limit, doc.product_rate)
        /\ C!RecoveryOf(doc).final = C!Recovery(doc.shortage_qty, v2.limit, doc.product_rate)
    BY <1>4 DEF C!RecoveryOf
  <2>2. C!RecoveryOf(doc) \in C!RecoveryDoc
    BY <1>1, <1>2, <1>4 DEF C!RecoveryOf, C!RecoveryDoc
  <2>3. \A x : PSame(doc, x) => x.product_rate = doc.product_rate
    BY DEF PSame, PEntered
  <2> QED
    BY <1>1, <2>1, <2>2, <2>3 DEF PAnswers
<1> QED
  BY <1>1, <1>3, <1>4

LEMMA PolicyCreateInsert ==
  ASSUME PCore, NEW r \in Three, C!CreateInsert(r)
  PROVE  PCore' /\ C!InvoicedKept /\ C!RecoveryKept
<1> DEFINE t == hand[r].trip
           doc == hand[r].doc
           new == [doc EXCEPT !.recovery = C!RecoveryOf(doc)]
<1>1. /\ pc[r] = "create" /\ C!Goto(r, "create", "done", C!Blank)
      /\ v3' = [v3 EXCEPT ![t] = new] /\ UNCHANGED <<v1, v2, v4, v5, marred>>
  BY DEF C!CreateInsert, C!PutTrip
<1>2. /\ pc' = [pc EXCEPT ![r] = "done"] /\ hand' = [hand EXCEPT ![r] = C!Blank]
      /\ \A q \in Three \ {r} : pc'[q] = pc[q] /\ hand'[q] = hand[q]
      /\ hand'[r] = C!Blank /\ pc'[r] = "done"
  BY <1>1, PolicyAt DEF C!Goto
<1>3. /\ PTyped /\ PMarked /\ PRecovered /\ PBusy(r) /\ "done" \in PPlaces
      /\ t \in Couple /\ ~PLive(t) /\ doc \in C!TripDoc /\ (PGood => PRight(doc))
      /\ v1 \in PolicyChoice
      /\ v2 \in [limit : PolicyLimit, version : Nat, active : BOOLEAN]
  BY <1>1, PolicyAt DEF PBusy, PPlaces, PHeld, PDrawn, PTyped
<1>4. /\ new \in C!TripDoc /\ new.recovery = C!RecoveryOf(doc)
      /\ new.recovery \in C!RecoveryDoc /\ PAnswers(new.recovery, new)
      /\ (PRight(doc) => PRight(new))
  <2>1. C!RecoveryOf(doc) \in C!RecoveryDoc
    BY <1>3, PolicyOfRule
  <2>2. /\ new \in C!TripDoc /\ new.recovery = C!RecoveryOf(doc)
        /\ \A f \in DOMAIN doc \ {"recovery"} : new[f] = doc[f]
    BY <1>3, <2>1, PolicyRecovered
  <2>3. PSame(doc, new) /\ (PRight(doc) => PRight(new))
    BY <1>3, <2>2, PolicyAside
  <2>4. new.shortage_qty = doc.shortage_qty
    BY <1>3, <2>2, PolicyAside
  <2>5. PAnswers(C!RecoveryOf(doc), new)
    BY <1>3, <2>3, <2>4, PolicyOfRule
  <2> QED
    BY <2>1, <2>2, <2>3, <2>5
<1> HIDE DEF t, doc, new
<1>5. /\ v3'[t] = new /\ \A u \in Couple \ {t} : v3'[u] = v3[u]
      /\ v3' \in [Couple -> C!TripDoc \cup {nothing}]
      /\ \A u \in Couple : PLive(u) => PLive(u)'
      /\ \A u \in Couple : PLive(u)' => v3'[u].recovery \in C!RecoveryDoc
      /\ (PRight(new) => PStay)
  BY <1>1, <1>3, <1>4, PolicySets
<1>6. PHeld(r)' /\ PDrawn(r)' /\ PFound(r)'
  BY <1>2, PolicyOver
<1>7. /\ DOMAIN v4' = Three
      /\ \A e \in Three : v4[e] # nothing => v4'[e] # nothing
      /\ \A e \in Three : v4'[e] # nothing =>
           v4'[e] \in PEvent /\ pc'[e] = "done" /\ \A d \in v4'[e].deltas : PLive(d.trip)
      /\ \A e \in Three : POpen(e)' => POpen(e) /\ v4'[e].deltas = v4[e].deltas
  BY <1>1, <1>2, <1>3, PolicyUntouched
<1>8. PGood' => PStay
  BY <1>1, <1>3, <1>4, <1>5 DEF PGood
<1>9. \A q \in Three \ {r} : pc[q] = "create" => ~(v3'[hand[q].trip] # nothing)
  <2> SUFFICES ASSUME NEW q \in Three \ {r}, pc[q] = "create"
               PROVE  v3'[hand[q].trip] = nothing
    OBVIOUS
  <2>1. PBusy(q) /\ PHeld(q) /\ hand[q].trip \in Couple /\ ~PLive(hand[q].trip)
    BY PolicyAt DEF PBusy, PHeld
  <2>2. hand[q].trip # t
    BY <1>1, <1>3, <2>1 DEF PMarked, t
  <2> QED
    BY <1>5, <2>1, <2>2 DEF PLive
<1>10. PTyped' /\ PMarked' /\ PFigures' /\ PLone'
  BY <1>1, <1>2, <1>3, <1>5, <1>6, <1>7, <1>8, <1>9, PolicyGoes
<1>11. PRecovered' /\ C!InvoicedKept /\ C!RecoveryKept
  <2>1. ~C!Invoiced(t)
    BY <1>3 DEF C!Invoiced, C!Live, PLive
  <2> QED
    BY <1>1, <1>3, <1>4, <2>1, PolicyPut
<1> QED
  BY <1>10, <1>11 DEF PCore

LEMMA PolicyRefreshed ==
  ASSUME NEW old \in C!RecoveryDoc, NEW doc \in C!TripDoc
  PROVE  LET rec == C!Refreshed(old, doc)
         IN  /\ rec \in C!RecoveryDoc /\ rec.limit = old.limit
             /\ rec.version = old.version /\ rec.override = old.override
             /\ \A x, y : /\ x.shortage_qty = doc.shortage_qty
                          /\ x.product_rate = doc.product_rate
                          /\ (old.limit = nothing => PAnswers(old, y))
                          => PAnswers(rec, x)
<1>1. CASE old.limit = nothing
  BY <1>1 DEF C!Refreshed, PAnswers
<1>2. CASE old.limit # nothing
  <2> DEFINE due == C!Recovery(doc.shortage_qty, old.limit, doc.product_rate)
             final == IF old.override = nothing THEN due ELSE old.override
             rec == C!Refreshed(old, doc)
  <2>1. old.limit \in Int /\ doc.shortage_qty \in Int /\ doc.product_rate \in Int
    BY <1>2, OfficePolicies DEF C!RecoveryDoc, C!TripDoc
  <2>2. due \in Int
    BY <2>1 DEF C!Recovery, C!Positive
  <2>3. final \in Int
    BY <2>2, OfficePolicies DEF C!RecoveryDoc
  <2>4. rec = [old EXCEPT !.system = due, !.final = final]
    BY <1>2 DEF C!Refreshed
  <2> HIDE DEF due, final, rec
  <2>5. /\ rec \in C!RecoveryDoc /\ rec.limit = old.limit
        /\ rec.version = old.version /\ rec.override = old.override
        /\ rec.system = due /\ rec.final = final
    BY <2>2, <2>3, <2>4 DEF C!RecoveryDoc
  <2>6. \A x : x.shortage_qty = doc.shortage_qty /\ x.product_rate = doc.product_rate
               => PAnswers(rec, x)
    BY <1>2, <2>5 DEF PAnswers, due, final
  <2> QED
    BY <2>5, <2>6 DEF rec
<1> QED
  BY <1>1, <1>2

(* Nobody else is at work when an update writes, unless it is marked.      *)
LEMMA PolicyUpdateWrite ==
  ASSUME PCore, NEW r \in Three, C!UpdateWrite(r)
  PROVE  PCore' /\ C!InvoicedKept /\ C!RecoveryKept
<1> DEFINE t == hand[r].trip
           doc == hand[r].doc
           old == hand[r].old
           rec == C!Refreshed(old.recovery, doc)
           new == [doc EXCEPT !.invoiced = old.invoiced, !.recovery = rec]
<1>1. /\ pc[r] = "update" /\ C!Goto(r, "update", "done", C!Blank)
      /\ v3' = [v3 EXCEPT ![t] = new] /\ UNCHANGED <<v1, v2, v4, v5>>
      /\ marred' = IF C!Applied(t) THEN marred \cup {"updated since"} ELSE marred
  BY DEF C!UpdateWrite, C!PutTrip
<1>2. /\ pc' = [pc EXCEPT ![r] = "done"] /\ hand' = [hand EXCEPT ![r] = C!Blank]
      /\ \A q \in Three \ {r} : pc'[q] = pc[q] /\ hand'[q] = hand[q]
      /\ hand'[r] = C!Blank /\ pc'[r] = "done"
  BY <1>1, PolicyAt DEF C!Goto
<1>3. /\ PTyped /\ PMarked /\ PRecovered /\ PBusy(r) /\ "done" \in PPlaces
      /\ t \in Couple /\ PLive(t) /\ doc \in C!TripDoc /\ old \in C!TripDoc
      /\ old.recovery \in C!RecoveryDoc /\ (PGood => PRight(doc))
      /\ ("overlap" \notin marred => old = v3[t])
      /\ v1 \in PolicyChoice
  BY <1>1, PolicyAt DEF PBusy, PPlaces, PHeld, PDrawn, PFound
<1>4. /\ marred \subseteq marred' /\ marred' \subseteq marred \cup {"death", "updated since"}
      /\ (PGood' => PGood) /\ (PClean' => PClean) /\ (PGood' => ~C!Applied(t))
  BY <1>1 DEF PGood, PClean
<1>5. /\ rec \in C!RecoveryDoc /\ rec.limit = old.recovery.limit
      /\ rec.version = old.recovery.version /\ rec.override = old.recovery.override
      /\ \A x : /\ x.shortage_qty = doc.shortage_qty /\ x.product_rate = doc.product_rate
                /\ (old.recovery.limit = nothing => PAnswers(old.recovery, v3[t]))
                => PAnswers(rec, x)
  <2> HIDE DEF t, doc, old, new
  <2>1. old.recovery \in C!RecoveryDoc /\ doc \in C!TripDoc
    BY <1>3
  <2> DEFINE had == old.recovery
  <2> HIDE DEF had
  <2>2. /\ rec \in C!RecoveryDoc /\ rec.limit = had.limit
        /\ rec.version = had.version /\ rec.override = had.override
    BY <2>1, PolicyRefreshed DEF had
  <2>3. ASSUME NEW x, x.shortage_qty = doc.shortage_qty, x.product_rate = doc.product_rate,
               had.limit = nothing => PAnswers(had, v3[t])
        PROVE  PAnswers(rec, x)
    BY <2>1, <2>3, PolicyRefreshed DEF had
  <2> QED
    BY <2>2, <2>3 DEF had
<1>6. /\ new \in C!TripDoc /\ new.recovery = rec /\ (PRight(doc) => PRight(new))
      /\ new.shortage_qty = doc.shortage_qty /\ new.product_rate = doc.product_rate
  <2> DEFINE mid == [doc EXCEPT !.invoiced = old.invoiced]
  <2>1. old.invoiced \in BOOLEAN
    BY <1>3 DEF C!TripDoc
  <2>2. /\ mid \in C!TripDoc /\ \A f \in DOMAIN doc \ {"invoiced"} : mid[f] = doc[f]
    BY <1>3, <2>1, PolicyInvoiced
  <2>3. new = [mid EXCEPT !.recovery = rec]
    OBVIOUS
  <2> HIDE DEF mid, new, rec
  <2>4. /\ new \in C!TripDoc /\ new.recovery = rec
        /\ \A f \in DOMAIN mid \ {"recovery"} : new[f] = mid[f]
    BY <1>5, <2>2, <2>3, PolicyRecovered
  <2>5. DOMAIN mid = DOMAIN doc
    BY DEF mid
  <2> QED
    BY <1>3, <2>2, <2>4, <2>5, PolicyAside
<1> HIDE DEF t, doc, old, new, rec
<1>7. /\ v3'[t] = new /\ \A u \in Couple \ {t} : v3'[u] = v3[u]
      /\ v3' \in [Couple -> C!TripDoc \cup {nothing}]
      /\ \A u \in Couple : PLive(u) => PLive(u)'
      /\ \A u \in Couple : PLive(u)' => v3'[u].recovery \in C!RecoveryDoc
  BY <1>1, <1>3, <1>5, <1>6, PolicySets
<1>8. PHeld(r)' /\ PDrawn(r)' /\ PFound(r)'
  BY <1>2, PolicyOver
<1>9. /\ DOMAIN v4' = Three
      /\ \A e \in Three : v4[e] # nothing => v4'[e] # nothing
      /\ \A e \in Three : v4'[e] # nothing =>
           v4'[e] \in PEvent /\ pc'[e] = "done" /\ \A d \in v4'[e].deltas : PLive(d.trip)
      /\ \A e \in Three : POpen(e)' => POpen(e) /\ v4'[e].deltas = v4[e].deltas
  BY <1>1, <1>2, <1>3, PolicyUntouched
<1>10. \A q \in Three \ {r} : pc[q] = "create" => ~(v3'[hand[q].trip] # nothing)
  <2> SUFFICES ASSUME NEW q \in Three \ {r}, pc[q] = "create"
               PROVE  v3'[hand[q].trip] = nothing
    OBVIOUS
  <2>1. PHeld(q) /\ hand[q].trip \in Couple /\ ~PLive(hand[q].trip)
    BY PolicyAt DEF PHeld
  <2> QED
    BY <1>3, <1>7, <2>1 DEF PLive
<1>11. PTyped'
  <2>1. \A q \in Three \ {r} : pc[q] = "create" => ~PLive(hand[q].trip)'
    BY <1>2, <1>10 DEF PLive
  <2>2. v2 \in [limit : PolicyLimit, version : Nat, active : BOOLEAN] /\ DOMAIN hand = Three /\ DOMAIN v5 = Three
    BY <1>3 DEF PTyped
  <2> QED
    BY <1>1, <1>2, <1>3, <1>7, <1>8, <1>9, <2>1, <2>2, PolicyTypedKept
<1>12. PMarked'
  BY <1>1, <1>2, <1>3, <1>4, PolicyMarkedKept
<1>13. PFigures'
  <2> SUFFICES ASSUME PGood'
               PROVE  /\ \A u \in Couple : PLive(u)' => PRight(v3'[u])
                      /\ \A q \in Three : PDrawn(q)'
                      /\ \A e \in Three : POpen(e)' => \A d \in v4'[e].deltas : PFits(d)'
    BY DEF PFigures, PRight, PBilled, PHalted
  <2>1. \A q \in Three \ {r} : ~PBusy(q)
    BY <1>1, <1>3, <1>4 DEF PMarked, PGood
  <2>2. \A q \in Three : PDrawn(q)'
    BY <1>2, <1>8, <2>1 DEF PDrawn, PBusy
  <2>3. ASSUME NEW u \in Couple, PLive(u)'
        PROVE  PRight(v3'[u])
    <3>1. PLive(u) \/ u = t
      BY <1>7, <2>3 DEF PLive
    <3> QED
      BY <1>3, <1>4, <1>6, <1>7, <3>1, PolicySound
  <2>4. ASSUME NEW e \in Three, POpen(e)', NEW d \in v4'[e].deltas
        PROVE  PFits(d)'
    <3>1. POpen(e) /\ d \in v4[e].deltas
      BY <1>9, <2>4
    <3>2. v4[e].status = "applied"
      BY <1>1, <2>1, <3>1 DEF POpen, PBusy
    <3>3. d.trip # t
      BY <1>4, <3>1, <3>2 DEF C!Applied, POpen
    <3>4. d.trip \in Couple
      BY <1>3, <3>1 DEF PTyped, POpen, PEvent, C!EventDoc
    <3>5. PFits(d)
      BY <1>4, <3>1 DEF PCore, PFigures
    <3> QED
      BY <1>7, <3>3, <3>4, <3>5 DEF PFits, PSame
  <2> QED
    BY <2>2, <2>3, <2>4
<1>14. PLone'
  <2>1. "overlap" \notin marred' => \A q \in Three \ {r} : ~PBusy(q)
    BY <1>3, <1>4, PolicyAlone
  <2> QED
    BY <1>2, <1>8, <2>1, PolicyLoneKept
<1>15. PRecovered' /\ C!InvoicedKept /\ C!RecoveryKept
  <2>1. ASSUME PClean'
        PROVE  PAnswers(new.recovery, new) /\ old = v3[t]
    <3>1. old = v3[t] /\ PAnswers(old.recovery, v3[t])
      BY <1>3, <1>4, <2>1, PolicySound
    <3> QED
      BY <1>5, <1>6, <3>1
  <2>2. ~ \A q \in Three : pc[q] # "update"
    BY <1>1
  <2> QED
    BY <1>1, <1>3, <1>4, <1>5, <1>6, <2>1, <2>2, PolicyPut
<1> QED
  BY <1>11, <1>12, <1>13, <1>14, <1>15 DEF PCore

LEMMA PolicyUncreated ==
  ASSUME PCore, NEW r \in Three, NEW t \in Couple, PLive(t),
         \A u \in Couple \ {t} : v3'[u] = v3[u]
  PROVE  \A q \in Three \ {r} : pc[q] = "create" => ~(v3'[hand[q].trip] # nothing)
<1> SUFFICES ASSUME NEW q \in Three \ {r}, pc[q] = "create"
             PROVE  v3'[hand[q].trip] = nothing
  OBVIOUS
<1>1. hand[q].trip \in Couple /\ ~PLive(hand[q].trip)
  BY PolicyAt DEF PHeld
<1> QED
  BY <1>1 DEF PLive

LEMMA PolicyOverrideWrite ==
  ASSUME PCore, NEW r \in Three, C!OverrideWrite(r)
  PROVE  PCore' /\ C!InvoicedKept /\ C!RecoveryKept
<1> DEFINE t == hand[r].trip
           amount == hand[r].old
           rec == hand[r].doc
           final == IF amount = nothing THEN rec.system ELSE amount
           told == [rec EXCEPT !.override = amount, !.final = final]
           new == [v3[t] EXCEPT !.recovery = told]
<1>1. /\ pc[r] = "override" /\ C!Goto(r, "override", "done", C!Blank)
      /\ v3' = [v3 EXCEPT ![t] = new] /\ UNCHANGED <<v1, v2, v4, v5, marred>>
  BY DEF C!OverrideWrite, C!PutTrip
<1>2. /\ pc' = [pc EXCEPT ![r] = "done"] /\ hand' = [hand EXCEPT ![r] = C!Blank]
      /\ \A q \in Three \ {r} : pc'[q] = pc[q] /\ hand'[q] = hand[q]
      /\ hand'[r] = C!Blank /\ pc'[r] = "done"
  BY <1>1, PolicyAt DEF C!Goto
<1>3. /\ PTyped /\ PMarked /\ PRecovered /\ PBusy(r) /\ "done" \in PPlaces
      /\ t \in Couple /\ PLive(t) /\ rec \in C!RecoveryDoc /\ amount \in PolicyCharge \cup {nothing}
      /\ ("overlap" \notin marred => rec = v3[t].recovery) /\ v1 \in PolicyChoice
      /\ v3[t] \in C!TripDoc
  BY <1>1, PolicyAt, PolicySound DEF PBusy, PPlaces, PHeld, PFound
<1>4. /\ told \in C!RecoveryDoc /\ told.limit = rec.limit /\ told.version = rec.version
      /\ told.override = amount /\ told.final = final /\ told.system = rec.system
  <2>1. final \in Int
    BY <1>3, OfficePolicies DEF C!RecoveryDoc
  <2> HIDE DEF final, rec, amount
  <2> QED
    BY <1>3, <2>1 DEF C!RecoveryDoc
<1>5. /\ new \in C!TripDoc /\ new.recovery = told
      /\ \A f \in DOMAIN v3[t] \ {"recovery"} : new[f] = v3[t][f]
      /\ PSame(v3[t], new) /\ (PRight(v3[t]) => PRight(new))
      /\ new.shortage_qty = v3[t].shortage_qty /\ new.product_rate = v3[t].product_rate
  <2> HIDE DEF t, told
  <2>1. /\ new \in C!TripDoc /\ new.recovery = told
        /\ \A f \in DOMAIN v3[t] \ {"recovery"} : new[f] = v3[t][f]
    BY <1>3, <1>4, PolicyRecovered
  <2> QED
    BY <1>3, <2>1, PolicyAside
<1> HIDE DEF t, amount, rec, told, new
<1>6. /\ v3'[t] = new /\ \A u \in Couple \ {t} : v3'[u] = v3[u]
      /\ v3' \in [Couple -> C!TripDoc \cup {nothing}]
      /\ \A u \in Couple : PLive(u) => PLive(u)'
      /\ \A u \in Couple : PLive(u)' => v3'[u].recovery \in C!RecoveryDoc
      /\ PStay
  BY <1>1, <1>3, <1>4, <1>5, PolicySets
<1>7. PHeld(r)' /\ PDrawn(r)' /\ PFound(r)'
  BY <1>2, PolicyOver
<1>8. /\ DOMAIN v4' = Three
      /\ \A e \in Three : v4[e] # nothing => v4'[e] # nothing
      /\ \A e \in Three : v4'[e] # nothing =>
           v4'[e] \in PEvent /\ pc'[e] = "done" /\ \A d \in v4'[e].deltas : PLive(d.trip)
      /\ \A e \in Three : POpen(e)' => POpen(e) /\ v4'[e].deltas = v4[e].deltas
  BY <1>1, <1>2, <1>3, PolicyUntouched
<1>9. \A q \in Three \ {r} : pc[q] = "create" => ~(v3'[hand[q].trip] # nothing)
  BY <1>3, <1>6, PolicyUncreated
<1>10. PTyped' /\ PMarked' /\ PFigures' /\ PLone'
  BY <1>1, <1>2, <1>3, <1>6, <1>7, <1>8, <1>9, PolicyGoes
<1>11. PRecovered' /\ C!InvoicedKept /\ C!RecoveryKept
  <2>1. PClean => rec = v3[t].recovery /\ PAnswers(rec, v3[t])
    BY <1>3, PolicySound
  <2>2. PAnswers(rec, v3[t]) => PAnswers(told, new)
    BY <1>4, <1>5 DEF PAnswers, final
  <2>3. PClean' => PClean
    BY <1>1 DEF PClean
  <2>4. \A f \in C!Rewritten : new[f] = v3[t][f]
    <3>1. C!Rewritten \subseteq DOMAIN v3[t] \ {"recovery"}
      BY <1>3, PolicyNamed DEF C!Rewritten, C!Recomputed
    <3> QED
      BY <1>5, <3>1
  <2>5. PClean' => PAnswers(new.recovery, new)
    BY <1>5, <2>1, <2>2, <2>3
  <2>6. PClean' => /\ new.recovery.limit = v3[t].recovery.limit
                   /\ new.recovery.version = v3[t].recovery.version
    BY <1>4, <1>5, <2>1, <2>3
  <2> QED
    BY <1>1, <1>3, <1>4, <1>5, <2>4, <2>5, <2>6, PolicyPut
<1> QED
  BY <1>10, <1>11 DEF PCore

(* A trip takes the figures of a change, or those that were before it.     *)
LEMMA PolicyWrites ==
  ASSUME PCore, NEW r \in Three, NEW place \in {"apply trips", "revert trips"}, pc[r] = place,
         NEW t \in Couple, PLive(t), NEW y \in C!TripDoc, NEW fields,
         fields \in {C!Rewritten, C!Kept},
         v3' = [v3 EXCEPT ![t] = C!With(v3[t], fields, y)],
         pc' = [pc EXCEPT ![r] = place], hand' = [hand EXCEPT ![r] = hand'[r]],
         UNCHANGED <<v1, v2, v4, v5, marred>>,
         PGood => PBilled(y) /\ PSame(v3[t], y), "overlap" \notin marred => ~v3[t].invoiced,
         PHeld(r)', PGood /\ PStay => PDrawn(r)',
         "overlap" \notin marred' => PFound(r)'
  PROVE  PCore' /\ C!InvoicedKept /\ C!RecoveryKept
<1> DEFINE new == C!With(v3[t], fields, y)
<1>1. /\ PTyped /\ PMarked /\ PRecovered /\ PBusy(r) /\ v1 \in PolicyChoice
      /\ place \in PPlaces \ {"create", "update"}
      /\ \A q \in Three \ {r} : pc'[q] = pc[q] /\ hand'[q] = hand[q]
      /\ v3[t] \in C!TripDoc /\ v3[t].recovery \in C!RecoveryDoc
  BY PolicyAt, PolicySound DEF PBusy, PPlaces, PApplying, PReverting
<1>2. /\ new \in C!TripDoc /\ PSame(v3[t], new) /\ new.recovery = v3[t].recovery
      /\ new.product_rate = v3[t].product_rate
      /\ (PGood => PRight(new) /\ new.shortage_qty = v3[t].shortage_qty)
  <2> DEFINE x == v3[t]
  <2>1. x \in C!TripDoc
    BY <1>1
  <2> HIDE DEF x
  <2>3. /\ C!With(x, fields, y) \in C!TripDoc /\ PSame(x, C!With(x, fields, y))
        /\ C!With(x, fields, y).recovery = x.recovery
        /\ C!With(x, fields, y).product_rate = x.product_rate
    <3>1. CASE fields = C!Rewritten
      BY <2>1, <3>1, PolicyTaken
    <3>2. CASE fields = C!Kept
      BY <2>1, <3>2, PolicyTaken
    <3> QED
      BY <3>1, <3>2
  <2>4. PRight(x) /\ PBilled(y) /\ PSame(x, y) =>
          /\ PRight(C!With(x, fields, y))
          /\ C!With(x, fields, y).shortage_qty = x.shortage_qty
    <3>1. CASE fields = C!Rewritten
      BY <2>1, <3>1, PolicyTaken
    <3>2. CASE fields = C!Kept
      BY <2>1, <3>2, PolicyTaken
    <3> QED
      BY <3>1, <3>2
  <2>2. PGood => PRight(v3[t])
    BY PolicySound
  <2> QED
    BY <2>2, <2>3, <2>4 DEF x
<1> HIDE DEF new
<1>3. /\ v3'[t] = new /\ \A u \in Couple \ {t} : v3'[u] = v3[u]
      /\ v3' \in [Couple -> C!TripDoc \cup {nothing}]
      /\ \A u \in Couple : PLive(u) => PLive(u)'
      /\ \A u \in Couple : PLive(u)' => v3'[u].recovery \in C!RecoveryDoc
      /\ (PGood => PStay)
  <2>1. v3' = [v3 EXCEPT ![t] = new]
    BY DEF new
  <2> QED
    BY <1>1, <1>2, <2>1, PolicySets
<1>4. PGood' => PGood /\ PStay /\ PDrawn(r)'
  BY <1>3 DEF PGood
<1>5. /\ DOMAIN v4' = Three
      /\ \A e \in Three : v4[e] # nothing => v4'[e] # nothing
      /\ \A e \in Three : v4'[e] # nothing =>
           v4'[e] \in PEvent /\ pc'[e] = "done" /\ \A d \in v4'[e].deltas : PLive(d.trip)
      /\ \A e \in Three : POpen(e)' => POpen(e) /\ v4'[e].deltas = v4[e].deltas
  <2>1. pc'[r] \notin {"revert gate", "revert customer"}
    BY PolicyAt
  <2> QED
    BY <1>1, <2>1, PolicyUntouched
<1>6. \A q \in Three \ {r} : pc[q] = "create" => ~(v3'[hand[q].trip] # nothing)
  BY <1>1, <1>3, PolicyUncreated
<1>7. PTyped' /\ PMarked' /\ PFigures' /\ PLone'
  BY <1>1, <1>3, <1>4, <1>5, <1>6, PolicyGoes
<1>8. PRecovered' /\ C!InvoicedKept /\ C!RecoveryKept
  <2>1. PClean' => PAnswers(new.recovery, new)
    <3>1. PClean' => PGood /\ PAnswers(v3[t].recovery, v3[t])
      BY PolicySound DEF PClean
    <3> QED
      BY <1>2, <3>1, PolicyRecoveredAs
  <2>2. C!Invoiced(t) => "overlap" \in marred'
    BY DEF C!Invoiced
  <2>3. v3' = [v3 EXCEPT ![t] = new]
    BY DEF new
  <2> QED
    BY <1>1, <1>2, <2>1, <2>2, <2>3, PolicyPut
<1> QED
  BY <1>7, <1>8 DEF PCore

LEMMA PolicyApplyTrip ==
  ASSUME PCore, NEW r \in Three, C!ApplyTrip(r)
  PROVE  PCore' /\ C!InvoicedKept /\ C!RecoveryKept
<1>1. PICK t \in hand[r].todo :
        /\ C!Goto(r, "apply trips", "apply trips",
             [hand[r] EXCEPT !.todo = @ \ {t},
                             !.deltas = @ \cup {[trip |-> t, old |-> hand[r].doc[t]]}])
        /\ v3' = [v3 EXCEPT ![t] = C!With(v3[t], C!Rewritten, C!Restamped(hand[r].doc[t], hand[r].policy))]
        /\ UNCHANGED <<v1, v2, v4, v5, marred>>
  BY DEF C!ApplyTrip, C!PutTrip
<1>0. PICK d : d = [trip |-> t, old |-> hand[r].doc[t]]
  OBVIOUS
<1> DEFINE doc == hand[r].doc
           todo == hand[r].todo \ {t}
           deltas == hand[r].deltas \cup {d}
           what == [hand[r] EXCEPT !.todo = todo, !.deltas = deltas]
           y == C!Restamped(doc[t], hand[r].policy)
<1>2. /\ pc[r] = "apply trips" /\ pc' = [pc EXCEPT ![r] = "apply trips"] /\ pc'[r] = "apply trips"
      /\ hand' = [hand EXCEPT ![r] = what] /\ hand'[r] = what
  BY <1>0, <1>1, PolicyAt DEF C!Goto
<1>3. /\ hand[r].todo \subseteq Couple /\ t \in Couple /\ PLive(t)
      /\ hand[r].policy \in PolicyChoice /\ hand[r].old \in PolicyChoice
      /\ hand[r].deltas \subseteq PDelta /\ \A x \in hand[r].deltas : PLive(x.trip)
      /\ \A u \in hand[r].todo : PLive(u) /\ doc[u] \in C!TripDoc
  BY <1>1, <1>2, PolicyAt DEF PHeld, PApplying
<1>4. /\ PGood => \A u \in hand[r].todo : PRight(doc[u]) /\ PSame(doc[u], v3[u])
      /\ PGood => \A x \in hand[r].deltas : PFits(x)
      /\ "overlap" \notin marred => \A u \in hand[r].todo : doc[u] = v3[u] /\ ~v3[u].invoiced
  BY <1>2, PolicyAt DEF PDrawn, PFound
<1>5. /\ DOMAIN what = PHand /\ what.todo = todo /\ what.deltas = deltas /\ what.doc = doc
      /\ what.policy = hand[r].policy /\ what.old = hand[r].old
  BY PolicyAt DEF PHand
<1>6. d \in PDelta /\ d.trip = t /\ d.old = doc[t]
  BY <1>0, <1>1, <1>3 DEF PDelta
<1>7. /\ y \in C!TripDoc /\ PRight(y) /\ PSame(doc[t], y)
  BY <1>1, <1>3, PolicyRestamped
<1> HIDE DEF what, y, todo, deltas, doc
<1>8. PGood => PBilled(y) /\ PSame(v3[t], y)
  BY <1>1, <1>4, <1>7, PolicyAlike DEF PRight
<1>9. PTyped /\ v3[t] \in C!TripDoc
  BY <1>3, PolicyAt, PolicySound
<1>10. /\ v3' = [v3 EXCEPT ![t] = C!With(v3[t], C!Rewritten, y)] /\ \A u \in Couple \ {t} : v3'[u] = v3[u]
       /\ \A u \in Couple : PLive(u) => PLive(u)'
       /\ PSame(v3[t], v3'[t])
  <2>1. /\ C!With(v3[t], C!Rewritten, y) \in C!TripDoc
        /\ PSame(v3[t], C!With(v3[t], C!Rewritten, y))
        /\ C!With(v3[t], C!Rewritten, y).recovery = v3[t].recovery
    BY <1>7, <1>9, PolicyTaken
  <2>2. v3[t].recovery \in C!RecoveryDoc
    BY <1>3, PolicySound
  <2>3. v3' = [v3 EXCEPT ![t] = C!With(v3[t], C!Rewritten, y)]
    BY <1>1 DEF y, doc
  <2> QED
    BY <1>3, <1>9, <2>1, <2>2, <2>3, PolicySets
<1>11. PHeld(r)'
  <2>1. todo \subseteq Couple /\ deltas \subseteq PDelta
    BY <1>3, <1>6 DEF todo, deltas
  <2>2. \A u \in todo : PLive(u)' /\ doc[u] \in C!TripDoc
    BY <1>3, <1>10 DEF todo
  <2>3. \A x \in deltas : PLive(x.trip)'
    BY <1>3, <1>6, <1>10 DEF deltas, PDelta
  <2> QED
    BY <1>2, <1>3, <1>5, <2>1, <2>2, <2>3 DEF PHeld, PApplying, PReverting
<1>12. ASSUME PGood, PStay
       PROVE  PDrawn(r)'
  <2>1. \A u \in todo : PRight(doc[u]) /\ PSame(doc[u], v3'[u])
    BY <1>3, <1>4, <1>10, <1>12 DEF todo
  <2>2. PFits(d)'
    <3>1. PSame(doc[t], v3'[t])
      BY <1>1, <1>4, <1>10, <1>12, PolicyAlike
    <3>2. PRight(doc[t])
      BY <1>1, <1>4, <1>12
    <3> QED
      BY <1>6, <3>1, <3>2 DEF PFits, PSame
  <2>3. \A x \in hand[r].deltas : PFits(x)'
    BY <1>3, <1>4, <1>12, PolicyFitsOn
  <2>4. \A x \in hand'[r].deltas : PFits(x)'
    BY <1>2, <1>5, <2>2, <2>3 DEF deltas
  <2>5. \A u \in hand'[r].todo : PRight(hand'[r].doc[u]) /\ PSame(hand'[r].doc[u], v3'[u])
    BY <1>2, <1>5, <2>1
  <2> QED
    BY <1>2, <2>4, <2>5 DEF PDrawn, PRight, PBilled, PHalted, PSame
<1>13. ASSUME "overlap" \notin marred'
       PROVE  PFound(r)'
  <2>1. \A u \in todo : doc[u] = v3'[u] /\ ~v3'[u].invoiced
    BY <1>1, <1>3, <1>4, <1>10, <1>13 DEF todo
  <2> QED
    BY <1>2, <1>5, <2>1 DEF PFound
<1> QED
  <2>1. /\ UNCHANGED <<v1, v2, v4, v5, marred>> /\ hand' = [hand EXCEPT ![r] = hand'[r]]
        /\ "overlap" \notin marred => ~v3[t].invoiced
    BY <1>1, <1>2, <1>4
  <2> QED
    BY <1>2, <1>3, <1>7, <1>8, <1>10, <1>11, <1>12, <1>13, <2>1, PolicyWrites

LEMMA PolicyRevertTrip ==
  ASSUME PCore, NEW r \in Three, C!RevertTrip(r)
  PROVE  PCore' /\ C!InvoicedKept /\ C!RecoveryKept
<1>1. PICK d \in hand[r].deltas :
        /\ C!Goto(r, "revert trips", "revert trips", [hand[r] EXCEPT !.deltas = @ \ {d}])
        /\ v3' = [v3 EXCEPT ![d.trip] = C!With(v3[d.trip], C!Kept, d.old)]
        /\ UNCHANGED <<v1, v2, v4, v5, marred>>
  BY DEF C!RevertTrip, C!PutTrip
<1> DEFINE t == d.trip
           deltas == hand[r].deltas \ {d}
           what == [hand[r] EXCEPT !.deltas = deltas]
<1>2. /\ pc[r] = "revert trips" /\ pc' = [pc EXCEPT ![r] = "revert trips"]
      /\ pc'[r] = "revert trips" /\ hand' = [hand EXCEPT ![r] = what] /\ hand'[r] = what
  BY <1>1, PolicyAt DEF C!Goto
<1>3. /\ hand[r].deltas \subseteq PDelta /\ \A x \in hand[r].deltas : PLive(x.trip)
      /\ hand[r].event \in Three /\ v4[hand[r].event] # nothing
  BY <1>2, PolicyAt DEF PHeld, PReverting
<1>4. t \in Couple /\ PLive(t) /\ d.old \in C!TripDoc
  BY <1>1, <1>3 DEF PDelta
<1>5. /\ PGood => \A x \in hand[r].deltas : PFits(x)
      /\ "overlap" \notin marred => \A x \in hand[r].deltas : ~v3[x.trip].invoiced
  BY <1>2, PolicyAt DEF PDrawn, PFound
<1>6. DOMAIN what = PHand /\ what.deltas = deltas /\ what.event = hand[r].event
  BY PolicyAt DEF PHand
<1> HIDE DEF what, deltas, t
<1>7. PGood => PBilled(d.old) /\ PSame(v3[t], d.old)
  BY <1>1, <1>5, PolicyAlike DEF PFits, PRight, t
<1>8. PTyped /\ v3[t] \in C!TripDoc
  BY <1>4, PolicyAt, PolicySound
<1>9. /\ \A u \in Couple \ {t} : v3'[u] = v3[u]
      /\ \A u \in Couple : PLive(u) => PLive(u)'
      /\ v3'[t].invoiced = v3[t].invoiced
  <2>1. /\ C!With(v3[t], C!Kept, d.old) \in C!TripDoc
        /\ C!With(v3[t], C!Kept, d.old).recovery = v3[t].recovery
        /\ C!With(v3[t], C!Kept, d.old).invoiced = v3[t].invoiced
    BY <1>4, <1>8, PolicyTaken
  <2>2. v3[t].recovery \in C!RecoveryDoc
    BY <1>4, PolicySound
  <2>3. v3' = [v3 EXCEPT ![t] = C!With(v3[t], C!Kept, d.old)]
    BY <1>1 DEF t
  <2> QED
    BY <1>4, <1>8, <2>1, <2>2, <2>3, PolicySets
<1>10. PHeld(r)'
  <2>1. deltas \subseteq PDelta /\ \A x \in deltas : PLive(x.trip)'
    BY <1>3, <1>9 DEF deltas, PDelta
  <2>2. v4'[hand[r].event] # nothing
    BY <1>1, <1>3
  <2> QED
    BY <1>2, <1>3, <1>6, <2>1, <2>2 DEF PHeld, PApplying, PReverting
<1>11. ASSUME PGood, PStay
       PROVE  PDrawn(r)'
  <2>1. \A x \in deltas : PFits(x)'
    BY <1>3, <1>5, <1>11, PolicyFitsOn DEF deltas
  <2>2. \A x \in hand'[r].deltas : PFits(x)'
    BY <1>2, <1>6, <2>1
  <2> QED
    BY <1>2, <2>2 DEF PDrawn
<1>12. ASSUME "overlap" \notin marred'
       PROVE  PFound(r)'
  <2>1. \A x \in deltas : ~v3[x.trip].invoiced /\ x.trip \in Couple
    BY <1>1, <1>3, <1>5, <1>12 DEF deltas, PDelta
  <2>2. \A x \in deltas : ~v3'[x.trip].invoiced
    BY <1>9, <2>1
  <2> QED
    BY <1>2, <1>6, <2>2 DEF PFound
<1> QED
  BY <1>1, <1>2, <1>4, <1>5, <1>7, <1>10, <1>11, <1>12, PolicyWrites DEF t

(* The requests that begin, and those that are over at once.               *)
LEMMA PolicyBegun ==
  ASSUME PCore, NEW r \in Three, NEW at, NEW what, C!Begin(r, at, what)
  PROVE  /\ pc'[r] = at /\ hand'[r] = what /\ UNCHANGED <<v1, v2, v3, v4>>
         /\ \A e \in Three : v4[e] # nothing => v4'[e] # nothing
         /\ \A t \in Couple : PLive(t)' <=> PLive(t)
BY DEF C!Begin, PCore, PTyped, PLive

LEMMA PolicyCreateRead ==
  ASSUME PCore, NEW r \in Three, NEW t \in Couple, NEW s \in PolicySheet, C!CreateRead(r, t, s)
  PROVE  PCore' /\ C!InvoicedKept /\ C!RecoveryKept
<1>1. PICK doc, what :
        /\ doc = C!Created(s, v1) /\ what = [C!Blank EXCEPT !.trip = t, !.doc = doc]
        /\ C!Begin(r, "create", what)
        /\ ~PLive(t) /\ \A q \in Three : PBusy(q) => hand[q].trip # t
  BY PolicyBusy DEF C!CreateRead, C!Live, PLive
<1>2. DOMAIN what = PHand /\ what.trip = t /\ what.doc = doc
  BY <1>1, PolicyBlank DEF PHand
<1>3. doc \in C!TripDoc /\ PRight(doc)
  BY <1>1, PolicyCreated, PolicyAt
<1>4. "create" \in PPlaces
  BY DEF PPlaces
<1>5. PHeld(r)'
  <2>1. /\ pc'[r] = "create" /\ hand'[r] = what
        /\ \A f \in Three : v4[f] # nothing => v4'[f] # nothing
        /\ \A u \in Couple : PLive(u)' <=> PLive(u)
    BY <1>1, PolicyBegun
  <2> QED
    BY <1>1, <1>2, <1>3, <2>1 DEF PHeld, PApplying, PReverting
<1> QED
  BY <1>1, <1>2, <1>3, <1>4, <1>5, PolicyBegins

LEMMA PolicyUpdateFind ==
  ASSUME PCore, NEW r \in Three, NEW t \in Couple, NEW s \in PolicySheet, C!UpdateFind(r, t, s)
  PROVE  PCore' /\ C!InvoicedKept /\ C!RecoveryKept
<1>1. PICK old, doc, what :
        /\ old = v3[t] /\ doc = C!Compute(C!Entered(v3[t], s))
        /\ what = [C!Blank EXCEPT !.trip = t, !.old = old, !.doc = doc]
        /\ C!Begin(r, "update", what) /\ PLive(t)
  BY DEF C!UpdateFind, C!Live, PLive
<1>2. DOMAIN what = PHand /\ what.trip = t /\ what.doc = doc /\ what.old = old
  BY <1>1, PolicyBlank DEF PHand
<1>3. /\ doc \in C!TripDoc /\ PRight(doc)
      /\ old \in C!TripDoc /\ old.recovery \in C!RecoveryDoc
  <2>1. old \in C!TripDoc /\ old.recovery \in C!RecoveryDoc /\ s \in C!TripDoc
    BY <1>1, PolicySound, OfficePolicies
  <2>2. C!Entered(old, s) \in C!TripDoc
    BY <2>1, PolicyEntered
  <2>3. doc \in C!TripDoc /\ PRight(doc)
    BY <1>1, <2>2, PolicyComputed, PolicyAgain
  <2> QED
    BY <2>1, <2>3
<1>4. "update" \in PPlaces
  BY DEF PPlaces
<1>5. PHeld(r)'
  <2>1. /\ pc'[r] = "update" /\ hand'[r] = what
        /\ \A f \in Three : v4[f] # nothing => v4'[f] # nothing
        /\ \A u \in Couple : PLive(u)' <=> PLive(u)
    BY <1>1, PolicyBegun
  <2> QED
    BY <1>1, <1>2, <1>3, <2>1 DEF PHeld, PApplying, PReverting
<1> DEFINE at == "update"
<1>6. /\ at \in PPlaces \ {"apply read", "apply trips", "revert customer", "revert trips"}
      /\ at \notin {"create", "override", "revert gate"} /\ C!Begin(r, at, what)
      /\ PRight(what.doc) /\ what.old = v3[what.trip]
  BY <1>1, <1>2, <1>3, <1>4
<1> HIDE DEF at
<1> QED
  BY <1>5, <1>6, PolicyBegins

LEMMA PolicyOverrideFind ==
  ASSUME PCore, NEW r \in Three, NEW t \in Couple, NEW amount \in PolicyCharge \cup {nothing},
         C!OverrideFind(r, t, amount)
  PROVE  PCore' /\ C!InvoicedKept /\ C!RecoveryKept
<1>1. PICK rec, what :
        /\ rec = v3[t].recovery
        /\ what = [C!Blank EXCEPT !.trip = t, !.doc = rec, !.old = amount]
        /\ C!Begin(r, "override", what) /\ PLive(t)
  BY DEF C!OverrideFind, C!Live, PLive
<1>2. DOMAIN what = PHand /\ what.trip = t /\ what.doc = rec /\ what.old = amount
  BY <1>1, PolicyBlank DEF PHand
<1>3. rec \in C!RecoveryDoc
  BY <1>1, PolicySound
<1>4. "override" \in PPlaces
  BY DEF PPlaces
<1>5. PHeld(r)'
  <2>1. /\ pc'[r] = "override" /\ hand'[r] = what
        /\ \A f \in Three : v4[f] # nothing => v4'[f] # nothing
        /\ \A u \in Couple : PLive(u)' <=> PLive(u)
    BY <1>1, PolicyBegun
  <2> QED
    BY <1>1, <1>2, <1>3, <2>1 DEF PHeld, PApplying, PReverting
<1> DEFINE at == "override"
<1>6. /\ at \in PPlaces \ {"apply read", "apply trips", "revert customer", "revert trips"}
      /\ at \notin {"create", "update", "revert gate"} /\ C!Begin(r, at, what)
      /\ what.doc = v3[what.trip].recovery
  BY <1>1, <1>2, <1>4
<1> HIDE DEF at
<1> QED
  BY <1>5, <1>6, PolicyBegins

LEMMA PolicyApplyFind ==
  ASSUME PCore, NEW r \in Three, NEW policy \in PolicyChoice, NEW from,
         NEW chosen \in SUBSET Couple, C!ApplyFind(r, policy, from, chosen)
  PROVE  PCore' /\ C!InvoicedKept /\ C!RecoveryKept
<1>1. PICK what :
        /\ what = [C!Blank EXCEPT !.policy = policy, !.old = v1, !.from = from, !.todo = chosen]
        /\ C!Begin(r, "apply customer", what)
  BY DEF C!ApplyFind
<1>2. /\ DOMAIN what = PHand /\ what.policy = policy /\ what.old = v1 /\ what.todo = chosen
      /\ what.deltas = {}
  BY <1>1, PolicyBlank DEF PHand
<1>3. v1 \in PolicyChoice
  BY PolicyAt
<1>4. "apply customer" \in PPlaces
  BY DEF PPlaces, PApplying
<1>5. PHeld(r)'
  <2>1. /\ pc'[r] = "apply customer" /\ hand'[r] = what
        /\ \A f \in Three : v4[f] # nothing => v4'[f] # nothing
        /\ \A u \in Couple : PLive(u)' <=> PLive(u)
    BY <1>1, PolicyBegun
  <2> QED
    BY <1>1, <1>2, <1>3, <2>1 DEF PHeld, PApplying, PReverting
<1> DEFINE at == "apply customer"
<1>6. /\ at \in PPlaces \ {"apply read", "apply trips", "revert customer", "revert trips"}
      /\ at \notin {"create", "update", "override", "revert gate"} /\ C!Begin(r, at, what)
  BY <1>1, <1>4
<1> HIDE DEF at
<1> QED
  BY <1>5, <1>6, PolicyBegins

LEMMA PolicyRevertFind ==
  ASSUME PCore, NEW r \in Three, NEW e \in Three, C!RevertFind(r, e)
  PROVE  PCore' /\ C!InvoicedKept /\ C!RecoveryKept
<1>1. PICK what :
        /\ what = [C!Blank EXCEPT !.event = e] /\ C!Begin(r, "revert gate", what)
        /\ v4[e] # nothing /\ v4[e].status = "applied"
  BY DEF C!RevertFind
<1>2. DOMAIN what = PHand /\ what.event = e
  BY <1>1, PolicyBlank DEF PHand
<1>4. "revert gate" \in PPlaces
  BY DEF PPlaces, PReverting
<1>5. PHeld(r)'
  <2>1. /\ pc'[r] = "revert gate" /\ hand'[r] = what
        /\ \A f \in Three : v4[f] # nothing => v4'[f] # nothing
        /\ \A u \in Couple : PLive(u)' <=> PLive(u)
    BY <1>1, PolicyBegun
  <2> QED
    BY <1>1, <1>2, <2>1 DEF PHeld, PApplying, PReverting
<1> DEFINE at == "revert gate"
<1>6. /\ at \in PPlaces \ {"apply read", "apply trips", "revert customer", "revert trips"}
      /\ at \notin {"create", "update", "override"} /\ C!Begin(r, at, what)
      /\ v4[what.event].status = "applied"
  BY <1>1, <1>2, <1>4
<1> HIDE DEF at
<1> QED
  BY <1>5, <1>6, PolicyBegins

LEMMA PolicyAtOnce ==
  ASSUME PCore, NEW r \in Three,
         \/ \E t \in Couple : C!Invoice(r, t)
         \/ \E p \in PolicyChoice : C!EditCustomer(r, p)
         \/ \E n \in PolicyLimit, on \in BOOLEAN : C!RuleEdit(r, n, on)
         \/ C!RuleDelete(r)
  PROVE  PCore' /\ C!InvoicedKept /\ C!RecoveryKept
<1>1. v1 \in PolicyChoice /\ v2 \in [limit : PolicyLimit, version : Nat, active : BOOLEAN]
  BY DEF PCore, PTyped
<1>2. CASE \E t \in Couple : C!Invoice(r, t)
  <2>1. PICK t \in Couple : C!Invoice(r, t)
    BY <1>2
  <2>2. /\ PLive(t) /\ v3' = [v3 EXCEPT ![t] = [v3[t] EXCEPT !.invoiced = ~v3[t].invoiced]]
        /\ C!AtOnce(r) /\ UNCHANGED <<v1, v2, v4>>
    BY <2>1 DEF C!Invoice, C!Live, PLive
  <2> QED
    BY <1>1, <2>2, PolicyOnce
<1>3. CASE \E p \in PolicyChoice : C!EditCustomer(r, p)
  BY <1>1, <1>3, PolicyOnce DEF C!EditCustomer
<1>4. CASE \E n \in PolicyLimit, on \in BOOLEAN : C!RuleEdit(r, n, on)
  <2>1. PICK n \in PolicyLimit, on \in BOOLEAN : C!RuleEdit(r, n, on)
    BY <1>4
  <2>2. /\ C!AtOnce(r) /\ UNCHANGED <<v1, v3, v4>>
        /\ v2' = [limit |-> n, version |-> v2.version + 1, active |-> on]
    BY <2>1 DEF C!RuleEdit
  <2> QED
    BY <1>1, <2>2, PolicyOnce
<1>5. CASE C!RuleDelete(r)
  <2>1. /\ C!AtOnce(r) /\ UNCHANGED <<v1, v3, v4>> /\ v2' = [v2 EXCEPT !.active = FALSE]
    BY <1>5 DEF C!RuleDelete
  <2> QED
    BY <1>1, <2>1, PolicyOnce
<1> QED
  BY <1>2, <1>3, <1>4, <1>5

(* The policies begin settled, and every step keeps them so.               *)
LEMMA PolicyCoreKept ==
  ASSUME PCore, C!Next
  PROVE  PCore' /\ C!InvoicedKept /\ C!RecoveryKept
<1>1. PICK r \in Three : C!Start(r) \/ C!Step(r) \/ C!Die(r)
  BY DEF C!Next
<1>2. CASE C!Start(r)
  <2>1. CASE \E t \in Couple, s \in PolicySheet : C!CreateRead(r, t, s) \/ C!UpdateFind(r, t, s)
    BY <2>1, PolicyCreateRead, PolicyUpdateFind
  <2>2. CASE \E t \in Couple, a \in PolicyCharge \cup {nothing} : C!OverrideFind(r, t, a)
    BY <2>2, PolicyOverrideFind
  <2>3. CASE \/ \E t \in Couple : C!Invoice(r, t)
             \/ \E p \in PolicyChoice : C!EditCustomer(r, p)
             \/ \E n \in PolicyLimit, on \in BOOLEAN : C!RuleEdit(r, n, on)
             \/ C!RuleDelete(r)
    BY <2>3, PolicyAtOnce
  <2>4. CASE \E p \in PolicyChoice, d \in PolicyDay, chosen \in SUBSET Couple :
               C!ApplyFind(r, p, d, chosen)
    BY <2>4, PolicyApplyFind
  <2>5. CASE \E e \in Three : C!RevertFind(r, e)
    BY <2>5, PolicyRevertFind
  <2> QED
    BY <1>2, <2>1, <2>2, <2>3, <2>4, <2>5 DEF C!Start
<1>3. CASE C!Step(r)
  BY <1>3, PolicyCreateInsert, PolicyUpdateWrite, PolicyOverrideWrite, PolicyApplyCustomer,
     PolicyApplyRead, PolicyApplyTrip, PolicyApplyEvent, PolicyRevertGate,
     PolicyRevertCustomer, PolicyRevertTrip, PolicyRevertFlip DEF C!Step
<1>4. CASE C!Die(r)
  BY <1>4, PolicyDies
<1> QED
  BY <1>1, <1>2, <1>3, <1>4

LEMMA PoliciesBegin ==
  ASSUME C!Init
  PROVE  PCore
<1>1. /\ v1 \in PolicyChoice
      /\ v2 \in [limit : PolicyLimit, version : Nat, active : BOOLEAN]
      /\ v4 = [r \in Three |-> nothing] /\ pc = [r \in Three |-> "new"]
      /\ hand = [r \in Three |-> C!Blank] /\ v5 = [r \in Three |-> nothing] /\ marred = {}
  BY DEF C!Init
<1>2. PICK t \in Couple, s \in PolicySheet :
        v3 = [u \in Couple |-> IF u = t THEN [C!Created(s, v1) EXCEPT
                                                !.recovery = C!RecoveryOf(C!Created(s, v1))]
                               ELSE nothing]
  BY DEF C!Init
<1> DEFINE doc == C!Created(s, v1)
           new == [doc EXCEPT !.recovery = C!RecoveryOf(doc)]
<1>3. doc \in C!TripDoc /\ PRight(doc)
  BY <1>1, PolicyCreated
<1>4. /\ new \in C!TripDoc /\ new.recovery \in C!RecoveryDoc /\ PAnswers(new.recovery, new)
      /\ PRight(new)
  <2> HIDE DEF doc
  <2>1. C!RecoveryOf(doc) \in C!RecoveryDoc
    BY <1>1, <1>3, PolicyOfRule
  <2>2. /\ new \in C!TripDoc /\ new.recovery = C!RecoveryOf(doc)
        /\ \A f \in DOMAIN doc \ {"recovery"} : new[f] = doc[f]
    BY <1>3, <2>1, PolicyRecovered
  <2>3. PSame(doc, new) /\ (PRight(doc) => PRight(new)) /\ new.shortage_qty = doc.shortage_qty
    BY <1>3, <2>2, PolicyAside
  <2>4. PAnswers(C!RecoveryOf(doc), new)
    BY <1>1, <1>3, <2>3, PolicyOfRule
  <2> QED
    BY <1>3, <2>1, <2>2, <2>3, <2>4
<1>5. /\ v3[t] = new /\ v3 \in [Couple -> C!TripDoc \cup {nothing}]
      /\ \A u \in Couple : PLive(u) => u = t
  <2>1. v3 = [u \in Couple |-> IF u = t THEN new ELSE nothing]
    BY <1>2
  <2> HIDE DEF new, doc
  <2> QED
    BY <1>4, <2>1 DEF PLive
<1> HIDE DEF new, doc
<1>6. PTyped
  <2>1. "new" \in PPlaces
    BY DEF PPlaces
  <2>2. \A r \in Three : PHeld(r)
    BY <1>1, PolicyBlank DEF PHeld, PApplying, PReverting
  <2> QED
    BY <1>1, <1>4, <1>5, <2>1, <2>2 DEF PTyped
<1>7. PMarked /\ PLone
  BY <1>1 DEF PMarked, PLone, PFound, PBusy
<1>8. PFigures
  <2>1. \A r \in Three : PDrawn(r)
    BY <1>1 DEF PDrawn
  <2>2. \A e \in Three : ~POpen(e)
    BY <1>1 DEF POpen
  <2>3. \A u \in Couple : PLive(u) => PRight(v3[u])
    BY <1>4, <1>5
  <2> QED
    BY <2>1, <2>2, <2>3 DEF PFigures
<1>9. PRecovered
  BY <1>4, <1>5 DEF PRecovered
<1> QED
  BY <1>6, <1>7, <1>8, <1>9 DEF PCore

LEMMA PoliciesStand ==
  ASSUME PCore, UNCHANGED <<v1, v2, v3, v4, v5, pc, hand, marred>>
  PROVE  PCore'
<1>1. \A r \in Three : /\ (PHeld(r) => PHeld(r)')
                        /\ (PDrawn(r) => PDrawn(r)') /\ (PFound(r) => PFound(r)')
  <2> SUFFICES ASSUME NEW r \in Three
               PROVE  /\ (PHeld(r) => PHeld(r)')
                      /\ (PDrawn(r) => PDrawn(r)') /\ (PFound(r) => PFound(r)')
    OBVIOUS
  <2>1. PHeld(r) => PHeld(r)'
    BY DEF PHeld, PLive
  <2>2. PDrawn(r) => PDrawn(r)'
    BY DEF PDrawn, PFits, PRight, PBilled, PHalted, PSame
  <2>3. PFound(r) => PFound(r)'
    BY DEF PFound
  <2> QED
    BY <2>1, <2>2, <2>3
<1>2. PTyped'
  <2>1. \A r \in Three : PHeld(r)'
    BY <1>1 DEF PCore, PTyped
  <2> QED
    BY <2>1 DEF PCore, PTyped, PLive
<1>3. PMarked'
  BY DEF PCore, PMarked, PBusy
<1>4. PFigures'
  BY <1>1 DEF PCore, PFigures, PGood, PLive, POpen, PFits, PRight, PBilled, PHalted, PSame
<1>5. PLone' /\ PRecovered'
  BY <1>1 DEF PCore, PLone, PRecovered, PClean, PLive, PAnswers
<1> QED
  BY <1>2, <1>3, <1>4, <1>5 DEF PCore

(* The figures, computed again, are those that are there.                  *)
LEMMA PoliciesFigure ==
  ASSUME PCore
  PROVE  C!FiguresFollow
<1> SUFFICES ASSUME PGood, NEW t \in Couple, PLive(t), NEW f \in C!Billing
             PROVE  v3[t][f] = C!Compute(v3[t])[f]
  BY DEF C!FiguresFollow, PGood, C!Live, PLive
<1>1. v3[t] \in C!TripDoc /\ PRight(v3[t])
  BY PolicySound
<1> QED
  BY <1>1, PolicyComputed DEF PRight, PBilled, C!Billing


(* What was before an event is known as long as nothing else has happened. *)
LEMMA PolicyRemember ==
  ASSUME \A e \in Three : "overlap" \notin marred' /\ v5'[e] # nothing =>
           \E w : w = v5'[e] /\ PWas(e, w)'
  PROVE  PRemembered'
BY DEF PRemembered

(* A request that goes on is the one whose event is known.                 *)
LEMMA PolicyKnown ==
  ASSUME PInv, NEW r \in Three, PBusy(r), "overlap" \notin marred, NEW e \in Three, v5[e] # nothing
  PROVE  /\ PWas(e, v5[e]) /\ \A q \in Three \ {r} : ~PBusy(q)
         /\ \/ r = e /\ pc[r] \in PApplying
            \/ pc[r] \in PReverting /\ hand[r].event = e /\ e # r
         /\ v4[e] # nothing => pc[e] = "done"
         /\ r = e => v4[e] = nothing
<1>1. PWas(e, v5[e]) /\ PCore
  BY DEF PInv, PRemembered
<1>2. \A q \in Three \ {r} : ~PBusy(q)
  BY <1>1, PolicyAlone DEF PCore
<1>3. v4[e] # nothing => pc[e] = "done"
  BY <1>1 DEF PCore, PTyped
<1>4. \/ r = e /\ pc[r] \in PApplying
      \/ pc[r] \in PReverting /\ hand[r].event = e
  BY <1>1 DEF PWas, PWho
<1>5. pc[r] \in PReverting => v4[hand[r].event] # nothing
  BY <1>1 DEF PCore, PTyped, PHeld
<1> QED
  BY <1>1, <1>2, <1>3, <1>4, <1>5 DEF PBusy

(* What enters, corrects or decides ends what was known.                   *)
LEMMA PolicyForgets ==
  ASSUME PInv, NEW r \in Three, pc[r] \in {"create", "update", "override"}, v5' = v5,
         marred \subseteq marred'
  PROVE  PRemembered'
<1> SUFFICES ASSUME NEW e \in Three, "overlap" \notin marred', v5'[e] # nothing
             PROVE  FALSE
  BY PolicyRemember
<1>1. PBusy(r) /\ "overlap" \notin marred /\ v5[e] # nothing
  BY DEF PBusy
<1>2. pc[r] \in PApplying \cup PReverting
  BY <1>1, PolicyKnown
<1> QED
  BY <1>2 DEF PApplying, PReverting

LEMMA PolicyDieWas ==
  ASSUME PInv, NEW r \in Three, C!Die(r)
  PROVE  PRemembered'
<1>1. /\ PBusy(r) /\ pc' = [pc EXCEPT ![r] = "done"] /\ hand' = [hand EXCEPT ![r] = C!Blank]
      /\ marred' = marred \cup {"death"} /\ UNCHANGED <<v1, v2, v3, v4, v5>>
  BY PolicyBusy DEF C!Die
<1>2. /\ \A q \in Three \ {r} : pc'[q] = pc[q] /\ hand'[q] = hand[q]
      /\ pc'[r] = "done" /\ hand'[r] = C!Blank
  BY <1>1 DEF PInv, PCore, PTyped
<1> SUFFICES ASSUME NEW e \in Three, "overlap" \notin marred', v5'[e] # nothing, NEW w, w = v5[e]
             PROVE  PWas(e, w)'
  BY <1>1, PolicyRemember
<1>3. /\ PWas(e, w) /\ \A q \in Three : pc'[q] \in {"new", "done"}
      /\ \/ r = e /\ v4[e] = nothing
         \/ pc[r] \in PReverting /\ hand[r].event = e
  BY <1>1, <1>2, PolicyKnown DEF PBusy
<1>4. CASE v4[e] = nothing
  BY <1>1, <1>3, <1>4 DEF PWas, PWho, PApplied, PUndone, PBusy, PApplying, PReverting
<1>5. CASE v4[e] # nothing
  <2>1. /\ v4[e].old = w.customer
        /\ \A d \in v4[e].deltas : d.old = w.trips[d.trip]
        /\ \A t \in Couple \ PTripsOf(v4[e].deltas) : v3[t] = w.trips[t]
        /\ v4[e].status = "applied"
    BY <1>1, <1>3, <1>5, PolicyKnown DEF PWas, PUndone
  <2> QED
    BY <1>1, <1>3, <2>1 DEF PWas, PWho, PApplied, PUndone, PBusy, PApplying, PReverting, PTripsOf
<1> QED
  BY <1>4, <1>5

LEMMA PolicyBeginWas ==
  ASSUME PInv, NEW r \in Three, NEW at, NEW what, C!Begin(r, at, what),
         at # "apply customer", what.event = nothing
  PROVE  PRemembered'
<1>1. \A e \in Three : v5'[e] = nothing
  BY OfficePolicies DEF C!Begin
<1> QED
  BY <1>1, PolicyRemember

LEMMA PolicyOnceWas ==
  ASSUME NEW r \in Three, C!AtOnce(r)
  PROVE  PRemembered'
<1>1. \A e \in Three : v5'[e] = nothing
  BY DEF C!AtOnce
<1> QED
  BY <1>1, PolicyRemember

LEMMA PolicyApplyFindWas ==
  ASSUME PInv, NEW r \in Three, NEW policy \in PolicyChoice, NEW from,
         NEW chosen \in SUBSET Couple, C!ApplyFind(r, policy, from, chosen)
  PROVE  PRemembered'
<1>1. PICK what :
        /\ what = [C!Blank EXCEPT !.policy = policy, !.old = v1, !.from = from, !.todo = chosen]
        /\ C!Begin(r, "apply customer", what)
  BY DEF C!ApplyFind
<1>2. /\ what.policy = policy /\ what.old = v1 /\ what.from = from /\ what.event = nothing
      /\ what.deltas = {}
  BY <1>1, PolicyBlank DEF PHand
<1>3. PCore /\ DOMAIN pc = Three /\ DOMAIN hand = Three /\ \A e \in Three : v4[e] # nothing => pc[e] = "done"
  BY DEF PInv, PCore, PTyped
<1>4. /\ pc[r] = "new" /\ \A q \in Three \ {r} : pc'[q] = pc[q]
      /\ pc' = [pc EXCEPT ![r] = "apply customer"]
      /\ pc'[r] = "apply customer" /\ hand'[r] = what /\ UNCHANGED <<v1, v2, v3, v4>>
      /\ hand' = [hand EXCEPT ![r] = what] /\ marred' = C!Marked("apply customer")
      /\ v5'[r] = [customer |-> v1, trips |-> v3, shown |-> C!Preview(policy, from)]
      /\ \A e \in Three \ {r} : v5'[e] = nothing
  BY <1>1, <1>2, <1>3, OfficePolicies DEF C!Begin
<1> SUFFICES ASSUME NEW e \in Three, "overlap" \notin marred', v5'[e] # nothing, NEW w, w = v5'[e]
             PROVE  PWas(e, w)'
  BY PolicyRemember
<1>5. /\ e = r /\ w.customer = v1 /\ w.trips = v3 /\ w.shown = C!Preview(policy, from)
  <2>1. e = r
    BY <1>4
  <2>2. w = [customer |-> v1, trips |-> v3, shown |-> C!Preview(policy, from)]
    BY <1>4, <2>1
  <2> QED
    BY <2>1, <2>2
<1>6. \A q \in Three : ~PBusy(q)
  BY <1>4, PolicyBusy DEF C!Marked
<1>7. PWho(e)'
  BY <1>4, <1>5, <1>6 DEF PWho, PBusy, PApplying
<1>8. \A t \in Couple : C!Eligible(t, from) => PReady(w, t, policy)
  <2> SUFFICES ASSUME NEW t \in Couple, C!Eligible(t, from)
               PROVE  PReady(w, t, policy)
    OBVIOUS
  <2>1. PICK x : x = [trip |-> t, old |-> C!Compute(v3[t]), new |-> C!Restamped(v3[t], policy)]
    OBVIOUS
  <2>2. x \in w.shown
    BY <1>5, <2>1 DEF C!Preview
  <2> QED
    BY <1>5, <2>1, <2>2 DEF PReady
<1>9. PApplied(e, w)'
  BY <1>2, <1>4, <1>5, <1>8 DEF PApplied, PReady, C!Eligible, C!Live
<1>10. PUndone(e, w)'
  BY <1>3, <1>4, <1>5 DEF PUndone
<1> QED
  BY <1>7, <1>9, <1>10 DEF PWas

LEMMA PolicyRevertFindWas ==
  ASSUME PInv, NEW r \in Three, NEW e \in Three, C!RevertFind(r, e)
  PROVE  PRemembered'
<1>1. PICK what :
        /\ what = [C!Blank EXCEPT !.event = e] /\ C!Begin(r, "revert gate", what)
        /\ v4[e] # nothing /\ v4[e].status = "applied"
  BY DEF C!RevertFind
<1>2. what.event = e
  BY <1>1, PolicyBlank DEF PHand
<1>3. PCore /\ DOMAIN pc = Three /\ DOMAIN hand = Three /\ pc[e] = "done"
  BY <1>1 DEF PInv, PCore, PTyped
<1>4. /\ pc[r] = "new" /\ \A q \in Three \ {r} : pc'[q] = pc[q] /\ hand'[q] = hand[q]
      /\ pc' = [pc EXCEPT ![r] = "revert gate"]
      /\ pc'[r] = "revert gate" /\ hand'[r] = what /\ UNCHANGED <<v1, v2, v3, v4>>
      /\ marred' = C!Marked("revert gate")
      /\ v5'[e] = v5[e] /\ \A f \in Three \ {e} : v5'[f] = nothing
  BY <1>1, <1>2, <1>3 DEF C!Begin
<1> SUFFICES ASSUME NEW f \in Three, "overlap" \notin marred', v5'[f] # nothing, NEW w, w = v5'[f]
             PROVE  PWas(f, w)'
  BY PolicyRemember
<1>5. \A q \in Three : ~PBusy(q)
  BY <1>4, PolicyBusy DEF C!Marked
<1>6. f = e /\ marred' = marred /\ PWas(e, w)
  BY <1>4, <1>5, PolicyBusy DEF C!Marked, PInv, PRemembered
<1>7. PWho(e)'
  BY <1>2, <1>4, <1>5 DEF PWho, PBusy, PReverting
<1>8. PApplied(e, w)'
  BY <1>3, <1>4 DEF PApplied, PApplying
<1>9. \A q \in Three : pc'[q] # "revert trips" /\ pc[q] # "revert trips"
  BY <1>4, <1>5 DEF PBusy
<1>10. PUndone(e, w)'
  <2>1. /\ v4[e].old = w.customer
        /\ \A d \in v4[e].deltas : d.old = w.trips[d.trip]
        /\ \A t \in Couple \ PTripsOf(v4[e].deltas) : v3[t] = w.trips[t]
        /\ marred = {} => \A d \in v4[e].deltas : PShows(w, d.trip)
    BY <1>1, <1>6, <1>9 DEF PWas, PUndone
  <2>2. marred' = {} => \A d \in v4[e].deltas : PShows(w, d.trip)'
    BY <1>4, <1>6, <2>1 DEF PShows
  <2> QED
    BY <1>1, <1>4, <1>6, <1>9, <2>1, <2>2 DEF PUndone, PTripsOf
<1> QED
  BY <1>6, <1>7, <1>8, <1>10 DEF PWas

(* What happens to an event goes on from what is known of it.              *)
LEMMA PolicyApplyCustomerWas ==
  ASSUME PInv, NEW r \in Three, C!ApplyCustomer(r)
  PROVE  PRemembered'
<1>1. /\ C!Goto(r, "apply customer", "apply read", hand[r]) /\ v1' = hand[r].policy
      /\ UNCHANGED <<v2, v3, v4, v5, marred>>
  BY DEF C!ApplyCustomer
<1>2. /\ pc[r] = "apply customer" /\ pc'[r] = "apply read" /\ hand'[r] = hand[r]
      /\ \A q \in Three \ {r} : pc'[q] = pc[q] /\ hand'[q] = hand[q]
  BY <1>1, PolicyAt DEF C!Goto, PInv
<1>3. PBusy(r) /\ pc[r] \notin PReverting
  BY <1>2 DEF PBusy, PReverting
<1> SUFFICES ASSUME NEW e \in Three, "overlap" \notin marred', v5'[e] # nothing, NEW w, w = v5[e]
             PROVE  PWas(e, w)'
  BY <1>1, PolicyRemember
<1>4. /\ PWas(e, w) /\ \A q \in Three \ {r} : pc'[q] \in {"new", "done"}
      /\ e = r /\ v4[e] = nothing
  BY <1>1, <1>2, <1>3, PolicyKnown DEF PBusy
<1>5. PWho(e)'
  BY <1>2, <1>4 DEF PWho, PBusy, PApplying
<1>6. PApplied(e, w)'
  <2>1. /\ v3 = w.trips /\ hand[e].old = w.customer
        /\ \A t \in Couple : C!Eligible(t, hand[e].from) => PReady(w, t, hand[e].policy)
    BY <1>2, <1>4 DEF PWas, PApplied, PApplying
  <2>2. \A t, n : C!Eligible(t, n)' <=> C!Eligible(t, n)
    BY <1>1 DEF C!Eligible, C!Live
  <2> QED
    BY <1>1, <1>2, <1>4, <2>1, <2>2 DEF PApplied, PApplying
<1>7. PUndone(e, w)'
  BY <1>1, <1>4 DEF PUndone
<1> QED
  BY <1>5, <1>6, <1>7 DEF PWas

LEMMA PolicyApplyReadWas ==
  ASSUME PInv, NEW r \in Three, C!ApplyRead(r)
  PROVE  PRemembered'
<1> DEFINE todo == {t \in hand[r].todo : C!Eligible(t, hand[r].from)}
           what == [hand[r] EXCEPT !.policy = v1, !.doc = v3, !.todo = todo]
<1>0. PCore
  BY DEF PInv
<1>1. C!Goto(r, "apply read", "apply trips", what) /\ UNCHANGED <<v1, v2, v3, v4, v5, marred>>
  BY DEF C!ApplyRead, C!data
<1>2. /\ pc[r] = "apply read" /\ pc'[r] = "apply trips" /\ hand'[r] = what
      /\ \A q \in Three \ {r} : pc'[q] = pc[q] /\ hand'[q] = hand[q]
  BY <1>0, <1>1, PolicyAt DEF C!Goto
<1>3. PBusy(r) /\ pc[r] \notin PReverting /\ PHeld(r)
  BY <1>0, <1>2, PolicyAt DEF PBusy, PReverting
<1> SUFFICES ASSUME NEW e \in Three, "overlap" \notin marred', v5'[e] # nothing, NEW w, w = v5[e]
             PROVE  PWas(e, w)'
  BY <1>1, PolicyRemember
<1>4. /\ PWas(e, w) /\ \A q \in Three \ {r} : pc'[q] \in {"new", "done"}
      /\ e = r /\ v4[e] = nothing
  BY <1>1, <1>2, <1>3, PolicyKnown DEF PBusy
<1>5. /\ what.policy = v1 /\ what.doc = v3 /\ what.todo = todo /\ what.old = hand[r].old
      /\ what.deltas = {}
  BY <1>2, <1>3 DEF PHeld, PHand
<1>6. /\ v3 = w.trips /\ v1 = hand[r].policy /\ hand[r].old = w.customer
      /\ \A t \in todo : PReady(w, t, v1)
  <2>1. \A t \in todo : t \in Couple /\ C!Eligible(t, hand[r].from)
    BY <1>2, <1>3 DEF PHeld, PApplying
  <2> QED
    BY <1>2, <1>4, <2>1 DEF PWas, PApplied, PApplying
<1> HIDE DEF what, todo
<1>7. PWho(e)'
  BY <1>2, <1>4 DEF PWho, PBusy, PApplying
<1>8. PApplied(e, w)'
  <2>1. /\ pc'[e] = "apply trips" /\ hand'[e].doc = w.trips /\ hand'[e].old = w.customer
        /\ hand'[e].todo = todo /\ hand'[e].deltas = {} /\ hand'[e].policy = v1
        /\ v3' = w.trips
    BY <1>1, <1>2, <1>4, <1>5, <1>6
  <2>2. \A t : t \notin PTripsOf({})
    BY DEF PTripsOf
  <2>3. \A t \in hand'[e].todo : PReady(w, t, hand'[e].policy) /\ t \notin PTripsOf(hand'[e].deltas)
    BY <1>6, <2>1, <2>2
  <2> QED
    BY <2>1, <2>3 DEF PApplied, PApplying
<1>9. PUndone(e, w)'
  BY <1>1, <1>4 DEF PUndone
<1> QED
  BY <1>7, <1>8, <1>9 DEF PWas

LEMMA PolicyApplyEventWas ==
  ASSUME PInv, NEW r \in Three, C!ApplyEvent(r)
  PROVE  PRemembered'
<1> DEFINE event == [old |-> hand[r].old, deltas |-> hand[r].deltas, status |-> "applied"]
<1>0. PCore /\ DOMAIN v4 = Three
  BY DEF PInv, PCore, PTyped
<1>1. /\ C!Goto(r, "apply trips", "done", C!Blank) /\ v4' = [v4 EXCEPT ![r] = event]
      /\ hand[r].todo = {} /\ UNCHANGED <<v1, v2, v3, v5, marred>>
  BY DEF C!ApplyEvent
<1>2. /\ pc[r] = "apply trips" /\ pc'[r] = "done" /\ hand'[r] = C!Blank
      /\ \A q \in Three \ {r} : pc'[q] = pc[q] /\ hand'[q] = hand[q]
  BY <1>0, <1>1, PolicyAt DEF C!Goto
<1>3. PBusy(r) /\ pc[r] \notin PReverting
  BY <1>2 DEF PBusy, PReverting
<1> SUFFICES ASSUME NEW e \in Three, "overlap" \notin marred', v5'[e] # nothing, NEW w, w = v5[e]
             PROVE  PWas(e, w)'
  BY <1>1, PolicyRemember
<1>4. /\ PWas(e, w) /\ \A q \in Three : pc'[q] \in {"new", "done"}
      /\ e = r
  BY <1>1, <1>2, <1>3, PolicyKnown DEF PBusy
<1>5. /\ hand[e].old = w.customer
      /\ \A d \in hand[e].deltas : d.old = w.trips[d.trip] /\ PShows(w, d.trip)
      /\ \A t \in Couple \ PTripsOf(hand[e].deltas) : v3[t] = w.trips[t]
  BY <1>2, <1>4 DEF PWas, PApplied, PApplying
<1>6. /\ v4'[e].old = hand[e].old /\ v4'[e].deltas = hand[e].deltas
      /\ v4'[e].status = "applied"
  BY <1>0, <1>1, <1>4
<1> HIDE DEF event
<1>7. PWho(e)'
  BY <1>4 DEF PWho, PBusy
<1>8. PApplied(e, w)'
  BY <1>2, <1>4 DEF PApplied, PApplying
<1>9. PUndone(e, w)'
  <2>1. \A d \in hand[e].deltas : PShows(w, d.trip)'
    BY <1>1, <1>5 DEF PShows
  <2>2. \A t \in Couple \ PTripsOf(hand[e].deltas) : v3'[t] = w.trips[t]
    BY <1>1, <1>5
  <2> QED
    BY <1>4, <1>5, <1>6, <2>1, <2>2 DEF PUndone, PReverting, PTripsOf
<1> QED
  BY <1>7, <1>8, <1>9 DEF PWas

LEMMA PolicyApplyTripWas ==
  ASSUME PInv, NEW r \in Three, C!ApplyTrip(r)
  PROVE  PRemembered'
<1>0. PCore /\ PTyped
  BY DEF PInv, PCore
<1>1. PICK t \in hand[r].todo :
        /\ C!Goto(r, "apply trips", "apply trips",
             [hand[r] EXCEPT !.todo = @ \ {t},
                             !.deltas = @ \cup {[trip |-> t, old |-> hand[r].doc[t]]}])
        /\ v3' = [v3 EXCEPT ![t] = C!With(v3[t], C!Rewritten, C!Restamped(hand[r].doc[t], hand[r].policy))]
        /\ UNCHANGED <<v1, v2, v4, v5, marred>>
  BY DEF C!ApplyTrip, C!PutTrip
<1>2. PICK d : d = [trip |-> t, old |-> hand[r].doc[t]]
  OBVIOUS
<1> DEFINE todo == hand[r].todo \ {t}
           deltas == hand[r].deltas \cup {d}
           what == [hand[r] EXCEPT !.todo = todo, !.deltas = deltas]
           y == C!Restamped(hand[r].doc[t], hand[r].policy)
           new == C!With(v3[t], C!Rewritten, y)
<1>3. /\ pc[r] = "apply trips" /\ pc'[r] = "apply trips" /\ hand'[r] = what
      /\ \A q \in Three \ {r} : pc'[q] = pc[q] /\ hand'[q] = hand[q]
  BY <1>0, <1>1, <1>2, PolicyAt DEF C!Goto
<1>4. PBusy(r) /\ pc[r] \notin PReverting /\ PHeld(r) /\ DOMAIN hand[r] = PHand
  BY <1>0, <1>3, PolicyAt DEF PBusy, PReverting
<1>5. /\ t \in Couple /\ PLive(t) /\ v3[t] \in C!TripDoc
      /\ hand[r].doc[t] \in C!TripDoc /\ hand[r].policy \in PolicyChoice
      /\ \A x \in hand[r].deltas : x.trip \in Couple
  <2>1. /\ t \in Couple /\ PLive(t) /\ hand[r].doc[t] \in C!TripDoc
        /\ hand[r].policy \in PolicyChoice /\ hand[r].deltas \subseteq PDelta
    BY <1>1, <1>3, <1>4 DEF PHeld, PApplying
  <2> QED
    BY <1>0, <2>1, PolicySound DEF PDelta
<1>6. v3'[t] = new /\ \A u \in Couple \ {t} : v3'[u] = v3[u]
  BY <1>0, <1>1, <1>5 DEF PTyped
<1>7. \A f \in C!Rewritten : new[f] = y[f]
  <2>1. y \in C!TripDoc
    BY <1>5, PolicyRestamped
  <2> HIDE DEF y
  <2> QED
    BY <1>5, <2>1, PolicyTaken
<1>8. /\ what.todo = todo /\ what.deltas = deltas /\ what.doc = hand[r].doc
      /\ what.policy = hand[r].policy /\ what.old = hand[r].old
  BY <1>4 DEF PHand
<1>9. d.trip = t /\ d.old = hand[r].doc[t]
  BY <1>2
<1> SUFFICES ASSUME NEW e \in Three, "overlap" \notin marred', v5'[e] # nothing, NEW w, w = v5[e]
             PROVE  PWas(e, w)'
  BY <1>1, PolicyRemember
<1>10. /\ PWas(e, w) /\ \A q \in Three \ {r} : pc'[q] \in {"new", "done"}
       /\ e = r /\ v4[e] = nothing
  BY <1>1, <1>3, <1>4, PolicyKnown DEF PBusy
<1> HIDE DEF what, todo, deltas, new
<1>11. /\ hand[e].old = w.customer /\ hand[e].doc = w.trips
       /\ \A u \in hand[e].todo : PReady(w, u, hand[e].policy) /\ u \notin PTripsOf(hand[e].deltas)
       /\ \A x \in hand[e].deltas : x.old = w.trips[x.trip] /\ PShows(w, x.trip)
       /\ \A u \in Couple \ PTripsOf(hand[e].deltas) : v3[u] = w.trips[u]
  BY <1>3, <1>10 DEF PWas, PApplied, PApplying
<1>12. \A u : u \in PTripsOf(deltas) <=> u \in PTripsOf(hand[e].deltas) \/ u = t
  BY <1>9, <1>10 DEF PTripsOf, deltas
<1>13. PWho(e)'
  BY <1>3, <1>10 DEF PWho, PBusy, PApplying
<1>14. PApplied(e, w)'
  <2>1. \A u \in todo : PReady(w, u, hand[e].policy) /\ u \notin PTripsOf(deltas)
    BY <1>10, <1>11, <1>12 DEF todo
  <2>2. PShows(w, t)'
    <3>1. PICK x \in w.shown : x.trip = t /\ x.new = C!Restamped(w.trips[t], hand[e].policy)
      BY <1>1, <1>10, <1>11 DEF PReady
    <3>2. x.new = y
      BY <1>10, <1>11, <3>1
    <3> HIDE DEF y
    <3> QED
      BY <1>6, <1>7, <3>1, <3>2 DEF PShows
  <2>3. ASSUME NEW x \in hand[e].deltas
        PROVE  x.old = w.trips[x.trip] /\ PShows(w, x.trip)'
    <3>1. x.trip # t /\ x.trip \in Couple
      BY <1>1, <1>5, <1>10, <1>11 DEF PTripsOf
    <3> QED
      BY <1>6, <1>11, <3>1 DEF PShows
  <2>4. d.old = w.trips[d.trip] /\ PShows(w, d.trip)'
    BY <1>9, <1>10, <1>11, <2>2
  <2>5. \A x \in deltas : x.old = w.trips[x.trip] /\ PShows(w, x.trip)'
    BY <1>10, <2>3, <2>4 DEF deltas
  <2>6. \A u \in Couple \ PTripsOf(deltas) : v3'[u] = w.trips[u]
    BY <1>6, <1>11, <1>12
  <2>7. /\ pc'[e] = "apply trips" /\ hand'[e].doc = w.trips /\ hand'[e].old = w.customer
        /\ hand'[e].todo = todo /\ hand'[e].deltas = deltas /\ hand'[e].policy = hand[e].policy
    BY <1>3, <1>8, <1>10, <1>11
  <2>8. \A u \in hand'[e].todo :
          PReady(w, u, hand'[e].policy) /\ u \notin PTripsOf(hand'[e].deltas)
    BY <2>1, <2>7
  <2>9. \A x \in hand'[e].deltas : x.old = w.trips[x.trip] /\ PShows(w, x.trip)'
    BY <2>5, <2>7
  <2> QED
    BY <2>6, <2>7, <2>8, <2>9 DEF PApplied, PApplying, PShows
<1>15. PUndone(e, w)'
  BY <1>1, <1>10 DEF PUndone
<1> QED
  BY <1>13, <1>14, <1>15 DEF PWas

(* Undoing.                                                                *)
LEMMA PolicyRevertGateWas ==
  ASSUME PInv, NEW r \in Three, C!RevertGate(r)
  PROVE  PRemembered'
<1>0. PCore
  BY DEF PInv
<1>1. PICK to \in {"done", "revert customer"} :
        /\ pc[r] = "revert gate" /\ pc'[r] = to
        /\ to # "done" => hand'[r] = hand[r]
        /\ \A q \in Three \ {r} : pc'[q] = pc[q] /\ hand'[q] = hand[q]
        /\ UNCHANGED <<v1, v2, v3, v4, v5, marred>>
  BY <1>0, PolicyAt DEF C!RevertGate, C!Read, C!data, C!Goto
<1>2. PBusy(r) /\ pc[r] \notin PApplying /\ PHeld(r)
  BY <1>0, <1>1, PolicyAt DEF PBusy, PApplying
<1> SUFFICES ASSUME NEW e \in Three, "overlap" \notin marred', v5'[e] # nothing, NEW w, w = v5[e]
             PROVE  PWas(e, w)'
  BY <1>1, PolicyRemember
<1>3. /\ PWas(e, w) /\ \A q \in Three \ {r} : pc'[q] \in {"new", "done"} /\ pc[q] \in {"new", "done"}
      /\ e # r /\ hand[r].event = e
  BY <1>1, <1>2, PolicyKnown DEF PBusy
<1>4. v4[e] # nothing
  BY <1>1, <1>2, <1>3 DEF PHeld, PReverting
<1>5. PWho(e)'
  BY <1>1, <1>3 DEF PWho, PBusy, PReverting
<1>6. PApplied(e, w)'
  BY <1>3 DEF PApplied, PApplying
<1>7. PUndone(e, w)'
  <2>1. /\ v4[e].old = w.customer /\ v4[e].status = "applied"
        /\ \A d \in v4[e].deltas : d.old = w.trips[d.trip]
        /\ \A t \in Couple \ PTripsOf(v4[e].deltas) : v3[t] = w.trips[t]
        /\ marred = {} => \A d \in v4[e].deltas : PShows(w, d.trip)
    BY <1>1, <1>3, <1>4 DEF PWas, PUndone, PReverting
  <2>2. \A q \in Three : pc'[q] # "revert trips"
    BY <1>1, <1>3
  <2>3. marred' = {} => \A d \in v4[e].deltas : PShows(w, d.trip)'
    BY <1>1, <2>1 DEF PShows
  <2> QED
    BY <1>1, <2>1, <2>2, <2>3 DEF PUndone, PTripsOf
<1> QED
  BY <1>5, <1>6, <1>7 DEF PWas

LEMMA PolicyRevertCustomerWas ==
  ASSUME PInv, NEW r \in Three, C!RevertCustomer(r)
  PROVE  PRemembered'
<1>0. PCore
  BY DEF PInv
<1>1. /\ pc[r] = "revert customer" /\ pc'[r] = "revert trips"
      /\ hand'[r] = [hand[r] EXCEPT !.deltas = v4[hand[r].event].deltas]
      /\ \A q \in Three \ {r} : pc'[q] = pc[q] /\ hand'[q] = hand[q]
      /\ v1' = v4[hand[r].event].old /\ UNCHANGED <<v2, v3, v4, v5, marred>>
  BY <1>0, PolicyAt DEF C!RevertCustomer, C!Goto
<1>2. PBusy(r) /\ pc[r] \notin PApplying /\ PHeld(r) /\ DOMAIN hand[r] = PHand
  BY <1>0, <1>1, PolicyAt DEF PBusy, PApplying
<1>3. hand'[r].deltas = v4[hand[r].event].deltas /\ hand'[r].event = hand[r].event
  BY <1>1, <1>2 DEF PHand
<1> SUFFICES ASSUME NEW e \in Three, "overlap" \notin marred', v5'[e] # nothing, NEW w, w = v5[e]
             PROVE  PWas(e, w)'
  BY <1>1, PolicyRemember
<1>4. /\ PWas(e, w) /\ \A q \in Three \ {r} : pc'[q] \in {"new", "done"} /\ pc[q] \in {"new", "done"}
      /\ e # r /\ hand[r].event = e
  BY <1>1, <1>2, PolicyKnown DEF PBusy
<1>5. v4[e] # nothing
  BY <1>1, <1>2, <1>4 DEF PHeld, PReverting
<1>6. PWho(e)'
  BY <1>1, <1>3, <1>4 DEF PWho, PBusy, PReverting
<1>7. PApplied(e, w)'
  BY <1>4 DEF PApplied, PApplying
<1>8. PUndone(e, w)'
  <2>1. /\ v4[e].old = w.customer /\ v4[e].status = "applied"
        /\ \A d \in v4[e].deltas : d.old = w.trips[d.trip]
        /\ \A t \in Couple \ PTripsOf(v4[e].deltas) : v3[t] = w.trips[t]
    BY <1>1, <1>4, <1>5 DEF PWas, PUndone, PReverting
  <2>2. v1' = w.customer /\ hand'[r].deltas = v4[e].deltas
    BY <1>1, <1>3, <1>4, <2>1
  <2>3. \A q \in Three : pc'[q] = "revert trips" => q = r
    BY <1>4
  <2> QED
    BY <1>1, <2>1, <2>2, <2>3 DEF PUndone, PTripsOf
<1> QED
  BY <1>6, <1>7, <1>8 DEF PWas

LEMMA PolicyRevertTripWas ==
  ASSUME PInv, NEW r \in Three, C!RevertTrip(r)
  PROVE  PRemembered'
<1>0. PCore /\ PTyped
  BY DEF PInv, PCore
<1>1. PICK d \in hand[r].deltas :
        /\ C!Goto(r, "revert trips", "revert trips", [hand[r] EXCEPT !.deltas = @ \ {d}])
        /\ v3' = [v3 EXCEPT ![d.trip] = C!With(v3[d.trip], C!Kept, d.old)]
        /\ UNCHANGED <<v1, v2, v4, v5, marred>>
  BY DEF C!RevertTrip, C!PutTrip
<1> DEFINE deltas == hand[r].deltas \ {d}
           new == C!With(v3[d.trip], C!Kept, d.old)
<1>2. /\ pc[r] = "revert trips" /\ pc'[r] = "revert trips"
      /\ hand'[r] = [hand[r] EXCEPT !.deltas = deltas]
      /\ \A q \in Three \ {r} : pc'[q] = pc[q] /\ hand'[q] = hand[q]
  BY <1>0, <1>1, PolicyAt DEF C!Goto
<1>3. PBusy(r) /\ pc[r] \notin PApplying /\ PHeld(r) /\ DOMAIN hand[r] = PHand
  BY <1>0, <1>2, PolicyAt DEF PBusy, PApplying
<1>4. hand'[r].deltas = deltas /\ hand'[r].event = hand[r].event
  BY <1>2, <1>3 DEF PHand
<1>5. /\ d.trip \in Couple /\ v3[d.trip] \in C!TripDoc /\ d.old \in C!TripDoc
  <2>1. d \in PDelta /\ PLive(d.trip)
    BY <1>1, <1>2, <1>3 DEF PHeld
  <2> QED
    BY <1>0, <2>1, PolicySound DEF PDelta
<1>6. /\ v3'[d.trip] = new /\ \A u \in Couple \ {d.trip} : v3'[u] = v3[u]
      /\ \A f \in C!Kept : new[f] = d.old[f]
  BY <1>0, <1>1, <1>5, PolicyTaken DEF PTyped
<1> SUFFICES ASSUME NEW e \in Three, "overlap" \notin marred', v5'[e] # nothing, NEW w, w = v5[e]
             PROVE  PWas(e, w)'
  BY <1>1, PolicyRemember
<1> HIDE DEF new, deltas
<1>7. /\ PWas(e, w) /\ \A q \in Three \ {r} : pc'[q] \in {"new", "done"} /\ pc[q] \in {"new", "done"}
      /\ e # r /\ hand[r].event = e
  BY <1>1, <1>2, <1>3, PolicyKnown DEF PBusy
<1>8. v4[e] # nothing /\ \A x \in v4[e].deltas : x.trip \in Couple
  <2>1. v4[e] # nothing
    BY <1>2, <1>3, <1>7 DEF PHeld, PReverting
  <2> QED
    BY <1>0, <2>1 DEF PTyped, PEvent, C!EventDoc
<1>9. PWho(e)'
  BY <1>2, <1>4, <1>7 DEF PWho, PBusy, PReverting
<1>10. PApplied(e, w)'
  BY <1>7 DEF PApplied, PApplying
<1>11. PUndone(e, w)'
  <2>1. /\ v4[e].old = w.customer /\ v4[e].status = "applied"
        /\ \A x \in v4[e].deltas : x.old = w.trips[x.trip]
        /\ \A t \in Couple \ PTripsOf(v4[e].deltas) : v3[t] = w.trips[t]
        /\ v1 = w.customer /\ hand[r].deltas \subseteq v4[e].deltas
        /\ \A x \in v4[e].deltas \ hand[r].deltas : PRestored(w, x.trip)
    BY <1>2, <1>7, <1>8 DEF PWas, PUndone, PReverting
  <2>2. d.old = w.trips[d.trip] /\ d.trip \in PTripsOf(v4[e].deltas)
    BY <1>1, <2>1 DEF PTripsOf
  <2>3. PRestored(w, d.trip)'
    BY <1>6, <2>2 DEF PRestored
  <2>4. ASSUME NEW x \in v4[e].deltas \ deltas
        PROVE  PRestored(w, x.trip)'
    <3>1. CASE x.trip = d.trip
      BY <2>3, <3>1
    <3>2. CASE x.trip # d.trip
      <4>1. x \notin hand[r].deltas
        BY <2>4, <3>2 DEF deltas
      <4> QED
        BY <1>6, <1>8, <2>1, <3>2, <4>1 DEF PRestored
    <3> QED
      BY <3>1, <3>2
  <2>5. \A t \in Couple \ PTripsOf(v4[e].deltas) : v3'[t] = w.trips[t]
    BY <1>6, <2>1, <2>2
  <2>6. \A q \in Three : pc'[q] = "revert trips" => q = r
    BY <1>7
  <2>7. hand'[r].deltas \subseteq v4[e].deltas
    BY <1>4, <2>1 DEF deltas
  <2>8. \A q \in Three : pc'[q] = "revert trips" =>
          /\ v1 = w.customer /\ hand'[q].deltas \subseteq v4[e].deltas
          /\ \A x \in v4[e].deltas \ hand'[q].deltas : PRestored(w, x.trip)'
    BY <1>4, <2>1, <2>4, <2>6, <2>7
  <2> QED
    BY <1>1, <1>2, <2>1, <2>5, <2>8 DEF PUndone, PTripsOf, PRestored
<1> QED
  BY <1>9, <1>10, <1>11 DEF PWas

LEMMA PolicyRevertFlipWas ==
  ASSUME PInv, NEW r \in Three, C!RevertFlip(r)
  PROVE  PRemembered'
<1>0. PCore /\ DOMAIN v4 = Three
  BY DEF PInv, PCore, PTyped
<1>1. /\ pc[r] = "revert trips" /\ hand[r].deltas = {} /\ pc'[r] = "done"
      /\ \A q \in Three \ {r} : pc'[q] = pc[q] /\ hand'[q] = hand[q]
      /\ v4' = [v4 EXCEPT ![hand[r].event] = [v4[hand[r].event] EXCEPT !.status = "reverted"]]
      /\ UNCHANGED <<v1, v2, v3, v5, marred>>
  BY <1>0, PolicyAt DEF C!RevertFlip, C!Goto
<1>2. PBusy(r) /\ pc[r] \notin PApplying /\ PHeld(r)
  BY <1>0, <1>1, PolicyAt DEF PBusy, PApplying
<1> SUFFICES ASSUME NEW e \in Three, "overlap" \notin marred', v5'[e] # nothing, NEW w, w = v5[e]
             PROVE  PWas(e, w)'
  BY <1>1, PolicyRemember
<1>3. /\ PWas(e, w) /\ \A q \in Three : pc'[q] \in {"new", "done"}
      /\ e # r /\ hand[r].event = e
  BY <1>1, <1>2, PolicyKnown DEF PBusy
<1>4. v4[e] # nothing
  BY <1>1, <1>2, <1>3 DEF PHeld, PReverting
<1>5. v4'[e].deltas = v4[e].deltas /\ v4'[e].old = v4[e].old /\ v4'[e].status = "reverted"
  <2>1. v4[e] \in PEvent
    BY <1>0, <1>4 DEF PCore, PTyped
  <2>2. v4'[e] = [v4[e] EXCEPT !.status = "reverted"]
    BY <1>0, <1>1, <1>3
  <2> QED
    BY <2>1, <2>2 DEF PEvent, C!EventDoc
<1>6. PWho(e)'
  BY <1>3 DEF PWho, PBusy
<1>7. PApplied(e, w)'
  BY <1>3 DEF PApplied, PApplying
<1>8. PUndone(e, w)'
  <2>1. /\ v4[e].old = w.customer
        /\ \A x \in v4[e].deltas : x.old = w.trips[x.trip]
        /\ \A t \in Couple \ PTripsOf(v4[e].deltas) : v3[t] = w.trips[t]
        /\ v1 = w.customer
        /\ \A x \in v4[e].deltas \ hand[r].deltas : PRestored(w, x.trip)
    BY <1>1, <1>3, <1>4 DEF PWas, PUndone, PReverting
  <2>2. \A t \in Couple : PRestored(w, t)
    <3> SUFFICES ASSUME NEW t \in Couple
                 PROVE  PRestored(w, t)
      OBVIOUS
    <3>1. CASE t \in PTripsOf(v4[e].deltas)
      BY <1>1, <2>1, <3>1 DEF PTripsOf
    <3>2. CASE t \notin PTripsOf(v4[e].deltas)
      BY <2>1, <3>2 DEF PRestored
    <3> QED
      BY <3>1, <3>2
  <2>3. \A t \in Couple : PRestored(w, t)'
    BY <1>1, <2>2 DEF PRestored
  <2> QED
    BY <1>1, <1>3, <1>5, <2>1, <2>3 DEF PUndone, PTripsOf, PReverting
<1> QED
  BY <1>6, <1>7, <1>8 DEF PWas

LEMMA PolicyRemembered ==
  ASSUME PInv, C!Next
  PROVE  PRemembered'
<1>1. PICK r \in Three : C!Start(r) \/ C!Step(r) \/ C!Die(r)
  BY DEF C!Next
<1>2. CASE C!Start(r)
  <2>1. ASSUME NEW t \in Couple, NEW s \in PolicySheet, C!CreateRead(r, t, s)
        PROVE  PRemembered'
    <3>1. PICK what, doc : /\ what = [C!Blank EXCEPT !.trip = t, !.doc = doc]
                           /\ C!Begin(r, "create", what)
      BY <2>1 DEF C!CreateRead
    <3>2. what.event = nothing
      BY <3>1, PolicyBlank DEF PHand
    <3> QED
      BY <3>1, <3>2, PolicyBeginWas
  <2>2. ASSUME NEW t \in Couple, NEW s \in PolicySheet, C!UpdateFind(r, t, s)
        PROVE  PRemembered'
    <3>1. PICK what, doc, old : /\ what = [C!Blank EXCEPT !.trip = t, !.old = old, !.doc = doc]
                                /\ C!Begin(r, "update", what)
      BY <2>2 DEF C!UpdateFind
    <3>2. what.event = nothing
      BY <3>1, PolicyBlank DEF PHand
    <3> QED
      BY <3>1, <3>2, PolicyBeginWas
  <2>3. ASSUME NEW t \in Couple, NEW a \in PolicyCharge \cup {nothing}, C!OverrideFind(r, t, a)
        PROVE  PRemembered'
    <3>1. PICK what, rec : /\ what = [C!Blank EXCEPT !.trip = t, !.doc = rec, !.old = a]
                           /\ C!Begin(r, "override", what)
      BY <2>3 DEF C!OverrideFind
    <3>2. what.event = nothing
      BY <3>1, PolicyBlank DEF PHand
    <3> QED
      BY <3>1, <3>2, PolicyBeginWas
  <2>4. CASE \/ \E t \in Couple : C!Invoice(r, t)
             \/ \E p \in PolicyChoice : C!EditCustomer(r, p)
             \/ \E n \in PolicyLimit, on \in BOOLEAN : C!RuleEdit(r, n, on)
             \/ C!RuleDelete(r)
    BY <2>4, PolicyOnceWas DEF C!Invoice, C!EditCustomer, C!RuleEdit, C!RuleDelete
  <2>5. CASE \E p \in PolicyChoice, d \in PolicyDay, chosen \in SUBSET Couple :
               C!ApplyFind(r, p, d, chosen)
    BY <2>5, PolicyApplyFindWas
  <2>6. CASE \E e \in Three : C!RevertFind(r, e)
    BY <2>6, PolicyRevertFindWas
  <2> QED
    BY <1>2, <2>1, <2>2, <2>3, <2>4, <2>5, <2>6 DEF C!Start
<1>3. CASE C!Step(r)
  <2>1. CASE C!CreateInsert(r) \/ C!UpdateWrite(r) \/ C!OverrideWrite(r)
    <3>1. /\ pc[r] \in {"create", "update", "override"} /\ v5' = v5 /\ marred \subseteq marred'
      BY <2>1 DEF C!CreateInsert, C!UpdateWrite, C!OverrideWrite, C!PutTrip
    <3> QED
      BY <3>1, PolicyForgets
  <2> QED
    BY <1>3, <2>1, PolicyApplyCustomerWas, PolicyApplyReadWas, PolicyApplyTripWas,
       PolicyApplyEventWas, PolicyRevertGateWas, PolicyRevertCustomerWas,
       PolicyRevertTripWas, PolicyRevertFlipWas DEF C!Step
<1>4. CASE C!Die(r)
  BY <1>4, PolicyDieWas
<1> QED
  BY <1>1, <1>2, <1>3, <1>4

LEMMA PoliciesRemember ==
  /\ C!Init => PRemembered
  /\ PRemembered /\ UNCHANGED <<v1, v2, v3, v4, v5, pc, hand, marred>> => PRemembered'
<1>1. C!Init => PRemembered
  BY DEF C!Init, PRemembered
<1>2. ASSUME PRemembered, UNCHANGED <<v1, v2, v3, v4, v5, pc, hand, marred>>
      PROVE  PRemembered'
  <2> SUFFICES ASSUME NEW e \in Three, "overlap" \notin marred', v5'[e] # nothing, NEW w, w = v5[e]
               PROVE  PWas(e, w)'
    BY <1>2, PolicyRemember
  <2>1. PWas(e, w)
    BY <1>2 DEF PRemembered
  <2>2. PWho(e)'
    BY <1>2, <2>1 DEF PWas, PWho, PBusy
  <2>5. \A t : /\ PShows(w, t)' <=> PShows(w, t)
               /\ PRestored(w, t)' <=> PRestored(w, t)
               /\ PLive(t)' <=> PLive(t)
               /\ \A n : C!Eligible(t, n)' <=> C!Eligible(t, n)
    BY <1>2 DEF PShows, PRestored, PLive, C!Eligible, C!Live
  <2>3. PApplied(e, w)'
    BY <1>2, <2>1, <2>5 DEF PWas, PApplied
  <2>4. PUndone(e, w)'
    BY <1>2, <2>1, <2>5 DEF PWas, PUndone
  <2> QED
    BY <2>2, <2>3, <2>4 DEF PWas
<1> QED
  BY <1>1, <1>2

LEMMA PoliciesChange ==
  ASSUME PInv
  PROVE  C!ChangesAgree
<1>1. ASSUME NEW e \in Three, v4[e] # nothing, v5[e] # nothing, "overlap" \notin marred,
             NEW w, w = v5[e]
      PROVE  /\ v4[e].status = "reverted" =>
                  v1 = w.customer /\ \A t \in Couple : PLive(t) => PRestored(w, t)
             /\ v4[e].status = "applied" /\ marred = {} /\ (\A r \in Three : ~PBusy(r)) =>
                  \A d \in v4[e].deltas : PShows(w, d.trip)
             /\ \A t \in Couple \ PTripsOf(v4[e].deltas) : v3[t] = w.trips[t]
  BY <1>1 DEF PInv, PRemembered, PWas, PUndone, PBusy
<1>2. C!UndoRestores
  <2> SUFFICES ASSUME NEW e \in Three, v4[e] # nothing, v4[e].status = "reverted",
                      v5[e] # nothing, "overlap" \notin marred
               PROVE  /\ v1 = v5[e].customer
                      /\ \A t \in Couple : PLive(t) =>
                           \A f \in C!Kept : v3[t][f] = v5[e].trips[t][f]
    BY DEF C!UndoRestores, C!Live, PLive
  <2> QED
    BY <1>1 DEF PRestored
<1>3. C!AppliedAsShown
  <2> SUFFICES ASSUME NEW e \in Three, v4[e] # nothing, v4[e].status = "applied", C!Busy = {},
                      v5[e] # nothing, marred = {}, NEW t \in Couple, PLive(t)
               PROVE  LET shown == {p \in v5[e].shown : p.trip = t}
                      IN  IF t \in C!TripsOf(e)
                          THEN \E p \in shown : \A f \in C!Rewritten : v3[t][f] = p.new[f]
                          ELSE v3[t] = v5[e].trips[t]
    BY DEF C!AppliedAsShown, C!Live, PLive
  <2>1. /\ \A d \in v4[e].deltas : PShows(v5[e], d.trip)
        /\ \A u \in Couple \ PTripsOf(v4[e].deltas) : v3[u] = v5[e].trips[u]
    BY <1>1, PolicyBusy
  <2>2. C!TripsOf(e) = PTripsOf(v4[e].deltas)
    BY DEF C!TripsOf, PTripsOf
  <2>3. CASE t \in C!TripsOf(e)
    <3>1. PShows(v5[e], t)
      BY <2>1, <2>2, <2>3 DEF PTripsOf
    <3> QED
      BY <2>3, <3>1 DEF PShows
  <2>4. CASE t \notin C!TripsOf(e)
    BY <2>1, <2>2, <2>4
  <2> QED
    BY <2>3, <2>4
<1> QED
  BY <1>2, <1>3 DEF C!ChangesAgree

-----------------------------------------------------------------------------
(* The screens that repeat the arithmetic.                                 *)

(* What a weight above zero is worth, at a rate that a kilogram feels.     *)
LEMMA PolicyWorth ==
  ASSUME NEW rate \in Int, C!Worth(rate, 1) > 0, NEW kg \in Int, kg > 0
  PROVE  C!Worth(rate, kg) > 0
<1>1. rate >= 1000
  BY DEF C!Worth
<1>2. rate * kg >= 1000
  <2>1. PICK more \in Nat : kg = 1 + more
    <3>1. kg - 1 \in Nat /\ kg = 1 + (kg - 1)
      OBVIOUS
    <3> QED
      BY <3>1
  <2>2. rate * kg = rate + rate * more
    BY <2>1
  <2>3. rate * more \in Int /\ rate * more >= 0
    BY <1>1, <2>1
  <2> QED
    BY <1>1, <2>2, <2>3
<1>3. rate * kg \in Int
  OBVIOUS
<1>4. (rate * kg) \div 1000 > 0
  <2> DEFINE much == rate * kg
  <2>1. much \in Int /\ much >= 1000
    BY <1>2, <1>3
  <2> HIDE DEF much
  <2>2. much \div 1000 > 0
    BY <2>1
  <2> QED
    BY <2>2 DEF much
<1> QED
  BY <1>4 DEF C!Worth

(* The register shows a shortage where the customer deducts one.           *)
LEMMA PolicyRegister ==
  ASSUME NEW t \in C!TripDoc, PRight(t), C!HasLimit(t), ~t.shortage_override, t.tons >= 0,
         C!Worth(t.product_rate, 1) > 0
  PROVE  C!RegisterRow(t).net > 0 <=> t.shortage_amount > 0
<1> DEFINE short == C!Shortage(t)
           allowed == C!Allowance(t)
<1>1. /\ t.tons \in Int /\ t.product_rate \in Int /\ t.snap.limit \in Int
      /\ t.snap.product \in Int /\ t.unloaded_qty \in Int /\ t.loaded_qty \in Int
  BY PolicyFields
<1>2. short \in Int /\ short >= 0
  BY <1>1 DEF C!Shortage, C!Positive, C!Loaded
<1>3. allowed \in Int /\ allowed >= 0
  <2>1. CASE t.snap.limit <= 0
    <3>1. t.snap.product > 0
      BY <1>1, <2>1 DEF C!HasLimit
    <3>2. t.tons * t.snap.product \in Int /\ t.tons * t.snap.product >= 0
      BY <1>1, <3>1
    <3> DEFINE much == t.tons * t.snap.product
    <3>3. much \in Int /\ much >= 0
      BY <3>2
    <3> HIDE DEF much
    <3>4. much \div 100 \in Int /\ much \div 100 >= 0
      BY <3>3
    <3> QED
      BY <2>1, <3>4 DEF C!Allowance, much
  <2>2. CASE t.snap.limit > 0 /\ t.snap.limit_type = "kg"
    BY <1>1, <2>2 DEF C!Allowance
  <2>3. CASE t.snap.limit > 0 /\ t.snap.limit_type # "kg"
    <3>2. t.tons * t.snap.limit \in Int /\ t.tons * t.snap.limit >= 0
      BY <1>1, <2>3
    <3> DEFINE much == t.tons * t.snap.limit
    <3>3. much \in Int /\ much >= 0
      BY <3>2
    <3> HIDE DEF much
    <3>4. much \div 100 \in Int /\ much \div 100 >= 0
      BY <3>3
    <3>5. allowed = much \div 100
      BY <1>1, <2>3 DEF C!Allowance, much
    <3> QED
      BY <3>4, <3>5
  <2> QED
    BY <1>1, <2>1, <2>2, <2>3
<1>4. C!RegisterAllowance(t) = allowed
  <2>1. CASE t.snap.limit <= 0
    BY <1>1, <2>1 DEF C!RegisterAllowance, C!Allowance, C!HasLimit
  <2>2. CASE t.snap.limit > 0
    BY <1>1, <2>2 DEF C!RegisterAllowance, C!Allowance
  <2> QED
    BY <1>1, <2>1, <2>2
<1>5. t.shortage_qty = short /\ t.shortage_amount = C!ShortageAmount(t)
  BY DEF PRight, PBilled
<1>6. C!RegisterRow(t).net = C!Positive(short - allowed)
  BY <1>4, <1>5 DEF C!RegisterRow
<1> HIDE DEF short, allowed
<1>7. C!RegisterRow(t).net > 0 <=> short > allowed
  BY <1>2, <1>3, <1>6 DEF C!Positive
<1>8. t.shortage_amount > 0 <=> short > allowed
  <2>1. C!Worth(t.product_rate, short) > 0 \/ short = 0
    BY <1>1, <1>2, PolicyWorth
  <2>2. short > allowed => C!Worth(t.product_rate, C!Positive(short - allowed)) > 0
    BY <1>1, <1>2, <1>3, PolicyWorth DEF C!Positive
  <2>3. t.shortage_amount = IF short <= allowed THEN 0
                            ELSE IF t.snap.deduct = "full_after_limit"
                            THEN C!Worth(t.product_rate, short)
                            ELSE C!Worth(t.product_rate, C!Positive(short - allowed))
    BY <1>5 DEF C!ShortageAmount, short, allowed
  <2> QED
    BY <1>2, <1>3, <2>1, <2>2, <2>3
<1> QED
  BY <1>7, <1>8

(* The verification of halting has nothing to flag.                        *)
LEMMA PolicyHaltingRows ==
  ASSUME NEW ts, \A t \in ts : t \in C!TripDoc /\ PRight(t), NEW start, NEW end,
         NEW t \in C!HaltingRows(ts, start, end, TRUE, ts)
  PROVE  t.grace_days < 0
<1>1. t \in ts /\ C!HaltingFlags(t, t \in ts) # {}
  BY DEF C!HaltingRows, C!InPeriod, C!Shown
<1>2. /\ t.loading_date \in Int /\ t.unloading_date \in Int /\ t.total_halting_days \in Int
      /\ t.grace_days \in Int /\ t.halting_rate \in Int /\ t.halting_amount \in Int
  BY <1>1, PolicyFields
<1>3. t.total_halting_days = C!HaltingDays(t) /\ t.halting_amount = C!Halting(t)
  BY <1>1 DEF PRight, PHalted
<1>4. t.total_halting_days = C!ExpectedDays(t)
  BY <1>2, <1>3 DEF C!HaltingDays, C!ExpectedDays, C!Positive
<1>5. SUFFICES ASSUME t.grace_days >= 0
               PROVE  FALSE
  BY <1>2
<1>6. C!Positive(t.grace_days) = t.grace_days
  BY <1>2, <1>5 DEF C!Positive
<1>7. t.halting_amount = C!ExpectedHalting(t)
  BY <1>3, <1>4, <1>6 DEF C!Halting, C!ExpectedHalting
<1>8. C!HaltingFlags(t, t \in ts) = {}
  BY <1>1, <1>4, <1>7 DEF C!HaltingFlags
<1> QED
  BY <1>1, <1>8

LEMMA PolicySum ==
  ASSUME NEW ts, IsFiniteSet(ts), \A t \in ts : t \in C!TripDoc
  PROVE  C!Sums(ts, LAMBDA t : t.freight_amount)
           = SumFunctionOnSet([t \in ts |-> t.freight_amount], ts)
BY DEF C!Sums, C!SumFunction, C!SumFunctionOnSet, C!FoldFunctionOnSet, C!MapThenFoldSet,
       SumFunctionOnSet, FoldFunctionOnSet, MapThenFoldSet

(* The register of two periods is that of both, and has what the list of   *)
(* drivers has.                                                            *)
LEMMA PolicyPeriods ==
  ASSUME NEW ts, IsFiniteSet(ts), \A t \in ts : t \in C!TripDoc
  PROVE  /\ C!Register(ts, 0, 99, "all").freight
              = C!Register(ts, 0, 1, "all").freight + C!Register(ts, 2, 99, "all").freight
         /\ C!Register(ts, 0, 99, "all").freight = C!DriverStats(ts).freight
         /\ C!Register(ts, 0, 99, "all").count = C!DriverStats(ts).trips
         /\ C!DriverHistory(ts, 0, 99).total = C!DriverStats(ts).trips
         /\ C!Register(ts, 0, 99, "all").rows
              = UNION {C!Register(ts, 0, 99, s).rows : s \in C!Statuses}
<1> DEFINE fun == [t \in ts |-> t.freight_amount]
           all == C!InPeriod(ts, 0, 99)
           first == C!InPeriod(ts, 0, 1)
           rest == C!InPeriod(ts, 2, 99)
<1>1. \A t \in ts : t.freight_amount \in Int /\ t.date \in 0 .. 99
  BY DEF C!TripDoc, C!Days
<1>2. /\ all = C!Shown(ts) /\ all = first \cup rest /\ first \cap rest = {}
      /\ all \subseteq ts /\ first \subseteq ts /\ rest \subseteq ts
  BY <1>1 DEF C!InPeriod, C!Shown
<1>3. IsFiniteSet(all) /\ IsFiniteSet(first) /\ IsFiniteSet(rest)
  BY <1>2, FS_Subset
<1>4. ASSUME NEW some \in SUBSET ts, IsFiniteSet(some)
      PROVE  C!Sums(some, LAMBDA t : t.freight_amount) = SumFunctionOnSet(fun, some)
  <2> DEFINE gun == [t \in some |-> t.freight_amount]
  <2>1. C!Sums(some, LAMBDA t : t.freight_amount) = SumFunctionOnSet(gun, some)
    BY <1>4, PolicySum
  <2>2. fun \in [ts -> Int] /\ gun \in [some -> Int] /\ \A t \in some : fun[t] = gun[t]
    BY <1>1
  <2> HIDE DEF fun, gun
  <2>3. SumFunctionOnSet(fun, some) = SumFunctionOnSet(gun, some)
    BY <1>4, <2>2, SumSame
  <2> QED
    BY <2>1, <2>3
<1>5. /\ C!Register(ts, 0, 99, "all").freight = C!Sums(all, LAMBDA t : t.freight_amount)
      /\ C!Register(ts, 0, 1, "all").freight = C!Sums(first, LAMBDA t : t.freight_amount)
      /\ C!Register(ts, 2, 99, "all").freight = C!Sums(rest, LAMBDA t : t.freight_amount)
      /\ C!DriverStats(ts).freight = C!Sums(C!Shown(ts), LAMBDA t : t.freight_amount)
  BY DEF C!Register, C!LrRegister, C!DriverStats
<1>6. SumFunctionOnSet(fun, first \cup rest)
        = SumFunctionOnSet(fun, first) + SumFunctionOnSet(fun, rest)
  <2>1. fun \in [ts -> Int]
    BY <1>1
  <2> HIDE DEF fun, first, rest
  <2> QED
    BY <1>2, <1>3, <2>1, SumUnion
<1>7. C!Register(ts, 0, 99, "all").rows = all
  BY DEF C!Register, C!LrRegister
<1>8. /\ C!Register(ts, 0, 99, "all").count = Cardinality(all)
      /\ C!DriverStats(ts).trips = Cardinality(all)
      /\ C!DriverHistory(ts, 0, 99).total = Cardinality(all)
  BY <1>2 DEF C!Register, C!LrRegister, C!DriverStats, C!DriverHistory, C!Cardinality, Cardinality
<1>9. all = UNION {C!Register(ts, 0, 99, s).rows : s \in C!Statuses}
  <2>1. \A s \in C!Statuses : C!Register(ts, 0, 99, s).rows
                                = {t \in all : s = C!StatusOf(t)}
    BY <1>2 DEF C!Register, C!LrRegister, C!Statuses
  <2>2. \A t \in all : C!StatusOf(t) \in C!Statuses
    BY DEF C!StatusOf, C!InvoiceStatus, C!Statuses
  <2> HIDE DEF all
  <2> QED
    BY <2>1, <2>2
<1> HIDE DEF fun, all, first, rest
<1>10. /\ C!Sums(all, LAMBDA t : t.freight_amount) = SumFunctionOnSet(fun, all)
       /\ C!Sums(first, LAMBDA t : t.freight_amount) = SumFunctionOnSet(fun, first)
       /\ C!Sums(rest, LAMBDA t : t.freight_amount) = SumFunctionOnSet(fun, rest)
  BY <1>2, <1>3, <1>4
<1> QED
  BY <1>2, <1>5, <1>6, <1>7, <1>8, <1>9, <1>10

LEMMA PoliciesView ==
  ASSUME PCore
  PROVE  C!ViewsAgree
<1> DEFINE live == {u \in Couple : C!Live(u)}
           ts == {v3[t] : t \in live}
<1> SUFFICES ASSUME PGood
             PROVE  /\ \A t \in live :
                         C!HasLimit(v3[t]) /\ ~v3[t].shortage_override
                           /\ v3[t].tons >= 0 /\ C!Worth(v3[t].product_rate, 1) > 0 =>
                             (C!RegisterRow(v3[t]).net > 0 <=> v3[t].shortage_amount > 0)
                    /\ \A t \in C!HaltingRows(ts, 0, 99, TRUE, ts) : t.grace_days < 0
                    /\ C!Register(ts, 0, 99, "all").rows
                         = UNION {C!Register(ts, 0, 99, s).rows : s \in C!Statuses}
                    /\ C!Register(ts, 0, 99, "all").freight
                         = C!Register(ts, 0, 1, "all").freight + C!Register(ts, 2, 99, "all").freight
                    /\ C!Register(ts, 0, 99, "all").freight = C!DriverStats(ts).freight
                    /\ {C!Register(ts, 0, 99, "all").count, C!DriverHistory(ts, 0, 99).total}
                         = {C!DriverStats(ts).trips}
                    /\ "overlap" \notin marred =>
                         C!DriverHistory(ts, 0, 99).recovery
                           = C!SumFunction([t \in C!Shown(ts) |-> C!Answers(t.recovery, t)])
  BY DEF C!ViewsAgree, PGood
<1>1. \A t \in live : v3[t] \in C!TripDoc /\ PRight(v3[t])
  BY PolicySound DEF C!Live, PLive
<1>2. \A t \in ts : t \in C!TripDoc /\ PRight(t)
  BY <1>1
<1>3. IsFiniteSet(ts)
  <2>1. IsFiniteSet(live)
    BY OfficePolicies, FS_Subset
  <2>2. [t \in live |-> v3[t]] \in Surjection(live, ts)
    BY DEF Surjection
  <2> HIDE DEF live, ts
  <2> QED
    BY <2>1, <2>2, FS_Surjection
<1>4. \A t \in live :
        C!HasLimit(v3[t]) /\ ~v3[t].shortage_override
          /\ v3[t].tons >= 0 /\ C!Worth(v3[t].product_rate, 1) > 0 =>
            (C!RegisterRow(v3[t]).net > 0 <=> v3[t].shortage_amount > 0)
  BY <1>1, PolicyRegister
<1>5. "overlap" \notin marred =>
        \A t \in ts : t.recovery.final = C!Answers(t.recovery, t)
  <2>1. "overlap" \notin marred => PClean
    BY DEF PClean, PGood
  <2>2. PClean => \A t \in live : v3[t].recovery.final = C!Answers(v3[t].recovery, v3[t])
    BY PolicySound, PolicyAnswers DEF C!Live, PLive
  <2> QED
    BY <2>1, <2>2
<1> HIDE DEF ts, live
<1>6. \A t \in C!HaltingRows(ts, 0, 99, TRUE, ts) : t.grace_days < 0
  BY <1>2, PolicyHaltingRows
<1>7. /\ C!Register(ts, 0, 99, "all").freight
            = C!Register(ts, 0, 1, "all").freight + C!Register(ts, 2, 99, "all").freight
      /\ C!Register(ts, 0, 99, "all").freight = C!DriverStats(ts).freight
      /\ C!Register(ts, 0, 99, "all").count = C!DriverStats(ts).trips
      /\ C!DriverHistory(ts, 0, 99).total = C!DriverStats(ts).trips
      /\ C!Register(ts, 0, 99, "all").rows
           = UNION {C!Register(ts, 0, 99, s).rows : s \in C!Statuses}
  BY <1>2, <1>3, PolicyPeriods
<1>8. "overlap" \notin marred =>
        C!DriverHistory(ts, 0, 99).recovery
          = C!SumFunction([t \in C!Shown(ts) |-> C!Answers(t.recovery, t)])
  <2> SUFFICES ASSUME "overlap" \notin marred
               PROVE  C!DriverHistory(ts, 0, 99).recovery
                        = C!SumFunction([t \in C!Shown(ts) |-> C!Answers(t.recovery, t)])
    OBVIOUS
  <2>1. C!InPeriod(ts, 0, 99) = C!Shown(ts)
    BY <1>2 DEF C!InPeriod, C!Shown, C!TripDoc, C!Days
  <2>2. C!DriverHistory(ts, 0, 99).recovery
          = C!SumFunction([t \in C!Shown(ts) |-> t.recovery.final])
    BY <2>1 DEF C!DriverHistory, C!Sums
  <2>3. [t \in C!Shown(ts) |-> t.recovery.final]
          = [t \in C!Shown(ts) |-> C!Answers(t.recovery, t)]
    BY <1>5 DEF C!Shown
  <2> QED
    BY <2>2, <2>3
<1> QED
  BY <1>4, <1>6, <1>7, <1>8

-----------------------------------------------------------------------------
(* The office: a step is a step of the desk where the behaviour is.        *)

LEMMA DeskStays ==
  ASSUME [Next]_vars
  PROVE  desk' = desk
BY DEF Next, vars, NotesDesk, TripsDesk, PoliciesDesk, RouterDesk, SuppliersDesk,
       BooksDesk, DriversDesk, ReturnsDesk, ReceiptsDesk

LEMMA NotesSteps ==
  ASSUME [Next]_vars, desk = "notes", NInv
  PROVE  NInv' /\ (UNCHANGED vars \/ N!Settled)
<1>1. CASE UNCHANGED vars
  <2>1. UNCHANGED <<v1, v2, v3, v4, pc, hand, marred>>
    BY <1>1 DEF vars
  <2> QED
    BY <1>1, <2>1, NotesStand
<1>2. CASE Next
  <2>1. N!Next
    BY <1>2 DEF Next, NotesDesk, TripsDesk, PoliciesDesk, RouterDesk, SuppliersDesk,
                BooksDesk, DriversDesk, ReturnsDesk, ReceiptsDesk
  <2>2. PICK r \in Three : NStep(r)
    BY <2>1 DEF N!Next, NStep
  <2> QED
    BY <2>2, NotesKept, NotesSettled
<1> QED
  BY <1>1, <1>2

LEMMA TripsSteps ==
  ASSUME [Next]_vars, desk = "trips", TInv
  PROVE  TInv' /\ (UNCHANGED vars \/ T!Healed)
<1>1. CASE UNCHANGED vars
  <2>1. UNCHANGED <<v1, v2, v3, v4, v5, pc, hand, marred>>
    BY <1>1 DEF vars
  <2> QED
    BY <1>1, <2>1, TripsStand
<1>2. CASE Next
  <2>1. T!Next
    BY <1>2 DEF Next, NotesDesk, TripsDesk, PoliciesDesk, RouterDesk, SuppliersDesk,
                BooksDesk, DriversDesk, ReturnsDesk, ReceiptsDesk
  <2>2. PICK r \in Two : TStep(r)
    BY <2>1 DEF T!Next, TStep
  <2> QED
    BY <2>2, TripsKept, TripsHeal
<1> QED
  BY <1>1, <1>2

LEMMA RouterSteps ==
  ASSUME [Next]_vars, desk = "router", RInv
  PROVE  RInv' /\ R!KillHeeded
<1>1. R!Next \/ UNCHANGED R!vars
  BY DEF Next, vars, R!vars,
         NotesDesk, TripsDesk, PoliciesDesk, RouterDesk, SuppliersDesk,
         BooksDesk, DriversDesk, ReturnsDesk, ReceiptsDesk
<1> QED
  BY <1>1, RouterKept, RouterHeeds

LEMMA ReceiptsSteps ==
  ASSUME [Next]_vars, desk = "receipts", ZInv
  PROVE  ZInv'
<1>1. Z!Next \/ UNCHANGED <<v1, v2, v3, pc, hand, marred>>
  BY DEF Next, vars,
         NotesDesk, TripsDesk, PoliciesDesk, RouterDesk, SuppliersDesk,
         BooksDesk, DriversDesk, ReturnsDesk, ReceiptsDesk
<1> QED
  BY <1>1, ReceiptsKept, ReceiptsStand

LEMMA DriversSteps ==
  ASSUME [Next]_vars, desk = "drivers", DInv
  PROVE  DInv' /\ (UNCHANGED vars \/ D!PastSalaryKept)
<1>1. D!Next \/ UNCHANGED vars
  BY DEF Next, NotesDesk, TripsDesk, PoliciesDesk, RouterDesk, SuppliersDesk,
         BooksDesk, DriversDesk, ReturnsDesk, ReceiptsDesk
<1>2. CASE UNCHANGED vars
  <2>1. UNCHANGED <<v1, v2, v3, pc, hand, marred>>
    BY <1>2 DEF vars
  <2> QED
    BY <1>2, <2>1, DriversStand
<1>3. CASE D!Next
  BY <1>3, DriversKept
<1> QED
  BY <1>1, <1>2, <1>3

LEMMA PoliciesSteps ==
  ASSUME [Next]_vars, desk = "policies", PInv
  PROVE  PInv' /\ (UNCHANGED vars \/ (C!InvoicedKept /\ C!RecoveryKept))
<1>1. C!Next \/ UNCHANGED vars
  BY DEF Next, NotesDesk, TripsDesk, PoliciesDesk, RouterDesk, SuppliersDesk,
         BooksDesk, DriversDesk, ReturnsDesk, ReceiptsDesk
<1>2. PCore /\ PRemembered
  BY DEF PInv
<1>3. CASE UNCHANGED vars
  <2>1. UNCHANGED <<v1, v2, v3, v4, v5, pc, hand, marred>>
    BY <1>3 DEF vars
  <2>2. PCore' /\ PRemembered'
    BY <1>2, <2>1, PoliciesStand, PoliciesRemember
  <2> QED
    BY <1>3, <2>2 DEF PInv
<1>4. CASE C!Next
  <2>1. PCore' /\ C!InvoicedKept /\ C!RecoveryKept
    BY <1>2, <1>4, PolicyCoreKept
  <2>2. PRemembered'
    BY <1>4, PolicyRemembered
  <2> QED
    BY <2>1, <2>2 DEF PInv
<1> QED
  BY <1>1, <1>3, <1>4

LEMMA ReturnsSteps ==
  ASSUME [Next]_vars, desk = "returns", GInv
  PROVE  GInv'
<1>1. G!Next \/ UNCHANGED <<v1, v2, v3, v4, v5, pc, hand>>
  BY DEF Next, vars, NotesDesk, TripsDesk, PoliciesDesk, RouterDesk, SuppliersDesk,
         BooksDesk, DriversDesk, ReturnsDesk, ReceiptsDesk
<1> QED
  BY <1>1, ReturnsKept, ReturnsStay

DeskInv ==
  /\ desk = "notes" => NInv
  /\ desk = "trips" => TInv
  /\ desk = "policies" => PInv
  /\ desk = "router" => RInv
  /\ desk = "drivers" => DInv
  /\ desk = "returns" => GInv
  /\ desk = "receipts" => ZInv

(* The invariant of the desk of the notes, of the trips, of the policies,  *)
(* of the router, of the drivers' ledger, of the tax returns or of the     *)
(* lorry receipts, whichever is open, holds in every reachable state.      *)
THEOREM DesksHold == Spec => []DeskInv
<1>1. Init => DeskInv
  <2>1. ASSUME Init, desk = "notes"
        PROVE  NInv
    BY <2>1, NotesBegin DEF Init
  <2>2. ASSUME Init, desk = "router"
        PROVE  RInv
    BY <2>2, RouterBegin DEF Init
  <2>3. ASSUME Init, desk = "receipts"
        PROVE  ZInv
    BY <2>3, ReceiptsBegin DEF Init
  <2>4. ASSUME Init, desk = "trips"
        PROVE  TInv
    BY <2>4, TripsBegin DEF Init
  <2>5. ASSUME Init, desk = "drivers"
        PROVE  DInv
    BY <2>5, DriversBegin DEF Init
  <2>6. ASSUME Init, desk = "policies"
        PROVE  PInv
    BY <2>6, PoliciesBegin, PoliciesRemember DEF Init, PInv
  <2>7. ASSUME Init, desk = "returns"
        PROVE  GInv
    BY <2>7, ReturnsBegin DEF Init
  <2> QED
    BY <2>1, <2>2, <2>3, <2>4, <2>5, <2>6, <2>7 DEF DeskInv
<1>2. DeskInv /\ [Next]_vars => DeskInv'
  BY DeskStays, NotesSteps, TripsSteps, RouterSteps, DriversSteps, ReturnsSteps, ReceiptsSteps,
     PoliciesSteps DEF DeskInv
<1> QED
  BY <1>1, <1>2, PTL DEF Spec

(* However requests overlap and die, no two notes have one number; credit  *)
(* stays within the invoice, no active note has lost its invoice, and the  *)
(* ledger shows the issued notes, each as long as the exceptions that are  *)
(* named have not happened: for any number of requests and any amounts.    *)
THEOREM NotesStayTrue == Spec => []NotesAgree
<1>1. DeskInv => NotesAgree
  BY NotesMean DEF DeskInv, NotesAgree
<1> QED
  BY <1>1, DesksHold, PTL

(* All receipts of a trip bear its number, no two trips of a company share *)
(* one, and an archive has the receipts that were asked for, of one        *)
(* company: for any number of requests, trips and companies.               *)
THEOREM ReceiptsStayTrue == Spec => []ReceiptsAgree
<1>1. DeskInv => ReceiptsAgree
  BY ReceiptsMean DEF DeskInv, ReceiptsAgree
<1> QED
  BY <1>1, DesksHold, PTL

(* Between requests the reports charge each line of a live trip once and   *)
(* of a deleted trip not at all, the drivers' ledger holds its recovery    *)
(* once, and the toll is linked to a trip that exists, each as long as the *)
(* exceptions that are named have not happened: for any trips and amounts. *)
THEOREM TripsStayTrue == Spec => []TripsAgree
<1>1. DeskInv => TripsAgree
  BY TripsMean DEF DeskInv, TripsAgree
<1> QED
  BY <1>1, DesksHold, PTL

(* Whatever has gone wrong before, a save that overlaps no other request   *)
(* and finishes its sync leaves each line of its trip charged once.        *)
THEOREM SyncHealsTrips == Spec => SyncHeals
<1>1. DeskInv /\ [Next]_vars => [desk = "trips" => T!Healed]_vars
  BY TripsSteps DEF DeskInv
<1> QED
  BY <1>1, DesksHold, PTL DEF Spec, SyncHeals

(* Once the kill file has been there for longer than a look is remembered, *)
(* no request goes to Node, and none ever goes by a route that the         *)
(* configuration does not allow: for any routes and any period.            *)
THEOREM KillIsHeeded == Spec => KillTakesEffect
<1>1. DeskInv /\ [Next]_vars => [desk = "router" => R!KillHeeded]_vars
  BY RouterSteps DEF DeskInv
<1> QED
  BY <1>1, DesksHold, PTL DEF Spec, KillTakesEffect

(* An account of a driver adds up however it is read: the ledger, its      *)
(* months and its balance; no month has two salaries or settlements posted *)
(* unless the exceptions that are named have happened: for any number of   *)
(* requests, months and amounts.                                           *)
THEOREM DriversStayTrue == Spec => [](desk = "drivers" => D!DriverBooks)
<1>1. DeskInv => (desk = "drivers" => D!DriverBooks)
  BY DriversMean DEF DeskInv
<1> QED
  BY <1>1, DesksHold, PTL

(* The figures of a trip are those that the snapshot it carries gives,     *)
(* whatever dies half way and in whatever order policies are applied and   *)
(* undone, for any trips, policies and requests, and the screens that      *)
(* repeat the arithmetic agree with it: unless an update has met another   *)
(* request, or has come between a change and its undoing.                  *)
THEOREM FiguresStayTrue == Spec => []FiguresAgree
<1>1. DeskInv => FiguresAgree
  BY PoliciesFigure, PoliciesView DEF DeskInv, PInv, FiguresAgree, C!FiguresAgree
<1> QED
  BY <1>1, DesksHold, PTL

(* What is settled stands: the number and amount of an issued note; the    *)
(* figures of an invoiced trip, and the limit and the decision a driver    *)
(* answers by, as long as requests do not overlap and no update comes      *)
(* between a change and its undoing; the salary of a month that is over.   *)
THEOREM SettledStayTrue == Spec => SettledStands
<1>1. DeskInv /\ [Next]_vars =>
        [/\ desk = "notes" => N!Settled
         /\ desk = "policies" => C!InvoicedKept /\ C!RecoveryKept
         /\ desk = "drivers" => D!PastSalaryKept]_vars
  BY NotesSteps, PoliciesSteps, DriversSteps DEF DeskInv
<1> QED
  BY <1>1, DesksHold, PTL DEF Spec, SettledStands

(* However an application or its undoing is cut short, what an event has   *)
(* not reached is as it was, what undoing it has finished is all put back, *)
(* and what applying it has finished is what was shown, as the exceptions  *)
(* that are named allow: for any trips, policies and requests.             *)
THEOREM ChangesStayTrue == Spec => []ChangesAgree
<1>1. DeskInv => ChangesAgree
  BY PoliciesChange DEF DeskInv, ChangesAgree
<1> QED
  BY <1>1, DesksHold, PTL

(* A note that a return of a past month has listed is in every return of   *)
(* that month that is asked for later, whatever is cancelled in between;   *)
(* a return that is served comes to what the register of the moment comes  *)
(* to, a register to the same by customer, by reason and by tax; and the   *)
(* file for the portal accounts for every note and passes the validation:  *)
(* for any notes, invoices, customers, months and number of screens.       *)
THEOREM ReturnsStayTrue == Spec => []ReturnsAgree
<1>1. DeskInv => ReturnsAgree
  BY ReturnsMean DEF DeskInv, ReturnsAgree
<1> QED
  BY <1>1, DesksHold, PTL
=============================================================================
