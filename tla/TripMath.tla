------------------------------- MODULE TripMath -------------------------------
(***************************************************************************)
(* The arithmetic of a trip and of the invoice made of trips: services.py, *)
(* and the recovery from a driver in routers/driver_shortage_policies.py.  *)
(*                                                                         *)
(* A trip is the record that db.trips holds, in which _compute_trip fills  *)
(* the figures in: what it is given and what it makes are fields of one    *)
(* document, and every update computes the document again.  Quantities are *)
(* kilograms and rates are per 1000 of them; a rounding to two places is   *)
(* left out, a rounding to whole rupees is not.                            *)
(***************************************************************************)
EXTENDS Integers, FiniteSets, Functions

Positive(n) == IF n > 0 THEN n ELSE 0
Higher(m, n) == IF m > n THEN m ELSE n
Total(S) == SumFunction([x \in S |-> x.amount])

(* A rate per ton.                                                         *)
Worth(rate, kg) == (rate * kg) \div 1000

-----------------------------------------------------------------------------
(* Freight, by the method that the trip has frozen.                        *)

Loaded(t) == IF t.tons > 0 THEN t.tons ELSE t.loaded_qty

BasisQty(t) ==
  CASE t.snap.method = "per_ton_unloading" -> t.unloaded_qty
    [] t.snap.method = "per_ton_higher_of" -> Higher(Loaded(t), t.unloaded_qty)
    [] OTHER                               -> Loaded(t)

Freight(t) ==
  IF t.freight_override > 0
  THEN [amount |-> t.freight_override, qty |-> Loaded(t)]
  ELSE IF t.snap.method = "fixed"
  THEN [amount |-> IF t.fixed_amount > 0 THEN t.fixed_amount ELSE t.freight_amount, qty |-> 0]
  ELSE IF t.freight_mode = "per_ton"
  THEN [amount |-> Worth(t.rate, BasisQty(t)), qty |-> BasisQty(t)]
  ELSE IF t.kms > 0 /\ t.km_rate > 0
  THEN [amount |-> Worth(t.kms * t.km_rate, BasisQty(t)), qty |-> BasisQty(t)]
  ELSE [amount |-> t.fixed_amount, qty |-> 0]

-----------------------------------------------------------------------------
(* Shortage and excess: unknown, and so nothing, until it is unloaded.     *)

Shortage(t) == IF t.unloaded_qty > 0 THEN Positive(Loaded(t) - t.unloaded_qty) ELSE 0
Excess(t) == IF t.unloaded_qty > 0 THEN Positive(t.unloaded_qty - Loaded(t)) ELSE 0

(* The allowance of the customer, or else that of the product.             *)
Allowance(t) ==
  IF t.snap.limit <= 0 THEN (t.tons * t.snap.product) \div 100
  ELSE IF t.snap.limit_type = "kg" THEN t.snap.limit
  ELSE (t.tons * t.snap.limit) \div 100

HasLimit(t) == t.snap.limit > 0 \/ t.snap.product > 0

(* What the customer deducts.  A trip that has no snapshot deducts it all. *)
ShortageAmount(t) ==
  LET short == Shortage(t)
      all == Worth(t.product_rate, short)
  IN  IF t.shortage_override THEN t.shortage_amount
      ELSE IF ~HasLimit(t) THEN IF t.snap.limit_type = "none" THEN all ELSE 0
      ELSE IF short <= Allowance(t) THEN 0
      ELSE IF t.snap.deduct = "full_after_limit" THEN all
      ELSE Worth(t.product_rate, Positive(short - Allowance(t)))

ExcessAmount(t) ==
  IF t.excess_override THEN t.excess_amount ELSE Worth(t.product_rate, Excess(t))

-----------------------------------------------------------------------------
(* Halting, costs and what the customer has paid on the way.               *)

HaltingDays(t) ==
  IF t.loading_date > 0 /\ t.unloading_date > 0
  THEN Positive(t.unloading_date - t.loading_date) ELSE Positive(t.total_halting_days)

Halting(t) ==
  IF t.halting_override THEN t.halting_amount
  ELSE Positive(HaltingDays(t) - Positive(t.grace_days)) * t.halting_rate

(* The diesel of the customer lowers our cost, down to nothing.            *)
OwnExpense(t) == Positive(t.lines - t.customer_diesel)

ReceiptsOf(t, kind) == Total({r \in t.receipts : r.kind = kind})
DieselReceived(t) ==
  IF t.receipts = {} THEN t.diesel_received ELSE ReceiptsOf(t, "diesel")

-----------------------------------------------------------------------------
(* The supplier of the vehicle: on the basis of the customer, at a rate of *)
(* its own, less what it was advanced and what it lost.                    *)

(* Rows win over the flat amount while one of them is not deleted.         *)
Advanced(rows, flat) == IF rows = {} THEN flat ELSE Total(rows)

SupplierFreight(t) ==
  CASE t.supplier_mode = "per_ton" /\ t.supplier_rate > 0 -> Worth(t.supplier_rate, BasisQty(t))
    [] t.supplier_mode = "fixed" /\ t.supplier_fixed > 0  -> t.supplier_fixed
    [] OTHER                                              -> t.supplier_freight

SupplierShortage(t) ==
  IF t.supplier_override THEN t.supplier_shortage
  ELSE IF t.snap.supplier_limit > 0 /\ Shortage(t) <= t.snap.supplier_limit THEN 0
  ELSE Worth(t.product_rate, Shortage(t))

SupplierNet(t) ==
  SupplierFreight(t) + t.supplier_halting
    - Advanced(t.advances, t.supplier_advance) - Advanced(t.diesels, t.supplier_diesel)
    - DieselReceived(t) - SupplierShortage(t) - t.supplier_recoveries + t.supplier_income

-----------------------------------------------------------------------------
(* _compute_trip                                                           *)

Compute(t) ==
  LET bySupplier == t.vehicle_type = "supplier"
      expense == IF bySupplier THEN SupplierNet(t) ELSE OwnExpense(t)
      billable == Freight(t).amount + Halting(t) + ExcessAmount(t) - ShortageAmount(t)
  IN  [t EXCEPT
         !.loaded_qty = Loaded(t), !.total_halting_days = HaltingDays(t),
         !.freight_amount = Freight(t).amount, !.freight_qty = Freight(t).qty,
         !.shortage_qty = Shortage(t), !.excess_qty = Excess(t),
         !.shortage_amount = ShortageAmount(t), !.excess_amount = ExcessAmount(t),
         !.halting_amount = Halting(t), !.diesel_received = DieselReceived(t),
         !.supplier_freight = IF bySupplier THEN SupplierFreight(t) ELSE @,
         !.supplier_shortage = IF bySupplier THEN SupplierShortage(t) ELSE @,
         !.supplier_advance = IF bySupplier THEN Advanced(t.advances, @) ELSE @,
         !.supplier_diesel = IF bySupplier THEN Advanced(t.diesels, @) ELSE @,
         !.supplier_net = IF bySupplier THEN SupplierNet(t) ELSE 0,
         !.expense = expense,
         !.profit = billable - expense + t.other_income,
         !.settlement = billable - expense - t.cash_advance + t.other_income]

-----------------------------------------------------------------------------
(* _trip_billable: less what the customer has funded already.              *)

Deductions(t, kind, scalar) == IF t.receipts = {} THEN scalar ELSE ReceiptsOf(t, kind)
DieselDeduction(t) == Deductions(t, "diesel", t.customer_diesel)
AdvanceDeduction(t) == Deductions(t, "advance", t.cash_advance)

TripBillable(t) ==
  t.freight_amount + t.halting_amount + t.excess_amount - t.shortage_amount
    - DieselDeduction(t) - AdvanceDeduction(t)

(* _recompute_invoice: the figures it prints, each summed by itself.       *)

(* To whole rupees, a half away from zero.                                 *)
Whole(paise) ==
  IF paise >= 0 THEN ((paise + 50) \div 100) * 100 ELSE -(((50 - paise) \div 100) * 100)

(* Five per cent, in one part or in two halves; without the states of both *)
(* sides the invoice keeps the kind it had.                                *)
TaxKind(inv, home, state) ==
  IF home # "none" /\ state # "none"
  THEN IF home = state THEN "cgst_sgst" ELSE "igst"
  ELSE inv.gst_type

InvoiceFigures(inv, trips, home, state) ==
  LET sum(f(_)) == SumFunction([t \in trips |-> f(t)])
      subtotal == sum(TripBillable)
      kind == TaxKind(inv, home, state)
      half == IF kind = "cgst_sgst" THEN (subtotal * 25) \div 1000 ELSE 0
      whole == IF kind = "igst" THEN (subtotal * 50) \div 1000 ELSE 0
      gross == IF inv.rcm THEN subtotal ELSE subtotal + 2 * half + whole
      total == Whole(gross)
      paid == Total(inv.payments)
  IN  [freight |-> sum(LAMBDA t : t.freight_amount), halting |-> sum(LAMBDA t : t.halting_amount),
       excess |-> sum(LAMBDA t : t.excess_amount), shortage |-> sum(LAMBDA t : t.shortage_amount),
       diesel |-> sum(DieselDeduction), advance |-> sum(AdvanceDeduction),
       subtotal |-> subtotal, cgst |-> half, sgst |-> half, igst |-> whole,
       gross |-> gross, round_off |-> total - gross, total |-> total,
       paid |-> paid, due |-> total - paid]

-----------------------------------------------------------------------------
(* compute_driver_recovery.  The shortage is in kilograms and the rate is  *)
(* that of a ton.                                                          *)
Recovery(short, limit, rate) == Positive(short - Positive(limit)) * rate

=============================================================================
