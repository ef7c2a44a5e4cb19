------------------------------ MODULE TripViews ------------------------------
(***************************************************************************)
(* What is shown of trips: the verification of halting and the register of *)
(* lorry receipts (routers/reports.py), the list of drivers and the        *)
(* history of one (routers/drivers.py).  None of them computes a trip, but *)
(* the first two repeat a part of TripMath in their own words.             *)
(***************************************************************************)
EXTENDS TripMath

Shown(ts) == {t \in ts : ~t.historical}
InPeriod(ts, start, end) == {t \in Shown(ts) : start <= t.date /\ t.date <= end}
Sums(ts, f(_)) == SumFunction([t \in ts |-> f(t)])

-----------------------------------------------------------------------------
(* halting_verify                                                          *)

ExpectedDays(t) ==
  IF t.loading_date > 0 /\ t.unloading_date > 0
  THEN Positive(t.unloading_date - t.loading_date) ELSE t.total_halting_days

ExpectedHalting(t) ==
  IF t.halting_override THEN t.halting_amount
  ELSE Positive(ExpectedDays(t) - t.grace_days) * t.halting_rate

(* listed: whether the invoice of the trip, if there is one, lists it; in   *)
(* the rows, the trips of which that is so.                                *)
HaltingFlags(t, listed) ==
  {f \in {"days", "amount", "invoice"} :
     CASE f = "days"    -> t.total_halting_days # ExpectedDays(t)
       [] f = "amount"  -> ~t.halting_override /\ t.halting_amount # ExpectedHalting(t)
       [] f = "invoice" -> ~listed}

HaltingRows(ts, start, end, onlyMismatches, listed) ==
  {t \in InPeriod(ts, start, end) :
     /\ t.total_halting_days > 0 \/ t.halting_amount > 0
     /\ onlyMismatches => HaltingFlags(t, t \in listed) # {}}

-----------------------------------------------------------------------------
(* _lr_register_data                                                       *)

(* _derive_allowance_mt: the limit of the customer, or of the product.  A  *)
(* mutant: a limit in kilograms is taken for a percentage.                 *)
RegisterAllowancePct(t) ==
  LET limit == IF t.snap.limit <= 0 THEN t.snap.product ELSE t.snap.limit
  IN  IF limit <= 0 THEN 0 ELSE (t.tons * limit) \div 100

RegisterAllowance(t) ==
  LET own == t.snap.limit > 0
      limit == IF own THEN t.snap.limit ELSE t.snap.product
  IN  CASE limit <= 0                          -> 0
        [] own /\ t.snap.limit_type = "kg"     -> limit
        [] OTHER                               -> (t.tons * limit) \div 100

(* _derive_invoice_status: half a rupee is nothing.                        *)
InvoiceStatus(billed, total, paid) ==
  CASE ~billed                                -> "un_invoiced"
    [] billed /\ total > 0 /\ paid >= total   -> "paid"
    [] billed /\ total > 0 /\ paid > 0 /\ paid < total -> "partially_paid"
    [] OTHER                                  -> "unpaid"

RegisterRow(t) ==
  [loaded |-> IF t.loaded_qty > 0 THEN t.loaded_qty ELSE t.tons,
   unloaded |-> t.unloaded_qty, shortage |-> t.shortage_qty, allowance |-> RegisterAllowance(t),
   net |-> Positive(t.shortage_qty - RegisterAllowance(t)),
   freight |-> t.freight_amount, shortage_amount |-> t.shortage_amount]

(* The totals are of the period; the filter by the status of the invoice   *)
(* takes rows away and leaves the totals as they are.                      *)
LrRegister(ts, start, end, wanted, status) ==
  LET all == InPeriod(ts, start, end)
      rows == {t \in all : wanted \in {"all", status[t]}}
  IN  [rows |-> rows, count |-> Cardinality(rows),
       loaded |-> Sums(all, LAMBDA t : RegisterRow(t).loaded),
       net |-> Sums(all, LAMBDA t : RegisterRow(t).net),
       freight |-> Sums(all, LAMBDA t : t.freight_amount),
       shortage |-> Sums(all, LAMBDA t : t.shortage_amount)]

-----------------------------------------------------------------------------
(* list_drivers, driver_trip_history                                       *)

DriverStats(ts) ==
  [trips |-> Cardinality(Shown(ts)), tons |-> Sums(Shown(ts), LAMBDA t : t.tons),
   freight |-> Sums(Shown(ts), LAMBDA t : t.freight_amount)]

DriverHistory(ts, start, end) ==
  LET rows == InPeriod(ts, start, end)
  IN  [total |-> Cardinality(rows),
       shortage |-> Sums(rows, LAMBDA t : t.shortage_qty),
       excess |-> Sums(rows, LAMBDA t : t.excess_qty),
       recovery |-> Sums(rows, LAMBDA t : t.recovery.final)]

=============================================================================
