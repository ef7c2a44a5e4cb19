----------------------------- MODULE CustomerBooks -----------------------------
(***************************************************************************)
(* What the reports say a customer owes: the customer's ledger, the        *)
(* balance sheet, the profit and loss account, halting and the summary of  *)
(* the tax (routers/reports.py), the transactions, the monthly balances    *)
(* and the reminders (routers/customers.py), and the effective totals of   *)
(* an invoice (services.py).                                               *)
(*                                                                         *)
(* Each is an operator of the documents there are, which have the shape    *)
(* that FinLegs gives them.  The day 0 stands for no date; a report from   *)
(* day 0 has no beginning.  Names, wording and the order of rows are left  *)
(* out.                                                                    *)
(***************************************************************************)
EXTENDS FinLegs, Sequences

Of(docs, type) == {d \in docs : d.type = type}
Live(docs) == {d \in docs : ~d.historical}
OfParty(docs, type, c) == {d \in Of(docs, type) : d.party = c}

(* _in_range                                                               *)
InRange(day, start, end) == day # 0 /\ start <= day /\ day <= end

-----------------------------------------------------------------------------
(* An invoice: what is paid, what is due, and both with its notes.         *)

Paid(inv) == SumOf(inv.payments, LAMBDA p : p.amount)
BalanceDue(inv) == inv.amount - Paid(inv)

Issued(docs) == {n \in Of(docs, "credit_debit_note") : n.status = "issued"}
Signed(n) == IF n.kind = "credit" THEN -n.amount ELSE n.amount

(* _effective_invoice_totals, for the notes issued until a day             *)
EffectiveTotal(inv, docs, day) ==
  inv.amount + SumOf({n \in Issued(docs) : n.invoice = inv.id /\ n.date <= day}, Signed)

(* _apply_effective_balance                                                *)
Always == 1000
EffectiveDue(inv, docs) == EffectiveTotal(inv, docs, Always) - Paid(inv)

-----------------------------------------------------------------------------
(* report_ledger: the rows, each on its own day whatever day its invoice   *)
(* has, and the balance before the first.                                  *)

LedgerRows(docs, c) ==
  UNION {{[id |-> <<inv.id>>, date |-> inv.date, amount |-> inv.amount]}
         \cup {[id |-> <<inv.id, p.id>>, date |-> p.date, amount |-> -p.amount]
               : p \in inv.payments}
         : inv \in OfParty(docs, "invoice", c)}
  \cup {[id |-> <<n.id>>, date |-> n.date, amount |-> Signed(n)]
        : n \in {m \in Issued(docs) : m.party = c}}

CustomerLedger(docs, c, start, end) ==
  LET rows == LedgerRows(docs, c)
      entries == {e \in rows : InRange(e.date, start, end)}
      opening == SumOf({e \in rows : start > 0 /\ e.date < start}, LAMBDA e : e.amount)
      debit == SumOf({e \in entries : e.amount > 0}, LAMBDA e : e.amount)
      credit == SumOf({e \in entries : e.amount < 0}, LAMBDA e : -e.amount)
  IN  [opening |-> opening, debit |-> debit, credit |-> credit,
       closing |-> opening + debit - credit]

-----------------------------------------------------------------------------
(* report_balance_sheet, as of a day.                                      *)

Positive(n) == IF n > 0 THEN n ELSE 0

PaidUpTo(inv, day) == SumOf({p \in inv.payments : p.date <= day}, LAMBDA p : p.amount)

BalanceSheet(docs, day) ==
  LET invs == {i \in Live(Of(docs, "invoice")) : i.date <= day}
  IN  [cash |-> SumOf(invs, LAMBDA i : PaidUpTo(i, day)),
       debtors |-> SumOf(invs, LAMBDA i : Positive(i.amount - PaidUpTo(i, day))),
       effective |-> SumOf(invs, LAMBDA i :
                           Positive(EffectiveTotal(i, docs, day) - PaidUpTo(i, day))),
       retained |-> SumOf({t \in Live(Of(docs, "trip")) : t.date <= day},
                        LAMBDA t : t.freight - t.expense)]

-----------------------------------------------------------------------------
(* report_profit_loss, report_halting.                                     *)

Billable(t) == t.freight + t.halting + t.excess - t.shortage

TripsIn(docs, start, end) ==
  {t \in Live(Of(docs, "trip")) : InRange(t.date, start, end)}

ProfitLoss(docs, start, end) ==
  LET trips == TripsIn(docs, start, end)
      revenue == SumOf(trips, Billable)
      expense == SumOf(trips, LAMBDA t : t.expense)
  IN  [revenue |-> revenue, expense |-> expense, profit |-> revenue - expense,
       customers |-> [c \in {t.party : t \in trips} |->
                        LET own == {t \in trips : t.party = c}
                        IN  [trips |-> Cardinality(own), revenue |-> SumOf(own, Billable),
                             expense |-> SumOf(own, LAMBDA t : t.expense)]]]

HaltingReport(docs, start, end) ==
  LET trips == {t \in TripsIn(docs, start, end) : t.halting > 0}
  IN  [c \in {t.party : t \in trips} |->
         SumOf({t \in trips : t.party = c}, LAMBDA t : t.halting)]

-----------------------------------------------------------------------------
(* customer_transactions: an Invoice has no field "date", by which the     *)
(* days of the request filter and by which the amounts would age.          *)
Transactions(docs, c, start, end) ==
  LET bounded == start > 0 \/ end < Always
      invs == IF bounded THEN {} ELSE OfParty(docs, "invoice", c)
  IN  [billed |-> SumOf(invs, LAMBDA i : i.amount),
       received |-> SumOf(invs, Paid),
       outstanding |-> SumOf(invs, BalanceDue),
       effective |-> SumOf(invs, LAMBDA i : EffectiveDue(i, docs)),
       pending |-> SumOf({t \in OfParty(docs, "trip", c) :
                          start <= t.date /\ t.date <= end /\ ~t.invoiced}, Billable),
       aging |-> 0]

(* Its rows: no invoice, and so no payment, when a day is asked for, but   *)
(* the trips and the notes of those days.                                  *)
TransactionRows(docs, c, start, end) ==
  LET within(d) == start <= d.date /\ d.date <= end
      bounded == start > 0 \/ end < Always
      invs == IF bounded THEN {} ELSE OfParty(docs, "invoice", c)
  IN  {[type |-> "trip", id |-> <<t.id>>, amount |-> t.freight]
       : t \in {u \in OfParty(docs, "trip", c) : within(u)}}
      \cup {[type |-> "invoice", id |-> <<i.id>>, amount |-> i.amount] : i \in invs}
      \cup UNION {{[type |-> "payment", id |-> <<i.id, p.id>>, amount |-> -p.amount]
                   : p \in i.payments} : i \in invs}
      \cup {[type |-> "note", id |-> <<n.id>>, amount |-> Signed(n)]
            : n \in {m \in Issued(docs) : m.party = c /\ within(m)}}

(* bulk_reminder_previews: what is due by itself and with its notes.       *)
Reminder(docs, c) ==
  SumOf({i \in OfParty(Live(docs), "invoice", c) : BalanceDue(i) > 0},
      LAMBDA i : Positive(EffectiveDue(i, docs)))

(* monthly_balances: by the month of the invoice, payments with it.        *)
Month(day) == day \div 10
MonthlyBalances(docs, c) ==
  LET invs == OfParty(Live(docs), "invoice", c)
  IN  [m \in {Month(i.date) : i \in invs} |->
         LET own == {i \in invs : Month(i.date) = m}
         IN  [billed |-> SumOf(own, LAMBDA i : i.amount), received |-> SumOf(own, Paid),
              balance |-> SumOf(own, BalanceDue),
              effective |-> SumOf(own, LAMBDA i : EffectiveDue(i, docs))]]

(* report_gst_summary: the invoices of a range of days, cancelled by no    *)
(* note.                                                                   *)
TaxSummary(docs, start, end) ==
  SumOf({i \in Of(docs, "invoice") : start <= i.date /\ i.date <= end}, LAMBDA i : i.amount)

-----------------------------------------------------------------------------
(* The reports agree.                                                      *)

(* The balance a ledger ends with is the one the ledger of the next day    *)
(* begins with, although the payments of an invoice and its notes fall in  *)
(* other periods than the invoice.                                         *)
LedgersMeet(docs, c, day) ==
  CustomerLedger(docs, c, 1, day).closing = CustomerLedger(docs, c, day + 1, Always).opening

(* The invoices that the general ledger shows, and that owe something.     *)
Plain(docs, c) ==
  \A i \in OfParty(docs, "invoice", c) : ~i.historical /\ i.amount > 0

ReceivablesOf(docs, c) ==
  Net({l \in Ledger(docs) : l.party = c}, "AR")

(* The customer's ledger, the transactions, the months and the general     *)
(* ledger come to one balance.                                             *)
ReceivablesAgree(docs, c) ==
  LET due == CustomerLedger(docs, c, 0, Always).closing
      months == MonthlyBalances(docs, c)
  IN  /\ due = Transactions(docs, c, 0, Always).effective
      /\ due = SumOf({r \in TransactionRows(docs, c, 0, Always) : r.type # "trip"},
                   LAMBDA r : r.amount)
      /\ Plain(docs, c) =>
           /\ due = ReceivablesOf(docs, c)
           /\ due = SumOf(DOMAIN months, LAMBDA m : months[m].effective)

(* The balance sheet shows what all of them owe, and the reminders ask for *)
(* it, unless an invoice is overpaid, or is paid and charged by a note.    *)
Settled(docs) ==
  \A i \in Of(docs, "invoice") :
    EffectiveDue(i, docs) >= 0 /\ (BalanceDue(i) <= 0 => EffectiveDue(i, docs) = 0)

DebtorsAgree(docs, customers) ==
  Settled(docs) =>
    BalanceSheet(docs, Always).effective = SumOf(customers, LAMBDA c : Reminder(docs, c))

(* What the customers brought in is what came in.                          *)
ProfitAddsUp(docs, start, end) ==
  LET pl == ProfitLoss(docs, start, end)
  IN  pl.profit = SumOf(DOMAIN pl.customers,
                      LAMBDA c : pl.customers[c].revenue - pl.customers[c].expense)
=============================================================================
