------------------------------ MODULE DriverLedger ------------------------------
(***************************************************************************)
(* The ledger of a driver: routers/driver_ledger.py.                       *)
(*                                                                         *)
(* Salaries have a day from which they apply; a new one closes the one     *)
(* before.  A month's salary is posted on its last day, and posting it     *)
(* again corrects it; so is the settlement of a month.  Whoever posts      *)
(* looks for the entry first and then writes, and no index keeps two       *)
(* entries of one month from being there.                                  *)
(*                                                                         *)
(* There is one driver, and a month has two days.  The recoveries of trips *)
(* are the module Trips.                                                   *)
(***************************************************************************)
EXTENDS Integers, FiniteSets, Functions

CONSTANTS
  Request,
  Month,    \* 1 .. n
  Salary,   \* the salaries that may be agreed
  Paid,     \* the amounts that may settle a month; 0 clears the settlement
  Start,    \* the days on which a salary may begin
  Manual,   \* ids of entries by hand
  Nothing

LastDay(month) == 2 * month
MonthOf(day) == (day + 1) \div 2
Horizon == LastDay(Cardinality(Month))
Day == 1 .. Horizon
Open == Horizon + 1  \* no effective_to

VARIABLES
  masters,  \* driver_salary_masters
  entries,  \* driver_ledger_entries
  pc, hand,
  marred,   \* history: <<type, month>> that two requests had in hand at once
  died      \* history: a request died between two writes

vars == <<masters, entries, pc, hand, marred, died>>

Sum(S, f(_)) == SumFunction([x \in S |-> f(x)])

-----------------------------------------------------------------------------
(* The masters.                                                            *)

(* create_salary_master: the latest of those that are open and earlier.    *)
Prior(from) ==
  LET earlier == {m \in masters : m.to = Open /\ m.from < from}
  IN  {m \in earlier : \A n \in earlier : n.from <= m.from}

(* _resolve_salary_master_for_month                                        *)
Applies(m, day) == m.from <= day /\ day <= m.to
Resolved(ms, month) ==
  LET some == {m \in ms : Applies(m, LastDay(month))}
  IN  {m \in some : \A n \in some : n.from < m.from \/ (n.from = m.from /\ n.version <= m.version)}

-----------------------------------------------------------------------------
Begin(r, at, what) ==
  /\ pc[r] = "idle"
  /\ pc' = [pc EXCEPT ![r] = at]
  /\ hand' = [hand EXCEPT ![r] = what]
  /\ UNCHANGED died

Goto(r, at) == pc' = [pc EXCEPT ![r] = at]
Finish(r) == Goto(r, "done") /\ hand' = [hand EXCEPT ![r] = Nothing]

MasterFind(r, from, to, salary) ==
  /\ from <= to
  /\ \E p \in IF Prior(from) = {} THEN {Nothing} ELSE {m.id : m \in Prior(from)} :
       Begin(r, "close", [from |-> from, to |-> to, salary |-> salary, prior |-> p, count |-> 0])
  /\ UNCHANGED <<masters, entries, marred>>

(* The last day of the salary before.                                      *)
CloseAt(from) == from - 1

MasterClose(r) ==
  /\ pc[r] = "close"
  /\ masters' = {IF m.id = hand[r].prior THEN [m EXCEPT !.to = CloseAt(hand[r].from)] ELSE m
                 : m \in masters}
  /\ Goto(r, "count")
  /\ UNCHANGED <<entries, hand, marred, died>>

MasterCount(r) ==
  /\ pc[r] = "count"
  /\ hand' = [hand EXCEPT ![r].count = Cardinality(masters)]
  /\ Goto(r, "insert")
  /\ UNCHANGED <<masters, entries, marred, died>>

MasterInsert(r) ==
  /\ pc[r] = "insert"
  /\ masters' = masters \cup
       {[id |-> r, version |-> hand[r].count + 1, salary |-> hand[r].salary,
         from |-> hand[r].from, to |-> hand[r].to]}
  /\ Finish(r)
  /\ UNCHANGED <<entries, marred, died>>

-----------------------------------------------------------------------------
(* post_monthly_salary, settle_month                                       *)

Entry(id, day, type, amount, source) ==
  [id |-> id, day |-> day, month |-> MonthOf(day), type |-> type, amount |-> amount,
   source |-> source, dir |-> IF type = "salary" THEN "credit" ELSE "debit"]

OfMonth(type, month) ==
  {e \in entries : e.source = "system" /\ e.type = type /\ e.month = month}

(* The entry there is, if any, and whether another request looks for it.   *)
Look(r, type, month, amount) ==
  /\ \E e \in IF OfMonth(type, month) = {} THEN {Nothing}
              ELSE {f.id : f \in OfMonth(type, month)} :
       hand' = [hand EXCEPT ![r] = [type |-> type, month |-> month, amount |-> amount, entry |-> e]]
  /\ marred' = IF \E q \in Request \ {r} : pc[q] = "write" /\ hand[q].type = type
                                           /\ hand[q].month = month
               THEN marred \cup {<<type, month>>} ELSE marred
  /\ Goto(r, "write")
  /\ UNCHANGED <<masters, entries, died>>

SalaryResolve(r, month) ==
  /\ Resolved(masters, month) # {}
  /\ \E m \in Resolved(masters, month) :
       Begin(r, "look", [month |-> month, amount |-> m.salary])
  /\ UNCHANGED <<masters, entries, marred>>

SalaryLook(r) == pc[r] = "look" /\ Look(r, "salary", hand[r].month, hand[r].amount)
SettleLook(r, month, paid) == pc[r] = "idle" /\ Look(r, "settlement", month, paid)

(* An update of the entry that was found, which may be gone, or a new one; *)
(* a settlement of nothing takes the entry away.                           *)
Write(r) ==
  /\ pc[r] = "write"
  /\ LET h == hand[r]
         fresh(id) == Entry(id, LastDay(h.month), h.type, h.amount, "system")
     IN  entries' =
           CASE h.amount = 0 -> {e \in entries : e.id # h.entry}
             [] h.amount # 0 /\ h.entry = Nothing -> entries \cup {fresh(r)}
             [] OTHER -> {IF e.id = h.entry THEN fresh(e.id) ELSE e : e \in entries}
  /\ Finish(r)
  /\ UNCHANGED <<masters, marred, died>>

(* create_ledger_entry, delete_ledger_entry                                *)
ManualTypes == {"salary", "advance"}
AddManual(i, day, type) ==
  /\ \A e \in entries : e.id # i
  /\ entries' = entries \cup {Entry(i, day, type, 3, "manual")}
  /\ UNCHANGED <<masters, pc, hand, marred, died>>
DeleteManual(e) ==
  /\ e.source = "manual"
  /\ entries' = entries \ {e}
  /\ UNCHANGED <<masters, pc, hand, marred, died>>

Die(r) ==
  /\ pc[r] \notin {"idle", "done"}
  /\ died' = (died \/ pc[r] \in {"count", "insert"})
  /\ Finish(r)
  /\ UNCHANGED <<masters, entries, marred>>

-----------------------------------------------------------------------------
Init ==
  /\ masters = {} /\ entries = {}
  /\ pc = [r \in Request |-> "idle"]
  /\ hand = [r \in Request |-> Nothing]
  /\ marred = {} /\ died = FALSE

Next ==
  \/ \E r \in Request :
       \/ \E from \in Start, to \in {Open, Horizon}, s \in Salary :
            MasterFind(r, from, to, s)
       \/ MasterClose(r) \/ MasterCount(r) \/ MasterInsert(r)
       \/ \E m \in Month : SalaryResolve(r, m)
       \/ SalaryLook(r)
       \/ \E m \in Month, p \in Paid : SettleLook(r, m, p)
       \/ Write(r) \/ Die(r)
  \/ \E i \in Manual, d \in Day, t \in ManualTypes : AddManual(i, d, t)
  \/ \E e \in entries : DeleteManual(e)

Spec == Init /\ [][Next]_vars

-----------------------------------------------------------------------------
(* What the screens show.                                                  *)

Signed(e) == IF e.dir = "credit" THEN e.amount ELSE -e.amount

(* list_ledger: _compute_opening_balance, _compute_running_balance         *)
OpeningBefore(start) == Sum({e \in entries : e.day < start}, Signed)
ClosingOf(start, end) ==
  OpeningBefore(start) + Sum({e \in entries : start <= e.day /\ e.day <= end}, Signed)

(* monthly_rollup                                                          *)
Rollup ==
  [m \in {e.month : e \in entries} |->
     [type \in {"salary", "advance", "settlement"} |->
        Sum({e \in entries : e.month = m /\ e.type = type}, LAMBDA e : e.amount)]]
NetChange(m) == Sum({e \in entries : e.month = m}, Signed)

-----------------------------------------------------------------------------
(* Properties.                                                             *)

TypeOK ==
  /\ \A m \in masters : m.salary \in Salary /\ m.from \in Day
  /\ \A e \in entries : e.day \in Day /\ e.dir \in {"credit", "debit"}
  /\ pc \in [Request -> {"idle", "close", "count", "insert", "look", "write", "done"}]

(* A new salary that is on its way and begins by the end of the month.     *)
Coming(m, places) == \E r \in Request : pc[r] \in places /\ hand[r].from <= LastDay(m)

(* A month has one salary and one settlement, unless two requests posted   *)
(* it at once; once a salary has begun, every month has one, however they  *)
(* are replaced, except between the end of one and the next, and unless a  *)
(* request died there; the ledger of one period begins where the one       *)
(* before ends, and the months sum up.                                     *)
DriverBooks ==
  /\ \A t \in {"salary", "settlement"}, m \in Month :
       <<t, m>> \notin marred => Cardinality(OfMonth(t, m)) <= 1
  /\ ~died => \A k \in masters, m \in Month :
       k.from <= LastDay(m) => Resolved(masters, m) # {} \/ Coming(m, {"count", "insert"})
  /\ \A d \in Day : ClosingOf(1, d) = OpeningBefore(d + 1)
  /\ Sum(DOMAIN Rollup, NetChange) = ClosingOf(1, Open)

(* "Historic months keep the salary that was effective then": a month that *)
(* ends before the new salary begins keeps the one it had, unless another  *)
(* that begins earlier is on its way (both close the salary before, and    *)
(* the later close counts) or has died there.                              *)
PastSalaryKept ==
  \A m \in Month :
    {k.id : k \in Resolved(masters', m)} # {k.id : k \in Resolved(masters, m)} =>
      died \/ Coming(m, {"close", "count", "insert"})
PastSalaryStands == [][PastSalaryKept]_vars
=============================================================================
