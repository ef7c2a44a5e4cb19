-------------------------- MODULE WalletAdjustments --------------------------
(***************************************************************************)
(* Adjustments of a wallet and their reversals, an append-only affair:     *)
(* routers/wallet_adjustments.py.                                          *)
(*                                                                         *)
(* Each handler reads the adjustment, looks for an active reversal, and    *)
(* then writes, with an await between any two of these.  A reversal is a   *)
(* new adjustment in the other direction; the original is not touched.     *)
(* A request does one operation; the id of the adjustment that it inserts  *)
(* is the request itself.  The hook is one step here.                      *)
(***************************************************************************)
EXTENDS Integers

CONSTANTS
  Request,  \* requests, each of which runs at most once
  Opening,  \* the adjustment there is from the beginning
  Amount,   \* amounts, all of them positive
  Nothing   \* no document, no legs

Row == Request \cup {Opening}

(* What an adjustment does to the wallet: a direction and an amount.       *)
Effect == {"increase", "decrease"} \X Amount

Opposite(e) == <<IF e[1] = "increase" THEN "decrease" ELSE "increase", e[2]>>

VARIABLES
  adjustments, \* db.wallet_adjustments
  legs,        \* the effect that fin_txn shows of each
  pc,          \* where each request is
  hand,        \* the adjustment it is about, as it has read it
  marred       \* history: what has happened besides one request after the other

vars == <<adjustments, legs, pc, hand, marred>>

-----------------------------------------------------------------------------
(* Data.                                                                   *)

Adjustment ==
  [effect : Effect, reverses_id : Row \cup {Nothing}, is_deleted : BOOLEAN]

Doc(e, p) == [effect |-> e, reverses_id |-> p, is_deleted |-> FALSE]

Exists(p) == adjustments[p] # Nothing
Active(p) == Exists(p) /\ ~adjustments[p].is_deleted

(* project_wallet_adjustment: both sides of a reversal stay in the ledger. *)
View(p) == IF Active(p) THEN adjustments[p].effect ELSE Nothing

Blank == [pid |-> Nothing, doc |-> Nothing, effect |-> Nothing]

Idle == {"new", "done"}
Busy == {r \in Request : pc[r] \notin Idle}
Quiet == Busy = {}

Init ==
  /\ \E e \in Effect :
       /\ adjustments = [p \in Row |-> IF p = Opening THEN Doc(e, Nothing) ELSE Nothing]
       /\ legs = [p \in Row |-> IF p = Opening THEN e ELSE Nothing]
  /\ pc = [r \in Request |-> "new"]
  /\ hand = [r \in Request |-> Blank]
  /\ marred = {}

-----------------------------------------------------------------------------
Begin(r, at, what) ==
  /\ pc[r] = "new"
  /\ pc' = [pc EXCEPT ![r] = at]
  /\ hand' = [hand EXCEPT ![r] = what]
  /\ marred' = IF Quiet THEN marred ELSE marred \cup {"overlap"}
  /\ UNCHANGED <<adjustments, legs>>

(* A request goes on, or ends and forgets what it held.                    *)
Continue(r, to) ==
  /\ pc' = [pc EXCEPT ![r] = to]
  /\ hand' = IF to = "done" THEN [hand EXCEPT ![r] = Blank] ELSE hand

Goto(r, from, to) == pc[r] = from /\ Continue(r, to) /\ UNCHANGED marred

Set(p, doc) == adjustments' = [adjustments EXCEPT ![p] = doc]

(* Edit, delete and reverse all begin so: neither deleted nor a reversal.  *)
Open(p) == Active(p) /\ adjustments[p].reverses_id = Nothing

Find(r, at, p, e) ==
  /\ Open(p)
  /\ Begin(r, at, [pid |-> p, doc |-> adjustments[p], effect |-> e])

(* _find_active_reversal.                                                  *)
HasReversal(p) == \E q \in Row : Active(q) /\ adjustments[q].reverses_id = p

(* A mutant: an adjustment is guarded by its own deletion only.            *)
CheckNothing(r, from, to) ==
  /\ Goto(r, from, to)
  /\ UNCHANGED <<adjustments, legs>>

Check(r, from, to) ==
  /\ Goto(r, from, IF HasReversal(hand[r].pid) THEN "done" ELSE to)
  /\ UNCHANGED <<adjustments, legs>>

-----------------------------------------------------------------------------
Create(r, e) == Begin(r, "create", [Blank EXCEPT !.effect = e])

CreateInsert(r) ==
  /\ Goto(r, "create", "hook_own")
  /\ Set(r, Doc(hand[r].effect, Nothing))
  /\ UNCHANGED legs

EditFind(r, p, e) == Find(r, "edit_check", p, e)
EditCheck(r) == Check(r, "edit_check", "edit")

(* $set of the whole model: also what another request has just deleted.    *)
EditWrite(r) ==
  /\ Goto(r, "edit", "hook")
  /\ Set(hand[r].pid, Doc(hand[r].effect, hand[r].doc.reverses_id))
  /\ UNCHANGED legs

DeleteFind(r, p) == Find(r, "delete_check", p, Nothing)
DeleteCheck(r) == Check(r, "delete_check", "delete")

DeleteWrite(r) ==
  /\ Goto(r, "delete", "hook")
  /\ Set(hand[r].pid, [adjustments[hand[r].pid] EXCEPT !.is_deleted = TRUE])
  /\ UNCHANGED legs

(* A mutant: a reversal may be reversed.                                   *)
ReverseFindAny(r, p) ==
  /\ Active(p)
  /\ Begin(r, "reverse_check", [pid |-> p, doc |-> adjustments[p], effect |-> Nothing])

ReverseFind(r, p) == Find(r, "reverse_check", p, Nothing)
ReverseCheck(r) == Check(r, "reverse_check", "reverse")

(* The amount and the direction are those of the copy.                     *)
ReverseInsert(r) ==
  /\ Goto(r, "reverse", "hook_own")
  /\ Set(r, Doc(Opposite(hand[r].doc.effect), hand[r].pid))
  /\ UNCHANGED legs

Project(r, at, p) ==
  /\ Goto(r, at, "done")
  /\ legs' = [legs EXCEPT ![p] = View(p)]
  /\ UNCHANGED adjustments

HookOwn(r) == Project(r, "hook_own", r)
Hook(r) == Project(r, "hook", hand[r].pid)

Die(r) ==
  /\ r \in Busy
  /\ Continue(r, "done")
  /\ marred' = marred \cup {"death"}
  /\ UNCHANGED <<adjustments, legs>>

-----------------------------------------------------------------------------
Step(r) ==
  \/ \E e \in Effect : Create(r, e)
  \/ CreateInsert(r)
  \/ \E p \in Row, e \in Effect : EditFind(r, p, e)
  \/ EditCheck(r) \/ EditWrite(r)
  \/ \E p \in Row : DeleteFind(r, p) \/ ReverseFind(r, p)
  \/ DeleteCheck(r) \/ DeleteWrite(r)
  \/ ReverseCheck(r) \/ ReverseInsert(r)
  \/ HookOwn(r) \/ Hook(r)
  \/ Die(r)

Next == \E r \in Request : Step(r)

Spec == Init /\ [][Next]_vars

-----------------------------------------------------------------------------
(* Properties.                                                             *)

TypeOK ==
  /\ adjustments \in [Row -> Adjustment \cup {Nothing}]
  /\ legs \in [Row -> Effect \cup {Nothing}]
  /\ marred \subseteq {"overlap", "death"}

Reversals(p) == {q \in Row : Exists(q) /\ adjustments[q].reverses_id = p}

(* "Net-zero effect": as long as requests come one after the other, an     *)
(* adjustment has at most one reversal, is not changed or deleted under    *)
(* it, and the two cancel out, wherever a request may have died.           *)
NetsZero ==
  "overlap" \notin marred =>
    \A p \in Row : Reversals(p) # {} =>
      /\ Active(p)
      /\ \E q \in Row : Reversals(p) = {q} /\ adjustments[q].effect = Opposite(adjustments[p].effect)

(* "A reversal is itself immutable": no step of any request changes, or    *)
(* deletes, or reverses one, however requests overlap and die: what their  *)
(* guards read of a reversal is settled when it is inserted.               *)
Final ==
  \A q \in Row :
    Exists(q) /\ adjustments[q].reverses_id # Nothing =>
      /\ adjustments'[q] = adjustments[q]
      /\ \A s \in Row : adjustments'[s] # Nothing => adjustments'[s].reverses_id # q

ReversalIsFinal == [][Final]_vars

=============================================================================
