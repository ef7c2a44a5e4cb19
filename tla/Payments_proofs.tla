--------------------------- MODULE Payments_proofs ---------------------------
(***************************************************************************)
(* Proofs about the desks of Payments, for every set of requests, amounts  *)
(* and parties.                                                            *)
(***************************************************************************)
EXTENDS Payments, Integers, FiniteSets, Functions, Sequences, FiniteSetTheorems, SequenceTheorems,
  WellFoundedInduction, TLAPS

-----------------------------------------------------------------------------
(* Wallet adjustments.                                                     *)

(* The steps at which a request has in hand an adjustment it has found.    *)
WHolding == {"edit_check", "edit", "delete_check", "delete", "reverse_check", "reverse"}
WSteps == {"new", "create", "hook_own", "hook", "done"} \cup WHolding

WHand == [pid : W!Row \cup {Nothing}, doc : W!Adjustment \cup {Nothing},
          effect : W!Effect \cup {Nothing}]

WTyped ==
  /\ W!TypeOK
  /\ wPc \in [Clerk -> WSteps]
  /\ wHand \in [Clerk -> WHand]

(* A request inserts at most once, and not before it has come that far.    *)
WUnwritten ==
  \A r \in Clerk : wPc[r] \in {"new", "create"} \cup WHolding => wAdjustments[r] = Nothing

(* What a request holds is an adjustment that is there and no reversal,    *)
(* and it knows what it needs to know for its write.                       *)
WHolds(r) ==
  /\ wPc[r] \in WHolding =>
       /\ wHand[r].pid \in W!Row /\ W!Exists(wHand[r].pid)
       /\ wAdjustments[wHand[r].pid].reverses_id = Nothing
       /\ wHand[r].doc \in W!Adjustment /\ wHand[r].doc.reverses_id = Nothing
  /\ wPc[r] \in {"create", "edit_check", "edit"} => wHand[r].effect \in W!Effect
  /\ wPc[r] = "hook" => wHand[r].pid \in W!Row

WHeld == \A r \in Clerk : WHolds(r)

(* What a reversal reverses is there and is none itself; no reversal is    *)
(* deleted.                                                                *)
WReversals ==
  \A q \in W!Row : W!Exists(q) /\ wAdjustments[q].reverses_id # Nothing =>
    /\ ~wAdjustments[q].is_deleted
    /\ wAdjustments[q].reverses_id \in W!Row
    /\ W!Exists(wAdjustments[q].reverses_id)
    /\ wAdjustments[wAdjustments[q].reverses_id].reverses_id = Nothing

(* As long as requests do not overlap: one is at work, its copy is fresh,  *)
(* and what it is about to write has no reversal.                          *)
WSerial ==
  "overlap" \notin wMarred =>
    /\ \A r, s \in W!Busy : r = s
    /\ \A r \in Clerk : wPc[r] \in WHolding =>
         /\ wHand[r].doc = wAdjustments[wHand[r].pid]
         /\ ~wHand[r].doc.is_deleted
         /\ wPc[r] \in {"edit", "delete", "reverse"} => W!Reversals(wHand[r].pid) = {}

WInv == WTyped /\ WUnwritten /\ WHeld /\ WReversals /\ WSerial /\ W!NetsZero

LEMMA WalletBegins == ASSUME W!Init PROVE WInv
BY SMTT(20), NoDocument DEF W!Init, WInv, WTyped, W!TypeOK, WUnwritten, WHeld, WHolds, WReversals, WSerial,
  W!NetsZero, W!Reversals, W!Exists, W!Row, W!Doc, W!Adjustment, W!Effect, W!Blank, W!Busy, W!Idle,
  WHolding, WSteps, WHand
LEMMA WalletTyped ==
  ASSUME WInv, NEW r \in Clerk, W!Step(r)
  PROVE  WTyped'
<1> USE NoDocument DEF W!Goto, W!Continue, W!Begin, W!Find, W!Check, W!Set, W!Project,
      W!Open, W!Active, W!Exists, W!View, W!Doc, W!Opposite, W!Blank, W!Idle, W!Busy,
      W!Row, WHolding, WSteps
<1>t. WTyped /\ WHeld
  BY DEF WInv
<1>1. ASSUME NEW e \in W!Effect, W!Create(r, e)
      PROVE  WTyped'
  BY <1>t, <1>1 DEF W!Create, WTyped, W!TypeOK, WHand
<1>2. CASE W!CreateInsert(r)
  BY <1>t, <1>2 DEF W!CreateInsert, WTyped, W!TypeOK, WHand, WHeld, WHolds, W!Adjustment
<1>3. ASSUME NEW p \in W!Row, NEW e \in W!Effect, W!EditFind(r, p, e)
      PROVE  WTyped'
  BY <1>t, <1>3 DEF W!EditFind, WTyped, W!TypeOK, WHand
<1>4. CASE W!EditCheck(r) \/ W!DeleteCheck(r) \/ W!ReverseCheck(r)
  <2>1. PICK to \in WSteps : W!Goto(r, wPc[r], to) /\ UNCHANGED <<wAdjustments, wLegs>>
    BY <1>4 DEF W!EditCheck, W!DeleteCheck, W!ReverseCheck
  <2> QED
    BY <1>t, <2>1 DEF WTyped, W!TypeOK, WHand
<1>5. CASE W!EditWrite(r)
  BY <1>t, <1>5 DEF W!EditWrite, WTyped, W!TypeOK, WHand, WHeld, WHolds, W!Adjustment
<1>6. ASSUME NEW p \in W!Row, W!DeleteFind(r, p) \/ W!ReverseFind(r, p)
      PROVE  WTyped'
  BY <1>t, <1>6 DEF W!DeleteFind, W!ReverseFind, WTyped, W!TypeOK, WHand
<1>7. CASE W!DeleteWrite(r)
  <2>1. /\ wHand[r].pid \in W!Row
        /\ wAdjustments[wHand[r].pid] \in W!Adjustment
    BY <1>t, <1>7 DEF W!DeleteWrite, WTyped, W!TypeOK, WHeld, WHolds
  <2>2. [wAdjustments[wHand[r].pid] EXCEPT !.is_deleted = TRUE] \in W!Adjustment
    BY <2>1 DEF W!Adjustment
  <2> QED
    BY <1>t, <1>7, <2>1, <2>2 DEF W!DeleteWrite, WTyped, W!TypeOK, WHand
<1>8. CASE W!ReverseInsert(r)
  BY <1>t, <1>8 DEF W!ReverseInsert, WTyped, W!TypeOK, WHand, WHeld, WHolds, W!Adjustment, W!Effect
<1>9. CASE W!HookOwn(r) \/ W!Hook(r)
  BY <1>t, <1>9 DEF W!HookOwn, W!Hook, WTyped, W!TypeOK, WHand, WHeld, WHolds, W!Adjustment
<1>10. CASE W!Die(r)
  BY <1>t, <1>10 DEF W!Die, WTyped, W!TypeOK, WHand
<1> QED
  BY <1>1, <1>2, <1>3, <1>4, <1>5, <1>6, <1>7, <1>8, <1>9, <1>10 DEF W!Step

(* What a step can do to the adjustments: nothing, insert one, or change   *)
(* one that is there and no reversal.                                      *)
WInserts(r) ==
  /\ wAdjustments[r] = Nothing /\ wPc'[r] = "hook_own"
  /\ \E d \in W!Adjustment :
       /\ wAdjustments' = [wAdjustments EXCEPT ![r] = d]
       /\ ~d.is_deleted
       /\ \/ wPc[r] = "create" /\ d.reverses_id = Nothing
          \/ /\ wPc[r] = "reverse"
             /\ d.reverses_id = wHand[r].pid
             /\ d.effect = W!Opposite(wHand[r].doc.effect)

WChanges(r) ==
  /\ wPc[r] \in {"edit", "delete"} /\ wPc'[r] = "hook"
  /\ \E d \in W!Adjustment :
       /\ wAdjustments' = [wAdjustments EXCEPT ![wHand[r].pid] = d]
       /\ d.reverses_id = Nothing

LEMMA WalletWrites ==
  ASSUME WTyped, WUnwritten, WHeld, NEW r \in Clerk, W!Step(r)
  PROVE  WInserts(r) \/ WChanges(r) \/ UNCHANGED wAdjustments
<1> USE NoDocument DEF W!Goto, W!Continue, W!Begin, W!Find, W!Check, W!Set, W!Project, W!Row
<1>t. wPc \in [Clerk -> WSteps]
  BY DEF WTyped
<1>1. CASE W!CreateInsert(r)
  <2>1. W!Doc(wHand[r].effect, Nothing) \in W!Adjustment
    BY <1>1 DEF W!CreateInsert, W!Doc, W!Adjustment, WHeld, WHolds
  <2> QED
    BY <1>t, <1>1, <2>1 DEF W!CreateInsert, WInserts, WUnwritten, W!Doc
<1>2. CASE W!ReverseInsert(r)
  <2>1. W!Doc(W!Opposite(wHand[r].doc.effect), wHand[r].pid) \in W!Adjustment
    BY <1>2 DEF W!ReverseInsert, W!Doc, W!Adjustment, W!Opposite, W!Effect, WHeld, WHolds, WHolding
  <2> QED
    BY <1>t, <1>2, <2>1 DEF W!ReverseInsert, WInserts, WUnwritten, WHolding, W!Doc
<1>3. CASE W!EditWrite(r)
  <2>1. W!Doc(wHand[r].effect, wHand[r].doc.reverses_id) \in W!Adjustment
    BY <1>3 DEF W!EditWrite, W!Doc, W!Adjustment, WHeld, WHolds, WHolding
  <2>2. W!Doc(wHand[r].effect, wHand[r].doc.reverses_id).reverses_id = Nothing
    BY <1>3 DEF W!EditWrite, W!Doc, WHeld, WHolds, WHolding
  <2> QED
    BY <1>t, <1>3, <2>1, <2>2 DEF W!EditWrite, WChanges
<1>4. CASE W!DeleteWrite(r)
  <2> DEFINE p == wHand[r].pid
             d == [wAdjustments[p] EXCEPT !.is_deleted = TRUE]
  <2>1. wAdjustments[p] \in W!Adjustment /\ wAdjustments[p].reverses_id = Nothing
    BY <1>4 DEF W!DeleteWrite, WTyped, W!TypeOK, WHeld, WHolds, WHolding, W!Exists
  <2>2. d \in W!Adjustment /\ d.reverses_id = Nothing
    BY <2>1 DEF W!Adjustment
  <2> HIDE DEF d
  <2> QED
    BY <1>t, <1>4, <2>2 DEF W!DeleteWrite, WChanges, d
<1> QED
  BY <1>1, <1>2, <1>3, <1>4 DEF W!Step, W!Create, W!EditFind, W!EditCheck, W!DeleteFind,
    W!ReverseFind, W!DeleteCheck, W!ReverseCheck, W!HookOwn, W!Hook, W!Die

(* Where a step can take a request, and what it then holds: an adjustment  *)
(* that it has just found, what it held, or nothing.                       *)
WFinds(r) ==
  /\ wPc[r] = "new"
  /\ wPc'[r] \in {"edit_check", "delete_check", "reverse_check"}
  /\ wHand'[r].pid \in W!Row /\ W!Open(wHand'[r].pid)
  /\ wHand'[r].doc = wAdjustments[wHand'[r].pid]
  /\ wPc'[r] = "edit_check" => wHand'[r].effect \in W!Effect
  /\ wMarred' = IF W!Quiet THEN wMarred ELSE wMarred \cup {"overlap"}
  /\ UNCHANGED <<wAdjustments, wLegs>>

WCreates(r) ==
  /\ wPc[r] = "new" /\ wPc'[r] = "create" /\ wHand'[r].effect \in W!Effect
  /\ wMarred' = IF W!Quiet THEN wMarred ELSE wMarred \cup {"overlap"}
  /\ UNCHANGED <<wAdjustments, wLegs>>

WGoesOn(r) ==
  /\ <<wPc[r], wPc'[r]>> \in
       {<<"create", "hook_own">>, <<"reverse", "hook_own">>, <<"edit", "hook">>,
        <<"delete", "hook">>, <<"edit_check", "edit">>, <<"delete_check", "delete">>,
        <<"reverse_check", "reverse">>}
  /\ wHand' = wHand /\ wMarred' = wMarred
  /\ wPc'[r] \in WHolding =>
       ~W!HasReversal(wHand[r].pid) /\ UNCHANGED wAdjustments

WEnds(r) ==
  /\ wPc[r] \notin {"new", "done"} /\ wPc'[r] = "done"
  /\ wMarred' \in {wMarred, wMarred \cup {"death"}}
  /\ UNCHANGED wAdjustments

LEMMA WalletMoves ==
  ASSUME WTyped, NEW r \in Clerk, W!Step(r)
  PROVE  /\ wPc' = [wPc EXCEPT ![r] = wPc'[r]]
         /\ wHand' = [wHand EXCEPT ![r] = wHand'[r]]
         /\ WFinds(r) \/ WCreates(r) \/ WGoesOn(r) \/ WEnds(r)
<1> USE DEF W!Goto, W!Continue, W!Begin, W!Find, W!Check, W!Project
<1>t. wPc \in [Clerk -> WSteps] /\ wHand \in [Clerk -> WHand]
  BY DEF WTyped
<1>1. ASSUME NEW e \in W!Effect, W!Create(r, e)
      PROVE  WCreates(r)
  BY <1>t, <1>1 DEF W!Create, WCreates, W!Blank
<1>2. ASSUME NEW p \in W!Row, NEW e \in W!Effect, W!EditFind(r, p, e)
      PROVE  WFinds(r)
  BY <1>t, <1>2 DEF W!EditFind, WFinds, W!Open
<1>3. ASSUME NEW p \in W!Row, W!DeleteFind(r, p) \/ W!ReverseFind(r, p)
      PROVE  WFinds(r)
  BY <1>t, <1>3 DEF W!DeleteFind, W!ReverseFind, WFinds, W!Open
<1>4. CASE W!EditCheck(r) \/ W!DeleteCheck(r) \/ W!ReverseCheck(r)
  BY <1>t, <1>4 DEF W!EditCheck, W!DeleteCheck, W!ReverseCheck, WGoesOn, WEnds, WHolding
<1>5. CASE W!CreateInsert(r) \/ W!EditWrite(r) \/ W!DeleteWrite(r) \/ W!ReverseInsert(r)
  BY <1>t, <1>5 DEF W!CreateInsert, W!EditWrite, W!DeleteWrite, W!ReverseInsert, WGoesOn,
    WHolding
<1>6. CASE W!HookOwn(r) \/ W!Hook(r)
  BY <1>t, <1>6 DEF W!HookOwn, W!Hook, WEnds
<1>7. CASE W!Die(r)
  BY <1>t, <1>7 DEF W!Die, WEnds, W!Busy, W!Idle
<1>8. /\ wPc' = [wPc EXCEPT ![r] = wPc'[r]]
      /\ wHand' = [wHand EXCEPT ![r] = wHand'[r]]
  BY <1>t DEF W!Step, W!Create, W!CreateInsert, W!EditFind, W!EditCheck, W!EditWrite,
    W!DeleteFind, W!ReverseFind, W!DeleteCheck, W!DeleteWrite, W!ReverseCheck, W!ReverseInsert,
    W!HookOwn, W!Hook, W!Die
<1> QED
  BY <1>1, <1>2, <1>3, <1>4, <1>5, <1>6, <1>7, <1>8 DEF W!Step

LEMMA WalletUnwritten ==
  ASSUME WInv, NEW r \in Clerk, W!Step(r)
  PROVE  WUnwritten'
<1>1. /\ wPc' = [wPc EXCEPT ![r] = wPc'[r]] /\ wPc \in [Clerk -> WSteps]
      /\ wPc'[r] \in {"new", "create"} \cup WHolding => wPc[r] \in {"new", "create"} \cup WHolding
  BY WalletMoves DEF WInv, WTyped, WFinds, WCreates, WGoesOn, WEnds, WHolding
<1>2. CASE WInserts(r)
  BY <1>1, <1>2 DEF WInv, WTyped, W!TypeOK, W!Row, WUnwritten, WInserts, WHolding
<1>3. CASE WChanges(r)
  BY <1>1, <1>3 DEF WInv, WTyped, W!TypeOK, W!Row, WUnwritten, WChanges, WHolding, WHeld, WHolds, W!Exists
<1>4. CASE UNCHANGED wAdjustments
  BY <1>1, <1>4 DEF WInv, WUnwritten
<1> QED
  BY <1>2, <1>3, <1>4, WalletWrites DEF WInv

LEMMA WalletHeld ==
  ASSUME WInv, NEW r \in Clerk, W!Step(r)
  PROVE  WHeld'
<1> USE NoDocument
<1>0. /\ WTyped /\ WHeld /\ WReversals /\ wPc \in [Clerk -> WSteps] /\ wHand \in [Clerk -> WHand]
      /\ \A p \in W!Row : W!Exists(p) => wAdjustments[p] \in W!Adjustment
  BY DEF WInv, WTyped, W!TypeOK, W!Exists
<1>1. \A p \in W!Row : W!Exists(p) /\ wAdjustments[p].reverses_id = Nothing =>
        W!Exists(p)' /\ wAdjustments'[p].reverses_id = Nothing
  BY <1>0, WalletWrites DEF WInv, WTyped, W!TypeOK, WInserts, WChanges, W!Exists, W!Row
<1>2. /\ wPc' = [wPc EXCEPT ![r] = wPc'[r]]
      /\ wHand' = [wHand EXCEPT ![r] = wHand'[r]]
  BY <1>0, WalletMoves
<1>3. ASSUME NEW s \in Clerk, s # r
      PROVE  WHolds(s)'
  <2>1. wPc'[s] = wPc[s] /\ wHand'[s] = wHand[s]
    BY <1>0, <1>2, <1>3
  <2>2. WHolds(s)
    BY <1>0 DEF WHeld
  <2> QED
    BY <1>1, <2>1, <2>2 DEF WHolds, W!Exists
<1>4. ASSUME WFinds(r) PROVE WHolds(r)'
  BY <1>0, <1>4 DEF WFinds, WHolds, W!Open, W!Active, W!Exists, WHolding
<1>5. ASSUME WCreates(r) PROVE WHolds(r)'
  BY <1>0, <1>5 DEF WCreates, WHolds, WHolding
<1>6. ASSUME WGoesOn(r) PROVE WHolds(r)'
  <2>1. WHolds(r)
    BY <1>0 DEF WHeld
  <2> QED
    BY <1>0, <1>1, <1>6, <2>1 DEF WGoesOn, WHolds, WHolding, W!Exists
<1>7. ASSUME WEnds(r) PROVE WHolds(r)'
  BY <1>0, <1>7 DEF WEnds, WHolds, WHolding
<1>8. WHolds(r)'
  BY <1>0, <1>4, <1>5, <1>6, <1>7, WalletMoves
<1> QED
  BY <1>3, <1>8 DEF WHeld

LEMMA WalletReversals ==
  ASSUME WInv, NEW r \in Clerk, W!Step(r)
  PROVE  WReversals'
<1> USE NoDocument DEF W!Exists, W!Row
<1>0. /\ WTyped /\ WUnwritten /\ WHeld /\ WReversals
      /\ \A p \in W!Row : W!Exists(p) => wAdjustments[p] \in W!Adjustment
  BY DEF WInv, WTyped, W!TypeOK
<1>1. CASE WInserts(r)
  BY <1>0, <1>1 DEF WTyped, W!TypeOK, WInserts, WReversals, WHeld, WHolds, WHolding
<1>2. CASE WChanges(r)
  BY <1>0, <1>2 DEF WTyped, W!TypeOK, WChanges, WReversals, WHeld, WHolds, WHolding
<1>3. CASE UNCHANGED wAdjustments
  BY <1>0, <1>3 DEF WReversals
<1> QED
  BY <1>0, <1>1, <1>2, <1>3, WalletWrites

(* A request that overlaps no other finds the desk empty.                  *)
LEMMA WalletSerial ==
  ASSUME WInv, NEW r \in Clerk, W!Step(r)
  PROVE  WSerial'
<1> USE NoDocument
<1>0. /\ WTyped /\ WHeld /\ WReversals /\ WSerial
      /\ wPc \in [Clerk -> WSteps] /\ wHand \in [Clerk -> WHand]
      /\ \A p \in W!Row : W!Exists(p) => wAdjustments[p] \in W!Adjustment
  BY DEF WInv, WTyped, W!TypeOK, W!Exists
<1>1. SUFFICES ASSUME "overlap" \notin wMarred'
      PROVE  /\ \A s, t \in W!Busy' : s = t
             /\ \A s \in Clerk : wPc'[s] \in WHolding =>
                  /\ wHand'[s].doc = wAdjustments'[wHand'[s].pid]
                  /\ ~wHand'[s].doc.is_deleted
                  /\ wPc'[s] \in {"edit", "delete", "reverse"} =>
                       W!Reversals(wHand[s].pid)' = {}
  BY DEF WSerial, W!Busy, W!Reversals, W!Exists
<1>2. /\ wPc' = [wPc EXCEPT ![r] = wPc'[r]]
      /\ wHand' = [wHand EXCEPT ![r] = wHand'[r]]
      /\ WFinds(r) \/ WCreates(r) \/ WGoesOn(r) \/ WEnds(r)
  BY <1>0, WalletMoves
<1>3. /\ "overlap" \notin wMarred
      /\ \A s \in Clerk : s # r => wPc[s] \in {"new", "done"}
  <2>1. CASE WFinds(r) \/ WCreates(r)
    BY <1>1, <2>1 DEF WFinds, WCreates, W!Quiet, W!Busy, W!Idle
  <2>2. CASE WGoesOn(r) \/ WEnds(r)
    <3>1. r \in W!Busy
      BY <2>2 DEF WGoesOn, WEnds, W!Busy, W!Idle
    <3>2. "overlap" \notin wMarred
      BY <1>1, <2>2 DEF WGoesOn, WEnds
    <3> QED
      BY <1>0, <3>1, <3>2 DEF WSerial, W!Busy, W!Idle
  <2> QED
    BY <1>2, <2>1, <2>2
<1>4. \A s \in Clerk : s # r => wPc'[s] \in {"new", "done"}
  BY <1>0, <1>2, <1>3
<1>5. \A s, t \in W!Busy' : s = t
  BY <1>4 DEF W!Busy, W!Idle
<1>6. ASSUME wPc'[r] \in WHolding
      PROVE  /\ wHand'[r].doc = wAdjustments'[wHand'[r].pid]
             /\ ~wHand'[r].doc.is_deleted
             /\ wPc'[r] \in {"edit", "delete", "reverse"} =>
                  W!Reversals(wHand[r].pid)' = {}
  <2>1. CASE WFinds(r)
    BY <2>1 DEF WFinds, W!Open, W!Active
  <2>2. CASE WGoesOn(r)
    <3>1. /\ wPc[r] \in WHolding /\ wPc'[r] \in {"edit", "delete", "reverse"}
          /\ UNCHANGED <<wHand, wAdjustments>> /\ ~W!HasReversal(wHand[r].pid)
      BY <1>6, <2>2 DEF WGoesOn, WHolding
    <3>2. wHand[r].pid \in W!Row
      BY <1>0, <3>1 DEF WHeld, WHolds
    <3>3. wHand[r].pid # Nothing
      BY <3>2 DEF W!Row
    <3>4. W!Reversals(wHand[r].pid) = {}
      BY <1>0, <3>1, <3>3 DEF W!HasReversal, W!Reversals, W!Active, WReversals
    <3>5. W!Reversals(wHand[r].pid)' = {}
      BY <3>1, <3>4 DEF W!Reversals, W!Exists
    <3> QED
      BY <1>0, <1>3, <3>1, <3>5 DEF WSerial
  <2> QED
    BY <1>2, <1>6, <2>1, <2>2 DEF WCreates, WEnds, WHolding
<1> QED
  BY <1>4, <1>5, <1>6 DEF WHolding

LEMMA WalletNets ==
  ASSUME WInv, NEW r \in Clerk, W!Step(r)
  PROVE  W!NetsZero'
<1> USE NoDocument
<1>0. /\ WTyped /\ WUnwritten /\ WHeld /\ WReversals /\ WSerial /\ W!NetsZero
      /\ wAdjustments \in [W!Row -> W!Adjustment \cup {Nothing}]
      /\ r \in W!Row /\ Nothing \notin W!Row /\ Nothing \notin W!Adjustment
  BY DEF WInv, WTyped, W!TypeOK, W!Row
<1>1. SUFFICES ASSUME "overlap" \notin wMarred', NEW p \in W!Row, W!Reversals(p)' # {}
      PROVE  /\ W!Active(p)'
             /\ \E q \in W!Row : /\ W!Reversals(p)' = {q}
                                 /\ wAdjustments'[q].effect = W!Opposite(wAdjustments'[p].effect)
  BY DEF W!NetsZero
<1>2. "overlap" \notin wMarred
  BY <1>0, <1>1, WalletMoves DEF WFinds, WCreates, WGoesOn, WEnds
<1>3. ASSUME W!Reversals(p)' = W!Reversals(p), W!Exists(p) => wAdjustments'[p] = wAdjustments[p],
             \A q \in W!Reversals(p) : wAdjustments'[q] = wAdjustments[q]
      PROVE  /\ W!Active(p)'
             /\ \E q \in W!Row : /\ W!Reversals(p)' = {q}
                                 /\ wAdjustments'[q].effect = W!Opposite(wAdjustments'[p].effect)
  <2>1. W!Active(p)
    BY <1>0, <1>1, <1>2, <1>3 DEF W!NetsZero
  <2>2. PICK q \in W!Row : /\ W!Reversals(p) = {q}
                           /\ wAdjustments[q].effect = W!Opposite(wAdjustments[p].effect)
    BY <1>0, <1>1, <1>2, <1>3 DEF W!NetsZero
  <2>3. wAdjustments'[p] = wAdjustments[p] /\ wAdjustments'[q] = wAdjustments[q]
    BY <1>3, <2>1, <2>2 DEF W!Active
  <2>4. W!Active(p)'
    BY <2>1, <2>3 DEF W!Active, W!Exists
  <2> QED
    BY <1>3, <2>2, <2>3, <2>4
<1>4. CASE WInserts(r)
  <2>1. PICK d \in W!Adjustment :
          /\ wAdjustments' = [wAdjustments EXCEPT ![r] = d]
          /\ ~d.is_deleted
          /\ \/ wPc[r] = "create" /\ d.reverses_id = Nothing
             \/ /\ wPc[r] = "reverse"
                /\ d.reverses_id = wHand[r].pid
                /\ d.effect = W!Opposite(wHand[r].doc.effect)
    BY <1>4 DEF WInserts
  <2>2. wAdjustments[r] = Nothing
    BY <1>4 DEF WInserts
  <2>3. ASSUME d.reverses_id # p
        PROVE  W!Reversals(p)' = W!Reversals(p) /\ r \notin W!Reversals(p)
    BY <1>0, <2>1, <2>2, <2>3 DEF W!Reversals, W!Exists
  <2>4. CASE d.reverses_id # p
    BY <1>0, <1>3, <2>1, <2>2, <2>3, <2>4 DEF W!Exists, W!Reversals
  <2>5. CASE d.reverses_id = p
    <3>1. /\ wPc[r] = "reverse" /\ p = wHand[r].pid /\ d.effect = W!Opposite(wHand[r].doc.effect)
      BY <1>0, <2>1, <2>5
    <3>2. /\ W!Exists(p) /\ wHand[r].doc = wAdjustments[p] /\ ~wHand[r].doc.is_deleted
          /\ W!Reversals(p) = {}
      BY <1>0, <1>2, <3>1 DEF WHeld, WHolds, WSerial, WHolding
    <3>3. wAdjustments'[p] = wAdjustments[p] /\ wAdjustments'[r] = d
      BY <1>0, <2>1, <2>2, <3>2 DEF W!Exists
    <3>4. W!Active(p)'
      BY <3>2, <3>3 DEF W!Active, W!Exists
    <3>5. W!Reversals(p)' = {r}
      BY <1>0, <2>1, <2>5, <3>2, <3>3 DEF W!Reversals, W!Exists
    <3> QED
      BY <1>0, <3>1, <3>2, <3>3, <3>4, <3>5
  <2> QED
    BY <2>4, <2>5
<1>5. CASE WChanges(r)
  <2>1. PICK d \in W!Adjustment :
          wAdjustments' = [wAdjustments EXCEPT ![wHand[r].pid] = d] /\ d.reverses_id = Nothing
    BY <1>5 DEF WChanges
  <2>2. /\ wHand[r].pid \in W!Row /\ wAdjustments[wHand[r].pid].reverses_id = Nothing
        /\ W!Reversals(wHand[r].pid) = {}
    BY <1>0, <1>2, <1>5 DEF WHeld, WHolds, WSerial, WHolding, WChanges
  <2>3. W!Reversals(p)' = W!Reversals(p) /\ wHand[r].pid \notin W!Reversals(p)
    BY <1>0, <2>1, <2>2 DEF W!Reversals, W!Exists
  <2>4. p # wHand[r].pid
    BY <1>1, <2>2, <2>3
  <2> QED
    BY <1>0, <1>3, <2>1, <2>2, <2>3, <2>4 DEF W!Reversals
<1>6. CASE UNCHANGED wAdjustments
  BY <1>3, <1>6 DEF W!Reversals, W!Exists
<1> QED
  BY <1>0, <1>4, <1>5, <1>6, WalletWrites

LEMMA WalletFinal ==
  ASSUME WInv, NEW r \in Clerk, W!Step(r)
  PROVE  W!Final
<1> USE NoDocument
<1>0. /\ WTyped /\ WUnwritten /\ WHeld /\ WReversals
      /\ wAdjustments \in [W!Row -> W!Adjustment \cup {Nothing}]
      /\ r \in W!Row /\ Nothing \notin W!Row /\ Nothing \notin W!Adjustment
  BY DEF WInv, WTyped, W!TypeOK, W!Row
<1>1. SUFFICES ASSUME NEW q \in W!Row, W!Exists(q), wAdjustments[q].reverses_id # Nothing
      PROVE  /\ wAdjustments'[q] = wAdjustments[q]
             /\ \A s \in W!Row : wAdjustments'[s] # Nothing => wAdjustments'[s].reverses_id # q
  BY DEF W!Final
<1>2. \A s \in W!Row : wAdjustments[s] # Nothing => wAdjustments[s].reverses_id # q
  BY <1>0, <1>1 DEF WReversals, W!Exists
<1>3. wPc[r] \in WHolding =>
        wHand[r].pid \in W!Row /\ wHand[r].pid # q
  BY <1>0, <1>1 DEF WHeld, WHolds
<1>4. CASE WInserts(r)
  BY <1>0, <1>1, <1>2, <1>3, <1>4 DEF WInserts, W!Exists, WHolding
<1>5. CASE WChanges(r)
  BY <1>0, <1>1, <1>2, <1>3, <1>5 DEF WChanges, W!Exists, WHolding
<1>6. CASE UNCHANGED wAdjustments
  BY <1>1, <1>2, <1>6
<1> QED
  BY <1>0, <1>4, <1>5, <1>6, WalletWrites

(* A step of any of the desks.                                             *)
LEMMA WalletStep ==
  ASSUME desk = "wallet" => WInv, [Next]_vars
  PROVE  /\ (desk = "wallet" => WInv)'
         /\ UNCHANGED vars \/ (desk = "wallet" => W!Final)
<1>1. CASE WalletDesk
  <2>1. PICK r \in Clerk : W!Step(r)
    BY <1>1 DEF WalletDesk, W!Next
  <2>2. WInv
    BY <1>1 DEF WalletDesk
  <2>3. WTyped' /\ WUnwritten' /\ WHeld' /\ WReversals' /\ WSerial' /\ W!NetsZero' /\ W!Final
    BY <2>1, <2>2, WalletTyped, WalletUnwritten, WalletHeld, WalletReversals, WalletSerial,
       WalletNets, WalletFinal
  <2> QED
    BY <1>1, <2>3 DEF WInv
<1>2. CASE desk # "wallet" /\ Next
  BY <1>2 DEF Next, DriverDesk, PartyDesk, WalletDesk, LinksDesk, ImportsDesk,
    MastersDesk
<1>3. CASE UNCHANGED vars
  BY <1>3 DEF vars, wVars, WInv, WTyped, WUnwritten, WHeld, WHolds, WReversals, WSerial,
    W!TypeOK, W!NetsZero, W!Exists, W!Active, W!Reversals, W!Busy, W!Quiet
<1>4. CASE desk = "wallet" /\ Next
  BY <1>1, <1>4 DEF Next, DriverDesk, PartyDesk, WalletDesk, LinksDesk, ImportsDesk,
    MastersDesk, Kinds
<1> QED
  BY <1>2, <1>3, <1>4

-----------------------------------------------------------------------------
(* Payments to vendors, mechanics and suppliers.                           *)

(* The steps at which a request has found a payment, those at which it has *)
(* a copy of it in hand, and those at which it has an amount.              *)
PTargets ==
  {"delete", "edit", "attr_bill", "attr_write", "attr_record", "reverse", "insert",
   "record", "hook", "hook_both", "hook_fresh"}
PCopies == {"attr_bill", "attr_write", "attr_record", "reverse", "insert", "record"}
PAmounts == {"create", "edit", "reverse", "insert"}
PSteps == {"new", "create", "create_hook", "bill", "done"} \cup PTargets

PHand == [pid : P!Row \cup {Nothing}, doc : P!Payment \cup {Nothing},
          amount : Amount \cup {Nothing}, billed : BOOLEAN]

PTyped ==
  /\ P!TypeOK
  /\ pPc \in [Request -> PSteps]
  /\ pHand \in [Request -> PHand]

(* What a request holds is there; what it copied was not reversed.         *)
PHolds(r) ==
  /\ pPc[r] \in PTargets => pHand[r].pid \in P!Row /\ P!Exists(pHand[r].pid)
  /\ pPc[r] \in PCopies => pHand[r].doc \in P!Payment /\ ~pHand[r].doc.is_reversed
  /\ pPc[r] \in PAmounts => pHand[r].amount \in Amount

PHeld == \A r \in Request : PHolds(r)

(* A request inserts its payment and its correction once, and not before   *)
(* it has come that far.                                                   *)
PUnwritten ==
  \A r \in Request :
    /\ pPc[r] \in {"new", "create", "reverse", "insert"} => pPayments[r] = Nothing
    /\ pPc[r] \in {"new"} \cup PCopies => pCorrections[r] = Nothing

(* A correction and a replacement are of a payment that is there.          *)
PLinked ==
  /\ \A r \in Request : pCorrections[r] # Nothing => P!Exists(pCorrections[r].payment_id)
  /\ \A q \in P!Row : P!Exists(q) /\ pPayments[q].reversal_of # Nothing =>
       P!Exists(pPayments[q].reversal_of)

(* A request that has yet to project payment p.                            *)
POwes(r, p) ==
  \/ pPc[r] \in {"hook", "attr_record", "insert", "record", "hook_both"} /\ pHand[r].pid = p
  \/ pPc[r] \in {"create_hook", "record", "hook_both", "hook_fresh"} /\ r = p

PLedger ==
  "death" \notin pMarred =>
    \A p \in P!Row : pLegs[p] = P!View(p) \/ \E r \in Request : POwes(r, p)

(* The payment that r has counted without recording it, or reversed        *)
(* without replacing it.                                                   *)
PUnrecorded(r, p) == pPc[r] \in {"attr_record", "insert", "record"} /\ pHand[r].pid = p
PUnreplaced(r, p) == pPc[r] = "insert" /\ pHand[r].pid = p

(* As long as requests neither overlap nor die: one is at work, and what   *)
(* it knows of its payment is so.                                          *)
PSerial ==
  pMarred = {} =>
    /\ \A r, s \in P!Busy : r = s
    /\ \A r \in Request :
         LET doc == pPayments[pHand[r].pid] IN
         /\ pPc[r] \in {"attr_bill", "attr_write", "reverse"} => pHand[r].doc = doc
         /\ pPc[r] = "attr_record" => doc.correction_count = pHand[r].doc.correction_count + 1
         /\ pPc[r] \in {"attr_record", "insert", "record"} =>
              doc.correction_count > 0 /\ doc.latest_correction_id = r
         /\ pPc[r] \in {"insert", "record"} => doc.is_reversed

(* The corrections of payment p are numbered up to n.                      *)
PNumbered(p, n) ==
  /\ IsFiniteSet(P!Trail(p))
  /\ {pCorrections[r].correction_index : r \in P!Trail(p)} = 1..n
  /\ Cardinality(P!Trail(p)) = n

PTrailOf(p) ==
  \E n \in {pPayments[p].correction_count}, l \in {pPayments[p].latest_correction_id} :
    /\ IF \E r \in Request : PUnrecorded(r, p)
       THEN PNumbered(p, n - 1)
       ELSE /\ PNumbered(p, n)
            /\ n > 0 => /\ l \in Request /\ pCorrections[l] # Nothing
                        /\ pCorrections[l].correction_index = n
    /\ IF pPayments[p].is_reversed /\ ~\E r \in Request : PUnreplaced(r, p)
       THEN \E q \in P!Row : P!Replacements(p) = {q}
       ELSE P!Replacements(p) = {}

PTrail ==
  pMarred = {} /\ pParty = "supplier" => \A p \in P!Row : P!Exists(p) => PTrailOf(p)

PInv == PTyped /\ PHeld /\ PUnwritten /\ PLinked /\ PLedger /\ PSerial /\ PTrail

LEMMA PartyBegins == ASSUME P!Init PROVE PInv
<1> USE NoDocument DEF P!Row, P!Exists
<1>1. PTyped
  BY DEF P!Init, P!Fresh, P!Blank, PTyped, P!TypeOK, P!Payment, PSteps, PHand
<1>2. PICK a \in Amount, b \in BOOLEAN :
        /\ pPayments = [p \in P!Row |-> IF p = Opening THEN P!Fresh(a, b) ELSE Nothing]
        /\ pLegs = [p \in P!Row |-> IF p = Opening THEN a ELSE Nothing]
  BY DEF P!Init
<1>3. /\ \A p \in P!Row : p # Opening => ~P!Exists(p) /\ pLegs[p] = Nothing
      /\ pLegs[Opening] = a /\ P!Exists(Opening)
      /\ pPayments[Opening].amount = a /\ pPayments[Opening].reversal_of = Nothing
      /\ pPayments[Opening].correction_count = 0
      /\ ~pPayments[Opening].is_reversed /\ ~pPayments[Opening].is_deleted
  <2>1. P!Fresh(a, b) \in P!Payment
    BY DEF P!Fresh, P!Payment
  <2> QED
    BY <1>2, <2>1 DEF P!Fresh
<1>4. /\ \A r \in Request : pPc[r] = "new" /\ pCorrections[r] = Nothing
      /\ pMarred = {}
  BY DEF P!Init
<1>5. PHeld /\ PUnwritten /\ PLinked /\ PSerial
  <2>1. PHeld
    BY <1>4 DEF PHeld, PHolds, PTargets, PCopies, PAmounts
  <2>2. PUnwritten /\ PLinked
    BY <1>3, <1>4 DEF PUnwritten, PLinked
  <2>3. PSerial
    BY <1>4 DEF PSerial, P!Busy, P!Idle
  <2> QED
    BY <2>1, <2>2, <2>3
<1>6. PLedger
  BY <1>3 DEF PLedger, P!View, P!Correctable
<1>7. PTrail
  <2>1. P!Trail(Opening) = {} /\ P!Replacements(Opening) = {}
    BY <1>3, <1>4 DEF P!Trail, P!Replacements
  <2>2. PNumbered(Opening, 0)
    BY <2>1, FS_EmptySet DEF PNumbered
  <2>3. ~\E r \in Request : PUnrecorded(r, Opening)
    BY <1>4 DEF PUnrecorded
  <2> QED
    BY <1>3, <2>1, <2>2, <2>3 DEF PTrail, PTrailOf
<1> QED
  BY <1>1, <1>5, <1>6, <1>7 DEF PInv

(* What a step can be: it begins ...                                       *)
PBegins(r) ==
  /\ pPc[r] = "new"
  /\ pPc'[r] \in {"create", "delete", "edit", "attr_bill", "attr_write", "reverse", "bill"}
  /\ pPc'[r] \in PTargets => pHand'[r].pid \in P!Row /\ P!Exists(pHand'[r].pid)
  /\ pPc'[r] \in PCopies =>
       pHand'[r].doc = pPayments[pHand'[r].pid] /\ P!Correctable(pHand'[r].pid)
  /\ pPc'[r] \in PAmounts => pHand'[r].amount \in Amount
  /\ pMarred' = IF P!Quiet THEN pMarred ELSE pMarred \cup {"overlap"}
  /\ UNCHANGED <<pParty, pBill, pPayments, pCorrections, pLegs>>

(* ... inserts a payment ...                                               *)
PInserts(r) ==
  /\ pPayments[r] = Nothing
  /\ \E d \in P!Payment :
       /\ pPayments' = [pPayments EXCEPT ![r] = d]
       /\ ~d.is_reversed /\ d.correction_count = 0
       /\ \/ pPc[r] = "create" /\ pPc'[r] = "create_hook" /\ d.reversal_of = Nothing
          \/ pPc[r] = "insert" /\ pPc'[r] = "record" /\ d.reversal_of = pHand[r].pid
  /\ UNCHANGED <<pParty, pCorrections, pLegs, pHand, pMarred>>

(* ... changes one ...                                                     *)
PChange(r, old, d) ==
  \/ /\ pPc[r] \in {"delete", "edit"} /\ pPc'[r] = "hook"
     /\ \/ pParty # "supplier" /\ d.reversal_of = Nothing
        \/ /\ d.is_reversed = old.is_reversed /\ d.reversal_of = old.reversal_of
           /\ d.correction_count = old.correction_count
           /\ d.latest_correction_id = old.latest_correction_id
  \/ /\ pPc[r] = "attr_write" /\ pPc'[r] = "attr_record"
     /\ d.is_reversed = old.is_reversed /\ d.reversal_of = old.reversal_of
     /\ d.correction_count = pHand[r].doc.correction_count + 1
     /\ d.latest_correction_id = r
  \/ /\ pPc[r] = "reverse" /\ pPc'[r] = "insert"
     /\ d.is_reversed /\ d.reversal_of = old.reversal_of
     /\ d.correction_count = old.correction_count + 1
     /\ d.latest_correction_id = r

PChanges(r) ==
  /\ pHand[r].pid \in P!Row /\ pPayments[pHand[r].pid] \in P!Payment
  /\ \E d \in P!Payment :
       /\ pPayments' = [pPayments EXCEPT ![pHand[r].pid] = d]
       /\ PChange(r, pPayments[pHand[r].pid], d)
  /\ UNCHANGED <<pParty, pCorrections, pLegs, pHand, pMarred>>

(* ... records a correction ...                                            *)
PRecords(r) ==
  /\ pCorrections[r] = Nothing
  /\ \E c \in P!Correction :
       /\ pCorrections' = [pCorrections EXCEPT ![r] = c]
       /\ c.payment_id = pHand[r].pid
       /\ \/ /\ pPc[r] = "attr_record" /\ pPc'[r] = "hook"
             /\ c.correction_index = pHand[r].doc.correction_count + 1
          \/ /\ pPc[r] = "record" /\ pPc'[r] = "hook_both"
             /\ LET n == pPayments[pHand[r].pid].correction_count
                IN  c.correction_index = IF n = 0 THEN 1 ELSE n
  /\ UNCHANGED <<pParty, pPayments, pLegs, pHand, pMarred>>

(* ... projects a payment ...                                              *)
PProjects(r) ==
  /\ \E p \in P!Row :
       /\ pLegs' = [pLegs EXCEPT ![p] = P!View(p)]
       /\ <<pPc[r], pPc'[r], p>> \in
            {<<"create_hook", "done", r>>, <<"hook", "done", pHand[r].pid>>,
             <<"hook_both", "hook_fresh", pHand[r].pid>>, <<"hook_fresh", "done", r>>}
  /\ pPc'[r] # "done" => pHand' = pHand
  /\ UNCHANGED <<pParty, pPayments, pCorrections, pMarred>>

(* ... or writes none of these.                                            *)
PPasses(r) ==
  /\ \/ pPc[r] = "attr_bill" /\ pPc'[r] = "attr_write" /\ pHand' = pHand
     \/ pPc[r] \in {"attr_bill", "bill"} /\ pPc'[r] = "done"
     \/ r \in P!Busy /\ pPc'[r] = "done" /\ "death" \in pMarred'
  /\ pMarred \subseteq pMarred' /\ ("death" \notin pMarred' => pMarred' = pMarred)
  /\ UNCHANGED <<pParty, pPayments, pCorrections, pLegs>>

PStep(r) ==
  /\ pPc' = [pPc EXCEPT ![r] = pPc'[r]]
  /\ pHand' = [pHand EXCEPT ![r] = pHand'[r]]
  /\ PBegins(r) \/ PInserts(r) \/ PChanges(r) \/ PRecords(r) \/ PProjects(r) \/ PPasses(r)

LEMMA PartyMoves ==
  ASSUME PTyped, PHeld, PUnwritten, NEW r \in Request, P!Step(r)
  PROVE  PStep(r)
<1> USE NoDocument DEF P!Goto, P!Set, P!Exists
<1>0. /\ pPc \in [Request -> PSteps] /\ pHand \in [Request -> PHand]
      /\ pPayments \in [P!Row -> P!Payment \cup {Nothing}]
      /\ r \in P!Row
  BY DEF PTyped, P!TypeOK, P!Row
<1>h. PHolds(r)
  BY DEF PHeld
<1>p. pPc[r] \in PTargets => pHand[r].pid \in P!Row /\ pPayments[pHand[r].pid] \in P!Payment
  BY <1>0, <1>h DEF PHolds
<1>a. /\ pPc' = [pPc EXCEPT ![r] = pPc'[r]]
      /\ pHand' = [pHand EXCEPT ![r] = pHand'[r]]
  BY <1>0 DEF P!Step, P!Begin, P!Hook, P!CreateFind, P!CreateInsert, P!CreateHook, P!DeleteFind,
    P!DeleteWrite, P!EditFind, P!EditVendor, P!EditSupplier, P!HookOfOne, P!AttrLoad, P!AttrBill,
    P!AttrWrite, P!AttrRecord, P!AmountLoad, P!MarkReversed, P!InsertFresh, P!RecordAmount,
    P!HookReversed, P!HookFresh, P!BillCount, P!BillDelete, P!Die
<1>b. ASSUME NEW a \in Amount, NEW b \in BOOLEAN, P!CreateFind(r, a, b)
      PROVE  PBegins(r)
  BY <1>0, <1>b DEF P!CreateFind, P!Begin, P!Blank, PBegins, PTargets, PCopies, PAmounts
<1>c. ASSUME NEW p \in P!Row, P!DeleteFind(r, p)
      PROVE  PBegins(r)
  BY <1>0, <1>c DEF P!DeleteFind, P!Begin, P!Blank, PBegins, PTargets, PCopies, PAmounts
<1>d. ASSUME NEW p \in P!Row, NEW a \in Amount, NEW b \in BOOLEAN, P!EditFind(r, p, a, b)
      PROVE  PBegins(r)
  BY <1>0, <1>d DEF P!EditFind, P!Begin, P!Blank, PBegins, PTargets, PCopies, PAmounts
<1>e. ASSUME P!BillCount(r)
      PROVE  PBegins(r)
  BY <1>0, <1>e DEF P!BillCount, P!Begin, P!Blank, PBegins, PTargets, PCopies, PAmounts
<1>2. ASSUME NEW p \in P!Row, NEW b \in BOOLEAN, NEW e \in P!Expectation, P!AttrLoad(r, p, b, e)
      PROVE  PBegins(r)
  BY <1>0, <1>2 DEF P!AttrLoad, P!Begin, P!Correctable, PBegins, PTargets, PCopies, PAmounts
<1>3. ASSUME NEW p \in P!Row, NEW a \in Amount, NEW e \in P!Expectation, P!AmountLoad(r, p, a, e)
      PROVE  PBegins(r)
  BY <1>0, <1>3 DEF P!AmountLoad, P!Begin, P!Correctable, PBegins, PTargets, PCopies, PAmounts
<1>4. ASSUME P!CreateInsert(r)
      PROVE  PInserts(r)
  <2>1. pHand[r].amount \in Amount /\ pHand[r].billed \in BOOLEAN /\ pPayments[r] = Nothing
    BY <1>0, <1>h, <1>4 DEF P!CreateInsert, PHolds, PAmounts, PHand, PUnwritten
  <2> DEFINE d == P!Fresh(pHand[r].amount, pHand[r].billed)
  <2>2. /\ d \in P!Payment /\ ~d.is_reversed /\ d.correction_count = 0
        /\ d.reversal_of = Nothing
    BY <2>1 DEF P!Fresh, P!Payment
  <2> HIDE DEF d
  <2> QED
    BY <1>0, <1>4, <2>1, <2>2 DEF P!CreateInsert, PInserts, d
<1>5. ASSUME P!DeleteWrite(r)
      PROVE  PChanges(r)
  <2> DEFINE old == pPayments[pHand[r].pid]
             d == [old EXCEPT !.is_deleted = TRUE]
  <2>1. pHand[r].pid \in P!Row /\ old \in P!Payment
    BY <1>p, <1>5 DEF P!DeleteWrite, PTargets
  <2>2. /\ d \in P!Payment /\ d.is_reversed = old.is_reversed /\ d.reversal_of = old.reversal_of
        /\ d.correction_count = old.correction_count
        /\ d.latest_correction_id = old.latest_correction_id
    BY <2>1 DEF P!Payment
  <2> HIDE DEF d, old
  <2> QED
    BY <1>0, <1>5, <2>1, <2>2 DEF P!DeleteWrite, PChanges, PChange, d, old
<1>6. ASSUME P!EditVendor(r)
      PROVE  PChanges(r)
  <2> DEFINE old == pPayments[pHand[r].pid]
             new == P!Fresh(pHand[r].amount, pHand[r].billed)
             d == [new EXCEPT !.is_deleted = old.is_deleted]
  <2>1. /\ pHand[r].pid \in P!Row /\ old \in P!Payment
        /\ pHand[r].amount \in Amount /\ pHand[r].billed \in BOOLEAN
    BY <1>0, <1>h, <1>p, <1>6 DEF P!EditVendor, PTargets, PHolds, PAmounts, PHand
  <2>2. new \in P!Payment /\ new.reversal_of = Nothing /\ old.is_deleted \in BOOLEAN
    BY <2>1 DEF P!Fresh, P!Payment
  <2> HIDE DEF new, old
  <2>3. d \in P!Payment /\ d.reversal_of = Nothing
    BY <2>2 DEF P!Payment
  <2> HIDE DEF d
  <2>4. pPayments' = [pPayments EXCEPT ![pHand[r].pid] = d]
    BY <1>6 DEF P!EditVendor, d, new, old
  <2> QED
    BY <1>0, <1>6, <2>1, <2>3, <2>4 DEF P!EditVendor, PChanges, PChange, old
<1>7. ASSUME P!EditSupplier(r)
      PROVE  PChanges(r)
  <2> DEFINE old == pPayments[pHand[r].pid]
             d == [old EXCEPT !.amount = pHand[r].amount, !.billed = pHand[r].billed]
  <2>1. /\ pHand[r].pid \in P!Row /\ old \in P!Payment
        /\ pHand[r].amount \in Amount /\ pHand[r].billed \in BOOLEAN
    BY <1>0, <1>h, <1>p, <1>7 DEF P!EditSupplier, PTargets, PHolds, PAmounts, PHand
  <2>2. /\ d \in P!Payment /\ d.is_reversed = old.is_reversed /\ d.reversal_of = old.reversal_of
        /\ d.correction_count = old.correction_count
        /\ d.latest_correction_id = old.latest_correction_id
    BY <2>1 DEF P!Payment
  <2> HIDE DEF d, old
  <2> QED
    BY <1>0, <1>7, <2>1, <2>2 DEF P!EditSupplier, PChanges, PChange, d, old
<1>8. ASSUME P!AttrWrite(r)
      PROVE  PChanges(r)
  <2> DEFINE old == pPayments[pHand[r].pid]
             n == pHand[r].doc.correction_count + 1
             d == [old EXCEPT !.billed = pHand[r].billed, !.correction_count = n,
                              !.latest_correction_id = r]
  <2>1. /\ pHand[r].pid \in P!Row /\ old \in P!Payment
        /\ pHand[r].doc \in P!Payment /\ pHand[r].billed \in BOOLEAN
    BY <1>0, <1>h, <1>p, <1>8 DEF P!AttrWrite, PTargets, PHolds, PCopies, PHand
  <2>2. n \in Nat
    BY <2>1 DEF P!Payment
  <2> HIDE DEF n
  <2>3. /\ d \in P!Payment /\ d.is_reversed = old.is_reversed /\ d.reversal_of = old.reversal_of
        /\ d.correction_count = n /\ d.latest_correction_id = r
    BY <2>1, <2>2 DEF P!Payment
  <2> HIDE DEF d, old
  <2>4. pPayments' = [pPayments EXCEPT ![pHand[r].pid] = d]
    BY <1>8 DEF P!AttrWrite, d, n, old
  <2> QED
    BY <1>0, <1>8, <2>1, <2>3, <2>4 DEF P!AttrWrite, PChanges, PChange, n, old
<1>9. ASSUME P!MarkReversed(r)
      PROVE  PChanges(r)
  <2> DEFINE old == pPayments[pHand[r].pid]
             d == [old EXCEPT !.is_reversed = TRUE, !.correction_count = @ + 1,
                              !.latest_correction_id = r]
  <2>1. pHand[r].pid \in P!Row /\ old \in P!Payment
    BY <1>p, <1>9 DEF P!MarkReversed, PTargets
  <2>2. old.correction_count + 1 \in Nat
    BY <2>1 DEF P!Payment
  <2> HIDE DEF old
  <2>3. d \in P!Payment
    BY <2>1, <2>2 DEF P!Payment
  <2>4. /\ d.is_reversed = TRUE /\ d.reversal_of = old.reversal_of
        /\ d.correction_count = old.correction_count + 1 /\ d.latest_correction_id = r
    BY <2>1 DEF P!Payment
  <2> HIDE DEF d
  <2>5. pPayments' = [pPayments EXCEPT ![pHand[r].pid] = d]
    BY <1>9 DEF P!MarkReversed, d, old
  <2> QED
    BY <1>0, <1>9, <2>1, <2>3, <2>4, <2>5 DEF P!MarkReversed, PChanges, PChange, old
<1>10. ASSUME P!InsertFresh(r)
       PROVE  PInserts(r)
  <2> DEFINE doc == pHand[r].doc
             d == [doc EXCEPT !.amount = pHand[r].amount, !.reversal_of = pHand[r].pid,
                              !.correction_count = 0, !.latest_correction_id = Nothing]
  <2>1. /\ pHand[r].pid \in P!Row /\ doc \in P!Payment /\ ~doc.is_reversed
        /\ pHand[r].amount \in Amount /\ pPayments[r] = Nothing
    BY <1>0, <1>h, <1>p, <1>10 DEF P!InsertFresh, PTargets, PCopies, PAmounts, PHolds, PUnwritten
  <2> HIDE DEF doc
  <2>2. /\ d \in P!Payment /\ ~d.is_reversed /\ d.correction_count = 0
        /\ d.reversal_of = pHand[r].pid
    BY <2>1 DEF P!Payment
  <2> HIDE DEF d
  <2>3. pPayments' = [pPayments EXCEPT ![r] = d]
    BY <1>10 DEF P!InsertFresh, d, doc
  <2> QED
    BY <1>0, <1>10, <2>1, <2>2, <2>3 DEF P!InsertFresh, PInserts
<1>11. ASSUME P!AttrRecord(r)
       PROVE  PRecords(r)
  <2> DEFINE n == pHand[r].doc.correction_count + 1
             c == [payment_id |-> pHand[r].pid, correction_index |-> n, kind |-> "attribute"]
  <2>1. /\ pHand[r].pid \in P!Row /\ n \in Nat /\ pCorrections[r] = Nothing
    BY <1>0, <1>h, <1>p, <1>11 DEF P!AttrRecord, PTargets, PHolds, PCopies, P!Payment, PUnwritten
  <2>2. c \in P!Correction /\ c.payment_id = pHand[r].pid /\ c.correction_index = n
    BY <2>1 DEF P!Correction
  <2> HIDE DEF c
  <2> QED
    BY <1>0, <1>11, <2>1, <2>2 DEF P!AttrRecord, P!Record, PRecords, c
<1>12. ASSUME P!RecordAmount(r)
       PROVE  PRecords(r)
  <2> DEFINE m == pPayments[pHand[r].pid].correction_count
             n == IF m = 0 THEN 1 ELSE m
             c == [payment_id |-> pHand[r].pid, correction_index |-> n,
                   kind |-> "amount_reversal_new"]
  <2>1. /\ pHand[r].pid \in P!Row /\ n \in Nat /\ pCorrections[r] = Nothing
    BY <1>0, <1>h, <1>p, <1>12 DEF P!RecordAmount, PTargets, PCopies, P!Payment, PUnwritten
  <2>2. c \in P!Correction /\ c.payment_id = pHand[r].pid /\ c.correction_index = n
    BY <2>1 DEF P!Correction
  <2> HIDE DEF c
  <2> QED
    BY <1>0, <1>12, <2>1, <2>2 DEF P!RecordAmount, P!Record, PRecords, c
<1>13. ASSUME P!CreateHook(r) \/ P!HookOfOne(r) \/ P!HookReversed(r) \/ P!HookFresh(r)
       PROVE  PProjects(r)
  BY <1>0, <1>p, <1>13 DEF P!CreateHook, P!HookOfOne, P!HookReversed, P!HookFresh, P!Hook,
    PProjects, PTargets
<1>14. ASSUME P!AttrBill(r) \/ P!BillDelete(r) \/ P!Die(r)
       PROVE  PPasses(r)
  BY <1>0, <1>14 DEF P!AttrBill, P!BillDelete, P!Die, PPasses, P!Busy
<1> QED
  BY <1>a, <1>b, <1>c, <1>d, <1>e, <1>2, <1>3, <1>4, <1>5, <1>6, <1>7, <1>8, <1>9, <1>10, <1>11,
     <1>12, <1>13, <1>14
  DEF P!Step, PStep

LEMMA PartyTyped ==
  ASSUME PInv, NEW r \in Request, P!Step(r)
  PROVE  PTyped'
<1> USE NoDocument
<1>0. /\ PTyped /\ PHeld /\ PUnwritten /\ PStep(r) /\ r \in P!Row
      /\ pPc \in [Request -> PSteps] /\ pHand \in [Request -> PHand]
      /\ pPayments \in [P!Row -> P!Payment \cup {Nothing}]
      /\ pCorrections \in [Request -> P!Correction \cup {Nothing}]
      /\ pLegs \in [P!Row -> Amount \cup {Nothing}]
  BY PartyMoves DEF PInv, PTyped, P!TypeOK, P!Row
<1>1. /\ pPayments' \in [P!Row -> P!Payment \cup {Nothing}]
      /\ pCorrections' \in [Request -> P!Correction \cup {Nothing}]
  BY <1>0 DEF PStep, PBegins, PInserts, PChanges, PRecords, PProjects, PPasses
<1>2. \A p \in P!Row : P!View(p) \in Amount \cup {Nothing}
  BY <1>0 DEF P!View, P!Correctable, P!Exists, P!Payment
<1>3. pLegs' \in [P!Row -> Amount \cup {Nothing}] /\ pParty' = pParty
  BY <1>0, <1>2 DEF PStep, PBegins, PInserts, PChanges, PRecords, PProjects, PPasses
<1>4. pPc' \in [Request -> PSteps]
  <2>1. pPc'[r] \in PSteps
    BY <1>0 DEF PStep, PBegins, PInserts, PChanges, PChange, PRecords, PProjects, PPasses,
      PSteps, PTargets
  <2> QED
    BY <1>0, <2>1 DEF PStep
<1>5. pBill' \in {"live", "deleted"} /\ pMarred' \subseteq {"overlap", "death"}
  BY <1>0 DEF PTyped, P!TypeOK, P!Step, P!Begin, P!Hook, P!Goto, P!CreateFind, P!CreateInsert,
    P!CreateHook, P!DeleteFind, P!DeleteWrite, P!EditFind, P!EditVendor, P!EditSupplier,
    P!HookOfOne, P!AttrLoad, P!AttrBill, P!AttrWrite, P!AttrRecord, P!AmountLoad,
    P!MarkReversed, P!InsertFresh, P!RecordAmount, P!HookReversed, P!HookFresh, P!BillCount,
    P!BillDelete, P!Die
<1>6. pHand' \in [Request -> PHand]
  <2>1. /\ P!Blank \in PHand
        /\ \A a \in Amount, b \in BOOLEAN : [P!Blank EXCEPT !.amount = a, !.billed = b] \in PHand
        /\ \A p \in P!Row : [P!Blank EXCEPT !.pid = p] \in PHand
        /\ \A p \in P!Row, a \in Amount, b \in BOOLEAN :
             [P!Blank EXCEPT !.pid = p, !.amount = a, !.billed = b] \in PHand
    BY DEF P!Blank, PHand
  <2>2. \A p \in P!Row, b \in BOOLEAN, a \in Amount \cup {Nothing} : P!Correctable(p) =>
          [pid |-> p, doc |-> pPayments[p], amount |-> a, billed |-> b] \in PHand
    BY <1>0 DEF PHand, P!Correctable, P!Exists
  <2>3. pHand' \in {pHand, [pHand EXCEPT ![r] = P!Blank]} \/
        \E h \in PHand : pHand' = [pHand EXCEPT ![r] = h]
    BY <2>1, <2>2 DEF P!Step, P!Begin, P!Hook, P!Goto, P!CreateFind, P!CreateInsert,
      P!CreateHook, P!DeleteFind, P!DeleteWrite, P!EditFind, P!EditVendor, P!EditSupplier,
      P!HookOfOne, P!AttrLoad, P!AttrBill, P!AttrWrite, P!AttrRecord, P!AmountLoad,
      P!MarkReversed, P!InsertFresh, P!RecordAmount, P!HookReversed, P!HookFresh, P!BillCount,
      P!BillDelete, P!Die
  <2> QED
    BY <1>0, <2>1, <2>3
<1> QED
  BY <1>0, <1>1, <1>3, <1>4, <1>5, <1>6 DEF PTyped, P!TypeOK

(* No payment that is there goes.                                          *)
LEMMA PartyStays ==
  ASSUME PTyped, NEW r \in Request, PStep(r)
  PROVE  \A p \in P!Row : P!Exists(p) => P!Exists(p)'
BY NoDocument DEF PTyped, P!TypeOK, P!Exists, PStep, PBegins, PInserts, PChanges, PRecords,
  PProjects, PPasses

LEMMA PartyHeld ==
  ASSUME PInv, NEW r \in Request, P!Step(r)
  PROVE  PHeld'
<1> USE NoDocument
<1>0. /\ PTyped /\ PHeld /\ PStep(r)
      /\ pPc \in [Request -> PSteps] /\ pHand \in [Request -> PHand]
      /\ pPayments \in [P!Row -> P!Payment \cup {Nothing}]
  BY PartyMoves DEF PInv, PTyped, P!TypeOK
<1>1. \A p \in P!Row : P!Exists(p) => P!Exists(p)'
  BY <1>0, PartyStays
<1>2. ASSUME NEW s \in Request, s # r
      PROVE  PHolds(s)'
  <2>1. pPc'[s] = pPc[s] /\ pHand'[s] = pHand[s]
    BY <1>0, <1>2 DEF PStep
  <2>2. PHolds(s)
    BY <1>0 DEF PHeld
  <2> QED
    BY <1>1, <2>1, <2>2 DEF PHolds, P!Exists
<1>3. ASSUME PBegins(r)
      PROVE  PHolds(r)'
  BY <1>0, <1>1, <1>3 DEF PBegins, PHolds, P!Correctable, P!Exists, PTargets, PCopies, PAmounts
<1>4. ASSUME pHand'[r] = pHand[r], pPc'[r] \in PTargets => pPc[r] \in PTargets,
             pPc'[r] \in PCopies => pPc[r] \in PCopies,
             pPc'[r] \in PAmounts => pPc[r] \in PAmounts
      PROVE  PHolds(r)'
  <2>1. PHolds(r)
    BY <1>0 DEF PHeld
  <2> QED
    BY <1>1, <1>4, <2>1 DEF PHolds, P!Exists
<1>5. ASSUME pPc'[r] \notin PTargets \cup PCopies \cup PAmounts
      PROVE  PHolds(r)'
  BY <1>5 DEF PHolds
<1>6. ASSUME PInserts(r) \/ PChanges(r) \/ PRecords(r)
      PROVE  PHolds(r)'
  BY <1>0, <1>4, <1>5, <1>6 DEF PInserts, PChanges, PChange, PRecords, PTargets, PCopies, PAmounts
<1>7. ASSUME PProjects(r) \/ PPasses(r)
      PROVE  PHolds(r)'
  BY <1>0, <1>4, <1>5, <1>7 DEF PProjects, PPasses, PTargets, PCopies, PAmounts
<1>8. PHolds(r)'
  BY <1>0, <1>3, <1>6, <1>7 DEF PStep
<1> QED
  BY <1>2, <1>8 DEF PHeld

LEMMA PartyUnwritten ==
  ASSUME PInv, NEW r \in Request, P!Step(r)
  PROVE  PUnwritten'
<1> USE NoDocument
<1>0. /\ PTyped /\ PHeld /\ PUnwritten /\ PStep(r)
      /\ pPc \in [Request -> PSteps]
      /\ pPayments \in [P!Row -> P!Payment \cup {Nothing}]
      /\ pCorrections \in [Request -> P!Correction \cup {Nothing}]
  BY PartyMoves DEF PInv, PTyped, P!TypeOK
<1>1. ASSUME NEW s \in Request, pPc'[s] \in {"new", "create", "reverse", "insert"}
      PROVE  pPayments'[s] = Nothing
  <2>1. pPc[s] \in {"new", "create", "reverse", "insert"}
    BY <1>0, <1>1 DEF PStep, PBegins, PInserts, PChanges, PChange, PRecords, PProjects, PPasses
  <2>2. pPayments[s] = Nothing /\ s \in P!Row
    BY <1>0, <2>1 DEF PUnwritten, P!Row
  <2>3. CASE PInserts(r)
    BY <1>0, <1>1, <2>2, <2>3 DEF PInserts, PStep
  <2>4. CASE PChanges(r)
    BY <1>0, <2>2, <2>4 DEF PChanges
  <2> QED
    BY <1>0, <2>2, <2>3, <2>4 DEF PStep, PBegins, PRecords, PProjects, PPasses
<1>2. ASSUME NEW s \in Request, pPc'[s] \in {"new"} \cup PCopies
      PROVE  pCorrections'[s] = Nothing
  <2>1. pPc[s] \in {"new"} \cup PCopies
    BY <1>0, <1>2 DEF PStep, PBegins, PInserts, PChanges, PChange, PRecords, PProjects, PPasses,
      PCopies
  <2>2. pCorrections[s] = Nothing
    BY <1>0, <2>1 DEF PUnwritten
  <2>3. CASE PRecords(r)
    BY <1>0, <1>2, <2>2, <2>3 DEF PRecords, PStep, PCopies
  <2> QED
    BY <1>0, <2>2, <2>3 DEF PStep, PBegins, PInserts, PChanges, PProjects, PPasses
<1> QED
  BY <1>1, <1>2 DEF PUnwritten

LEMMA PartyLinked ==
  ASSUME PInv, NEW r \in Request, P!Step(r)
  PROVE  PLinked'
<1> USE NoDocument
<1>0. /\ PTyped /\ PHeld /\ PLinked /\ PStep(r) /\ r \in P!Row
      /\ pPayments \in [P!Row -> P!Payment \cup {Nothing}]
      /\ pCorrections \in [Request -> P!Correction \cup {Nothing}]
  BY PartyMoves DEF PInv, PTyped, P!TypeOK, P!Row
<1>1. \A p \in P!Row : P!Exists(p) => P!Exists(p)'
  BY <1>0, PartyStays
<1>2. /\ \A s \in Request : pCorrections[s] # Nothing =>
           pCorrections[s].payment_id \in P!Row /\ pPayments'[pCorrections[s].payment_id] # Nothing
      /\ \A q \in P!Row : P!Exists(q) /\ pPayments[q].reversal_of # Nothing =>
           pPayments[q].reversal_of \in P!Row /\ pPayments'[pPayments[q].reversal_of] # Nothing
  <2>1. /\ \A s \in Request : pCorrections[s] # Nothing => pCorrections[s] \in P!Correction
        /\ \A q \in P!Row : P!Exists(q) => pPayments[q] \in P!Payment
    BY <1>0 DEF P!Exists
  <2>2. /\ \A s \in Request : pCorrections[s] # Nothing => pCorrections[s].payment_id \in P!Row
        /\ \A q \in P!Row : P!Exists(q) /\ pPayments[q].reversal_of # Nothing =>
             pPayments[q].reversal_of \in P!Row
    BY <2>1 DEF P!Correction, P!Payment
  <2> QED
    BY <1>0, <1>1, <2>2 DEF PLinked, P!Exists
<1>3. pPc[r] \in PTargets => pHand[r].pid \in P!Row /\ P!Exists(pHand[r].pid) /\ pPayments'[pHand[r].pid] # Nothing
  BY <1>0, <1>1 DEF PHeld, PHolds, P!Exists
<1>4. \A s \in Request : pCorrections'[s] # Nothing => pPayments'[pCorrections'[s].payment_id] # Nothing
  <2>1. CASE PRecords(r)
    BY <1>0, <1>2, <1>3, <2>1 DEF PRecords, PTargets, P!Exists
  <2> QED
    BY <1>0, <1>2, <2>1 DEF PStep, PBegins, PInserts, PChanges, PProjects, PPasses, P!Exists
<1>5. ASSUME NEW q \in P!Row, pPayments'[q] # Nothing, pPayments'[q].reversal_of # Nothing
      PROVE  pPayments'[pPayments'[q].reversal_of] # Nothing
  <2>1. CASE PInserts(r)
    BY <1>0, <1>2, <1>3, <1>5, <2>1 DEF PInserts, PTargets, P!Exists
  <2>2. CASE PChanges(r)
    BY <1>0, <1>2, <1>5, <2>2 DEF PChanges, PChange, P!Exists
  <2> QED
    BY <1>0, <1>2, <1>5, <2>1, <2>2 DEF PStep, PBegins, PRecords, PProjects, PPasses, P!Exists
<1> QED
  BY <1>4, <1>5 DEF PLinked, P!Exists

LEMMA PartyLedger ==
  ASSUME PInv, NEW r \in Request, P!Step(r)
  PROVE  PLedger'
<1> USE NoDocument
<1>0. /\ PTyped /\ PHeld /\ PLedger /\ PStep(r) /\ r \in P!Row
      /\ pPc \in [Request -> PSteps] /\ pHand \in [Request -> PHand]
      /\ pPayments \in [P!Row -> P!Payment \cup {Nothing}]
      /\ pLegs \in [P!Row -> Amount \cup {Nothing}]
  BY PartyMoves DEF PInv, PTyped, P!TypeOK, P!Row
<1>1. SUFFICES ASSUME "death" \notin pMarred', NEW p \in P!Row,
                      \A s \in Request : ~POwes(s, p)'
               PROVE  pLegs'[p] = P!View(p)'
  BY DEF PLedger
<1>2. "death" \notin pMarred
  BY <1>0, <1>1 DEF PStep, PBegins, PInserts, PChanges, PRecords, PProjects, PPasses
<1>3. \A s \in Request : s # r => ~POwes(s, p)
  BY <1>0, <1>1 DEF PStep, POwes
<1>4. ASSUME ~POwes(r, p), pLegs' = pLegs, pPayments'[p] = pPayments[p]
      PROVE  pLegs'[p] = P!View(p)'
  BY <1>0, <1>2, <1>3, <1>4 DEF PLedger, P!View, P!Correctable, P!Exists
<1>5. CASE PBegins(r)
  BY <1>4, <1>5 DEF PBegins, POwes
<1>6. CASE PInserts(r)
  <2>1. p # r /\ ~POwes(r, p)
    BY <1>1, <1>6 DEF PInserts, POwes
  <2> QED
    BY <1>0, <1>4, <1>6, <2>1 DEF PInserts
<1>7. CASE PChanges(r)
  <2>1. p # pHand[r].pid
    BY <1>1, <1>7 DEF PChanges, PChange, POwes
  <2>2. ~POwes(r, p)
    BY <1>7, <2>1 DEF PChanges, PChange, POwes
  <2> QED
    BY <1>0, <1>4, <1>7, <2>1, <2>2 DEF PChanges
<1>8. CASE PRecords(r)
  BY <1>1, <1>4, <1>8 DEF PRecords, POwes
<1>9. CASE PProjects(r)
  <2>1. PICK q \in P!Row :
          /\ pLegs' = [pLegs EXCEPT ![q] = P!View(q)]
          /\ <<pPc[r], pPc'[r], q>> \in
               {<<"create_hook", "done", r>>, <<"hook", "done", pHand[r].pid>>,
                <<"hook_both", "hook_fresh", pHand[r].pid>>, <<"hook_fresh", "done", r>>}
    BY <1>9 DEF PProjects
  <2>2. P!View(p)' = P!View(p) /\ pPayments' = pPayments
    BY <1>9 DEF PProjects, P!View, P!Correctable, P!Exists
  <2>3. CASE q = p
    BY <1>0, <2>1, <2>2, <2>3
  <2>4. CASE q # p
    <3>1. ~POwes(r, p)
      BY <1>1, <2>1, <2>4 DEF POwes
    <3>2. pLegs[p] = P!View(p)
      BY <1>0, <1>2, <1>3, <3>1 DEF PLedger
    <3> QED
      BY <1>0, <2>1, <2>2, <2>4, <3>2
  <2> QED
    BY <2>3, <2>4
<1>10. CASE PPasses(r)
  BY <1>1, <1>4, <1>10 DEF PPasses, POwes
<1> QED
  BY <1>0, <1>5, <1>6, <1>7, <1>8, <1>9, <1>10 DEF PStep

LEMMA PartyFrozen ==
  ASSUME PInv, NEW r \in Request, P!Step(r)
  PROVE  P!Frozen({"supplier"})
<1> USE NoDocument
<1>0. PTyped /\ PStep(r) /\ pPayments \in [P!Row -> P!Payment \cup {Nothing}]
  BY PartyMoves DEF PInv, PTyped, P!TypeOK
<1>1. SUFFICES ASSUME NEW p \in P!Row, pParty = "supplier", pPayments[p] # Nothing,
                      pPayments[p].is_reversed
               PROVE  pPayments'[p].is_reversed
  BY DEF P!Frozen, P!Exists
<1>2. CASE PInserts(r)
  BY <1>0, <1>1, <1>2 DEF PInserts
<1>3. CASE PChanges(r)
  BY <1>0, <1>1, <1>3 DEF PChanges, PChange
<1> QED
  BY <1>0, <1>1, <1>2, <1>3 DEF PStep, PBegins, PRecords, PProjects, PPasses

(* A request that neither overlaps another nor dies finds the desk empty.  *)
LEMMA PartyAlone ==
  ASSUME PTyped, PSerial, NEW r \in Request, PStep(r), pMarred' = {}
  PROVE  /\ pMarred = {}
         /\ \A s \in Request : s # r => pPc[s] \in {"new", "done"} /\ pPc'[s] = pPc[s]
<1>1. pMarred = {}
  BY DEF PStep, PBegins, PInserts, PChanges, PRecords, PProjects, PPasses
<1>2. \A s \in Request : s # r => pPc[s] \in {"new", "done"}
  <2>1. CASE PBegins(r)
    BY <1>1, <2>1 DEF PBegins, P!Quiet, P!Busy, P!Idle
  <2>2. CASE ~PBegins(r)
    <3>1. r \in P!Busy
      BY <2>2 DEF PStep, PInserts, PChanges, PChange, PRecords, PProjects, PPasses,
        P!Busy, P!Idle
    <3> QED
      BY <1>1, <3>1 DEF PSerial, P!Busy, P!Idle
  <2> QED
    BY <2>1, <2>2
<1> QED
  BY <1>1, <1>2 DEF PStep, PTyped

LEMMA PartySerial ==
  ASSUME PInv, NEW r \in Request, P!Step(r)
  PROVE  PSerial'
<1> USE NoDocument
<1>0. /\ PTyped /\ PHeld /\ PSerial /\ PStep(r) /\ r \in P!Row
      /\ pPc \in [Request -> PSteps] /\ pHand \in [Request -> PHand]
      /\ pPayments \in [P!Row -> P!Payment \cup {Nothing}]
  BY PartyMoves DEF PInv, PTyped, P!TypeOK, P!Row
<1>1. SUFFICES ASSUME pMarred' = {}
      PROVE  /\ \A s, t \in P!Busy' : s = t
             /\ \A s \in Request :
                  LET doc == pPayments'[pHand'[s].pid] IN
                  /\ pPc'[s] \in {"attr_bill", "attr_write", "reverse"} => pHand'[s].doc = doc
                  /\ pPc'[s] = "attr_record" =>
                       doc.correction_count = pHand'[s].doc.correction_count + 1
                  /\ pPc'[s] \in {"attr_record", "insert", "record"} =>
                       doc.correction_count > 0 /\ doc.latest_correction_id = s
                  /\ pPc'[s] \in {"insert", "record"} => doc.is_reversed
  BY DEF PSerial
<1>2. pMarred = {}
  BY <1>0, <1>1, PartyAlone
<1>4. \A s \in Request : s # r => pPc'[s] \in {"new", "done"}
  BY <1>0, <1>1, PartyAlone
<1>5. \A s, t \in P!Busy' : s = t
  BY <1>4 DEF P!Busy, P!Idle
<1> DEFINE old == pPayments[pHand[r].pid]
           doc == pPayments'[pHand'[r].pid]
<1>6. /\ pPc[r] \in {"attr_bill", "attr_write", "reverse"} => pHand[r].doc = old
      /\ pPc[r] = "attr_record" => old.correction_count = pHand[r].doc.correction_count + 1
      /\ pPc[r] \in {"attr_record", "insert", "record"} =>
           old.correction_count > 0 /\ old.latest_correction_id = r
      /\ pPc[r] \in {"insert", "record"} => old.is_reversed
  BY <1>0, <1>2 DEF PSerial
<1> DEFINE Goal == /\ pPc'[r] \in {"attr_bill", "attr_write", "reverse"} => pHand'[r].doc = doc
                   /\ pPc'[r] = "attr_record" =>
                        doc.correction_count = pHand'[r].doc.correction_count + 1
                   /\ pPc'[r] \in {"attr_record", "insert", "record"} =>
                        doc.correction_count > 0 /\ doc.latest_correction_id = r
                   /\ pPc'[r] \in {"insert", "record"} => doc.is_reversed
<1>7. ASSUME PBegins(r)
      PROVE  Goal
  BY <1>7 DEF PBegins, PCopies
<1>8. ASSUME PInserts(r)
      PROVE  Goal
  <2>1. CASE pPc[r] = "insert"
    <3>1. pHand[r].pid \in P!Row /\ P!Exists(pHand[r].pid) /\ pPayments[r] = Nothing
      BY <1>0, <1>8, <2>1 DEF PHeld, PHolds, PTargets, PInserts
    <3>2. doc = old /\ pPc'[r] = "record"
      BY <1>0, <1>8, <2>1, <3>1 DEF PInserts, P!Exists
    <3> QED
      BY <1>6, <2>1, <3>2
  <2> QED
    BY <1>8, <2>1 DEF PInserts
<1>9. ASSUME PChanges(r)
      PROVE  Goal
  <2>1. doc \in P!Payment /\ PChange(r, old, doc) /\ pHand' = pHand /\ old \in P!Payment
    BY <1>0, <1>9 DEF PChanges
  <2>2. /\ old.correction_count \in Nat
        /\ pPc[r] = "attr_write" => pHand[r].doc.correction_count \in Nat
    BY <1>6, <2>1 DEF P!Payment
  <2> HIDE DEF doc, old
  <2> QED
    BY <1>6, <2>1, <2>2 DEF PChange
<1>10. ASSUME PRecords(r)
       PROVE  Goal
  BY <1>10 DEF PRecords
<1>11. ASSUME PProjects(r)
       PROVE  Goal
  BY <1>11 DEF PProjects
<1>12. ASSUME PPasses(r)
       PROVE  Goal
  BY <1>6, <1>12 DEF PPasses
<1>13. Goal
  BY <1>0, <1>7, <1>8, <1>9, <1>10, <1>11, <1>12 DEF PStep
<1> QED
  BY <1>4, <1>5, <1>13

LEMMA PartyTrail ==
  ASSUME PInv, NEW r \in Request, P!Step(r)
  PROVE  PTrail'
<1> USE NoDocument
<1>0. /\ PTyped /\ PHeld /\ PUnwritten /\ PLinked /\ PSerial /\ PTrail /\ PStep(r) /\ r \in P!Row
      /\ pPc \in [Request -> PSteps] /\ pHand \in [Request -> PHand]
      /\ pPayments \in [P!Row -> P!Payment \cup {Nothing}]
      /\ pCorrections \in [Request -> P!Correction \cup {Nothing}]
  BY PartyMoves DEF PInv, PTyped, P!TypeOK, P!Row
<1>1. SUFFICES ASSUME pMarred' = {}, pParty' = "supplier", NEW p \in P!Row, P!Exists(p)'
               PROVE  PTrailOf(p)'
  BY DEF PTrail
<1>2. /\ pMarred = {} /\ pParty = "supplier"
      /\ \A s \in Request : s # r => pPc[s] \in {"new", "done"} /\ pPc'[s] = pPc[s]
  BY <1>0, <1>1, PartyAlone DEF PStep, PBegins, PInserts, PChanges, PRecords, PProjects, PPasses
<1>3. /\ (\E s \in Request : PUnrecorded(s, p)) <=> PUnrecorded(r, p)
      /\ (\E s \in Request : PUnreplaced(s, p)) <=> PUnreplaced(r, p)
      /\ (\E s \in Request : PUnrecorded(s, p)') <=> PUnrecorded(r, p)'
      /\ (\E s \in Request : PUnreplaced(s, p)') <=> PUnreplaced(r, p)'
  BY <1>2 DEF PUnrecorded, PUnreplaced
<1>4. P!Exists(p) => PTrailOf(p) /\ pPayments[p] \in P!Payment
  BY <1>0, <1>2 DEF PTrail, P!Exists
<1>5. ASSUME NEW n, PNumbered(p, n), P!Trail(p)' = P!Trail(p),
             \A s \in Request : pCorrections[s] # Nothing => pCorrections'[s] = pCorrections[s]
      PROVE  PNumbered(p, n)'
  BY ZenonT(40), <1>5 DEF PNumbered, P!Trail
(* Nothing has happened to p.                                              *)
<1>6. ASSUME P!Exists(p), pPayments'[p] = pPayments[p], P!Trail(p)' = P!Trail(p),
             \A s \in Request : pCorrections[s] # Nothing => pCorrections'[s] = pCorrections[s],
             P!Replacements(p)' = P!Replacements(p),
             PUnrecorded(r, p)' <=> PUnrecorded(r, p), PUnreplaced(r, p)' <=> PUnreplaced(r, p)
      PROVE  PTrailOf(p)'
  BY <1>3, <1>4, <1>5, <1>6 DEF PTrailOf
<1>7. ASSUME UNCHANGED <<pPayments, pCorrections>>,
             PUnrecorded(r, p)' <=> PUnrecorded(r, p), PUnreplaced(r, p)' <=> PUnreplaced(r, p)
      PROVE  PTrailOf(p)'
  <2>1. P!Exists(p) /\ P!Trail(p)' = P!Trail(p) /\ P!Replacements(p)' = P!Replacements(p)
    BY <1>1, <1>7 DEF P!Exists, P!Trail, P!Replacements
  <2> QED
    BY <1>6, <1>7, <2>1
<1>8. CASE PBegins(r)
  <2>1. /\ ~PUnrecorded(r, p) /\ ~PUnrecorded(r, p)' /\ ~PUnreplaced(r, p) /\ ~PUnreplaced(r, p)'
        /\ UNCHANGED <<pPayments, pCorrections>>
    BY <1>8 DEF PBegins, PUnrecorded, PUnreplaced
  <2> QED
    BY <1>7, <2>1
<1>9. CASE PProjects(r) \/ PPasses(r)
  <2>1. /\ ~PUnrecorded(r, p) /\ ~PUnrecorded(r, p)' /\ ~PUnreplaced(r, p) /\ ~PUnreplaced(r, p)'
        /\ UNCHANGED <<pPayments, pCorrections>>
    BY <1>1, <1>9 DEF PProjects, PPasses, PUnrecorded, PUnreplaced
  <2> QED
    BY <1>7, <2>1
<1>10. CASE PInserts(r)
  <2>1. PICK d \in P!Payment :
          /\ pPayments' = [pPayments EXCEPT ![r] = d]
          /\ ~d.is_reversed /\ d.correction_count = 0
          /\ \/ pPc[r] = "create" /\ pPc'[r] = "create_hook" /\ d.reversal_of = Nothing
             \/ pPc[r] = "insert" /\ pPc'[r] = "record" /\ d.reversal_of = pHand[r].pid
    BY <1>10 DEF PInserts
  <2>2. /\ pPayments[r] = Nothing /\ UNCHANGED <<pCorrections, pHand>>
        /\ pPc[r] = "insert" => pHand[r].pid \in P!Row /\ P!Exists(pHand[r].pid)
    BY <1>0, <1>10 DEF PInserts, PHeld, PHolds, PTargets
  <2>3. P!Trail(p)' = P!Trail(p)
    BY <2>2 DEF P!Trail
  <2>4. CASE p = r
    <3>1. P!Trail(p)' = {}
      BY <1>0, <2>2, <2>3, <2>4 DEF P!Trail, PLinked, P!Exists
    <3>2. P!Replacements(p)' = {}
      BY <1>0, <2>1, <2>2, <2>4 DEF P!Replacements, PLinked, P!Exists
    <3>3. ~PUnrecorded(r, p)'
      BY <2>1, <2>2, <2>4 DEF PUnrecorded, P!Exists
    <3>4. PNumbered(p, 0)'
      BY <3>1, FS_EmptySet DEF PNumbered
    <3>5. pPayments'[p].correction_count = 0 /\ ~pPayments'[p].is_reversed
      BY <1>0, <2>1, <2>4
    <3> QED
      BY <1>3, <3>2, <3>3, <3>4, <3>5 DEF PTrailOf
  <2>5. CASE p # r
    <3>1. P!Exists(p) /\ pPayments'[p] = pPayments[p]
      BY <1>0, <1>1, <2>1, <2>5 DEF P!Exists
    <3>2. CASE d.reversal_of = p
      <4>1. pPc[r] = "insert" /\ pPc'[r] = "record" /\ pHand[r].pid = p
        BY <2>1, <3>2 DEF P!Row
      <4>2. /\ PUnrecorded(r, p) /\ PUnrecorded(r, p)' /\ PUnreplaced(r, p) /\ ~PUnreplaced(r, p)'
        BY <2>2, <4>1 DEF PUnrecorded, PUnreplaced
      <4>3. P!Replacements(p) = {} /\ pPayments[p].is_reversed
        BY <1>0, <1>2, <1>3, <1>4, <3>1, <4>1, <4>2 DEF PTrailOf, PSerial
      <4>4. P!Replacements(p)' = {r}
        BY <1>0, <2>1, <3>2, <4>3 DEF P!Replacements, P!Exists
      <4>5. PICK n : n = pPayments[p].correction_count
        OBVIOUS
      <4>6. PNumbered(p, n - 1)
        BY <1>3, <1>4, <3>1, <4>2, <4>5 DEF PTrailOf
      <4>7. PNumbered(p, n - 1)'
        BY <1>5, <2>2, <2>3, <4>6
      <4> QED
        BY <1>0, <1>3, <3>1, <4>2, <4>3, <4>4, <4>5, <4>7 DEF PTrailOf
    <3>3. CASE d.reversal_of # p
      <4>1. P!Replacements(p)' = P!Replacements(p)
        BY <1>0, <2>1, <2>2, <3>3 DEF P!Replacements, P!Exists
      <4>2. /\ PUnrecorded(r, p)' <=> PUnrecorded(r, p)
            /\ PUnreplaced(r, p)' <=> PUnreplaced(r, p)
        BY <2>1, <2>2, <3>3 DEF PUnrecorded, PUnreplaced
      <4> QED
        BY <1>6, <2>2, <2>3, <3>1, <4>1, <4>2
    <3> QED
      BY <3>2, <3>3
  <2> QED
    BY <2>4, <2>5
<1>11. CASE PChanges(r)
  <2> DEFINE old == pPayments[pHand[r].pid]
  <2>1. PICK d \in P!Payment :
          pPayments' = [pPayments EXCEPT ![pHand[r].pid] = d] /\ PChange(r, old, d)
    BY <1>11 DEF PChanges
  <2>2. /\ pHand[r].pid \in P!Row /\ old \in P!Payment /\ UNCHANGED <<pCorrections, pHand>>
        /\ d.reversal_of = old.reversal_of /\ old # Nothing
    BY <1>2, <1>11, <2>1 DEF PChanges, PChange
  <2>3. P!Trail(p)' = P!Trail(p)
    BY <2>2 DEF P!Trail
  <2>4. P!Replacements(p)' = P!Replacements(p)
    BY <1>0, <2>1, <2>2 DEF P!Replacements, P!Exists
  <2>5. P!Exists(p)
    BY <1>0, <1>1, <2>1, <2>2 DEF P!Exists
  <2>6. CASE p # pHand[r].pid
    <3>1. pPayments'[p] = pPayments[p]
      BY <1>0, <2>1, <2>6
    <3>2. /\ ~PUnrecorded(r, p) /\ ~PUnrecorded(r, p)' /\ ~PUnreplaced(r, p) /\ ~PUnreplaced(r, p)'
      BY <2>2, <2>6 DEF PUnrecorded, PUnreplaced
    <3> QED
      BY <1>6, <2>2, <2>3, <2>4, <2>5, <3>1, <3>2
  <2>7. CASE p = pHand[r].pid
    <3>1. old = pPayments[p] /\ d = pPayments'[p]
      BY <1>0, <2>1, <2>7
    <3>2. PICK n \in Nat : n = old.correction_count
      BY <2>2 DEF P!Payment
    <3>l. PICK l : l = old.latest_correction_id
      OBVIOUS
    <3>3. ~PUnrecorded(r, p) /\ ~PUnreplaced(r, p)
      BY <2>1 DEF PChange, PUnrecorded, PUnreplaced
    <3>4. /\ PNumbered(p, n)
          /\ n > 0 => l \in Request /\ pCorrections[l] # Nothing /\ pCorrections[l].correction_index = n
          /\ IF old.is_reversed THEN \E q \in P!Row : P!Replacements(p) = {q}
                                ELSE P!Replacements(p) = {}
      BY <1>3, <1>4, <2>5, <3>1, <3>2, <3>3, <3>l DEF PTrailOf
    <3>5. PNumbered(p, n)'
      BY <1>5, <2>2, <2>3, <3>4
    <3>6. CASE pPc[r] \in {"delete", "edit"}
      <4>1. /\ ~PUnrecorded(r, p)' /\ ~PUnreplaced(r, p)'
            /\ d.correction_count = n /\ d.latest_correction_id = l
            /\ d.is_reversed = old.is_reversed
        BY <1>2, <2>1, <3>2, <3>6, <3>l DEF PChange, PUnrecorded, PUnreplaced
      <4> QED
        BY <1>3, <2>2, <2>4, <3>1, <3>4, <3>5, <4>1 DEF PTrailOf
    <3>7. CASE pPc[r] = "attr_write"
      <4>1. PUnrecorded(r, p)' /\ ~PUnreplaced(r, p)'
        BY <2>1, <2>2, <2>7, <3>7 DEF PChange, PUnrecorded, PUnreplaced
      <4>2. d.correction_count = n + 1 /\ d.is_reversed = old.is_reversed
        BY <1>0, <1>2, <2>1, <3>2, <3>7 DEF PChange, PSerial
      <4>3. (n + 1) - 1 = n
        BY <3>2
      <4> QED
        BY <1>3, <2>4, <3>1, <3>4, <3>5, <4>1, <4>2, <4>3 DEF PTrailOf
    <3>8. CASE pPc[r] = "reverse"
      <4>1. PUnrecorded(r, p)' /\ PUnreplaced(r, p)'
        BY <2>1, <2>2, <2>7, <3>8 DEF PChange, PUnrecorded, PUnreplaced
      <4>2. d.correction_count = n + 1
        BY <2>1, <3>2, <3>8 DEF PChange
      <4>3. ~old.is_reversed
        BY <1>0, <1>2, <3>8 DEF PSerial, PHeld, PHolds, PCopies
      <4>4. (n + 1) - 1 = n
        BY <3>2
      <4> QED
        BY <1>3, <2>4, <3>1, <3>4, <3>5, <4>1, <4>2, <4>3, <4>4 DEF PTrailOf
    <3> QED
      BY <2>1, <3>6, <3>7, <3>8 DEF PChange
  <2> QED
    BY <2>6, <2>7
<1>12. CASE PRecords(r)
  <2>1. PICK c \in P!Correction :
          /\ pCorrections' = [pCorrections EXCEPT ![r] = c]
          /\ c.payment_id = pHand[r].pid
          /\ \/ /\ pPc[r] = "attr_record" /\ pPc'[r] = "hook"
                /\ c.correction_index = pHand[r].doc.correction_count + 1
             \/ /\ pPc[r] = "record" /\ pPc'[r] = "hook_both"
                /\ LET n == pPayments[pHand[r].pid].correction_count
                   IN  c.correction_index = IF n = 0 THEN 1 ELSE n
    BY <1>12 DEF PRecords
  <2>2. pCorrections[r] = Nothing /\ UNCHANGED <<pPayments, pHand>>
    BY <1>12 DEF PRecords
  <2>3. P!Exists(p) /\ pPayments'[p] = pPayments[p] /\ P!Replacements(p)' = P!Replacements(p)
    BY <1>1, <2>2 DEF P!Exists, P!Replacements
  <2>4. \A s \in Request : pCorrections[s] # Nothing => pCorrections'[s] = pCorrections[s]
    BY <1>0, <2>1, <2>2
  <2>5. ~PUnrecorded(r, p)' /\ ~PUnreplaced(r, p) /\ ~PUnreplaced(r, p)'
    BY <2>1 DEF PUnrecorded, PUnreplaced
  <2>6. CASE p # pHand[r].pid
    <3>1. P!Trail(p)' = P!Trail(p) /\ ~PUnrecorded(r, p)
      BY <1>0, <2>1, <2>2, <2>6 DEF P!Trail, PUnrecorded
    <3> QED
      BY <1>6, <2>3, <2>4, <2>5, <3>1
  <2>7. CASE p = pHand[r].pid
    <3>1. PICK n \in Nat : n = pPayments[p].correction_count
      BY <1>4, <2>3 DEF P!Payment
    <3>2. n > 0 /\ pPayments[p].latest_correction_id = r /\ c.correction_index = n
      BY <1>0, <1>2, <2>1, <2>7, <3>1 DEF PSerial
    <3>3. PUnrecorded(r, p)
      BY <2>1, <2>7 DEF PUnrecorded
    <3>4. PNumbered(p, n - 1)
      BY <1>3, <1>4, <2>3, <3>1, <3>3 DEF PTrailOf
    <3>5. /\ P!Trail(p)' = P!Trail(p) \cup {r} /\ r \notin P!Trail(p)
          /\ pCorrections'[r] = c
          /\ \A s \in P!Trail(p) : pCorrections'[s] = pCorrections[s]
      BY <1>0, <2>1, <2>2, <2>7 DEF P!Trail
    <3>6. IsFiniteSet(P!Trail(p)') /\ Cardinality(P!Trail(p)') = n
      <4>1. IsFiniteSet(P!Trail(p)) /\ Cardinality(P!Trail(p)) = n - 1
        BY <3>4 DEF PNumbered
      <4>2. /\ IsFiniteSet(P!Trail(p) \cup {r})
            /\ Cardinality(P!Trail(p) \cup {r}) = Cardinality(P!Trail(p)) + 1
        BY <3>5, <4>1, FS_AddElement
      <4> QED
        BY <3>1, <3>5, <4>1, <4>2
    <3>7. {pCorrections'[s].correction_index : s \in P!Trail(p)'} = 1..n
      <4>1. {pCorrections'[s].correction_index : s \in P!Trail(p)'}
              = {pCorrections[s].correction_index : s \in P!Trail(p)} \cup {n}
        BY <3>2, <3>5
      <4>2. 1..n = (1..(n - 1)) \cup {n}
        BY <3>1, <3>2
      <4> QED
        BY <3>4, <4>1, <4>2 DEF PNumbered
    <3>8. PNumbered(p, n)'
      BY <3>6, <3>7 DEF PNumbered
    <3>9. /\ P!Replacements(p)' = P!Replacements(p)
          /\ IF pPayments[p].is_reversed THEN \E q \in P!Row : P!Replacements(p) = {q}
                                         ELSE P!Replacements(p) = {}
      BY <1>3, <1>4, <2>3, <2>5 DEF PTrailOf
    <3>10. pCorrections'[r] # Nothing /\ pCorrections'[r].correction_index = n
      BY <3>2, <3>5
    <3> QED
      BY <1>3, <2>3, <2>5, <3>1, <3>2, <3>8, <3>9, <3>10 DEF PTrailOf
  <2> QED
    BY <2>6, <2>7
<1> QED
  BY <1>0, <1>8, <1>9, <1>10, <1>11, <1>12 DEF PStep

(* An instance has its own copy of a standard module.                      *)
LEMMA OneCardinality ==
  ASSUME NEW S
  PROVE  P!Cardinality(S) = Cardinality(S) /\ D!Cardinality(S) = Cardinality(S)
BY DEF Cardinality, P!Cardinality, D!Cardinality

(* Between requests nothing is owed, unrecorded or unreplaced.             *)
LEMMA PartyMeans ==
  ASSUME PInv
  PROVE  P!TrailMatches /\ P!LedgerFollows
<1>1. P!LedgerFollows
  BY DEF PInv, PLedger, POwes, P!LedgerFollows, P!Quiet, P!Busy, P!Idle
<1>2. ASSUME P!Quiet, pMarred = {}, pParty = "supplier", NEW p \in P!Row, P!Exists(p)
      PROVE  P!Told(p)
  <2>1. PTrailOf(p)
    BY <1>2 DEF PInv, PTrail
  <2>2. ~(\E r \in Request : PUnrecorded(r, p)) /\ ~(\E r \in Request : PUnreplaced(r, p))
    BY <1>2 DEF PUnrecorded, PUnreplaced, P!Quiet, P!Busy, P!Idle
  <2>3. Cardinality(P!Replacements(p)) = IF pPayments[p].is_reversed THEN 1 ELSE 0
    BY <2>1, <2>2, FS_EmptySet, FS_Singleton DEF PTrailOf
  <2> QED
    <3>1. PICK n : n = pPayments[p].correction_count /\ PNumbered(p, n)
      BY <2>1, <2>2 DEF PTrailOf
    <3>2. pPayments[p].correction_count > 0 =>
            pCorrections[pPayments[p].latest_correction_id].correction_index
              = pPayments[p].correction_count
      BY <2>1, <2>2, <3>1 DEF PTrailOf
    <3>3. /\ {pCorrections[r].correction_index : r \in P!Trail(p)}
               = 1..pPayments[p].correction_count
          /\ Cardinality(P!Trail(p)) = pPayments[p].correction_count
      BY <3>1 DEF PNumbered
    <3> QED
      BY <2>3, <3>2, <3>3, OneCardinality DEF P!Told
<1>3. P!TrailMatches
  BY <1>2 DEF P!TrailMatches
<1> QED
  BY <1>1, <1>3

LEMMA PartyStep ==
  ASSUME desk = "party" => PInv, [Next]_vars
  PROVE  /\ (desk = "party" => PInv)'
         /\ UNCHANGED vars \/ (desk = "party" => P!Frozen({"supplier"}))
<1>1. CASE PartyDesk
  <2>1. PICK r \in Request : P!Step(r)
    BY <1>1 DEF PartyDesk, P!Next
  <2>2. PInv
    BY <1>1 DEF PartyDesk
  <2>3. /\ PTyped' /\ PHeld' /\ PUnwritten' /\ PLinked' /\ PLedger' /\ PSerial' /\ PTrail'
        /\ P!Frozen({"supplier"})
    BY <2>1, <2>2, PartyTyped, PartyHeld, PartyUnwritten, PartyLinked, PartyLedger, PartySerial,
       PartyTrail, PartyFrozen
  <2> QED
    BY <1>1, <2>3 DEF PInv
<1>2. CASE desk # "party" /\ Next
  BY <1>2 DEF Next, DriverDesk, PartyDesk, WalletDesk, LinksDesk, ImportsDesk,
    MastersDesk
<1>3. CASE UNCHANGED vars
  <2>1. UNCHANGED <<pParty, pBill, pPayments, pCorrections, pLegs, pPc, pHand, pMarred, desk>>
    BY <1>3 DEF vars, pVars
  <2>2. /\ PTyped' <=> PTyped
        /\ PHeld' <=> PHeld
        /\ PUnwritten' <=> PUnwritten
        /\ PLinked' <=> PLinked
        /\ PLedger' <=> PLedger
        /\ PSerial' <=> PSerial
    BY <2>1 DEF PTyped, PHeld, PHolds, PUnwritten, PLinked, PLedger, POwes, PSerial,
      P!TypeOK, P!Exists, P!Correctable, P!View, P!Busy
  <2>3. PTrail' <=> PTrail
    BY <2>1 DEF PTrail, PTrailOf, PNumbered, PUnrecorded, PUnreplaced, P!Exists, P!Trail,
      P!Replacements
  <2> QED
    BY <1>3, <2>1, <2>2, <2>3 DEF PInv
<1>4. CASE desk = "party" /\ Next
  BY <1>1, <1>4 DEF Next, DriverDesk, PartyDesk, WalletDesk, LinksDesk, ImportsDesk,
    MastersDesk, Kinds
<1> QED
  BY <1>2, <1>3, <1>4

-----------------------------------------------------------------------------
(* Payments to drivers.                                                    *)

(* The steps at which a request corrects a payment that it has found.      *)
DHolding ==
  {"attr_audit", "attr_write", "insert", "project", "audit", "flip", "reproject", "undo"}
DSteps == {"new", "create", "create_hook", "done"} \cup DHolding

DHand == [pid : D!Row \cup {Nothing}, doc : D!Payment \cup {Nothing},
          amount : Amount \cup {Nothing}]

DTyped ==
  /\ D!TypeOK
  /\ dPc \in [Request -> DSteps]
  /\ dHand \in [Request -> DHand]
  /\ dUndo \in [Request -> SUBSET D!Undoing.reproject]

(* A request corrects another payment than the one it inserts.             *)
DHolds(r) ==
  /\ dPc[r] \in DHolding =>
       dHand[r].pid \in D!Row /\ dHand[r].pid # r /\ dHand[r].doc \in D!Payment
  /\ dPc[r] \in {"create", "insert"} => dHand[r].amount \in Amount
  /\ dPc[r] \in {"create", "create_hook"} => dHand[r].pid = Nothing

DHeld == \A r \in Request : DHolds(r)

(* A request inserts its payment and its audit row once, and not before it *)
(* has come that far.                                                      *)
DUnwritten ==
  \A r \in Request :
    /\ dPc[r] \in {"new", "create", "insert", "attr_audit", "attr_write"} =>
         dPayments[r] = Nothing
    /\ dPc[r] \in {"new", "create", "create_hook", "insert", "project", "audit", "attr_audit"} =>
         dAudits[r] = Nothing

(* As long as no step raises and nobody dies, nothing is undone: what a    *)
(* correction has inserted is there, and so for each reversed payment.     *)
DKept ==
  dMarred \subseteq {"overlap"} =>
    \A r \in Request :
      /\ dPc[r] # "undo"
      /\ dPc[r] \in {"project", "audit", "flip", "reproject"} =>
           D!Exists(r) /\ dPayments[r].reversal_of = dHand[r].pid
      /\ dPc[r] \in {"flip", "reproject"} =>
           /\ dAudits[r] # Nothing /\ dAudits[r].payment_id = dHand[r].pid
           /\ dAudits[r].kind = "amount_reversal_new"

(* What a request has done so far, and what it has not undone.             *)
DHasFresh(r) ==
  dPc[r] \in {"project", "audit", "flip", "reproject"} \/ (dPc[r] = "undo" /\ "fresh" \in dUndo[r])
DHasAudit(r) ==
  dPc[r] \in {"attr_write", "flip", "reproject"} \/ (dPc[r] = "undo" /\ "audit" \in dUndo[r])
DHasFlipped(r) == dPc[r] = "reproject" \/ (dPc[r] = "undo" /\ "original" \in dUndo[r])
DIsStale(r) == dPc[r] = "reproject" \/ (dPc[r] = "undo" /\ "original_legs" \in dUndo[r])

DShown(p) == dLegs[p] = D!View(p) \/ p \in dOwed

(* The audit rows of S are numbered up to n.                               *)
DNumbered(S, n) ==
  /\ IsFiniteSet(S)
  /\ {dAudits[s].correction_index : s \in S} = 1..n
  /\ Cardinality(S) = n

(* A request that corrects payment p: whatever it has done, without it p   *)
(* is not reversed and has the corrections that the copy counts ...        *)
DBase(r, p, doc) ==
  /\ p \in D!Row /\ p # r /\ ~doc.is_reversed /\ doc.correction_count \in Nat
  /\ D!Exists(p)
  /\ D!Replacements(p) \ {r} = {}
  /\ \A s \in D!Trail(p) \ {r} : dAudits[s].kind = "attribute"
  /\ DNumbered(D!Trail(p) \ {r}, doc.correction_count)

(* ... and this is what it has done.                                       *)
DDone(r, p, doc) ==
  /\ IF DHasFlipped(r)
     THEN /\ dPayments[p].is_reversed /\ DIsStale(r)
          /\ dPayments[p].correction_count = doc.correction_count + 1
          /\ dPayments[p].latest_correction_id = r
     ELSE /\ ~dPayments[p].is_reversed
          /\ dPayments[p].correction_count = doc.correction_count
  /\ DIsStale(r) \/ DShown(p)
  /\ IF DHasFresh(r)
     THEN /\ D!Exists(r) /\ dPayments[r].reversal_of = p
          /\ ~dPayments[r].is_reversed /\ dPayments[r].correction_count = 0
     ELSE dPayments[r] = Nothing
  /\ dPc[r] \in {"audit", "flip", "reproject"} => DShown(r)
  /\ IF DHasAudit(r)
     THEN /\ dAudits[r] # Nothing /\ dAudits[r].payment_id = p
          /\ dAudits[r].correction_index = doc.correction_count + 1
          /\ dAudits[r].kind = IF dPc[r] = "attr_write" THEN "attribute" ELSE "amount_reversal_new"
     ELSE dAudits[r] = Nothing

DMidway(r) ==
  \E p \in {dHand[r].pid}, doc \in {dHand[r].doc} : DBase(r, p, doc) /\ DDone(r, p, doc)

(* A payment as it is when nobody is at work on it.                        *)
DWhole(p) ==
  \E n \in {dPayments[p].correction_count} :
    /\ IF dPayments[p].is_reversed
       THEN \E r \in D!Trail(p) :
              /\ D!Replacements(p) = {r}
              /\ dPayments[p].latest_correction_id = r
              /\ dAudits[r].kind = "amount_reversal_new"
       ELSE /\ D!Replacements(p) = {}
            /\ \A r \in D!Trail(p) : dAudits[r].kind = "attribute"
    /\ DNumbered(D!Trail(p), n)
    /\ DShown(p)

(* As long as requests do not overlap, none dies and no undoing call       *)
(* fails: one is at work, and only what it is at work on is not whole.     *)
DSerial ==
  dMarred \subseteq {"step"} =>
    /\ \A r, s \in D!Busy : r = s
    /\ \A r \in Request : dAudits[r] # Nothing => D!Exists(dAudits[r].payment_id)
    /\ \A q \in D!Row : D!Exists(q) /\ dPayments[q].reversal_of # Nothing =>
         D!Exists(dPayments[q].reversal_of)
    /\ \A p \in D!Row :
         D!Exists(p) /\ (\A r \in D!Busy : p # r /\ p # dHand[r].pid) => DWhole(p)
    /\ \A r \in D!Busy : D!Trail(r) = {} /\ D!Replacements(r) = {}
    /\ \A r \in Request :
         /\ dPc[r] \in DHolding => DMidway(r)
         /\ dPc[r] = "create_hook" =>
              /\ D!Exists(r) /\ dPayments[r].reversal_of = Nothing
              /\ ~dPayments[r].is_reversed /\ dPayments[r].correction_count = 0

DInv == DTyped /\ DHeld /\ DUnwritten /\ DKept /\ D!NeverLost /\ DSerial

LEMMA DriverBegins == ASSUME D!Init PROVE DInv
<1> USE NoDocument DEF D!Row, D!Exists
<1>1. DTyped
  BY DEF D!Init, D!Fresh, D!Blank, DTyped, D!TypeOK, D!Payment, DSteps, DHand
<1>2. PICK a \in Amount :
        /\ dPayments = [p \in D!Row |-> IF p = Opening THEN D!Fresh(a, Nothing) ELSE Nothing]
        /\ dLegs = [p \in D!Row |-> IF p = Opening THEN a ELSE Nothing]
  BY DEF D!Init
<1>3. /\ \A p \in D!Row : p # Opening => ~D!Exists(p) /\ dLegs[p] = Nothing
      /\ dLegs[Opening] = a /\ D!Exists(Opening)
      /\ dPayments[Opening].amount = a /\ dPayments[Opening].reversal_of = Nothing
      /\ dPayments[Opening].correction_count = 0 /\ ~dPayments[Opening].is_reversed
  <2>1. D!Fresh(a, Nothing) \in D!Payment
    BY DEF D!Fresh, D!Payment
  <2> QED
    BY <1>2, <2>1 DEF D!Fresh
<1>4. \A r \in Request : dPc[r] = "new" /\ dAudits[r] = Nothing
  BY DEF D!Init
<1>5. DHeld /\ DUnwritten /\ DKept /\ D!NeverLost
  <2>1. DHeld
    BY <1>4 DEF DHeld, DHolds, DHolding
  <2>2. DUnwritten
    BY <1>3, <1>4 DEF DUnwritten
  <2>3. DKept /\ D!NeverLost
    BY <1>3, <1>4 DEF DKept, D!NeverLost
  <2> QED
    BY <2>1, <2>2, <2>3
<1>6. DWhole(Opening)
  <2>1. D!Trail(Opening) = {} /\ D!Replacements(Opening) = {}
    BY <1>3, <1>4 DEF D!Trail, D!Replacements
  <2>2. DNumbered(D!Trail(Opening), 0)
    BY <2>1, FS_EmptySet DEF DNumbered
  <2>3. DShown(Opening)
    BY <1>3 DEF DShown, D!View, D!Live
  <2> QED
    BY <1>3, <2>1, <2>2, <2>3 DEF DWhole
<1>7. DSerial
  <2>1. D!Busy = {}
    BY <1>4 DEF D!Busy, D!Ended
  <2> QED
    BY <1>3, <1>4, <1>6, <2>1 DEF DSerial, DHolding
<1> QED
  BY <1>1, <1>5, <1>7 DEF DInv

LEMMA DriverMoves ==
  ASSUME DTyped, NEW r \in Request, D!Step(r)
  PROVE  /\ dPc' = [dPc EXCEPT ![r] = dPc'[r]]
         /\ dHand' = [dHand EXCEPT ![r] = dHand'[r]]
         /\ dUndo' = [dUndo EXCEPT ![r] = dUndo'[r]]
BY DEF DTyped, D!Step, D!Begin, D!Continue, D!Goto, D!UndoNext, D!Create, D!CreateInsert,
  D!CreateHook, D!CorrectRead, D!CorrectAudit, D!CorrectWrite, D!AmountRead, D!InsertFresh,
  D!ProjectFresh, D!InsertAudit, D!Flip, D!ReprojectOriginal, D!StepRaises, D!Raises,
  D!DropFresh, D!DropFreshLegs, D!DropAudit, D!RestoreOriginal, D!RestoreLegs, D!UndoFails,
  D!Die

(* The kinds of steps: a request begins ...                                *)
DBegins(r) ==
  /\ dPc[r] = "new" /\ dPc'[r] \in {"create", "attr_audit", "insert"}
  /\ dPc'[r] \in DHolding =>
       /\ dHand'[r].pid \in D!Row /\ D!Live(dHand'[r].pid)
       /\ dHand'[r].doc = dPayments[dHand'[r].pid]
  /\ dPc'[r] \in {"create", "insert"} => dHand'[r].amount \in Amount
  /\ dPc'[r] = "create" => dHand'[r].pid = Nothing
  /\ dMarred' = IF D!Quiet THEN dMarred ELSE dMarred \cup {"overlap"}
  /\ UNCHANGED <<dPayments, dAudits, dLegs, dOwed, dUndo>>

(* ... inserts a payment ...                                               *)
DInserts(r) ==
  /\ dPayments[r] = Nothing
  /\ \E d \in D!Payment :
       /\ dPayments' = [dPayments EXCEPT ![r] = d]
       /\ ~d.is_reversed /\ d.correction_count = 0
       /\ \/ dPc[r] = "create" /\ dPc'[r] = "create_hook" /\ d.reversal_of = Nothing
          \/ dPc[r] = "insert" /\ dPc'[r] = "project" /\ d.reversal_of = dHand[r].pid
  /\ UNCHANGED <<dAudits, dLegs, dOwed, dHand, dUndo, dMarred>>

(* ... inserts an audit row ...                                            *)
DAudits(r) ==
  /\ dAudits[r] = Nothing
  /\ \E c \in D!Audit :
       /\ dAudits' = [dAudits EXCEPT ![r] = c]
       /\ c.payment_id = dHand[r].pid
       /\ c.correction_index = dHand[r].doc.correction_count + 1
       /\ \/ dPc[r] = "attr_audit" /\ dPc'[r] = "attr_write" /\ c.kind = "attribute"
          \/ dPc[r] = "audit" /\ dPc'[r] = "flip" /\ c.kind = "amount_reversal_new"
  /\ UNCHANGED <<dPayments, dLegs, dOwed, dHand, dUndo, dMarred>>

(* ... counts a correction, or takes it back, if the payment is there ...  *)
DChange(r, old, d) ==
  /\ d.reversal_of = old.reversal_of /\ d.amount = old.amount
  /\ \/ /\ dPc[r] \in {"attr_write", "flip"}
        /\ d.correction_count = dHand[r].doc.correction_count + 1
        /\ d.latest_correction_id = r
        /\ d.is_reversed = (old.is_reversed \/ dPc[r] = "flip")
     \/ /\ dPc[r] = "undo"
        /\ d.correction_count = dHand[r].doc.correction_count
        /\ d.is_reversed = dHand[r].doc.is_reversed

DChanges(r) ==
  /\ \/ /\ D!Exists(dHand[r].pid)
        /\ \E d \in D!Payment :
             /\ dPayments' = [dPayments EXCEPT ![dHand[r].pid] = d]
             /\ DChange(r, dPayments[dHand[r].pid], d)
     \/ ~D!Exists(dHand[r].pid) /\ UNCHANGED dPayments
  /\ \/ dPc[r] = "attr_write" /\ dPc'[r] = "done" /\ UNCHANGED dUndo
     \/ dPc[r] = "flip" /\ dPc'[r] = "reproject" /\ UNCHANGED <<dHand, dUndo>>
     \/ D!UndoNext(r, "original")
  /\ UNCHANGED <<dAudits, dLegs, dOwed, dMarred>>

(* ... projects a payment ...                                              *)
DProjects(r) ==
  /\ \/ /\ dPc[r] = "create_hook" /\ dPc'[r] = "done" /\ UNCHANGED dUndo
        /\ D!HookOk(r) \/ D!HookFails(r)
     \/ /\ dPc[r] = "project" /\ dPc'[r] = "audit" /\ UNCHANGED <<dHand, dUndo>>
        /\ D!HookOk(r)
     \/ /\ dPc[r] = "reproject" /\ dPc'[r] = "done" /\ UNCHANGED dUndo
        /\ D!HookOk(dHand[r].pid)
     \/ /\ D!UndoNext(r, "original_legs")
        /\ D!HookOk(dHand[r].pid) \/ D!HookFails(dHand[r].pid)
  /\ UNCHANGED <<dPayments, dAudits, dMarred>>

(* ... undoes what it has inserted ...                                     *)
DDrops(r) ==
  /\ \/ D!DropFresh(r) \/ D!DropFreshLegs(r) \/ D!DropAudit(r)
  /\ dPc[r] = "undo" /\ dPc'[r] \in {"undo", "done"}

(* ... or fails: then it undoes its work, or gives up, or dies.            *)
DEnds(r) ==
  /\ \/ dPc[r] \in {"create", "attr_audit", "insert"} /\ UNCHANGED dMarred
     \/ dPc[r] \notin {"new", "done"} /\ "death" \in dMarred'
  /\ dUndo'[r] \in {dUndo[r], {}}
  /\ dPc'[r] = "done" /\ dMarred \subseteq dMarred'
  /\ UNCHANGED <<dPayments, dAudits, dLegs, dOwed>>

DStep(r) ==
  \/ DBegins(r) \/ DInserts(r) \/ DAudits(r) \/ DChanges(r) \/ DProjects(r) \/ DDrops(r)
  \/ D!StepRaises(r) \/ D!UndoFails(r) \/ DEnds(r)

LEMMA DriverKinds ==
  ASSUME DTyped, DHeld, DUnwritten, NEW r \in Request, D!Step(r)
  PROVE  DStep(r)
<1> USE NoDocument DEF D!Goto, D!Continue
<1>0. /\ dPc \in [Request -> DSteps] /\ dHand \in [Request -> DHand]
      /\ dPayments \in [D!Row -> D!Payment \cup {Nothing}]
      /\ r \in D!Row
  BY DEF DTyped, D!TypeOK, D!Row
<1>h. DHolds(r)
  BY DEF DHeld
<1>1. ASSUME NEW a \in Amount, D!Create(r, a)
      PROVE  DBegins(r)
  BY <1>0, <1>1 DEF D!Create, D!Begin, D!Blank, DBegins, DHolding
<1>2. ASSUME NEW p \in D!Row, D!CorrectRead(r, p)
      PROVE  DBegins(r)
  BY <1>0, <1>2 DEF D!CorrectRead, D!Begin, DBegins, DHolding
<1>3. ASSUME NEW p \in D!Row, NEW a \in Amount, D!AmountRead(r, p, a)
      PROVE  DBegins(r)
  BY <1>0, <1>3 DEF D!AmountRead, D!Begin, DBegins, DHolding
<1>4. ASSUME D!CreateInsert(r) \/ D!InsertFresh(r)
      PROVE  DInserts(r)
  <2> DEFINE p == IF dPc[r] = "create" THEN Nothing ELSE dHand[r].pid
             d == D!Fresh(dHand[r].amount, p)
  <2>1. dHand[r].amount \in Amount /\ p \in D!Row \cup {Nothing} /\ dPayments[r] = Nothing
    BY <1>0, <1>h, <1>4 DEF D!CreateInsert, D!InsertFresh, DHolds, DHolding, DUnwritten
  <2> HIDE DEF p
  <2>2. /\ d \in D!Payment /\ ~d.is_reversed /\ d.correction_count = 0
        /\ d.reversal_of = p
    BY <2>1 DEF D!Fresh, D!Payment
  <2>3. dPayments' = [dPayments EXCEPT ![r] = d]
    BY <1>4 DEF D!CreateInsert, D!InsertFresh, p
  <2> HIDE DEF d
  <2> QED
    BY <1>0, <1>4, <2>1, <2>2, <2>3 DEF D!CreateInsert, D!InsertFresh, D!Ended, DInserts, p
<1>5. ASSUME D!CorrectAudit(r) \/ D!InsertAudit(r)
      PROVE  DAudits(r)
  <2> DEFINE k == IF dPc[r] = "attr_audit" THEN "attribute" ELSE "amount_reversal_new"
             c == D!AuditOf(r, k)
  <2>1. dHand[r].pid \in D!Row /\ dHand[r].doc \in D!Payment /\ dAudits[r] = Nothing
    BY <1>0, <1>h, <1>5 DEF D!CorrectAudit, D!InsertAudit, DHolds, DHolding, DUnwritten
  <2>2. dHand[r].doc.correction_count + 1 \in Nat \ {0}
    BY <2>1 DEF D!Payment
  <2>3. /\ c \in D!Audit /\ c.payment_id = dHand[r].pid /\ c.kind = k
        /\ c.correction_index = dHand[r].doc.correction_count + 1
    BY <2>1, <2>2 DEF D!AuditOf, D!Audit
  <2>4. dAudits' = [dAudits EXCEPT ![r] = c]
    BY <1>5 DEF D!CorrectAudit, D!InsertAudit
  <2> HIDE DEF c
  <2> QED
    BY <1>0, <1>5, <2>1, <2>3, <2>4 DEF D!CorrectAudit, D!InsertAudit, D!Ended, DAudits
<1>6. ASSUME D!CorrectWrite(r) \/ D!Flip(r)
      PROVE  DChanges(r)
  <2> DEFINE old == dPayments[dHand[r].pid]
             flip == dPc[r] = "flip"
             n == dHand[r].doc.correction_count + 1
             d == [old EXCEPT !.is_reversed = @ \/ flip, !.correction_count = n,
                              !.latest_correction_id = r]
  <2>1. dHand[r].pid \in D!Row /\ dHand[r].doc \in D!Payment
    BY <1>0, <1>h, <1>6 DEF D!CorrectWrite, D!Flip, DHolds, DHolding
  <2>2. n \in Nat
    BY <2>1 DEF D!Payment
  <2>3. dPayments' = IF D!Exists(dHand[r].pid)
                     THEN [dPayments EXCEPT ![dHand[r].pid] = d] ELSE dPayments
    BY <1>6 DEF D!CorrectWrite, D!Flip, D!SetOriginal, D!Counted
  <2> HIDE DEF n, flip
  <2>4. ASSUME D!Exists(dHand[r].pid)
        PROVE  /\ d \in D!Payment /\ d.reversal_of = old.reversal_of /\ d.amount = old.amount
               /\ d.correction_count = n /\ d.latest_correction_id = r
               /\ d.is_reversed = (old.is_reversed \/ flip)
    <3>1. old \in D!Payment
      BY <1>0, <2>1, <2>4 DEF D!Exists
    <3> HIDE DEF old
    <3>2. (old.is_reversed \/ flip) \in BOOLEAN
      OBVIOUS
    <3> QED
      BY <2>2, <3>1, <3>2 DEF D!Payment
  <2> HIDE DEF d
  <2>5. \/ /\ D!Exists(dHand[r].pid)
           /\ \E e \in D!Payment :
                /\ dPayments' = [dPayments EXCEPT ![dHand[r].pid] = e]
                /\ DChange(r, dPayments[dHand[r].pid], e)
        \/ ~D!Exists(dHand[r].pid) /\ UNCHANGED dPayments
    BY <1>6, <2>3, <2>4 DEF DChange, D!CorrectWrite, D!Flip, n, flip
  <2> QED
    BY <1>0, <1>6, <2>5 DEF D!CorrectWrite, D!Flip, D!Ended, DChanges
<1>7. ASSUME D!RestoreOriginal(r)
      PROVE  DChanges(r)
  <2> DEFINE old == dPayments[dHand[r].pid]
             doc == dHand[r].doc
             d == [old EXCEPT !.is_reversed = doc.is_reversed,
                              !.correction_count = doc.correction_count,
                              !.latest_correction_id = doc.latest_correction_id]
  <2>1. dHand[r].pid \in D!Row /\ doc \in D!Payment /\ dPc[r] = "undo"
    BY <1>0, <1>h, <1>7 DEF D!RestoreOriginal, D!UndoNext, DHolds, DHolding
  <2>2. dPayments' = IF D!Exists(dHand[r].pid)
                     THEN [dPayments EXCEPT ![dHand[r].pid] = d] ELSE dPayments
    BY <1>7 DEF D!RestoreOriginal, D!SetOriginal
  <2> HIDE DEF doc
  <2>3. ASSUME D!Exists(dHand[r].pid)
        PROVE  /\ d \in D!Payment /\ d.reversal_of = old.reversal_of /\ d.amount = old.amount
               /\ d.correction_count = doc.correction_count
               /\ d.is_reversed = doc.is_reversed
    <3>1. old \in D!Payment
      BY <1>0, <2>1, <2>3 DEF D!Exists
    <3> HIDE DEF old
    <3> QED
      BY <2>1, <3>1 DEF D!Payment
  <2> HIDE DEF d
  <2>4. \/ /\ D!Exists(dHand[r].pid)
           /\ \E e \in D!Payment :
                /\ dPayments' = [dPayments EXCEPT ![dHand[r].pid] = e]
                /\ DChange(r, dPayments[dHand[r].pid], e)
        \/ ~D!Exists(dHand[r].pid) /\ UNCHANGED dPayments
    BY <2>1, <2>2, <2>3 DEF DChange, doc
  <2> QED
    BY <1>7, <2>4 DEF D!RestoreOriginal, DChanges
<1>8. ASSUME D!CreateHook(r) \/ D!ProjectFresh(r) \/ D!ReprojectOriginal(r)
      PROVE  DProjects(r)
  BY <1>0, <1>8 DEF D!CreateHook, D!ProjectFresh, D!ReprojectOriginal, D!Ended, DProjects
<1>9. ASSUME D!RestoreLegs(r)
      PROVE  DProjects(r)
  BY <1>9 DEF D!RestoreLegs, DProjects
<1>10. ASSUME D!DropFresh(r) \/ D!DropFreshLegs(r) \/ D!DropAudit(r)
       PROVE  DDrops(r)
  <2>1. PICK item : D!UndoNext(r, item)
    BY <1>10 DEF D!DropFresh, D!DropFreshLegs, D!DropAudit
  <2> QED
    BY <1>0, <1>10, <2>1 DEF D!UndoNext, DDrops
<1>11. ASSUME D!Raises(r) \/ D!Die(r)
       PROVE  DEnds(r)
  BY <1>0, <1>11 DEF DTyped, D!Raises, D!Die, D!Busy, D!Ended, DEnds
<1> QED
  BY <1>1, <1>2, <1>3, <1>4, <1>5, <1>6, <1>7, <1>8, <1>9, <1>10, <1>11 DEF D!Step, DStep

LEMMA DriverTyped ==
  ASSUME DInv, NEW r \in Request, D!Step(r)
  PROVE  DTyped'
<1> USE NoDocument
<1>0. /\ DTyped /\ DHeld /\ DUnwritten /\ DStep(r) /\ r \in D!Row
      /\ dPc \in [Request -> DSteps] /\ dHand \in [Request -> DHand]
      /\ dUndo \in [Request -> SUBSET D!Undoing.reproject]
      /\ dPayments \in [D!Row -> D!Payment \cup {Nothing}]
      /\ dAudits \in [Request -> D!Audit \cup {Nothing}]
      /\ dLegs \in [D!Row -> Amount \cup {Nothing}] /\ dOwed \subseteq D!Row
      /\ dPc[r] \in DHolding => dHand[r].pid \in D!Row
  BY DriverKinds DEF DInv, DTyped, D!TypeOK, D!Row, DHeld, DHolds
<1>1. \A p \in D!Row : D!View(p) \in Amount \cup {Nothing}
  BY <1>0 DEF D!View, D!Live, D!Exists, D!Payment
<1>2. dPayments' \in [D!Row -> D!Payment \cup {Nothing}]
  BY <1>0 DEF DStep, DBegins, DInserts, DAudits, DChanges, DProjects, DDrops, D!StepRaises,
    D!UndoFails, DEnds, D!DropFresh, D!DropFreshLegs, D!DropAudit, D!UndoNext, DHolding
<1>3. dAudits' \in [Request -> D!Audit \cup {Nothing}]
  BY <1>0 DEF DStep, DBegins, DInserts, DAudits, DChanges, DProjects, DDrops, D!StepRaises,
    D!UndoFails, DEnds, D!DropFresh, D!DropFreshLegs, D!DropAudit
<1>4. \A p \in D!Row : D!HookOk(p) \/ D!HookFails(p) =>
        dLegs' \in [D!Row -> Amount \cup {Nothing}] /\ dOwed' \subseteq D!Row
  BY <1>0, <1>1 DEF D!HookOk, D!HookFails
<1>5. dLegs' \in [D!Row -> Amount \cup {Nothing}] /\ dOwed' \subseteq D!Row
  <2>1. CASE DProjects(r)
    BY <1>0, <1>4, <2>1 DEF DProjects, D!UndoNext, DHolding
  <2>2. CASE D!StepRaises(r)
    BY <1>0, <1>4, <2>2 DEF D!StepRaises, D!Undoing, DHolding
  <2>3. CASE DDrops(r)
    BY <1>0, <2>3 DEF DDrops, D!DropFresh, D!DropFreshLegs, D!DropAudit
  <2> QED
    BY <1>0, <2>1, <2>2, <2>3 DEF DStep, DBegins, DInserts, DAudits, DChanges, D!UndoFails, DEnds
<1>6. dPc' \in [Request -> DSteps]
  <2>1. dPc'[r] \in DSteps
    BY <1>0 DEF DStep, DBegins, DInserts, DAudits, DChanges, DProjects, DDrops, D!StepRaises,
      D!UndoFails, D!UndoNext, D!Continue, DEnds, DSteps, DHolding
  <2> QED
    BY <1>0, <2>1, DriverMoves
<1>7. dUndo' \in [Request -> SUBSET D!Undoing.reproject]
  <2>1. dUndo'[r] \subseteq D!Undoing.reproject
    <3>1. \A item : D!UndoNext(r, item) => dUndo'[r] \subseteq dUndo[r]
      BY <1>0 DEF D!UndoNext
    <3>2. CASE D!StepRaises(r)
      BY <1>0, <3>2 DEF D!StepRaises, D!Undoing
    <3>3. CASE DBegins(r) \/ DInserts(r) \/ DAudits(r) \/ DChanges(r) \/ DProjects(r)
      BY <1>0, <3>1, <3>3 DEF DBegins, DInserts, DAudits, DChanges, DProjects
    <3>4. CASE DDrops(r) \/ D!UndoFails(r)
      BY <1>0, <3>1, <3>4 DEF DDrops, D!DropFresh, D!DropFreshLegs, D!DropAudit, D!UndoFails
    <3>5. CASE DEnds(r)
      BY <1>0, <3>5 DEF DEnds
    <3> QED
      BY <1>0, <3>2, <3>3, <3>4, <3>5 DEF DStep
  <2> QED
    BY <1>0, <2>1, DriverMoves
<1>8. dMarred' \subseteq {"overlap", "step", "undo", "death"}
  BY <1>0 DEF DTyped, D!TypeOK, D!Step, D!Begin, D!Continue, D!Goto, D!UndoNext, D!Create, D!CreateInsert,
    D!CreateHook, D!CorrectRead, D!CorrectAudit, D!CorrectWrite, D!AmountRead, D!InsertFresh,
    D!ProjectFresh, D!InsertAudit, D!Flip, D!ReprojectOriginal, D!StepRaises, D!Raises,
    D!DropFresh, D!DropFreshLegs, D!DropAudit, D!RestoreOriginal, D!RestoreLegs, D!UndoFails,
    D!Die
<1>9. dHand' \in [Request -> DHand]
  <2>1. /\ D!Blank \in DHand
        /\ \A a \in Amount : [D!Blank EXCEPT !.amount = a] \in DHand
    BY DEF D!Blank, DHand
  <2>2. \A p \in D!Row, a \in Amount \cup {Nothing} : D!Live(p) =>
          [pid |-> p, doc |-> dPayments[p], amount |-> a] \in DHand
    BY <1>0 DEF DHand, D!Live, D!Exists
  <2>3. \/ dHand' \in {dHand, [dHand EXCEPT ![r] = D!Blank]}
        \/ \E h \in DHand : dHand' = [dHand EXCEPT ![r] = h]
    BY <2>1, <2>2 DEF D!Step, D!Begin, D!Continue, D!Goto, D!UndoNext, D!Create, D!CreateInsert,
      D!CreateHook, D!CorrectRead, D!CorrectAudit, D!CorrectWrite, D!AmountRead, D!InsertFresh,
      D!ProjectFresh, D!InsertAudit, D!Flip, D!ReprojectOriginal, D!StepRaises, D!Raises,
      D!DropFresh, D!DropFreshLegs, D!DropAudit, D!RestoreOriginal, D!RestoreLegs, D!UndoFails,
      D!Die
  <2> QED
    BY <1>0, <2>1, <2>3
<1> QED
  BY <1>2, <1>3, <1>5, <1>6, <1>7, <1>8, <1>9 DEF DTyped, D!TypeOK

LEMMA DriverHeld ==
  ASSUME DInv, NEW r \in Request, D!Step(r)
  PROVE  DHeld'
<1> USE NoDocument
<1>0. /\ DTyped /\ DHeld /\ DStep(r) /\ DUnwritten
      /\ dPc' = [dPc EXCEPT ![r] = dPc'[r]] /\ dHand' = [dHand EXCEPT ![r] = dHand'[r]]
      /\ dPc \in [Request -> DSteps] /\ dHand \in [Request -> DHand]
      /\ dPayments \in [D!Row -> D!Payment \cup {Nothing}]
  BY DriverKinds, DriverMoves DEF DInv, DTyped, D!TypeOK
<1>1. ASSUME NEW s \in Request, s # r
      PROVE  DHolds(s)'
  <2>1. dPc'[s] = dPc[s] /\ dHand'[s] = dHand[s]
    BY <1>0, <1>1
  <2>2. DHolds(s)
    BY <1>0 DEF DHeld
  <2> QED
    BY <2>1, <2>2 DEF DHolds
<1>2. ASSUME DBegins(r)
      PROVE  DHolds(r)'
  <2>1. dPayments[r] = Nothing
    BY <1>0, <1>2 DEF DBegins, DUnwritten
  <2> QED
    BY <1>0, <1>2, <2>1 DEF DBegins, DHolds, D!Live, D!Exists, DHolding
<1>3. ASSUME dHand'[r] = dHand[r], dPc'[r] \in DHolding => dPc[r] \in DHolding,
             dPc'[r] \notin {"create", "insert"},
             dPc'[r] = "create_hook" => dPc[r] = "create"
      PROVE  DHolds(r)'
  <2>1. DHolds(r)
    BY <1>0 DEF DHeld
  <2> QED
    BY <1>3, <2>1 DEF DHolds
<1>4. ASSUME dPc'[r] = "done"
      PROVE  DHolds(r)'
  BY <1>4 DEF DHolds, DHolding
<1>5. \A item : D!UndoNext(r, item) =>
        /\ dPc[r] = "undo"
        /\ dPc'[r] = "done" \/ (dPc'[r] = "undo" /\ dHand' = dHand)
  BY <1>0 DEF D!UndoNext, D!Continue, D!Ended
<1>6. ASSUME DInserts(r) \/ DAudits(r)
      PROVE  DHolds(r)'
  BY <1>0, <1>3, <1>4, <1>6 DEF DInserts, DAudits, DHolding
<1>7. ASSUME DChanges(r) \/ DProjects(r)
      PROVE  DHolds(r)'
  BY <1>0, <1>3, <1>4, <1>5, <1>7 DEF DChanges, DProjects, DHolding
<1>8. ASSUME DDrops(r) \/ D!UndoFails(r)
      PROVE  DHolds(r)'
  BY <1>3, <1>4, <1>5, <1>8 DEF DDrops, D!DropFresh, D!DropFreshLegs, D!DropAudit, D!UndoFails,
    DHolding
<1>9. ASSUME D!StepRaises(r)
      PROVE  DHolds(r)'
  BY <1>0, <1>3, <1>9 DEF D!StepRaises, D!Undoing, DHolding
<1>10. DHolds(r)'
  BY <1>0, <1>2, <1>4, <1>6, <1>7, <1>8, <1>9 DEF DStep, DEnds
<1> QED
  BY <1>1, <1>10 DEF DHeld

LEMMA DriverUnwritten ==
  ASSUME DInv, NEW r \in Request, D!Step(r)
  PROVE  DUnwritten'
<1> USE NoDocument
<1>0. /\ DTyped /\ DHeld /\ DStep(r) /\ DUnwritten
      /\ dPc' = [dPc EXCEPT ![r] = dPc'[r]] /\ dPc \in [Request -> DSteps]
      /\ dPayments \in [D!Row -> D!Payment \cup {Nothing}]
      /\ dAudits \in [Request -> D!Audit \cup {Nothing}]
      /\ dPc[r] \in DHolding => dHand[r].pid \in D!Row
  BY DriverKinds, DriverMoves DEF DInv, DTyped, D!TypeOK, DHeld, DHolds
<1> DEFINE Early == {"new", "create", "insert", "attr_audit", "attr_write"}
           Unaudited == {"new", "create", "create_hook", "insert", "project", "audit", "attr_audit"}
<1>1. /\ dPc'[r] \in Early => dPc[r] \in Early
      /\ dPc'[r] \in Unaudited => dPc[r] \in Unaudited
  BY <1>0 DEF DStep, DBegins, DInserts, DAudits, DChanges, DProjects, DDrops, D!StepRaises,
    D!UndoFails, D!UndoNext, D!Continue, DEnds
<1>2. ASSUME NEW s \in Request, dPc'[s] \in Early
      PROVE  dPayments'[s] = Nothing
  <2>1. dPc[s] \in Early
    BY <1>0, <1>1, <1>2
  <2>2. dPayments[s] = Nothing /\ s \in D!Row
    BY <1>0, <2>1 DEF DUnwritten, D!Row
  <2>3. CASE DInserts(r)
    BY <1>0, <1>2, <2>2, <2>3 DEF DInserts
  <2>4. CASE DChanges(r)
    BY <1>0, <2>2, <2>4 DEF DChanges, D!Exists
  <2>5. CASE DDrops(r)
    BY <1>0, <2>2, <2>5 DEF DDrops, D!DropFresh, D!DropFreshLegs, D!DropAudit
  <2> QED
    BY <1>0, <2>2, <2>3, <2>4, <2>5 DEF DStep, DBegins, DAudits, DProjects, D!StepRaises,
      D!UndoFails, DEnds
<1>3. ASSUME NEW s \in Request, dPc'[s] \in Unaudited
      PROVE  dAudits'[s] = Nothing
  <2>1. dPc[s] \in Unaudited
    BY <1>0, <1>1, <1>3
  <2>2. dAudits[s] = Nothing
    BY <1>0, <2>1 DEF DUnwritten
  <2>3. CASE DAudits(r)
    BY <1>0, <1>3, <2>2, <2>3 DEF DAudits
  <2>4. CASE DDrops(r)
    BY <1>0, <2>2, <2>4 DEF DDrops, D!DropFresh, D!DropFreshLegs, D!DropAudit
  <2> QED
    BY <1>0, <2>2, <2>3, <2>4 DEF DStep, DBegins, DInserts, DChanges, DProjects, D!StepRaises,
      D!UndoFails, DEnds
<1> QED
  BY <1>2, <1>3 DEF DUnwritten

LEMMA DriverKept ==
  ASSUME DInv, NEW r \in Request, D!Step(r)
  PROVE  DKept' /\ D!NeverLost'
<1> USE NoDocument
<1>0. /\ DTyped /\ DHeld /\ DStep(r) /\ DUnwritten /\ DKept /\ D!NeverLost /\ r \in D!Row
      /\ dPc' = [dPc EXCEPT ![r] = dPc'[r]] /\ dPc \in [Request -> DSteps]
      /\ dHand' = [dHand EXCEPT ![r] = dHand'[r]] /\ dHand \in [Request -> DHand]
      /\ dPayments \in [D!Row -> D!Payment \cup {Nothing}]
      /\ dAudits \in [Request -> D!Audit \cup {Nothing}]
      /\ dPc[r] \in DHolding => dHand[r].pid \in D!Row /\ dHand[r].pid # r
  BY DriverKinds, DriverMoves DEF DInv, DTyped, D!TypeOK, DHeld, DHolds, D!Row
<1>1. SUFFICES ASSUME dMarred' \subseteq {"overlap"}
               PROVE  DKept' /\ D!NeverLost'
  BY DEF DKept, D!NeverLost
<1>2. dMarred \subseteq {"overlap"} /\ dPc[r] # "undo"
  <2>1. dMarred \subseteq dMarred'
    BY <1>0 DEF DStep, DBegins, DInserts, DAudits, DChanges, DProjects, DDrops, D!StepRaises,
      D!UndoFails, DEnds, D!DropFresh, D!DropFreshLegs, D!DropAudit
  <2> QED
    BY <1>0, <1>1, <2>1 DEF DKept
<1>3. /\ ~D!StepRaises(r) /\ ~DDrops(r) /\ ~D!UndoFails(r)
      /\ \A item : ~D!UndoNext(r, item)
  BY <1>1, <1>2 DEF D!StepRaises, DDrops, D!UndoFails, D!UndoNext
(* Nothing that is there goes, and what it replaces stays the same.        *)
<1>4. /\ \A q \in D!Row : D!Exists(q) =>
           dPayments'[q] # Nothing /\ dPayments'[q].reversal_of = dPayments[q].reversal_of
      /\ \A s \in Request : dAudits[s] # Nothing => dAudits'[s] = dAudits[s]
  BY <1>0, <1>3 DEF DStep, DBegins, DInserts, DAudits, DChanges, DChange, DProjects, DEnds, D!Exists
<1>5. ASSUME NEW s \in Request
      PROVE  /\ dPc'[s] # "undo"
             /\ dPc'[s] \in {"project", "audit", "flip", "reproject"} =>
                  dPayments'[s] # Nothing /\ dPayments'[s].reversal_of = dHand'[s].pid
             /\ dPc'[s] \in {"flip", "reproject"} =>
                  /\ dAudits'[s] # Nothing /\ dAudits'[s].payment_id = dHand'[s].pid
                  /\ dAudits'[s].kind = "amount_reversal_new"
  <2>0. /\ dPc[s] # "undo" /\ s \in D!Row
        /\ dPc[s] \in {"project", "audit", "flip", "reproject"} =>
             D!Exists(s) /\ dPayments[s].reversal_of = dHand[s].pid
        /\ dPc[s] \in {"flip", "reproject"} =>
             /\ dAudits[s] # Nothing /\ dAudits[s].payment_id = dHand[s].pid
             /\ dAudits[s].kind = "amount_reversal_new"
    BY <1>0, <1>2 DEF DKept, D!Row
  <2>1. CASE s # r
    BY <1>0, <1>4, <2>0, <2>1
  <2>2. CASE s = r /\ DInserts(r)
    BY <1>0, <2>2 DEF DInserts
  <2>3. CASE s = r /\ DAudits(r)
    BY <1>0, <1>4, <2>0, <2>3 DEF DAudits
  <2>4. CASE s = r /\ ~DInserts(r) /\ ~DAudits(r)
    BY <1>0, <1>3, <1>4, <2>0, <2>4 DEF DStep, DBegins, DChanges, DProjects, DEnds
  <2> QED
    BY <2>1, <2>2, <2>3, <2>4
<1>6. DKept'
  BY <1>5 DEF DKept, D!Exists
<1>7. ASSUME NEW p \in D!Row, dPayments'[p] # Nothing, dPayments'[p].is_reversed
      PROVE  \E s \in Request :
               /\ dAudits'[s] # Nothing /\ dAudits'[s].payment_id = p
               /\ dPayments'[s] # Nothing /\ dPayments'[s].reversal_of = p
               /\ dAudits'[s].kind = "amount_reversal_new"
  <2>1. CASE D!Exists(p) /\ dPayments[p].is_reversed
    <3>1. PICK s \in D!Trail(p) : /\ D!Exists(s) /\ dPayments[s].reversal_of = p
                                  /\ dAudits[s].kind = "amount_reversal_new"
      BY <1>0, <1>2, <2>1 DEF D!NeverLost
    <3> QED
      BY <1>4, <3>1 DEF D!Trail, D!Row
  <2>2. CASE ~(D!Exists(p) /\ dPayments[p].is_reversed)
    <3>1. dPc[r] = "flip" /\ p = dHand[r].pid
      BY <1>0, <1>3, <1>7, <2>2 DEF DStep, DBegins, DInserts, DAudits, DChanges, DChange, DProjects,
        DEnds, D!Exists
    <3>2. /\ D!Exists(r) /\ dPayments[r].reversal_of = p
          /\ dAudits[r] # Nothing /\ dAudits[r].payment_id = p
          /\ dAudits[r].kind = "amount_reversal_new"
      BY <1>0, <1>2, <3>1 DEF DKept
    <3> QED
      BY <1>0, <1>4, <3>2
  <2> QED
    BY <2>1, <2>2
<1>8. D!NeverLost'
  BY <1>7 DEF D!NeverLost, D!Trail, D!Exists
<1> QED
  BY <1>6, <1>8

(* A request that does not overlap another, nor dies, nor fails to undo    *)
(* its work, finds the desk empty.                                         *)
LEMMA DriverAlone ==
  ASSUME DTyped, DSerial, NEW r \in Request, DStep(r), dPc' = [dPc EXCEPT ![r] = dPc'[r]],
         dMarred' \subseteq {"step"}
  PROVE  /\ dMarred \subseteq {"step"} /\ dPc'[r] # "new"
         /\ \A s \in Request : s # r => dPc[s] \in {"new", "done"} /\ dPc'[s] = dPc[s]
<1>1. dMarred \subseteq {"step"}
  BY DEF DStep, DBegins, DInserts, DAudits, DChanges, DProjects, DDrops, D!StepRaises,
    D!UndoFails, DEnds, D!DropFresh, D!DropFreshLegs, D!DropAudit
<1>2. dPc'[r] # "new"
  BY DEF DTyped, DStep, DBegins, DInserts, DAudits, DChanges, DProjects, DDrops, D!StepRaises,
    D!UndoFails, DEnds, D!UndoNext, D!Continue
<1>3. ASSUME NEW s \in Request, s # r
      PROVE  dPc[s] \in {"new", "done"}
  <2>1. CASE DBegins(r)
    BY <1>3, <2>1 DEF DBegins, D!Quiet, D!Busy, D!Ended
  <2>2. CASE ~DBegins(r)
    <3>1. r \in D!Busy
      BY <2>2 DEF DStep, DInserts, DAudits, DChanges, DProjects, DDrops, D!StepRaises,
        D!UndoFails, DEnds, D!UndoNext, D!Undoing, D!Busy, D!Ended
    <3> QED
      BY <1>1, <1>3, <3>1 DEF DSerial, D!Busy, D!Ended
  <2> QED
    BY <2>1, <2>2
<1> QED
  BY <1>1, <1>2, <1>3 DEF DTyped

(* Legs follow a hook, or a repair of them is owed.                        *)
LEMMA DriverShown ==
  ASSUME DTyped, UNCHANGED dPayments, NEW x \in D!Row, D!HookOk(x) \/ D!HookFails(x)
  PROVE  DShown(x)' /\ \A q \in D!Row : DShown(q) => DShown(q)'
<1>1. \A q \in D!Row : D!View(q)' = D!View(q)
  BY DEF D!View, D!Live, D!Exists
<1> QED
  BY <1>1 DEF DTyped, D!TypeOK, DShown, D!HookOk, D!HookFails

(* A step of r, on behalf of payment p, touches these two and no other.    *)
DTouch(r, p) ==
  /\ \A q \in D!Row : q \notin {r, p} =>
       dPayments'[q] = dPayments[q] /\ (DShown(q) => DShown(q)')
  /\ p \in D!Row =>
       /\ dPayments[p] # Nothing /\ dPayments'[p] # Nothing
       /\ dPayments'[p].reversal_of = dPayments[p].reversal_of
  /\ dPayments[r] # Nothing => dPayments[r].reversal_of \in {p, Nothing}
  /\ dPayments'[r] # Nothing => dPayments'[r].reversal_of \in {p, Nothing}
  /\ \A s \in Request : s # r => dAudits'[s] = dAudits[s]
  /\ dAudits[r] # Nothing => dAudits[r].payment_id = p
  /\ dAudits'[r] # Nothing => dAudits'[r].payment_id = p

LEMMA DriverElsewhere ==
  ASSUME NEW r \in Request, NEW p \in D!Row \cup {Nothing}, DTouch(r, p),
         NEW q \in D!Row, q \notin {r, p}
  PROVE  /\ D!Trail(q)' = D!Trail(q) /\ D!Replacements(q)' = D!Replacements(q)
         /\ DWhole(q) => DWhole(q)'
<1> USE NoDocument
<1>1. q # Nothing /\ r \in D!Row
  BY DEF D!Row
<1>2. D!Trail(q)' = D!Trail(q) /\ \A s \in D!Trail(q) : dAudits'[s] = dAudits[s]
  BY DEF DTouch, D!Trail
<1>3. D!Replacements(q)' = D!Replacements(q)
  <2>1. \A x \in D!Row : x \in D!Replacements(q)' <=> x \in D!Replacements(q)
    BY <1>1 DEF DTouch, D!Replacements, D!Exists
  <2> QED
    BY <2>1 DEF D!Replacements
<1>4. \A n : DNumbered(D!Trail(q), n) => DNumbered(D!Trail(q), n)'
  BY <1>2 DEF DNumbered
<1>5. ASSUME DWhole(q)
      PROVE  DWhole(q)'
  <2>1. dPayments'[q] = dPayments[q] /\ DShown(q)'
    BY <1>5 DEF DTouch, DWhole
  <2> QED
    BY <1>2, <1>3, <1>4, <1>5, <2>1 DEF DWhole
<1> QED
  BY <1>2, <1>3, <1>5

LEMMA DriverUnreferenced ==
  ASSUME NEW r \in Request, NEW p \in D!Row \cup {Nothing}, p # r, DTouch(r, p),
         D!Trail(r) = {}, D!Replacements(r) = {}
  PROVE  D!Trail(r)' = {} /\ D!Replacements(r)' = {}
<1> USE NoDocument
<1>0. r \in D!Row /\ r # Nothing
  BY DEF D!Row
<1>1. D!Trail(r)' = {}
  BY DEF DTouch, D!Trail
<1>2. D!Replacements(r)' = {}
  BY <1>0 DEF DTouch, D!Replacements, D!Exists
<1> QED
  BY <1>1, <1>2

LEMMA DriverBase ==
  ASSUME NEW r \in Request, NEW p, NEW doc, DBase(r, p, doc), DTouch(r, p)
  PROVE  DBase(r, p, doc)'
<1> USE NoDocument
<1>0. p \in D!Row /\ p # r /\ r \in D!Row
  BY DEF DBase, D!Row
<1>1. /\ D!Trail(p)' \ {r} = D!Trail(p) \ {r}
      /\ \A s \in D!Trail(p) \ {r} : dAudits'[s] = dAudits[s]
  BY DEF DTouch, D!Trail
<1>2. D!Replacements(p)' \ {r} = D!Replacements(p) \ {r}
  BY <1>0 DEF DTouch, D!Replacements, D!Exists
<1>3. DNumbered(D!Trail(p) \ {r}, doc.correction_count)'
  BY <1>1 DEF DBase, DNumbered
<1>4. D!Exists(p)'
  BY <1>0 DEF DTouch, D!Exists
<1> QED
  BY <1>1, <1>2, <1>3, <1>4 DEF DBase

(* A correction that leaves nothing, or all that it should, ends well.     *)
LEMMA DriverCloses ==
  ASSUME NEW r \in Request, NEW p, NEW doc, DBase(r, p, doc)', DShown(p)',
         \/ /\ ~dPayments'[p].is_reversed
            /\ dPayments'[p].correction_count = doc.correction_count
            /\ dPayments'[r] = Nothing /\ dAudits'[r] = Nothing
         \/ /\ dPayments'[p].correction_count = doc.correction_count + 1
            /\ dAudits'[r] # Nothing /\ dAudits'[r].payment_id = p
            /\ dAudits'[r].correction_index = doc.correction_count + 1
            /\ \/ /\ ~dPayments'[p].is_reversed
                  /\ dPayments'[r] = Nothing /\ dAudits'[r].kind = "attribute"
               \/ /\ dPayments'[p].is_reversed
                  /\ dPayments'[p].latest_correction_id = r
                  /\ dPayments'[r] # Nothing /\ dPayments'[r].reversal_of = p
                  /\ dAudits'[r].kind = "amount_reversal_new"
  PROVE  DWhole(p)'
<1> USE NoDocument
<1>0. /\ p \in D!Row /\ p # r /\ r \in D!Row /\ doc.correction_count \in Nat
      /\ D!Replacements(p)' \ {r} = {}
      /\ \A s \in D!Trail(p)' \ {r} : dAudits'[s].kind = "attribute"
      /\ DNumbered(D!Trail(p) \ {r}, doc.correction_count)'
  BY DEF DBase, D!Row
<1>1. CASE dAudits'[r] = Nothing
  <2>1. r \notin D!Trail(p)' /\ r \notin D!Replacements(p)'
    BY <1>1 DEF D!Trail, D!Replacements, D!Exists
  <2>2. D!Trail(p)' \ {r} = D!Trail(p)' /\ D!Replacements(p)' = {}
    BY <1>0, <2>1
  <2>3. DNumbered(D!Trail(p), doc.correction_count)'
    BY <1>0, <2>2 DEF DNumbered
  <2>4. ~dPayments'[p].is_reversed /\ dPayments'[p].correction_count = doc.correction_count
    BY <1>1
  <2> QED
    BY <1>0, <2>2, <2>3, <2>4 DEF DWhole
<1>2. CASE dAudits'[r] # Nothing
  <2> DEFINE n == doc.correction_count
             S == D!Trail(p)' \ {r}
  <2>1. /\ dPayments'[p].correction_count = n + 1
        /\ dAudits'[r].payment_id = p /\ dAudits'[r].correction_index = n + 1
    BY <1>2
  <2>2. D!Trail(p)' = S \cup {r} /\ r \notin S
    BY <1>2, <2>1 DEF D!Trail
  <2>3. /\ IsFiniteSet(S) /\ Cardinality(S) = n
        /\ {dAudits'[s].correction_index : s \in S} = 1..n
    BY <1>0 DEF DNumbered
  <2>4. DNumbered(D!Trail(p), n + 1)'
    <3>1. IsFiniteSet(S \cup {r}) /\ Cardinality(S \cup {r}) = n + 1
      BY <2>2, <2>3, FS_AddElement
    <3>2. {dAudits'[s].correction_index : s \in S \cup {r}}
            = {dAudits'[s].correction_index : s \in S} \cup {n + 1}
      BY <2>1
    <3>3. 1..(n + 1) = (1..n) \cup {n + 1}
      BY <1>0
    <3> QED
      BY <2>2, <2>3, <3>1, <3>2, <3>3 DEF DNumbered
  <2>5. CASE ~dPayments'[p].is_reversed
    <3>1. dPayments'[r] = Nothing /\ dAudits'[r].kind = "attribute"
      BY <1>2, <2>5
    <3>2. D!Replacements(p)' = {}
      BY <1>0, <3>1 DEF D!Replacements, D!Exists
    <3>3. \A s \in D!Trail(p)' : dAudits'[s].kind = "attribute"
      BY <1>0, <3>1
    <3> QED
      BY <2>1, <2>4, <2>5, <3>2, <3>3 DEF DWhole
  <2>6. CASE dPayments'[p].is_reversed
    <3>1. /\ dPayments'[r] # Nothing /\ dPayments'[r].reversal_of = p
          /\ dPayments'[p].latest_correction_id = r
          /\ dAudits'[r].kind = "amount_reversal_new"
      BY <1>2, <2>6
    <3>2. D!Replacements(p)' = {r}
      BY <1>0, <3>1 DEF D!Replacements, D!Exists
    <3>3. r \in D!Trail(p)'
      BY <2>2
    <3> QED
      BY <2>1, <2>4, <2>6, <3>1, <3>2, <3>3 DEF DWhole
  <2> QED
    BY <2>5, <2>6
<1> QED
  BY <1>1, <1>2

(* What a step of the only request at work must come to.                   *)
LEMMA DriverCombines ==
  ASSUME DTyped, DTyped', DSerial, dMarred \subseteq {"step"},
         NEW r \in Request, r \in D!Busy,
         \A s \in Request : s # r => dPc[s] \in {"new", "done"} /\ dPc'[s] = dPc[s],
         NEW p \in D!Row \cup {Nothing}, p # r, dHand[r].pid = p, DTouch(r, p),
         dPc'[r] # "new",
         dPc'[r] # "done" => dHand'[r].pid = p,
         dPc'[r] \in DHolding => DMidway(r)',
         dPc'[r] = "create_hook" \/ (dPc'[r] = "done" /\ dPayments'[r] # Nothing) =>
           /\ dPayments'[r] # Nothing
           /\ ~dPayments'[r].is_reversed /\ dPayments'[r].correction_count = 0,
         dPc'[r] = "create_hook" => dPayments'[r].reversal_of = Nothing,
         dPc'[r] = "done" =>
           (p \in D!Row => DWhole(p)') /\ (dPayments'[r] # Nothing => DShown(r)')
  PROVE  DSerial'
<1> USE NoDocument
<1>0. /\ r \in D!Row /\ r # Nothing /\ p # r
      /\ D!Busy = {r}
      /\ D!Trail(r) = {} /\ D!Replacements(r) = {}
      /\ \A s \in Request : dAudits[s] # Nothing => D!Exists(dAudits[s].payment_id)
      /\ \A q \in D!Row : D!Exists(q) /\ dPayments[q].reversal_of # Nothing =>
           D!Exists(dPayments[q].reversal_of)
      /\ \A q \in D!Row : D!Exists(q) /\ q # r /\ q # p => DWhole(q)
      /\ dPayments' \in [D!Row -> D!Payment \cup {Nothing}]
      /\ dAudits' \in [Request -> D!Audit \cup {Nothing}]
      /\ dPayments \in [D!Row -> D!Payment \cup {Nothing}]
      /\ dAudits \in [Request -> D!Audit \cup {Nothing}]
  <2>1. D!Busy = {r}
    BY DEF D!Busy, D!Ended
  <2> QED
    BY <2>1 DEF DSerial, DTyped, D!TypeOK, D!Row
<1>1. D!Trail(r)' = {} /\ D!Replacements(r)' = {}
  BY <1>0, DriverUnreferenced
<1>2. \A s \in Request : s # r => dPc'[s] \in {"new", "done"}
  OBVIOUS
<1>3. \A s, t \in D!Busy' : s = t
  BY <1>2 DEF D!Busy, D!Ended
<1>4. \A x \in D!Row : x # r /\ dPayments[x] # Nothing => dPayments'[x] # Nothing
  BY DEF DTouch
<1>5. ASSUME NEW s \in Request, dAudits'[s] # Nothing
      PROVE  dPayments'[dAudits'[s].payment_id] # Nothing
  <2>0. dAudits'[s] \in D!Audit
    BY <1>0, <1>5
  <2>1. dAudits'[s].payment_id \in D!Row
    BY <2>0 DEF D!Audit
  <2>2. dAudits'[s].payment_id # r
    BY <1>1, <1>5 DEF D!Trail
  <2>3. CASE s = r
    BY <1>5, <2>1, <2>3 DEF DTouch
  <2>4. CASE s # r
    BY <1>0, <1>4, <1>5, <2>1, <2>2, <2>4 DEF DTouch, D!Exists
  <2> QED
    BY <2>3, <2>4
<1>6. ASSUME NEW q \in D!Row, dPayments'[q] # Nothing, dPayments'[q].reversal_of # Nothing
      PROVE  dPayments'[dPayments'[q].reversal_of] # Nothing
  <2>0. dPayments'[q] \in D!Payment
    BY <1>0, <1>6
  <2>1. dPayments'[q].reversal_of \in D!Row
    BY <1>6, <2>0 DEF D!Payment
  <2>2. dPayments'[q].reversal_of # r
    BY <1>1, <1>6 DEF D!Replacements, D!Exists
  <2>3. CASE q = r
    BY <1>6, <2>1, <2>3 DEF DTouch
  <2>4. CASE q # r
    BY <1>0, <1>4, <1>6, <2>1, <2>2, <2>4 DEF DTouch, D!Exists
  <2> QED
    BY <2>3, <2>4
<1>7. ASSUME NEW q \in D!Row, dPayments'[q] # Nothing,
             \A s \in D!Busy' : q # s /\ q # dHand'[s].pid
      PROVE  DWhole(q)'
  <2>1. CASE q \notin {r, p}
    <3>1. DWhole(q)
      BY <1>0, <1>7, <2>1 DEF DTouch, D!Exists
    <3> QED
      BY <2>1, <3>1, DriverElsewhere
  <2>2. CASE q \in {r, p}
    <3>1. dPc'[r] = "done"
      BY <1>7, <2>2 DEF D!Busy, D!Ended
    <3>2. CASE q = p
      BY <3>1, <3>2
    <3>3. CASE q = r
      <4>1. /\ dPayments'[r].correction_count = 0 /\ ~dPayments'[r].is_reversed /\ DShown(r)'
        BY <1>7, <3>1, <3>3
      <4>2. DNumbered(D!Trail(r), 0)'
        BY <1>1, FS_EmptySet DEF DNumbered
      <4> QED
        BY <1>1, <3>3, <4>1, <4>2 DEF DWhole
    <3> QED
      BY <2>2, <3>2, <3>3
  <2> QED
    BY <2>1, <2>2
<1>8. \A s \in D!Busy' : D!Trail(s)' = {} /\ D!Replacements(s)' = {}
  BY <1>1, <1>2 DEF D!Busy, D!Ended
<1>9. ASSUME NEW s \in Request
      PROVE  /\ dPc'[s] \in DHolding => DMidway(s)'
             /\ dPc'[s] = "create_hook" =>
                  /\ dPayments'[s] # Nothing /\ dPayments'[s].reversal_of = Nothing
                  /\ ~dPayments'[s].is_reversed /\ dPayments'[s].correction_count = 0
  BY <1>2 DEF DHolding
<1> QED
  BY <1>3, <1>5, <1>6, <1>7, <1>8, <1>9 DEF DSerial, D!Exists

(* The same while a request undoes its work, by what is left to undo.      *)
DUndone(r, p, doc) ==
  /\ IF "original" \in dUndo[r]
     THEN /\ dPayments[p].is_reversed /\ "original_legs" \in dUndo[r]
          /\ dPayments[p].correction_count = doc.correction_count + 1
          /\ dPayments[p].latest_correction_id = r
     ELSE /\ ~dPayments[p].is_reversed
          /\ dPayments[p].correction_count = doc.correction_count
  /\ "original_legs" \in dUndo[r] \/ DShown(p)
  /\ IF "fresh" \in dUndo[r]
     THEN /\ D!Exists(r) /\ dPayments[r].reversal_of = p
          /\ ~dPayments[r].is_reversed /\ dPayments[r].correction_count = 0
     ELSE dPayments[r] = Nothing
  /\ IF "audit" \in dUndo[r]
     THEN /\ dAudits[r] # Nothing /\ dAudits[r].payment_id = p
          /\ dAudits[r].correction_index = doc.correction_count + 1
          /\ dAudits[r].kind = "amount_reversal_new"
     ELSE dAudits[r] = Nothing

LEMMA DriverUndone ==
  ASSUME NEW r \in Request, NEW p, NEW doc, dPc[r] = "undo"
  PROVE  DDone(r, p, doc) <=> DUndone(r, p, doc)
BY DEF DDone, DUndone, DHasFlipped, DIsStale, DHasFresh, DHasAudit

(* A request at work on a payment, whose step touches it and nothing else. *)
DAtWork(r, p, doc) ==
  /\ DTyped /\ DSerial /\ dMarred \subseteq {"step"}
  /\ r \in D!Busy /\ dPc[r] \in DHolding
  /\ dHand[r].pid = p /\ dHand[r].doc = doc
  /\ DBase(r, p, doc) /\ DDone(r, p, doc)
  /\ \A s \in Request : s # r => dPc[s] \in {"new", "done"}

(* It goes on, ...                                                         *)
LEMMA DriverGoesOn ==
  ASSUME NEW r \in Request, NEW p, NEW doc, DAtWork(r, p, doc), DTyped',
         \A s \in Request : s # r => dPc'[s] = dPc[s],
         DTouch(r, p), dPc'[r] \in DHolding, dHand'[r] = dHand[r], DDone(r, p, doc)'
  PROVE  DSerial'
<1>1. p \in D!Row /\ p # r
  BY DEF DAtWork, DBase
<1>2. DBase(r, p, doc)'
  BY DriverBase DEF DAtWork
<1>3. dHand'[r].pid = p /\ dHand'[r].doc = doc
  BY DEF DAtWork
<1>4. DMidway(r)'
  BY <1>2, <1>3 DEF DMidway
<1>5. dPc'[r] \notin {"new", "done", "create_hook"}
  BY DEF DHolding
<1> QED
  BY <1>1, <1>3, <1>4, <1>5, DriverCombines DEF DAtWork

(* ... or ends.                                                            *)
LEMMA DriverFinishes ==
  ASSUME NEW r \in Request, NEW p, NEW doc, DAtWork(r, p, doc), DTyped',
         \A s \in Request : s # r => dPc'[s] = dPc[s],
         DTouch(r, p), dPc'[r] = "done", DWhole(p)',
         dPayments'[r] # Nothing =>
           /\ ~dPayments'[r].is_reversed /\ dPayments'[r].correction_count = 0
           /\ DShown(r)'
  PROVE  DSerial'
<1>1. p \in D!Row /\ p # r
  BY DEF DAtWork, DBase
<1>2. dPc'[r] \notin {"new", "create_hook"} \cup DHolding
  BY DEF DHolding
<1> QED
  BY <1>1, <1>2, DriverCombines DEF DAtWork

(* A call of _compensate leaves what is still to be undone as it is.       *)
LEMMA DriverUndoes ==
  ASSUME NEW r \in Request, NEW p, NEW doc, DAtWork(r, p, doc), DTyped',
         \A s \in Request : s # r => dPc'[s] = dPc[s],
         DTouch(r, p), NEW item, D!UndoNext(r, item), DUndone(r, p, doc)'
  PROVE  DSerial'
<1>1. dPc \in [Request -> DSteps] /\ dUndo \in [Request -> SUBSET D!Undoing.reproject]
  BY DEF DAtWork, DTyped
<1>2. CASE dUndo[r] = {item}
  <2>1. dPc'[r] = "done" /\ dUndo'[r] = {}
    BY <1>1, <1>2 DEF D!UndoNext, D!Continue
  <2>2. /\ ~dPayments'[p].is_reversed /\ DShown(p)'
        /\ dPayments'[p].correction_count = doc.correction_count
        /\ dPayments'[r] = Nothing /\ dAudits'[r] = Nothing
    BY <2>1 DEF DUndone
  <2>3. DBase(r, p, doc)'
    BY DriverBase DEF DAtWork
  <2>4. DWhole(p)'
    BY <2>2, <2>3, DriverCloses
  <2> QED
    BY <2>1, <2>2, <2>4, DriverFinishes
<1>3. CASE dUndo[r] # {item}
  <2>1. dPc'[r] = "undo" /\ dHand'[r] = dHand[r]
    BY <1>1, <1>3 DEF D!UndoNext, D!Continue, D!Ended
  <2>2. (dPc[r] = "undo")'
    BY <2>1
  <2>3. DDone(r, p, doc)' <=> DUndone(r, p, doc)'
    BY <2>1 DEF DDone, DUndone, DHasFlipped, DIsStale, DHasFresh, DHasAudit
  <2>4. dPc'[r] \in DHolding
    BY <2>1 DEF DHolding
  <2> QED
    BY <2>1, <2>3, <2>4, DriverGoesOn
<1> QED
  BY <1>2, <1>3

(* What a request at work leaves alone, whatever it does next.             *)
LEMMA DriverTouches ==
  ASSUME NEW r \in Request, NEW p, NEW doc, DAtWork(r, p, doc),
         \A q \in D!Row : q \notin {r, p} =>
           dPayments'[q] = dPayments[q] /\ (DShown(q) => DShown(q)'),
         dPayments'[p] # Nothing,
         dPayments'[p].reversal_of = dPayments[p].reversal_of,
         dPayments'[r] # Nothing => dPayments'[r].reversal_of = p,
         \A s \in Request : s # r => dAudits'[s] = dAudits[s],
         dAudits'[r] # Nothing => dAudits'[r].payment_id = p
  PROVE  DTouch(r, p)
BY DEF DAtWork, DTouch, DBase, DDone, D!Exists

(* A step that begins its work, when nobody else is at work.               *)
LEMMA DriverSerialBegins ==
  ASSUME DInv, DTyped', NEW r \in Request, DBegins(r), dMarred \subseteq {"step"},
         dPc' = [dPc EXCEPT ![r] = dPc'[r]],
         \A s \in Request : s # r => dPc[s] \in {"new", "done"} /\ dPc'[s] = dPc[s]
  PROVE  DSerial'
<1> USE NoDocument
<1>0. /\ DTyped /\ DUnwritten /\ DSerial /\ r \in D!Row /\ r # Nothing
      /\ dPayments \in [D!Row -> D!Payment \cup {Nothing}]
      /\ dAudits \in [Request -> D!Audit \cup {Nothing}]
      /\ dPc[r] = "new" /\ dPayments[r] = Nothing /\ dAudits[r] = Nothing
      /\ dPc'[r] \in {"create", "attr_audit", "insert"}
      /\ UNCHANGED <<dPayments, dAudits, dLegs, dOwed, dUndo>>
  BY DEF DInv, DTyped, D!TypeOK, D!Row, DUnwritten, DBegins
<1>1. D!Busy = {} /\ D!Busy' = {r}
  BY <1>0 DEF D!Busy, D!Ended
<1>2. /\ \A q \in D!Row : D!Exists(q) => DWhole(q)
      /\ \A s \in Request : dAudits[s] # Nothing => D!Exists(dAudits[s].payment_id)
      /\ \A q \in D!Row : D!Exists(q) /\ dPayments[q].reversal_of # Nothing =>
           D!Exists(dPayments[q].reversal_of)
  BY <1>0, <1>1 DEF DSerial
<1>3. D!Trail(r) = {} /\ D!Replacements(r) = {}
  BY <1>0, <1>2 DEF D!Trail, D!Replacements, D!Exists
<1>4. \A q \in D!Row : /\ D!Trail(q)' = D!Trail(q) /\ D!Replacements(q)' = D!Replacements(q)
                       /\ DShown(q) => DShown(q)'
  BY <1>0 DEF D!Trail, D!Replacements, DShown, D!View, D!Live, D!Exists
<1>5. \A q \in D!Row : DWhole(q) => DWhole(q)'
  BY <1>0, <1>4 DEF DWhole, DNumbered
<1>6. ASSUME dPc'[r] \in DHolding
      PROVE  DMidway(r)'
  <2>1. /\ dPc'[r] \in {"attr_audit", "insert"}
        /\ dHand'[r].pid \in D!Row /\ D!Live(dHand'[r].pid)
        /\ dHand'[r].doc = dPayments[dHand'[r].pid]
    BY <1>0, <1>6 DEF DBegins, DHolding
  <2>2. PICK p \in D!Row : p = dHand'[r].pid
    BY <2>1
  <2>3. PICK doc \in D!Payment : doc = dHand'[r].doc
    BY <1>0, <2>1 DEF D!Live, D!Exists
  <2>4. /\ D!Exists(p) /\ dPayments[p] = doc /\ ~doc.is_reversed /\ p # r
        /\ doc.correction_count \in Nat
    BY <1>0, <2>1, <2>2, <2>3 DEF D!Live, D!Exists, D!Payment
  <2>5. DWhole(p)
    BY <1>2, <2>4
  <2>6. /\ D!Replacements(p) = {} /\ \A s \in D!Trail(p) : dAudits[s].kind = "attribute"
        /\ DNumbered(D!Trail(p), doc.correction_count) /\ DShown(p)
    BY <2>4, <2>5 DEF DWhole
  <2>7. D!Trail(p) \ {r} = D!Trail(p) /\ D!Replacements(p) \ {r} = {}
    BY <1>0, <2>6 DEF D!Trail
  <2>8. DBase(r, p, doc)
    BY <2>4, <2>6, <2>7 DEF DBase
  <2>9. DBase(r, p, doc)'
    <3>1. D!Trail(p)' = D!Trail(p) /\ D!Replacements(p)' = D!Replacements(p)
      BY <1>4
    <3>2. DNumbered(D!Trail(p) \ {r}, doc.correction_count)'
      BY <1>0, <2>8, <3>1 DEF DBase, DNumbered
    <3> QED
      BY <1>0, <2>8, <3>1, <3>2 DEF DBase, D!Exists
  <2>10. DDone(r, p, doc)'
    BY <1>0, <1>4, <2>1, <2>4, <2>6
      DEF DDone, DHasFlipped, DIsStale, DHasFresh, DHasAudit
  <2> QED
    BY <2>2, <2>3, <2>9, <2>10 DEF DMidway
<1>7. \A s \in Request : /\ dPc'[s] \in DHolding => DMidway(s)'
                         /\ dPc'[s] # "create_hook"
  BY <1>0, <1>6 DEF DHolding
<1> QED
  BY <1>0, <1>1, <1>2, <1>3, <1>4, <1>5, <1>7 DEF DSerial, D!Exists

(* A step of a request that creates a payment.                             *)
LEMMA DriverSerialCreates ==
  ASSUME DInv, DTyped', NEW r \in Request, DStep(r), dPc[r] \in {"create", "create_hook"},
         dMarred' \subseteq {"step"}, dMarred \subseteq {"step"},
         dPc' = [dPc EXCEPT ![r] = dPc'[r]], dPc'[r] # "new",
         \A s \in Request : s # r => dPc[s] \in {"new", "done"} /\ dPc'[s] = dPc[s]
  PROVE  DSerial'
<1> USE NoDocument
<1>0. /\ DTyped /\ DUnwritten /\ DSerial /\ r \in D!Row /\ r # Nothing /\ Nothing \notin D!Row
      /\ dPayments \in [D!Row -> D!Payment \cup {Nothing}]
      /\ dAudits \in [Request -> D!Audit \cup {Nothing}]
      /\ dPc \in [Request -> DSteps]
      /\ dAudits[r] = Nothing /\ dHand[r].pid = Nothing /\ r \in D!Busy
      /\ dPc[r] = "create" => dPayments[r] = Nothing
      /\ dPc[r] = "create_hook" =>
           /\ dPayments[r] # Nothing /\ dPayments[r].reversal_of = Nothing
           /\ ~dPayments[r].is_reversed /\ dPayments[r].correction_count = 0
  BY DEF DInv, DTyped, D!TypeOK, D!Row, DUnwritten, DHeld, DHolds, D!Busy, D!Ended, DSerial,
    D!Exists
<1>1. ASSUME UNCHANGED dAudits, dPc'[r] \in {"create_hook", "done"},
             dPc'[r] = "create_hook" => dHand' = dHand,
             \A q \in D!Row : q # r => dPayments'[q] = dPayments[q] /\ (DShown(q) => DShown(q)'),
             dPayments'[r] # Nothing =>
               /\ dPayments'[r].reversal_of = Nothing
               /\ ~dPayments'[r].is_reversed /\ dPayments'[r].correction_count = 0
               /\ dPc'[r] = "done" => DShown(r)',
             dPc'[r] = "create_hook" => dPayments'[r] # Nothing
      PROVE  DSerial'
  <2>1. DTouch(r, Nothing)
    BY <1>0, <1>1 DEF DTouch
  <2>2. dPc'[r] \notin DHolding
    BY <1>1 DEF DHolding
  <2> QED
    BY <1>0, <1>1, <2>1, <2>2, DriverCombines
<1>2. \A q \in D!Row : q # r /\ dPayments'[q] = dPayments[q] /\ UNCHANGED <<dLegs, dOwed>>
        => (DShown(q) => DShown(q)')
  BY DEF DShown, D!View, D!Live, D!Exists
<1>3. CASE DInserts(r)
  <2>1. PICK d \in D!Payment :
          /\ dPayments' = [dPayments EXCEPT ![r] = d] /\ d.reversal_of = Nothing
          /\ ~d.is_reversed /\ d.correction_count = 0
    BY <1>0, <1>3 DEF DInserts
  <2>2. dPayments'[r] = d /\ \A q \in D!Row : q # r => dPayments'[q] = dPayments[q]
    BY <1>0, <2>1
  <2>3. /\ dPc'[r] = "create_hook" /\ UNCHANGED <<dAudits, dHand, dLegs, dOwed>>
    BY <1>3 DEF DInserts
  <2> QED
    BY <1>1, <1>2, <2>1, <2>2, <2>3
<1>4. CASE DProjects(r)
  <2>1. /\ dPc[r] = "create_hook" /\ dPc'[r] = "done" /\ UNCHANGED <<dPayments, dAudits>>
        /\ D!HookOk(r) \/ D!HookFails(r)
    BY <1>4 DEF DProjects, D!UndoNext
  <2>2. DShown(r)' /\ \A q \in D!Row : DShown(q) => DShown(q)'
    BY <1>0, <2>1, DriverShown
  <2> QED
    BY <1>0, <1>1, <2>1, <2>2
<1>5. CASE DEnds(r)
  <2>1. dPc[r] = "create" /\ dPc'[r] = "done" /\ UNCHANGED <<dPayments, dAudits, dLegs, dOwed>>
    BY <1>5 DEF DEnds
  <2> QED
    BY <1>0, <1>1, <1>2, <2>1
<1> QED
  BY <1>3, <1>4, <1>5 DEF DStep, DBegins, DAudits, DChanges, DDrops, D!StepRaises, D!Undoing,
    D!UndoFails, D!UndoNext

(* The steps of a correction.                                              *)
LEMMA DriverSerialInserts ==
  ASSUME NEW r \in Request, NEW p, NEW doc, DAtWork(r, p, doc), DTyped',
         dPc' = [dPc EXCEPT ![r] = dPc'[r]], DInserts(r) \/ DAudits(r)
  PROVE  DSerial'
<1> USE NoDocument
<1>0. /\ r \in D!Row /\ p \in D!Row /\ p # r /\ D!Exists(p)
      /\ dHand[r].pid = p /\ dHand[r].doc = doc /\ dPc[r] \in DHolding
      /\ dPc \in [Request -> DSteps] /\ dHand' = dHand
      /\ \A s \in Request : s # r => dPc'[s] = dPc[s]
      /\ dPayments \in [D!Row -> D!Payment \cup {Nothing}]
      /\ dAudits \in [Request -> D!Audit \cup {Nothing}]
      /\ UNCHANGED <<dLegs, dOwed, dUndo>>
      /\ DDone(r, p, doc)
  BY DEF DAtWork, DBase, DTyped, D!TypeOK, D!Row, DInserts, DAudits
<1>1. \A q \in D!Row : dPayments'[q] = dPayments[q] => (DShown(q) => DShown(q)')
  BY <1>0 DEF DShown, D!View, D!Live, D!Exists
<1>2. CASE DInserts(r)
  <2>1. PICK d \in D!Payment :
          /\ dPayments' = [dPayments EXCEPT ![r] = d] /\ d.reversal_of = p
          /\ ~d.is_reversed /\ d.correction_count = 0
    BY <1>0, <1>2 DEF DInserts, DHolding
  <2>2. /\ dPc[r] = "insert" /\ dPc'[r] = "project" /\ UNCHANGED dAudits
    BY <1>0, <1>2 DEF DInserts, DHolding
  <2>3. dPayments'[r] = d /\ \A q \in D!Row : q # r => dPayments'[q] = dPayments[q]
    BY <1>0, <2>1
  <2>4. DTouch(r, p)
    <3>1. dAudits'[r] # Nothing => dAudits'[r].payment_id = p
      BY <1>0, <2>2 DEF DDone
    <3> QED
      BY <1>0, <1>1, <2>1, <2>2, <2>3, <3>1, DriverTouches DEF D!Exists
  <2>5. /\ ~dPayments[p].is_reversed /\ DShown(p) /\ dAudits[r] = Nothing
        /\ dPayments[p].correction_count = doc.correction_count
    BY <1>0, <2>2 DEF DDone, DHasFlipped, DIsStale, DHasAudit
  <2>6. DDone(r, p, doc)'
    <3>1. d # Nothing
      BY <2>1
    <3> QED
      BY <1>0, <1>1, <2>1, <2>2, <2>3, <2>5, <3>1
        DEF DDone, DHasFlipped, DIsStale, DHasFresh, DHasAudit, D!Exists
  <2> QED
    BY <1>0, <2>2, <2>4, <2>6, DriverGoesOn DEF DHolding
<1>3. CASE DAudits(r)
  <2>1. PICK c \in D!Audit :
          /\ dAudits' = [dAudits EXCEPT ![r] = c] /\ c.payment_id = p
          /\ c.correction_index = doc.correction_count + 1
          /\ \/ dPc[r] = "attr_audit" /\ dPc'[r] = "attr_write" /\ c.kind = "attribute"
             \/ dPc[r] = "audit" /\ dPc'[r] = "flip" /\ c.kind = "amount_reversal_new"
    BY <1>0, <1>3 DEF DAudits
  <2>2. dPc[r] \in {"attr_audit", "audit"} /\ UNCHANGED dPayments
    BY <1>3 DEF DAudits
  <2>3. /\ dAudits'[r] = c /\ c # Nothing
        /\ \A s \in Request : s # r => dAudits'[s] = dAudits[s]
    BY <1>0, <2>1
  <2>4. DTouch(r, p)
    <3>1. dPayments'[r] # Nothing => dPayments'[r].reversal_of = p
      BY <1>0, <2>2 DEF DDone
    <3> QED
      BY <1>0, <1>1, <2>1, <2>2, <2>3, <3>1, DriverTouches DEF D!Exists
  <2>5. /\ ~dPayments[p].is_reversed /\ DShown(p)
        /\ dPayments[p].correction_count = doc.correction_count
        /\ IF dPc[r] = "audit"
           THEN /\ D!Exists(r) /\ dPayments[r].reversal_of = p /\ DShown(r)
                /\ ~dPayments[r].is_reversed /\ dPayments[r].correction_count = 0
           ELSE dPayments[r] = Nothing
    BY <1>0, <2>2 DEF DDone, DHasFlipped, DIsStale, DHasFresh
  <2>6. DDone(r, p, doc)'
    BY <1>0, <1>1, <2>1, <2>2, <2>3, <2>5
      DEF DDone, DHasFlipped, DIsStale, DHasFresh, DHasAudit, D!Exists
  <2> QED
    BY <1>0, <2>1, <2>4, <2>6, DriverGoesOn DEF DHolding
<1> QED
  BY <1>2, <1>3

LEMMA DriverSerialChanges ==
  ASSUME NEW r \in Request, NEW p, NEW doc, DAtWork(r, p, doc), DTyped',
         dPc' = [dPc EXCEPT ![r] = dPc'[r]], DChanges(r)
  PROVE  DSerial'
<1> USE NoDocument
<1>0. /\ r \in D!Row /\ p \in D!Row /\ p # r /\ D!Exists(p) /\ ~doc.is_reversed
      /\ dHand[r].pid = p /\ dHand[r].doc = doc /\ dPc[r] \in DHolding
      /\ dPc \in [Request -> DSteps]
      /\ \A s \in Request : s # r => dPc'[s] = dPc[s]
      /\ dPayments \in [D!Row -> D!Payment \cup {Nothing}]
      /\ UNCHANGED <<dAudits, dLegs, dOwed>>
      /\ DDone(r, p, doc)
  BY DEF DAtWork, DBase, DTyped, D!TypeOK, D!Row, DChanges
<1>1. PICK d \in D!Payment :
        dPayments' = [dPayments EXCEPT ![p] = d] /\ DChange(r, dPayments[p], d)
  BY <1>0 DEF DChanges
<1>2. /\ dPayments'[p] = d /\ d # Nothing
      /\ \A q \in D!Row : q # p => dPayments'[q] = dPayments[q]
      /\ dPayments'[r] = dPayments[r]
      /\ d.reversal_of = dPayments[p].reversal_of /\ d.amount = dPayments[p].amount
  BY <1>0, <1>1 DEF DChange
<1>3. \A q \in D!Row : q # p => (DShown(q) => DShown(q)')
  BY <1>0, <1>2 DEF DShown, D!View, D!Live, D!Exists
<1>4. DTouch(r, p)
  <2>1. /\ dPayments'[r] # Nothing => dPayments'[r].reversal_of = p
        /\ dAudits'[r] # Nothing => dAudits'[r].payment_id = p
    BY <1>0, <1>2 DEF DDone
  <2> QED
    BY <1>0, <1>2, <1>3, <2>1, DriverTouches
<1>5. CASE dPc[r] = "attr_write"
  <2>1. /\ dPc'[r] = "done" /\ ~dPayments[p].is_reversed /\ DShown(p)
        /\ dPayments[r] = Nothing
        /\ dAudits[r] # Nothing /\ dAudits[r].payment_id = p
        /\ dAudits[r].correction_index = doc.correction_count + 1
        /\ dAudits[r].kind = "attribute"
    BY <1>0, <1>5 DEF DChanges, D!UndoNext, DDone, DHasFlipped, DIsStale, DHasFresh, DHasAudit
  <2>2. ~d.is_reversed /\ d.correction_count = doc.correction_count + 1
    BY <1>0, <1>1, <1>5, <2>1 DEF DChange
  <2>3. DShown(p)'
    BY <1>0, <1>2, <2>1, <2>2 DEF DShown, D!View, D!Live, D!Exists
  <2>4. DWhole(p)'
    <3>1. DBase(r, p, doc)'
      BY <1>4, DriverBase DEF DAtWork
    <3> QED
      BY <1>0, <1>2, <2>1, <2>2, <2>3, <3>1, DriverCloses
  <2> QED
    BY <1>0, <1>2, <1>4, <2>1, <2>4, DriverFinishes
<1>6. CASE dPc[r] = "flip"
  <2>1. /\ dPc'[r] = "reproject" /\ dHand' = dHand
        /\ D!Exists(r) /\ dPayments[r].reversal_of = p /\ DShown(r)
        /\ ~dPayments[r].is_reversed /\ dPayments[r].correction_count = 0
        /\ dAudits[r] # Nothing /\ dAudits[r].payment_id = p
        /\ dAudits[r].correction_index = doc.correction_count + 1
        /\ dAudits[r].kind = "amount_reversal_new"
    BY <1>0, <1>6 DEF DChanges, D!UndoNext, DDone, DHasFlipped, DIsStale, DHasFresh, DHasAudit
  <2>2. /\ d.is_reversed /\ d.correction_count = doc.correction_count + 1
        /\ d.latest_correction_id = r
    BY <1>0, <1>1, <1>6 DEF DChange
  <2>3. DShown(r)'
    BY <1>0, <1>3, <2>1
  <2>4. DDone(r, p, doc)'
    BY <1>0, <1>2, <2>1, <2>2, <2>3
      DEF DDone, DHasFlipped, DIsStale, DHasFresh, DHasAudit, D!Exists
  <2> QED
    BY <1>0, <1>4, <2>1, <2>4, DriverGoesOn DEF DHolding
<1>7. CASE D!UndoNext(r, "original")
  <2>1. dPc[r] = "undo" /\ "original" \in dUndo[r] /\ dUndo'[r] = dUndo[r] \ {"original"}
    BY <1>7 DEF D!UndoNext, DAtWork, DTyped
  <2>2. DUndone(r, p, doc)
    BY <1>0, <2>1, DriverUndone
  <2>3. ~d.is_reversed /\ d.correction_count = doc.correction_count
    BY <1>0, <1>1, <2>1 DEF DChange
  <2>4. "original_legs" \in dUndo'[r]
    BY <2>1, <2>2 DEF DUndone
  <2>5. DUndone(r, p, doc)'
    BY <1>0, <1>2, <2>1, <2>2, <2>3, <2>4 DEF DUndone, D!Exists
  <2> QED
    BY <1>0, <1>4, <1>7, <2>5, DriverUndoes
<1> QED
  BY <1>5, <1>6, <1>7 DEF DChanges

LEMMA DriverSerialProjects ==
  ASSUME NEW r \in Request, NEW p, NEW doc, DAtWork(r, p, doc), DTyped',
         dPc' = [dPc EXCEPT ![r] = dPc'[r]], DProjects(r)
  PROVE  DSerial'
<1> USE NoDocument
<1>0. /\ r \in D!Row /\ p \in D!Row /\ p # r /\ D!Exists(p)
      /\ dHand[r].pid = p /\ dHand[r].doc = doc /\ dPc[r] \in DHolding
      /\ dPc \in [Request -> DSteps] /\ DTyped
      /\ \A s \in Request : s # r => dPc'[s] = dPc[s]
      /\ UNCHANGED <<dPayments, dAudits>>
      /\ DDone(r, p, doc)
  BY DEF DAtWork, DBase, DTyped, D!TypeOK, D!Row, DProjects
<1>1. PICK x \in {r, p} :
        /\ D!HookOk(x) \/ D!HookFails(x)
        /\ x = IF dPc[r] = "project" THEN r ELSE p
  BY <1>0 DEF DProjects, D!UndoNext, DHolding
<1>2. DShown(x)' /\ \A q \in D!Row : DShown(q) => DShown(q)'
  BY <1>0, <1>1, DriverShown
<1>3. DTouch(r, p)
  <2>1. /\ dPayments'[r] # Nothing => dPayments'[r].reversal_of = p
        /\ dAudits'[r] # Nothing => dAudits'[r].payment_id = p
    BY <1>0 DEF DDone
  <2> QED
    BY <1>0, <1>2, <2>1, DriverTouches DEF D!Exists
<1>4. CASE dPc[r] = "project"
  <2>1. /\ dPc'[r] = "audit" /\ dHand' = dHand /\ x = r
    BY <1>0, <1>1, <1>4 DEF DProjects, D!UndoNext
  <2>2. /\ ~dPayments[p].is_reversed /\ DShown(p) /\ dAudits[r] = Nothing
        /\ dPayments[p].correction_count = doc.correction_count
        /\ D!Exists(r) /\ dPayments[r].reversal_of = p
        /\ ~dPayments[r].is_reversed /\ dPayments[r].correction_count = 0
    BY <1>0, <1>4 DEF DDone, DHasFlipped, DIsStale, DHasFresh, DHasAudit
  <2>3. DDone(r, p, doc)'
    BY <1>0, <1>2, <2>1, <2>2 DEF DDone, DHasFlipped, DIsStale, DHasFresh, DHasAudit, D!Exists
  <2> QED
    BY <1>0, <1>3, <2>1, <2>3, DriverGoesOn DEF DHolding
<1>5. CASE dPc[r] = "reproject"
  <2>1. dPc'[r] = "done" /\ x = p
    BY <1>0, <1>1, <1>5 DEF DProjects, D!UndoNext
  <2>2. /\ dPayments[p].is_reversed
        /\ dPayments[p].correction_count = doc.correction_count + 1
        /\ dPayments[p].latest_correction_id = r
        /\ D!Exists(r) /\ dPayments[r].reversal_of = p /\ DShown(r)
        /\ ~dPayments[r].is_reversed /\ dPayments[r].correction_count = 0
        /\ dAudits[r] # Nothing /\ dAudits[r].payment_id = p
        /\ dAudits[r].correction_index = doc.correction_count + 1
        /\ dAudits[r].kind = "amount_reversal_new"
    BY <1>0, <1>5 DEF DDone, DHasFlipped, DIsStale, DHasFresh, DHasAudit
  <2>3. DWhole(p)'
    <3>1. DBase(r, p, doc)'
      BY <1>3, DriverBase DEF DAtWork
    <3> QED
      BY <1>0, <1>2, <2>1, <2>2, <3>1, DriverCloses DEF D!Exists
  <2> QED
    BY <1>0, <1>2, <1>3, <2>1, <2>2, <2>3, DriverFinishes
<1>6. CASE D!UndoNext(r, "original_legs")
  <2>1. /\ dPc[r] = "undo" /\ dUndo'[r] = dUndo[r] \ {"original_legs"}
        /\ "original" \notin dUndo[r]
    BY <1>6 DEF D!UndoNext, D!Before, DAtWork, DTyped
  <2>2. DUndone(r, p, doc) /\ x = p
    BY <1>0, <1>1, <2>1, DriverUndone
  <2>3. DUndone(r, p, doc)'
    BY <1>0, <1>2, <2>1, <2>2 DEF DUndone, D!Exists
  <2> QED
    BY <1>0, <1>3, <1>6, <2>3, DriverUndoes
<1> QED
  BY <1>0, <1>4, <1>5, <1>6 DEF DProjects, DHolding

LEMMA DriverSerialDrops ==
  ASSUME NEW r \in Request, NEW p, NEW doc, DAtWork(r, p, doc), DTyped',
         dPc' = [dPc EXCEPT ![r] = dPc'[r]], DDrops(r)
  PROVE  DSerial'
<1> USE NoDocument
<1>0. /\ r \in D!Row /\ p \in D!Row /\ p # r /\ D!Exists(p)
      /\ dPc \in [Request -> DSteps] /\ dPc[r] = "undo"
      /\ dUndo \in [Request -> SUBSET D!Undoing.reproject]
      /\ dPayments \in [D!Row -> D!Payment \cup {Nothing}]
      /\ dAudits \in [Request -> D!Audit \cup {Nothing}]
      /\ dLegs \in [D!Row -> Amount \cup {Nothing}]
      /\ \A s \in Request : s # r => dPc'[s] = dPc[s]
      /\ DDone(r, p, doc)
  BY DEF DAtWork, DBase, DTyped, D!TypeOK, D!Row, DDrops
<1>1. DUndone(r, p, doc)
  BY <1>0, DriverUndone
<1>2. /\ dPayments[r] # Nothing => dPayments[r].reversal_of = p
      /\ dAudits[r] # Nothing => dAudits[r].payment_id = p
  BY <1>0 DEF DDone
<1>3. \A q \in D!Row : q # r /\ dPayments'[q] = dPayments[q] /\ dLegs'[q] = dLegs[q] /\ dOwed' = dOwed
        => (DShown(q) => DShown(q)')
  BY DEF DShown, D!View, D!Live, D!Exists
<1>4. CASE D!DropFresh(r)
  <2>1. /\ dUndo'[r] = dUndo[r] \ {"fresh"} /\ D!UndoNext(r, "fresh")
        /\ dPayments'[r] = Nothing
        /\ \A q \in D!Row : q # r => dPayments'[q] = dPayments[q]
        /\ UNCHANGED <<dAudits, dLegs, dOwed>>
    BY <1>0, <1>4 DEF D!DropFresh, D!UndoNext
  <2>2. DTouch(r, p)
    <3>1. dPayments'[p] = dPayments[p] /\ dPayments[p] # Nothing
      BY <1>0, <2>1 DEF D!Exists
    <3> QED
      BY <1>0, <1>2, <1>3, <2>1, <3>1, DriverTouches
  <2>3. DShown(p) => DShown(p)'
    BY <1>0, <1>3, <2>1
  <2>4. DUndone(r, p, doc)'
    BY <1>0, <1>1, <2>1, <2>3 DEF DUndone, D!Exists
  <2> QED
    BY <1>0, <2>1, <2>2, <2>4, DriverUndoes
<1>5. CASE D!DropFreshLegs(r)
  <2>1. /\ dUndo'[r] = dUndo[r] \ {"fresh_legs"} /\ D!UndoNext(r, "fresh_legs")
        /\ \A q \in D!Row : q # r => dLegs'[q] = dLegs[q]
        /\ UNCHANGED <<dPayments, dAudits, dOwed>>
    BY <1>0, <1>5 DEF D!DropFreshLegs, D!UndoNext
  <2>2. DTouch(r, p)
    BY <1>0, <1>2, <1>3, <2>1, DriverTouches DEF D!Exists
  <2>3. DShown(p) => DShown(p)'
    BY <1>0, <1>3, <2>1
  <2>4. DUndone(r, p, doc)'
    BY <1>0, <1>1, <2>1, <2>3 DEF DUndone, D!Exists
  <2> QED
    BY <1>0, <2>1, <2>2, <2>4, DriverUndoes
<1>6. CASE D!DropAudit(r)
  <2>1. /\ dUndo'[r] = dUndo[r] \ {"audit"} /\ D!UndoNext(r, "audit")
        /\ dAudits'[r] = Nothing
        /\ \A s \in Request : s # r => dAudits'[s] = dAudits[s]
        /\ UNCHANGED <<dPayments, dLegs, dOwed>>
    BY <1>0, <1>6 DEF D!DropAudit, D!UndoNext
  <2>2. DTouch(r, p)
    BY <1>0, <1>2, <1>3, <2>1, DriverTouches DEF D!Exists
  <2>3. DShown(p) => DShown(p)'
    BY <1>0, <1>3, <2>1
  <2>4. DUndone(r, p, doc)'
    BY <1>0, <1>1, <2>1, <2>3 DEF DUndone, D!Exists
  <2> QED
    BY <1>0, <2>1, <2>2, <2>4, DriverUndoes
<1> QED
  BY <1>4, <1>5, <1>6 DEF DDrops

(* A step raises: all that was done is to be undone.                       *)
LEMMA DriverSerialRaises ==
  ASSUME NEW r \in Request, NEW p, NEW doc, DAtWork(r, p, doc), DTyped',
         dPc' = [dPc EXCEPT ![r] = dPc'[r]], D!StepRaises(r)
  PROVE  DSerial'
<1> USE NoDocument
<1>0. /\ r \in D!Row /\ p \in D!Row /\ p # r /\ D!Exists(p) /\ DTyped
      /\ dPc \in [Request -> DSteps]
      /\ dPc[r] \in {"project", "audit", "flip", "reproject"}
      /\ dUndo \in [Request -> SUBSET D!Undoing.reproject]
      /\ dHand[r].pid = p /\ dHand' = dHand
      /\ UNCHANGED <<dPayments, dAudits>>
      /\ \A s \in Request : s # r => dPc'[s] = dPc[s]
      /\ DDone(r, p, doc)
  BY DEF DAtWork, DBase, DTyped, D!TypeOK, D!Row, D!StepRaises, D!Undoing
<1>1. dPc'[r] = "undo" /\ dUndo'[r] = D!Undoing[dPc[r]]
  BY <1>0 DEF D!StepRaises
<1>2. /\ dPc[r] = "project" => D!HookFails(r)
      /\ dPc[r] = "reproject" => D!HookFails(p)
      /\ dPc[r] \in {"audit", "flip"} => UNCHANGED <<dLegs, dOwed>>
  BY <1>0 DEF D!StepRaises
<1>3. \A q \in D!Row : DShown(q) => DShown(q)'
  <2>1. CASE dPc[r] \in {"audit", "flip"}
    BY <1>0, <1>2, <2>1 DEF DShown, D!View, D!Live, D!Exists
  <2>2. CASE dPc[r] \in {"project", "reproject"}
    BY <1>0, <1>2, <2>2, DriverShown
  <2> QED
    BY <1>0, <2>1, <2>2
<1>4. DTouch(r, p)
  <2>1. /\ dPayments'[r] # Nothing => dPayments'[r].reversal_of = p
        /\ dAudits'[r] # Nothing => dAudits'[r].payment_id = p
    BY <1>0 DEF DDone
  <2> QED
    BY <1>0, <1>3, <2>1, DriverTouches DEF D!Exists
<1>5. DDone(r, p, doc)'
  <2>1. /\ DHasFresh(r)' /\ DHasFresh(r)
        /\ DHasAudit(r)' <=> DHasAudit(r)
        /\ DHasFlipped(r)' <=> DHasFlipped(r)
        /\ DIsStale(r)' <=> DIsStale(r)
    BY <1>0, <1>1 DEF DHasFresh, DHasAudit, DHasFlipped, DIsStale, D!Undoing
  <2> QED
    BY <1>0, <1>1, <1>3, <2>1 DEF DDone, D!Exists
<1> QED
  BY <1>0, <1>1, <1>4, <1>5, DriverGoesOn DEF DHolding

(* It fails before it has done anything.                                   *)
LEMMA DriverSerialEnds ==
  ASSUME NEW r \in Request, NEW p, NEW doc, DAtWork(r, p, doc), DTyped',
         dPc' = [dPc EXCEPT ![r] = dPc'[r]], dMarred' \subseteq {"step"}, DEnds(r)
  PROVE  DSerial'
<1> USE NoDocument
<1>0. /\ r \in D!Row /\ p \in D!Row /\ p # r /\ D!Exists(p)
      /\ dPc \in [Request -> DSteps]
      /\ dPc[r] \in {"attr_audit", "insert"} /\ dPc'[r] = "done"
      /\ UNCHANGED <<dPayments, dAudits, dLegs, dOwed>>
      /\ \A s \in Request : s # r => dPc'[s] = dPc[s]
      /\ DDone(r, p, doc)
  BY DEF DAtWork, DBase, DTyped, D!TypeOK, D!Row, DEnds, DHolding
<1>1. /\ ~dPayments[p].is_reversed /\ DShown(p)
      /\ dPayments[p].correction_count = doc.correction_count
      /\ dPayments[r] = Nothing /\ dAudits[r] = Nothing
  BY <1>0 DEF DDone, DHasFlipped, DIsStale, DHasFresh, DHasAudit
<1>2. \A q \in D!Row : DShown(q) => DShown(q)'
  BY <1>0 DEF DShown, D!View, D!Live, D!Exists
<1>3. DTouch(r, p)
  BY <1>0, <1>1, <1>2, DriverTouches DEF D!Exists
<1>4. DWhole(p)'
  <2>1. DBase(r, p, doc)'
    BY <1>3, DriverBase DEF DAtWork
  <2> QED
    BY <1>0, <1>1, <1>2, <2>1, DriverCloses
<1> QED
  BY <1>0, <1>1, <1>3, <1>4, DriverFinishes

LEMMA DriverSerial ==
  ASSUME DInv, NEW r \in Request, D!Step(r)
  PROVE  DSerial'
<1>1. SUFFICES ASSUME dMarred' \subseteq {"step"}
               PROVE  DSerial'
  BY DEF DSerial
<1>2. /\ DTyped /\ DHeld /\ DUnwritten /\ DSerial /\ DStep(r)
      /\ dPc' = [dPc EXCEPT ![r] = dPc'[r]] /\ dPc \in [Request -> DSteps]
  BY DriverKinds, DriverMoves DEF DInv, DTyped
<1>3. DTyped'
  BY DriverTyped
<1>4. /\ dMarred \subseteq {"step"} /\ dPc'[r] # "new"
      /\ \A s \in Request : s # r => dPc[s] \in {"new", "done"} /\ dPc'[s] = dPc[s]
  BY <1>1, <1>2, DriverAlone
<1>5. CASE DBegins(r)
  BY <1>2, <1>3, <1>4, <1>5, DriverSerialBegins
<1>6. CASE dPc[r] \in {"create", "create_hook"}
  BY <1>1, <1>2, <1>3, <1>4, <1>6, DriverSerialCreates
<1>7. CASE dPc[r] \in DHolding
  <2>1. DMidway(r) /\ r \in D!Busy
    BY <1>2, <1>4, <1>7 DEF DSerial, DHolding, D!Busy, D!Ended
  <2>2. PICK p, doc : /\ p = dHand[r].pid /\ doc = dHand[r].doc
                      /\ DBase(r, p, doc) /\ DDone(r, p, doc)
    BY <2>1 DEF DMidway
  <2>3. DAtWork(r, p, doc)
    BY <1>2, <1>4, <1>7, <2>1, <2>2 DEF DAtWork
  <2>4. ~DBegins(r) /\ ~D!UndoFails(r)
    BY <1>1, <1>7 DEF DBegins, D!UndoFails, DHolding
  <2>5. CASE DInserts(r) \/ DAudits(r)
    BY <1>2, <1>3, <2>3, <2>5, DriverSerialInserts
  <2>6. CASE DChanges(r)
    BY <1>2, <1>3, <2>3, <2>6, DriverSerialChanges
  <2>7. CASE DProjects(r)
    BY <1>2, <1>3, <2>3, <2>7, DriverSerialProjects
  <2>8. CASE DDrops(r)
    BY <1>2, <1>3, <2>3, <2>8, DriverSerialDrops
  <2>9. CASE D!StepRaises(r)
    BY <1>2, <1>3, <2>3, <2>9, DriverSerialRaises
  <2>10. CASE DEnds(r)
    BY <1>1, <1>2, <1>3, <2>3, <2>10, DriverSerialEnds
  <2> QED
    BY <1>2, <2>4, <2>5, <2>6, <2>7, <2>8, <2>9, <2>10 DEF DStep
<1>8. dPc[r] \in {"new", "done"} => DBegins(r)
  BY <1>2 DEF DStep, DInserts, DAudits, DChanges, DProjects, DDrops, D!StepRaises, D!UndoFails,
    DEnds, D!UndoNext, D!Undoing
<1> QED
  BY <1>2, <1>5, <1>6, <1>7, <1>8 DEF DSteps

(* The retry driver projects a payment whose repair is owed.               *)
LEMMA DriverReplay ==
  ASSUME DInv, NEW x \in D!Row, D!Replay(x)
  PROVE  DInv'
<1>0. /\ DTyped /\ UNCHANGED <<dPayments, dAudits, dPc, dHand, dUndo, dMarred>>
      /\ D!HookOk(x)
      /\ dPayments \in [D!Row -> D!Payment \cup {Nothing}]
      /\ dLegs \in [D!Row -> Amount \cup {Nothing}] /\ dOwed \subseteq D!Row
  BY DEF DInv, DTyped, D!TypeOK, D!Replay
<1>1. \A q \in D!Row : DShown(q) => DShown(q)'
  BY <1>0, DriverShown
<1>2. DTyped'
  <2>1. D!View(x) \in Amount \cup {Nothing}
    BY <1>0 DEF D!View, D!Live, D!Exists, D!Payment
  <2>2. dLegs' \in [D!Row -> Amount \cup {Nothing}] /\ dOwed' \subseteq D!Row
    BY <1>0, <2>1 DEF D!HookOk
  <2> QED
    BY <1>0, <2>2 DEF DTyped, D!TypeOK
<1>3. DHeld' /\ DUnwritten' /\ DKept' /\ D!NeverLost'
  BY <1>0 DEF DInv, DHeld, DHolds, DUnwritten, DKept, D!NeverLost, D!Exists, D!Trail
<1>4. \A q \in D!Row : D!Trail(q)' = D!Trail(q) /\ D!Replacements(q)' = D!Replacements(q)
  BY <1>0 DEF D!Trail, D!Replacements, D!Exists
<1>5. ASSUME NEW q \in D!Row, DWhole(q)
      PROVE  DWhole(q)'
  BY <1>0, <1>1, <1>4, <1>5 DEF DWhole, DNumbered
<1>6. ASSUME NEW r \in Request, DMidway(r)
      PROVE  DMidway(r)'
  <2>1. PICK p, doc : /\ p = dHand[r].pid /\ doc = dHand[r].doc
                      /\ DBase(r, p, doc) /\ DDone(r, p, doc)
    BY <1>6 DEF DMidway
  <2>2. p \in D!Row /\ r \in D!Row
    BY <2>1 DEF DBase, D!Row
  <2>3. DBase(r, p, doc)'
    <3>1. D!Trail(p)' = D!Trail(p) /\ D!Replacements(p)' = D!Replacements(p)
      BY <1>4, <2>2
    <3>2. DNumbered(D!Trail(p) \ {r}, doc.correction_count)'
      BY <1>0, <2>1, <3>1 DEF DBase, DNumbered
    <3> QED
      BY <1>0, <2>1, <3>1, <3>2 DEF DBase, D!Exists
  <2>4. DDone(r, p, doc)'
    <3>1. /\ DHasFlipped(r)' <=> DHasFlipped(r)
          /\ DIsStale(r)' <=> DIsStale(r)
          /\ DHasFresh(r)' <=> DHasFresh(r)
          /\ DHasAudit(r)' <=> DHasAudit(r)
      BY <1>0 DEF DHasFlipped, DIsStale, DHasFresh, DHasAudit
    <3>2. (DShown(p) => DShown(p)') /\ (DShown(r) => DShown(r)')
      BY <1>1, <2>2
    <3> QED
      BY <1>0, <2>1, <3>1, <3>2 DEF DDone, D!Exists
  <2> QED
    BY <1>0, <2>1, <2>3, <2>4 DEF DMidway
<1>7. DSerial'
  <2>1. CASE dMarred \subseteq {"step"}
    <3>1. /\ D!Busy' = D!Busy /\ \A q \in D!Row : D!Exists(q)' <=> D!Exists(q)
      BY <1>0 DEF D!Busy, D!Exists
    <3>2. \A r \in D!Busy : r \in D!Row
      BY DEF D!Busy, D!Row
    <3> QED
      BY <1>0, <1>4, <1>5, <1>6, <2>1, <3>1, <3>2 DEF DInv, DSerial, D!Exists
  <2>2. CASE ~(dMarred \subseteq {"step"})
    BY <1>0, <2>2 DEF DSerial
  <2> QED
    BY <2>1, <2>2
<1> QED
  BY <1>2, <1>3, <1>7 DEF DInv

(* Between requests nobody is at work on a payment.                        *)
LEMMA DriverMeans ==
  ASSUME DInv
  PROVE  D!AllOrNothing /\ D!NeverLost
<1>1. ASSUME D!Quiet, dMarred \subseteq {"step"}, NEW p \in D!Row, D!Exists(p)
      PROVE  D!Whole(p)
  <2>1. DWhole(p)
    BY <1>1 DEF DInv, DSerial, D!Quiet
  <2>2. /\ {dAudits[s].correction_index : s \in D!Trail(p)} = 1..dPayments[p].correction_count
        /\ Cardinality(D!Trail(p)) = dPayments[p].correction_count
    BY <2>1 DEF DWhole, DNumbered
  <2> QED
    BY <2>1, <2>2, OneCardinality DEF DWhole, D!Whole, DShown
<1>2. D!AllOrNothing
  BY <1>1 DEF D!AllOrNothing
<1> QED
  BY <1>2 DEF DInv

LEMMA DriverStep ==
  ASSUME desk = "driver" => DInv, [Next]_vars
  PROVE  (desk = "driver" => DInv)'
<1>1. CASE DriverDesk
  <2>1. DInv
    BY <1>1 DEF DriverDesk
  <2>2. ASSUME NEW r \in Request, D!Step(r)
        PROVE  DInv'
    <3>1. DTyped' /\ DHeld' /\ DUnwritten' /\ DKept' /\ D!NeverLost' /\ DSerial'
      BY <2>1, <2>2, DriverTyped, DriverHeld, DriverUnwritten, DriverKept, DriverSerial
    <3> QED
      BY <3>1 DEF DInv
  <2>3. ASSUME NEW p \in D!Row, D!Replay(p)
        PROVE  DInv'
    BY <2>1, <2>3, DriverReplay
  <2> QED
    BY <1>1, <2>2, <2>3 DEF DriverDesk, D!Next
<1>2. CASE desk # "driver" /\ Next
  BY <1>2 DEF Next, DriverDesk, PartyDesk, WalletDesk, LinksDesk, ImportsDesk,
    MastersDesk
<1>3. CASE UNCHANGED vars
  <2>1. UNCHANGED <<dPayments, dAudits, dLegs, dOwed, dPc, dHand, dUndo, dMarred, desk>>
    BY <1>3 DEF vars, dVars
  <2>2. /\ DTyped' <=> DTyped
        /\ DHeld' <=> DHeld
        /\ DUnwritten' <=> DUnwritten
        /\ DKept' <=> DKept
        /\ D!NeverLost' <=> D!NeverLost
    BY <2>1 DEF DTyped, D!TypeOK, DHeld, DHolds, DUnwritten, DKept, D!NeverLost, D!Exists,
      D!Trail
  <2>3. \A q : /\ D!Trail(q)' = D!Trail(q) /\ D!Replacements(q)' = D!Replacements(q)
               /\ D!Exists(q)' <=> D!Exists(q)
               /\ DShown(q)' <=> DShown(q)
    BY <2>1 DEF D!Trail, D!Replacements, D!Exists, DShown, D!View, D!Live
  <2>4. \A q : DWhole(q)' <=> DWhole(q)
    BY <2>1, <2>3 DEF DWhole, DNumbered
  <2>5. \A r \in Request : DMidway(r)' <=> DMidway(r)
    <3>1. \A r, p, doc : DBase(r, p, doc)' <=> DBase(r, p, doc)
      BY <2>1, <2>3 DEF DBase, DNumbered
    <3>2. \A r, p, doc : DDone(r, p, doc)' <=> DDone(r, p, doc)
      BY <2>1, <2>3 DEF DDone, DHasFlipped, DIsStale, DHasFresh, DHasAudit
    <3> QED
      BY <2>1, <3>1, <3>2 DEF DMidway
  <2>6. DSerial' <=> DSerial
    <3>1. D!Busy' = D!Busy
      BY <2>1 DEF D!Busy
    <3> QED
      BY <2>1, <2>3, <2>4, <2>5, <3>1 DEF DSerial
  <2> QED
    BY <2>1, <2>2, <2>6 DEF DInv
<1>4. CASE desk = "driver" /\ Next
  BY <1>1, <1>4 DEF Next, DriverDesk, PartyDesk, WalletDesk, LinksDesk, ImportsDesk,
    MastersDesk, Kinds
<1> QED
  BY <1>2, <1>3, <1>4

-----------------------------------------------------------------------------
(* Statements and the expenses they become.                                *)

ImportRows == UNION {{s.rows[i] : i \in DOMAIN s.rows} : s \in ImportStatement}
ImportKeys == UNION {{I!Key(s.source, s.rows[i]) : i \in DOMAIN s.rows} : s \in ImportStatement}
ImportItem == [row : ImportRows, vehicle : ImportVehicle \cup {Nothing}, key : ImportKeys,
               bucket : {"error", "exact_duplicate", "vehicle_mapping_required",
                         "possible_duplicate", "ready"}]
ImportHand == [source : I!Source, at : Nat, rows : Seq(ImportItem)]
ImportAnswer == [key : ImportKeys, status : {"skipped", "failed", "duplicate", "created"}]
ImportSteps == {"idle", "previewed", "row", "insert", "map", "done"}
ImportFields == {"key", "category", "vehicle", "date", "amount", "place", "source", "ref",
                 "is_deleted", "is_reversed"}

ImportTyped ==
  /\ iPc \in [Request -> ImportSteps]
  /\ iHand = [r \in Request |-> iHand[r]]
  /\ iAnswer \in [Request -> Seq(ImportAnswer)]
  /\ \A e \in iExpenses : DOMAIN e = ImportFields
  /\ iMapMarred \in BOOLEAN

(* A request that has a preview knows which of its rows it is at.          *)
ImportHeld ==
  \A r \in Request : iPc[r] \in {"previewed", "row", "insert"} =>
    /\ iHand[r] \in ImportHand /\ Len(iHand[r].rows) > 0
    /\ iPc[r] # "previewed" => iHand[r].at \in 1 .. Len(iHand[r].rows)

(* The index knows an expense by what it was imported as, unless PUT has   *)
(* changed it.                                                             *)
ImportTagged ==
  \A e \in iExpenses : IF e.key = <<>> THEN e.ref \in iEdited ELSE e.key = e.ref

(* As long as mappings are saved one after the other, the one that is      *)
(* about to be saved is new if none was found.                             *)
ImportMapped ==
  ~iMapMarred =>
    /\ \A r, q \in Request : iPc[r] = "map" /\ iPc[q] = "map" => r = q
    /\ \A r \in Request : iPc[r] = "map" /\ ~iHand[r].found =>
         \A m \in iMaps : m.ref # iHand[r].ref

ImportInv == ImportTyped /\ ImportHeld /\ ImportTagged /\ ImportMapped /\ I!ImportsAgree

(* A key is never the one that PUT leaves behind.                          *)
LEMMA ImportKeysSpeak == <<>> \notin ImportKeys
BY DEF ImportKeys, I!Key

LEMMA ImportBegins == ASSUME I!Init PROVE ImportInv
<1>1. ImportTyped
  BY EmptySeq DEF I!Init, ImportTyped, ImportSteps
<1>2. ImportHeld /\ ImportTagged /\ ImportMapped
  BY DEF I!Init, ImportHeld, ImportTagged, ImportMapped
<1>3. I!ImportsAgree
  BY DEF I!Init, I!ImportsAgree, I!ImportedOnce, I!AnswerIsTrue, I!OneVehicle
<1> QED
  BY <1>1, <1>2, <1>3 DEF ImportInv

(* What a preview has for each row.                                        *)
LEMMA ImportPreviews ==
  ASSUME NEW s \in ImportStatement, NEW f \in I!Choices(s)
  PROVE  [source |-> s.source, at |-> 1,
          rows |-> [i \in DOMAIN s.rows |-> I!Previewed(s, i, f[i])]] \in ImportHand
         /\ Len([i \in DOMAIN s.rows |-> I!Previewed(s, i, f[i])]) > 0
<1> DEFINE rows == [i \in DOMAIN s.rows |-> I!Previewed(s, i, f[i])]
<1>1. /\ s.source \in I!Source
      /\ DOMAIN s.rows = 1 .. Len(s.rows) /\ Len(s.rows) \in Nat \ {0}
  BY ImportStatements DEF I!Source
<1>2. ASSUME NEW i \in DOMAIN s.rows
      PROVE  I!Previewed(s, i, f[i]) \in ImportItem
  <2>1. f[i] \in ImportVehicle \cup {Nothing}
    BY DEF I!Choices
  <2>2. s.rows[i] \in ImportRows /\ I!Key(s.source, s.rows[i]) \in ImportKeys
    BY DEF ImportRows, ImportKeys
  <2>3. I!Bucket(s.source, s.rows, i, f[i]) \in
          {"error", "exact_duplicate", "vehicle_mapping_required", "possible_duplicate", "ready"}
    BY DEF I!Bucket
  <2> QED
    BY <2>1, <2>2, <2>3 DEF I!Previewed, ImportItem
<1>3. rows \in [1 .. Len(s.rows) -> ImportItem]
  BY <1>1, <1>2
<1>4. rows \in Seq(ImportItem)
  BY <1>1, <1>3, SeqDef
<1>5. Len(rows) = Len(s.rows)
  BY <1>1, <1>3, <1>4, LenProperties
<1> QED
  BY <1>1, <1>4, <1>5 DEF ImportHand

(* What a request says of the row it is at.                                *)
LEMMA ImportTells ==
  ASSUME ImportTyped, ImportHeld, NEW r \in Request, iPc[r] \in {"row", "insert"},
         NEW what \in {"skipped", "failed", "duplicate", "created"}, I!Told(r, what)
  PROVE  /\ iAnswer' \in [Request -> Seq(ImportAnswer)]
         /\ iPc' \in [Request -> ImportSteps]
         /\ iHand' = [q \in Request |-> iHand'[q]]
         /\ iPc'[r] \in {"row", "done"}
         /\ iPc'[r] = "row" => /\ iHand'[r] \in ImportHand /\ Len(iHand'[r].rows) > 0
                               /\ iHand'[r].at \in 1 .. Len(iHand'[r].rows)
         /\ \A q \in Request \ {r} : /\ iPc'[q] = iPc[q] /\ iHand'[q] = iHand[q]
                                     /\ iAnswer'[q] = iAnswer[q]
         /\ \A i \in DOMAIN iAnswer'[r] :
              \/ i \in DOMAIN iAnswer[r] /\ iAnswer'[r][i] = iAnswer[r][i]
              \/ iAnswer'[r][i].key = I!Current(r).key /\ iAnswer'[r][i].status = what
         /\ I!Current(r) \in ImportItem
<1>1. /\ iHand[r] \in ImportHand /\ Len(iHand[r].rows) > 0
      /\ iHand[r].at \in 1 .. Len(iHand[r].rows)
  BY DEF ImportHeld
<1>2. I!Current(r) \in ImportItem
  BY <1>1 DEF I!Current, ImportHand
<1> DEFINE new == [key |-> I!Current(r).key, status |-> what]
<1>3. new \in ImportAnswer
  BY <1>2 DEF ImportItem, ImportAnswer
<1>4. iAnswer[r] \in Seq(ImportAnswer)
  BY DEF ImportTyped
<1>5. iAnswer' = [iAnswer EXCEPT ![r] = Append(@, new)]
  BY DEF I!Told
<1> HIDE DEF new
<1>6. iAnswer'[r] = Append(iAnswer[r], new)
  BY <1>5 DEF ImportTyped
<1>7. Append(iAnswer[r], new) \in Seq(ImportAnswer)
  BY <1>3, <1>4, AppendProperties
<1>8. \A i \in DOMAIN iAnswer'[r] :
              \/ i \in DOMAIN iAnswer[r] /\ iAnswer'[r][i] = iAnswer[r][i]
              \/ iAnswer'[r][i] = new
  BY <1>3, <1>4, <1>6, <1>7, AppendProperties, LenProperties
<1>9. iAnswer' \in [Request -> Seq(ImportAnswer)]
  BY <1>5, <1>7 DEF ImportTyped
<1>10. \A i \in DOMAIN iAnswer'[r] :
              \/ i \in DOMAIN iAnswer[r] /\ iAnswer'[r][i] = iAnswer[r][i]
              \/ iAnswer'[r][i].key = I!Current(r).key /\ iAnswer'[r][i].status = what
  BY <1>8 DEF new
<1>11. iHand' = [iHand EXCEPT ![r].at = @ + 1]
  BY DEF I!Told
<1>12. /\ iHand' = [q \in Request |-> iHand'[q]]
       /\ iHand'[r] = [iHand[r] EXCEPT !.at = @ + 1]
       /\ \A q \in Request \ {r} : iHand'[q] = iHand[q]
  BY <1>11 DEF ImportTyped
<1>13. iPc' = [iPc EXCEPT ![r] = IF iHand[r].at = Len(iHand[r].rows) THEN "done" ELSE "row"]
  BY DEF I!Told
<1>14. /\ iPc'[r] = IF iHand[r].at = Len(iHand[r].rows) THEN "done" ELSE "row"
       /\ \A q \in Request \ {r} : iPc'[q] = iPc[q]
       /\ iPc' \in [Request -> ImportSteps]
  BY <1>13 DEF ImportTyped, ImportSteps
<1>15. /\ iHand'[r].rows = iHand[r].rows /\ iHand'[r].at = iHand[r].at + 1
       /\ iHand'[r] \in ImportHand
  BY <1>1, <1>12 DEF ImportHand
<1>16. iPc'[r] = "row" => iHand'[r].at \in 1 .. Len(iHand'[r].rows)
  BY <1>1, <1>14, <1>15, LenProperties DEF ImportHand
<1>17. \A q \in Request \ {r} : iAnswer'[q] = iAnswer[q]
  BY <1>5 DEF ImportTyped
<1> QED
  BY <1>1, <1>2, <1>9, <1>10, <1>12, <1>14, <1>15, <1>16, <1>17

(* What there is stays what it is, but for what a step says of it.         *)
LEMMA ImportAnswers ==
  ASSUME I!AnswerIsTrue,
         \A e \in iExpenses : \E f \in iExpenses' : f.ref = e.ref,
         NEW r \in Request, NEW key, NEW what,
         \A q \in Request \ {r} : iAnswer'[q] = iAnswer[q],
         \A i \in DOMAIN iAnswer'[r] :
              \/ i \in DOMAIN iAnswer[r] /\ iAnswer'[r][i] = iAnswer[r][i]
              \/ iAnswer'[r][i].key = key /\ iAnswer'[r][i].status = what,
         what \in {"created", "duplicate"} => \E e \in iExpenses' : e.ref = key
  PROVE  I!AnswerIsTrue'
<1> SUFFICES ASSUME NEW q \in Request, NEW i \in DOMAIN iAnswer'[q],
                    iAnswer'[q][i].status \in {"created", "duplicate"}
             PROVE  \E e \in iExpenses' : e.ref = iAnswer'[q][i].key
  BY DEF I!AnswerIsTrue
<1>1. CASE i \in DOMAIN iAnswer[q] /\ iAnswer'[q][i] = iAnswer[q][i]
  BY <1>1 DEF I!AnswerIsTrue
<1>2. CASE q = r /\ iAnswer'[r][i].key = key /\ iAnswer'[r][i].status = what
  BY <1>2
<1> QED
  BY <1>1, <1>2

(* A row that is passed over, refused, or found to be there.               *)
LEMMA ImportSaid ==
  ASSUME ImportInv, NEW r \in Request, iPc[r] \in {"row", "insert"},
         NEW what \in {"skipped", "failed", "duplicate"}, I!Told(r, what),
         what = "duplicate" => \E e \in iExpenses : e.key = I!Current(r).key,
         UNCHANGED <<iExpenses, iMaps, iEdited, iMapMarred>>
  PROVE  ImportInv'
<1>1. /\ ImportTyped /\ ImportHeld /\ ImportTagged /\ ImportMapped
      /\ I!ImportedOnce /\ I!AnswerIsTrue /\ I!OneVehicle
  BY DEF ImportInv, I!ImportsAgree
<1>2. /\ iAnswer' \in [Request -> Seq(ImportAnswer)]
      /\ iPc' \in [Request -> ImportSteps]
      /\ iHand' = [q \in Request |-> iHand'[q]]
      /\ iPc'[r] \in {"row", "done"}
      /\ iPc'[r] = "row" => /\ iHand'[r] \in ImportHand /\ Len(iHand'[r].rows) > 0
                            /\ iHand'[r].at \in 1 .. Len(iHand'[r].rows)
      /\ \A q \in Request \ {r} : /\ iPc'[q] = iPc[q] /\ iHand'[q] = iHand[q]
                                  /\ iAnswer'[q] = iAnswer[q]
      /\ \A i \in DOMAIN iAnswer'[r] :
           \/ i \in DOMAIN iAnswer[r] /\ iAnswer'[r][i] = iAnswer[r][i]
           \/ iAnswer'[r][i].key = I!Current(r).key /\ iAnswer'[r][i].status = what
      /\ I!Current(r) \in ImportItem
  BY <1>1, ImportTells
<1>3. ImportTyped'
  BY <1>1, <1>2 DEF ImportTyped
<1>4. ImportHeld'
  BY <1>1, <1>2 DEF ImportHeld
<1>5. ImportTagged'
  BY <1>1 DEF ImportTagged
<1>6. ImportMapped'
  <2>1. \A q \in Request : iPc'[q] = "map" => iPc[q] = "map" /\ iHand'[q] = iHand[q]
    BY <1>2
  <2> QED
    BY <1>1, <2>1 DEF ImportMapped
<1>7. I!ImportedOnce' /\ I!OneVehicle'
  BY <1>1 DEF I!ImportedOnce, I!OneVehicle
<1>8. what = "duplicate" => \E e \in iExpenses' : e.ref = I!Current(r).key
  <2>1. I!Current(r).key # <<>>
    BY <1>2, ImportKeysSpeak DEF ImportItem
  <2> QED
    BY <1>1, <2>1 DEF ImportTagged
<1>9. I!AnswerIsTrue'
  <2>1. \A e \in iExpenses : \E f \in iExpenses' : f.ref = e.ref
    OBVIOUS
  <2>2. what \in {"created", "duplicate"} =>
          \E e \in iExpenses' : e.ref = I!Current(r).key
    BY <1>8
  <2> DEFINE key == I!Current(r).key
  <2>3. \A i \in DOMAIN iAnswer'[r] :
           \/ i \in DOMAIN iAnswer[r] /\ iAnswer'[r][i] = iAnswer[r][i]
           \/ iAnswer'[r][i].key = key /\ iAnswer'[r][i].status = what
    BY <1>2
  <2>4. what \in {"created", "duplicate"} => \E e \in iExpenses' : e.ref = key
    BY <2>2
  <2>5. \A q \in Request \ {r} : iAnswer'[q] = iAnswer[q]
    BY <1>2
  <2> HIDE DEF key
  <2> QED
    BY <1>1, <2>1, <2>3, <2>4, <2>5, ImportAnswers
<1> QED
  BY <1>3, <1>4, <1>5, <1>6, <1>7, <1>9 DEF ImportInv, I!ImportsAgree

(* A row that is written.                                                  *)
LEMMA ImportWrites ==
  ASSUME ImportInv, NEW r \in Request, I!Insert(r),
         ~\E e \in iExpenses : I!Indexed(e, I!Current(r).key)
  PROVE  ImportInv'
<1>1. /\ ImportTyped /\ ImportHeld /\ ImportTagged /\ ImportMapped
      /\ I!ImportedOnce /\ I!AnswerIsTrue /\ I!OneVehicle
  BY DEF ImportInv, I!ImportsAgree
<1> DEFINE new == I!NewExpense(iHand[r].source, I!Current(r))
<1>2. /\ iPc[r] = "insert" /\ I!Told(r, "created") /\ iExpenses' = iExpenses \cup {new}
      /\ UNCHANGED <<iMaps, iEdited, iMapMarred>>
  BY DEF I!Insert
<1>3. /\ iAnswer' \in [Request -> Seq(ImportAnswer)]
      /\ iPc' \in [Request -> ImportSteps]
      /\ iHand' = [q \in Request |-> iHand'[q]]
      /\ iPc'[r] \in {"row", "done"}
      /\ iPc'[r] = "row" => /\ iHand'[r] \in ImportHand /\ Len(iHand'[r].rows) > 0
                            /\ iHand'[r].at \in 1 .. Len(iHand'[r].rows)
      /\ \A q \in Request \ {r} : /\ iPc'[q] = iPc[q] /\ iHand'[q] = iHand[q]
                                  /\ iAnswer'[q] = iAnswer[q]
      /\ \A i \in DOMAIN iAnswer'[r] :
           \/ i \in DOMAIN iAnswer[r] /\ iAnswer'[r][i] = iAnswer[r][i]
           \/ iAnswer'[r][i].key = I!Current(r).key /\ iAnswer'[r][i].status = "created"
      /\ I!Current(r) \in ImportItem
  BY <1>1, <1>2, ImportTells
<1>4. /\ new.key = I!Current(r).key /\ new.ref = I!Current(r).key /\ DOMAIN new = ImportFields
  BY DEF I!NewExpense, ImportFields
<1>5. I!Current(r).key # <<>>
  BY <1>3, ImportKeysSpeak DEF ImportItem
<1>6. \A e \in iExpenses : e.key # new.key
  BY <1>4 DEF I!Indexed
<1> HIDE DEF new
<1>7. ImportTyped'
  BY <1>1, <1>2, <1>3, <1>4 DEF ImportTyped
<1>8. ImportHeld'
  BY <1>1, <1>3 DEF ImportHeld
<1>9. ImportTagged'
  BY <1>1, <1>2, <1>4, <1>5 DEF ImportTagged
<1>10. ImportMapped'
  <2>1. \A q \in Request : iPc'[q] = "map" => iPc[q] = "map" /\ iHand'[q] = iHand[q]
    BY <1>3
  <2> QED
    BY <1>1, <1>2, <2>1 DEF ImportMapped
<1>11. I!ImportedOnce'
  BY <1>1, <1>2, <1>4, <1>5, <1>6 DEF I!ImportedOnce, ImportTagged
<1>12. I!OneVehicle'
  BY <1>1, <1>2 DEF I!OneVehicle
<1>13. \E e \in iExpenses' : e.ref = I!Current(r).key
  BY <1>2, <1>4
<1>14. I!AnswerIsTrue'
  <2> DEFINE key == I!Current(r).key
             what == "created"
  <2>1. \A e \in iExpenses : \E f \in iExpenses' : f.ref = e.ref
    BY <1>2
  <2>2. what \in {"created", "duplicate"} => \E e \in iExpenses' : e.ref = key
    BY <1>13
  <2>3. \A i \in DOMAIN iAnswer'[r] :
           \/ i \in DOMAIN iAnswer[r] /\ iAnswer'[r][i] = iAnswer[r][i]
           \/ iAnswer'[r][i].key = key /\ iAnswer'[r][i].status = what
    BY <1>3
  <2>4. \A q \in Request \ {r} : iAnswer'[q] = iAnswer[q]
    BY <1>3
  <2> HIDE DEF key, what
  <2> QED
    BY <1>1, <2>1, <2>2, <2>3, <2>4, ImportAnswers
<1> QED
  BY <1>7, <1>8, <1>9, <1>10, <1>11, <1>12, <1>14 DEF ImportInv, I!ImportsAgree

LEMMA ImportRowsMove ==
  ASSUME ImportInv, NEW r \in Request,
         I!Skip(r) \/ I!Refuse(r) \/ I!Check(r) \/ I!Insert(r)
  PROVE  ImportInv'
<1>1. CASE I!Skip(r)
  BY <1>1, ImportSaid DEF I!Skip
<1>2. CASE I!Refuse(r)
  BY <1>2, ImportSaid DEF I!Refuse
<1>3. CASE I!Check(r)
  <2>1. CASE I!Exists(iHand[r].source, I!Current(r).key)
    BY <1>3, <2>1, ImportSaid DEF I!Check, I!Exists
  <2>2. CASE ~I!Exists(iHand[r].source, I!Current(r).key)
    <3>1. /\ iPc[r] = "row" /\ iPc' = [iPc EXCEPT ![r] = "insert"]
          /\ UNCHANGED <<iHand, iAnswer, iExpenses, iMaps, iEdited, iMapMarred>>
      BY <1>3, <2>2 DEF I!Check
    <3>2. ImportTyped'
      BY <3>1 DEF ImportInv, ImportTyped, ImportSteps
    <3>3. ImportHeld'
      BY <3>1 DEF ImportInv, ImportTyped, ImportHeld
    <3>4. ImportTagged' /\ ImportMapped'
      BY <3>1 DEF ImportInv, ImportTyped, ImportTagged, ImportMapped
    <3>5. I!ImportsAgree'
      BY <3>1 DEF ImportInv, I!ImportsAgree, I!ImportedOnce, I!AnswerIsTrue, I!OneVehicle
    <3> QED
      BY <3>2, <3>3, <3>4, <3>5 DEF ImportInv
  <2> QED
    BY <2>1, <2>2
<1>4. CASE I!Insert(r)
  <2>1. CASE \E e \in iExpenses : I!Indexed(e, I!Current(r).key)
    BY <1>4, <2>1, ImportSaid DEF I!Insert, I!Indexed
  <2>2. CASE ~\E e \in iExpenses : I!Indexed(e, I!Current(r).key)
    BY <1>4, <2>2, ImportWrites
  <2> QED
    BY <2>1, <2>2
<1> QED
  BY <1>1, <1>2, <1>3, <1>4

(* Where a request does no more than to go elsewhere.                      *)
LEMMA ImportRequests ==
  ASSUME ImportInv, NEW r \in Request,
         (\E s \in ImportStatement : I!Preview(r, s)) \/ I!Send(r) \/ I!Die(r)
  PROVE  ImportInv'
<1>1. /\ ImportTyped /\ ImportHeld /\ ImportTagged /\ ImportMapped
      /\ I!ImportedOnce /\ I!AnswerIsTrue /\ I!OneVehicle
  BY DEF ImportInv, I!ImportsAgree
<1>2. UNCHANGED <<iExpenses, iMaps, iEdited, iMapMarred>>
  BY DEF I!Preview, I!Send, I!Die
<1>3. /\ iPc'[r] \in {"previewed", "row"} /\ iPc' \in [Request -> ImportSteps]
      /\ iPc[r] # "map"
      /\ \A q \in Request \ {r} : iPc'[q] = iPc[q]
  BY <1>1 DEF I!Preview, I!Send, I!Die, ImportTyped, ImportSteps
<1>4. \/ iAnswer' = iAnswer
      \/ iAnswer' = [iAnswer EXCEPT ![r] = <<>>]
  BY DEF I!Preview, I!Send, I!Die
<1>5. /\ iAnswer' \in [Request -> Seq(ImportAnswer)]
      /\ \A q \in Request : iAnswer'[q] = iAnswer[q] \/ iAnswer'[q] = <<>>
  <2>1. <<>> \in Seq(ImportAnswer)
    BY EmptySeq
  <2> QED
    BY <1>1, <1>4, <2>1 DEF ImportTyped
<1>6. /\ iHand'[r] \in ImportHand /\ Len(iHand'[r].rows) > 0
      /\ iPc'[r] # "previewed" => iHand'[r].at \in 1 .. Len(iHand'[r].rows)
      /\ iHand' = [q \in Request |-> iHand'[q]]
      /\ \A q \in Request \ {r} : iHand'[q] = iHand[q]
  <2>1. CASE \E s \in ImportStatement : I!Preview(r, s)
    <3>1. PICK s \in ImportStatement : I!Preview(r, s)
      BY <2>1
    <3>2. PICK f \in I!Choices(s) :
            iHand' = [iHand EXCEPT ![r] =
              [source |-> s.source, at |-> 1,
               rows |-> [i \in DOMAIN s.rows |-> I!Previewed(s, i, f[i])]]]
      BY <3>1 DEF I!Preview
    <3> DEFINE held == [source |-> s.source, at |-> 1,
                        rows |-> [i \in DOMAIN s.rows |-> I!Previewed(s, i, f[i])]]
    <3>3. held \in ImportHand /\ Len(held.rows) > 0
      BY ImportPreviews
    <3>4. iHand' = [iHand EXCEPT ![r] = held] /\ iPc'[r] = "previewed"
      BY <1>1, <3>1, <3>2 DEF I!Preview, ImportTyped
    <3> HIDE DEF held
    <3> QED
      BY <1>1, <3>3, <3>4 DEF ImportTyped
  <2>2. CASE I!Send(r)
    <3>1. iPc[r] = "previewed" /\ iHand' = [iHand EXCEPT ![r].at = 1]
      BY <2>2 DEF I!Send
    <3>2. iHand[r] \in ImportHand /\ Len(iHand[r].rows) > 0
      BY <1>1, <3>1 DEF ImportHeld
    <3>3. /\ iHand'[r] = [iHand[r] EXCEPT !.at = 1]
          /\ iHand' = [q \in Request |-> iHand'[q]]
          /\ \A q \in Request \ {r} : iHand'[q] = iHand[q]
      BY <1>1, <3>1 DEF ImportTyped
    <3>4. /\ iHand'[r] \in ImportHand /\ iHand'[r].at = 1 /\ iHand'[r].rows = iHand[r].rows
      BY <3>2, <3>3 DEF ImportHand
    <3>5. Len(iHand[r].rows) \in Nat
      BY <3>2, LenProperties DEF ImportHand
    <3> QED
      BY <3>2, <3>3, <3>4, <3>5
  <2>3. CASE I!Die(r)
    BY <1>1, <2>3 DEF I!Die, ImportHeld, ImportTyped
  <2> QED
    BY <2>1, <2>2, <2>3
<1>7. ImportTyped'
  BY <1>1, <1>2, <1>3, <1>5, <1>6 DEF ImportTyped
<1>8. ImportHeld'
  BY <1>1, <1>3, <1>6 DEF ImportHeld
<1>9. ImportTagged'
  BY <1>1, <1>2 DEF ImportTagged
<1>10. ImportMapped'
  BY <1>1, <1>2, <1>3, <1>6 DEF ImportMapped
<1>11. I!ImportedOnce' /\ I!OneVehicle'
  BY <1>1, <1>2 DEF I!ImportedOnce, I!OneVehicle
<1>12. I!AnswerIsTrue'
  BY <1>1, <1>2, <1>5 DEF I!AnswerIsTrue
<1> QED
  BY <1>7, <1>8, <1>9, <1>10, <1>11, <1>12 DEF ImportInv, I!ImportsAgree

(* An expense that is changed without its key, or that PUT has changed.    *)
LEMMA ImportChanges ==
  ASSUME ImportInv, NEW e \in iExpenses, NEW f, f.ref = e.ref, DOMAIN f = ImportFields,
         I!Replace(e, f), I!Rest, iEdited \subseteq iEdited',
         f.key = e.key \/ (f.key = <<>> /\ e.ref \in iEdited')
  PROVE  ImportInv'
<1>1. /\ ImportTyped /\ ImportHeld /\ ImportTagged /\ ImportMapped
      /\ I!ImportedOnce /\ I!AnswerIsTrue /\ I!OneVehicle
  BY DEF ImportInv, I!ImportsAgree
<1>2. /\ iExpenses' = (iExpenses \ {e}) \cup {f}
      /\ UNCHANGED <<iMaps, iPc, iHand, iAnswer, iMapMarred>>
  BY DEF I!Replace, I!Rest
<1>3. ImportTyped'
  BY <1>1, <1>2 DEF ImportTyped
<1>4. ImportHeld' /\ ImportMapped'
  BY <1>1, <1>2 DEF ImportHeld, ImportMapped
<1>5. ImportTagged'
  BY <1>1, <1>2 DEF ImportTagged
<1>6. I!ImportedOnce'
  BY <1>1, <1>2 DEF I!ImportedOnce
<1>7. I!AnswerIsTrue' /\ I!OneVehicle'
  BY <1>1, <1>2 DEF I!AnswerIsTrue, I!OneVehicle
<1> QED
  BY <1>3, <1>4, <1>5, <1>6, <1>7 DEF ImportInv, I!ImportsAgree

LEMMA ImportCorrects ==
  ASSUME ImportInv, NEW e \in iExpenses,
         I!Cancel(e) \/ I!Put(e) \/ I!CorrectVehicle(e) \/ I!QuickDiesel(e)
  PROVE  ImportInv'
<1>1. DOMAIN e = ImportFields
  BY DEF ImportInv, ImportTyped
<1>2. CASE I!Cancel(e)
  <2> DEFINE f == [e EXCEPT !.is_deleted = TRUE]
  <2>1. I!Replace(e, f) /\ I!Rest /\ iEdited' = iEdited
    BY <1>2 DEF I!Cancel
  <2>2. f.ref = e.ref /\ f.key = e.key /\ DOMAIN f = ImportFields
    BY <1>1 DEF ImportFields
  <2> HIDE DEF f
  <2> QED
    BY <2>1, <2>2, ImportChanges
<1>3. CASE I!Put(e)
  <2> DEFINE f == [e EXCEPT !.key = <<>>]
  <2>1. I!Replace(e, f) /\ I!Rest /\ iEdited' = iEdited \cup {e.ref}
    BY <1>3 DEF I!Put
  <2>2. f.ref = e.ref /\ f.key = <<>> /\ DOMAIN f = ImportFields
    BY <1>1 DEF ImportFields
  <2> HIDE DEF f
  <2> QED
    BY <2>1, <2>2, ImportChanges
<1>4. CASE I!CorrectVehicle(e)
  <2>1. PICK v : I!Replace(e, [e EXCEPT !.vehicle = v])
    BY <1>4 DEF I!CorrectVehicle
  <2> DEFINE f == [e EXCEPT !.vehicle = v]
  <2>2. I!Replace(e, f) /\ I!Rest /\ iEdited' = iEdited
    BY <1>4, <2>1 DEF I!CorrectVehicle
  <2>3. f.ref = e.ref /\ f.key = e.key /\ DOMAIN f = ImportFields
    BY <1>1 DEF ImportFields
  <2> HIDE DEF f
  <2> QED
    BY <2>2, <2>3, ImportChanges
<1>5. CASE I!QuickDiesel(e)
  <2> DEFINE f == [e EXCEPT !.amount = 6]
  <2>1. I!Replace(e, f) /\ I!Rest /\ iEdited' = iEdited
    BY <1>5 DEF I!QuickDiesel
  <2>2. f.ref = e.ref /\ f.key = e.key /\ DOMAIN f = ImportFields
    BY <1>1 DEF ImportFields
  <2> HIDE DEF f
  <2> QED
    BY <2>1, <2>2, ImportChanges
<1> QED
  BY <1>2, <1>3, <1>4, <1>5

LEMMA ImportEnters ==
  ASSUME ImportInv, NEW m \in ImportManual, I!EnterManual(m)
  PROVE  ImportInv'
<1>1. /\ ImportTyped /\ ImportHeld /\ ImportTagged /\ ImportMapped
      /\ I!ImportedOnce /\ I!AnswerIsTrue /\ I!OneVehicle
  BY DEF ImportInv, I!ImportsAgree
<1> DEFINE new ==
       [key |-> <<"manual", m.id>>, category |-> "Diesel", vehicle |-> m.vehicle, date |-> 2,
        amount |-> 5, place |-> "none", source |-> "manual", ref |-> <<"manual", m.id>>,
        is_deleted |-> FALSE, is_reversed |-> FALSE]
<1>2. /\ iExpenses' = iExpenses \cup {new}
      /\ UNCHANGED <<iEdited, iMaps, iPc, iHand, iAnswer, iMapMarred>>
      /\ \A e \in iExpenses : e.ref # new.ref
  BY DEF I!EnterManual, I!Rest
<1>3. new.key = new.ref /\ new.key # <<>> /\ DOMAIN new = ImportFields
  BY DEF ImportFields
<1> HIDE DEF new
<1>4. ImportTyped'
  BY <1>1, <1>2, <1>3 DEF ImportTyped
<1>5. ImportHeld' /\ ImportMapped'
  BY <1>1, <1>2 DEF ImportHeld, ImportMapped
<1>6. ImportTagged'
  BY <1>1, <1>2, <1>3 DEF ImportTagged
<1>7. I!ImportedOnce'
  BY <1>1, <1>2 DEF I!ImportedOnce
<1>8. I!AnswerIsTrue' /\ I!OneVehicle'
  BY <1>1, <1>2 DEF I!AnswerIsTrue, I!OneVehicle
<1> QED
  BY <1>4, <1>5, <1>6, <1>7, <1>8 DEF ImportInv, I!ImportsAgree

(* The mappings.                                                           *)
LEMMA ImportMaps ==
  ASSUME ImportInv, NEW r \in Request,
         (\E ref \in I!References, v \in ImportVehicle : I!MapRead(r, ref, v)) \/ I!MapWrite(r)
  PROVE  ImportInv'
<1>1. /\ ImportTyped /\ ImportHeld /\ ImportTagged /\ ImportMapped
      /\ I!ImportedOnce /\ I!AnswerIsTrue /\ I!OneVehicle
  BY DEF ImportInv, I!ImportsAgree
<1>2. UNCHANGED <<iExpenses, iAnswer, iEdited>>
  BY DEF I!MapRead, I!MapWrite
<1>3. /\ iPc'[r] \in {"map", "done"} /\ iPc' \in [Request -> ImportSteps]
      /\ \A q \in Request \ {r} : iPc'[q] = iPc[q]
  BY <1>1 DEF I!MapRead, I!MapWrite, ImportTyped, ImportSteps
<1>4. /\ iHand' = [q \in Request |-> iHand'[q]]
      /\ \A q \in Request \ {r} : iHand'[q] = iHand[q]
  BY <1>1 DEF I!MapRead, I!MapWrite, ImportTyped
<1>5. iMapMarred' \in BOOLEAN
  BY <1>1 DEF I!MapRead, I!MapWrite, ImportTyped
<1>6. ImportTyped'
  BY <1>1, <1>2, <1>3, <1>4, <1>5 DEF ImportTyped
<1>7. ImportHeld'
  BY <1>1, <1>3, <1>4 DEF ImportHeld
<1>8. ImportTagged' /\ I!ImportedOnce' /\ I!AnswerIsTrue'
  BY <1>1, <1>2 DEF ImportTagged, I!ImportedOnce, I!AnswerIsTrue
<1>9. ImportMapped' /\ I!OneVehicle'
  <2>1. CASE \E ref \in I!References, v \in ImportVehicle : I!MapRead(r, ref, v)
    <3>1. PICK ref, v : I!MapRead(r, ref, v)
      BY <2>1
    <3>2. /\ iPc[r] = "idle" /\ iMaps' = iMaps
          /\ iMapMarred' = (iMapMarred \/ \E q \in Request : iPc[q] = "map")
      BY <3>1 DEF I!MapRead
    <3>3. iHand'[r].ref = ref /\ (iHand'[r].found <=> \E m \in iMaps : m.ref = ref)
      BY <1>1, <3>1 DEF I!MapRead, ImportTyped
    <3>4. ~iMapMarred' => ~iMapMarred /\ \A q \in Request : iPc[q] # "map"
      BY <3>2
    <3>5. ImportMapped'
      BY <1>3, <3>2, <3>3, <3>4 DEF ImportMapped
    <3>6. I!OneVehicle'
      BY <1>1, <3>2, <3>4 DEF I!OneVehicle
    <3> QED
      BY <3>5, <3>6
  <2>2. CASE I!MapWrite(r)
    <3> DEFINE m == [ref |-> iHand[r].ref, vehicle |-> iHand[r].vehicle, by |-> r]
               there == {n \in iMaps : n.ref = iHand[r].ref}
    <3>1. /\ iPc[r] = "map" /\ iPc'[r] = "done" /\ iMapMarred' = iMapMarred
          /\ \/ ~iHand[r].found /\ iMaps' = iMaps \cup {m}
             \/ iMaps' = iMaps
             \/ \E n \in there : iMaps' = (iMaps \ {n}) \cup {m}
      BY <1>1, <2>2 DEF I!MapWrite, ImportTyped
    <3>2. m.ref = iHand[r].ref
      OBVIOUS
    <3> HIDE DEF m
    <3>3. ImportMapped'
      BY <1>1, <1>3, <1>4, <3>1, <3>2 DEF ImportMapped
    <3>4. I!OneVehicle'
      <4> SUFFICES ASSUME ~iMapMarred
                   PROVE  \A a, b \in iMaps' : a.ref = b.ref => a = b
        BY <3>1 DEF I!OneVehicle
      <4>1. \A a, b \in iMaps : a.ref = b.ref => a = b
        BY <1>1 DEF I!OneVehicle
      <4>2. ~iHand[r].found => \A n \in iMaps : n.ref # iHand[r].ref
        BY <1>1, <3>1 DEF ImportMapped
      <4> QED
        BY <3>1, <3>2, <4>1, <4>2
    <3> QED
      BY <3>3, <3>4
  <2> QED
    BY <2>1, <2>2
<1> QED
  BY <1>1, <1>6, <1>7, <1>8, <1>9 DEF ImportInv, I!ImportsAgree

LEMMA ImportUnmaps == ASSUME ImportInv, I!MapDelete PROVE ImportInv'
<1>1. /\ ImportTyped /\ ImportHeld /\ ImportTagged /\ ImportMapped
      /\ I!ImportedOnce /\ I!AnswerIsTrue /\ I!OneVehicle
  BY DEF ImportInv, I!ImportsAgree
<1>2. /\ iMaps' \subseteq iMaps
      /\ UNCHANGED <<iExpenses, iPc, iHand, iAnswer, iEdited, iMapMarred>>
  BY DEF I!MapDelete
<1>3. ImportTyped' /\ ImportHeld' /\ ImportTagged'
  BY <1>1, <1>2 DEF ImportTyped, ImportHeld, ImportTagged
<1>4. ImportMapped' /\ I!OneVehicle'
  BY <1>1, <1>2 DEF ImportMapped, I!OneVehicle
<1>5. I!ImportedOnce' /\ I!AnswerIsTrue'
  BY <1>1, <1>2 DEF I!ImportedOnce, I!AnswerIsTrue
<1> QED
  BY <1>3, <1>4, <1>5 DEF ImportInv, I!ImportsAgree

LEMMA ImportStep ==
  ASSUME ImportInv, desk = "imports", [Next]_vars
  PROVE  ImportInv'
<1>1. CASE I!Next
  BY <1>1, ImportRequests, ImportRowsMove, ImportMaps, ImportEnters, ImportCorrects,
    ImportUnmaps DEF I!Next
<1>2. CASE UNCHANGED vars
  <2>1. UNCHANGED <<iExpenses, iMaps, iPc, iHand, iAnswer, iEdited, iMapMarred>>
    BY <1>2 DEF vars, iVars
  <2>2. /\ ImportTyped' <=> ImportTyped
        /\ ImportHeld' <=> ImportHeld
        /\ ImportTagged' <=> ImportTagged
        /\ ImportMapped' <=> ImportMapped
    BY <2>1 DEF ImportTyped, ImportHeld, ImportTagged, ImportMapped
  <2>3. I!ImportsAgree' <=> I!ImportsAgree
    BY <2>1 DEF I!ImportsAgree, I!ImportedOnce, I!AnswerIsTrue, I!OneVehicle
  <2> QED
    BY <2>2, <2>3 DEF ImportInv
<1> QED
  BY <1>1, <1>2 DEF Next, DriverDesk, PartyDesk, WalletDesk, LinksDesk, ImportsDesk,
    MastersDesk, Kinds

-----------------------------------------------------------------------------
(* Masters.                                                                *)

MasterSteps ==
  {"new", "check", "insert", "rows", "form", "audit", "status", "done", "refused"}
MasterFields == {"id", "kind", "tax", "pan", "name", "norm", "active"}
MasterHand == {"form", "id", "checks", "how", "rows", "active", "early"}
MasterChecks ==
  {<<"name">>, <<"raw">>, <<"tax">>, <<"pan">>, <<"tax", "name">>, <<"pan", "name">>}

MasterShaped ==
  /\ mPc \in [Request -> MasterSteps]
  /\ mHand = [r \in Request |-> mHand[r]]
  /\ \A r \in Request : DOMAIN mHand[r] = MasterHand /\ mHand[r].active \in BOOLEAN
  /\ \A m \in mMasters : DOMAIN m = MasterFields /\ m.kind \in Kinds /\ m.active \in BOOLEAN
  /\ \A m, n \in mMasters : m.id = n.id => m = n
  /\ DOMAIN mBackfill = {"at", "todo", "flag"}

(* The ids that are known anywhere, none of which a new master gets.       *)
MasterIds ==
  {m.id : m \in mMasters \cup mBackfill.todo} \cup {e.id : e \in mLog}
  \cup {mHand[r].id : r \in {q \in Request : mPc[q] \in {"audit", "status"}}}

MasterFresh ==
  \A r \in Request :
    /\ mPc[r] \in {"new", "check", "insert"} => \A i \in MasterIds : i[1] # r
    /\ mPc[r] = "rows" => \A f \in mHand[r].rows : <<r, f.name>> \notin MasterIds

(* What is not excepted has the shadow fields of what it says, or is from  *)
(* before there were any; and so has what the migration is about to write. *)
MasterMatches(m) ==
  /\ <<m.id, "tax">> \notin mMarred => m.norm.tax = m.tax
  /\ <<m.id, "pan">> \notin mMarred => m.norm.pan = m.pan
  /\ <<m.id, "name">> \notin mMarred => m.norm.name = m.name[1]

MasterAlike(d, m) ==
  /\ <<m.id, "tax">> \notin mMarred => d.tax = m.tax
  /\ <<m.id, "pan">> \notin mMarred => d.pan = m.pan
  /\ <<m.id, "name">> \notin mMarred => d.name[1] = m.name[1]

MasterShadows(kind) ==
  \A m \in mMasters : MasterMatches(m) \/ (m.norm = M(kind)!NoNorm /\ m.id[1] = "legacy")

MasterCursor == \A d \in mBackfill.todo : \A m \in mMasters : d.id = m.id => MasterAlike(d, m)

(* Who is excepted by the GSTIN is so by the PAN.                          *)
MasterBoth == \A i : <<i, "tax">> \in mMarred => <<i, "pan">> \in mMarred

(* A check that was passed stays true of all that is not excepted since.   *)
MasterPassed(kind, r, field) ==
  \A n \in mMasters :
    /\ M(kind)!InScope(n) /\ n.kind = mHand[r].form.kind
    /\ M(kind)!Same(mHand[r].form, n, field)
    => <<n.id, field>> \in mMarred

MasterLeft(checks, field) ==
  \/ field = "tax" /\ checks \in {<<"tax">>, <<"tax", "name">>}
  \/ field = "pan" /\ checks \in {<<"pan">>, <<"pan", "name">>}
  \/ field = "name" /\ checks \in {<<"name">>, <<"tax", "name">>, <<"pan", "name">>}

MasterAsks(kind, r) ==
  /\ mHand[r].form \in MasterTyped[kind]
  /\ mHand[r].how \in M(kind)!Ways(mHand[r].form)
  /\ mPc[r] = "check" => mHand[r].checks \in MasterChecks
  /\ ~mHand[r].early =>
       \A m \in mMasters : m.kind = mHand[r].form.kind => MasterMatches(m)
  /\ ~mHand[r].early /\ mHand[r].how \notin {"override", "trip"} =>
       \A field \in M(kind)!Identity :
         \/ MasterPassed(kind, r, field)
         \/ mPc[r] = "check" /\ MasterLeft(mHand[r].checks, field)
         \/ field = "name" /\ mHand[r].how = "confirmed"

MasterAsked(kind) ==
  \A r \in Request : mPc[r] \in {"check", "insert"} => MasterAsks(kind, r)

(* What a request on vehicles has in hand.                                 *)
MasterVehicles(kind) ==
  \A r \in Request :
    /\ mPc[r] = "rows" => mHand[r].rows \subseteq {f \in MasterTyped[kind] : f.kind = "vehicle"}
    /\ mPc[r] \in {"audit", "status"} =>
         \A m \in mMasters : m.id = mHand[r].id => m.kind = "vehicle"
    /\ mPc[r] = "status" =>
         \E b \in BOOLEAN : M(kind)!Newest(mHand[r].id, b) \in mLog

MasterInv(kind) ==
  /\ MasterShaped /\ MasterFresh /\ MasterShadows(kind) /\ MasterCursor /\ MasterBoth
  /\ MasterAsked(kind) /\ MasterVehicles(kind)
  /\ M(kind)!NoTwins /\ M(kind)!StatusIsLogged

LEMMA MasterBegins == ASSUME NEW kind \in Kinds, M(kind)!Init PROVE MasterInv(kind)
<1>1. /\ mMasters = {M(kind)!Master(f, <<"legacy", f>>, M(kind)!NoNorm) : f \in MasterLegacy[kind]}
      /\ mLog = {} /\ mBackfill = [at |-> 0, todo |-> {}, flag |-> FALSE]
      /\ mPc = [r \in Request |-> "new"] /\ mHand = [r \in Request |-> M(kind)!Idle]
      /\ mMarred = UNION {M(kind)!Marks(<<"legacy", f>>, M(kind)!Identity) : f \in M(kind)!Twins}
  BY DEF M!Init
<1>0. M(kind)!Identity = {"tax", "pan", "name"}
  BY DEF M!Identity
<1>10. ASSUME NEW f \in M(kind)!Twins, NEW field \in {"tax", "pan", "name"}
       PROVE  <<<<"legacy", f>>, field>> \in mMarred
  <2>1. <<<<"legacy", f>>, field>> \in M(kind)!Marks(<<"legacy", f>>, M(kind)!Identity)
    BY <1>0 DEF M!Marks
  <2> QED
    BY <1>1, <2>1
<1>11. MasterBoth
  <2> SUFFICES ASSUME NEW i, <<i, "tax">> \in mMarred
               PROVE  <<i, "pan">> \in mMarred
    BY DEF MasterBoth
  <2>1. PICK f \in M(kind)!Twins :
          <<i, "tax">> \in M(kind)!Marks(<<"legacy", f>>, M(kind)!Identity)
    BY <1>1
  <2>2. i = <<"legacy", f>>
    BY <2>1 DEF M!Marks
  <2> QED
    BY <1>10, <2>2
<1>2. ASSUME NEW m \in mMasters
      PROVE  \E f \in MasterLegacy[kind] :
               /\ m = M(kind)!Master(f, <<"legacy", f>>, M(kind)!NoNorm)
               /\ f.kind \in Kinds /\ m.kind = f.kind /\ m.id = <<"legacy", f>>
               /\ m.tax = f.tax /\ m.pan = f.pan /\ m.name = f.name /\ m.active = TRUE
               /\ m.norm = M(kind)!NoNorm /\ DOMAIN m = MasterFields
  BY <1>1, MasterForms DEF M!Master, MasterFields
<1>9. ASSUME NEW m \in mMasters
      PROVE  m.norm = M(kind)!NoNorm /\ m.id[1] = "legacy"
  <2>1. PICK f \in MasterLegacy[kind] : m.id = <<"legacy", f>> /\ m.norm = M(kind)!NoNorm
    BY <1>2
  <2> QED
    BY <2>1
<1>3. MasterShaped
  <2>1. \A m, n \in mMasters : m.id = n.id => m = n
    <3> TAKE m, n \in mMasters
    <3>1. PICK f \in MasterLegacy[kind] :
            m = M(kind)!Master(f, <<"legacy", f>>, M(kind)!NoNorm) /\ m.id = <<"legacy", f>>
      BY <1>2
    <3>2. PICK g \in MasterLegacy[kind] :
            n = M(kind)!Master(g, <<"legacy", g>>, M(kind)!NoNorm) /\ n.id = <<"legacy", g>>
      BY <1>2
    <3> QED
      BY <3>1, <3>2
  <2>2. /\ DOMAIN M(kind)!Idle = MasterHand /\ M(kind)!Idle.active = TRUE
    BY DEF M!Idle, MasterHand
  <2>3. \A m \in mMasters : DOMAIN m = MasterFields /\ m.kind \in Kinds /\ m.active \in BOOLEAN
    BY <1>2
  <2> QED
    BY <1>1, <2>1, <2>2, <2>3 DEF MasterShaped, MasterSteps
<1>4. MasterFresh
  <2>1. \A i \in MasterIds : i[1] = "legacy"
    <3>1. mBackfill.todo = {} /\ \A r \in Request : mPc[r] \notin {"audit", "status"}
      BY <1>1
    <3>2. \A m \in mMasters : m.id[1] = "legacy"
      BY <1>9
    <3> QED
      BY <1>1, <3>1, <3>2 DEF MasterIds
  <2> QED
    BY <1>1, <2>1, MasterForms DEF MasterFresh
<1>5. MasterShadows(kind) /\ MasterCursor /\ MasterBoth
  <2>1. \A m \in mMasters : m.norm = M(kind)!NoNorm /\ m.id[1] = "legacy"
    BY <1>9
  <2>2. mBackfill.todo = {}
    BY <1>1
  <2> QED
    BY <1>11, <2>1, <2>2 DEF MasterShadows, MasterCursor
<1>6. MasterAsked(kind) /\ MasterVehicles(kind)
  BY <1>1 DEF MasterAsked, MasterVehicles
<1>7. M(kind)!NoTwins
  <2> SUFFICES ASSUME NEW m \in mMasters, NEW n \in mMasters, m.id # n.id, m.kind = n.kind,
                      NEW field \in M(kind)!Identity, M(kind)!Same(m, n, field)
               PROVE  <<m.id, field>> \in mMarred
    BY DEF M!NoTwins
  <2>1. PICK f \in MasterLegacy[kind] :
          /\ m.kind = f.kind /\ m.id = <<"legacy", f>>
          /\ m.tax = f.tax /\ m.pan = f.pan /\ m.name = f.name
    BY <1>2
  <2>2. PICK g \in MasterLegacy[kind] :
          /\ n.kind = g.kind /\ n.id = <<"legacy", g>>
          /\ n.tax = g.tax /\ n.pan = g.pan /\ n.name = g.name
    BY <1>2
  <2>3. f # g /\ f.kind = g.kind
    BY <2>1, <2>2
  <2>4. M(kind)!Same(f, g, field)
    BY <2>1, <2>2 DEF M!Same
  <2>5. f \in M(kind)!Twins
    BY <2>3, <2>4 DEF M!Twins
  <2> QED
    BY <1>0, <1>10, <2>1, <2>5
<1>8. M(kind)!StatusIsLogged
  BY <1>1, <1>2 DEF M!StatusIsLogged, M!Newest
<1> QED
  BY <1>3, <1>4, <1>5, <1>6, <1>7, <1>8 DEF MasterInv

-----------------------------------------------------------------------------
(* A step at the end of which every master is as it was, or is excepted,   *)
(* or is a newcomer who was checked.                                       *)

MasterWhole(n) == \A field \in {"tax", "pan", "name"} : <<n.id, field>> \in mMarred

MasterOld(kind, m, n) ==
  /\ n.id = m.id /\ n.kind = m.kind /\ n.tax = m.tax /\ n.pan = m.pan /\ n.name = m.name
  /\ M(kind)!InScope(n) => M(kind)!InScope(m)

LEMMA MasterKeeps ==
  ASSUME NEW kind \in Kinds, MasterInv(kind), mMarred \subseteq mMarred', NEW X,
         \A n \in mMasters' :
           \/ \E m \in mMasters : /\ MasterOld(kind, m, n)
                                  /\ n.norm = m.norm \/ MasterMatches(n)'
           \/ MasterWhole(n)' \/ n \in X,
         \A x \in X :
           /\ MasterMatches(x)'
           /\ \A d \in mBackfill.todo' : d.id # x.id
           /\ \A r \in Request : mPc[r] \in {"check", "insert"} /\ mPc'[r] = mPc[r] =>
                x.kind # mHand[r].form.kind
           /\ \A n \in mMasters' : \A field \in M(kind)!Identity :
                M(kind)!InScope(n) /\ n.id # x.id /\ n.kind = x.kind
                  /\ (M(kind)!Same(x, n, field) \/ M(kind)!Same(n, x, field)) =>
                  <<x.id, field>> \in mMarred' \/ <<n.id, field>> \in mMarred',
         \A d \in mBackfill.todo' :
           \/ d \in mBackfill.todo
           \/ mMasters' = mMasters /\ d \in mMasters,
         \A r \in Request : mPc'[r] \in {"check", "insert"} =>
           mPc'[r] = mPc[r] /\ mHand'[r] = mHand[r]
  PROVE  /\ MasterShadows(kind)' /\ MasterCursor' /\ MasterAsked(kind)'
         /\ M(kind)!NoTwins'
<1>0. M(kind)!Identity = {"tax", "pan", "name"}
  BY DEF M!Identity
<1>1. ASSUME NEW m \in mMasters, NEW n, MasterOld(kind, m, n), MasterMatches(m),
             n.norm = m.norm \/ MasterMatches(n)'
      PROVE  MasterMatches(n)'
  BY <1>1 DEF MasterOld, MasterMatches
<1>2. ASSUME NEW n, MasterWhole(n)'
      PROVE  MasterMatches(n)'
  BY <1>2 DEF MasterWhole, MasterMatches
<1>3. MasterShadows(kind)'
  <2> SUFFICES ASSUME NEW n \in mMasters'
               PROVE  MasterMatches(n)' \/ (n.norm = M(kind)!NoNorm /\ n.id[1] = "legacy")
    BY DEF MasterShadows, M!NoNorm
  <2>1. CASE \E m \in mMasters : MasterOld(kind, m, n) /\ (n.norm = m.norm \/ MasterMatches(n)')
    <3>1. PICK m \in mMasters : MasterOld(kind, m, n) /\ (n.norm = m.norm \/ MasterMatches(n)')
      BY <2>1
    <3>2. MasterMatches(m) \/ (m.norm = M(kind)!NoNorm /\ m.id[1] = "legacy")
      BY DEF MasterInv, MasterShadows
    <3>3. n.id = m.id
      BY <3>1 DEF MasterOld
    <3>4. CASE MasterMatches(m)
      BY <1>1, <3>1, <3>4
    <3> QED
      BY <3>1, <3>2, <3>3, <3>4
  <2> QED
    BY <1>2, <2>1
<1>4. MasterCursor'
  <2> SUFFICES ASSUME NEW d \in mBackfill.todo', NEW n \in mMasters', d.id = n.id
               PROVE  MasterAlike(d, n)'
    BY DEF MasterCursor
  <2>1. CASE mMasters' = mMasters /\ d \in mMasters
    <3>1. d = n
      BY <2>1 DEF MasterInv, MasterShaped
    <3> QED
      BY <3>1 DEF MasterAlike
  <2>2. CASE d \in mBackfill.todo
    <3>1. CASE \E m \in mMasters : MasterOld(kind, m, n)
      <4>1. PICK m \in mMasters : MasterOld(kind, m, n)
        BY <3>1
      <4>2. d.id = m.id /\ n.id = m.id /\ n.tax = m.tax /\ n.pan = m.pan /\ n.name = m.name
        BY <4>1 DEF MasterOld
      <4>3. MasterAlike(d, m)
        BY <2>2, <4>2 DEF MasterInv, MasterCursor
      <4> QED
        BY <4>2, <4>3 DEF MasterAlike
    <3>2. CASE MasterWhole(n)'
      BY <3>2 DEF MasterWhole, MasterAlike
    <3> QED
      BY <3>1, <3>2
  <2> QED
    BY <2>1, <2>2
<1>5. MasterAsked(kind)'
  <2> SUFFICES ASSUME NEW r \in Request, mPc'[r] \in {"check", "insert"}
               PROVE  MasterAsks(kind, r)'
    BY DEF MasterAsked
  <2>1. mPc'[r] = mPc[r] /\ mHand'[r] = mHand[r]
    OBVIOUS
  <2>2. MasterAsks(kind, r)
    BY <2>1 DEF MasterInv, MasterAsked
  <2>3. ~mHand[r].early =>
          \A n \in mMasters' : n.kind = mHand[r].form.kind => MasterMatches(n)'
    <3> SUFFICES ASSUME ~mHand[r].early, NEW n \in mMasters', n.kind = mHand[r].form.kind
                 PROVE  MasterMatches(n)'
      OBVIOUS
    <3>1. CASE \E m \in mMasters : MasterOld(kind, m, n) /\ (n.norm = m.norm \/ MasterMatches(n)')
      <4>1. PICK m \in mMasters : MasterOld(kind, m, n) /\ (n.norm = m.norm \/ MasterMatches(n)')
        BY <3>1
      <4>2. MasterMatches(m)
        BY <2>2, <4>1 DEF MasterAsks, MasterOld
      <4> QED
        BY <1>1, <4>1, <4>2
    <3> QED
      BY <1>2, <3>1
  <2>4. ASSUME NEW field \in M(kind)!Identity, MasterPassed(kind, r, field)
        PROVE  MasterPassed(kind, r, field)'
    <3> SUFFICES ASSUME NEW n \in mMasters', M(kind)!InScope(n), n.kind = mHand[r].form.kind,
                        M(kind)!Same(mHand[r].form, n, field)
                 PROVE  <<n.id, field>> \in mMarred'
      BY <2>1 DEF MasterPassed, M!InScope, M!Same, M!None
    <3>1. CASE \E m \in mMasters : MasterOld(kind, m, n)
      <4>1. PICK m \in mMasters : MasterOld(kind, m, n)
        BY <3>1
      <4>2. /\ n.id = m.id /\ n.kind = m.kind /\ n.tax = m.tax /\ n.pan = m.pan
            /\ n.name = m.name /\ M(kind)!InScope(m)
        BY <4>1 DEF MasterOld
      <4>3. M(kind)!Same(mHand[r].form, m, field)
        BY <1>0, <4>2 DEF M!Same
      <4>4. <<m.id, field>> \in mMarred
        BY <2>4, <4>2, <4>3 DEF MasterPassed
      <4> QED
        BY <4>2, <4>4
    <3>2. CASE MasterWhole(n)'
      BY <1>0, <3>2 DEF MasterWhole
    <3>3. n \notin X
      BY <2>1
    <3> QED
      BY <3>1, <3>2, <3>3
  <2>5. ~mHand[r].early /\ mHand[r].how \notin {"override", "trip"} =>
          \A field \in M(kind)!Identity :
            \/ MasterPassed(kind, r, field)'
            \/ mPc[r] = "check" /\ MasterLeft(mHand[r].checks, field)
            \/ field = "name" /\ mHand[r].how = "confirmed"
    BY <2>2, <2>4 DEF MasterAsks
  <2>6. /\ mHand[r].form \in MasterTyped[kind]
        /\ mHand[r].how \in M(kind)!Ways(mHand[r].form)
        /\ mPc[r] = "check" => mHand[r].checks \in MasterChecks
    BY <2>2 DEF MasterAsks
  <2> QED
    BY <2>1, <2>3, <2>5, <2>6 DEF MasterAsks, M!Identity, M!Ways
<1>6. M(kind)!NoTwins'
  <2> SUFFICES ASSUME NEW a \in mMasters', NEW b \in mMasters', M(kind)!InScope(a),
                      M(kind)!InScope(b), a.id # b.id, a.kind = b.kind,
                      NEW field \in M(kind)!Identity, M(kind)!Same(a, b, field)
               PROVE  <<a.id, field>> \in mMarred' \/ <<b.id, field>> \in mMarred'
    BY ZenonT(40) DEF M!NoTwins, M!InScope, M!Same, M!Identity, M!None
  <2>1. CASE MasterWhole(a)' \/ MasterWhole(b)'
    BY <1>0, <2>1 DEF MasterWhole
  <2>2. CASE a \in X
    BY <2>2
  <2>3. CASE b \in X
    BY <2>3
  <2>4. CASE (\E m \in mMasters : MasterOld(kind, m, a)) /\ \E m \in mMasters : MasterOld(kind, m, b)
    <3>1. PICK m \in mMasters : MasterOld(kind, m, a)
      BY <2>4
    <3>2. PICK n \in mMasters : MasterOld(kind, n, b)
      BY <2>4
    <3>3. /\ a.id = m.id /\ a.kind = m.kind /\ a.tax = m.tax /\ a.pan = m.pan
          /\ a.name = m.name /\ M(kind)!InScope(m)
      BY <3>1 DEF MasterOld
    <3>4. /\ b.id = n.id /\ b.kind = n.kind /\ b.tax = n.tax /\ b.pan = n.pan
          /\ b.name = n.name /\ M(kind)!InScope(n)
      BY <3>2 DEF MasterOld
    <3>5. M(kind)!Same(m, n, field)
      BY <1>0, <3>3, <3>4 DEF M!Same
    <3>6. <<m.id, field>> \in mMarred \/ <<n.id, field>> \in mMarred
      BY <3>3, <3>4, <3>5 DEF MasterInv, M!NoTwins
    <3> QED
      BY <3>3, <3>4, <3>6
  <2> QED
    BY <2>1, <2>2, <2>3, <2>4
<1> QED
  BY <1>3, <1>4, <1>5, <1>6

(* A step on the masters there are: requests end, or go on to the status.  *)
LEMMA MasterTurns ==
  ASSUME NEW kind \in Kinds, MasterInv(kind), mMarred \subseteq mMarred', MasterBoth',
         \A n \in mMasters' : /\ DOMAIN n = MasterFields /\ n.active \in BOOLEAN
                              /\ \E m \in mMasters : n.id = m.id /\ n.kind = m.kind
                              /\ \/ MasterWhole(n)'
                                 \/ \E m \in mMasters : /\ MasterOld(kind, m, n)
                                                        /\ n.norm = m.norm \/ MasterMatches(n)',
         \A m, n \in mMasters' : m.id = n.id => m = n,
         \A d \in mBackfill.todo' :
           \/ d \in mBackfill.todo
           \/ mMasters' = mMasters /\ d \in mMasters,
         DOMAIN mBackfill' = {"at", "todo", "flag"},
         UNCHANGED mHand, mPc' \in [Request -> MasterSteps],
         \A r \in Request : \/ mPc'[r] = mPc[r]
                            \/ mPc'[r] \in {"done", "refused"}
                            \/ mPc[r] = "audit" /\ mPc'[r] = "status",
         \A e \in mLog' : e.id \in MasterIds,
         \A r \in Request : mPc'[r] = "status" =>
           \E b \in BOOLEAN : M(kind)!Newest(mHand[r].id, b) \in mLog',
         M(kind)!StatusIsLogged'
  PROVE  MasterInv(kind)'
<1>1. MasterShaped'
  <2>1. \A n \in mMasters' : n.kind \in Kinds
    BY DEF MasterInv, MasterShaped
  <2> QED
    BY <2>1 DEF MasterInv, MasterShaped
<1>2. MasterFresh'
  <2>1. MasterIds' \subseteq MasterIds
    <3> SUFFICES ASSUME NEW i \in MasterIds'
                 PROVE  i \in MasterIds
      OBVIOUS
    <3>1. ASSUME NEW n \in mMasters', i = n.id
          PROVE  i \in MasterIds
      <4>1. PICK m \in mMasters : n.id = m.id
        OBVIOUS
      <4>2. m.id \in MasterIds
        BY DEF MasterIds
      <4> QED
        BY <3>1, <4>1, <4>2
    <3>2. ASSUME NEW d \in mBackfill.todo', i = d.id
          PROVE  i \in MasterIds
      BY <3>2 DEF MasterIds
    <3>3. ASSUME NEW e \in mLog', i = e.id
          PROVE  i \in MasterIds
      BY <3>3
    <3>4. ASSUME NEW r \in Request, mPc'[r] \in {"audit", "status"}, i = mHand[r].id
          PROVE  i \in MasterIds
      <4>1. mPc[r] \in {"audit", "status"}
        BY <3>4
      <4> QED
        BY <3>4, <4>1 DEF MasterIds
    <3> QED
      BY <3>1, <3>2, <3>3, <3>4 DEF MasterIds
  <2>2. \A r \in Request : mPc'[r] \in {"new", "check", "insert", "rows"} => mPc'[r] = mPc[r]
    OBVIOUS
  <2> QED
    BY <2>1, <2>2 DEF MasterInv, MasterFresh
<1>3. \A r \in Request : mPc'[r] \in {"check", "insert"} =>
        mPc'[r] = mPc[r] /\ mHand'[r] = mHand[r]
  OBVIOUS
<1>4. /\ MasterShadows(kind)' /\ MasterCursor' /\ MasterAsked(kind)'
      /\ M(kind)!NoTwins'
  <2> DEFINE X == {}
  <2>1. \A n \in mMasters' :
           \/ \E m \in mMasters : /\ MasterOld(kind, m, n)
                                  /\ n.norm = m.norm \/ MasterMatches(n)'
           \/ MasterWhole(n)' \/ n \in X
    OBVIOUS
  <2>2. \A x \in X : FALSE
    OBVIOUS
  <2> HIDE DEF X
  <2> QED
    BY <1>3, <2>1, <2>2, MasterKeeps
<1>5. MasterVehicles(kind)'
  <2> SUFFICES ASSUME NEW r \in Request
               PROVE  /\ mPc'[r] = "rows" =>
                           mHand[r].rows \subseteq {f \in MasterTyped[kind] : f.kind = "vehicle"}
                      /\ mPc'[r] \in {"audit", "status"} =>
                           \A n \in mMasters' : n.id = mHand[r].id => n.kind = "vehicle"
                      /\ mPc'[r] = "status" =>
                           \E b \in BOOLEAN : M(kind)!Newest(mHand[r].id, b) \in mLog'
    BY DEF MasterVehicles, M!Newest
  <2>1. mPc'[r] = "rows" => mPc[r] = "rows"
    OBVIOUS
  <2>2. mPc'[r] \in {"audit", "status"} => mPc[r] \in {"audit", "status"}
    OBVIOUS
  <2> QED
    BY <2>1, <2>2 DEF MasterInv, MasterVehicles
<1> QED
  BY <1>1, <1>2, <1>4, <1>5 DEF MasterInv

(* A step that adds a master under a new id.                               *)
LEMMA MasterAdds ==
  ASSUME NEW kind \in Kinds, MasterInv(kind), mMarred \subseteq mMarred', MasterBoth',
         NEW r \in Request, NEW a, NEW x, x.id = <<r, a>>, <<r, a>> \notin MasterIds,
         DOMAIN x = MasterFields, x.kind \in Kinds, x.active = TRUE,
         mMasters' = mMasters \cup {x}, UNCHANGED <<mLog, mBackfill>>,
         mPc' \in [Request -> MasterSteps], mHand' = [q \in Request |-> mHand'[q]],
         DOMAIN mHand'[r] = MasterHand, mHand'[r].active \in BOOLEAN,
         \A q \in Request \ {r} : mPc'[q] = mPc[q] /\ mHand'[q] = mHand[q],
         mPc[r] \in {"insert", "rows"},
         \/ mPc'[r] = "done"
         \/ /\ mPc'[r] = "rows" /\ mPc[r] = "rows"
            /\ \A g \in mHand'[r].rows : g \in mHand[r].rows /\ g.name # a,
         \/ MasterWhole(x)'
         \/ /\ MasterMatches(x)'
            /\ \A q \in Request \ {r} : mPc[q] \in {"check", "insert"} =>
                 x.kind # mHand[q].form.kind
            /\ \A n \in mMasters : \A field \in M(kind)!Identity :
                 M(kind)!InScope(n) /\ n.kind = x.kind
                   /\ (M(kind)!Same(x, n, field) \/ M(kind)!Same(n, x, field)) =>
                   <<x.id, field>> \in mMarred' \/ <<n.id, field>> \in mMarred'
  PROVE  MasterInv(kind)'
<1>1. \A m \in mMasters : m.id # x.id
  BY DEF MasterIds
<1>2. MasterShaped'
  BY <1>1 DEF MasterInv, MasterShaped
<1>3. MasterFresh'
  <2>1. MasterIds' \subseteq MasterIds \cup {<<r, a>>}
    <3>1. \A q \in Request : mPc'[q] \in {"audit", "status"} =>
            mPc[q] \in {"audit", "status"} /\ mHand'[q] = mHand[q]
      OBVIOUS
    <3>2. {m.id : m \in mMasters' \cup mBackfill'.todo}
            = {m.id : m \in mMasters \cup mBackfill.todo} \cup {x.id}
      OBVIOUS
    <3>3. {mHand'[q].id : q \in {p \in Request : mPc'[p] \in {"audit", "status"}}}
            \subseteq {mHand[q].id : q \in {p \in Request : mPc[p] \in {"audit", "status"}}}
      BY <3>1
    <3> QED
      BY <3>2, <3>3 DEF MasterIds
  <2>2. \A q \in Request \ {r} : \A b : <<q, b>> # <<r, a>> /\ <<r, a>>[1] # q
    OBVIOUS
  <2>3. ASSUME NEW q \in Request, mPc'[q] \in {"new", "check", "insert"}, NEW i \in MasterIds'
        PROVE  i[1] # q
    BY <2>1, <2>2, <2>3 DEF MasterInv, MasterFresh
  <2>4. ASSUME NEW q \in Request, mPc'[q] = "rows", NEW f \in mHand'[q].rows
        PROVE  <<q, f.name>> \notin MasterIds'
    BY <2>1, <2>2, <2>4 DEF MasterInv, MasterFresh
  <2> QED
    BY <2>3, <2>4 DEF MasterFresh
<1>4. /\ MasterShadows(kind)' /\ MasterCursor' /\ MasterAsked(kind)'
      /\ M(kind)!NoTwins'
  <2> DEFINE X == IF MasterWhole(x)' THEN {} ELSE {x}
  <2>1. \A n \in mMasters' :
           \/ \E m \in mMasters : /\ MasterOld(kind, m, n)
                                  /\ n.norm = m.norm \/ MasterMatches(n)'
           \/ MasterWhole(n)' \/ n \in X
    <3>1. \A n \in mMasters : MasterOld(kind, n, n)
      BY DEF MasterOld
    <3> QED
      BY <3>1
  <2>2. ASSUME NEW y \in X
        PROVE  /\ MasterMatches(y)'
               /\ \A d \in mBackfill.todo' : d.id # y.id
               /\ \A q \in Request : mPc[q] \in {"check", "insert"} /\ mPc'[q] = mPc[q] =>
                    y.kind # mHand[q].form.kind
               /\ \A n \in mMasters' : \A field \in M(kind)!Identity :
                    M(kind)!InScope(n) /\ n.id # y.id /\ n.kind = y.kind
                      /\ (M(kind)!Same(y, n, field) \/ M(kind)!Same(n, y, field)) =>
                      <<y.id, field>> \in mMarred' \/ <<n.id, field>> \in mMarred'
    <3>1. y = x /\ ~MasterWhole(x)'
      OBVIOUS
    <3>2. /\ MasterMatches(x)'
          /\ \A q \in Request \ {r} : mPc[q] \in {"check", "insert"} =>
               x.kind # mHand[q].form.kind
          /\ \A n \in mMasters : \A field \in M(kind)!Identity :
               M(kind)!InScope(n) /\ n.kind = x.kind
                 /\ (M(kind)!Same(x, n, field) \/ M(kind)!Same(n, x, field)) =>
                 <<x.id, field>> \in mMarred' \/ <<n.id, field>> \in mMarred'
      BY <3>1
    <3>3. \A d \in mBackfill.todo' : d.id # x.id
      BY DEF MasterIds
    <3>4. \A q \in Request : mPc[q] \in {"check", "insert"} /\ mPc'[q] = mPc[q] => q # r
      OBVIOUS
    <3>5. \A n \in mMasters' : n.id # x.id => n \in mMasters
      OBVIOUS
    <3> HIDE DEF X
    <3> QED
      BY <3>1, <3>2, <3>3, <3>4, <3>5
  <2>3. \A q \in Request : mPc'[q] \in {"check", "insert"} =>
          mPc'[q] = mPc[q] /\ mHand'[q] = mHand[q]
    OBVIOUS
  <2>4. \A d \in mBackfill.todo' : d \in mBackfill.todo
    OBVIOUS
  <2> HIDE DEF X
  <2> QED
    BY <2>1, <2>2, <2>3, <2>4, MasterKeeps
<1>5. MasterVehicles(kind)'
  <2>1. \A q \in Request : mPc'[q] \in {"audit", "status"} =>
          mPc[q] \in {"audit", "status"} /\ mHand'[q] = mHand[q] /\ mHand[q].id # x.id
    <3>1. \A q \in Request : mPc'[q] \in {"audit", "status"} =>
            mPc[q] \in {"audit", "status"} /\ mHand'[q] = mHand[q]
      OBVIOUS
    <3>2. \A q \in Request : mPc[q] \in {"audit", "status"} => mHand[q].id \in MasterIds
      BY DEF MasterIds
    <3> QED
      BY <3>1, <3>2
  <2>2. \A q \in Request : mPc'[q] = "rows" =>
          mPc[q] = "rows" /\ mHand'[q].rows \subseteq mHand[q].rows
    OBVIOUS
  <2>3. \A q \in Request : mPc'[q] = "status" => mPc[q] = "status" /\ mHand'[q] = mHand[q]
    OBVIOUS
  <2> QED
    BY <2>1, <2>2, <2>3 DEF MasterInv, MasterVehicles, M!Newest
<1>6. M(kind)!StatusIsLogged'
  <2> SUFFICES ASSUME NEW m \in mMasters', m.kind = "vehicle",
                      <<m.id, "active">> \notin mMarred',
                      \A q \in Request : mPc'[q] = "status" => mHand'[q].id # m.id
               PROVE  m.active = (M(kind)!Newest(m.id, FALSE) \notin mLog)
    BY DEF M!StatusIsLogged, M!Newest
  <2>1. CASE m = x
    <3>1. M(kind)!Newest(x.id, FALSE) \notin mLog
      <4>1. M(kind)!Newest(x.id, FALSE).id = x.id
        BY DEF M!Newest
      <4> QED
        BY ZenonT(40), <4>1 DEF MasterIds
    <3> QED
      BY <2>1, <3>1
  <2>2. CASE m \in mMasters
    <3>1. \A q \in Request : mPc[q] = "status" => mHand[q].id # m.id
      OBVIOUS
    <3> QED
      BY <2>2, <3>1 DEF MasterInv, M!StatusIsLogged
  <2> QED
    BY <2>1, <2>2
<1> QED
  BY <1>2, <1>3, <1>4, <1>5, <1>6 DEF MasterInv

(* A step that leaves the masters alone.                                   *)
LEMMA MasterQuiet ==
  ASSUME NEW kind \in Kinds, MasterInv(kind), NEW r \in Request,
         UNCHANGED <<mMasters, mLog, mBackfill, mMarred>>,
         mPc' \in [Request -> MasterSteps], mHand' = [q \in Request |-> mHand'[q]],
         DOMAIN mHand'[r] = MasterHand, mHand'[r].active \in BOOLEAN,
         \A q \in Request \ {r} : mPc'[q] = mPc[q] /\ mHand'[q] = mHand[q],
         mPc[r] # "status", mPc'[r] # "status",
         mPc'[r] \in {"new", "check", "insert"} => mPc[r] \in {"new", "check", "insert"},
         mPc'[r] = "rows" =>
           /\ mPc[r] = "new"
           /\ mHand'[r].rows \subseteq {f \in MasterTyped[kind] : f.kind = "vehicle"},
         mPc'[r] = "audit" => \E m \in mMasters : m.id = mHand'[r].id /\ m.kind = "vehicle",
         mPc'[r] \in {"check", "insert"} => MasterAsks(kind, r)'
  PROVE  MasterInv(kind)'
<1>1. MasterShaped'
  BY DEF MasterInv, MasterShaped
<1>2. MasterFresh'
  <2>1. MasterIds' \subseteq MasterIds
    <3>1. \A q \in Request : mPc'[q] \in {"audit", "status"} => mHand'[q].id \in MasterIds
      <4>1. \A q \in Request : mPc[q] \in {"audit", "status"} => mHand[q].id \in MasterIds
        BY DEF MasterIds
      <4>2. \A m \in mMasters : m.id \in MasterIds
        BY DEF MasterIds
      <4> QED
        BY <4>1, <4>2
    <3>2. {m.id : m \in mMasters \cup mBackfill.todo} \cup {e.id : e \in mLog} \subseteq MasterIds
      BY DEF MasterIds
    <3> QED
      BY <3>1, <3>2 DEF MasterIds
  <2>2. ASSUME NEW q \in Request, mPc'[q] \in {"new", "check", "insert"}, NEW i \in MasterIds'
        PROVE  i[1] # q
    BY <2>1, <2>2 DEF MasterInv, MasterFresh
  <2>3. ASSUME NEW q \in Request, mPc'[q] = "rows", NEW f \in mHand'[q].rows
        PROVE  <<q, f.name>> \notin MasterIds'
    <3>1. CASE q # r
      BY <2>1, <2>3, <3>1 DEF MasterInv, MasterFresh
    <3>2. CASE q = r
      <4>1. \A i \in MasterIds : i[1] # r
        BY <2>3, <3>2 DEF MasterInv, MasterFresh
      <4>2. <<q, f.name>>[1] = r
        BY <3>2
      <4> QED
        BY <2>1, <4>1, <4>2
    <3> QED
      BY <3>1, <3>2
  <2> QED
    BY <2>2, <2>3 DEF MasterFresh
<1>3. MasterShadows(kind)' /\ MasterCursor' /\ MasterBoth'
  BY DEF MasterInv, MasterShadows, MasterCursor, MasterBoth, MasterMatches, MasterAlike,
    M!NoNorm
<1>4. MasterAsked(kind)'
  <2> SUFFICES ASSUME NEW q \in Request, mPc'[q] \in {"check", "insert"}, q # r
               PROVE  MasterAsks(kind, q)'
    BY DEF MasterAsked
  <2>1. MasterAsks(kind, q) /\ mPc'[q] = mPc[q] /\ mHand'[q] = mHand[q]
    BY DEF MasterInv, MasterAsked
  <2>2. \A m : MasterMatches(m)' = MasterMatches(m)
    BY DEF MasterMatches
  <2>3. \A field : MasterPassed(kind, q, field)' = MasterPassed(kind, q, field)
    BY <2>1 DEF MasterPassed, M!InScope, M!Same, M!None
  <2>4. /\ mHand'[q].form \in MasterTyped[kind]
        /\ mHand'[q].how \in M(kind)!Ways(mHand'[q].form)
        /\ mPc'[q] = "check" => mHand'[q].checks \in MasterChecks
    BY <2>1 DEF MasterAsks
  <2>5. ~mHand'[q].early =>
          \A m \in mMasters' : m.kind = mHand'[q].form.kind => MasterMatches(m)'
    BY <2>1, <2>2 DEF MasterAsks
  <2>6. ~mHand'[q].early /\ mHand'[q].how \notin {"override", "trip"} =>
          \A field \in M(kind)!Identity :
            \/ MasterPassed(kind, q, field)'
            \/ mPc'[q] = "check" /\ MasterLeft(mHand'[q].checks, field)
            \/ field = "name" /\ mHand'[q].how = "confirmed"
    BY <2>1, <2>3 DEF MasterAsks
  <2> QED
    BY <2>4, <2>5, <2>6 DEF MasterAsks, M!Ways, M!Identity
<1>5. MasterVehicles(kind)'
  <2>1. CASE mPc'[r] = "audit"
    <3>1. PICK m \in mMasters : m.id = mHand'[r].id /\ m.kind = "vehicle"
      BY <2>1
    <3>2. \A n \in mMasters : n.id = mHand'[r].id => n.kind = "vehicle"
      BY <3>1 DEF MasterInv, MasterShaped
    <3> QED
      BY <2>1, <3>2 DEF MasterInv, MasterVehicles, M!Newest
  <2>2. CASE mPc'[r] # "audit"
    BY <2>2 DEF MasterInv, MasterVehicles, M!Newest
  <2> QED
    BY <2>1, <2>2
<1>6. M(kind)!NoTwins'
  <2> SUFFICES ASSUME NEW a \in mMasters', NEW b \in mMasters', M(kind)!InScope(a),
                      M(kind)!InScope(b), a.id # b.id, a.kind = b.kind,
                      NEW field \in M(kind)!Identity, M(kind)!Same(a, b, field)
               PROVE  <<a.id, field>> \in mMarred' \/ <<b.id, field>> \in mMarred'
    BY ZenonT(40) DEF M!NoTwins, M!InScope, M!Same, M!Identity, M!None
  <2> QED
    BY DEF MasterInv, M!NoTwins
<1>7. M(kind)!StatusIsLogged'
  <2>1. \A q \in Request : (mPc'[q] = "status") = (mPc[q] = "status")
    OBVIOUS
  <2>2. \A q \in Request : mPc[q] = "status" => mHand'[q] = mHand[q]
    OBVIOUS
  <2> QED
    BY <2>1, <2>2 DEF MasterInv, M!StatusIsLogged, M!Newest
<1> QED
  BY <1>1, <1>2, <1>3, <1>4, <1>5, <1>6, <1>7 DEF MasterInv

-----------------------------------------------------------------------------
(* Who comes in by a form: the checks of the form leave nothing out that   *)
(* is not excepted.                                                        *)

LEMMA MasterTwoChecks ==
  ASSUME NEW a \in {"tax", "pan"}
  PROVE  <<a>> \o <<"name">> = <<a, "name">>
<1> DEFINE A == {"tax", "pan", "name"}
           s == <<a>>
           t == <<"name">>
           u == <<a, "name">>
<1>1. s \in Seq(A)
  OBVIOUS
<1>2. t \in Seq(A)
  OBVIOUS
<1>3. u \in Seq(A)
  OBVIOUS
<1>4. Len(s) = 1 /\ Len(t) = 1 /\ Len(u) = 2
  OBVIOUS
<1>5. s[1] = a /\ t[1] = "name" /\ u[1] = a /\ u[2] = "name"
  OBVIOUS
<1> HIDE DEF s, t, u
<1> HIDE DEF A
<1>8. /\ s \o t \in Seq(A) /\ Len(s \o t) = Len(s) + Len(t)
      /\ \A i \in 1 .. Len(s) + Len(t) :
           (s \o t)[i] = IF i <= Len(s) THEN s[i] ELSE t[i - Len(s)]
  BY <1>1, <1>2, ConcatProperties
<1>6. s \o t \in Seq(A) /\ Len(s \o t) = 2 /\ (s \o t)[1] = a /\ (s \o t)[2] = "name"
  BY <1>4, <1>5, <1>8
<1>7. s \o t = u
  BY <1>1, <1>2, <1>3, <1>4, <1>5, <1>6, SeqEqual
<1> QED
  BY <1>7 DEF s, t, u

LEMMA MasterOneCheck ==
  ASSUME NEW a \in {"tax", "pan", "name"}
  PROVE  <<a>> \o <<>> = <<a>> /\ <<>> \o <<a>> = <<a>>
<1> DEFINE s == <<a>>
<1>1. s \in Seq({"tax", "pan", "name"})
  OBVIOUS
<1> HIDE DEF s
<1>2. s \o <<>> = s /\ <<>> \o s = s
  BY <1>1, ConcatEmptySeq
<1> QED
  BY <1>2 DEF s

LEMMA MasterNoCheck == <<>> \o <<>> = <<>>
BY EmptySeq, ConcatEmptySeq

LEMMA MasterCovers ==
  ASSUME NEW kind \in Kinds, NEW f \in MasterTyped[kind], NEW how \in M(kind)!Ways(f)
  PROVE  /\ M(kind)!Checks(f, how) \in MasterChecks \cup {<<>>}
         /\ how \notin {"override", "trip"} =>
              \A field \in {"tax", "pan", "name"} :
                \/ MasterLeft(M(kind)!Checks(f, how), field)
                \/ field = "name" /\ how = "confirmed"
                \/ field = "tax" /\ f.tax = "none"
                \/ field = "pan" /\ (f.tax # "none" \/ f.pan = "none")
<1> DEFINE first == IF f.tax # "none" THEN <<"tax">> ELSE IF f.pan # "none" THEN <<"pan">> ELSE <<>>
           last == IF how = "confirmed" THEN <<>> ELSE <<"name">>
           checks == M(kind)!Checks(f, how)
<1>1. CASE how = "override"
  BY <1>1 DEF M!Checks, M!Ways
<1>2. CASE how = "trip"
  BY <1>2 DEF M!Checks, MasterChecks, M!Ways
<1>3. CASE how \notin {"override", "trip"} /\ f.kind = "vehicle"
  <2>1. checks = <<"name">>
    BY <1>3 DEF M!Checks
  <2>2. f.tax = "none" /\ f.pan = "none"
    BY <1>3, MasterForms
  <2> QED
    BY <2>1, <2>2 DEF MasterChecks, MasterLeft
<1>4. CASE how \notin {"override", "trip"} /\ f.kind # "vehicle"
  <2>1. checks = first \o last
    BY <1>4 DEF M!Checks, M!None
  <2> HIDE DEF checks
  <2>2. CASE how = "confirmed"
    <3>1. checks = first
      BY <2>1, <2>2, MasterOneCheck, MasterNoCheck
    <3> QED
      BY <2>2, <3>1 DEF MasterChecks, MasterLeft, checks
  <2>3. CASE how # "confirmed"
    <3>1. CASE f.tax # "none"
      <4>1. checks = <<"tax", "name">>
        BY <2>1, <2>3, <3>1, MasterTwoChecks
      <4> QED
        BY <3>1, <4>1 DEF MasterChecks, MasterLeft, checks
    <3>2. CASE f.tax = "none" /\ f.pan # "none"
      <4>1. checks = <<"pan", "name">>
        BY <2>1, <2>3, <3>2, MasterTwoChecks
      <4> QED
        BY <3>2, <4>1 DEF MasterChecks, MasterLeft, checks
    <3>3. CASE f.tax = "none" /\ f.pan = "none"
      <4>1. checks = <<"name">>
        BY <2>1, <2>3, <3>3, MasterOneCheck
      <4> QED
        BY <3>3, <4>1 DEF MasterChecks, MasterLeft, checks
    <3> QED
      BY <3>1, <3>2, <3>3
  <2> QED
    BY <2>2, <2>3
<1> QED
  BY <1>1, <1>2, <1>3, <1>4

(* A check that finds nobody.                                              *)
LEMMA MasterPasses ==
  ASSUME NEW kind \in Kinds, MasterInv(kind), NEW r \in Request, mPc[r] = "check",
         ~mHand[r].early, NEW field \in {"tax", "pan", "name"},
         M(kind)!Hits(mHand[r].form, field) = {}
  PROVE  MasterPassed(kind, r, field)
<1> SUFFICES ASSUME NEW n \in mMasters, M(kind)!InScope(n), n.kind = mHand[r].form.kind,
                    M(kind)!Same(mHand[r].form, n, field), <<n.id, field>> \notin mMarred
             PROVE  FALSE
  BY DEF MasterPassed
<1>1. MasterMatches(n)
  BY DEF MasterInv, MasterAsked, MasterAsks
<1>2. n \in M(kind)!Hits(mHand[r].form, field)
  <2>1. CASE field = "tax"
    BY <1>1, <2>1 DEF MasterMatches, M!Hits, M!Same
  <2>2. CASE field = "pan"
    <3>1. <<n.id, "tax">> \notin mMarred
      BY <2>2 DEF MasterInv, MasterBoth
    <3> QED
      BY <1>1, <2>2, <3>1 DEF MasterMatches, M!Hits, M!Same
  <2>3. CASE field = "name"
    BY <1>1, <2>3 DEF MasterMatches, M!Hits, M!Same, M!Norm
  <2> QED
    BY <2>1, <2>2, <2>3
<1> QED
  BY <1>2

LEMMA MasterCreates ==
  ASSUME NEW kind \in Kinds, MasterInv(kind), NEW r \in Request, NEW f \in MasterTyped[kind],
         NEW how \in M(kind)!Ways(f), M(kind)!Create(r, f, how)
  PROVE  MasterInv(kind)'
<1> DEFINE checks == M(kind)!Checks(f, how)
           early == \E m \in mMasters : /\ m.id[1] = "legacy" /\ m.kind = f.kind
                                        /\ m.norm = M(kind)!NoNorm
<1>1. /\ mPc[r] = "new" /\ UNCHANGED <<mMasters, mLog, mBackfill, mMarred>>
      /\ mHand' = [mHand EXCEPT ![r] = [M(kind)!Idle EXCEPT !.form = f, !.how = how,
                                                            !.checks = checks, !.early = early]]
      /\ mPc' = [mPc EXCEPT ![r] = IF checks = <<>> THEN "insert" ELSE "check"]
  BY DEF M!Create
<1>2. /\ mHand'[r] = [M(kind)!Idle EXCEPT !.form = f, !.how = how, !.checks = checks,
                                          !.early = early]
      /\ mHand' = [q \in Request |-> mHand'[q]]
      /\ mPc'[r] = IF checks = <<>> THEN "insert" ELSE "check"
      /\ mPc' \in [Request -> MasterSteps]
      /\ \A q \in Request \ {r} : mPc'[q] = mPc[q] /\ mHand'[q] = mHand[q]
  BY <1>1 DEF MasterInv, MasterShaped, MasterSteps
<1>3. /\ mHand'[r].form = f /\ mHand'[r].how = how /\ mHand'[r].checks = checks
      /\ mHand'[r].active = TRUE /\ DOMAIN mHand'[r] = MasterHand
      /\ mHand'[r].early = early
  BY <1>2 DEF M!Idle, MasterHand
<1>4. checks \in MasterChecks \cup {<<>>}
  BY MasterCovers
<1>5. how \notin {"override", "trip"} =>
        \A field \in {"tax", "pan", "name"} :
          \/ MasterLeft(checks, field)
          \/ field = "name" /\ how = "confirmed"
          \/ field = "tax" /\ f.tax = "none"
          \/ field = "pan" /\ (f.tax # "none" \/ f.pan = "none")
  BY MasterCovers
<1>6. \A field : MasterLeft(<<>>, field) => FALSE
  BY DEF MasterLeft
<1> HIDE DEF checks
<1>7. MasterAsks(kind, r)'
  <2>1. ~early => \A m \in mMasters : m.kind = f.kind => MasterMatches(m)
    BY DEF MasterInv, MasterShadows
  <2>2. \A m : MasterMatches(m)' = MasterMatches(m)
    BY <1>1 DEF MasterMatches
  <2>3. ~mHand'[r].early =>
          \A m \in mMasters' : m.kind = mHand'[r].form.kind => MasterMatches(m)'
    BY <1>1, <1>3, <2>1, <2>2
  <2> HIDE DEF early
  <2>4. ASSUME f.tax = "none"
        PROVE  MasterPassed(kind, r, "tax")'
    BY <1>3, <2>4 DEF MasterPassed, M!Same, M!None
  <2>5. ASSUME f.tax # "none" \/ f.pan = "none"
        PROVE  MasterPassed(kind, r, "pan")'
    BY <1>3, <2>5 DEF MasterPassed, M!Same, M!None
  <2>6. how \notin {"override", "trip"} =>
          \A field \in {"tax", "pan", "name"} :
            \/ MasterPassed(kind, r, field)'
            \/ mPc'[r] = "check" /\ MasterLeft(checks, field)
            \/ field = "name" /\ how = "confirmed"
    BY <1>2, <1>5, <1>6, <2>4, <2>5
  <2>7. /\ mHand'[r].form \in MasterTyped[kind]
        /\ mHand'[r].how \in M(kind)!Ways(mHand'[r].form)
        /\ mPc'[r] = "check" => mHand'[r].checks \in MasterChecks
    BY <1>2, <1>3, <1>4
  <2> QED
    BY <1>3, <2>3, <2>6, <2>7 DEF MasterAsks, M!Identity, M!Ways
<1> HIDE DEF early
<1> QED
  BY <1>1, <1>2, <1>3, <1>7, MasterQuiet

(* What is left of each list of checks after the first of them.            *)
LEMMA MasterTails ==
  /\ \A a \in {"tax", "pan", "name", "raw"} : Len(<<a>>) = 1 /\ Head(<<a>>) = a
  /\ \A a \in {"tax", "pan"} :
       /\ Len(<<a, "name">>) = 2 /\ Head(<<a, "name">>) = a
       /\ Tail(<<a, "name">>) = <<"name">>
<1>1. ASSUME NEW a PROVE Len(<<a>>) = 1 /\ Head(<<a>>) = a
  OBVIOUS
<1>2. ASSUME NEW a PROVE Len(<<a, "name">>) = 2 /\ Head(<<a, "name">>) = a
  OBVIOUS
<1>3. ASSUME NEW a PROVE Tail(<<a, "name">>) = <<"name">>
  OBVIOUS
<1> QED
  BY <1>1, <1>2, <1>3

LEMMA MasterChecksOn ==
  ASSUME NEW kind \in Kinds, MasterInv(kind), NEW r \in Request, M(kind)!Check(r)
  PROVE  MasterInv(kind)'
<1> DEFINE checks == mHand[r].checks
           form == mHand[r].form
           found == M(kind)!Hits(form, Head(checks)) # {}
<1>1. /\ mPc[r] = "check" /\ UNCHANGED <<mMasters, mLog, mBackfill, mMarred>>
      /\ mHand' = [mHand EXCEPT ![r].checks = Tail(checks)]
      /\ mPc' = [mPc EXCEPT ![r] = IF found
                                   THEN IF form.kind = "vehicle" \/ mHand[r].how = "trip"
                                        THEN "done" ELSE "refused"
                                   ELSE IF Len(checks) = 1 THEN "insert" ELSE "check"]
  BY DEF M!Check
<1>2. MasterAsks(kind, r)
  BY <1>1 DEF MasterInv, MasterAsked
<1>3. checks \in MasterChecks
  BY <1>1, <1>2 DEF MasterAsks
<1>4. /\ mHand'[r] = [mHand[r] EXCEPT !.checks = Tail(checks)]
      /\ mHand' = [q \in Request |-> mHand'[q]]
      /\ mPc' \in [Request -> MasterSteps]
      /\ mPc'[r] \in {"done", "refused", "insert", "check"}
      /\ mPc'[r] \in {"insert", "check"} => ~found
      /\ ~found => mPc'[r] = IF Len(checks) = 1 THEN "insert" ELSE "check"
      /\ \A q \in Request \ {r} : mPc'[q] = mPc[q] /\ mHand'[q] = mHand[q]
  BY <1>1 DEF MasterInv, MasterShaped, MasterSteps
<1>5. /\ DOMAIN mHand'[r] = MasterHand /\ mHand'[r].active \in BOOLEAN
      /\ mHand'[r].form = form /\ mHand'[r].how = mHand[r].how
      /\ mHand'[r].early = mHand[r].early /\ mHand'[r].checks = Tail(checks)
  BY <1>4 DEF MasterInv, MasterShaped, MasterHand
<1>6. ASSUME mPc'[r] \in {"check", "insert"}
      PROVE  MasterAsks(kind, r)'
  <2>1. M(kind)!Hits(form, Head(checks)) = {}
    BY <1>4, <1>6
  <2>2. mPc'[r] = IF Len(checks) = 1 THEN "insert" ELSE "check"
    BY <1>4, <1>6
  <2>3. \/ \E a \in {"tax", "pan", "name", "raw"} :
              checks = <<a>> /\ Len(checks) = 1 /\ Head(checks) = a
        \/ \E a \in {"tax", "pan"} :
              /\ checks = <<a, "name">> /\ Len(checks) = 2 /\ Head(checks) = a
              /\ Tail(checks) = <<"name">>
    <3>1. \/ \E a \in {"tax", "pan", "name", "raw"} : checks = <<a>>
          \/ \E a \in {"tax", "pan"} : checks = <<a, "name">>
      BY <1>3 DEF MasterChecks
    <3> HIDE DEF checks
    <3>2. CASE \E a \in {"tax", "pan", "name", "raw"} : checks = <<a>>
      <4>1. PICK a \in {"tax", "pan", "name", "raw"} : checks = <<a>>
        BY <3>2
      <4>2. Len(checks) = 1 /\ Head(checks) = a
        BY <4>1, MasterTails
      <4> QED
        BY <4>1, <4>2
    <3>3. CASE \E a \in {"tax", "pan"} : checks = <<a, "name">>
      <4>1. PICK a \in {"tax", "pan"} : checks = <<a, "name">>
        BY <3>3
      <4>2. Len(checks) = 2 /\ Head(checks) = a /\ Tail(checks) = <<"name">>
        BY <4>1, MasterTails
      <4> QED
        BY <4>1, <4>2
    <3> QED
      BY <3>1, <3>2, <3>3
  <2>4. \A field \in {"tax", "pan", "name"} :
          MasterLeft(checks, field) =>
            \/ Head(checks) = field
            \/ Len(checks) = 2 /\ MasterLeft(Tail(checks), field)
    <3> HIDE DEF checks
    <3>1. MasterLeft(<<"name">>, "name")
      BY DEF MasterLeft
    <3>2. CASE \E a \in {"tax", "pan", "name", "raw"} :
                 checks = <<a>> /\ Len(checks) = 1 /\ Head(checks) = a
      <4>1. PICK a \in {"tax", "pan", "name", "raw"} : checks = <<a>> /\ Head(checks) = a
        BY <3>2
      <4>2. \A field \in {"tax", "pan", "name"} : MasterLeft(<<a>>, field) => field = a
        BY DEF MasterLeft
      <4> QED
        BY <4>1, <4>2
    <3>3. CASE \E a \in {"tax", "pan"} :
                 /\ checks = <<a, "name">> /\ Len(checks) = 2 /\ Head(checks) = a
                 /\ Tail(checks) = <<"name">>
      <4>1. PICK a \in {"tax", "pan"} :
              /\ checks = <<a, "name">> /\ Len(checks) = 2 /\ Head(checks) = a
              /\ Tail(checks) = <<"name">>
        BY <3>3
      <4>2. \A field \in {"tax", "pan", "name"} :
              MasterLeft(<<a, "name">>, field) => field = a \/ field = "name"
        BY DEF MasterLeft
      <4> QED
        BY <3>1, <4>1, <4>2
    <3> QED
      BY <2>3, <3>2, <3>3
  <2> HIDE DEF checks
  <2>5. \A field \in {"tax", "pan", "name"} :
          ~mHand[r].early /\ Head(checks) = field => MasterPassed(kind, r, field)
    BY <1>1, <2>1, MasterPasses
  <2>6. \A field : MasterPassed(kind, r, field)' <=> MasterPassed(kind, r, field)
    BY ZenonT(40), <1>1, <1>5 DEF MasterPassed, M!InScope, M!Same, M!None
  <2>7. ~mHand[r].early /\ mHand[r].how \notin {"override", "trip"} =>
          \A field \in {"tax", "pan", "name"} :
            \/ MasterPassed(kind, r, field)
            \/ MasterLeft(checks, field)
            \/ field = "name" /\ mHand[r].how = "confirmed"
    BY <1>2 DEF MasterAsks, M!Identity, checks
  <2>8. ~mHand'[r].early /\ mHand'[r].how \notin {"override", "trip"} =>
          \A field \in {"tax", "pan", "name"} :
            \/ MasterPassed(kind, r, field)'
            \/ mPc'[r] = "check" /\ MasterLeft(mHand'[r].checks, field)
            \/ field = "name" /\ mHand'[r].how = "confirmed"
    <3>1. Len(checks) = 2 => mPc'[r] = "check"
      BY <2>2
    <3> QED
      BY <1>5, <2>4, <2>5, <2>6, <2>7, <3>1
  <2>9. mPc'[r] = "check" => mHand'[r].checks \in MasterChecks
    BY <1>5, <2>2, <2>3 DEF MasterChecks
  <2>10. \A m : MasterMatches(m)' <=> MasterMatches(m)
    BY <1>1 DEF MasterMatches
  <2>11. ~mHand'[r].early =>
           \A m \in mMasters' : m.kind = mHand'[r].form.kind => MasterMatches(m)'
    BY <1>1, <1>2, <1>5, <2>10 DEF MasterAsks
  <2>12. mHand'[r].form \in MasterTyped[kind] /\ mHand'[r].how \in M(kind)!Ways(mHand'[r].form)
    BY <1>2, <1>5 DEF MasterAsks
  <2> QED
    BY <2>8, <2>9, <2>11, <2>12 DEF MasterAsks, M!Identity, M!Ways
<1> HIDE DEF checks, form, found
<1> QED
  BY <1>1, <1>4, <1>5, <1>6, MasterQuiet

LEMMA MasterLooks ==
  ASSUME NEW kind \in Kinds, MasterInv(kind), NEW r \in Request,
         \/ \E F \in SUBSET {f \in MasterTyped[kind] : f.kind = "vehicle"} \ {{}} :
              M(kind)!Import(r, F)
         \/ \E m \in mMasters : M(kind)!OpenForm(r, m)
         \/ \E m \in mMasters : \E b \in BOOLEAN : M(kind)!ChangeStatus(r, m, b)
  PROVE  MasterInv(kind)'
<1>0. MasterShaped
  BY DEF MasterInv
<1>1. CASE \E F \in SUBSET {f \in MasterTyped[kind] : f.kind = "vehicle"} \ {{}} :
             M(kind)!Import(r, F)
  <2>1. PICK F \in SUBSET {f \in MasterTyped[kind] : f.kind = "vehicle"} : M(kind)!Import(r, F)
    BY <1>1
  <2> DEFINE fresh == {f \in F : M(kind)!Hits(f, "raw") = {}}
             new == [M(kind)!Idle EXCEPT !.rows = fresh]
  <2>2. /\ mPc[r] = "new" /\ UNCHANGED <<mMasters, mLog, mBackfill, mMarred>>
        /\ mHand' = [mHand EXCEPT ![r] = new]
        /\ mPc' = [mPc EXCEPT ![r] = IF fresh = {} THEN "done" ELSE "rows"]
    BY <2>1 DEF M!Import
  <2>3. DOMAIN new = MasterHand /\ new.active = TRUE /\ new.rows = fresh
    BY DEF M!Idle, MasterHand
  <2>4. fresh \subseteq {f \in MasterTyped[kind] : f.kind = "vehicle"}
    OBVIOUS
  <2> HIDE DEF fresh, new
  <2>5. /\ mHand'[r] = new /\ mHand' = [q \in Request |-> mHand'[q]]
        /\ mPc' \in [Request -> MasterSteps] /\ mPc'[r] \in {"done", "rows"}
        /\ \A q \in Request \ {r} : mPc'[q] = mPc[q] /\ mHand'[q] = mHand[q]
    BY <1>0, <2>2 DEF MasterShaped, MasterSteps
  <2> QED
    BY <2>2, <2>3, <2>4, <2>5, MasterQuiet
<1>2. CASE \E m \in mMasters : M(kind)!OpenForm(r, m)
  <2>1. PICK m \in mMasters : M(kind)!OpenForm(r, m)
    BY <1>2
  <2> DEFINE new == [M(kind)!Idle EXCEPT !.id = m.id, !.form.kind = m.kind, !.active = m.active]
  <2>2. /\ mPc[r] = "new" /\ UNCHANGED <<mMasters, mLog, mBackfill, mMarred>>
        /\ mHand' = [mHand EXCEPT ![r] = new]
        /\ mPc' = [mPc EXCEPT ![r] = "form"]
    BY <2>1 DEF M!OpenForm
  <2>3. DOMAIN new = MasterHand /\ new.active = m.active
    BY DEF M!Idle, MasterHand
  <2>4. m.active \in BOOLEAN
    BY <1>0 DEF MasterShaped
  <2> HIDE DEF new
  <2>5. /\ mHand'[r] = new /\ mHand' = [q \in Request |-> mHand'[q]]
        /\ mPc' \in [Request -> MasterSteps] /\ mPc'[r] = "form"
        /\ \A q \in Request \ {r} : mPc'[q] = mPc[q] /\ mHand'[q] = mHand[q]
    BY <1>0, <2>2 DEF MasterShaped, MasterSteps
  <2> QED
    BY <2>2, <2>3, <2>4, <2>5, MasterQuiet
<1>3. CASE \E m \in mMasters : \E b \in BOOLEAN : M(kind)!ChangeStatus(r, m, b)
  <2>1. PICK m \in mMasters, b \in BOOLEAN : M(kind)!ChangeStatus(r, m, b)
    BY <1>3
  <2> DEFINE new == [M(kind)!Idle EXCEPT !.id = m.id, !.active = b]
  <2>2. /\ mPc[r] = "new" /\ m.kind = "vehicle"
        /\ UNCHANGED <<mMasters, mLog, mBackfill, mMarred>>
        /\ \/ mPc' = [mPc EXCEPT ![r] = "refused"] /\ mHand' = mHand
           \/ mPc' = [mPc EXCEPT ![r] = "audit"] /\ mHand' = [mHand EXCEPT ![r] = new]
    BY <2>1 DEF M!ChangeStatus
  <2>3. DOMAIN new = MasterHand /\ new.active = b /\ new.id = m.id
    BY DEF M!Idle, MasterHand
  <2> HIDE DEF new
  <2>4. /\ mHand' = [q \in Request |-> mHand'[q]]
        /\ DOMAIN mHand'[r] = MasterHand /\ mHand'[r].active \in BOOLEAN
        /\ mPc' \in [Request -> MasterSteps] /\ mPc'[r] \in {"refused", "audit"}
        /\ mPc'[r] = "audit" => mHand'[r].id = m.id
        /\ \A q \in Request \ {r} : mPc'[q] = mPc[q] /\ mHand'[q] = mHand[q]
    BY <1>0, <2>2, <2>3 DEF MasterShaped, MasterSteps
  <2> QED
    BY <2>2, <2>4, MasterQuiet
<1> QED
  BY <1>1, <1>2, <1>3

LEMMA MasterInserts ==
  ASSUME NEW kind \in Kinds, MasterInv(kind), NEW r \in Request, M(kind)!Insert(r)
  PROVE  MasterInv(kind)'
<1> SUFFICES ASSUME NEW f, NEW how, f = mHand[r].form, how = mHand[r].how
             PROVE  MasterInv(kind)'
  OBVIOUS
<1> DEFINE id == <<r, f.name>>
           skipped == M(kind)!Skipped(r, f, how)
           x == M(kind)!Master(f, id, IF how = "trip" THEN M(kind)!NoNorm ELSE M(kind)!Norm(f))
<1>1. /\ mPc[r] = "insert" /\ UNCHANGED <<mLog, mBackfill, mHand>>
      /\ mMasters' = mMasters \cup {x} /\ mMarred' = mMarred \cup M(kind)!Marks(id, skipped)
      /\ mPc' = [mPc EXCEPT ![r] = "done"]
  BY DEF M!Insert
<1>2. MasterAsks(kind, r) /\ MasterShaped /\ MasterBoth
  BY <1>1 DEF MasterInv, MasterAsked
<1>3. f \in MasterTyped[kind] /\ how \in M(kind)!Ways(f) /\ f.kind \in Kinds
  BY <1>2, MasterForms DEF MasterAsks
<1>4. /\ x.id = id /\ x.kind = f.kind /\ x.tax = f.tax /\ x.pan = f.pan /\ x.name = f.name
      /\ x.active = TRUE /\ DOMAIN x = MasterFields
      /\ how # "trip" => x.norm = M(kind)!Norm(f)
  BY DEF M!Master, MasterFields
<1>5. id \notin MasterIds
  <2>1. \A i \in MasterIds : i[1] # r
    BY <1>1 DEF MasterInv, MasterFresh
  <2>2. id[1] = r
    OBVIOUS
  <2> QED
    BY <2>1, <2>2
<1>6. \A i, field : <<i, field>> \in mMarred' <=>
        <<i, field>> \in mMarred \/ (i = id /\ field \in skipped)
  BY <1>1 DEF M!Marks
<1>7. \/ skipped = {"tax", "pan", "name"}
      \/ /\ how \notin {"override", "trip"} /\ ~mHand[r].early
         /\ M(kind)!Pending(f.kind) = {r}
         /\ skipped = IF how = "confirmed" THEN {"name"} ELSE {}
  BY DEF M!Skipped, M!Identity
<1> HIDE DEF skipped, x, id
<1>8. MasterBoth'
  <2>1. "tax" \in skipped => "pan" \in skipped
    BY <1>7
  <2> QED
    BY <1>2, <1>6, <2>1 DEF MasterBoth
<1>9. mMarred \subseteq mMarred'
  BY <1>1
<1>10. \/ MasterWhole(x)'
       \/ /\ MasterMatches(x)'
          /\ \A q \in Request \ {r} : mPc[q] \in {"check", "insert"} =>
               x.kind # mHand[q].form.kind
          /\ \A n \in mMasters : \A field \in M(kind)!Identity :
               M(kind)!InScope(n) /\ n.kind = x.kind
                 /\ (M(kind)!Same(x, n, field) \/ M(kind)!Same(n, x, field)) =>
                 <<x.id, field>> \in mMarred' \/ <<n.id, field>> \in mMarred'
  <2>1. CASE skipped = {"tax", "pan", "name"}
    <3>1. \A field \in {"tax", "pan", "name"} : <<id, field>> \in mMarred'
      BY <1>6, <2>1
    <3> QED
      BY <1>4, <3>1 DEF MasterWhole
  <2>2. CASE /\ how \notin {"override", "trip"} /\ ~mHand[r].early
             /\ M(kind)!Pending(f.kind) = {r}
             /\ skipped = IF how = "confirmed" THEN {"name"} ELSE {}
    <3>1. MasterMatches(x)'
      <4>1. x.norm = M(kind)!Norm(f)
        BY <1>4, <2>2
      <4>2. /\ M(kind)!Norm(f).tax = f.tax /\ M(kind)!Norm(f).pan = f.pan
            /\ M(kind)!Norm(f).name = f.name[1]
        BY DEF M!Norm
      <4> QED
        BY <1>4, <4>1, <4>2 DEF MasterMatches
    <3>2. \A q \in Request \ {r} : mPc[q] \in {"check", "insert"} =>
            x.kind # mHand[q].form.kind
      BY <1>4, <2>2 DEF M!Pending
    <3>3. ASSUME NEW n \in mMasters, NEW field \in {"tax", "pan", "name"},
                 M(kind)!InScope(n), n.kind = x.kind,
                 M(kind)!Same(x, n, field) \/ M(kind)!Same(n, x, field)
          PROVE  <<x.id, field>> \in mMarred' \/ <<n.id, field>> \in mMarred'
      <4>1. M(kind)!Same(f, n, field)
        BY <1>4, <3>3 DEF M!Same
      <4>2. CASE field = "name" /\ how = "confirmed"
        BY <1>4, <1>6, <2>2, <4>2
      <4>3. CASE ~(field = "name" /\ how = "confirmed")
        <5>1. MasterPassed(kind, r, field)
          BY <1>1, <1>2, <2>2, <4>3 DEF MasterAsks, M!Identity
        <5>2. <<n.id, field>> \in mMarred
          BY <1>4, <3>3, <4>1, <5>1 DEF MasterPassed
        <5> QED
          BY <1>9, <5>2
      <4> QED
        BY <4>2, <4>3
    <3> QED
      BY <3>1, <3>2, <3>3 DEF M!Identity
  <2> QED
    BY <1>7, <2>1, <2>2
<1>11. /\ mPc' \in [Request -> MasterSteps] /\ mPc'[r] = "done"
       /\ mHand' = [q \in Request |-> mHand'[q]]
       /\ DOMAIN mHand'[r] = MasterHand /\ mHand'[r].active \in BOOLEAN
       /\ \A q \in Request \ {r} : mPc'[q] = mPc[q] /\ mHand'[q] = mHand[q]
  BY <1>1, <1>2 DEF MasterShaped, MasterSteps
<1>12. PICK a : id = <<r, a>>
  BY DEF id
<1>13. x.id = <<r, a>> /\ <<r, a>> \notin MasterIds /\ x.kind \in Kinds
  BY <1>3, <1>4, <1>5, <1>12
<1> QED
  BY <1>1, <1>4, <1>8, <1>9, <1>10, <1>11, <1>13, MasterAdds

LEMMA MasterRows ==
  ASSUME NEW kind \in Kinds, MasterInv(kind), NEW r \in Request, NEW f \in MasterTyped[kind],
         M(kind)!ImportRow(r, f)
  PROVE  MasterInv(kind)'
<1> DEFINE a == f.name
           x == M(kind)!Master(f, <<r, a>>, M(kind)!NoNorm)
<1>1. /\ mPc[r] = "rows" /\ f \in mHand[r].rows /\ UNCHANGED <<mLog, mBackfill>>
      /\ mMasters' = mMasters \cup {x}
      /\ mMarred' = mMarred \cup M(kind)!Marks(<<r, a>>, M(kind)!Identity)
      /\ mHand' = [mHand EXCEPT ![r].rows = @ \ {f}]
      /\ mPc' = [mPc EXCEPT ![r] = IF mHand[r].rows = {f} THEN "done" ELSE "rows"]
  BY DEF M!ImportRow
<1>2. /\ MasterShaped /\ MasterBoth
      /\ mHand[r].rows \subseteq {g \in MasterTyped[kind] : g.kind = "vehicle"}
      /\ <<r, a>> \notin MasterIds
  BY <1>1 DEF MasterInv, MasterVehicles, MasterFresh
<1>3. /\ x.id = <<r, a>> /\ x.kind = f.kind /\ x.active = TRUE /\ DOMAIN x = MasterFields
  BY DEF M!Master, MasterFields
<1>4. x.kind \in Kinds
  BY <1>3, MasterForms
<1>5. \A i, field : <<i, field>> \in mMarred' <=>
        <<i, field>> \in mMarred \/ (i = <<r, a>> /\ field \in {"tax", "pan", "name"})
  BY <1>1 DEF M!Marks, M!Identity
<1> HIDE DEF x
<1>6. MasterBoth' /\ MasterWhole(x)' /\ mMarred \subseteq mMarred'
  BY <1>1, <1>2, <1>3, <1>5 DEF MasterBoth, MasterWhole
<1>7. /\ mHand'[r] = [mHand[r] EXCEPT !.rows = @ \ {f}]
      /\ mHand' = [q \in Request |-> mHand'[q]]
      /\ mPc' \in [Request -> MasterSteps] /\ mPc'[r] \in {"done", "rows"}
      /\ \A q \in Request \ {r} : mPc'[q] = mPc[q] /\ mHand'[q] = mHand[q]
  BY <1>1, <1>2 DEF MasterShaped, MasterSteps
<1>8. /\ mHand'[r].rows = mHand[r].rows \ {f}
      /\ DOMAIN mHand'[r] = MasterHand /\ mHand'[r].active \in BOOLEAN
  BY <1>2, <1>7 DEF MasterShaped, MasterHand
<1>9. \A g \in mHand'[r].rows : g \in mHand[r].rows /\ g.name # a
  BY <1>1, <1>2, <1>8, MasterForms
<1> HIDE DEF a
<1> QED
  BY <1>1, <1>2, <1>3, <1>4, <1>6, <1>7, <1>8, <1>9, MasterAdds

-----------------------------------------------------------------------------
(* What is done to the masters there are.                                  *)

(* Who is as before but for what does not tell parties apart.              *)
LEMMA MasterSame ==
  ASSUME NEW kind \in Kinds, NEW m, NEW n, n.id = m.id, n.kind = m.kind, n.tax = m.tax,
         n.pan = m.pan, n.name = m.name, m.kind = "supplier" /\ n.active => m.active
  PROVE  MasterOld(kind, m, n)
BY DEF MasterOld, M!InScope

LEMMA MasterSaves ==
  ASSUME NEW kind \in Kinds, MasterInv(kind), NEW r \in Request, NEW f \in MasterTyped[kind],
         M(kind)!SaveForm(r, f)
  PROVE  MasterInv(kind)'
<1>0. MasterShaped /\ MasterBoth /\ M(kind)!StatusIsLogged
  BY DEF MasterInv
<1> DEFINE old == {m \in mMasters : m.id = mHand[r].id}
<1>1. /\ mPc[r] = "form" /\ UNCHANGED <<mLog, mBackfill, mHand>>
      /\ mMasters' = (mMasters \ old) \cup {M(kind)!Put(m, f, mHand[r].active) : m \in old}
      /\ mMarred' = mMarred \cup
           UNION {IF m.active = mHand[r].active THEN M(kind)!Marks(m.id, M(kind)!Identity)
                  ELSE M(kind)!Marks(m.id, M(kind)!Identity \cup {"active"}) : m \in old}
      /\ mPc' = [mPc EXCEPT ![r] = "done"]
  BY DEF M!SaveForm
<1>2. ASSUME NEW m \in mMasters
      PROVE  /\ M(kind)!Put(m, f, mHand[r].active).id = m.id
             /\ M(kind)!Put(m, f, mHand[r].active).kind = m.kind
             /\ M(kind)!Put(m, f, mHand[r].active).active = mHand[r].active
             /\ DOMAIN M(kind)!Put(m, f, mHand[r].active) = MasterFields
  BY <1>0 DEF M!Put, MasterShaped, MasterFields
<1>3. mHand[r].active \in BOOLEAN
  BY <1>0 DEF MasterShaped
<1>4. ASSUME NEW m \in old, NEW field \in {"tax", "pan", "name"}
      PROVE  <<m.id, field>> \in mMarred'
  BY <1>1 DEF M!Marks, M!Identity
<1>5. ASSUME NEW m \in old, m.active # mHand[r].active
      PROVE  <<m.id, "active">> \in mMarred'
  BY <1>1, <1>5 DEF M!Marks, M!Identity
<1>6. ASSUME NEW i, NEW field, <<i, field>> \in mMarred'
      PROVE  <<i, field>> \in mMarred \/ \E m \in old : m.id = i
  <2> SUFFICES ASSUME <<i, field>> \notin mMarred
               PROVE  \E m \in old : m.id = i
    OBVIOUS
  <2>1. PICK m \in old :
          <<i, field>> \in IF m.active = mHand[r].active
                          THEN M(kind)!Marks(m.id, M(kind)!Identity)
                          ELSE M(kind)!Marks(m.id, M(kind)!Identity \cup {"active"})
    BY <1>1, <1>6
  <2>2. \A fields : <<i, field>> \in M(kind)!Marks(m.id, fields) => m.id = i
    BY DEF M!Marks
  <2>3. m.id = i
    BY <2>1, <2>2
  <2> QED
    BY <2>3
<1>7. MasterBoth'
  BY <1>0, <1>1, <1>4, <1>6 DEF MasterBoth
<1>8. ASSUME NEW n \in mMasters'
      PROVE  \E m \in mMasters :
               /\ n.id = m.id /\ n.kind = m.kind /\ DOMAIN n = MasterFields
               /\ \/ n = m
                  \/ /\ m \in old /\ n = M(kind)!Put(m, f, mHand[r].active)
                     /\ n.active = mHand[r].active /\ MasterWhole(n)'
  <2>1. CASE n \in mMasters
    BY <1>0, <2>1 DEF MasterShaped
  <2>2. CASE n \notin mMasters
    <3>1. PICK m \in old : n = M(kind)!Put(m, f, mHand[r].active)
      BY <1>1, <2>2
    <3>2. /\ n.id = m.id /\ n.kind = m.kind /\ n.active = mHand[r].active
          /\ DOMAIN n = MasterFields
      BY <1>2, <3>1
    <3>3. MasterWhole(n)'
      BY <1>4, <3>2 DEF MasterWhole
    <3> QED
      BY <3>1, <3>2, <3>3
  <2> QED
    BY <2>1, <2>2
<1>9. \A m, n \in mMasters' : m.id = n.id => m = n
  <2> SUFFICES ASSUME NEW m \in mMasters', NEW n \in mMasters', m.id = n.id
               PROVE  m = n
    OBVIOUS
  <2>1. PICK a \in mMasters : m.id = a.id /\ (m = a \/ (a \in old /\ m = M(kind)!Put(a, f, mHand[r].active)))
    BY <1>8
  <2>2. PICK b \in mMasters : n.id = b.id /\ (n = b \/ (b \in old /\ n = M(kind)!Put(b, f, mHand[r].active)))
    BY <1>8
  <2>3. a = b
    BY <1>0, <2>1, <2>2 DEF MasterShaped
  <2>4. a \in old => m # a \/ M(kind)!Put(a, f, mHand[r].active) = a
    <3> SUFFICES ASSUME a \in old, m = a
                 PROVE  M(kind)!Put(a, f, mHand[r].active) = a
      OBVIOUS
    <3>1. PICK c \in old : a = M(kind)!Put(c, f, mHand[r].active)
      BY <1>1
    <3>2. c.id = a.id
      BY <1>2, <3>1
    <3>3. c = a
      BY <1>0, <3>2 DEF MasterShaped
    <3> QED
      BY <3>1, <3>3
  <2>5. b \in old => n # b \/ M(kind)!Put(b, f, mHand[r].active) = b
    <3> SUFFICES ASSUME b \in old, n = b
                 PROVE  M(kind)!Put(b, f, mHand[r].active) = b
      OBVIOUS
    <3>1. PICK c \in old : b = M(kind)!Put(c, f, mHand[r].active)
      BY <1>1
    <3>2. c.id = b.id
      BY <1>2, <3>1
    <3>3. c = b
      BY <1>0, <3>2 DEF MasterShaped
    <3> QED
      BY <3>1, <3>3
  <2> QED
    BY <2>1, <2>2, <2>3, <2>4, <2>5
<1>10. M(kind)!StatusIsLogged'
  <2> SUFFICES ASSUME NEW n \in mMasters', n.kind = "vehicle", <<n.id, "active">> \notin mMarred',
                      \A q \in Request : mPc'[q] = "status" => mHand'[q].id # n.id
               PROVE  n.active = (M(kind)!Newest(n.id, FALSE) \notin mLog)
    BY <1>1 DEF M!StatusIsLogged, M!Newest
  <2>1. PICK m \in mMasters :
          /\ n.id = m.id /\ n.kind = m.kind
          /\ n = m \/ (m \in old /\ n.active = mHand[r].active)
    BY <1>8
  <2>2. n.active = m.active
    BY <1>5, <2>1
  <2>3. <<m.id, "active">> \notin mMarred
    BY <1>1, <2>1
  <2>4. \A q \in Request : mPc[q] = "status" => mHand[q].id # m.id
    BY <1>0, <1>1, <2>1 DEF MasterShaped
  <2> QED
    BY <1>0, <2>1, <2>2, <2>3, <2>4 DEF M!StatusIsLogged
<1>11. /\ mPc' \in [Request -> MasterSteps]
       /\ \A q \in Request : mPc'[q] = mPc[q] \/ mPc'[q] = "done"
       /\ \A q \in Request : mPc'[q] = "status" => mPc[q] = "status"
  BY <1>0, <1>1 DEF MasterShaped, MasterSteps
<1>12. \A e \in mLog' : e.id \in MasterIds
  BY <1>1 DEF MasterIds
<1>13. \A q \in Request : mPc'[q] = "status" =>
         \E b \in BOOLEAN : M(kind)!Newest(mHand[q].id, b) \in mLog'
  BY <1>1, <1>11 DEF MasterInv, MasterVehicles
<1>14. \A n \in mMasters' :
         /\ DOMAIN n = MasterFields /\ n.active \in BOOLEAN
         /\ \E m \in mMasters : n.id = m.id /\ n.kind = m.kind
         /\ \/ MasterWhole(n)'
            \/ \E m \in mMasters : MasterOld(kind, m, n) /\ (n.norm = m.norm \/ MasterMatches(n)')
  <2> SUFFICES ASSUME NEW n \in mMasters'
               PROVE  /\ DOMAIN n = MasterFields /\ n.active \in BOOLEAN
                      /\ \E m \in mMasters : n.id = m.id /\ n.kind = m.kind
                      /\ \/ MasterWhole(n)'
                         \/ \E m \in mMasters : MasterOld(kind, m, n)
                                                  /\ (n.norm = m.norm \/ MasterMatches(n)')
    OBVIOUS
  <2>1. PICK m \in mMasters :
               /\ n.id = m.id /\ n.kind = m.kind /\ DOMAIN n = MasterFields
               /\ n = m \/ (n.active = mHand[r].active /\ MasterWhole(n)')
    BY <1>8
  <2>2. n.active \in BOOLEAN
    BY <1>0, <1>3, <2>1 DEF MasterShaped
  <2>3. MasterOld(kind, m, m)
    BY DEF MasterOld
  <2> QED
    BY <2>1, <2>2, <2>3
<1>15. DOMAIN mBackfill' = {"at", "todo", "flag"} /\ mBackfill'.todo = mBackfill.todo
  BY <1>0, <1>1 DEF MasterShaped
<1>16. mMarred \subseteq mMarred' /\ UNCHANGED mHand
  BY <1>1
<1> HIDE DEF old
<1> QED
  BY <1>7, <1>9, <1>10, <1>11, <1>12, <1>13, <1>14, <1>15, <1>16, MasterTurns

LEMMA MasterDeletes ==
  ASSUME NEW kind \in Kinds, MasterInv(kind), NEW m \in mMasters, M(kind)!Delete(m)
  PROVE  MasterInv(kind)'
<1>0. MasterShaped /\ MasterBoth /\ M(kind)!StatusIsLogged
  BY DEF MasterInv
<1>1. mMasters' = mMasters \ {m} /\ UNCHANGED <<mLog, mBackfill, mPc, mHand, mMarred>>
  BY DEF M!Delete
<1>2. \A n \in mMasters' :
         /\ DOMAIN n = MasterFields /\ n.active \in BOOLEAN
         /\ \E k \in mMasters : n.id = k.id /\ n.kind = k.kind
         /\ \E k \in mMasters : MasterOld(kind, k, n) /\ n.norm = k.norm
  <2>1. \A n \in mMasters : MasterOld(kind, n, n)
    BY DEF MasterOld
  <2> QED
    BY <1>0, <1>1, <2>1 DEF MasterShaped
<1>3. /\ \A a, b \in mMasters' : a.id = b.id => a = b
      /\ DOMAIN mBackfill' = {"at", "todo", "flag"} /\ mBackfill'.todo = mBackfill.todo
      /\ mPc' \in [Request -> MasterSteps] /\ \A q \in Request : mPc'[q] = mPc[q]
      /\ mMarred \subseteq mMarred'
  BY <1>0, <1>1 DEF MasterShaped
<1>4. M(kind)!StatusIsLogged' /\ MasterBoth'
  BY <1>0, <1>1 DEF M!StatusIsLogged, M!Newest, MasterBoth
<1>5. \A e \in mLog' : e.id \in MasterIds
  BY <1>1 DEF MasterIds
<1>6. \A q \in Request : mPc'[q] = "status" =>
         \E b \in BOOLEAN : M(kind)!Newest(mHand[q].id, b) \in mLog'
  BY <1>1 DEF MasterInv, MasterVehicles
<1> QED
  BY <1>1, <1>2, <1>3, <1>4, <1>5, <1>6, MasterTurns

LEMMA MasterSwitches ==
  ASSUME NEW kind \in Kinds, MasterInv(kind), NEW m \in mMasters, NEW b \in BOOLEAN,
         M(kind)!SetSupplier(m, b)
  PROVE  MasterInv(kind)'
<1>0. MasterShaped /\ MasterBoth /\ M(kind)!StatusIsLogged
  BY DEF MasterInv
<1> DEFINE x == [m EXCEPT !.active = b]
<1>1. /\ m.kind = "supplier" /\ mMasters' = (mMasters \ {m}) \cup {x}
      /\ UNCHANGED <<mLog, mBackfill, mPc, mHand>>
      /\ mMarred' = IF b /\ ~m.active THEN mMarred \cup M(kind)!Marks(m.id, M(kind)!Identity)
                    ELSE mMarred
  BY DEF M!SetSupplier
<1>2. /\ x.id = m.id /\ x.kind = m.kind /\ x.tax = m.tax /\ x.pan = m.pan /\ x.name = m.name
      /\ x.norm = m.norm /\ x.active = b /\ DOMAIN x = MasterFields
  BY <1>0 DEF MasterShaped, MasterFields
<1> HIDE DEF x
<1>3. mMarred \subseteq mMarred'
  BY <1>1
<1>4. b /\ ~m.active => MasterWhole(x)'
  BY <1>1, <1>2 DEF MasterWhole, M!Marks, M!Identity
<1>5. ~(b /\ ~m.active) => MasterOld(kind, m, x)
  BY <1>2, MasterSame
<1>6. \A n \in mMasters' :
         /\ DOMAIN n = MasterFields /\ n.active \in BOOLEAN
         /\ \E k \in mMasters : n.id = k.id /\ n.kind = k.kind
         /\ \/ MasterWhole(n)'
            \/ \E k \in mMasters : MasterOld(kind, k, n) /\ n.norm = k.norm
  <2>1. \A n \in mMasters : MasterOld(kind, n, n)
    BY DEF MasterOld
  <2>2. \A n \in mMasters' : n \in mMasters \/ n = x
    BY <1>1
  <2> QED
    BY <1>0, <1>2, <1>4, <1>5, <2>1, <2>2 DEF MasterShaped
<1>7. /\ \A a, c \in mMasters' : a.id = c.id => a = c
      /\ DOMAIN mBackfill' = {"at", "todo", "flag"} /\ mBackfill'.todo = mBackfill.todo
      /\ mPc' \in [Request -> MasterSteps] /\ \A q \in Request : mPc'[q] = mPc[q]
  BY <1>0, <1>1, <1>2 DEF MasterShaped
<1>8. M(kind)!StatusIsLogged'
  BY <1>0, <1>1, <1>2, <1>3 DEF M!StatusIsLogged, M!Newest
<1>9. MasterBoth'
  BY <1>0, <1>1 DEF MasterBoth, M!Marks, M!Identity
<1>10. \A e \in mLog' : e.id \in MasterIds
  BY <1>1 DEF MasterIds
<1>11. \A q \in Request : mPc'[q] = "status" =>
         \E c \in BOOLEAN : M(kind)!Newest(mHand[q].id, c) \in mLog'
  BY <1>1 DEF MasterInv, MasterVehicles
<1> QED
  BY <1>1, <1>3, <1>6, <1>7, <1>8, <1>9, <1>10, <1>11, MasterTurns

LEMMA MasterAudits ==
  ASSUME NEW kind \in Kinds, MasterInv(kind), NEW r \in Request, M(kind)!AuditStatus(r)
  PROVE  MasterInv(kind)'
<1>0. MasterShaped /\ MasterBoth /\ M(kind)!StatusIsLogged
  BY DEF MasterInv
<1> SUFFICES ASSUME NEW new, new = M(kind)!Newest(mHand[r].id, mHand[r].active)
             PROVE  MasterInv(kind)'
  OBVIOUS
<1>1. /\ mPc[r] = "audit" /\ UNCHANGED <<mMasters, mBackfill, mHand, mMarred>>
      /\ mLog' = {e \in mLog : e.id # mHand[r].id} \cup {new}
      /\ mPc' = [mPc EXCEPT ![r] = "status"]
  BY DEF M!AuditStatus
<1>2. new.id = mHand[r].id
  BY DEF M!Newest
<1>3. \A n \in mMasters' :
         /\ DOMAIN n = MasterFields /\ n.active \in BOOLEAN
         /\ \E k \in mMasters : n.id = k.id /\ n.kind = k.kind
         /\ \E k \in mMasters : MasterOld(kind, k, n) /\ n.norm = k.norm
  <2>1. \A n \in mMasters : MasterOld(kind, n, n)
    BY DEF MasterOld
  <2> QED
    BY <1>0, <1>1, <2>1 DEF MasterShaped
<1>4. /\ \A a, b \in mMasters' : a.id = b.id => a = b
      /\ DOMAIN mBackfill' = {"at", "todo", "flag"} /\ mBackfill'.todo = mBackfill.todo
      /\ mPc' \in [Request -> MasterSteps] /\ mPc'[r] = "status"
      /\ \A q \in Request \ {r} : mPc'[q] = mPc[q]
      /\ mMarred \subseteq mMarred'
  BY <1>0, <1>1 DEF MasterShaped, MasterSteps
<1>5. MasterBoth'
  BY <1>0, <1>1 DEF MasterBoth
<1>6. \A i : i # mHand[r].id => \A b : M(kind)!Newest(i, b) \in mLog' <=> M(kind)!Newest(i, b) \in mLog
  <2>1. \A i, b : M(kind)!Newest(i, b).id = i
    BY DEF M!Newest
  <2> QED
    BY <1>1, <1>2, <2>1
<1>7. M(kind)!StatusIsLogged'
  <2> SUFFICES ASSUME NEW m \in mMasters, m.kind = "vehicle", <<m.id, "active">> \notin mMarred,
                      \A q \in Request : mPc'[q] = "status" => mHand[q].id # m.id
               PROVE  m.active = (M(kind)!Newest(m.id, FALSE) \notin mLog')
    BY <1>1 DEF M!StatusIsLogged, M!Newest
  <2>1. m.id # mHand[r].id
    BY <1>4
  <2>2. \A q \in Request : mPc[q] = "status" => mHand[q].id # m.id
    BY <1>1, <1>4
  <2> QED
    BY <1>0, <1>6, <2>1, <2>2 DEF M!StatusIsLogged
<1>8. \A e \in mLog' : e.id \in MasterIds
  BY <1>1, <1>2 DEF MasterIds
<1>9. ASSUME NEW q \in Request, mPc'[q] = "status"
      PROVE  \E b \in BOOLEAN : M(kind)!Newest(mHand[q].id, b) \in mLog'
  <2>1. CASE mHand[q].id = mHand[r].id
    <3>1. new \in mLog' /\ mHand[r].active \in BOOLEAN
      BY <1>0, <1>1 DEF MasterShaped
    <3> QED
      BY <2>1, <3>1
  <2>2. CASE mHand[q].id # mHand[r].id
    <3>1. mPc[q] = "status"
      BY <1>4, <1>9, <2>2
    <3>2. PICK b \in BOOLEAN : M(kind)!Newest(mHand[q].id, b) \in mLog
      BY <3>1 DEF MasterInv, MasterVehicles
    <3> QED
      BY <1>6, <2>2, <3>2
  <2> QED
    BY <2>1, <2>2
<1>10. \A q \in Request : \/ mPc'[q] = mPc[q]
                          \/ mPc'[q] \in {"done", "refused"}
                          \/ mPc[q] = "audit" /\ mPc'[q] = "status"
  BY <1>1, <1>4
<1> QED
  BY <1>1, <1>3, <1>4, <1>5, <1>7, <1>8, <1>9, <1>10, MasterTurns

LEMMA MasterWrites ==
  ASSUME NEW kind \in Kinds, MasterInv(kind), NEW r \in Request, M(kind)!WriteStatus(r)
  PROVE  MasterInv(kind)'
<1>0. MasterShaped /\ MasterBoth /\ M(kind)!StatusIsLogged
  BY DEF MasterInv
<1> SUFFICES ASSUME NEW id, NEW b, id = mHand[r].id, b = mHand[r].active
             PROVE  MasterInv(kind)'
  OBVIOUS
<1> SUFFICES ASSUME NEW old, old = {m \in mMasters : m.id = id}
             PROVE  MasterInv(kind)'
  OBVIOUS
<1>1. /\ mPc[r] = "status" /\ UNCHANGED <<mLog, mBackfill, mHand>>
      /\ mMasters' = (mMasters \ old) \cup {[m EXCEPT !.active = b] : m \in old}
      /\ mMarred' = IF M(kind)!Newest(id, ~b) \in mLog
                    THEN mMarred \cup M(kind)!Marks(id, {"active"}) ELSE mMarred
      /\ mPc' = [mPc EXCEPT ![r] = "done"]
  BY DEF M!WriteStatus
<1>2. b \in BOOLEAN
  BY <1>0 DEF MasterShaped
<1>3. ASSUME NEW m \in old
      PROVE  /\ m \in mMasters /\ m.id = id /\ m.kind = "vehicle"
             /\ [m EXCEPT !.active = b].id = m.id /\ [m EXCEPT !.active = b].active = b
             /\ [m EXCEPT !.active = b].norm = m.norm
             /\ DOMAIN [m EXCEPT !.active = b] = MasterFields
             /\ MasterOld(kind, m, [m EXCEPT !.active = b])
  <2>1. m \in mMasters /\ m.id = id /\ m.kind = "vehicle"
    BY <1>1 DEF MasterInv, MasterVehicles
  <2> DEFINE n == [m EXCEPT !.active = b]
  <2>2. /\ n.id = m.id /\ n.kind = m.kind /\ n.tax = m.tax /\ n.pan = m.pan /\ n.name = m.name
        /\ n.norm = m.norm /\ n.active = b /\ DOMAIN n = MasterFields
    BY <1>0, <2>1 DEF MasterShaped, MasterFields
  <2> HIDE DEF n
  <2>3. MasterOld(kind, m, n)
    BY <2>1, <2>2, MasterSame
  <2> QED
    BY <2>1, <2>2, <2>3 DEF n
<1>4. ASSUME NEW n \in mMasters'
      PROVE  \E m \in mMasters :
               /\ n.id = m.id /\ n.kind = m.kind /\ DOMAIN n = MasterFields /\ n.norm = m.norm
               /\ MasterOld(kind, m, n)
               /\ \/ n = m /\ m.id # id
                  \/ n = [m EXCEPT !.active = b] /\ n.active = b /\ m.id = id
  <2>1. CASE n \in mMasters \ old
    BY <1>0, <2>1 DEF MasterShaped, MasterOld
  <2>2. CASE \E m \in old : n = [m EXCEPT !.active = b]
    <3>1. PICK m \in old : n = [m EXCEPT !.active = b]
      BY <2>2
    <3> QED
      BY <1>3, <3>1 DEF MasterOld
  <2> QED
    BY <1>1, <2>1, <2>2
<1>5. \A m, n \in mMasters' : m.id = n.id => m = n
  <2> SUFFICES ASSUME NEW m \in mMasters', NEW n \in mMasters', m.id = n.id
               PROVE  m = n
    OBVIOUS
  <2>1. PICK a \in mMasters : /\ m.id = a.id
                              /\ \/ (m = a /\ a.id # id) \/ (m = [a EXCEPT !.active = b] /\ a.id = id)
    BY <1>4
  <2>2. PICK c \in mMasters : /\ n.id = c.id
                              /\ \/ (n = c /\ c.id # id) \/ (n = [c EXCEPT !.active = b] /\ c.id = id)
    BY <1>4
  <2>3. a = c
    BY <1>0, <2>1, <2>2 DEF MasterShaped
  <2> QED
    BY <2>1, <2>2, <2>3
<1>6. \A i, field : <<i, field>> \in mMarred' =>
        <<i, field>> \in mMarred \/ (i = id /\ field = "active")
  BY <1>1 DEF M!Marks
<1>7. MasterBoth' /\ mMarred \subseteq mMarred'
  BY <1>0, <1>1, <1>6 DEF MasterBoth
<1>8. M(kind)!Newest(id, ~b) \in mLog => <<id, "active">> \in mMarred'
  BY <1>1 DEF M!Marks
<1>9. /\ mPc' \in [Request -> MasterSteps] /\ mPc'[r] = "done"
      /\ \A q \in Request \ {r} : mPc'[q] = mPc[q]
  BY <1>0, <1>1 DEF MasterShaped, MasterSteps
<1>10. M(kind)!StatusIsLogged'
  <2> SUFFICES ASSUME NEW n \in mMasters', n.kind = "vehicle", <<n.id, "active">> \notin mMarred',
                      \A q \in Request : mPc'[q] = "status" => mHand[q].id # n.id
               PROVE  n.active = (M(kind)!Newest(n.id, FALSE) \notin mLog)
    BY <1>1 DEF M!StatusIsLogged, M!Newest
  <2>1. PICK m \in mMasters :
          /\ n.id = m.id /\ n.kind = m.kind
          /\ \/ (n = m /\ m.id # id) \/ (n.active = b /\ m.id = id)
    BY <1>4
  <2>2. CASE n = m /\ m.id # id
    <3>1. \A q \in Request : mPc[q] = "status" => mHand[q].id # m.id
      BY <1>9, <2>1, <2>2
    <3>2. <<m.id, "active">> \notin mMarred
      BY <1>7, <2>1
    <3> QED
      BY <1>0, <2>1, <2>2, <3>1, <3>2 DEF M!StatusIsLogged
  <2>3. CASE n.active = b /\ m.id = id
    <3>1. M(kind)!Newest(id, ~b) \notin mLog
      BY <1>8, <2>1, <2>3
    <3>2. PICK c \in BOOLEAN : M(kind)!Newest(id, c) \in mLog
      BY <1>1 DEF MasterInv, MasterVehicles
    <3>3. CASE b = TRUE
      <4>1. M(kind)!Newest(id, FALSE) \notin mLog
        BY <3>1, <3>3
      <4> QED
        BY <2>1, <2>3, <3>3, <4>1
    <3>4. CASE b = FALSE
      <4>1. M(kind)!Newest(id, TRUE) \notin mLog
        BY <3>1, <3>4
      <4>2. M(kind)!Newest(id, FALSE) \in mLog
        BY <3>2, <4>1
      <4> QED
        BY <2>1, <2>3, <3>4, <4>2
    <3> QED
      BY <1>2, <3>3, <3>4
  <2> QED
    BY <2>1, <2>2, <2>3
<1>11. \A e \in mLog' : e.id \in MasterIds
  BY <1>1 DEF MasterIds
<1>12. \A q \in Request : mPc'[q] = "status" =>
         \E c \in BOOLEAN : M(kind)!Newest(mHand[q].id, c) \in mLog'
  BY <1>1, <1>9 DEF MasterInv, MasterVehicles
<1>13. ASSUME NEW n \in mMasters'
       PROVE  /\ DOMAIN n = MasterFields /\ n.active \in BOOLEAN
              /\ \E m \in mMasters : n.id = m.id /\ n.kind = m.kind
              /\ \E m \in mMasters : MasterOld(kind, m, n) /\ n.norm = m.norm
  <2>1. PICK m \in mMasters :
               /\ n.id = m.id /\ n.kind = m.kind /\ DOMAIN n = MasterFields /\ n.norm = m.norm
               /\ MasterOld(kind, m, n) /\ (n = m \/ n.active = b)
    BY <1>4
  <2>2. n.active \in BOOLEAN
    BY <1>0, <1>2, <2>1 DEF MasterShaped
  <2> QED
    BY <2>1, <2>2
<1>14. DOMAIN mBackfill' = {"at", "todo", "flag"} /\ mBackfill'.todo = mBackfill.todo
  BY <1>0, <1>1 DEF MasterShaped
<1> QED
  BY <1>1, <1>5, <1>7, <1>9, <1>10, <1>11, <1>12, <1>13, <1>14, MasterTurns

(* The migration reads, and is done.                                       *)
LEMMA MasterMigrates ==
  ASSUME NEW kind \in Kinds, MasterInv(kind),
         (\E k \in 1 .. 3 : M(kind)!BackfillRead(k)) \/ M(kind)!BackfillDone
  PROVE  MasterInv(kind)'
<1>0. MasterShaped /\ MasterBoth /\ M(kind)!StatusIsLogged
  BY DEF MasterInv
<1>1. UNCHANGED <<mMasters, mLog, mPc, mHand, mMarred>>
  BY DEF M!BackfillRead, M!BackfillDone
<1>2. DOMAIN mBackfill' = {"at", "todo", "flag"} /\ \A d \in mBackfill'.todo : d \in mMasters
  <2>1. CASE \E k \in 1 .. 3 : M(kind)!BackfillRead(k)
    <3>1. PICK k \in 1 .. 3 : M(kind)!BackfillRead(k)
      BY <2>1
    <3>2. PICK some : /\ mBackfill' = [mBackfill EXCEPT !.at = k, !.todo = some]
                      /\ some = {m \in mMasters : m.kind = M(kind)!Kinds[k]}
      BY <3>1 DEF M!BackfillRead
    <3> QED
      BY <1>0, <3>2 DEF MasterShaped
  <2>2. CASE M(kind)!BackfillDone
    BY <2>2 DEF M!BackfillDone
  <2> QED
    BY <2>1, <2>2
<1>3. \A n \in mMasters' :
         /\ DOMAIN n = MasterFields /\ n.active \in BOOLEAN
         /\ \E k \in mMasters : n.id = k.id /\ n.kind = k.kind
         /\ \E k \in mMasters : MasterOld(kind, k, n) /\ n.norm = k.norm
  <2>1. \A n \in mMasters : MasterOld(kind, n, n)
    BY DEF MasterOld
  <2> QED
    BY <1>0, <1>1, <2>1 DEF MasterShaped
<1>4. /\ \A a, b \in mMasters' : a.id = b.id => a = b
      /\ mPc' \in [Request -> MasterSteps] /\ \A q \in Request : mPc'[q] = mPc[q]
      /\ mMarred \subseteq mMarred'
  BY <1>0, <1>1 DEF MasterShaped
<1>5. M(kind)!StatusIsLogged' /\ MasterBoth'
  BY <1>0, <1>1 DEF M!StatusIsLogged, M!Newest, MasterBoth
<1>6. \A e \in mLog' : e.id \in MasterIds
  BY <1>1 DEF MasterIds
<1>7. \A q \in Request : mPc'[q] = "status" =>
         \E b \in BOOLEAN : M(kind)!Newest(mHand[q].id, b) \in mLog'
  BY <1>1 DEF MasterInv, MasterVehicles
<1> QED
  BY <1>1, <1>2, <1>3, <1>4, <1>5, <1>6, <1>7, MasterTurns

(* It writes the shadow fields of what it read.                            *)
LEMMA MasterMigratesOne ==
  ASSUME NEW kind \in Kinds, MasterInv(kind), NEW d \in mBackfill.todo, M(kind)!BackfillRow(d)
  PROVE  MasterInv(kind)'
<1>0. MasterShaped /\ MasterBoth /\ M(kind)!StatusIsLogged
  BY DEF MasterInv
<1> SUFFICES ASSUME NEW norm, norm = M(kind)!Norm(d)
             PROVE  MasterInv(kind)'
  OBVIOUS
<1> SUFFICES ASSUME NEW old, old = {m \in mMasters : m.id = d.id}
             PROVE  MasterInv(kind)'
  OBVIOUS
<1>1. /\ UNCHANGED <<mLog, mPc, mHand, mMarred>>
      /\ mMasters' = (mMasters \ old) \cup {[m EXCEPT !.norm = norm] : m \in old}
      /\ mBackfill' = [mBackfill EXCEPT !.todo = @ \ {d}]
  BY DEF M!BackfillRow
<1>2. norm.tax = d.tax /\ norm.pan = d.pan /\ norm.name = d.name[1]
  BY DEF M!Norm
<1>3. ASSUME NEW m \in old
      PROVE  /\ m \in mMasters /\ m.id = d.id
             /\ [m EXCEPT !.norm = norm].id = m.id /\ [m EXCEPT !.norm = norm].active = m.active
             /\ [m EXCEPT !.norm = norm].kind = m.kind
             /\ DOMAIN [m EXCEPT !.norm = norm] = MasterFields
             /\ MasterOld(kind, m, [m EXCEPT !.norm = norm])
             /\ MasterMatches([m EXCEPT !.norm = norm])'
  <2>1. m \in mMasters /\ m.id = d.id
    OBVIOUS
  <2>2. MasterAlike(d, m)
    BY <2>1 DEF MasterInv, MasterCursor
  <2> SUFFICES ASSUME NEW n, n = [m EXCEPT !.norm = norm]
               PROVE  /\ n.id = m.id /\ n.active = m.active /\ n.kind = m.kind
                      /\ DOMAIN n = MasterFields /\ MasterOld(kind, m, n) /\ MasterMatches(n)'
    BY <2>1
  <2>3. /\ n.id = m.id /\ n.kind = m.kind /\ n.tax = m.tax /\ n.pan = m.pan /\ n.name = m.name
        /\ n.norm = norm /\ n.active = m.active /\ DOMAIN n = MasterFields
    BY <1>0, <2>1 DEF MasterShaped, MasterFields
  <2>4. MasterOld(kind, m, n)
    BY <2>3, MasterSame
  <2>5. MasterMatches(n)'
    BY <1>1, <1>2, <2>2, <2>3 DEF MasterMatches, MasterAlike
  <2> QED
    BY <2>3, <2>4, <2>5
<1>4. ASSUME NEW n \in mMasters'
      PROVE  \E m \in mMasters :
               /\ n.id = m.id /\ n.kind = m.kind /\ n.active = m.active
               /\ DOMAIN n = MasterFields /\ MasterOld(kind, m, n)
               /\ \/ n = m /\ m.id # d.id
                  \/ n = [m EXCEPT !.norm = norm] /\ m.id = d.id /\ MasterMatches(n)'
  <2>1. CASE n \in mMasters \ old
    BY <1>0, <2>1 DEF MasterShaped, MasterOld
  <2>2. CASE \E m \in old : n = [m EXCEPT !.norm = norm]
    <3>1. PICK m \in old : n = [m EXCEPT !.norm = norm]
      BY <2>2
    <3> QED
      BY <1>3, <3>1
  <2> QED
    BY <1>1, <2>1, <2>2
<1>5. \A m, n \in mMasters' : m.id = n.id => m = n
  <2> SUFFICES ASSUME NEW m \in mMasters', NEW n \in mMasters', m.id = n.id
               PROVE  m = n
    OBVIOUS
  <2>1. PICK a \in mMasters :
          /\ m.id = a.id
          /\ \/ (m = a /\ a.id # d.id) \/ (m = [a EXCEPT !.norm = norm] /\ a.id = d.id)
    BY <1>4
  <2>2. PICK c \in mMasters :
          /\ n.id = c.id
          /\ \/ (n = c /\ c.id # d.id) \/ (n = [c EXCEPT !.norm = norm] /\ c.id = d.id)
    BY <1>4
  <2>3. a = c
    BY <1>0, <2>1, <2>2 DEF MasterShaped
  <2> QED
    BY <2>1, <2>2, <2>3
<1>6. M(kind)!StatusIsLogged'
  <2> SUFFICES ASSUME NEW n \in mMasters', n.kind = "vehicle", <<n.id, "active">> \notin mMarred,
                      \A q \in Request : mPc[q] = "status" => mHand[q].id # n.id
               PROVE  n.active = (M(kind)!Newest(n.id, FALSE) \notin mLog)
    BY <1>1 DEF M!StatusIsLogged, M!Newest
  <2>1. PICK m \in mMasters : n.id = m.id /\ n.kind = m.kind /\ n.active = m.active
    BY <1>4
  <2> QED
    BY <1>0, <2>1 DEF M!StatusIsLogged
<1>7. MasterBoth' /\ mMarred \subseteq mMarred'
  BY <1>0, <1>1 DEF MasterBoth
<1>8. ASSUME NEW n \in mMasters'
      PROVE  /\ DOMAIN n = MasterFields /\ n.active \in BOOLEAN
             /\ \E m \in mMasters : n.id = m.id /\ n.kind = m.kind
             /\ \E m \in mMasters : MasterOld(kind, m, n) /\ (n.norm = m.norm \/ MasterMatches(n)')
  <2>1. PICK m \in mMasters :
               /\ n.id = m.id /\ n.kind = m.kind /\ n.active = m.active
               /\ DOMAIN n = MasterFields /\ MasterOld(kind, m, n)
               /\ (n = m \/ MasterMatches(n)')
    BY <1>4
  <2>2. n.active \in BOOLEAN
    BY <1>0, <2>1 DEF MasterShaped
  <2> QED
    BY <2>1, <2>2
<1>9. /\ DOMAIN mBackfill' = {"at", "todo", "flag"}
      /\ \A e \in mBackfill'.todo : e \in mBackfill.todo
      /\ mPc' \in [Request -> MasterSteps] /\ \A q \in Request : mPc'[q] = mPc[q]
  BY <1>0, <1>1 DEF MasterShaped
<1>10. \A e \in mLog' : e.id \in MasterIds
  BY <1>1 DEF MasterIds
<1>11. \A q \in Request : mPc'[q] = "status" =>
         \E b \in BOOLEAN : M(kind)!Newest(mHand[q].id, b) \in mLog'
  BY <1>1 DEF MasterInv, MasterVehicles
<1> QED
  BY <1>1, <1>5, <1>6, <1>7, <1>8, <1>9, <1>10, <1>11, MasterTurns

LEMMA MasterCrashes ==
  ASSUME NEW kind \in Kinds, MasterInv(kind), M(kind)!Crash
  PROVE  MasterInv(kind)'
<1>0. MasterShaped /\ MasterBoth /\ M(kind)!StatusIsLogged
  BY DEF MasterInv
<1>1. /\ mPc' = [r \in Request |-> IF mPc[r] \in {"new", "form", "done"} THEN mPc[r] ELSE "refused"]
      /\ mMarred' = mMarred \cup
           UNION {M(kind)!Marks(mHand[r].id, {"active"}) : r \in {x \in Request : mPc[x] = "status"}}
      /\ UNCHANGED <<mMasters, mLog, mHand>>
  BY DEF M!Crash
<1>2. DOMAIN mBackfill' = {"at", "todo", "flag"} /\ mBackfill'.todo = {}
  <2>1. PICK at : mBackfill' = [mBackfill EXCEPT !.at = at, !.todo = {}]
    BY DEF M!Crash
  <2> QED
    BY <1>0, <2>1 DEF MasterShaped
<1>3. \A n \in mMasters' :
         /\ DOMAIN n = MasterFields /\ n.active \in BOOLEAN
         /\ \E k \in mMasters : n.id = k.id /\ n.kind = k.kind
         /\ \E k \in mMasters : MasterOld(kind, k, n) /\ n.norm = k.norm
  <2>1. \A n \in mMasters : MasterOld(kind, n, n)
    BY DEF MasterOld
  <2> QED
    BY <1>0, <1>1, <2>1 DEF MasterShaped
<1>4. /\ \A a, b \in mMasters' : a.id = b.id => a = b
      /\ mPc' \in [Request -> MasterSteps]
      /\ \A q \in Request : mPc'[q] = mPc[q] \/ mPc'[q] \in {"done", "refused"}
      /\ \A q \in Request : mPc'[q] # "status"
      /\ mMarred \subseteq mMarred'
  BY <1>0, <1>1 DEF MasterShaped, MasterSteps
<1>5. ASSUME NEW i, NEW field, <<i, field>> \in mMarred'
      PROVE  <<i, field>> \in mMarred \/ field = "active"
  <2> SUFFICES ASSUME <<i, field>> \notin mMarred
               PROVE  field = "active"
    OBVIOUS
  <2>1. PICK r \in Request : <<i, field>> \in M(kind)!Marks(mHand[r].id, {"active"})
    BY <1>1, <1>5
  <2> QED
    BY <2>1 DEF M!Marks
<1>6. MasterBoth'
  BY <1>0, <1>4, <1>5 DEF MasterBoth
<1>7. \A r \in Request : mPc[r] = "status" => <<mHand[r].id, "active">> \in mMarred'
  <2>1. \A i : <<i, "active">> \in M(kind)!Marks(i, {"active"})
    BY DEF M!Marks
  <2> QED
    BY <1>1, <2>1
<1>8. M(kind)!StatusIsLogged'
  <2> SUFFICES ASSUME NEW m \in mMasters, m.kind = "vehicle", <<m.id, "active">> \notin mMarred'
               PROVE  m.active = (M(kind)!Newest(m.id, FALSE) \notin mLog)
    BY <1>1 DEF M!StatusIsLogged, M!Newest
  <2>1. \A q \in Request : mPc[q] = "status" => mHand[q].id # m.id
    BY <1>7
  <2>2. <<m.id, "active">> \notin mMarred
    BY <1>4
  <2> QED
    BY <1>0, <2>1, <2>2 DEF M!StatusIsLogged
<1>9. \A e \in mLog' : e.id \in MasterIds
  BY <1>1 DEF MasterIds
<1> QED
  BY <1>1, <1>2, <1>3, <1>4, <1>6, <1>8, <1>9, MasterTurns

(* Every step keeps what is so of the masters.                             *)
LEMMA MasterStep ==
  ASSUME NEW kind \in Kinds, MasterInv(kind), M(kind)!Next \/ UNCHANGED mVars
  PROVE  MasterInv(kind)'
<1>1. CASE UNCHANGED mVars
  <2>1. UNCHANGED <<mMasters, mLog, mBackfill, mPc, mHand, mMarred>>
    BY <1>1 DEF mVars
  <2>2. MasterShaped' /\ MasterFresh'
    BY <2>1 DEF MasterInv, MasterShaped, MasterFresh, MasterIds
  <2>3. MasterShadows(kind)' /\ MasterCursor' /\ MasterBoth'
    BY <2>1 DEF MasterInv, MasterShadows, MasterCursor, MasterBoth, MasterMatches, MasterAlike,
      M!NoNorm
  <2>4. MasterVehicles(kind)'
    BY <2>1 DEF MasterInv, MasterVehicles, M!Newest
  <2>5. MasterAsked(kind)'
    <3>1. \A m : MasterMatches(m)' = MasterMatches(m)
      BY <2>1 DEF MasterMatches
    <3>2. \A r \in Request : \A field :
            MasterPassed(kind, r, field)' = MasterPassed(kind, r, field)
      BY <2>1 DEF MasterPassed, M!InScope, M!Same, M!None
    <3> SUFFICES ASSUME NEW r \in Request, mPc[r] \in {"check", "insert"}
                 PROVE  MasterAsks(kind, r)'
      BY <2>1 DEF MasterAsked
    <3>3. MasterAsks(kind, r)
      BY DEF MasterInv, MasterAsked
    <3> QED
      BY <2>1, <3>1, <3>2, <3>3 DEF MasterAsks, M!Ways, M!Identity
  <2>6. M(kind)!NoTwins' /\ M(kind)!StatusIsLogged'
    BY <2>1 DEF MasterInv, M!NoTwins, M!StatusIsLogged, M!Newest, M!InScope, M!Same, M!Identity,
      M!None
  <2> QED
    BY <2>2, <2>3, <2>4, <2>5, <2>6 DEF MasterInv
<1>2. CASE M(kind)!Next
  <2>1. CASE \E r \in Request :
               \/ \E f \in MasterTyped[kind] : \/ \E how \in M(kind)!Ways(f) : M(kind)!Create(r, f, how)
                                               \/ M(kind)!SaveForm(r, f)
                                               \/ M(kind)!ImportRow(r, f)
               \/ M(kind)!Check(r) \/ M(kind)!Insert(r)
               \/ M(kind)!AuditStatus(r) \/ M(kind)!WriteStatus(r)
    BY <2>1, MasterCreates, MasterSaves, MasterRows, MasterChecksOn, MasterInserts, MasterAudits,
      MasterWrites
  <2>2. CASE \E r \in Request :
               \/ \E F \in SUBSET {f \in MasterTyped[kind] : f.kind = "vehicle"} \ {{}} :
                    M(kind)!Import(r, F)
               \/ \E m \in mMasters : M(kind)!OpenForm(r, m)
               \/ \E m \in mMasters : \E b \in BOOLEAN : M(kind)!ChangeStatus(r, m, b)
    BY <2>2, MasterLooks
  <2>3. CASE \E m \in mMasters : M(kind)!Delete(m) \/ \E b \in BOOLEAN : M(kind)!SetSupplier(m, b)
    BY <2>3, MasterDeletes, MasterSwitches
  <2>4. CASE (\E k \in 1 .. 3 : M(kind)!BackfillRead(k)) \/ M(kind)!BackfillDone
    BY <2>4, MasterMigrates
  <2>5. CASE (\E d \in mBackfill.todo : M(kind)!BackfillRow(d)) \/ M(kind)!Crash
    BY <2>5, MasterMigratesOne, MasterCrashes
  <2> QED
    BY <1>2, <2>1, <2>2, <2>3, <2>4, <2>5 DEF M!Next
<1> QED
  BY <1>1, <1>2

-----------------------------------------------------------------------------
(* Sums.  SumFunctionOnSet picks one element after the other; that it does *)
(* not matter which follows by taking a smallest counterexample.           *)

(* Every set of naturals that is not empty has a least element.            *)
LEMMA LeastNat ==
  ASSUME NEW nats, nats \subseteq Nat, nats # {}
  PROVE  \E x \in nats : \A y \in nats : x <= y
<1> DEFINE less == {ss \in Nat \X Nat : ss[1] < ss[2]}
<1>1. IsWellFoundedOn(less, Nat)
  BY NatLessThanWellFounded DEF OpToRel
<1> HIDE DEF less
<1>2. \E x \in nats : \A y \in nats : ~(<<y, x>> \in less)
  BY <1>1, WFMin
<1>3. \A x, y \in Nat : ~(<<y, x>> \in less) => x <= y
  <2> SUFFICES ASSUME NEW x \in Nat, NEW y \in Nat, y < x
               PROVE  <<y, x>> \in less
    OBVIOUS
  <2>1. <<y, x>> \in Nat \X Nat /\ <<y, x>>[1] = y /\ <<y, x>>[2] = x
    OBVIOUS
  <2> QED
    BY <2>1 DEF less
<1> QED
  BY <1>2, <1>3

(* The sum of a function over a set, as the function over its subsets that *)
(* takes one element after the other.                                      *)
Pick(s) == CHOOSE x \in s : TRUE
SumStep(fun, set, g) ==
  [s \in SUBSET set |-> IF s = {} THEN 0 ELSE fun[Pick(s)] + g[s \ {Pick(s)}]]
SumIter(fun, set) == CHOOSE g : g = SumStep(fun, set, g)

LEMMA SumIsIter ==
  ASSUME NEW fun, NEW set
  PROVE  SumFunctionOnSet(fun, set) = SumIter(fun, set)[set]
BY DEF SumFunctionOnSet, FoldFunctionOnSet, MapThenFoldSet, SumIter, SumStep, Pick

LEMMA PickOne ==
  ASSUME NEW set, IsFiniteSet(set), NEW s \in SUBSET set, s # {}
  PROVE  /\ Pick(s) \in s /\ s \ {Pick(s)} \in SUBSET set
         /\ IsFiniteSet(s) /\ Cardinality(s) \in Nat /\ Cardinality(s) # 0
         /\ Cardinality(s \ {Pick(s)}) = Cardinality(s) - 1
<1>1. Pick(s) \in s
  BY DEF Pick
<1>2. IsFiniteSet(s)
  BY FS_Subset
<1> QED
  BY <1>1, <1>2, FS_RemoveElement, FS_CardinalityType, FS_EmptySet

LEMMA SumExists ==
  ASSUME NEW dom, NEW fun \in [dom -> Int], NEW set \in SUBSET dom, IsFiniteSet(set)
  PROVE  \E g : g = SumStep(fun, set, g)
<1> DEFINE Rhs(g, s) == IF s = {} THEN 0 ELSE fun[Pick(s)] + g[s \ {Pick(s)}]
           UpTo(g, n) == \A s \in SUBSET set : Cardinality(s) <= n => g[s] = Rhs(g, s)
           Bad == {n \in Nat : ~ \E g \in [SUBSET set -> Int] : UpTo(g, n)}
<1>0. \A s \in SUBSET set : IsFiniteSet(s) /\ Cardinality(s) \in Nat /\ (Cardinality(s) = 0 => s = {})
  BY FS_Subset, FS_CardinalityType, FS_EmptySet
<1>1. ASSUME NEW n \in Bad, \A y \in Bad : n <= y
      PROVE  FALSE
  <2>1. CASE n = 0
    <3>1. [s \in SUBSET set |-> 0] \in [SUBSET set -> Int]
      OBVIOUS
    <3>2. UpTo([s \in SUBSET set |-> 0], 0)
      BY <1>0
    <3> QED
      BY <1>1, <2>1, <3>1, <3>2
  <2>2. CASE n # 0
    <3>1. n - 1 \in Nat /\ n - 1 \notin Bad
      <4>1. n \in Nat
        BY <1>1
      <4> HIDE DEF Bad
      <4> QED
        BY <1>1, <2>2, <4>1
    <3>2. PICK g \in [SUBSET set -> Int] : UpTo(g, n - 1)
      BY <3>1
    <3> DEFINE h == [s \in SUBSET set |-> IF Cardinality(s) <= n - 1 THEN g[s] ELSE Rhs(g, s)]
    <3>3. ASSUME NEW s \in SUBSET set
          PROVE  /\ Rhs(g, s) \in Int
                 /\ Cardinality(s) <= n => h[s] = Rhs(h, s)
      <4>1. CASE s = {}
        <5>1. Cardinality(s) = 0
          BY <4>1, FS_EmptySet
        <5> QED
          BY <3>1, <3>2, <4>1, <5>1
      <4>2. CASE s # {}
        <5> DEFINE x == Pick(s)
        <5>1. /\ x \in s /\ x \in dom /\ s \ {x} \in SUBSET set /\ fun[x] \in Int
              /\ Cardinality(s) \in Nat /\ Cardinality(s \ {x}) = Cardinality(s) - 1
          BY <4>2, PickOne
        <5> HIDE DEF x
        <5>2. g[s \ {x}] \in Int /\ Rhs(g, s) = fun[x] + g[s \ {x}]
          BY <3>2, <4>2, <5>1 DEF x
        <5>3. Rhs(h, s) = fun[x] + h[s \ {x}]
          BY <4>2 DEF x
        <5>4. Cardinality(s) <= n => h[s \ {x}] = g[s \ {x}]
          BY <5>1
        <5>5. Cardinality(s) <= n => h[s] = fun[x] + g[s \ {x}]
          BY <3>1, <3>2, <5>1, <5>2
        <5> QED
          BY <5>1, <5>2, <5>3, <5>4, <5>5
      <4> QED
        BY <4>1, <4>2
    <3>4. h \in [SUBSET set -> Int]
      BY <3>3
    <3> HIDE DEF h
    <3>5. UpTo(h, n)
      BY <3>3
    <3> QED
      BY <1>1, <3>4, <3>5
  <2> QED
    BY <2>1, <2>2
<1>2. Bad = {}
  <2> SUFFICES ASSUME Bad # {}
               PROVE  FALSE
    OBVIOUS
  <2>1. Bad \subseteq Nat
    OBVIOUS
  <2> HIDE DEF Bad
  <2>2. \E n \in Bad : \A y \in Bad : n <= y
    BY <2>1, LeastNat
  <2> QED
    BY <1>1, <2>2
<1>3. Cardinality(set) \in Nat
  BY FS_CardinalityType
<1>4. PICK g \in [SUBSET set -> Int] : UpTo(g, Cardinality(set))
  BY <1>2, <1>3
<1>5. \A s \in SUBSET set : Cardinality(s) <= Cardinality(set)
  BY FS_Subset
<1>6. \A s \in SUBSET set : g[s] = Rhs(g, s)
  BY <1>4, <1>5
<1>7. g = SumStep(fun, set, g)
  BY <1>4, <1>6 DEF SumStep
<1> QED
  BY <1>7

(* It is the only one.                                                     *)
LEMMA SumUnique ==
  ASSUME NEW dom, NEW fun \in [dom -> Int], NEW set \in SUBSET dom, IsFiniteSet(set),
         NEW sub \in SUBSET set, NEW g, NEW h,
         g = SumStep(fun, set, g), h = SumStep(fun, sub, h)
  PROVE  \A s \in SUBSET sub : g[s] = h[s] /\ h[s] \in Int
<1> DEFINE Bad == {n \in Nat : \E s \in SUBSET sub : Cardinality(s) = n /\ ~(g[s] = h[s] /\ h[s] \in Int)}
<1>0. /\ \A s \in SUBSET set : g[s] = IF s = {} THEN 0 ELSE fun[Pick(s)] + g[s \ {Pick(s)}]
      /\ \A s \in SUBSET sub : h[s] = IF s = {} THEN 0 ELSE fun[Pick(s)] + h[s \ {Pick(s)}]
      /\ IsFiniteSet(sub)
  BY FS_Subset DEF SumStep
<1>1. ASSUME NEW n \in Bad, \A y \in Bad : n <= y
      PROVE  FALSE
  <2>1. PICK s \in SUBSET sub : Cardinality(s) = n /\ ~(g[s] = h[s] /\ h[s] \in Int)
    BY <1>1
  <2>2. s # {} /\ s \in SUBSET set
    <3>1. g[{}] = 0 /\ h[{}] = 0
      BY <1>0
    <3> QED
      BY <2>1, <3>1
  <2> DEFINE x == Pick(s)
  <2>3. /\ x \in dom /\ s \ {x} \in SUBSET sub /\ fun[x] \in Int
        /\ n - 1 \in Nat /\ Cardinality(s \ {x}) = n - 1
    BY <1>0, <2>1, <2>2, PickOne
  <2>4. g[s] = fun[x] + g[s \ {x}] /\ h[s] = fun[x] + h[s \ {x}]
    BY <1>0, <2>2
  <2> HIDE DEF x
  <2>5. n - 1 \notin Bad
    BY <1>1, <2>3
  <2>6. g[s \ {x}] = h[s \ {x}] /\ h[s \ {x}] \in Int
    BY <2>3, <2>5
  <2> QED
    BY <2>1, <2>3, <2>4, <2>6
<1>2. Bad = {}
  <2> SUFFICES ASSUME Bad # {}
               PROVE  FALSE
    OBVIOUS
  <2>1. Bad \subseteq Nat
    OBVIOUS
  <2> HIDE DEF Bad
  <2>2. \E n \in Bad : \A y \in Bad : n <= y
    BY <2>1, LeastNat
  <2> QED
    BY <1>1, <2>2
<1>3. \A s \in SUBSET sub : Cardinality(s) \in Nat
  BY <1>0, FS_Subset, FS_CardinalityType
<1> QED
  BY <1>2, <1>3

(* What is summed up is one element and the rest.                          *)
LEMMA SumRest ==
  ASSUME NEW dom, NEW fun \in [dom -> Int], NEW set \in SUBSET dom, IsFiniteSet(set)
  PROVE  /\ SumFunctionOnSet(fun, set) \in Int
         /\ set = {} => SumFunctionOnSet(fun, set) = 0
         /\ set # {} => SumFunctionOnSet(fun, set)
                        = fun[Pick(set)] + SumFunctionOnSet(fun, set \ {Pick(set)})
<1> DEFINE g == SumIter(fun, set)
           sub == set \ {Pick(set)}
           h == SumIter(fun, sub)
<1>1. g = SumStep(fun, set, g)
  BY SumExists DEF SumIter
<1>2. sub \in SUBSET set /\ sub \in SUBSET dom /\ IsFiniteSet(sub)
  BY FS_Subset
<1>3. h = SumStep(fun, sub, h)
  <2> HIDE DEF sub
  <2> QED
    BY <1>2, SumExists DEF SumIter
<1>4. SumFunctionOnSet(fun, set) = g[set] /\ SumFunctionOnSet(fun, sub) = h[sub]
  BY SumIsIter
<1> HIDE DEF g, h
<1>5. g[sub] = h[sub] /\ h[sub] \in Int
  <2> HIDE DEF sub
  <2> QED
    BY <1>1, <1>2, <1>3, SumUnique
<1>6. g[set] = IF set = {} THEN 0 ELSE fun[Pick(set)] + g[sub]
  BY <1>1 DEF SumStep
<1>7. set # {} => Pick(set) \in dom
  BY DEF Pick
<1>8. g[set] \in Int
  BY <1>5, <1>6, <1>7
<1> QED
  BY <1>4, <1>5, <1>6, <1>8

LEMMA SumNone ==
  ASSUME NEW dom, NEW fun \in [dom -> Int]
  PROVE  SumFunctionOnSet(fun, {}) = 0
<1>1. {} \in SUBSET dom /\ IsFiniteSet({})
  BY FS_EmptySet
<1> QED
  BY <1>1, SumRest

(* ... whichever element that is.                                          *)
LEMMA SumAdd ==
  ASSUME NEW dom, NEW fun \in [dom -> Int], NEW set \in SUBSET dom, IsFiniteSet(set),
         NEW x \in dom \ set
  PROVE  SumFunctionOnSet(fun, set \cup {x}) = fun[x] + SumFunctionOnSet(fun, set)
<1> DEFINE F(s) == SumFunctionOnSet(fun, s)
           Adds(s, y) == F(s \cup {y}) = fun[y] + F(s)
           Bad == {n \in Nat : \E s \in SUBSET dom : \E y \in dom \ s :
                     IsFiniteSet(s) /\ Cardinality(s) = n /\ ~Adds(s, y)}
<1>1. ASSUME NEW n \in Bad, \A m \in Bad : n <= m
      PROVE  FALSE
  <2>1. PICK s \in SUBSET dom : \E y \in dom \ s :
          IsFiniteSet(s) /\ Cardinality(s) = n /\ ~Adds(s, y)
    BY <1>1
  <2>2. PICK y \in dom \ s : IsFiniteSet(s) /\ Cardinality(s) = n /\ ~Adds(s, y)
    BY <2>1
  <2> DEFINE t == s \cup {y}
             p == Pick(t)
  <2>3. t \in SUBSET dom /\ IsFiniteSet(t) /\ t # {}
    BY <2>2, FS_AddElement
  <2>4. p \in t
    BY <2>3 DEF Pick
  <2>5. F(t) = fun[p] + F(t \ {p})
    <3> HIDE DEF t
    <3> QED
      BY <2>3, SumRest
  <2> HIDE DEF p
  <2>6. CASE p = y
    <3>1. t \ {p} = s
      BY <2>2, <2>6
    <3> QED
      BY <2>2, <2>5, <2>6, <3>1
  <2>7. CASE p # y
    <3> DEFINE u == s \ {p}
    <3>1. /\ p \in s /\ p \in dom /\ t \ {p} = u \cup {y} /\ s = u \cup {p}
          /\ y \in dom \ u /\ p \in dom \ u /\ u \in SUBSET dom
      BY <2>2, <2>4, <2>7
    <3>2. IsFiniteSet(u) /\ Cardinality(u) = n - 1 /\ n - 1 \in Nat
      <4>1. IsFiniteSet(u) /\ Cardinality(u) = Cardinality(s) - 1
        BY <2>2, <3>1, FS_RemoveElement
      <4>2. Cardinality(u) \in Nat
        BY <4>1, FS_CardinalityType
      <4> QED
        BY <2>2, <4>1, <4>2
    <3>3. n - 1 \notin Bad
      <4>1. n \in Nat
        BY <1>1
      <4> HIDE DEF Bad
      <4> QED
        BY <1>1, <3>2, <4>1
    <3> HIDE DEF u
    <3>4. Adds(u, y) /\ Adds(u, p)
      BY <3>1, <3>2, <3>3
    <3>5. F(u) \in Int /\ fun[p] \in Int /\ fun[y] \in Int
      BY <3>1, <3>2, SumRest
    <3> HIDE DEF F
    <3>6. F(t) = fun[p] + (fun[y] + F(u)) /\ F(s) = fun[p] + F(u)
      BY <2>5, <3>1, <3>4
    <3>7. F(t) = fun[y] + F(s)
      BY <3>5, <3>6
    <3> QED
      BY <2>2, <3>7
  <2> QED
    BY <2>6, <2>7
<1>2. Bad = {}
  <2> SUFFICES ASSUME Bad # {}
               PROVE  FALSE
    OBVIOUS
  <2>1. Bad \subseteq Nat
    OBVIOUS
  <2> HIDE DEF Bad
  <2>2. \E n \in Bad : \A y \in Bad : n <= y
    BY <2>1, LeastNat
  <2> QED
    BY <1>1, <2>2
<1>3. Cardinality(set) \in Nat
  BY FS_CardinalityType
<1> HIDE DEF F
<1>4. Adds(set, x)
  BY <1>2, <1>3
<1> QED
  BY <1>4 DEF F

(* Two functions with the same values on a set have the same sum.          *)
LEMMA SumSame ==
  ASSUME NEW dom, NEW fun \in [dom -> Int], NEW ext, NEW gun \in [ext -> Int],
         NEW set, set \subseteq dom, set \subseteq ext, IsFiniteSet(set),
         \A x \in set : fun[x] = gun[x]
  PROVE  SumFunctionOnSet(fun, set) = SumFunctionOnSet(gun, set)
<1> DEFINE F(s) == SumFunctionOnSet(fun, s)
           H(s) == SumFunctionOnSet(gun, s)
           Bad == {n \in Nat : \E s \in SUBSET set : Cardinality(s) = n /\ F(s) # H(s)}
<1>1. ASSUME NEW n \in Bad, \A m \in Bad : n <= m
      PROVE  FALSE
  <2>1. PICK s \in SUBSET set : Cardinality(s) = n /\ F(s) # H(s)
    BY <1>1
  <2>2. IsFiniteSet(s) /\ s \in SUBSET dom /\ s \in SUBSET ext
    BY FS_Subset
  <2>3. s # {}
    <3>1. F({}) = 0
      BY SumNone
    <3>2. H({}) = 0
      BY SumNone
    <3> QED
      BY <2>1, <3>1, <3>2
  <2> DEFINE p == Pick(s)
  <2>4. /\ p \in set /\ s \ {p} \in SUBSET set
        /\ n - 1 \in Nat /\ Cardinality(s \ {p}) = n - 1
    BY <2>1, <2>3, PickOne
  <2>5. F(s) = fun[p] + F(s \ {p})
    BY <2>2, <2>3, SumRest
  <2>6. H(s) = gun[p] + H(s \ {p})
    BY <2>2, <2>3, SumRest
  <2> HIDE DEF p
  <2>7. n - 1 \notin Bad
    <3>1. n \in Nat
      BY <1>1
    <3> HIDE DEF Bad
    <3> QED
      BY <1>1, <2>4, <3>1
  <2>8. F(s \ {p}) = H(s \ {p})
    <3> HIDE DEF F, H
    <3> QED
      BY <2>4, <2>7
  <2> HIDE DEF F, H
  <2>9. F(s) = H(s)
    BY <2>4, <2>5, <2>6, <2>8
  <2> QED
    BY <2>1, <2>9
<1>2. Bad = {}
  <2> SUFFICES ASSUME Bad # {}
               PROVE  FALSE
    OBVIOUS
  <2>1. Bad \subseteq Nat
    OBVIOUS
  <2> HIDE DEF Bad
  <2>2. \E n \in Bad : \A y \in Bad : n <= y
    BY <2>1, LeastNat
  <2> QED
    BY <1>1, <2>2
<1>3. Cardinality(set) \in Nat
  BY FS_CardinalityType
<1> HIDE DEF F, H
<1>4. F(set) = H(set)
  BY <1>2, <1>3
<1> QED
  BY <1>4 DEF F, H

(* A sum without one of its elements.                                      *)
LEMMA SumRemove ==
  ASSUME NEW dom, NEW fun \in [dom -> Int], NEW set \in SUBSET dom, IsFiniteSet(set),
         NEW x \in set
  PROVE  SumFunctionOnSet(fun, set) = fun[x] + SumFunctionOnSet(fun, set \ {x})
<1> DEFINE less == set \ {x}
<1>1. less \in SUBSET dom /\ IsFiniteSet(less) /\ x \in dom \ less /\ set = less \cup {x}
  BY FS_Subset
<1> HIDE DEF less
<1>2. SumFunctionOnSet(fun, less \cup {x}) = fun[x] + SumFunctionOnSet(fun, less)
  BY <1>1, SumAdd
<1> QED
  BY <1>1, <1>2 DEF less

-----------------------------------------------------------------------------
(* Expenses, bills and work orders: the documents and their legs.          *)

ESource ==
  {<<"expense", e>> : e \in LinkExpense} \cup {<<"vendor_bill", t>> : t \in LinkBill}
    \cup {<<"mechanic_work_order", t>> : t \in LinkOrder}

ETwin(d) ==
  /\ d.id \in L!Twin /\ d.type = L!Type(d.id) /\ d.amount \in LinkAmount
  /\ d.is_deleted \in BOOLEAN /\ d.date = 1
  /\ DOMAIN d = {"type", "id", "amount", "is_deleted", "date", "party"}

EExpense(d) ==
  /\ d.id \in LinkExpense /\ d.type = "expense" /\ d.amount \in LinkAmount
  /\ d.is_deleted \in BOOLEAN /\ d.is_reversed = FALSE /\ d.historical = FALSE
  /\ d.date = 1 /\ d.supplier_mode = "n/a" /\ d.source_type = "manual" /\ d.cash_now = FALSE
  /\ d.bill \in LinkBill \cup {"none"} /\ d.order \in LinkOrder \cup {"none"}
  /\ d.bill = "none" \/ d.order = "none"
  /\ DOMAIN d = {"type", "id", "amount", "is_deleted", "is_reversed", "historical", "date",
                 "party", "supplier_mode", "source_type", "cash_now", "bill", "order"}

EDoc(d) == ETwin(d) \/ EExpense(d)

(* The document d with the mark of deletion b.                             *)
EMarked(d, b) == [d EXCEPT !.is_deleted = b]

LEMMA LinkAmounts == \A a \in LinkAmount : a \in Nat /\ a > 0 /\ a # 0
<1>1. \A a \in LinkAmount : a \in Nat /\ a # 0
  BY LinkIds
<1>2. \A a \in Nat : a # 0 => a > 0
  OBVIOUS
<1> QED
  BY <1>1, <1>2

LEMMA TwinDocs ==
  ASSUME NEW t \in L!Twin, NEW a \in LinkAmount, NEW b \in BOOLEAN
  PROVE  /\ ETwin(L!TwinDoc(t, a, b)) /\ L!TwinDoc(t, a, b).id = t
         /\ L!TwinDoc(t, a, b).is_deleted = b /\ L!TwinDoc(t, a, b).type = L!Type(t)
BY DEF ETwin, L!TwinDoc

LEMMA ExpenseDocs ==
  ASSUME NEW e \in LinkExpense, NEW t \in L!Twin \cup {"none"}, NEW a \in LinkAmount,
         NEW b \in BOOLEAN
  PROVE  LET d == L!ExpenseDoc(e, t, a, b)
         IN  /\ EExpense(d) /\ d.id = e /\ d.is_deleted = b /\ d.type = "expense"
             /\ d.bill = (IF t \in LinkBill THEN t ELSE "none")
             /\ d.order = (IF t \in LinkOrder THEN t ELSE "none")
<1> DEFINE bill == IF t \in LinkBill THEN t ELSE "none"
           order == IF t \in LinkOrder THEN t ELSE "none"
<1>1. /\ bill \in LinkBill \cup {"none"} /\ order \in LinkOrder \cup {"none"}
      /\ bill = "none" \/ order = "none"
  BY LinkIds
<1>2. L!ExpenseDoc(e, t, a, b)
        = [type |-> "expense", id |-> e, amount |-> a, is_deleted |-> b, is_reversed |-> FALSE,
           historical |-> FALSE, date |-> 1, party |-> "p", supplier_mode |-> "n/a",
           source_type |-> "manual", cash_now |-> FALSE, bill |-> bill, order |-> order]
  BY DEF L!ExpenseDoc
<1> HIDE DEF bill, order
<1> SUFFICES ASSUME NEW d, d = L!ExpenseDoc(e, t, a, b)
             PROVE  /\ EExpense(d) /\ d.id = e /\ d.is_deleted = b /\ d.type = "expense"
                    /\ d.bill = bill /\ d.order = order
  BY DEF bill, order
<1>3. /\ d.id = e /\ d.is_deleted = b /\ d.type = "expense" /\ d.amount = a
      /\ d.is_reversed = FALSE /\ d.historical = FALSE /\ d.date = 1
  BY <1>2
<1>4. /\ d.supplier_mode = "n/a" /\ d.source_type = "manual" /\ d.cash_now = FALSE
      /\ d.bill = bill /\ d.order = order
  BY <1>2
<1>5. DOMAIN d = {"type", "id", "amount", "is_deleted", "is_reversed", "historical", "date",
                  "party", "supplier_mode", "source_type", "cash_now", "bill", "order"}
  BY <1>2
<1> QED
  BY <1>1, <1>3, <1>4, <1>5 DEF EExpense

LEMMA DocMarks ==
  ASSUME NEW d, EDoc(d), NEW b \in BOOLEAN
  PROVE  /\ EDoc(EMarked(d, b)) /\ EMarked(d, b).id = d.id /\ EMarked(d, b).is_deleted = b
         /\ EMarked(d, b).type = d.type
         /\ EExpense(d) => EMarked(d, b).bill = d.bill /\ EMarked(d, b).order = d.order
<1> SUFFICES ASSUME NEW m, m = EMarked(d, b)
             PROVE  /\ EDoc(m) /\ m.id = d.id /\ m.is_deleted = b /\ m.type = d.type
                    /\ EExpense(d) => m.bill = d.bill /\ m.order = d.order
  OBVIOUS
<1>1. DOMAIN m = DOMAIN d
  BY DEF EMarked
<1>2. \A f \in DOMAIN d : f # "is_deleted" => m[f] = d[f]
  BY DEF EMarked
<1>3. "is_deleted" \in DOMAIN d => m.is_deleted = b
  BY DEF EMarked
<1>4. CASE ETwin(d)
  <2>1. /\ m.id = d.id /\ m.type = d.type /\ m.amount = d.amount /\ m.is_deleted = b
        /\ m.date = d.date
    BY <1>2, <1>3, <1>4 DEF ETwin
  <2>2. ~EExpense(d)
    BY <1>4 DEF ETwin, EExpense
  <2> QED
    BY <1>1, <1>4, <2>1, <2>2 DEF ETwin, EDoc
<1>5. CASE EExpense(d)
  <2>1. /\ m.id = d.id /\ m.type = d.type /\ m.amount = d.amount /\ m.is_deleted = b
        /\ m.date = d.date /\ m.is_reversed = d.is_reversed /\ m.historical = d.historical
    BY <1>2, <1>3, <1>5 DEF EExpense
  <2>2. /\ m.supplier_mode = d.supplier_mode /\ m.source_type = d.source_type
        /\ m.cash_now = d.cash_now /\ m.bill = d.bill /\ m.order = d.order
    BY <1>2, <1>5 DEF EExpense
  <2> QED
    BY <1>1, <1>5, <2>1, <2>2 DEF EExpense, EDoc
<1> QED
  BY <1>4, <1>5 DEF EDoc

(* An id tells the type of its document, and the source of a document both. *)
LEMMA DocFields ==
  ASSUME NEW d, EDoc(d)
  PROVE  /\ d.type = "expense" => EExpense(d) /\ d.id \notin L!Twin
         /\ d.type # "expense" => ETwin(d) /\ d.id \notin LinkExpense
         /\ d.type \in {"expense", "vendor_bill", "mechanic_work_order"}
         /\ d.type = "vendor_bill" => d.id \in LinkBill
         /\ d.type = "mechanic_work_order" => d.id \in LinkOrder
         /\ d.type = "expense" => d.id \in LinkExpense
         /\ <<d.type, d.id>> \in ESource
         /\ d.amount \in Nat /\ d.amount > 0 /\ d.date = 1 /\ d.is_deleted \in BOOLEAN
         /\ \A x : EDoc(x) /\ x.id = d.id => x.type = d.type
<1>1. \A t \in L!Twin : /\ L!Type(t) = "vendor_bill" => t \in LinkBill
                        /\ L!Type(t) = "mechanic_work_order" => t \in LinkOrder
                        /\ L!Type(t) \in {"vendor_bill", "mechanic_work_order"}
                        /\ t \notin LinkExpense
  BY LinkIds DEF L!Twin, L!Type
<1>2. \A x : EDoc(x) => IF x.id \in LinkExpense THEN x.type = "expense" ELSE x.type = L!Type(x.id)
  BY <1>1 DEF EDoc, ETwin, EExpense
<1>3. d.amount \in LinkAmount
  BY DEF EDoc, ETwin, EExpense
<1>4. d.amount \in Nat /\ d.amount > 0
  BY <1>3, LinkAmounts
<1>5. \A x : EDoc(x) /\ x.id = d.id => x.type = d.type
  BY <1>2
<1>6. CASE ETwin(d)
  <2>1. /\ d.type \in {"vendor_bill", "mechanic_work_order"} /\ d.id \notin LinkExpense
        /\ d.type = "vendor_bill" => d.id \in LinkBill
        /\ d.type = "mechanic_work_order" => d.id \in LinkOrder
        /\ d.date = 1 /\ d.is_deleted \in BOOLEAN
    BY <1>1, <1>6 DEF ETwin
  <2>2. <<d.type, d.id>> \in ESource
    BY <2>1 DEF ESource
  <2> QED
    BY <1>4, <1>5, <1>6, <2>1, <2>2
<1>7. CASE EExpense(d)
  <2>1. d.type = "expense" /\ d.id \in LinkExpense /\ d.id \notin L!Twin /\ d.date = 1
        /\ d.is_deleted \in BOOLEAN
    BY <1>1, <1>7 DEF EExpense
  <2>2. <<d.type, d.id>> \in ESource
    BY <2>1 DEF ESource
  <2> QED
    BY <1>4, <1>5, <1>7, <2>1, <2>2
<1> QED
  BY <1>6, <1>7 DEF EDoc

(* The legs of a document: two, under its source, or none.                 *)
ELegOf(d, dir, account) ==
  [key |-> <<<<d.type, d.id>>, IF d.type = "expense" THEN "expense" ELSE "orphan", dir>>,
   dir |-> dir, account |-> account, amount |-> d.amount, date |-> d.date,
   party |-> d.party]
ECredit(d) ==
  IF d.type = "expense"
  THEN IF d.bill # "none" THEN "AP_VENDOR"
       ELSE IF d.order # "none" THEN "AP_MECHANIC" ELSE "SUSPENSE"
  ELSE IF d.type = "vendor_bill" THEN "AP_VENDOR" ELSE "AP_MECHANIC"
EDebit(d) == IF d.type = "expense" THEN "EXPENSE_DEFAULT" ELSE "SUSPENSE"
EPairOf(d) == {ELegOf(d, "in", EDebit(d)), ELegOf(d, "out", ECredit(d))}

(* Whether an expense stands for a bill or an order, and some of a set.    *)
EStands(e, s) ==
  /\ e.type = "expense" /\ ~e.is_deleted
  /\ IF s[1] = "vendor_bill" THEN e.bill = s[2] ELSE e.order = s[2]
EPaired(s, docs) == \E e \in docs : EStands(e, s)
EShown(d, docs) == ~d.is_deleted /\ (d.type # "expense" => ~EPaired(<<d.type, d.id>>, docs))

LEMMA LegsByLinks ==
  ASSUME NEW docs, \A x \in docs : EDoc(x), NEW d, EDoc(d)
  PROVE  L!Legs(d, docs) = IF EShown(d, docs) THEN EPairOf(d) ELSE {}
<1>0. ~(d.amount <= 0)
  <2>1. d.amount \in Nat /\ d.amount > 0
    BY DocFields
  <2> QED
    BY <2>1
<1>1. CASE d.type = "expense"
  <2>1. /\ EExpense(d) /\ d.is_reversed = FALSE /\ d.historical = FALSE
        /\ d.supplier_mode = "n/a" /\ d.source_type = "manual" /\ d.cash_now = FALSE
    BY <1>1, DocFields DEF EExpense
  <2>2. L!Legs(d, docs) = L!ExpenseLegs(d)
    BY <1>1 DEF L!Legs
  <2>3. L!CreditAccount(d) = ECredit(d)
    BY <1>1, <2>1 DEF L!CreditAccount, ECredit
  <2>4. L!ExpenseLegs(d) = IF d.is_deleted THEN {} ELSE EPairOf(d)
    BY <1>0, <1>1, <2>1, <2>3
       DEF L!ExpenseLegs, L!Gone, L!Pair, L!Leg, L!Source, EPairOf, ELegOf, EDebit
  <2> QED
    BY <1>1, <2>2, <2>4 DEF EShown
<1>2. CASE d.type # "expense"
  <2>1. d.type \in {"vendor_bill", "mechanic_work_order"}
    BY <1>2, DocFields
  <2>2. L!Legs(d, docs) = L!OrphanLegs(d, ECredit(d), docs)
    BY <1>2, <2>1 DEF L!Legs, ECredit
  <2>3. L!Paired(d, docs) <=> EPaired(<<d.type, d.id>>, docs)
    <3>1. \A e \in docs : e.type = "expense" => (L!Gone(e) <=> e.is_deleted)
      BY DocFields DEF L!Gone, EExpense
    <3> QED
      BY <2>1, <3>1 DEF L!Paired, EPaired, EStands
  <2>4. L!OrphanLegs(d, ECredit(d), docs)
          = IF d.is_deleted \/ EPaired(<<d.type, d.id>>, docs) THEN {} ELSE EPairOf(d)
    BY <1>0, <1>2, <2>3
       DEF L!OrphanLegs, L!Pair, L!Leg, L!Source, EPairOf, ELegOf, EDebit
  <2> QED
    BY <1>2, <2>2, <2>4 DEF EShown
<1> QED
  BY <1>1, <1>2

(* The Reconciliation Center has the same legs.                            *)
LEMMA LegsAreOne == \A d, docs : K!Legs(d, docs) = L!Legs(d, docs)
BY DEF K!Legs, L!Legs, K!InvoiceLegs, L!InvoiceLegs, K!NoteLegs, L!NoteLegs,
  K!ReceiptLegs, L!ReceiptLegs, K!SupplierPaymentLegs, L!SupplierPaymentLegs,
  K!PartyPaymentLegs, L!PartyPaymentLegs, K!PaidLegs, L!PaidLegs, K!ExpenseLegs,
  L!ExpenseLegs, K!CreditAccount, L!CreditAccount, K!OrphanLegs, L!OrphanLegs, K!Paired,
  L!Paired, K!RechargeLegs, L!RechargeLegs, K!TransferLegs, L!TransferLegs,
  K!AdjustmentLegs, L!AdjustmentLegs, K!Pair, L!Pair, K!Leg, L!Leg, K!Source, L!Source,
  K!Gone, L!Gone, K!ModeAccount, L!ModeAccount

-----------------------------------------------------------------------------
(* What a request has yet to project.                                      *)

EIn(x, seq) == \E i \in 1 .. Len(seq) : seq[i] = x

LEMMA SeqJoin ==
  ASSUME NEW set, NEW a \in Seq(set), NEW b \in Seq(set)
  PROVE  /\ a \o b \in Seq(set)
         /\ \A x : EIn(x, a \o b) <=> EIn(x, a) \/ EIn(x, b)
<1>1. /\ a \o b \in Seq(set) /\ Len(a \o b) = Len(a) + Len(b)
      /\ \A i \in 1 .. Len(a) + Len(b) :
           (a \o b)[i] = IF i <= Len(a) THEN a[i] ELSE b[i - Len(a)]
  BY ConcatProperties
<1>2. Len(a) \in Nat /\ Len(b) \in Nat
  BY LenProperties
<1> SUFFICES ASSUME NEW c, c = a \o b, NEW x
             PROVE  c \in Seq(set) /\ (EIn(x, c) <=> EIn(x, a) \/ EIn(x, b))
  OBVIOUS
<1>3. ASSUME EIn(x, c)
      PROVE  EIn(x, a) \/ EIn(x, b)
  <2>1. PICK i \in 1 .. Len(a) + Len(b) : c[i] = x
    BY <1>1, <1>3 DEF EIn
  <2>2. CASE i <= Len(a)
    BY <1>1, <1>2, <2>1, <2>2 DEF EIn
  <2>3. CASE ~(i <= Len(a))
    <3>1. i - Len(a) \in 1 .. Len(b)
      BY <1>2, <2>3
    <3>2. b[i - Len(a)] = x
      BY <1>1, <2>1, <2>3
    <3> QED
      BY <3>1, <3>2 DEF EIn
  <2> QED
    BY <2>2, <2>3
<1>4. ASSUME EIn(x, a)
      PROVE  EIn(x, c)
  <2>1. PICK i \in 1 .. Len(a) : a[i] = x
    BY <1>4 DEF EIn
  <2>2. i \in 1 .. Len(a) + Len(b) /\ i <= Len(a)
    BY <1>2
  <2>3. c[i] = x
    BY <1>1, <2>1, <2>2
  <2> QED
    BY <1>1, <2>2, <2>3 DEF EIn
<1>5. ASSUME EIn(x, b)
      PROVE  EIn(x, c)
  <2>1. PICK i \in 1 .. Len(b) : b[i] = x
    BY <1>5 DEF EIn
  <2>2. /\ Len(a) + i \in 1 .. Len(a) + Len(b) /\ ~(Len(a) + i <= Len(a))
        /\ (Len(a) + i) - Len(a) = i
    BY <1>2
  <2>3. c[Len(a) + i] = x
    BY <1>1, <2>1, <2>2
  <2> QED
    BY <1>1, <2>2, <2>3 DEF EIn
<1> QED
  BY <1>1, <1>3, <1>4, <1>5

LEMMA SeqFirst ==
  ASSUME NEW set, NEW a \in Seq(set), a # <<>>
  PROVE  /\ Head(a) \in set /\ Tail(a) \in Seq(set)
         /\ \A x : EIn(x, a) <=> x = Head(a) \/ EIn(x, Tail(a))
<1>1. /\ Head(a) \in set /\ Tail(a) \in Seq(set) /\ Len(Tail(a)) = Len(a) - 1
      /\ \A i \in 1 .. Len(Tail(a)) : Tail(a)[i] = a[i + 1]
  BY HeadTailProperties
<1>2. Len(a) \in Nat /\ Len(a) # 0
  BY LenProperties, EmptySeq
<1>3. Head(a) = a[1]
  OBVIOUS
<1> SUFFICES ASSUME NEW x, NEW b, b = Tail(a)
             PROVE  EIn(x, a) <=> x = Head(a) \/ EIn(x, b)
  BY <1>1
<1>4. ASSUME EIn(x, a), x # Head(a)
      PROVE  EIn(x, b)
  <2>1. PICK i \in 1 .. Len(a) : a[i] = x
    BY <1>4 DEF EIn
  <2>2. i # 1
    BY <1>3, <1>4, <2>1
  <2>3. i - 1 \in 1 .. Len(b) /\ (i - 1) + 1 = i
    BY <1>1, <1>2, <2>2
  <2>4. b[i - 1] = x
    BY <1>1, <2>1, <2>3
  <2> QED
    BY <2>3, <2>4 DEF EIn
<1>5. ASSUME x = Head(a)
      PROVE  EIn(x, a)
  BY <1>2, <1>3, <1>5 DEF EIn
<1>6. ASSUME EIn(x, b)
      PROVE  EIn(x, a)
  <2>1. PICK i \in 1 .. Len(b) : b[i] = x
    BY <1>6 DEF EIn
  <2>2. i + 1 \in 1 .. Len(a)
    BY <1>1, <1>2
  <2>3. a[i + 1] = x
    BY <1>1, <2>1
  <2> QED
    BY <2>2, <2>3 DEF EIn
<1> QED
  BY <1>4, <1>5, <1>6

LEMMA SeqShort ==
  /\ \A set, x : x \in set => <<x>> \in Seq(set)
  /\ \A x, y : EIn(x, <<y>>) <=> x = y
  /\ \A set : <<>> \in Seq(set)
  /\ \A x : ~EIn(x, <<>>)
<1>1. \A x, y : EIn(x, <<y>>) <=> x = y
  <2> TAKE x, y
  <2>1. Len(<<y>>) = 1 /\ <<y>>[1] = y
    OBVIOUS
  <2> QED
    BY <2>1 DEF EIn
<1>2. \A x : ~EIn(x, <<>>)
  BY EmptySeq DEF EIn
<1>3. \A set : <<>> \in Seq(set)
  BY EmptySeq
<1>4. \A set, x : x \in set => <<x>> \in Seq(set)
  OBVIOUS
<1> QED
  BY <1>1, <1>2, <1>3, <1>4

(* The twins of an expense that a write links or unlinks are projected.    *)
LEMMA LinkOne ==
  ASSUME NEW set, NEW of, set \subseteq of, \A x, y \in set : x = y
  PROVE  /\ L!One(set) \in Seq(of)
         /\ \A x \in set : EIn(x, L!One(set))
<1>1. CASE set = {}
  BY <1>1, SeqShort DEF L!One
<1>2. CASE set # {}
  <2>1. PICK y \in set : L!One(set) = <<y>>
    BY <1>2 DEF L!One
  <2>2. y \in of
    OBVIOUS
  <2>3. <<y>> \in Seq(of) /\ \A x : EIn(x, <<y>>) <=> x = y
    BY <2>2, SeqShort
  <2> QED
    BY <2>1, <2>3
<1> QED
  BY <1>1, <1>2

(* The twins of one kind that the documents of one expense name.           *)
ETwinsOf(docs, field) == {d[field] : d \in {x \in docs : ~x.is_deleted /\ x[field] # "none"}}

ETold(before, doc, field, t) ==
  ~((\E x \in before : ~x.is_deleted /\ x[field] = t) <=> (~doc.is_deleted /\ doc[field] = t))

EIds(field) == IF field = "bill" THEN LinkBill ELSE LinkOrder
ETypeOf(field) == IF field = "bill" THEN "vendor_bill" ELSE "mechanic_work_order"
EGoneOf(before, doc, field) ==
  {<<ETypeOf(field), x>> : x \in L!Linkage(before, field) \ L!Linkage({doc}, field)}
EComeOf(before, doc, field) ==
  {<<ETypeOf(field), x>> : x \in L!Linkage({doc}, field) \ L!Linkage(before, field)}
ETodoOf(before, doc, field) ==
  L!One(EGoneOf(before, doc, field)) \o L!One(EComeOf(before, doc, field))

LEMMA LinkField ==
  ASSUME NEW before, NEW doc, \A x \in before : EExpense(x), \A x, y \in before : x = y,
         EExpense(doc), NEW field \in {"bill", "order"}
  PROVE  /\ ETodoOf(before, doc, field) \in Seq(ESource)
         /\ \A t \in EIds(field) : t # "none" /\ ETold(before, doc, field, t) =>
              EIn(<<ETypeOf(field), t>>, ETodoOf(before, doc, field))
<1>16. PICK gone, come, type, ids :
         /\ gone = EGoneOf(before, doc, field) /\ come = EComeOf(before, doc, field)
         /\ type = ETypeOf(field) /\ ids = EIds(field)
  OBVIOUS
<1>17. PICK old, new, seq :
         /\ old = L!Linkage(before, field) /\ new = L!Linkage({doc}, field)
         /\ seq = L!One(gone) \o L!One(come)
  OBVIOUS
<1>15. gone = {<<type, x>> : x \in old \ new} /\ come = {<<type, x>> : x \in new \ old}
  BY <1>16, <1>17 DEF EGoneOf, EComeOf
<1>14. /\ \A x : EExpense(x) => x[field] \in ids \cup {"none"}
       /\ \A t \in ids : <<type, t>> \in ESource
  BY <1>16 DEF EExpense, EIds, ETypeOf, ESource
<1>1. \A x : EExpense(x) => (L!Gone(x) <=> x.is_deleted)
  BY DEF EExpense, L!Gone
<1>2. old = ETwinsOf(before, field)
  BY <1>1, <1>17 DEF L!Linkage, ETwinsOf
<1>3. new = ETwinsOf({doc}, field)
  BY <1>1, <1>17 DEF L!Linkage, ETwinsOf
<1>4. \A t : t \in old <=> t # "none" /\ \E x \in before : ~x.is_deleted /\ x[field] = t
  BY <1>2 DEF ETwinsOf
<1>5. \A t : t \in new <=> t # "none" /\ ~doc.is_deleted /\ doc[field] = t
  BY <1>3 DEF ETwinsOf
<1>6. old \subseteq ids /\ new \subseteq ids
  <2>1. ASSUME NEW t \in old
        PROVE  t \in ids
    <3>1. PICK x \in before : t # "none" /\ x[field] = t
      BY <1>4
    <3> QED
      BY <1>14, <3>1
  <2>2. ASSUME NEW t \in new
        PROVE  t \in ids
    <3>1. t # "none" /\ doc[field] = t
      BY <1>5
    <3> QED
      BY <1>14, <3>1
  <2> QED
    BY <2>1, <2>2
<1>7. (\A t, u \in old : t = u) /\ \A t, u \in new : t = u
  <2>1. ASSUME NEW t \in old, NEW u \in old
        PROVE  t = u
    <3>1. PICK x \in before : x[field] = t
      BY <1>4
    <3>2. PICK y \in before : y[field] = u
      BY <1>4
    <3>3. x = y
      OBVIOUS
    <3> QED
      BY <3>1, <3>2, <3>3
  <2>2. ASSUME NEW t \in new, NEW u \in new
        PROVE  t = u
    <3>1. doc[field] = t /\ doc[field] = u
      BY <1>5
    <3> QED
      BY <3>1
  <2> QED
    BY <2>1, <2>2
<1>8. /\ gone \subseteq ESource /\ come \subseteq ESource
      /\ (\A x, y \in gone : x = y) /\ \A x, y \in come : x = y
  <2>1. ASSUME NEW x \in gone
        PROVE  x \in ESource
    <3>1. PICK t \in old : x = <<type, t>>
      BY <1>15
    <3> QED
      BY <1>6, <1>14, <3>1
  <2>2. ASSUME NEW x \in come
        PROVE  x \in ESource
    <3>1. PICK t \in new : x = <<type, t>>
      BY <1>15
    <3> QED
      BY <1>6, <1>14, <3>1
  <2>3. ASSUME NEW x \in gone, NEW y \in gone
        PROVE  x = y
    <3>1. PICK t \in old : x = <<type, t>>
      BY <1>15
    <3>2. PICK u \in old : y = <<type, u>>
      BY <1>15
    <3>3. t = u
      BY <1>7
    <3> QED
      BY <3>1, <3>2, <3>3
  <2>4. ASSUME NEW x \in come, NEW y \in come
        PROVE  x = y
    <3>1. PICK t \in new : x = <<type, t>>
      BY <1>15
    <3>2. PICK u \in new : y = <<type, u>>
      BY <1>15
    <3>3. t = u
      BY <1>7
    <3> QED
      BY <3>1, <3>2, <3>3
  <2> QED
    BY <2>1, <2>2, <2>3, <2>4
<1>9. /\ \A t : t \in old \ new => <<type, t>> \in gone
      /\ \A t : t \in new \ old => <<type, t>> \in come
  BY <1>15
<1>10. /\ L!One(gone) \in Seq(ESource) /\ L!One(come) \in Seq(ESource)
       /\ \A x \in gone : EIn(x, L!One(gone))
       /\ \A x \in come : EIn(x, L!One(come))
  BY <1>8, LinkOne
<1>11. /\ L!One(gone) \o L!One(come) \in Seq(ESource)
       /\ \A x : EIn(x, L!One(gone) \o L!One(come)) <=> EIn(x, L!One(gone)) \/ EIn(x, L!One(come))
  BY <1>10, SeqJoin
<1>12. seq = L!One(gone) \o L!One(come)
  BY <1>17
<1>18. ETodoOf(before, doc, field) = seq
  BY <1>12, <1>16 DEF ETodoOf
<1>13. \A t : t \in old \ new \/ t \in new \ old => EIn(<<type, t>>, seq)
  BY <1>9, <1>10, <1>11, <1>12
<1> QED
  BY <1>4, <1>5, <1>11, <1>12, <1>13, <1>16, <1>18 DEF ETold

LEMMA LinkTodo ==
  ASSUME NEW before, NEW doc, \A x \in before : EExpense(x), \A x, y \in before : x = y,
         EExpense(doc), NEW todo, todo = L!ExpenseTodo(doc.id, before, doc)
  PROVE  /\ todo \in Seq(ESource) /\ EIn(<<"expense", doc.id>>, todo)
         /\ \A s \in ESource :
              s[1] # "expense" /\ ~(EPaired(s, before) <=> EStands(doc, s)) => EIn(s, todo)
<1> DEFINE bills == ETodoOf(before, doc, "bill")
           orders == ETodoOf(before, doc, "order")
           own == <<<<"expense", doc.id>>>>
<1>3. todo = own \o (bills \o orders)
  BY DEF L!ExpenseTodo, L!Linked, ETodoOf, EGoneOf, EComeOf, ETypeOf
<1>4. /\ bills \in Seq(ESource)
      /\ \A t \in LinkBill :
           t # "none" /\ ETold(before, doc, "bill", t) => EIn(<<"vendor_bill", t>>, bills)
  <2>1. EIds("bill") = LinkBill /\ ETypeOf("bill") = "vendor_bill"
    BY DEF EIds, ETypeOf
  <2> QED
    BY <2>1, LinkField
<1>5. /\ orders \in Seq(ESource)
      /\ \A t \in LinkOrder :
           t # "none" /\ ETold(before, doc, "order", t) => EIn(<<"mechanic_work_order", t>>, orders)
  <2>1. EIds("order") = LinkOrder /\ ETypeOf("order") = "mechanic_work_order"
    BY DEF EIds, ETypeOf
  <2> QED
    BY <2>1, LinkField
<1>6. own \in Seq(ESource) /\ EIn(<<"expense", doc.id>>, own)
  <2>1. <<"expense", doc.id>> \in ESource
    BY DEF EExpense, ESource
  <2> QED
    BY <2>1, SeqShort
<1> HIDE DEF bills, orders, own
<1>7. bills \o orders \in Seq(ESource) /\ \A x : EIn(x, bills \o orders) <=> EIn(x, bills) \/ EIn(x, orders)
  BY <1>4, <1>5, SeqJoin
<1> DEFINE rest == bills \o orders
<1>8. own \o rest \in Seq(ESource) /\ \A x : EIn(x, own \o rest) <=> EIn(x, own) \/ EIn(x, rest)
  <2>1. rest \in Seq(ESource)
    BY <1>7
  <2> HIDE DEF rest
  <2> QED
    BY <1>6, <2>1, SeqJoin
<1>9. todo = own \o rest
  BY <1>3
<1>10. \A x : EIn(x, bills) \/ EIn(x, orders) => EIn(x, todo)
  BY <1>7, <1>8, <1>9
<1>11. ASSUME NEW s \in ESource, s[1] # "expense", ~(EPaired(s, before) <=> EStands(doc, s))
       PROVE  EIn(s, todo)
  <2>1. \A x : EExpense(x) => x.type = "expense"
    BY DEF EExpense
  <2>2. CASE \E t \in LinkBill : s = <<"vendor_bill", t>>
    <3>1. PICK t \in LinkBill : s = <<"vendor_bill", t>>
      BY <2>2
    <3>2. \A x : EExpense(x) => (EStands(x, s) <=> ~x.is_deleted /\ x.bill = t)
      BY <2>1, <3>1 DEF EStands
    <3>3. t # "none"
      BY LinkIds
    <3>4. ~((\E x \in before : ~x.is_deleted /\ x.bill = t) <=> (~doc.is_deleted /\ doc.bill = t))
      BY <1>11, <3>2 DEF EPaired
    <3> QED
      BY <1>4, <1>10, <3>1, <3>3, <3>4 DEF ETold
  <2>3. CASE \E t \in LinkOrder : s = <<"mechanic_work_order", t>>
    <3>1. PICK t \in LinkOrder : s = <<"mechanic_work_order", t>>
      BY <2>3
    <3>2. \A x : EExpense(x) => (EStands(x, s) <=> ~x.is_deleted /\ x.order = t)
      BY <2>1, <3>1 DEF EStands
    <3>3. t # "none"
      BY LinkIds
    <3>4. ~((\E x \in before : ~x.is_deleted /\ x.order = t) <=> (~doc.is_deleted /\ doc.order = t))
      BY <1>11, <3>2 DEF EPaired
    <3> QED
      BY <1>5, <1>10, <3>1, <3>3, <3>4 DEF ETold
  <2> QED
    BY <1>11, <2>2, <2>3 DEF ESource
<1> QED
  BY <1>6, <1>8, <1>9, <1>11

-----------------------------------------------------------------------------
(* The desk of the links.                                                  *)

EOf(d) == <<d.type, d.id>>
ELive(t, docs) == \E d \in docs : d.id = t /\ ~d.is_deleted
ETwins(e) == {e.bill, e.order} \ {"none"}

(* The ledger has the legs that the documents have under a source.         *)
ELegsAre(l, s, docs) == \E d \in docs : EOf(d) = s /\ EShown(d, docs) /\ l \in EPairOf(d)
EFits(s, docs, ledger) == \A l : (l \in ledger /\ l.key[1] = s) <=> ELegsAre(l, s, docs)

ETyped ==
  /\ lPc \in [Clerk -> {"new", "write", "project", "done"}]
  /\ DOMAIN lHand = Clerk /\ \A r \in Clerk : DOMAIN lHand[r] = {"kind", "doc", "before", "todo"}
  /\ IsFiniteSet(lDocs) /\ \A d \in lDocs : EDoc(d)
  /\ \A d, x \in lDocs : d.id = x.id => d = x
  /\ \A l \in lLedger : \E d : EDoc(d) /\ l \in EPairOf(d)

(* What document doc does to the others: a live expense names twins that   *)
(* are there, and a twin that is deleted is named by none.                 *)
EKeeps(doc, docs) ==
  /\ doc.type = "expense" /\ ~doc.is_deleted => \A t \in ETwins(doc) : ELive(t, docs)
  /\ doc.type # "expense" /\ doc.is_deleted =>
       \A e \in docs : e.type = "expense" /\ ~e.is_deleted => doc.id \notin ETwins(e)

(* What a request is about to write, and has to project.  As long as       *)
(* requests come one after the other, what it has read is so.              *)
EAsks(h, doc) ==
  /\ h.doc = {doc} /\ EDoc(doc)
  /\ \A x \in h.before : EDoc(x) /\ x.id = doc.id
  /\ h.todo \in Seq(ESource) /\ EIn(EOf(doc), h.todo)
  /\ doc.type = "expense" =>
       \A s \in ESource :
         s[1] # "expense" /\ ~(EPaired(s, h.before) <=> EStands(doc, s)) => EIn(s, h.todo)
  /\ \/ h.kind = "insert" /\ h.before = {}
     \/ h.kind = "edit" /\ doc.is_deleted = ~ELive(doc.id, h.before)
     \/ h.kind = "delete" /\ \E x \in h.before : doc = EMarked(x, TRUE)
EKnows(h, doc) == h.before = {x \in lDocs : x.id = doc.id} /\ EKeeps(doc, lDocs)

EHeld ==
  \A r \in Clerk :
    /\ lPc[r] = "write" =>
         \E doc : EAsks(lHand[r], doc) /\ ("overlap" \notin lMarred => EKnows(lHand[r], doc))
    /\ lPc[r] = "project" => lHand[r].todo \in Seq(ESource)

(* The ledger has the legs of each source that nobody has yet to project.  *)
EOwed(s) == \E r \in Clerk : lPc[r] = "project" /\ EIn(s, lHand[r].todo)
EProjected ==
  lMarred \cap {"stale", "death"} = {} =>
    \A s \in ESource : EFits(s, lDocs, lLedger) \/ EOwed(s)

ESerial == "overlap" \notin lMarred => \A r, q \in L!Busy : r = q
ETwinned ==
  "overlap" \notin lMarred =>
    \A e \in lDocs : e.type = "expense" /\ ~e.is_deleted => \A t \in ETwins(e) : ELive(t, lDocs)

EInv == ETyped /\ EHeld /\ EProjected /\ ESerial /\ ETwinned

LEMMA LinksBegin == ASSUME L!Init PROVE EInv
<1>1. /\ lDocs = {} /\ lLedger = {} /\ lMarred = {}
      /\ lPc = [r \in Clerk |-> "new"] /\ lHand = [r \in Clerk |-> L!Blank]
  BY DEF L!Init
<1>2. ETyped
  BY <1>1, FS_EmptySet DEF ETyped, L!Blank
<1>3. EHeld /\ ESerial /\ ETwinned
  BY <1>1 DEF EHeld, ESerial, ETwinned, L!Busy
<1>4. \A s \in ESource : EFits(s, lDocs, lLedger)
  BY <1>1 DEF EFits, ELegsAre
<1> QED
  BY <1>2, <1>3, <1>4 DEF EInv, EProjected

(* A source has legs of its documents only.                                *)
LEMMA PairKeys ==
  ASSUME NEW d, NEW l \in EPairOf(d)
  PROVE  /\ l.key[1] = EOf(d) /\ l.key[1][1] = d.type /\ l.key[1][2] = d.id /\ l.date = d.date
         /\ l.key[2] = (IF d.type = "expense" THEN "expense" ELSE "orphan")
         /\ l.amount = d.amount
         /\ \/ l.dir = "in" /\ l.account = EDebit(d)
            \/ l.dir = "out" /\ l.account = ECredit(d)
<1>1. PICK dir, account : l = ELegOf(d, dir, account)
                          /\ \/ dir = "in" /\ account = EDebit(d)
                             \/ dir = "out" /\ account = ECredit(d)
  BY DEF EPairOf
<1>2. /\ l.key = <<EOf(d), IF d.type = "expense" THEN "expense" ELSE "orphan", dir>>
      /\ l.dir = dir /\ l.account = account /\ l.amount = d.amount /\ l.date = d.date
  BY <1>1 DEF ELegOf, EOf
<1>3. EOf(d)[1] = d.type /\ EOf(d)[2] = d.id
  BY DEF EOf
<1> QED
  BY <1>1, <1>2, <1>3

(* A request begins.                                                       *)
LEMMA LinkAsked ==
  ASSUME EInv, NEW r \in Clerk, NEW kind, NEW before, NEW doc, NEW todo,
         L!Begin(r, kind, before, doc, todo), EDoc(doc),
         before = {x \in lDocs : x.id = doc.id},
         todo \in Seq(ESource), EIn(EOf(doc), todo),
         doc.type = "expense" =>
           \A s \in ESource :
             s[1] # "expense" /\ ~(EPaired(s, before) <=> EStands(doc, s)) => EIn(s, todo),
         \/ kind = "insert" /\ before = {}
         \/ kind = "edit" /\ doc.is_deleted = ~ELive(doc.id, before)
         \/ kind = "delete" /\ \E x \in before : doc = EMarked(x, TRUE),
         "overlap" \notin lMarred => EKeeps(doc, lDocs)
  PROVE  EInv'
<1> SUFFICES ASSUME NEW h, h = [kind |-> kind, doc |-> {doc}, before |-> before, todo |-> todo]
             PROVE  EInv'
  OBVIOUS
<1>1. /\ lPc[r] = "new" /\ lPc' = [lPc EXCEPT ![r] = "write"]
      /\ lHand' = [lHand EXCEPT ![r] = h]
      /\ lDocs' = lDocs /\ lLedger' = lLedger
      /\ lMarred' = IF L!Busy = {} THEN lMarred ELSE lMarred \cup {"overlap"}
  BY DEF L!Begin
<1>2. /\ h.doc = {doc} /\ h.before = before /\ h.todo = todo /\ h.kind = kind
      /\ DOMAIN h = {"kind", "doc", "before", "todo"}
  OBVIOUS
<1> USE DEF EInv
<1>3. ETyped'
  BY <1>1, <1>2 DEF ETyped
<1>4. /\ lPc'[r] = "write" /\ lHand'[r] = h
      /\ \A q \in Clerk : q # r => lPc'[q] = lPc[q] /\ lHand'[q] = lHand[q]
  BY <1>1 DEF ETyped
<1>5. EHeld'
  <2> SUFFICES ASSUME NEW q \in Clerk
               PROVE  /\ lPc'[q] = "write" =>
                           \E x : EAsks(lHand'[q], x)
                                  /\ ("overlap" \notin lMarred' => EKnows(lHand[q], x)')
                      /\ lPc'[q] = "project" => lHand'[q].todo \in Seq(ESource)
    BY DEF EHeld
  <2>1. CASE q = r
    <3>1. EAsks(h, doc)
      <4>1. \A x \in before : EDoc(x) /\ x.id = doc.id
        BY DEF ETyped
      <4> QED
        BY <1>2, <4>1 DEF EAsks
    <3>2. "overlap" \notin lMarred' => EKnows(lHand[r], doc)'
      BY <1>1, <1>2, <1>4 DEF EKnows
    <3> QED
      BY <1>4, <2>1, <3>1, <3>2
  <2>2. CASE q # r
    <3>1. \A x : EKnows(lHand[q], x) => EKnows(lHand[q], x)'
      BY <1>1, <1>4, <2>2 DEF EKnows
    <3> QED
      BY <1>1, <1>4, <2>2, <3>1 DEF EHeld
  <2> QED
    BY <2>1, <2>2
<1>6. EProjected'
  <2>1. \A s : EOwed(s) => EOwed(s)'
    BY <1>1, <1>4 DEF EOwed
  <2>2. \A s : EFits(s, lDocs, lLedger) => EFits(s, lDocs, lLedger)'
    BY <1>1
  <2> QED
    BY <1>1, <2>1, <2>2 DEF EProjected
<1>7. ESerial'
  <2>1. \A q \in L!Busy' : q = r \/ q \in L!Busy
    BY <1>4 DEF L!Busy
  <2>2. "overlap" \notin lMarred' => L!Busy = {}
    BY <1>1
  <2> QED
    BY <2>1, <2>2 DEF ESerial
<1>8. ETwinned'
  BY <1>1 DEF ETwinned
<1> QED
  BY <1>3, <1>5, <1>6, <1>7, <1>8

LEMMA LinkFinds ==
  ASSUME EInv, NEW id
  PROVE  /\ L!Find(id) = {x \in lDocs : x.id = id}
         /\ L!Live(id) <=> ELive(id, lDocs)
         /\ L!Live(id) <=> ELive(id, L!Find(id))
         /\ \A x \in L!Find(id) : EDoc(x) /\ x.id = id /\ L!Find(id) = {x}
         /\ \A x, y \in L!Find(id) : x = y
         /\ id \in LinkExpense => \A x \in L!Find(id) : EExpense(x)
         /\ id \in L!Twin => \A x \in L!Find(id) : ETwin(x)
<1>1. L!Find(id) = {x \in lDocs : x.id = id}
  BY DEF L!Find
<1>2. /\ L!Live(id) <=> ELive(id, lDocs)
      /\ L!Live(id) <=> ELive(id, L!Find(id))
  BY <1>1 DEF L!Live, ELive
<1>3. (\A x \in lDocs : EDoc(x)) /\ \A x, y \in lDocs : x.id = y.id => x = y
  BY DEF EInv, ETyped
<1>4. /\ \A x \in L!Find(id) : EDoc(x) /\ x.id = id
      /\ \A x, y \in L!Find(id) : x = y
  BY <1>1, <1>3
<1>5. \A x \in L!Find(id) : L!Find(id) = {x}
  BY <1>4
<1>6. \A x \in L!Find(id) : /\ id \in LinkExpense => EExpense(x)
                            /\ id \in L!Twin => ETwin(x)
  BY <1>4, DocFields
<1> QED
  BY <1>1, <1>2, <1>4, <1>5, <1>6

(* An expense that is entered or edited.                                   *)
LEMMA ExpenseAsked ==
  ASSUME EInv, NEW r \in Clerk, NEW e \in LinkExpense, NEW t \in L!Twin \cup {"none"},
         NEW a \in LinkAmount, NEW b \in BOOLEAN, NEW kind, L!Linkable(t),
         \/ kind = "insert" /\ L!Find(e) = {}
         \/ kind = "edit" /\ b = ~L!Live(e),
         NEW doc, doc = L!ExpenseDoc(e, t, a, b),
         L!Begin(r, kind, L!Find(e), doc, L!ExpenseTodo(e, L!Find(e), doc))
  PROVE  EInv'
<1>1. /\ EExpense(doc) /\ doc.id = e /\ doc.is_deleted = b /\ doc.type = "expense"
      /\ doc.bill = (IF t \in LinkBill THEN t ELSE "none")
      /\ doc.order = (IF t \in LinkOrder THEN t ELSE "none")
  BY ExpenseDocs
<1>2. EDoc(doc) /\ EOf(doc) = <<"expense", doc.id>>
  BY <1>1 DEF EDoc, EOf
<1>3. PICK before, todo : before = L!Find(e) /\ todo = L!ExpenseTodo(doc.id, before, doc)
  OBVIOUS
<1>4. /\ \A x \in before : EExpense(x)
      /\ \A x, y \in before : x = y
      /\ before = {x \in lDocs : x.id = doc.id}
      /\ ELive(doc.id, before) <=> L!Live(e)
  BY <1>1, <1>3, LinkFinds
<1>5. /\ todo \in Seq(ESource) /\ EIn(<<"expense", doc.id>>, todo)
      /\ \A s \in ESource :
           s[1] # "expense" /\ ~(EPaired(s, before) <=> EStands(doc, s)) => EIn(s, todo)
  BY <1>1, <1>3, <1>4, LinkTodo
<1>6. EKeeps(doc, lDocs)
  <2>1. \A x \in ETwins(doc) : x = t /\ t # "none"
    BY <1>1 DEF ETwins
  <2>2. t # "none" => ELive(t, lDocs)
    BY LinkFinds DEF L!Linkable
  <2> QED
    BY <1>1, <2>1, <2>2 DEF EKeeps
<1>7. \/ kind = "insert" /\ before = {}
      \/ kind = "edit" /\ doc.is_deleted = ~ELive(doc.id, before)
  BY <1>1, <1>3, <1>4
<1>8. L!Begin(r, kind, before, doc, todo)
  BY <1>1, <1>3
<1>9. EIn(EOf(doc), todo)
  BY <1>2, <1>5
<1> QED
  BY <1>2, <1>4, <1>5, <1>6, <1>7, <1>8, <1>9, LinkAsked

LEMMA LinkStarts ==
  ASSUME EInv, NEW r \in Clerk, L!Start(r)
  PROVE  EInv'
<1>1. ASSUME NEW e \in LinkExpense, NEW t \in L!Twin \cup {"none"}, NEW a \in LinkAmount,
             L!CreateExpense(r, e, t, a)
      PROVE  EInv'
  <2>1. PICK doc : doc = L!ExpenseDoc(e, t, a, FALSE)
    OBVIOUS
  <2>2. /\ L!Find(e) = {} /\ L!Linkable(t)
        /\ L!Begin(r, "insert", L!Find(e), doc, L!ExpenseTodo(e, L!Find(e), doc))
    BY <1>1, <2>1 DEF L!CreateExpense
  <2> QED
    BY <2>1, <2>2, ExpenseAsked
<1>2. ASSUME NEW e \in LinkExpense, NEW t \in L!Twin \cup {"none"}, NEW a \in LinkAmount,
             L!UpdateExpense(r, e, t, a)
      PROVE  EInv'
  <2>1. PICK doc, b : b = ~L!Live(e) /\ doc = L!ExpenseDoc(e, t, a, b)
    OBVIOUS
  <2>2. /\ L!Linkable(t) /\ b \in BOOLEAN
        /\ L!Begin(r, "edit", L!Find(e), doc, L!ExpenseTodo(e, L!Find(e), doc))
    BY <1>2, <2>1 DEF L!UpdateExpense, L!Live
  <2> QED
    BY <2>1, <2>2, ExpenseAsked
<1>3. ASSUME NEW e \in LinkExpense, L!DeleteExpense(r, e)
      PROVE  EInv'
  <2>1. PICK d \in L!Find(e) :
          L!Begin(r, "delete", {d}, [d EXCEPT !.is_deleted = TRUE],
                  L!ExpenseTodo(e, {d}, [d EXCEPT !.is_deleted = TRUE]))
    BY <1>3 DEF L!DeleteExpense
  <2>2. PICK doc, todo, before :
          /\ doc = EMarked(d, TRUE) /\ before = {d} /\ todo = L!ExpenseTodo(e, before, doc)
    OBVIOUS
  <2>3. L!Begin(r, "delete", before, doc, todo)
    BY <2>1, <2>2 DEF EMarked
  <2>4. EDoc(d) /\ EExpense(d) /\ d.id = e /\ before = L!Find(e)
    BY <2>2, LinkFinds
  <2>5. EDoc(doc) /\ doc.id = e /\ doc.is_deleted = TRUE /\ doc.type = d.type
    BY <2>2, <2>4, DocMarks
  <2>6. d.type = "expense" /\ EExpense(doc)
    BY <2>4, <2>5, DocFields DEF EExpense
  <2>7. /\ \A x \in before : EExpense(x)
        /\ \A x, y \in before : x = y
        /\ before = {x \in lDocs : x.id = doc.id}
    BY <2>2, <2>4, <2>5, LinkFinds
  <2>8. /\ todo \in Seq(ESource) /\ EIn(<<"expense", doc.id>>, todo)
        /\ \A s \in ESource :
             s[1] # "expense" /\ ~(EPaired(s, before) <=> EStands(doc, s)) => EIn(s, todo)
    BY <2>2, <2>5, <2>6, <2>7, LinkTodo
  <2>9. EIn(EOf(doc), todo)
    BY <2>5, <2>6, <2>8 DEF EOf
  <2>10. EKeeps(doc, lDocs)
    BY <2>5, <2>6 DEF EKeeps
  <2>11. \E x \in before : doc = EMarked(x, TRUE)
    BY <2>2
  <2> QED
    BY <2>3, <2>5, <2>7, <2>8, <2>9, <2>10, <2>11, LinkAsked
<1>4. ASSUME NEW t \in L!Twin, NEW a \in LinkAmount, L!CreateTwin(r, t, a)
      PROVE  EInv'
  <2>1. PICK doc, todo, before :
          doc = L!TwinDoc(t, a, FALSE) /\ todo = <<<<L!Type(t), t>>>> /\ before = {}
    OBVIOUS
  <2>2. L!Find(t) = {} /\ L!Begin(r, "insert", before, doc, todo)
    BY <1>4, <2>1 DEF L!CreateTwin
  <2>3. ETwin(doc) /\ doc.id = t /\ doc.is_deleted = FALSE /\ doc.type = L!Type(t)
    BY <2>1, TwinDocs
  <2>4. EDoc(doc) /\ EOf(doc) = <<L!Type(t), t>> /\ doc.type # "expense"
    BY <2>3 DEF EDoc, EOf, L!Type
  <2>5. EOf(doc) \in ESource
    BY <2>4, DocFields DEF EOf
  <2>6. todo \in Seq(ESource) /\ EIn(EOf(doc), todo)
    BY <2>1, <2>4, <2>5, SeqShort
  <2>7. before = {x \in lDocs : x.id = doc.id}
    BY <2>1, <2>2, <2>3, LinkFinds
  <2>8. EKeeps(doc, lDocs)
    BY <2>3, <2>4 DEF EKeeps
  <2> QED
    BY <2>1, <2>2, <2>4, <2>6, <2>7, <2>8, LinkAsked
<1>5. ASSUME NEW t \in L!Twin, NEW a \in LinkAmount, L!UpdateTwin(r, t, a)
      PROVE  EInv'
  <2>1. PICK doc, todo, before, b :
          /\ b = ~L!Live(t) /\ doc = L!TwinDoc(t, a, b)
          /\ todo = <<<<L!Type(t), t>>>> /\ before = L!Find(t)
    OBVIOUS
  <2>2. L!Begin(r, "edit", before, doc, todo) /\ b \in BOOLEAN
    BY <1>5, <2>1 DEF L!UpdateTwin, L!Live
  <2>3. ETwin(doc) /\ doc.id = t /\ doc.is_deleted = b /\ doc.type = L!Type(t)
    BY <2>1, <2>2, TwinDocs
  <2>4. EDoc(doc) /\ EOf(doc) = <<L!Type(t), t>> /\ doc.type # "expense"
    BY <2>3 DEF EDoc, EOf, L!Type
  <2>5. EOf(doc) \in ESource
    BY <2>4, DocFields DEF EOf
  <2>6. todo \in Seq(ESource) /\ EIn(EOf(doc), todo)
    BY <2>1, <2>4, <2>5, SeqShort
  <2>7. /\ before = {x \in lDocs : x.id = doc.id}
        /\ L!Live(t) <=> ELive(doc.id, before)
        /\ L!Live(t) <=> ELive(t, lDocs)
    BY <2>1, <2>3, LinkFinds
  <2>8. "overlap" \notin lMarred => EKeeps(doc, lDocs)
    <3> SUFFICES ASSUME "overlap" \notin lMarred, doc.is_deleted, NEW e \in lDocs,
                        e.type = "expense", ~e.is_deleted, t \in ETwins(e)
                 PROVE  FALSE
      BY <2>3, <2>4 DEF EKeeps
    <3>1. ELive(t, lDocs)
      BY DEF EInv, ETwinned
    <3> QED
      BY <2>1, <2>3, <2>7, <3>1
  <2>9. doc.is_deleted = ~ELive(doc.id, before)
    BY <2>1, <2>3, <2>7 DEF L!Live, ELive
  <2> QED
    BY <2>2, <2>4, <2>6, <2>7, <2>8, <2>9, LinkAsked
<1>6. ASSUME NEW t \in L!Twin, L!DeleteTwin(r, t)
      PROVE  EInv'
  <2>1. PICK d \in L!Find(t) :
          /\ ~\E e \in lDocs : e.type = "expense" /\ ~e.is_deleted /\ t \in {e.bill, e.order}
          /\ L!Begin(r, "delete", {d}, [d EXCEPT !.is_deleted = TRUE], <<<<L!Type(t), t>>>>)
    BY <1>6 DEF L!DeleteTwin
  <2>2. PICK doc, todo, before :
          doc = EMarked(d, TRUE) /\ before = {d} /\ todo = <<<<L!Type(t), t>>>>
    OBVIOUS
  <2>3. L!Begin(r, "delete", before, doc, todo)
    BY <2>1, <2>2 DEF EMarked
  <2>4. EDoc(d) /\ ETwin(d) /\ d.id = t /\ before = L!Find(t)
    BY <2>2, LinkFinds
  <2>5. EDoc(doc) /\ doc.id = t /\ doc.is_deleted = TRUE /\ doc.type = d.type
    BY <2>2, <2>4, DocMarks
  <2>6. EOf(doc) = <<L!Type(t), t>> /\ doc.type # "expense"
    BY <2>4, <2>5 DEF ETwin, EOf, L!Type
  <2>7. EOf(doc) \in ESource
    BY <2>5, DocFields DEF EOf
  <2>8. todo \in Seq(ESource) /\ EIn(EOf(doc), todo)
    BY <2>2, <2>6, <2>7, SeqShort
  <2>9. before = {x \in lDocs : x.id = doc.id}
    BY <2>4, <2>5, LinkFinds
  <2>10. EKeeps(doc, lDocs)
    BY <2>1, <2>5, <2>6 DEF EKeeps, ETwins
  <2>11. \E x \in before : doc = EMarked(x, TRUE)
    BY <2>2
  <2> QED
    BY <2>3, <2>5, <2>6, <2>8, <2>9, <2>10, <2>11, LinkAsked
<1> QED
  BY <1>1, <1>2, <1>3, <1>4, <1>5, <1>6 DEF L!Start

(* What a write leaves: the document it was to write, but for the marks.   *)
EWrote(doc, w, h) ==
  /\ EAsks(h, doc) /\ ("overlap" \notin lMarred => EKnows(h, doc))
  /\ EDoc(w) /\ w.id = doc.id /\ w.type = doc.type
  /\ lDocs' = {d \in lDocs : d.id # doc.id} \cup {w}
  /\ lMarred' = IF doc.type = "expense" /\ L!Find(doc.id) # h.before
                THEN lMarred \cup {"stale"} ELSE lMarred
  /\ L!Find(doc.id) = h.before =>
       /\ w.is_deleted = doc.is_deleted
       /\ doc.type = "expense" => w.bill = doc.bill /\ w.order = doc.order

LEMMA LinkWrote ==
  ASSUME EInv, NEW r \in Clerk, L!Write(r)
  PROVE  \E doc, w : EWrote(doc, w, lHand[r])
<1> DEFINE h == lHand[r]
<1>1. PICK doc : EAsks(h, doc) /\ ("overlap" \notin lMarred => EKnows(h, doc))
  BY DEF EInv, EHeld, L!Write
<1>2. EDoc(doc) /\ h.doc = {doc}
  BY <1>1 DEF EAsks
<1>3. /\ \/ h.kind = "insert" /\ L!Save(doc)
         \/ h.kind = "edit" /\ L!Save(EMarked(doc, ~L!Live(doc.id)))
         \/ h.kind = "delete" /\ \E d \in L!Find(doc.id) : L!Save(EMarked(d, TRUE))
      /\ lMarred' = IF doc.type = "expense" /\ L!Find(doc.id) # h.before
                    THEN lMarred \cup {"stale"} ELSE lMarred
  BY <1>2 DEF L!Write, EMarked
<1>6. PICK w :
        /\ EDoc(w) /\ w.id = doc.id /\ L!Save(w)
        /\ L!Find(doc.id) = h.before =>
             /\ w.is_deleted = doc.is_deleted
             /\ doc.type = "expense" => w.bill = doc.bill /\ w.order = doc.order
  <2> HIDE DEF h
  <2>0. \/ h.kind = "insert" /\ h.before = {}
        \/ h.kind = "edit" /\ doc.is_deleted = ~ELive(doc.id, h.before)
        \/ h.kind = "delete" /\ \E x \in h.before : doc = EMarked(x, TRUE)
    BY <1>1 DEF EAsks
  <2>1. CASE h.kind = "insert" /\ L!Save(doc)
    BY <1>2, <2>1
  <2>2. CASE h.kind = "edit" /\ L!Save(EMarked(doc, ~L!Live(doc.id)))
    <3>1. \E b \in BOOLEAN : b = ~L!Live(doc.id)
      <4>1. CASE L!Live(doc.id)
        <5> WITNESS FALSE \in BOOLEAN
        <5> QED
          BY <4>1
      <4>2. CASE ~L!Live(doc.id)
        <5> WITNESS TRUE \in BOOLEAN
        <5> QED
          BY <4>2
      <4> QED
        BY <4>1, <4>2
    <3>2. PICK b \in BOOLEAN : b = ~L!Live(doc.id)
      BY <3>1
    <3>7. PICK w : w = EMarked(doc, b)
      OBVIOUS
    <3>3. L!Save(w)
      BY <2>2, <3>2, <3>7
    <3>4. /\ EDoc(EMarked(doc, b)) /\ EMarked(doc, b).id = doc.id
          /\ EMarked(doc, b).is_deleted = b
          /\ EExpense(doc) => EMarked(doc, b).bill = doc.bill /\ EMarked(doc, b).order = doc.order
      BY <1>2, DocMarks
    <3>5. L!Find(doc.id) = h.before => b = doc.is_deleted
      <4> HAVE L!Find(doc.id) = h.before
      <4>1. L!Live(doc.id) <=> ELive(doc.id, h.before)
        BY DEF L!Live, L!Find, ELive
      <4>2. doc.is_deleted = ~ELive(doc.id, h.before)
        BY <2>0, <2>2
      <4> QED
        BY <3>2, <4>1, <4>2
    <3>6. doc.type = "expense" => EExpense(doc)
      BY <1>2, DocFields
    <3> QED
      BY <3>3, <3>4, <3>5, <3>6, <3>7
  <2>3. CASE h.kind = "delete" /\ \E d \in L!Find(doc.id) : L!Save(EMarked(d, TRUE))
    <3>1. PICK d \in L!Find(doc.id) : L!Save(EMarked(d, TRUE))
      BY <2>3
    <3>2. d \in lDocs /\ d.id = doc.id /\ EDoc(d)
      BY DEF L!Find, EInv, ETyped
    <3>3. EDoc(EMarked(d, TRUE)) /\ EMarked(d, TRUE).id = doc.id
      BY <3>2, DocMarks
    <3>4. L!Find(doc.id) = h.before => EMarked(d, TRUE) = doc
      <4> HAVE L!Find(doc.id) = h.before
      <4>1. PICK x \in h.before : doc = EMarked(x, TRUE)
        BY <2>0, <2>3
      <4>2. x \in lDocs /\ x.id = doc.id
        BY DEF L!Find
      <4>3. x = d
        BY <3>2, <4>2 DEF EInv, ETyped
      <4> QED
        BY <4>1, <4>3
    <3>5. PICK w : w = EMarked(d, TRUE)
      OBVIOUS
    <3>6. L!Save(w) /\ EDoc(w) /\ w.id = doc.id
      BY <3>1, <3>3, <3>5
    <3>7. L!Find(doc.id) = h.before => w = doc
      BY <3>4, <3>5
    <3> QED
      BY <3>6, <3>7
  <2> QED
    BY <1>3, <2>1, <2>2, <2>3
<1>4. w.type = doc.type
  BY <1>2, <1>6, DocFields
<1>5. lDocs' = {d \in lDocs : d.id # doc.id} \cup {w}
  BY <1>6 DEF L!Save
<1>7. EWrote(doc, w, h)
  BY <1>1, <1>3, <1>4, <1>5, <1>6 DEF EWrote
<1> QED
  BY <1>7

LEMMA LinkWrites ==
  ASSUME EInv, NEW r \in Clerk, L!Write(r)
  PROVE  EInv'
<1> DEFINE h == lHand[r]
<1>1. PICK doc, w : EWrote(doc, w, h)
  BY LinkWrote
<1>2. /\ lPc[r] = "write" /\ lPc' = [lPc EXCEPT ![r] = "project"]
      /\ lLedger' = lLedger /\ lHand' = lHand
  BY DEF L!Write
<1> HIDE DEF h
<1>3. /\ EAsks(h, doc) /\ EDoc(w) /\ EDoc(doc) /\ w.id = doc.id /\ w.type = doc.type
      /\ "overlap" \notin lMarred => EKnows(h, doc)
      /\ lDocs' = {d \in lDocs : d.id # doc.id} \cup {w}
  BY <1>1 DEF EWrote, EAsks
<1>4. /\ lPc'[r] = "project" /\ \A q \in Clerk : q # r => lPc'[q] = lPc[q]
      /\ lMarred \subseteq lMarred'
      /\ lMarred' = IF doc.type = "expense" /\ L!Find(doc.id) # h.before
                    THEN lMarred \cup {"stale"} ELSE lMarred
  BY <1>1, <1>2 DEF EWrote, EInv, ETyped
<1>5. /\ \A d \in lDocs' : (d \in lDocs /\ d.id # doc.id) \/ d = w
      /\ \A d \in lDocs : d.id # doc.id => d \in lDocs'
      /\ w \in lDocs'
  BY <1>3
<1>6. ETyped'
  <2>1. lPc' \in [Clerk -> {"new", "write", "project", "done"}]
    BY <1>2 DEF EInv, ETyped
  <2>2. IsFiniteSet(lDocs')
    <3>1. IsFiniteSet({d \in lDocs : d.id # doc.id})
      BY FS_Subset DEF EInv, ETyped
    <3> QED
      BY <1>3, <3>1, FS_AddElement
  <2>3. \A d \in lDocs' : EDoc(d)
    BY <1>3, <1>5 DEF EInv, ETyped
  <2>4. \A d, x \in lDocs' : d.id = x.id => d = x
    BY <1>3, <1>5 DEF EInv, ETyped
  <2> QED
    BY <1>2, <2>1, <2>2, <2>3, <2>4 DEF EInv, ETyped
<1>7. EHeld'
  <2> SUFFICES ASSUME NEW q \in Clerk
               PROVE  /\ lPc'[q] = "write" =>
                           \E x : EAsks(lHand'[q], x)
                                  /\ ("overlap" \notin lMarred' => EKnows(lHand[q], x)')
                      /\ lPc'[q] = "project" => lHand'[q].todo \in Seq(ESource)
    BY DEF EHeld
  <2>1. CASE q = r
    BY <1>2, <1>3, <1>4, <2>1 DEF EAsks, h
  <2>2. CASE q # r
    <3>1. lPc[q] = "write" => "overlap" \in lMarred
      BY <1>2, <2>2 DEF EInv, ESerial, L!Busy
    <3> QED
      BY <1>2, <1>4, <2>2, <3>1 DEF EInv, EHeld
  <2> QED
    BY <2>1, <2>2
<1>8. EProjected'
  <2> SUFFICES ASSUME lMarred' \cap {"stale", "death"} = {}, NEW s \in ESource, ~EOwed(s)'
               PROVE  EFits(s, lDocs, lLedger)'
    BY DEF EProjected
  <2>1. ~EIn(s, h.todo)
    BY <1>2, <1>4 DEF EOwed, h
  <2>2. s # EOf(doc)
    BY <1>3, <2>1 DEF EAsks
  <2>3. ~EOwed(s)
    <3>1. ASSUME EOwed(s)
          PROVE  FALSE
      <4>1. PICK q \in Clerk : lPc[q] = "project" /\ EIn(s, lHand[q].todo)
        BY <3>1 DEF EOwed
      <4>2. q # r
        BY <1>2, <4>1
      <4> QED
        BY <1>2, <1>4, <4>1, <4>2 DEF EOwed
    <3> QED
      BY <3>1
  <2>4. EFits(s, lDocs, lLedger)
    BY <1>4, <2>3 DEF EInv, EProjected
  <2>5. \A d \in lDocs \cup lDocs' : EOf(d) = s => d.id # doc.id
    <3> SUFFICES ASSUME NEW d \in lDocs \cup lDocs', EOf(d) = s, d.id = doc.id
                 PROVE  FALSE
      OBVIOUS
    <3>1. EDoc(d)
      BY <1>6 DEF EInv, ETyped
    <3>2. d.type = doc.type
      BY <1>3, <3>1, DocFields
    <3> QED
      BY <2>2, <3>2 DEF EOf
  <2>6. s[1] # "expense" => (EPaired(s, lDocs') <=> EPaired(s, lDocs))
    <3> HAVE s[1] # "expense"
    <3>1. CASE doc.type # "expense"
      <4>1. \A x \in lDocs : x.id = doc.id => x.type # "expense"
        <5> SUFFICES ASSUME NEW x \in lDocs, x.id = doc.id
                     PROVE  x.type # "expense"
          OBVIOUS
        <5>1. EDoc(x)
          BY DEF EInv, ETyped
        <5> QED
          BY <1>3, <3>1, <5>1, DocFields
      <4> QED
        BY <1>3, <1>5, <3>1, <4>1 DEF EPaired, EStands
    <3>2. CASE doc.type = "expense"
      <4>1. L!Find(doc.id) = h.before
        BY <1>4, <3>2
      <4>2. /\ w.is_deleted = doc.is_deleted /\ w.bill = doc.bill /\ w.order = doc.order
        BY <1>1, <3>2, <4>1 DEF EWrote
      <4>3. EStands(w, s) <=> EStands(doc, s)
        BY <1>3, <4>2 DEF EStands
      <4>4. EPaired(s, h.before) <=> EStands(doc, s)
        BY <1>3, <2>1, <3>2 DEF EAsks
      <4>5. \A x : x \in h.before <=> x \in lDocs /\ x.id = doc.id
        BY <4>1 DEF L!Find
      <4>6. (\E x \in lDocs : x.id = doc.id /\ EStands(x, s)) <=> EStands(w, s)
        BY <4>3, <4>4, <4>5 DEF EPaired
      <4> QED
        BY <1>5, <4>6 DEF EPaired
    <3> QED
      BY <3>1, <3>2
  <2>7. \A l : ELegsAre(l, s, lDocs') <=> ELegsAre(l, s, lDocs)
    <3>1. \A d : EOf(d) = s => (d \in lDocs <=> d \in lDocs')
      <4> SUFFICES ASSUME NEW d, EOf(d) = s
                   PROVE  d \in lDocs <=> d \in lDocs'
        OBVIOUS
      <4> QED
        BY <1>3, <1>5, <2>5
    <3>2. \A d : EOf(d) = s => (EShown(d, lDocs') <=> EShown(d, lDocs))
      <4> SUFFICES ASSUME NEW d, EOf(d) = s
                   PROVE  EShown(d, lDocs') <=> EShown(d, lDocs)
        OBVIOUS
      <4>1. s[1] = d.type /\ <<d.type, d.id>> = s
        BY DEF EOf
      <4> QED
        BY <2>6, <4>1 DEF EShown
    <3> QED
      BY <3>1, <3>2 DEF ELegsAre
  <2> QED
    BY <1>2, <2>4, <2>7 DEF EFits
<1>9. ESerial'
  <2>1. L!Busy' = L!Busy
    BY <1>2, <1>4 DEF L!Busy
  <2> QED
    BY <1>4, <2>1 DEF EInv, ESerial
<1>10. ETwinned'
  <2> SUFFICES ASSUME "overlap" \notin lMarred', NEW e \in lDocs', e.type = "expense",
                      ~e.is_deleted, NEW t \in ETwins(e)
               PROVE  ELive(t, lDocs')
    BY DEF ETwinned
  <2>1. EKnows(h, doc)
    BY <1>3, <1>4
  <2>2. L!Find(doc.id) = h.before /\ EKeeps(doc, lDocs)
    BY <2>1 DEF EKnows, L!Find
  <2>3. /\ w.is_deleted = doc.is_deleted
        /\ doc.type = "expense" => w.bill = doc.bill /\ w.order = doc.order
    BY <1>1, <2>2 DEF EWrote
  <2>4. EExpense(e) /\ e.id \in LinkExpense
    <3>1. EDoc(e)
      BY <1>6 DEF ETyped
    <3> QED
      BY <3>1, DocFields
  <2>5. t \in L!Twin
    BY <2>4 DEF EExpense, ETwins, L!Twin
  <2>6. CASE e = w
    <3>1. ELive(t, lDocs)
      <4>1. doc.type = "expense" /\ ~doc.is_deleted /\ t \in ETwins(doc)
        BY <1>3, <2>3, <2>6 DEF ETwins
      <4> QED
        BY <2>2, <4>1 DEF EKeeps
    <3>2. PICK d \in lDocs : d.id = t /\ ~d.is_deleted
      BY <3>1 DEF ELive
    <3>3. doc.id \in LinkExpense
      BY <1>3, <2>4, <2>6
    <3>4. d.id # doc.id
      BY <2>5, <3>2, <3>3, LinkIds DEF L!Twin
    <3> QED
      BY <1>5, <3>2, <3>4 DEF ELive
  <2>7. CASE e # w
    <3>1. e \in lDocs
      BY <1>5, <2>7
    <3>2. PICK d \in lDocs : d.id = t /\ ~d.is_deleted
      BY <1>4, <3>1 DEF EInv, ETwinned, ELive
    <3>3. CASE d.id # doc.id
      BY <1>5, <3>2, <3>3 DEF ELive
    <3>4. CASE d.id = doc.id
      <4>1. doc.type # "expense"
        <5>1. doc.id \in L!Twin
          BY <2>5, <3>2, <3>4
        <5> QED
          BY <1>3, <5>1, DocFields
      <4>2. ~doc.is_deleted
        BY <2>2, <3>1, <3>2, <3>4, <4>1 DEF EKeeps
      <4> QED
        BY <1>3, <1>5, <2>3, <3>2, <3>4, <4>2 DEF ELive
    <3> QED
      BY <3>3, <3>4
  <2> QED
    BY <2>6, <2>7
<1> QED
  BY <1>6, <1>7, <1>8, <1>9, <1>10 DEF EInv

(* What is projected again has the legs of its document, and no other.     *)
LEMMA LinkReproject ==
  ASSUME EInv, NEW s \in ESource, NEW after, after = L!Reproject(lLedger, s[1], s[2], lDocs)
  PROVE  \A l : l \in after <=> (l \in lLedger /\ l.key[1] # s) \/ ELegsAre(l, s, lDocs)
<1>1. s = <<s[1], s[2]>> /\ s[1] \in {"expense", "vendor_bill", "mechanic_work_order"}
  BY DEF ESource
<1>2. PICK legs, rest :
        /\ legs = UNION {L!Legs(d, lDocs) : d \in {d \in lDocs : d.type = s[1] /\ d.id = s[2]}}
        /\ rest = L!Without(lLedger, s[1], s[2])
  OBVIOUS
<1>3. after = L!Upsert(rest, legs)
  BY <1>2 DEF L!Reproject
<1>4. \A l : l \in legs <=> ELegsAre(l, s, lDocs)
  <2>1. \A d : EOf(d) = s <=> d.type = s[1] /\ d.id = s[2]
    BY <1>1 DEF EOf
  <2>2. \A l : l \in legs <=> \E d \in lDocs : d.type = s[1] /\ d.id = s[2] /\ l \in L!Legs(d, lDocs)
    BY <1>2
  <2>3. \A d \in lDocs : L!Legs(d, lDocs) = IF EShown(d, lDocs) THEN EPairOf(d) ELSE {}
    <3>1. \A d \in lDocs : EDoc(d)
      BY DEF EInv, ETyped
    <3> QED
      BY <3>1, LegsByLinks
  <2> QED
    BY <2>1, <2>2, <2>3 DEF ELegsAre
<1>5. \A l : l \in rest <=> l \in lLedger /\ l.key[1] # s
  BY <1>1, <1>2 DEF L!Without, L!Embedded
<1>6. \A l : ELegsAre(l, s, lDocs) => l.key[1] = s
  BY PairKeys DEF ELegsAre
<1>7. \A l : l \in after <=> (l \in rest /\ \A m \in legs : l.key # m.key) \/ l \in legs
  BY <1>3 DEF L!Upsert
<1> QED
  BY <1>4, <1>5, <1>6, <1>7

LEMMA LinkProjects ==
  ASSUME EInv, NEW r \in Clerk, L!ProjectOne(r)
  PROVE  EInv'
<1> DEFINE todo == lHand[r].todo
           s == Head(todo)
<1>1. /\ lPc[r] = "project" /\ todo # <<>>
      /\ lLedger' = L!Reproject(lLedger, s[1], s[2], lDocs)
      /\ lHand' = [lHand EXCEPT ![r].todo = Tail(@)]
      /\ lDocs' = lDocs /\ lPc' = lPc /\ lMarred' = lMarred
  BY DEF L!ProjectOne
<1>2. todo \in Seq(ESource)
  BY <1>1 DEF EInv, EHeld
<1>3. /\ DOMAIN lHand' = Clerk /\ lHand'[r].todo = Tail(todo)
      /\ DOMAIN lHand'[r] = DOMAIN lHand[r]
      /\ \A q \in Clerk : q # r => lHand'[q] = lHand[q]
  BY <1>1 DEF EInv, ETyped
<1> HIDE DEF todo
<1>4. /\ s \in ESource /\ Tail(todo) \in Seq(ESource)
      /\ \A x : EIn(x, todo) <=> x = s \/ EIn(x, Tail(todo))
  BY <1>1, <1>2, SeqFirst
<1> HIDE DEF s
<1>5. \A l : l \in lLedger' <=> (l \in lLedger /\ l.key[1] # s) \/ ELegsAre(l, s, lDocs)
  BY <1>1, <1>4, LinkReproject
<1>6. ETyped'
  <2>1. \A l \in lLedger' : \E d : EDoc(d) /\ l \in EPairOf(d)
    BY <1>5 DEF EInv, ETyped, ELegsAre
  <2>2. \A q \in Clerk : DOMAIN lHand'[q] = {"kind", "doc", "before", "todo"}
    <3> TAKE q \in Clerk
    <3>1. CASE q = r
      BY <1>3, <3>1 DEF EInv, ETyped
    <3>2. CASE q # r
      BY <1>3, <3>2 DEF EInv, ETyped
    <3> QED
      BY <3>1, <3>2
  <2> QED
    BY <1>1, <1>3, <2>1, <2>2 DEF EInv, ETyped
<1>7. EHeld'
  <2> SUFFICES ASSUME NEW q \in Clerk
               PROVE  /\ lPc'[q] = "write" =>
                           \E x : EAsks(lHand'[q], x)
                                  /\ ("overlap" \notin lMarred' => EKnows(lHand[q], x)')
                      /\ lPc'[q] = "project" => lHand'[q].todo \in Seq(ESource)
    BY DEF EHeld
  <2>1. CASE q = r
    BY <1>1, <1>3, <1>4, <2>1
  <2>2. CASE q # r
    <3>1. \A x : EKnows(lHand[q], x) => EKnows(lHand[q], x)'
      BY <1>1, <1>3, <2>2 DEF EKnows
    <3> QED
      BY <1>1, <1>3, <2>2, <3>1 DEF EInv, EHeld
  <2> QED
    BY <2>1, <2>2
<1>8. EProjected'
  <2>1. EFits(s, lDocs', lLedger')
    <3>1. \A l : ELegsAre(l, s, lDocs) => l.key[1] = s
      BY PairKeys DEF ELegsAre
    <3> QED
      BY <1>1, <1>5, <3>1 DEF EFits
  <2>2. ASSUME NEW x \in ESource, x # s, EFits(x, lDocs, lLedger)
        PROVE  EFits(x, lDocs', lLedger')
    <3>1. \A l : ELegsAre(l, s, lDocs) => l.key[1] = s
      BY PairKeys DEF ELegsAre
    <3> QED
      BY <1>1, <1>5, <2>2, <3>1 DEF EFits
  <2>3. ASSUME NEW x \in ESource, x # s, EOwed(x)
        PROVE  EOwed(x)'
    <3>1. PICK q \in Clerk : lPc[q] = "project" /\ EIn(x, lHand[q].todo)
      BY <2>3 DEF EOwed
    <3>2. EIn(x, lHand'[q].todo)
      <4>1. CASE q = r
        BY <1>3, <1>4, <2>3, <3>1, <4>1 DEF todo
      <4>2. CASE q # r
        BY <1>3, <3>1, <4>2
      <4> QED
        BY <4>1, <4>2
    <3> QED
      BY <1>1, <3>1, <3>2 DEF EOwed
  <2> SUFFICES ASSUME lMarred' \cap {"stale", "death"} = {}, NEW x \in ESource
               PROVE  EFits(x, lDocs', lLedger') \/ EOwed(x)'
    BY DEF EProjected
  <2>4. EFits(x, lDocs, lLedger) \/ EOwed(x)
    BY <1>1 DEF EInv, EProjected
  <2> QED
    BY <2>1, <2>2, <2>3, <2>4
<1>9. ESerial' /\ ETwinned'
  BY <1>1 DEF EInv, ESerial, ETwinned, L!Busy
<1> QED
  BY <1>6, <1>7, <1>8, <1>9 DEF EInv

(* A request ends, having projected everything, or dies.                   *)
LEMMA LinkEnds ==
  ASSUME EInv, NEW r \in Clerk, L!Finish(r) \/ L!Die(r)
  PROVE  EInv'
<1>1. /\ lPc' = [lPc EXCEPT ![r] = "done"] /\ lHand' = [lHand EXCEPT ![r] = L!Blank]
      /\ lDocs' = lDocs /\ lLedger' = lLedger
      /\ \/ lHand[r].todo = <<>> /\ lMarred' = lMarred
         \/ lMarred' = lMarred \cup {"death"}
  BY DEF L!Finish, L!Die
<1>2. /\ lPc'[r] = "done"
      /\ \A q \in Clerk : q # r => lPc'[q] = lPc[q] /\ lHand'[q] = lHand[q]
      /\ \A q \in Clerk : lPc'[q] # "done" => q # r
  BY <1>1 DEF EInv, ETyped
<1>3. ETyped'
  BY <1>1 DEF EInv, ETyped, L!Blank
<1>4. EHeld'
  <2> SUFFICES ASSUME NEW q \in Clerk
               PROVE  /\ lPc'[q] = "write" =>
                           \E x : EAsks(lHand'[q], x)
                                  /\ ("overlap" \notin lMarred' => EKnows(lHand[q], x)')
                      /\ lPc'[q] = "project" => lHand'[q].todo \in Seq(ESource)
    BY DEF EHeld
  <2>1. CASE q = r
    BY <1>2, <2>1
  <2>2. CASE q # r
    <3>1. \A x : EKnows(lHand[q], x) => EKnows(lHand[q], x)'
      BY <1>1, <1>2, <2>2 DEF EKnows
    <3> QED
      BY <1>1, <1>2, <2>2, <3>1 DEF EInv, EHeld
  <2> QED
    BY <2>1, <2>2
<1>5. EProjected'
  <2> SUFFICES ASSUME lMarred' \cap {"stale", "death"} = {}, NEW x \in ESource
               PROVE  EFits(x, lDocs', lLedger') \/ EOwed(x)'
    BY DEF EProjected
  <2>1. lHand[r].todo = <<>> /\ lMarred' = lMarred
    BY <1>1
  <2>2. EFits(x, lDocs, lLedger) \/ EOwed(x)
    BY <2>1 DEF EInv, EProjected
  <2>3. ASSUME EOwed(x)
        PROVE  EOwed(x)'
    <3>1. PICK q \in Clerk : lPc[q] = "project" /\ EIn(x, lHand[q].todo)
      BY <2>3 DEF EOwed
    <3>2. q # r
      BY <2>1, <3>1, SeqShort
    <3> QED
      BY <1>2, <3>1, <3>2 DEF EOwed
  <2> QED
    BY <1>1, <2>2, <2>3
<1>6. ESerial'
  <2>1. \A q \in L!Busy' : q \in L!Busy
    BY <1>2 DEF L!Busy
  <2> QED
    BY <1>1, <2>1 DEF EInv, ESerial
<1>7. ETwinned'
  BY <1>1 DEF EInv, ETwinned
<1> QED
  BY <1>3, <1>4, <1>5, <1>6, <1>7 DEF EInv

LEMMA LinksStay ==
  ASSUME EInv, UNCHANGED lVars
  PROVE  EInv'
BY DEF EInv, lVars, ETyped, EHeld, EProjected, ESerial, ETwinned, EKnows, EOwed, L!Busy

LEMMA LinksKept ==
  ASSUME EInv, L!Next \/ UNCHANGED lVars
  PROVE  EInv'
<1>1. CASE UNCHANGED lVars
  BY <1>1, LinksStay
<1>2. CASE L!Next
  <2>1. PICK r \in Clerk :
          L!Start(r) \/ L!Write(r) \/ L!ProjectOne(r) \/ L!Finish(r) \/ L!Die(r)
    BY <1>2 DEF L!Next
  <2> QED
    BY <2>1, LinkStarts, LinkWrites, LinkProjects, LinkEnds
<1> QED
  BY <1>1, <1>2

-----------------------------------------------------------------------------
(* What agrees then.                                                       *)

LEMMA LedgerShown ==
  ASSUME EInv
  PROVE  \A l : l \in L!Ledger(lDocs) <=> \E d \in lDocs : EShown(d, lDocs) /\ l \in EPairOf(d)
<1>1. \A d \in lDocs : EDoc(d)
  BY DEF EInv, ETyped
<1>2. \A d \in lDocs : L!Legs(d, lDocs) = IF EShown(d, lDocs) THEN EPairOf(d) ELSE {}
  BY <1>1, LegsByLinks
<1>3. \A l : l \in L!Ledger(lDocs) <=> \E d \in lDocs : l \in L!Legs(d, lDocs)
  BY DEF L!Ledger
<1> QED
  BY <1>2, <1>3

LEMMA LinksAgree ==
  ASSUME EInv
  PROVE  L!ExpensesAgree
<1>1. L!LinksProjected
  <2> SUFFICES ASSUME L!Busy = {}, lMarred \cap {"stale", "death"} = {}
               PROVE  lLedger = L!Ledger(lDocs)
    BY DEF L!LinksProjected
  <2>1. \A s : ~EOwed(s)
    BY DEF EOwed, L!Busy
  <2>2. \A s \in ESource : EFits(s, lDocs, lLedger)
    BY <2>1 DEF EInv, EProjected
  <2>3. \A l : l \in lLedger <=> \E d \in lDocs : EShown(d, lDocs) /\ l \in EPairOf(d)
    <3> SUFFICES ASSUME NEW l
                 PROVE  l \in lLedger <=> \E d \in lDocs : EShown(d, lDocs) /\ l \in EPairOf(d)
      OBVIOUS
    <3>1. ASSUME l \in lLedger
          PROVE  \E d \in lDocs : EShown(d, lDocs) /\ l \in EPairOf(d)
      <4>1. PICK d : EDoc(d) /\ l \in EPairOf(d)
        BY <3>1 DEF EInv, ETyped
      <4>2. l.key[1] = EOf(d) /\ EOf(d) \in ESource
        BY <4>1, PairKeys, DocFields DEF EOf
      <4> QED
        BY <2>2, <3>1, <4>2 DEF EFits, ELegsAre
    <3>2. ASSUME NEW d \in lDocs, EShown(d, lDocs), l \in EPairOf(d)
          PROVE  l \in lLedger
      <4>1. EOf(d) \in ESource
        BY DocFields DEF EInv, ETyped, EOf
      <4> QED
        BY <2>2, <3>2, <4>1 DEF EFits, ELegsAre
    <3> QED
      BY <3>1, <3>2
  <2> QED
    BY <2>3, LedgerShown
<1>2. L!TwinsLive
  BY LinkFinds DEF L!TwinsLive, EInv, ETwinned, ETwins
<1> QED
  BY <1>1, <1>2 DEF L!ExpensesAgree

-----------------------------------------------------------------------------
(* The Reconciliation Center.  A ledger of expenses, bills and orders:     *)
ELedger(ledger) == \A l \in ledger : \E d : EDoc(d) /\ l \in EPairOf(d)

LEMMA AlwaysDated ==
  ASSUME NEW set, \A x \in set : x.date = 1
  PROVE  K!Dated(set, 0, K!Always) = set
<1>1. 0 <= 1 /\ 1 <= K!Always
  BY DEF K!Always
<1> QED
  BY <1>1 DEF K!Dated

LEMMA CenterMarks ==
  ASSUME NEW d, EDoc(d)
  PROVE  /\ ~K!Past(d)
         /\ K!Dead(d) <=> d.is_deleted
         /\ K!Set(d, {"is_deleted"}) <=> d.is_deleted
<1>1. CASE ETwin(d)
  <2>1. /\ "is_deleted" \in DOMAIN d /\ "is_reversed" \notin DOMAIN d
        /\ "historical" \notin DOMAIN d
    BY <1>1 DEF ETwin
  <2> QED
    BY <2>1 DEF K!Past, K!Dead, K!Set
<1>2. CASE EExpense(d)
  <2>1. /\ "is_deleted" \in DOMAIN d /\ d["is_reversed"] = FALSE
        /\ d["historical"] = FALSE
    BY <1>2 DEF EExpense
  <2> QED
    BY <2>1 DEF K!Past, K!Dead, K!Set
<1> QED
  BY <1>1, <1>2 DEF EDoc

LEMMA CenterLegs ==
  ASSUME NEW ledger, ELedger(ledger)
  PROVE  /\ \A l \in ledger : l.date = 1
         /\ \A d : EDoc(d) /\ d.type # "expense" =>
              (K!HasOrphanLegs(ledger, d) <=> d.id \in K!Projected(ledger, d.type))
<1>1. \A l \in ledger : \E d : /\ EDoc(d) /\ l.key[1] = <<d.type, d.id>>
                               /\ l.key[1][1] = d.type /\ l.key[1][2] = d.id /\ l.date = d.date
                               /\ l.key[2] = (IF d.type = "expense" THEN "expense" ELSE "orphan")
  BY PairKeys DEF ELedger, EOf
<1>2. \A d : EDoc(d) => d.date = 1 /\ d.type # "trip_customer_receipt"
  BY DocFields
<1>3. \A l \in ledger : /\ l.date = 1 /\ l.key[1][1] # "trip_customer_receipt"
                        /\ K!Root(l) = l.key[1][2]
                        /\ \A type, id : l.key[1] = <<type, id>> <=> l.key[1][1] = type /\ l.key[1][2] = id
  BY <1>1, <1>2 DEF K!Root
<1>4. \A type, id : id \in K!Projected(ledger, type)
                      <=> \E l \in ledger : l.key[1][1] = type /\ K!Root(l) = id
  BY DEF K!Projected
<1>5. \A type, id : id \in K!Projected(ledger, type) <=> \E l \in ledger : l.key[1] = <<type, id>>
  BY <1>3, <1>4
<1>7. ASSUME NEW d, EDoc(d), d.type # "expense"
      PROVE  K!HasOrphanLegs(ledger, d) <=> d.id \in K!Projected(ledger, d.type)
  <2>1. \A l \in ledger : l.key[1] = <<d.type, d.id>> => l.key[2] = "orphan"
    <3> SUFFICES ASSUME NEW l \in ledger, l.key[1] = <<d.type, d.id>>
                 PROVE  l.key[2] = "orphan"
      OBVIOUS
    <3>1. PICK x : /\ EDoc(x) /\ l.key[1][1] = x.type
                   /\ l.key[2] = (IF x.type = "expense" THEN "expense" ELSE "orphan")
      BY <1>1
    <3> QED
      BY <1>7, <3>1
  <2> QED
    BY <1>5, <2>1 DEF K!HasOrphanLegs, K!Source
<1> QED
  BY <1>3, <1>7

LEMMA CenterKeys ==
  ASSUME NEW ledger, ELedger(ledger), NEW type, NEW id
  PROVE  id \in K!Projected(ledger, type) <=> \E l \in ledger : l.key[1] = <<type, id>>
<1>1. \A l \in ledger : /\ l.key[1][1] # "trip_customer_receipt"
                        /\ l.key[1] = <<type, id>> <=> l.key[1][1] = type /\ l.key[1][2] = id
  <2> SUFFICES ASSUME NEW l \in ledger
               PROVE  /\ l.key[1][1] # "trip_customer_receipt"
                      /\ l.key[1] = <<type, id>> <=> l.key[1][1] = type /\ l.key[1][2] = id
    OBVIOUS
  <2>1. PICK d : EDoc(d) /\ l \in EPairOf(d)
    BY DEF ELedger
  <2>2. l.key[1] = <<d.type, d.id>> /\ d.type # "trip_customer_receipt"
    BY <2>1, PairKeys, DocFields DEF EOf
  <2> QED
    BY <2>2
<1> QED
  BY <1>1 DEF K!Projected, K!Root

(* The rows of A.                                                          *)
ARowsOf(docs, ledger, from, to, type) ==
  LET found == {d \in K!Dated(K!Of(docs, K!Collection(type)), from, to) : ~K!Past(d)}
      legs == K!Projected(K!Dated(ledger, from, to), type)
      rows(ids, note) == {[type |-> type, id |-> i, note |-> note] : i \in ids}
  IN  rows({d.id : d \in {x \in found : ~K!Dead(x)}} \ legs, "missing")
      \cup rows({d.id : d \in {x \in found : K!Dead(x)}} \cap legs, "ghost")
      \cup rows(legs \ {d.id : d \in found}, "orphan")

ARow(type, id, note) == [type |-> type, id |-> id, note |-> note]

LEMMA CenterRows ==
  ASSUME NEW docs, \A d \in docs : EDoc(d), NEW ledger, ELedger(ledger), NEW type
  PROVE  \A r : r \in ARowsOf(docs, ledger, 0, K!Always, type) <=>
           \/ \E d \in docs : /\ d.type = K!Collection(type) /\ ~d.is_deleted
                              /\ d.id \notin K!Projected(ledger, type)
                              /\ r = ARow(type, d.id, "missing")
           \/ \E d \in docs : /\ d.type = K!Collection(type) /\ d.is_deleted
                              /\ d.id \in K!Projected(ledger, type)
                              /\ r = ARow(type, d.id, "ghost")
           \/ \E i \in K!Projected(ledger, type) :
                /\ \A d \in docs : d.type = K!Collection(type) => d.id # i
                /\ r = ARow(type, i, "orphan")
<1> DEFINE found == {d \in K!Dated(K!Of(docs, K!Collection(type)), 0, K!Always) : ~K!Past(d)}
           legs == K!Projected(K!Dated(ledger, 0, K!Always), type)
           live == {d.id : d \in {x \in found : ~K!Dead(x)}}
           dead == {d.id : d \in {x \in found : K!Dead(x)}}
           ids == {d.id : d \in found}
<1>1. legs = K!Projected(ledger, type)
  BY AlwaysDated, CenterLegs
<1>2. \A d : d \in found <=> d \in docs /\ d.type = K!Collection(type)
  <2>1. \A d \in K!Of(docs, K!Collection(type)) : d.date = 1
    BY DocFields DEF K!Of
  <2>2. K!Dated(K!Of(docs, K!Collection(type)), 0, K!Always) = K!Of(docs, K!Collection(type))
    BY <2>1, AlwaysDated
  <2> QED
    BY <2>2, CenterMarks DEF K!Of
<1>3. ARowsOf(docs, ledger, 0, K!Always, type)
        = {ARow(type, i, "missing") : i \in live \ legs}
          \cup {ARow(type, i, "ghost") : i \in dead \cap legs}
          \cup {ARow(type, i, "orphan") : i \in legs \ ids}
  BY DEF ARowsOf, ARow
<1> HIDE DEF legs
<1>4. /\ \A i : i \in live <=> \E d \in docs : d.type = K!Collection(type) /\ ~d.is_deleted /\ d.id = i
      /\ \A i : i \in dead <=> \E d \in docs : d.type = K!Collection(type) /\ d.is_deleted /\ d.id = i
      /\ \A i : i \in ids <=> \E d \in docs : d.type = K!Collection(type) /\ d.id = i
  <2> HIDE DEF found
  <2>1. \A d \in found : K!Dead(d) <=> d.is_deleted
    BY <1>2, CenterMarks
  <2> QED
    BY <1>2, <2>1
<1> HIDE DEF live, dead, ids, found
<1>5. \A r : r \in ARowsOf(docs, ledger, 0, K!Always, type) <=>
           \/ \E i \in live \ legs : r = ARow(type, i, "missing")
           \/ \E i \in dead \cap legs : r = ARow(type, i, "ghost")
           \/ \E i \in legs \ ids : r = ARow(type, i, "orphan")
  <2> HIDE DEF ARow
  <2> QED
    BY <1>3
<1> QED
  BY <1>1, <1>4, <1>5

LEMMA CenterA ==
  ASSUME NEW docs, NEW ledger
  PROVE  \A r : r \in K!RowsOfA(docs, ledger) <=>
           \E type \in K!SourceTypes : r \in ARowsOf(docs, ledger, 0, K!Always, type)
<1>1. K!RowsOfA(docs, ledger) = UNION {ARowsOf(docs, ledger, 0, K!Always, type) : type \in K!SourceTypes}
  BY DEF K!RowsOfA, K!DomainA, ARowsOf
<1> QED
  BY <1>1

LEMMA CenterTypes ==
  /\ {"expense", "vendor_bill", "mechanic_work_order"} \subseteq K!SourceTypes
  /\ \A type \in K!SourceTypes : \A d :
       EDoc(d) /\ d.type = K!Collection(type) => type = d.type /\ K!Collection(type) = type
<1>1. \A d : EDoc(d) => d.type # "trip"
  BY DocFields
<1> QED
  BY <1>1 DEF K!SourceTypes, K!Collection

(* The bills and orders of F.                                              *)
LEMMA CenterPaired ==
  ASSUME NEW docs, IsFiniteSet(docs), \A x \in docs : EDoc(x), NEW d \in docs, d.type # "expense"
  PROVE  /\ K!Cardinality(K!PairedBy(docs, d)) \in Nat
         /\ K!Cardinality(K!PairedBy(docs, d)) = 0 <=> ~EPaired(<<d.type, d.id>>, docs)
<1> DEFINE paired == K!PairedBy(docs, d)
<1>1. paired \subseteq docs /\ \A e : e \in paired <=> e \in docs /\ EStands(e, <<d.type, d.id>>)
  <2>1. \A e \in docs : K!Dead(e) <=> e.is_deleted
    BY CenterMarks
  <2> QED
    BY <2>1 DEF K!PairedBy, K!Of, EStands
<1> HIDE DEF paired
<1>2. IsFiniteSet(paired)
  BY <1>1, FS_Subset
<1>3. Cardinality(paired) \in Nat /\ (Cardinality(paired) = 0 <=> paired = {})
  BY <1>2, FS_CardinalityType, FS_EmptySet
<1>4. K!Cardinality(paired) = Cardinality(paired)
  BY DEF K!Cardinality, Cardinality
<1>5. paired = {} <=> ~EPaired(<<d.type, d.id>>, docs)
  BY <1>1 DEF EPaired
<1> QED
  BY <1>3, <1>4, <1>5 DEF paired

LEMMA CenterF ==
  ASSUME NEW docs, IsFiniteSet(docs), \A x \in docs : EDoc(x), NEW ledger, ELedger(ledger)
  PROVE  \A d : d \in K!DomainF(docs, ledger, 0, K!Always) <=>
           /\ d \in docs /\ d.type # "expense" /\ ~d.is_deleted
           /\ \/ ~EPaired(<<d.type, d.id>>, docs) /\ d.id \notin K!Projected(ledger, d.type)
              \/ K!Cardinality(K!PairedBy(docs, d)) >= 2
              \/ EPaired(<<d.type, d.id>>, docs) /\ d.id \in K!Projected(ledger, d.type)
<1> DEFINE twins == K!Of(docs, "vendor_bill") \cup K!Of(docs, "mechanic_work_order")
<1>1. \A d : d \in twins <=> d \in docs /\ d.type # "expense"
  BY DocFields DEF K!Of
<1>2. K!Dated(twins, 0, K!Always) = twins
  <2>1. \A d \in twins : d.date = 1
    BY <1>1, DocFields
  <2> HIDE DEF twins
  <2> QED
    BY <2>1, AlwaysDated
<1>3. \A d \in twins : /\ K!Set(d, {"is_deleted"}) <=> d.is_deleted
                       /\ K!HasOrphanLegs(ledger, d) <=> d.id \in K!Projected(ledger, d.type)
  BY <1>1, CenterMarks, CenterLegs
<1>4. \A d \in twins : /\ K!Cardinality(K!PairedBy(docs, d)) \in Nat
                       /\ K!Cardinality(K!PairedBy(docs, d)) = 0 <=> ~EPaired(<<d.type, d.id>>, docs)
  BY <1>1, CenterPaired
<1>5. \A d : d \in K!DomainF(docs, ledger, 0, K!Always) <=>
        /\ d \in K!Dated(twins, 0, K!Always) /\ ~K!Set(d, {"is_deleted"})
        /\ \/ K!Cardinality(K!PairedBy(docs, d)) = 0 /\ ~K!HasOrphanLegs(ledger, d)
           \/ K!Cardinality(K!PairedBy(docs, d)) >= 2
           \/ K!Cardinality(K!PairedBy(docs, d)) >= 1 /\ K!HasOrphanLegs(ledger, d)
  BY DEF K!DomainF
<1> HIDE DEF twins
<1> SUFFICES ASSUME NEW d
             PROVE  d \in K!DomainF(docs, ledger, 0, K!Always) <=>
                      /\ d \in twins /\ ~d.is_deleted
                      /\ \/ ~EPaired(<<d.type, d.id>>, docs) /\ d.id \notin K!Projected(ledger, d.type)
                         \/ K!Cardinality(K!PairedBy(docs, d)) >= 2
                         \/ EPaired(<<d.type, d.id>>, docs) /\ d.id \in K!Projected(ledger, d.type)
  BY <1>1
<1>6. CASE d \in twins
  <2>1. K!Cardinality(K!PairedBy(docs, d)) >= 1 <=> EPaired(<<d.type, d.id>>, docs)
    BY <1>4, <1>6
  <2> QED
    BY <1>2, <1>3, <1>4, <1>5, <1>6, <2>1
<1>7. CASE d \notin twins
  BY <1>2, <1>5, <1>7
<1> QED
  BY <1>6, <1>7

LEMMA CenterSees ==
  ASSUME EInv
  PROVE  K!AlarmIsRaised(lDocs, lLedger)
<1>1. ELedger(lLedger) /\ IsFiniteSet(lDocs) /\ \A d \in lDocs : EDoc(d)
  BY DEF EInv, ETyped, ELedger
<1>2. \A d \in lDocs : K!Legs(d, lDocs) # {} <=> EShown(d, lDocs)
  <2>1. \A d \in lDocs : L!Legs(d, lDocs) = IF EShown(d, lDocs) THEN EPairOf(d) ELSE {}
    BY <1>1, LegsByLinks
  <2>2. \A d : EPairOf(d) # {}
    BY DEF EPairOf
  <2> QED
    BY <2>1, <2>2, LegsAreOne
<1> SUFFICES ASSUME NEW type \in K!SourceTypes, NEW d \in lDocs, d.type = K!Collection(type),
                    ~((d.id \in K!Projected(lLedger, type)) <=> EShown(d, lDocs))
             PROVE  \/ \E r \in K!RowsOfA(lDocs, lLedger) : r.type = type /\ r.id = d.id
                    \/ d \in K!DomainF(lDocs, lLedger, 0, K!Always)
  <2> SUFFICES ASSUME NEW type \in K!SourceTypes,
                      NEW d \in {x \in K!Of(lDocs, K!Collection(type)) : ~K!Past(x)},
                      (d.id \in K!Projected(lLedger, type)) # (K!Legs(d, lDocs) # {})
               PROVE  \/ \E r \in K!RowsOfA(lDocs, lLedger) : r.type = type /\ r.id = d.id
                      \/ d \in K!DomainF(lDocs, lLedger, 0, K!Always)
    BY DEF K!AlarmIsRaised
  <2>1. d \in lDocs /\ d.type = K!Collection(type)
    BY DEF K!Of
  <2>2. ~((d.id \in K!Projected(lLedger, type)) <=> EShown(d, lDocs))
    BY <1>2, <2>1
  <2> QED
    BY <2>1, <2>2
<1>3. EDoc(d) /\ type = d.type
  BY <1>1, CenterTypes
<1>4. \A r : r \in ARowsOf(lDocs, lLedger, 0, K!Always, type) => r \in K!RowsOfA(lDocs, lLedger)
  BY CenterA
<1>5. \A note : ARow(type, d.id, note).type = type /\ ARow(type, d.id, note).id = d.id
  BY DEF ARow
<1>6. CASE d.is_deleted
  <2>1. d.id \in K!Projected(lLedger, type)
    BY <1>6 DEF EShown
  <2>2. ARow(type, d.id, "ghost") \in ARowsOf(lDocs, lLedger, 0, K!Always, type)
    BY <1>1, <1>6, <2>1, CenterRows
  <2> QED
    BY <1>4, <1>5, <2>2
<1>7. CASE ~d.is_deleted /\ d.id \notin K!Projected(lLedger, type)
  <2>1. ARow(type, d.id, "missing") \in ARowsOf(lDocs, lLedger, 0, K!Always, type)
    BY <1>1, <1>7, CenterRows
  <2> QED
    BY <1>4, <1>5, <2>1
<1>8. CASE ~d.is_deleted /\ d.id \in K!Projected(lLedger, type)
  <2>1. d.type # "expense" /\ EPaired(<<d.type, d.id>>, lDocs)
    BY <1>8 DEF EShown
  <2> QED
    BY <1>1, <1>3, <1>8, <2>1, CenterF
<1> QED
  BY <1>6, <1>7, <1>8

(* A ledger that is the projection of the documents.                       *)
LEMMA CenterLedger ==
  ASSUME EInv, NEW ledger, ledger = K!Ledger(lDocs)
  PROVE  /\ ELedger(ledger)
         /\ \A l : l \in ledger <=> \E d \in lDocs : EShown(d, lDocs) /\ l \in EPairOf(d)
         /\ \A type, id : id \in K!Projected(ledger, type) <=>
              \E d \in lDocs : EShown(d, lDocs) /\ d.type = type /\ d.id = id
<1>1. ledger = L!Ledger(lDocs)
  BY LegsAreOne DEF K!Ledger, L!Ledger
<1>2. \A l : l \in ledger <=> \E d \in lDocs : EShown(d, lDocs) /\ l \in EPairOf(d)
  BY <1>1, LedgerShown
<1>3. ELedger(ledger)
  BY <1>2 DEF ELedger, EInv, ETyped
<1>4. ASSUME NEW type, NEW id
      PROVE  id \in K!Projected(ledger, type) <=>
               \E d \in lDocs : EShown(d, lDocs) /\ d.type = type /\ d.id = id
  <2>1. id \in K!Projected(ledger, type) <=> \E l \in ledger : l.key[1] = <<type, id>>
    BY <1>3, CenterKeys
  <2>2. ASSUME NEW l \in ledger, l.key[1] = <<type, id>>
        PROVE  \E d \in lDocs : EShown(d, lDocs) /\ d.type = type /\ d.id = id
    <3>1. PICK d \in lDocs : EShown(d, lDocs) /\ l \in EPairOf(d)
      BY <1>2
    <3>2. EOf(d) = <<type, id>>
      BY <2>2, <3>1, PairKeys
    <3> QED
      BY <3>1, <3>2 DEF EOf
  <2>3. ASSUME NEW d \in lDocs, EShown(d, lDocs), d.type = type, d.id = id
        PROVE  \E l \in ledger : l.key[1] = <<type, id>>
    <3>1. PICK l : l \in EPairOf(d)
      BY DEF EPairOf
    <3>2. l \in ledger /\ l.key[1] = EOf(d)
      BY <1>2, <2>3, <3>1, PairKeys
    <3> QED
      BY <2>3, <3>2 DEF EOf
  <2> QED
    BY <2>1, <2>2, <2>3
<1> QED
  BY <1>2, <1>3, <1>4

LEMMA CenterQuiet ==
  ASSUME EInv, NEW ledger, ledger = K!Ledger(lDocs)
  PROVE  /\ \A r \in K!RowsOfA(lDocs, ledger) :
              /\ r.note # "ghost" /\ r.note # "orphan"
              /\ \E d \in K!Of(lDocs, K!Collection(r.type)) : d.id = r.id /\ K!Legs(d, lDocs) = {}
         /\ \A d \in K!DomainF(lDocs, ledger, 0, K!Always) : K!Cardinality(K!PairedBy(lDocs, d)) >= 2
<1>1. ELedger(ledger) /\ IsFiniteSet(lDocs) /\ \A d \in lDocs : EDoc(d)
  BY CenterLedger DEF EInv, ETyped
<1>2. \A d, x \in lDocs : d.id = x.id => d = x
  BY DEF EInv, ETyped
<1>3. \A d \in lDocs : d.id \in K!Projected(ledger, d.type) <=> EShown(d, lDocs)
  BY <1>2, CenterLedger
<1>4. \A d \in lDocs : ~EShown(d, lDocs) => K!Legs(d, lDocs) = {}
  BY <1>1, LegsByLinks, LegsAreOne
<1>5. ASSUME NEW r \in K!RowsOfA(lDocs, ledger)
      PROVE  /\ r.note # "ghost" /\ r.note # "orphan"
             /\ \E d \in K!Of(lDocs, K!Collection(r.type)) : d.id = r.id /\ K!Legs(d, lDocs) = {}
  <2>1. PICK type \in K!SourceTypes : r \in ARowsOf(lDocs, ledger, 0, K!Always, type)
    BY CenterA
  <2>2. \/ \E d \in lDocs : /\ d.type = K!Collection(type) /\ ~d.is_deleted
                            /\ d.id \notin K!Projected(ledger, type)
                            /\ r = ARow(type, d.id, "missing")
        \/ \E d \in lDocs : /\ d.type = K!Collection(type) /\ d.is_deleted
                            /\ d.id \in K!Projected(ledger, type)
        \/ \E i \in K!Projected(ledger, type) :
              \A d \in lDocs : d.type = K!Collection(type) => d.id # i
    BY <1>1, <2>1, CenterRows
  <2>3. \A d \in lDocs : d.type = K!Collection(type) => type = d.type /\ K!Collection(type) = type
    BY <1>1, CenterTypes
  <2>4. ~ \E d \in lDocs : /\ d.type = K!Collection(type) /\ d.is_deleted
                           /\ d.id \in K!Projected(ledger, type)
    BY <1>3, <2>3 DEF EShown
  <2>5. ~ \E i \in K!Projected(ledger, type) :
            \A d \in lDocs : d.type = K!Collection(type) => d.id # i
    <3> SUFFICES ASSUME NEW i \in K!Projected(ledger, type)
                 PROVE  \E d \in lDocs : d.type = K!Collection(type) /\ d.id = i
      OBVIOUS
    <3>1. PICK d \in lDocs : EShown(d, lDocs) /\ d.type = type /\ d.id = i
      BY CenterLedger
    <3>2. d.type = K!Collection(type)
      <4>1. EDoc(d)
        BY <1>1
      <4>2. d.type \in {"expense", "vendor_bill", "mechanic_work_order"}
        BY <4>1, DocFields
      <4> QED
        BY <3>1, <4>2 DEF K!Collection
    <3> QED
      BY <3>1, <3>2
  <2>6. PICK d \in lDocs : /\ d.type = K!Collection(type) /\ d.id \notin K!Projected(ledger, type)
                           /\ r = ARow(type, d.id, "missing")
    BY <2>2, <2>4, <2>5
  <2>7. r.type = type /\ r.id = d.id /\ r.note = "missing"
    BY <2>6 DEF ARow
  <2>8. K!Legs(d, lDocs) = {}
    BY <1>3, <1>4, <2>3, <2>6
  <2> QED
    BY <2>6, <2>7, <2>8 DEF K!Of
<1>6. ASSUME NEW d \in K!DomainF(lDocs, ledger, 0, K!Always)
      PROVE  K!Cardinality(K!PairedBy(lDocs, d)) >= 2
  <2>1. /\ d \in lDocs /\ d.type # "expense" /\ ~d.is_deleted
        /\ \/ ~EPaired(<<d.type, d.id>>, lDocs) /\ d.id \notin K!Projected(ledger, d.type)
           \/ K!Cardinality(K!PairedBy(lDocs, d)) >= 2
           \/ EPaired(<<d.type, d.id>>, lDocs) /\ d.id \in K!Projected(ledger, d.type)
    BY <1>1, <1>6, CenterF
  <2>2. d.id \in K!Projected(ledger, d.type) <=> ~EPaired(<<d.type, d.id>>, lDocs)
    BY <1>3, <2>1 DEF EShown
  <2> QED
    BY <2>1, <2>2
<1> QED
  BY <1>5, <1>6

-----------------------------------------------------------------------------
(* The totals of the Center.                                               *)

(* The sum over a set is the sum over its image, when no two elements have *)
(* the same image.                                                         *)
LEMMA SumImage ==
  ASSUME NEW dom, NEW fun \in [dom -> Int], NEW ext, NEW gun \in [ext -> Int],
         NEW img \in [dom -> ext], IsFiniteSet(dom),
         \A x \in dom : gun[img[x]] = fun[x],
         \A x, y \in dom : img[x] = img[y] => x = y
  PROVE  SumFunctionOnSet(fun, dom) = SumFunctionOnSet(gun, {img[x] : x \in dom})
<1> DEFINE Im(s) == {img[x] : x \in s}
           F(s) == SumFunctionOnSet(fun, s)
           H(s) == SumFunctionOnSet(gun, Im(s))
           Bad == {n \in Nat : \E s \in SUBSET dom : Cardinality(s) = n /\ F(s) # H(s)}
<1>1. ASSUME NEW n \in Bad, \A m \in Bad : n <= m
      PROVE  FALSE
  <2>1. PICK s \in SUBSET dom : Cardinality(s) = n /\ F(s) # H(s)
    BY <1>1
  <2>2. IsFiniteSet(s)
    BY FS_Subset
  <2>3. s # {}
    <3>1. F({}) = 0
      BY SumNone
    <3>2. H({}) = 0
      <4>1. Im({}) = {}
        OBVIOUS
      <4> QED
        BY <4>1, SumNone
    <3> QED
      BY <2>1, <3>1, <3>2
  <2> DEFINE p == Pick(s)
  <2>4. /\ p \in dom /\ p \in s /\ s \ {p} \in SUBSET dom
        /\ n - 1 \in Nat /\ Cardinality(s \ {p}) = n - 1
    BY <2>1, <2>3, PickOne
  <2>5. F(s) = fun[p] + F(s \ {p})
    BY <2>2, <2>3, SumRest
  <2> HIDE DEF p
  <2>6. H(s) = gun[img[p]] + H(s \ {p})
    <3>1. Im(s) \in SUBSET ext /\ img[p] \in Im(s)
      BY <2>4
    <3>2. IsFiniteSet(Im(s))
      <4>1. PICK g : g = [x \in s |-> img[x]]
        OBVIOUS
      <4>2. PICK set : set = Im(s)
        OBVIOUS
      <4>3. g \in Surjection(s, set)
        BY <4>1, <4>2 DEF Surjection
      <4> QED
        BY <2>2, <4>2, <4>3, FS_Surjection
    <3>3. Im(s \ {p}) = Im(s) \ {img[p]}
      BY <2>4
    <3>4. PICK set : set = Im(s)
      OBVIOUS
    <3>5. SumFunctionOnSet(gun, set) = gun[img[p]] + SumFunctionOnSet(gun, set \ {img[p]})
      BY <3>1, <3>2, <3>4, SumRemove
    <3> QED
      BY <3>3, <3>4, <3>5
  <2>7. n - 1 \notin Bad
    <3>1. n \in Nat
      BY <1>1
    <3> HIDE DEF Bad
    <3> QED
      BY <1>1, <2>4, <3>1
  <2>8. F(s \ {p}) = H(s \ {p})
    <3> HIDE DEF F, H
    <3> QED
      BY <2>4, <2>7
  <2> HIDE DEF F, H
  <2>9. F(s) = H(s)
    BY <2>4, <2>5, <2>6, <2>8
  <2> QED
    BY <2>1, <2>9
<1>2. Bad = {}
  <2> SUFFICES ASSUME Bad # {}
               PROVE  FALSE
    OBVIOUS
  <2>1. Bad \subseteq Nat
    OBVIOUS
  <2> HIDE DEF Bad
  <2>2. \E n \in Bad : \A y \in Bad : n <= y
    BY <2>1, LeastNat
  <2> QED
    BY <1>1, <2>2
<1>3. Cardinality(dom) \in Nat
  BY FS_CardinalityType
<1> HIDE DEF F, H
<1>4. F(dom) = H(dom)
  BY <1>2, <1>3
<1> QED
  BY <1>4 DEF F, H, Im

(* The sums of the Center are these sums.                                  *)
LEMMA CenterSum ==
  \A fun : K!SumFunction(fun) = SumFunctionOnSet(fun, DOMAIN fun)
BY DEF K!SumFunction, K!SumFunctionOnSet, K!FoldFunctionOnSet, K!MapThenFoldSet,
  SumFunctionOnSet, FoldFunctionOnSet, MapThenFoldSet

LEMMA CenterNothing ==
  ASSUME NEW fun \in [{} -> Int]
  PROVE  K!SumFunction(fun) = 0
<1>1. DOMAIN fun = {}
  OBVIOUS
<1>2. SumFunctionOnSet(fun, {}) = 0
  BY SumNone
<1> QED
  BY <1>1, <1>2, CenterSum

(* There is a sum only of the expenses.                                    *)
LEMMA CenterNone ==
  ASSUME EInv, NEW ledger, ledger = K!Ledger(lDocs), NEW type,
         type \notin {"expense", "vendor_bill", "mechanic_work_order"}
  PROVE  /\ K!Of(lDocs, type) = {}
         /\ \A l \in ledger : l.account \notin {"AR", "WALLET_FUEL", "WALLET_FASTAG"}
         /\ K!Dated(ledger, 0, K!Always) = ledger
         /\ K!Dated(K!Of(lDocs, "expense"), 0, K!Always) = K!Of(lDocs, "expense")
<1>1. \A d \in lDocs : EDoc(d) /\ d.date = 1
  BY DocFields DEF EInv, ETyped
<1>2. ELedger(ledger)
  BY CenterLedger
<1>3. \A l \in ledger : l.date = 1
  BY <1>2, CenterLegs
<1>4. \A d : EDebit(d) \notin {"AR", "WALLET_FUEL", "WALLET_FASTAG"}
  BY DEF EDebit
<1>5. \A d : ECredit(d) \notin {"AR", "WALLET_FUEL", "WALLET_FASTAG"}
  BY DEF ECredit
<1>6. \A l \in ledger : l.account \notin {"AR", "WALLET_FUEL", "WALLET_FASTAG"}
  <2> SUFFICES ASSUME NEW l \in ledger
               PROVE  l.account \notin {"AR", "WALLET_FUEL", "WALLET_FASTAG"}
    OBVIOUS
  <2>1. PICK d : l \in EPairOf(d)
    BY <1>2 DEF ELedger
  <2>2. l.account = EDebit(d) \/ l.account = ECredit(d)
    BY <2>1, PairKeys
  <2> QED
    BY <1>4, <1>5, <2>2
<1>7. K!Of(lDocs, type) = {}
  BY <1>1, DocFields DEF K!Of
<1>8. \A d \in K!Of(lDocs, "expense") : d.date = 1
  BY <1>1 DEF K!Of
<1> QED
  BY <1>3, <1>6, <1>7, <1>8, AlwaysDated

LEMMA CenterB ==
  ASSUME EInv, NEW ledger, ledger = K!Ledger(lDocs)
  PROVE  K!DomainB(lDocs, ledger, 0, K!Always).status = "emerald"
<1> DEFINE spent == {e \in K!Dated(K!Of(lDocs, "expense"), 0, K!Always) : ~K!Dead(e) /\ ~K!Past(e)}
           debits == {l \in K!Dated(ledger, 0, K!Always) :
                        l.account = "EXPENSE_DEFAULT" /\ l.dir = "in"}
           fun == [e \in spent |-> K!Positive(e.amount)]
           gun == [l \in debits |-> l.amount]
           img == [e \in spent |-> ELegOf(e, "in", "EXPENSE_DEFAULT")]
<1>1. K!DomainB(lDocs, ledger, 0, K!Always) = K!Compared(K!SumFunction(fun), K!SumFunction(gun))
  BY DEF K!DomainB, K!SumOf
<1>2. /\ IsFiniteSet(lDocs)
      /\ \A d \in lDocs : EDoc(d)
      /\ \A d, x \in lDocs : d.id = x.id => d = x
  BY DEF EInv, ETyped
<1>3. \A e : e \in spent <=> e \in lDocs /\ e.type = "expense" /\ ~e.is_deleted
  <2>1. K!Dated(K!Of(lDocs, "expense"), 0, K!Always) = K!Of(lDocs, "expense")
    BY CenterNone
  <2>2. \A d \in lDocs : ~K!Past(d) /\ (K!Dead(d) <=> d.is_deleted)
    BY <1>2, CenterMarks
  <2> QED
    BY <2>1, <2>2 DEF K!Of
<1>4. \A l : l \in debits <=> \E e \in spent : l = ELegOf(e, "in", "EXPENSE_DEFAULT")
  <2>1. \A l : l \in debits <=> l \in ledger /\ l.account = "EXPENSE_DEFAULT" /\ l.dir = "in"
    <3>1. K!Dated(ledger, 0, K!Always) = ledger
      BY CenterNone
    <3> QED
      BY <3>1
  <2> HIDE DEF spent, debits
  <2>2. \A l : l \in ledger <=> \E d \in lDocs : EShown(d, lDocs) /\ l \in EPairOf(d)
    BY CenterLedger
  <2>3. ASSUME NEW l \in debits
        PROVE  \E e \in spent : l = ELegOf(e, "in", "EXPENSE_DEFAULT")
    <3>1. PICK d \in lDocs : EShown(d, lDocs) /\ l \in EPairOf(d)
      BY <2>1, <2>2
    <3>2. \/ l = ELegOf(d, "in", EDebit(d))
          \/ l = ELegOf(d, "out", ECredit(d))
      BY <3>1 DEF EPairOf
    <3>3. l.account = "EXPENSE_DEFAULT" /\ l.dir = "in"
      BY <2>1
    <3>4. l = ELegOf(d, "in", EDebit(d)) /\ EDebit(d) = "EXPENSE_DEFAULT"
      BY <3>2, <3>3 DEF ELegOf
    <3>5. d.type = "expense" /\ ~d.is_deleted
      BY <3>1, <3>4 DEF EDebit, EShown
    <3> QED
      BY <1>3, <3>4, <3>5
  <2>4. ASSUME NEW e \in spent, NEW l, l = ELegOf(e, "in", "EXPENSE_DEFAULT")
        PROVE  l \in debits
    <3>1. e \in lDocs /\ e.type = "expense" /\ ~e.is_deleted
      BY <1>3
    <3>2. EShown(e, lDocs) /\ EDebit(e) = "EXPENSE_DEFAULT"
      BY <3>1 DEF EShown, EDebit
    <3>3. l \in EPairOf(e)
      BY <2>4, <3>2 DEF EPairOf
    <3>4. l.account = "EXPENSE_DEFAULT" /\ l.dir = "in"
      BY <2>4 DEF ELegOf
    <3> QED
      BY <2>1, <2>2, <3>1, <3>2, <3>3, <3>4
  <2> QED
    BY <2>3, <2>4
<1>5. IsFiniteSet(spent)
  <2>1. spent \subseteq lDocs
    BY <1>3
  <2> HIDE DEF spent
  <2> QED
    BY <1>2, <2>1, FS_Subset
<1> HIDE DEF spent, debits
<1>6. /\ \A e \in spent : e.amount \in Int /\ K!Positive(e.amount) = e.amount
      /\ \A e \in spent : ELegOf(e, "in", "EXPENSE_DEFAULT").amount = e.amount
      /\ \A e \in spent : ELegOf(e, "in", "EXPENSE_DEFAULT").key[1] = EOf(e)
  <2>1. \A e \in spent : e.amount \in Nat /\ e.amount > 0
    BY <1>2, <1>3, DocFields
  <2>2. \A e \in spent : e.amount \in Int /\ K!Positive(e.amount) = e.amount
    BY <2>1 DEF K!Positive
  <2> QED
    BY <2>2 DEF ELegOf, EOf
<1>7. fun \in [spent -> Int] /\ gun \in [debits -> Int] /\ img \in [spent -> debits]
  BY <1>4, <1>6
<1>8. /\ \A e \in spent : gun[img[e]] = fun[e]
      /\ \A e, x \in spent : img[e] = img[x] => e = x
  <2>1. \A e \in spent : img[e] = ELegOf(e, "in", "EXPENSE_DEFAULT") /\ img[e] \in debits
    BY <1>4
  <2>2. \A e \in spent : gun[img[e]] = fun[e]
    BY <1>6, <2>1
  <2>3. ASSUME NEW e \in spent, NEW x \in spent, img[e] = img[x]
        PROVE  e = x
    <3>1. EOf(e) = EOf(x)
      BY <1>6, <2>1, <2>3
    <3> QED
      BY <1>2, <1>3, <3>1 DEF EOf
  <2> QED
    BY <2>2, <2>3
<1>9. {img[e] : e \in spent} = debits
  BY <1>4
<1> HIDE DEF fun, gun, img
<1>10. SumFunctionOnSet(fun, spent) = SumFunctionOnSet(gun, debits)
  BY <1>5, <1>7, <1>8, <1>9, SumImage
<1>11. SumFunctionOnSet(fun, spent) \in Int
  BY <1>5, <1>7, SumRest
<1>12. K!SumFunction(fun) = K!SumFunction(gun) /\ K!SumFunction(fun) \in Int
  <2>1. DOMAIN fun = spent /\ DOMAIN gun = debits
    BY <1>7
  <2> QED
    BY <1>10, <1>11, <2>1, CenterSum
<1> QED
  BY <1>1, <1>12 DEF K!Compared, K!Status

LEMMA CenterC ==
  ASSUME EInv, NEW ledger, ledger = K!Ledger(lDocs)
  PROVE  /\ K!DomainC(lDocs, ledger, 0, K!Always).delta = 0
         /\ K!SumOf({n \in K!Issued(lDocs) : ~K!Past(n)}, K!Signed) = 0
<1> DEFINE invoices == {i \in K!Dated(K!Of(lDocs, "invoice"), 0, K!Always) : ~K!Past(i)}
           legs == {l \in K!Dated(ledger, 0, K!Always) : l.account = "AR"}
           notes == {n \in K!Issued(lDocs) : ~K!Past(n)}
           due == K!SumFunction([i \in invoices |-> K!BalanceDue(i)])
           net == K!SumFunction([l \in legs |-> IF l.dir = "in" THEN l.amount ELSE -l.amount])
           found == K!Compared(due, net)
<1>1. invoices = {} /\ legs = {} /\ notes = {}
  <2>1. K!Of(lDocs, "invoice") = {} /\ K!Of(lDocs, "credit_debit_note") = {}
    BY CenterNone
  <2>2. K!Dated(ledger, 0, K!Always) = ledger /\ \A l \in ledger : l.account # "AR"
    BY CenterNone
  <2> QED
    BY <2>1, <2>2 DEF K!Dated, K!Issued
<1>2. K!SumOf(notes, K!Signed) = 0
  <2> HIDE DEF notes
  <2>1. [n \in notes |-> K!Signed(n)] \in [{} -> Int]
    BY <1>1
  <2> QED
    BY <2>1, CenterNothing DEF K!SumOf
<1>3. due = 0 /\ net = 0
  <2> HIDE DEF invoices, legs
  <2>1. [i \in invoices |-> K!BalanceDue(i)] \in [{} -> Int]
    BY <1>1
  <2>2. [l \in legs |-> IF l.dir = "in" THEN l.amount ELSE -l.amount] \in [{} -> Int]
    BY <1>1
  <2> QED
    BY <2>1, <2>2, CenterNothing
<1>4. K!DomainC(lDocs, ledger, 0, K!Always)
        = IF found.delta # 0
             /\ ((IF found.delta < 0 THEN -found.delta ELSE found.delta) <= 1
                 \/ 100 * (IF found.delta < 0 THEN -found.delta ELSE found.delta) <= 5 * due)
          THEN [found EXCEPT !.status = "amber"] ELSE found
  BY DEF K!DomainC, K!SumOf, K!Net
<1> HIDE DEF due, net
<1>5. found.delta = 0
  BY <1>3 DEF K!Compared
<1> HIDE DEF found
<1>6. K!DomainC(lDocs, ledger, 0, K!Always) = found
  BY <1>4, <1>5
<1> QED
  BY <1>2, <1>5, <1>6

LEMMA CenterD ==
  ASSUME EInv, NEW ledger, ledger = K!Ledger(lDocs), NEW kind \in {"credit", "debit"}
  PROVE  K!DomainD(lDocs, ledger, 0, K!Always)[kind].status = "emerald"
<1> DEFINE notes == {n \in K!Dated(K!Issued(lDocs), 0, K!Always) : n.kind = kind /\ ~K!Past(n)}
           legs == {l \in K!Dated(ledger, 0, K!Always) :
                      /\ l.key[1][1] = "credit_debit_note" /\ l.account = "AR"
                      /\ l.dir = IF kind = "credit" THEN "out" ELSE "in"}
<1>1. notes = {} /\ legs = {}
  <2>1. K!Of(lDocs, "credit_debit_note") = {}
    BY CenterNone
  <2>2. K!Dated(ledger, 0, K!Always) = ledger /\ \A l \in ledger : l.account # "AR"
    BY CenterNone
  <2> QED
    BY <2>1, <2>2 DEF K!Dated, K!Issued
<1>2. K!DomainD(lDocs, ledger, 0, K!Always)[kind]
        = K!Compared(K!SumFunction([n \in notes |-> n.amount]),
                     K!SumFunction([l \in legs |-> l.amount]))
  BY DEF K!DomainD, K!SumOf
<1> HIDE DEF notes, legs
<1>3. [n \in notes |-> n.amount] \in [{} -> Int] /\ [l \in legs |-> l.amount] \in [{} -> Int]
  BY <1>1
<1>4. K!SumFunction([n \in notes |-> n.amount]) = 0 /\ K!SumFunction([l \in legs |-> l.amount]) = 0
  BY <1>3, CenterNothing
<1> QED
  BY <1>2, <1>4 DEF K!Compared, K!Status

LEMMA CenterE ==
  ASSUME EInv, NEW ledger, ledger = K!Ledger(lDocs), NEW w \in K!Wallets
  PROVE  /\ K!DomainE(lDocs, ledger, 0, K!Always)[w].delta = 0
         /\ K!SumOf({x \in K!Consumed(lDocs, w) : K!CreditAccount(x) # w}, LAMBDA x : x.amount) = 0
<1> DEFINE moves == K!Dated({m \in lDocs : ~K!Set(m, {"is_deleted"})
                               /\ m.type \in {"wallet_recharge", "wallet_adjustment",
                                              "wallet_transfer"}}, 0, K!Always)
           used == K!Dated(K!Consumed(lDocs, w), 0, K!Always)
           other == {x \in K!Consumed(lDocs, w) : K!CreditAccount(x) # w}
           legs == {l \in K!Dated(ledger, 0, K!Always) : l.account = w}
<1>1. moves = {} /\ used = {} /\ other = {} /\ legs = {}
  <2>1. \A d \in lDocs : d.type \notin {"wallet_recharge", "wallet_adjustment", "wallet_transfer"}
    <3>1. \A d \in lDocs : EDoc(d)
      BY DEF EInv, ETyped
    <3> QED
      BY <3>1, DocFields
  <2>2. moves = {}
    BY <2>1 DEF K!Dated
  <2>3. K!Consumed(lDocs, w) = {}
    <3>1. \A d \in lDocs : d.type = "expense" => d.source_type = "manual"
      BY DocFields DEF EInv, ETyped, EExpense
    <3>2. K!ImportOf(w) # "manual"
      BY DEF K!ImportOf
    <3> QED
      BY <3>1, <3>2 DEF K!Consumed, K!Of
  <2>4. K!Dated(ledger, 0, K!Always) = ledger /\ \A l \in ledger : l.account # w
    BY CenterNone DEF K!Wallets
  <2> QED
    BY <2>2, <2>3, <2>4 DEF K!Dated
<1>2. K!DomainE(lDocs, ledger, 0, K!Always)[w]
        = K!Compared(K!SumFunction([m \in moves |-> K!Moves(m, w)])
                       - K!SumFunction([e \in used |-> e.amount]),
                     K!SumFunction([l \in legs |-> IF l.dir = "in" THEN l.amount ELSE -l.amount]))
  BY DEF K!DomainE, K!SumOf, K!Net
<1>3. K!SumOf({x \in K!Consumed(lDocs, w) : K!CreditAccount(x) # w}, LAMBDA x : x.amount)
        = K!SumFunction([x \in other |-> x.amount])
  BY DEF K!SumOf
<1> HIDE DEF moves, used, other, legs
<1>4. /\ [m \in moves |-> K!Moves(m, w)] \in [{} -> Int]
      /\ [e \in used |-> e.amount] \in [{} -> Int]
      /\ [x \in other |-> x.amount] \in [{} -> Int]
      /\ [l \in legs |-> IF l.dir = "in" THEN l.amount ELSE -l.amount] \in [{} -> Int]
  BY <1>1
<1>5. /\ K!SumFunction([m \in moves |-> K!Moves(m, w)]) = 0
      /\ K!SumFunction([e \in used |-> e.amount]) = 0
      /\ K!SumFunction([x \in other |-> x.amount]) = 0
      /\ K!SumFunction([l \in legs |-> IF l.dir = "in" THEN l.amount ELSE -l.amount]) = 0
  BY <1>4, CenterNothing
<1> QED
  BY <1>2, <1>3, <1>5 DEF K!Compared

LEMMA CenterSilent ==
  ASSUME EInv, lLedger = K!Ledger(lDocs)
  PROVE  K!NoFalseAlarm(lDocs)
<1>1. PICK ledger : ledger = K!Ledger(lDocs)
  OBVIOUS
<1>2. /\ \A r \in K!RowsOfA(lDocs, ledger) :
           /\ r.note # "ghost" /\ r.note # "orphan"
           /\ \E d \in K!Of(lDocs, K!Collection(r.type)) : d.id = r.id /\ K!Legs(d, lDocs) = {}
      /\ \A d \in K!DomainF(lDocs, ledger, 0, K!Always) : K!Cardinality(K!PairedBy(lDocs, d)) >= 2
  BY <1>1, CenterQuiet
<1>3. K!DomainB(lDocs, ledger, 0, K!Always).status = "emerald"
  BY <1>1, CenterB
<1>4. K!DomainC(lDocs, ledger, 0, K!Always).delta
        = K!SumOf({n \in K!Issued(lDocs) : ~K!Past(n)}, K!Signed)
  BY <1>1, CenterC
<1>5. \A kind \in {"credit", "debit"} :
        K!DomainD(lDocs, ledger, 0, K!Always)[kind].status = "emerald"
  BY <1>1, CenterD
<1>6. \A w \in K!Wallets :
        K!DomainE(lDocs, ledger, 0, K!Always)[w].delta
          = K!SumOf({x \in K!Consumed(lDocs, w) : K!CreditAccount(x) # w}, LAMBDA x : x.amount)
  <2> TAKE w \in K!Wallets
  <2>1. /\ K!DomainE(lDocs, ledger, 0, K!Always)[w].delta = 0
        /\ K!SumOf({x \in K!Consumed(lDocs, w) : K!CreditAccount(x) # w}, LAMBDA x : x.amount) = 0
    BY <1>1, CenterE
  <2> QED
    BY <2>1
<1> QED
  BY <1>1, <1>2, <1>3, <1>4, <1>5, <1>6 DEF K!NoFalseAlarm

-----------------------------------------------------------------------------
(* The desks.                                                              *)

DeskInv ==
  /\ desk \in {"driver", "party", "wallet", "links", "imports"} \cup Kinds
  /\ desk = "driver" => DInv
  /\ desk = "party" => PInv
  /\ desk = "wallet" => WInv
  /\ desk = "links" => EInv
  /\ desk = "imports" => ImportInv
  /\ \A kind \in Kinds : desk = kind => MasterInv(kind)

(* The invariant of whichever desk is open holds in every reachable state. *)
THEOREM DesksHold == Spec => []DeskInv
<1>1. Init => DeskInv
  <2>1. CASE desk = "driver" /\ D!Init
    BY <2>1, DriverBegins DEF DeskInv, Kinds
  <2>2. CASE desk = "party" /\ P!Init
    BY <2>2, PartyBegins DEF DeskInv, Kinds
  <2>3. CASE desk = "wallet" /\ W!Init
    BY <2>3, WalletBegins DEF DeskInv, Kinds
  <2>4. CASE desk = "links" /\ L!Init
    BY <2>4, LinksBegin DEF DeskInv, Kinds
  <2>5. CASE desk = "imports" /\ I!Init
    BY <2>5, ImportBegins DEF DeskInv, Kinds
  <2>6. CASE \E kind \in Kinds : desk = kind /\ M(kind)!Init
    <3>1. PICK kind \in Kinds : desk = kind /\ M(kind)!Init
      BY <2>6
    <3>2. MasterInv(kind)
      BY <3>1, MasterBegins
    <3>3. desk \notin {"driver", "party", "wallet", "links", "imports"}
      BY <3>1 DEF Kinds
    <3> QED
      BY <3>1, <3>2, <3>3 DEF DeskInv
  <2> QED
    BY <2>1, <2>2, <2>3, <2>4, <2>5, <2>6 DEF Init
<1>2. DeskInv /\ [Next]_vars => DeskInv'
  <2> SUFFICES ASSUME DeskInv, [Next]_vars
               PROVE  DeskInv'
    OBVIOUS
  <2>1. desk' = desk
    BY DEF Next, DriverDesk, PartyDesk, WalletDesk, LinksDesk, ImportsDesk, MastersDesk, vars
  <2>2. (desk = "driver" => DInv)'
    BY DriverStep DEF DeskInv
  <2>3. (desk = "party" => PInv)'
    BY PartyStep DEF DeskInv
  <2>4. (desk = "wallet" => WInv)'
    BY WalletStep DEF DeskInv
  <2>5. (desk = "imports" => ImportInv)'
    BY <2>1, ImportStep DEF DeskInv
  <2>7. (desk = "links" => EInv)'
    <3> SUFFICES ASSUME desk = "links"
                 PROVE  EInv'
      BY <2>1
    <3>1. EInv
      BY DEF DeskInv
    <3>2. L!Next \/ UNCHANGED lVars
      BY DEF Next, DriverDesk, PartyDesk, WalletDesk, LinksDesk, ImportsDesk, MastersDesk, vars,
        Kinds
    <3> QED
      BY <3>1, <3>2, LinksKept
  <2>6. ASSUME NEW kind \in Kinds, desk = kind
        PROVE  MasterInv(kind)'
    <3>1. MasterInv(kind)
      BY <2>6 DEF DeskInv
    <3>2. desk \notin {"driver", "party", "wallet", "links", "imports"}
      BY <2>6 DEF Kinds
    <3>3. M(kind)!Next \/ UNCHANGED mVars
      BY <2>6, <3>2 DEF Next, DriverDesk, PartyDesk, WalletDesk, LinksDesk, ImportsDesk,
        MastersDesk, vars
    <3> QED
      BY <3>1, <3>3, MasterStep
  <2> QED
    BY <2>1, <2>2, <2>3, <2>4, <2>5, <2>6, <2>7 DEF DeskInv, Kinds
<1> QED
  BY <1>1, <1>2, PTL DEF Spec

(* The values that each desk holds have their types.                       *)
THEOREM DesksTyped == Spec => []TypeOK
<1>1. DeskInv => TypeOK
  BY DEF DeskInv, TypeOK, DInv, DTyped, PInv, PTyped, WInv, WTyped
<1> QED
  BY <1>1, DesksHold, PTL

(* correct_driver_payment_amount: as long as requests come one after the   *)
(* other and no undoing call fails, a payment is reversed, replaced and    *)
(* audited altogether or not at all, at whichever step the handler failed, *)
(* its audit rows are numbered without a gap, and the ledger shows what is *)
(* live or a repair is owed.                                               *)
THEOREM DriverAllOrNothing == Spec => []AllOrNothing
<1>1. DeskInv => AllOrNothing
  BY DriverMeans DEF DeskInv, AllOrNothing
<1> QED
  BY <1>1, DesksHold, PTL

(* Corrections of driver payments that overlap, but run to their end, lose *)
(* no payment: what is reversed has a replacement and its audit row.       *)
THEOREM DriverNeverLost == Spec => []NeverLost
<1>1. DeskInv => NeverLost
  BY DriverMeans DEF DeskInv, NeverLost
<1> QED
  BY <1>1, DesksHold, PTL

(* The corrections of a supplier's payment are numbered without a gap up   *)
(* to its count, and it has a replacement just when it is reversed.        *)
THEOREM PartyTrailMatches == Spec => []TrailMatches
<1>1. DeskInv => TrailMatches
  BY PartyMeans DEF DeskInv, TrailMatches
<1> QED
  BY <1>1, DesksHold, PTL

(* However requests on party payments overlap, once they have all ended,   *)
(* and none has died, the ledger shows each live payment and no other.     *)
THEOREM PartyLedgerFollows == Spec => []LedgerFollows
<1>1. DeskInv => LedgerFollows
  BY PartyMeans DEF DeskInv, LedgerFollows
<1> QED
  BY <1>1, DesksHold, PTL

(* As long as requests on wallet adjustments do not overlap, nothing is    *)
(* reversed twice, what is reversed is left as it was, and its reversal    *)
(* has the opposite effect, wherever a request may have died.              *)
THEOREM WalletNetsZero == Spec => []NetsZero
<1>1. DeskInv => NetsZero
  BY DEF DeskInv, NetsZero, WInv
<1> QED
  BY <1>1, DesksHold, PTL

(* However requests on expenses, bills and orders overlap, once they have  *)
(* all ended, none has died and none wrote over an expense that it had not *)
(* read, the ledger has the legs of the documents as they are; as long as  *)
(* requests come one after the other a live expense stands for live twins. *)
(* The Reconciliation Center names a document that lacks its legs, or has  *)
(* legs too many, whatever state it looks at, and does not complain of a   *)
(* ledger that is the projection of the documents.                         *)
THEOREM ExpensesStayTrue == Spec => []ExpensesAgree
<1>1. DeskInv => ExpensesAgree
  <2> SUFFICES ASSUME EInv
               PROVE  /\ L!ExpensesAgree
                      /\ K!AlarmIsRaised(lDocs, lLedger)
                      /\ lLedger = K!Ledger(lDocs) => K!NoFalseAlarm(lDocs)
    BY DEF DeskInv, ExpensesAgree
  <2> QED
    BY LinksAgree, CenterSees, CenterSilent
<1> QED
  BY <1>1, DesksHold, PTL

(* A statement that is sent again, by others, or after a crash, becomes at *)
(* most one expense for each of its rows, what its sender is told is true, *)
(* and a card or a registration stands for one vehicle; no customer,       *)
(* supplier or vehicle is entered twice past a check that saw the other,   *)
(* whether or not the migration has run, and the log of a vehicle says     *)
(* whether it is in service.                                               *)
THEOREM ImportsStayTrue == Spec => []ImportsAgree
<1>1. DeskInv => ImportsAgree
  BY DEF DeskInv, ImportsAgree, ImportInv, MasterInv, M!MastersAgree
<1> QED
  BY <1>1, DesksHold, PTL

(* A reversal of a wallet adjustment is never edited, deleted or reversed  *)
(* itself, and a supplier's payment that was reversed stays so.            *)
THEOREM ReversalsAreFinal == Spec => ReversalIsFinal
<1>1. DeskInv /\ [Next]_vars =>
        [/\ desk = "wallet" => W!Final
         /\ desk = "party" => P!Frozen({"supplier"})]_vars
  BY WalletStep, PartyStep DEF DeskInv
<1> QED
  BY <1>1, DesksHold, PTL DEF Spec, ReversalIsFinal
=============================================================================
