----------------------- MODULE FinProjection_proofs -----------------------
(***************************************************************************)
(* Proofs about FinProjection, for every set of processes, contents, legs  *)
(* and keys and for every retry budget.                                    *)
(***************************************************************************)
EXTENDS FinProjection, TLAPS

-----------------------------------------------------------------------------
(* Lemmas about the ledger operators.                                      *)

(* A projection is made of legs, each under a key.                         *)
LEMMA LegsTyped ==
  ASSUME NEW d \in Doc, NEW i \in 1 .. Len(Project[d])
  PROVE  Project[d][i] \in Leg /\ KeyOf[Project[d][i]] \in Key
BY ProjectionAssumption

LEMMA LenTyped ==
  ASSUME NEW d \in Doc
  PROVE  Len(Project[d]) \in Nat
BY ProjectionAssumption

(* What a partly written projection holds is a ledger.                     *)
LEMMA PrefixTyped ==
  ASSUME NEW d \in Doc, NEW n \in 0 .. Len(Project[d])
  PROVE  Prefix(d, n) \in Ledger
<1>1. SUFFICES ASSUME NEW k \in Key,
                      NEW i \in 1 .. n, KeyOf[Project[d][i]] = k
               PROVE  Project[d][CHOOSE j \in 1 .. n : KeyOf[Project[d][j]] = k] \in Leg
  BY DEF Prefix, Ledger
<1>2. (CHOOSE j \in 1 .. n : KeyOf[Project[d][j]] = k) \in 1 .. n
  BY <1>1
<1>3. 1 .. n \subseteq 1 .. Len(Project[d])
  BY LenTyped
<1> QED BY <1>2, <1>3, LegsTyped

LEMMA ViewTyped == View \in [Doc -> Ledger]
BY PrefixTyped, LenTyped DEF View

(* Nothing written is an empty ledger.                                     *)
LEMMA PrefixZero ==
  ASSUME NEW d \in Doc
  PROVE  Prefix(d, 0) = [k \in Key |-> NoLeg]
BY DEF Prefix

(* What a partly written projection shows under the key of a leg.          *)
LEMMA PrefixHit ==
  ASSUME NEW d \in Doc, NEW n \in 0 .. Len(Project[d]), NEW i \in 1 .. n
  PROVE  Prefix(d, n)[KeyOf[Project[d][i]]] = Project[d][i]
<1> DEFINE k == KeyOf[Project[d][i]]
<1> DEFINE c == CHOOSE j \in 1 .. n : KeyOf[Project[d][j]] = k
<1>1. 1 .. n \subseteq 1 .. Len(Project[d])
  BY LenTyped
<1>2. c \in 1 .. n /\ KeyOf[Project[d][c]] = k
  OBVIOUS
<1>3. c = i
  BY <1>1, <1>2, KeysUnique
<1>4. k \in Key
  BY <1>1, LegsTyped
<1> QED BY <1>2, <1>3, <1>4 DEF Prefix

(* Under any other key it shows nothing.                                   *)
LEMMA PrefixMiss ==
  ASSUME NEW d \in Doc, NEW n, NEW k \in Key,
         \A i \in 1 .. n : KeyOf[Project[d][i]] # k
  PROVE  Prefix(d, n)[k] = NoLeg
BY DEF Prefix

(* Upserting the next leg turns one prefix into the next.                  *)
LEMMA PrefixStep ==
  ASSUME NEW d \in Doc, NEW n \in Nat, n < Len(Project[d]),
         NEW f \in Ledger, f = Prefix(d, n)
  PROVE  LET leg == Project[d][n + 1]
         IN  [f EXCEPT ![KeyOf[leg]] = leg] = Prefix(d, n + 1)
<1> DEFINE leg == Project[d][n + 1]
<1> DEFINE g == [f EXCEPT ![KeyOf[leg]] = leg]
<1>1. n + 1 \in 1 .. Len(Project[d]) /\ n \in 0 .. Len(Project[d])
      /\ n + 1 \in 0 .. Len(Project[d])
  BY LenTyped
<1>2. leg \in Leg /\ KeyOf[leg] \in Key
  BY <1>1, LegsTyped
<1>3. g \in Ledger /\ Prefix(d, n + 1) \in Ledger
  BY <1>1, <1>2, PrefixTyped DEF Ledger
<1>4. ASSUME NEW k \in Key
      PROVE  g[k] = Prefix(d, n + 1)[k]
  <2>1. CASE k = KeyOf[leg]
    <3>1. g[k] = leg
      BY <2>1 DEF Ledger
    <3>2. n + 1 \in 1 .. (n + 1)
      OBVIOUS
    <3>3. Prefix(d, n + 1)[k] = leg
      BY <2>1, <3>2, <1>1, PrefixHit
    <3> QED BY <3>1, <3>3
  <2>2. CASE k # KeyOf[leg] /\ \E i \in 1 .. n : KeyOf[Project[d][i]] = k
    <3>1. PICK i \in 1 .. n : KeyOf[Project[d][i]] = k
      BY <2>2
    <3>2. i \in 1 .. (n + 1)
      OBVIOUS
    <3>3. Prefix(d, n)[k] = Project[d][i]
      BY <3>1, <1>1, PrefixHit
    <3>4. Prefix(d, n + 1)[k] = Project[d][i]
      BY <3>1, <3>2, <1>1, PrefixHit
    <3>5. g[k] = f[k]
      BY <2>2 DEF Ledger
    <3> QED BY <3>3, <3>4, <3>5
  <2>3. CASE k # KeyOf[leg] /\ \A i \in 1 .. n : KeyOf[Project[d][i]] # k
    <3>1. \A i \in 1 .. (n + 1) : KeyOf[Project[d][i]] # k
      <4> TAKE i \in 1 .. (n + 1)
      <4>1. i \in 1 .. n \/ i = n + 1
        OBVIOUS
      <4> QED BY <4>1, <2>3
    <3>2. Prefix(d, n + 1)[k] = NoLeg /\ Prefix(d, n)[k] = NoLeg
      BY <2>3, <3>1, PrefixMiss
    <3>3. g[k] = f[k]
      BY SMTT(40), <2>3 DEF Ledger
    <3> QED BY <3>2, <3>3
  <2> QED BY <2>1, <2>2, <2>3
<1> QED BY <1>3, <1>4 DEF Ledger

-----------------------------------------------------------------------------
(* Types, roles and attempts.                                              *)

Typed == TypeOK /\ Roles /\ Attempts

LEMMA RowsTyped ==
  /\ NoRow \in FailureRow
  /\ \A f \in FailureRow :
       /\ [f EXCEPT !.status = "resolved"] \in FailureRow
       /\ \A n \in 0 .. MaxRetries, s \in {"retrying", "permanently_failed"} :
            [f EXCEPT !.retry_count = n, !.status = s] \in FailureRow
<1>1. NoRow \in FailureRow
  BY MaxRetriesAssumption DEF NoRow, FailureRow, NonTerminal
<1>2. ASSUME NEW f \in FailureRow
      PROVE  [f EXCEPT !.status = "resolved"] \in FailureRow
  BY DEF FailureRow, NonTerminal
<1>3. ASSUME NEW f \in FailureRow, NEW n \in 0 .. MaxRetries,
             NEW s \in {"retrying", "permanently_failed"}
      PROVE  [f EXCEPT !.retry_count = n, !.status = s] \in FailureRow
  BY DEF FailureRow, NonTerminal
<1> QED BY <1>1, <1>2, <1>3

LEMMA TypedInit == Init => Typed
<1> SUFFICES ASSUME Init PROVE Typed
  OBVIOUS
<1>1. TypeOK
  BY ViewTyped, RowsTyped DEF Init, TypeOK, PC
<1>2. Roles /\ Attempts
  BY DEF Init, Roles, Attempts, Proc
<1> QED BY <1>1, <1>2 DEF Typed

(* A process that ends leaves everybody else as they are.                  *)
LEMMA LeaveTyped ==
  ASSUME Typed, NEW p \in Proc, NEW b, Leave(p, b),
         b \subseteq {"overlap", "lost"},
         doc' \in Doc, fin_txn' \in Ledger, failure' \in FailureRow
  PROVE  Typed'
<1>1. TypeOK'
  BY RowsTyped DEF Typed, TypeOK, Leave, PC
<1>2. Roles'
  BY DEF Typed, TypeOK, Roles, Leave
<1>3. Attempts'
  BY DEF Typed, TypeOK, Attempts, Leave, Proc
<1> QED BY SMTT(40), <1>1, <1>2, <1>3 DEF Typed

LEMMA EnterTyped ==
  ASSUME Typed, NEW p \in Proc,
         \/ p \in Projector /\ Enter(p, FirstDelete)
         \/ p \in Backfiller /\ Enter(p, "fetched"),
         doc' \in Doc, fin_txn' \in Ledger, failure' = failure, written' = written,
         seen' = seen \/ seen' = [seen EXCEPT ![p] = doc],
         p \in Projector \/ seen' = [seen EXCEPT ![p] = doc],
         IF p \in Replayer
         THEN Open(failure) /\ failure.retry_count < MaxRetries
                /\ row' = [row EXCEPT ![p] = failure]
         ELSE row' = row
  PROVE  Typed'
<1>1. FirstDelete \in {"cascade", "delete"}
  BY DEF FirstDelete
<1>2. pc' \in [Proc -> PC] /\ pc[p] = "idle" /\ pc'[p] \in {"cascade", "delete", "fetched"}
  BY <1>1 DEF Typed, TypeOK, Enter, PC, Projecting
<1>3. dirty' \subseteq Proc /\ blame' \subseteq {"overlap", "lost"}
  BY DEF Typed, TypeOK, Enter, Active
<1>4. TypeOK'
  BY <1>2, <1>3 DEF Typed, TypeOK
<1>5. Roles'
  BY <1>1, <1>2, RolesDisjoint DEF Typed, TypeOK, Roles, Enter, Proc, Projector
<1>6. Attempts'
  BY <1>2, RolesDisjoint DEF Typed, TypeOK, Attempts, Enter, Proc, Projector, Open
<1> QED BY <1>4, <1>5, <1>6 DEF Typed

LEMMA GotoTyped ==
  ASSUME Typed, NEW p \in Proc, NEW from \in PC \ {"idle"}, NEW to \in PC, Goto(p, from, to),
         fin_txn' \in Ledger, UNCHANGED <<doc, failure, written>>,
         seen' = seen \/ seen' = [seen EXCEPT ![p] = doc],
         row' = row \/ (p \in Writer /\ row' = [row EXCEPT ![p] = failure]),
         to \in {"delete", "read"} => p \in Projector,
         to \in {"resolve_write", "record", "record_write"} => p \in Writer,
         to = "demote" => p \in Replayer,
         to = "persist" => seen'[p] \in Doc /\ written[p] = 0,
         to \in {"delete", "read"} => written[p] = 0,
         to \notin {"idle", "cascade", "fetched", "resolve", "mark"}
  PROVE  Typed'
<1>1. pc' = [pc EXCEPT ![p] = to] /\ pc[p] = from /\ UNCHANGED <<dirty, blame>>
  BY DEF Goto
<1>2. TypeOK'
  BY <1>1 DEF Typed, TypeOK
<1>3. \A q \in Proc : q # p => pc'[q] = pc[q] /\ seen'[q] = seen[q] /\ row'[q] = row[q]
  BY <1>1 DEF Typed, TypeOK
<1>4. pc'[p] = to
  BY <1>1 DEF Typed, TypeOK
<1>5. to = "persist" => written'[p] <= Len(Project[seen'[p]])
  BY LenTyped
<1>6. Roles'
  BY <1>3, <1>4, <1>5 DEF Typed, Roles
<1>7. Attempts'
  BY <1>1, <1>3, <1>4, RolesDisjoint DEF Typed, Attempts, Proc
<1> QED BY <1>2, <1>6, <1>7 DEF Typed

LEMMA DisjointRoles ==
  ASSUME NEW p \in Proc
  PROVE  /\ p \in Backfiller <=> p \notin Projector
         /\ p \in Writer => p \notin Replayer /\ p \notin Admin
         /\ p \in Admin => p \notin Replayer
BY RolesDisjoint DEF Proc, Projector

(* The budget of the row survives a step that types it and obeys it.       *)
Budgeted == Typed /\ RetryBudget

LEMMA TypedNext == Budgeted /\ [Next]_vars => Budgeted'
<1> SUFFICES ASSUME Budgeted, [Next]_vars
             PROVE  Budgeted'
  OBVIOUS
<1> USE DEF Budgeted
<1>t. TypeOK /\ Roles /\ Attempts /\ Typed /\ RetryBudget
  BY DEF Typed
<1>d. /\ doc \in Doc /\ fin_txn \in Ledger /\ failure \in FailureRow
      /\ blame \subseteq {"overlap", "lost"}
      /\ \A p \in Proc : seen[p] \in Doc \cup {NoDoc} /\ row[p] \in FailureRow
                           /\ written[p] \in Nat /\ pc[p] \in PC
  BY <1>t DEF TypeOK
<1>o. Open(failure) => failure.retry_count < MaxRetries
  BY <1>t, MaxRetriesAssumption DEF Open, NonTerminal, RetryBudget
<1>r. \A p \in Proc : Repaired(p) \subseteq {"overlap", "lost"}
  BY <1>d DEF Repaired
<1>b. failure' = failure => RetryBudget'
  BY <1>t DEF RetryBudget
<1>1. ASSUME NEW p \in Proc, NEW d \in Doc, CommitSource(p, d)
      PROVE  Budgeted'
  <2>1. Typed'
    BY <1>1, <1>t, <1>d, EnterTyped, DisjointRoles DEF CommitSource, Projector
  <2> QED BY <1>1, <1>b, <2>1 DEF CommitSource
<1>2. ASSUME NEW p \in Proc, AdminReproject(p)
      PROVE  Budgeted'
  <2>1. Typed'
    BY <1>2, <1>t, <1>d, EnterTyped, DisjointRoles DEF AdminReproject, Projector
  <2> QED BY <1>2, <1>b, <2>1 DEF AdminReproject
<1>3. ASSUME NEW p \in Proc, ReplayRow(p)
      PROVE  Budgeted'
  <2>1. Typed'
    BY <1>3, <1>t, <1>d, <1>o, EnterTyped DEF ReplayRow, Projector
  <2> QED BY <1>3, <1>b, <2>1 DEF ReplayRow
<1>4. ASSUME NEW p \in Proc, BackfillFetch(p)
      PROVE  Budgeted'
  <2>1. Typed'
    BY <1>4, <1>t, <1>d, EnterTyped, DisjointRoles DEF BackfillFetch, Projector
  <2> QED BY <1>4, <1>b, <2>1 DEF BackfillFetch
<1>5. ASSUME NEW p \in Proc, DeleteCascade(p)
      PROVE  Budgeted'
  <2>1. fin_txn' \in Ledger
    BY <1>5, <1>d DEF DeleteCascade, Ledger
  <2>2. p \in Projector /\ written[p] = 0
    BY <1>5, <1>t DEF DeleteCascade, Goto, Roles
  <2>3. Typed'
    BY <1>5, <1>t, <2>1, <2>2, GotoTyped DEF DeleteCascade, PC, Projecting
  <2> QED BY <1>5, <1>b, <2>3 DEF DeleteCascade
<1>6. ASSUME NEW p \in Proc, DeleteExact(p)
      PROVE  Budgeted'
  <2>1. fin_txn' \in Ledger
    BY <1>6, <1>d DEF DeleteExact, WithoutExact, Ledger
  <2>2. p \in Projector /\ written[p] = 0
    BY <1>6, <1>t DEF DeleteExact, Goto, Roles
  <2>3. Typed'
    BY <1>6, <1>t, <2>1, <2>2, GotoTyped DEF DeleteExact, PC, Projecting
  <2> QED BY <1>6, <1>b, <2>3 DEF DeleteExact
<1>7. ASSUME NEW p \in Proc, ReadSource(p)
      PROVE  Budgeted'
  <2>1. written[p] = 0
    BY <1>7, <1>t DEF ReadSource, Goto, Roles
  <2>2. seen'[p] \in Doc
    BY <1>7, <1>t, <1>d DEF ReadSource, TypeOK
  <2>3. Typed'
    BY <1>7, <1>t, <1>d, <2>1, <2>2, GotoTyped DEF ReadSource, PC, Projecting
  <2> QED BY <1>7, <1>b, <2>3 DEF ReadSource
<1>8. ASSUME NEW p \in Proc, BackfillSkip(p)
      PROVE  Budgeted'
  BY <1>8, <1>t, <1>d, <1>b, LeaveTyped DEF BackfillSkip
<1>9. ASSUME NEW p \in Proc, BackfillDelete(p)
      PROVE  Budgeted'
  <2>1. fin_txn' \in Ledger
    BY <1>9, <1>d DEF BackfillDelete, WithoutExact, Ledger
  <2>2. seen'[p] \in Doc /\ written[p] = 0
    BY <1>9, <1>t DEF BackfillDelete, Goto, Roles
  <2>3. Typed'
    BY <1>9, <1>t, <2>1, <2>2, GotoTyped DEF BackfillDelete, PC, Projecting
  <2> QED BY <1>9, <1>b, <2>3 DEF BackfillDelete
<1>10. ASSUME NEW p \in Proc, UpsertLeg(p)
       PROVE  Budgeted'
  <2>1. seen[p] \in Doc /\ written[p] + 1 \in 1 .. Len(Project[seen[p]])
    BY <1>10, <1>t, <1>d, LenTyped DEF UpsertLeg, Roles
  <2>2. fin_txn' \in Ledger
    BY <1>10, <1>d, <2>1, LegsTyped DEF UpsertLeg, Ledger
  <2>3. written' \in [Proc -> Nat]
    BY <1>10, <1>t DEF UpsertLeg, TypeOK
  <2>4. TypeOK'
    BY <1>10, <1>t, <2>2, <2>3 DEF UpsertLeg, TypeOK
  <2>5. Roles'
    BY <1>10, <1>t, <2>1 DEF UpsertLeg, Roles, TypeOK
  <2>6. Attempts'
    BY <1>10, <1>t DEF UpsertLeg, Attempts
  <2> QED BY <1>10, <1>b, <2>4, <2>5, <2>6 DEF UpsertLeg, Typed
<1>11. ASSUME NEW p \in Proc, Projected(p)
       PROVE  Budgeted'
  <2>1. TypeOK'
    BY <1>11, <1>t, <1>r DEF Projected, TypeOK, PC
  <2>2. Roles'
    BY <1>11, <1>t DEF Projected, TypeOK, Roles
  <2>3. Attempts'
    BY <1>11, <1>t DEF Projected, TypeOK, Attempts, AllWritten, Proc
  <2> QED BY <1>11, <1>b, <2>1, <2>2, <2>3 DEF Projected, Typed
<1>12. ASSUME NEW p \in Proc, AdminDone(p) \/ BackfillDone(p)
       PROVE  Budgeted'
  BY <1>12, <1>t, <1>d, <1>b, <1>r, LeaveTyped DEF AdminDone, BackfillDone
<1>13. ASSUME NEW p \in Proc, Raise(p)
       PROVE  Budgeted'
  <2>1. CASE p \in Writer \cup Replayer
    <3> DEFINE to == IF p \in Writer THEN "record" ELSE "demote"
    <3>1. /\ Goto(p, pc[p], to) /\ pc[p] \in PC \ {"idle"}
          /\ UNCHANGED <<doc, fin_txn, failure, seen, written, row>>
      BY <1>13, <2>1, RolesDisjoint DEF Raise, Projecting, PC
    <3>2. /\ to \in PC
          /\ to \notin {"idle", "cascade", "fetched", "resolve", "mark", "persist", "delete",
                        "read"}
          /\ to \in {"resolve_write", "record", "record_write"} => p \in Writer
          /\ to = "demote" => p \in Replayer
      BY <2>1 DEF PC
    <3> HIDE DEF to
    <3>3. Typed'
      BY <1>t, <1>d, <3>1, <3>2, GotoTyped
    <3> QED BY <1>b, <3>1, <3>3
  <2>2. CASE p \notin Writer \cup Replayer
    BY <1>13, <2>2, <1>t, <1>d, <1>b, LeaveTyped DEF Raise
  <2> QED BY <2>1, <2>2
<1>14. ASSUME NEW p \in Proc, ResolveFind(p)
       PROVE  Budgeted'
  <2>1. CASE Leave(p, blame)
    BY <1>14, <2>1, <1>t, <1>d, <1>b, LeaveTyped DEF ResolveFind
  <2>2. CASE Goto(p, "resolve", "resolve_write") /\ UNCHANGED <<seen, written, row>>
    <3>1. p \in Writer
      BY <1>14, <1>t DEF ResolveFind, Roles
    <3>2. Typed'
      BY <1>14, <2>2, <3>1, <1>t, <1>d, GotoTyped DEF ResolveFind, PC
    <3> QED BY <1>14, <1>b, <3>2 DEF ResolveFind
  <2> QED BY <1>14, <2>1, <2>2 DEF ResolveFind
<1>15. ASSUME NEW p \in Proc, ResolveWrite(p)
       PROVE  Budgeted'
  <2>1. failure' \in FailureRow /\ failure'.status = "resolved"
    BY <1>15, <1>d, RowsTyped DEF ResolveWrite, FailureRow
  <2>2. Typed'
    BY <1>15, <2>1, <1>t, <1>d, LeaveTyped DEF ResolveWrite
  <2> QED BY <2>1, <2>2 DEF RetryBudget
<1>16. ASSUME NEW p \in Proc, ResolveRaise(p) \/ RecordRaise(p) \/ DemoteRaise(p) \/ Crash(p)
       PROVE  Budgeted'
  BY <1>16, <1>t, <1>d, <1>b, LeaveTyped DEF ResolveRaise, RecordRaise, DemoteRaise, Crash
<1>17. ASSUME NEW p \in Proc, RecordFind(p)
       PROVE  Budgeted'
  <2>1. p \in Writer
    BY <1>17, <1>t DEF RecordFind, Goto, Roles
  <2>2. Typed'
    BY <1>17, <2>1, <1>t, <1>d, GotoTyped DEF RecordFind, PC
  <2> QED BY <1>17, <1>b, <2>2 DEF RecordFind
<1>18. ASSUME NEW p \in Proc, RecordWrite(p)
       PROVE  Budgeted'
  <2>1. p \in Writer
    BY <1>18, <1>t DEF RecordWrite, Roles
  <2>2. CASE Open(row[p])
    BY <1>18, <2>2, <1>t, <1>d, <1>b, LeaveTyped DEF RecordWrite
  <2>3. CASE ~Open(row[p])
    <3>1. /\ failure'.status = "pending" /\ failure'.retry_count = 0
          /\ failure' \in FailureRow
      BY <1>18, <2>1, <2>3, <1>d, MaxRetriesAssumption
         DEF RecordWrite, FailureRow, NonTerminal
    <3>2. Typed'
      BY <1>18, <3>1, <1>t, <1>d, LeaveTyped DEF RecordWrite
    <3> QED BY <3>1, <3>2, MaxRetriesAssumption DEF RetryBudget
  <2> QED BY <2>2, <2>3
<1>19. ASSUME NEW p \in Proc, MarkResolved(p)
       PROVE  Budgeted'
  <2>1. CASE failure' = failure
    BY <1>19, <2>1, <1>t, <1>d, <1>b, LeaveTyped DEF MarkResolved
  <2>2. CASE failure' = [failure EXCEPT !.status = "resolved"]
    <3>1. failure' \in FailureRow /\ failure'.status = "resolved"
      BY <2>2, <1>d, RowsTyped DEF FailureRow
    <3>2. Typed'
      BY <1>19, <3>1, <1>t, <1>d, LeaveTyped DEF MarkResolved
    <3> QED BY <3>1, <3>2 DEF RetryBudget
  <2> QED BY <1>19, <2>1, <2>2 DEF MarkResolved, UpdateById
<1>20. ASSUME NEW p \in Proc, MarkRaise(p)
       PROVE  Budgeted'
  <2>1. p \in Replayer
    BY <1>20, <1>t DEF MarkRaise, Goto, Roles
  <2>2. Typed'
    BY <1>20, <2>1, <1>t, <1>d, GotoTyped DEF MarkRaise, PC
  <2> QED BY <1>20, <1>b, <2>2 DEF MarkRaise
<1>21. ASSUME NEW p \in Proc, Demote(p)
       PROVE  Budgeted'
  <2>1. CASE failure' = failure
    BY <1>21, <2>1, <1>t, <1>d, <1>b, LeaveTyped DEF Demote
  <2>2. CASE failure' # failure
    <3> DEFINE n == row[p].retry_count + 1
               s == IF n >= MaxRetries THEN "permanently_failed" ELSE "retrying"
    <3>1. failure' = [failure EXCEPT !.retry_count = n, !.status = s]
      BY <1>21, <2>2 DEF Demote, UpdateById
    <3>2. p \in Replayer /\ Open(row[p]) /\ row[p].retry_count < MaxRetries
      BY <1>21, <1>t DEF Demote, Roles, Attempts
    <3>3. n \in 1 .. MaxRetries /\ n \in 0 .. MaxRetries
      BY <3>2, <1>d, MaxRetriesAssumption DEF FailureRow
    <3>4. s \in {"retrying", "permanently_failed"}
      OBVIOUS
    <3>5. failure' \in FailureRow
      BY <3>1, <3>3, <3>4, <1>d, RowsTyped
    <3>6. failure'.retry_count = n /\ failure'.status = s
      BY <3>1, <1>d DEF FailureRow
    <3>7. RetryBudget'
      BY <3>3, <3>6, MaxRetriesAssumption DEF RetryBudget
    <3>8. Typed'
      BY <1>21, <3>5, <1>t, <1>d, LeaveTyped DEF Demote
    <3> QED BY <3>7, <3>8
  <2> QED BY <2>1, <2>2
<1>22. CASE UNCHANGED vars
  BY <1>22, <1>t DEF vars, Typed, TypeOK, Roles, Attempts, RetryBudget
<1> QED
  BY <1>1, <1>2, <1>3, <1>4, <1>5, <1>6, <1>7, <1>8, <1>9, <1>10, <1>11, <1>12,
     <1>13, <1>14, <1>15, <1>16, <1>17, <1>18, <1>19, <1>20, <1>21, <1>22
     DEF Next, Reproject, HookStep, ReplayStep, BackfillStep, AdminStep

-----------------------------------------------------------------------------
(* Who runs, and who has met whom.                                         *)

LEMMA LeaveActive ==
  ASSUME Typed, NEW p \in Proc, NEW b, Leave(p, b)
  PROVE  Active' = Active \ {p} /\ pc'[p] = "idle"
BY DEF Typed, TypeOK, Leave, Active

LEMMA EnterActive ==
  ASSUME Typed, NEW p \in Proc, NEW w \in PC \ {"idle"}, Enter(p, w)
  PROVE  /\ p \notin Active /\ Active' = Active \cup {p} /\ pc'[p] = w
         /\ Active = {} => dirty' = {} /\ blame' = blame
         /\ Active # {} => dirty' = Active' /\ blame' = blame \cup {"overlap"}
BY DEF Typed, TypeOK, Enter, Active

LEMMA GotoActive ==
  ASSUME Typed, NEW p \in Proc, NEW from, from # "idle", NEW w \in PC \ {"idle"},
         Goto(p, from, w)
  PROVE  /\ p \in Active /\ Active' = Active /\ pc'[p] = w
         /\ dirty' = dirty /\ blame' = blame
BY DEF Typed, TypeOK, Goto, Active

(* A process ends: either it had met somebody, and that stays on record,   *)
(* or it was alone and nobody is left.                                     *)
LEMMA LeaveMeetings ==
  ASSUME Typed, Meetings, NEW p \in Proc, NEW b, Leave(p, b), pc[p] # "idle",
         p \in dirty => blame \subseteq b
  PROVE  /\ Meetings'
         /\ Active' \ dirty' = {}
         /\ (Active' = {} /\ p \notin dirty) \/ "overlap" \in blame'
<1>1. Active' = Active \ {p} /\ dirty' = dirty \ {p} /\ blame' = b /\ p \in Active
  BY LeaveActive DEF Leave, Active
<1>2. CASE p \notin dirty
  <2>1. Active = {p} /\ Active' = {} /\ dirty' = {}
    BY <1>1, <1>2 DEF Meetings
  <2> QED BY <1>2, <2>1 DEF Meetings
<1>3. CASE p \in dirty
  <2>1. "overlap" \in blame'
    BY <1>1, <1>3 DEF Meetings
  <2>2. Active' \ dirty' = {}
    <3>1. SUFFICES ASSUME NEW q \in Active', q \notin dirty'
                   PROVE  FALSE
      OBVIOUS
    <3>2. q \in Active /\ q \notin dirty /\ q # p
      BY <1>1, <3>1
    <3> QED BY <1>1, <3>2 DEF Meetings
  <2> QED BY <1>1, <2>1, <2>2 DEF Meetings
<1> QED BY <1>2, <1>3

LEMMA EnterMeetings ==
  ASSUME Typed, Meetings, NEW p \in Proc, NEW w \in PC \ {"idle"}, Enter(p, w)
  PROVE  /\ Meetings'
         /\ \A q \in Active' \ dirty' : q = p /\ Active = {}
<1>1. CASE Active = {}
  BY <1>1, EnterActive DEF Meetings
<1>2. CASE Active # {}
  BY <1>2, EnterActive DEF Meetings
<1> QED BY <1>1, <1>2

LEMMA StayMeetings ==
  ASSUME Typed, Meetings, NEW p \in Active,
         Active' = Active, dirty' = dirty, blame' = blame \/ (p \notin dirty /\ blame' = {})
  PROVE  /\ Meetings'
         /\ \A q \in Active' \ dirty' : q = p /\ Active = {p}
<1>1. \A q \in Active \ dirty : q = p /\ Active = {p}
  BY DEF Meetings
<1>2. CASE blame' = blame
  BY <1>1, <1>2 DEF Meetings
<1>3. CASE p \notin dirty /\ blame' = {}
  BY <1>1, <1>3 DEF Meetings
<1> QED BY <1>1, <1>2, <1>3

-----------------------------------------------------------------------------
(* A lone process.                                                         *)

(* When a process ends, nobody is alone any more; what is left to show is  *)
(* that it ends in debt or with a faithful ledger.                         *)
LEMMA LeaveLone ==
  ASSUME Typed, Meetings, NEW p \in Proc, NEW b, Leave(p, b), pc[p] # "idle",
         p \in dirty => blame \subseteq b,
         p \notin dirty =>
           \/ Standing(failure')
           \/ b # {}
           \/ fin_txn' = (View[doc])'
  PROVE  Meetings' /\ Lone' /\ SettledLedgerIsFaithful'
<1>1. /\ Meetings' /\ Active' \ dirty' = {}
      /\ (Active' = {} /\ p \notin dirty) \/ "overlap" \in blame'
  BY LeaveMeetings
<1>2. Lone'
  BY <1>1 DEF Lone
<1>3. SettledLedgerIsFaithful'
  <2>1. SUFFICES ASSUME Debt' = {} PROVE fin_txn' = (View[doc])'
    BY DEF SettledLedgerIsFaithful
  <2>2. blame' = {} /\ ~Standing(failure')
    BY <2>1 DEF Debt
  <2> QED BY <1>1, <2>2 DEF Leave
<1> QED BY <1>1, <1>2, <1>3

(* While a process runs, the ledger is allowed to be wrong.                *)
LEMMA RunningIsDebt ==
  ASSUME NEW p \in Active'
  PROVE  SettledLedgerIsFaithful'
BY DEF SettledLedgerIsFaithful, Debt

Invariant ==
  Budgeted /\ Meetings /\ Lone /\ SettledLedgerIsFaithful

LEMMA IInvIsInvariant == Invariant <=> IInv
BY DEF Invariant, IInv, Budgeted, Typed

Safe == Meetings /\ Lone /\ SettledLedgerIsFaithful

(* The four entry points.                                                  *)
LEMMA EnterSafe ==
  ASSUME Invariant, NEW p \in Proc, NEW d \in Doc,
         CommitSource(p, d) \/ AdminReproject(p) \/ ReplayRow(p) \/ BackfillFetch(p)
  PROVE  Safe'
<1>t. Typed /\ Meetings /\ Lone /\ SettledLedgerIsFaithful /\ TypeOK
  BY DEF Invariant, Budgeted, Typed
<1>1. CASE CommitSource(p, d) \/ AdminReproject(p) \/ ReplayRow(p)
  <2>1. Enter(p, FirstDelete) /\ FirstDelete \in PC \ {"idle"} /\ p \in Projector
    BY <1>1 DEF CommitSource, AdminReproject, ReplayRow, FirstDelete, PC, Projecting, Projector
  <2>2. Meetings' /\ pc'[p] = FirstDelete /\ p \in Active'
        /\ \A q \in Active' \ dirty' : q = p
    BY <1>t, <2>1, EnterActive, EnterMeetings
  <2>3. LoneProjector(p)'
    <3>1. pc'[p] = "cascade" \/ (pc'[p] = "delete" /\ Exact = Key)
      BY <2>2 DEF FirstDelete
    <3>2. p \in Replayer => row'[p] = failure'
      BY <1>1, <1>t, DisjointRoles DEF CommitSource, AdminReproject, ReplayRow, TypeOK
    <3> QED BY <3>1, <3>2 DEF LoneProjector
  <2>4. Lone'
    BY <2>1, <2>2, <2>3, DisjointRoles DEF Lone
  <2> QED BY <2>2, <2>4, RunningIsDebt DEF Safe
<1>2. CASE BackfillFetch(p)
  <2>1. Enter(p, "fetched") /\ "fetched" \in PC \ {"idle"} /\ p \in Backfiller
    BY <1>2 DEF BackfillFetch, PC, Projecting
  <2>2. /\ Meetings' /\ pc'[p] = "fetched" /\ p \in Active'
        /\ \A q \in Active' \ dirty' : q = p /\ Active = {}
        /\ Active = {} => blame' = blame
    BY <1>t, <2>1, EnterActive, EnterMeetings
  <2>3. Active = {} => LoneBackfiller(p)'
    <3>1. SUFFICES ASSUME Active = {}, blame' = {}, ~Standing(failure')
                   PROVE  fin_txn' = (View[doc])' /\ seen'[p] = doc'
      BY <1>2, <1>t DEF LoneBackfiller, BackfillFetch, TypeOK
    <3>2. Debt = {}
      BY <1>2, <2>2, <3>1 DEF Debt, BackfillFetch
    <3> QED BY <1>2, <1>t, <3>2 DEF SettledLedgerIsFaithful, BackfillFetch, TypeOK
  <2>4. Lone'
    BY <2>1, <2>2, <2>3, DisjointRoles DEF Lone
  <2> QED BY <2>2, <2>4, RunningIsDebt DEF Safe
<1> QED BY <1>1, <1>2

(* A running process stays: only what it is itself about to do matters.    *)
LEMMA StaySafe ==
  ASSUME Invariant, NEW p \in Proc, p \in Active,
         Active' = Active, dirty' = dirty, blame' = blame \/ (p \notin dirty /\ blame' = {}),
         p \notin dirty /\ p \in Projector => LoneProjector(p)',
         p \notin dirty /\ p \in Backfiller => LoneBackfiller(p)'
  PROVE  Safe'
<1>1. Meetings' /\ \A q \in Active' \ dirty' : q = p
  BY StayMeetings DEF Invariant, Budgeted
<1>2. Lone'
  BY <1>1 DEF Lone
<1> QED BY <1>1, <1>2, RunningIsDebt DEF Safe

(* What is known of a lone process before it steps.                        *)
LEMMA AloneFacts ==
  ASSUME Invariant, NEW p \in Active, p \notin dirty
  PROVE  /\ p \in Projector => LoneProjector(p)
         /\ p \in Backfiller => LoneBackfiller(p)
BY DEF Invariant, Lone

(* The steps of reproject_source.                                          *)
LEMMA ProjectSafe ==
  ASSUME Invariant, NEW p \in Proc,
         DeleteCascade(p) \/ DeleteExact(p) \/ ReadSource(p) \/ BackfillDelete(p)
  PROVE  Safe'
<1>t. Typed /\ TypeOK /\ Roles
  BY DEF Invariant, Budgeted, Typed
<1>p. {"delete", "read", "persist"} \subseteq PC \ {"idle"}
  BY DEF PC, Projecting
<1>1. CASE DeleteCascade(p)
  <2>1. p \in Active /\ Active' = Active /\ pc'[p] = "delete" /\ dirty' = dirty /\ blame' = blame
        /\ p \in Projector /\ p \notin Backfiller
    BY <1>1, <1>t, <1>p, GotoActive, DisjointRoles DEF DeleteCascade, Goto, Roles
  <2>2. p \notin dirty => LoneProjector(p)'
    BY <1>1, <2>1, AloneFacts DEF DeleteCascade, LoneProjector
  <2> QED BY <2>1, <2>2, StaySafe
<1>2. CASE DeleteExact(p)
  <2>1. p \in Active /\ Active' = Active /\ pc'[p] = "read" /\ dirty' = dirty /\ blame' = blame
        /\ p \in Projector /\ p \notin Backfiller /\ pc[p] = "delete"
    BY <1>2, <1>t, <1>p, GotoActive, DisjointRoles DEF DeleteExact, Goto, Roles
  <2>2. p \notin dirty => LoneProjector(p)'
    BY <1>2, <2>1, AloneFacts DEF DeleteExact, LoneProjector, WithoutExact
  <2> QED BY <2>1, <2>2, StaySafe
<1>3. CASE ReadSource(p)
  <2>1. p \in Active /\ Active' = Active /\ pc'[p] = "persist" /\ dirty' = dirty /\ blame' = blame
        /\ p \in Projector /\ p \notin Backfiller /\ pc[p] = "read" /\ written[p] = 0
    BY <1>3, <1>t, <1>p, GotoActive, DisjointRoles DEF ReadSource, Goto, Roles
  <2>2. seen'[p] = doc' /\ written'[p] = 0 /\ doc' = doc /\ doc \in Doc /\ fin_txn' = fin_txn
        /\ fin_txn \in Ledger /\ row' = row /\ failure' = failure
    BY <1>3, <2>1, <1>t DEF ReadSource, TypeOK
  <2>3. p \notin dirty => \A k \in Key : fin_txn[k] = NoLeg
    BY <2>1, AloneFacts DEF LoneProjector
  <2>4. p \notin dirty => fin_txn = Prefix(doc, 0)
    BY <2>2, <2>3, PrefixZero DEF Ledger
  <2>5. p \notin dirty => fin_txn' = Prefix(doc, written[p])'
    BY <2>2, <2>4 DEF Prefix
  <2>6. p \notin dirty => LoneProjector(p)'
    BY <2>1, <2>2, <2>5, AloneFacts DEF LoneProjector
  <2> QED BY <2>1, <2>6, StaySafe
<1>4. CASE BackfillDelete(p)
  <2>1. p \in Active /\ Active' = Active /\ pc'[p] = "persist" /\ dirty' = dirty /\ blame' = blame
        /\ p \in Backfiller /\ p \notin Projector /\ pc[p] = "fetched" /\ written[p] = 0
    BY <1>4, <1>t, <1>p, GotoActive, DisjointRoles DEF BackfillDelete, Goto, Roles
  <2>2. UNCHANGED <<doc, failure, seen, written, row>> /\ fin_txn' = WithoutExact
    BY <1>4 DEF BackfillDelete
  <2>3. ASSUME p \notin dirty PROVE LoneBackfiller(p)'
    <3>1. seen'[p] = doc'
      BY <2>1, <2>2, <2>3, AloneFacts DEF LoneBackfiller
    <3>2. SUFFICES ASSUME blame' = {}, ~Standing(failure'), NEW k \in Key
                   PROVE  \/ fin_txn'[k] = (View[doc][k])'
                          \/ /\ fin_txn'[k] = NoLeg
                             /\ \E i \in 1 .. Len(Project[doc]) : KeyOf[Project[doc][i]] = k
      BY <2>1, <2>2, <3>1 DEF LoneBackfiller
    <3>3. fin_txn[k] = View[doc][k]
      BY <2>1, <2>2, <2>3, <3>2, AloneFacts DEF LoneBackfiller
    <3>4. CASE \E i \in 1 .. Len(Project[doc]) : KeyOf[Project[doc][i]] = k
      BY <2>2, <3>3, <3>4 DEF WithoutExact
    <3>5. CASE \A i \in 1 .. Len(Project[doc]) : KeyOf[Project[doc][i]] # k
      <4>1. View[doc][k] = NoLeg
        BY <1>t, <3>5, PrefixMiss DEF View, TypeOK
      <4> QED BY <2>2, <3>3, <4>1 DEF WithoutExact
    <3> QED BY <3>4, <3>5
  <2> QED BY <2>1, <2>3, StaySafe
<1> QED BY <1>1, <1>2, <1>3, <1>4

LEMMA UpsertSafe ==
  ASSUME Invariant, NEW p \in Proc, UpsertLeg(p)
  PROVE  Safe'
<1>t. Typed /\ TypeOK /\ Roles
  BY DEF Invariant, Budgeted, Typed
<1>1. p \in Active /\ Active' = Active /\ dirty' = dirty /\ blame' = blame
      /\ pc[p] = "persist" /\ pc' = pc /\ seen' = seen /\ row' = row /\ doc' = doc
      /\ failure' = failure /\ written'[p] = written[p] + 1 /\ written[p] \in Nat
  BY <1>t DEF UpsertLeg, Active, TypeOK
<1>2. doc \in Doc /\ fin_txn \in Ledger
  BY <1>t DEF TypeOK
<1> DEFINE leg == Project[doc][written[p] + 1]
<1>3. ASSUME p \notin dirty, p \in Projector
      PROVE  LoneProjector(p)'
  <2>1. seen[p] = doc /\ fin_txn = Prefix(doc, written[p])
        /\ (p \in Replayer => row[p] = failure)
    BY <1>1, <1>3, AloneFacts DEF LoneProjector
  <2>2. written[p] < Len(Project[doc]) /\ fin_txn' = [fin_txn EXCEPT ![KeyOf[leg]] = leg]
    BY <2>1 DEF UpsertLeg
  <2>3. fin_txn' = Prefix(doc, written[p] + 1)
    BY <1>1, <1>2, <2>1, <2>2, PrefixStep
  <2>4. fin_txn' = Prefix(doc, written[p])'
    BY <1>1, <2>3 DEF Prefix
  <2> QED BY <1>1, <2>1, <2>4 DEF LoneProjector
<1>4. ASSUME p \notin dirty, p \in Backfiller
      PROVE  LoneBackfiller(p)'
  <2>1. LoneBackfiller(p) /\ seen[p] = doc
    BY <1>1, <1>4, AloneFacts DEF LoneBackfiller
  <2>2. /\ written[p] < Len(Project[doc]) /\ fin_txn' = [fin_txn EXCEPT ![KeyOf[leg]] = leg]
        /\ Len(Project[doc]) \in Nat
    BY <2>1, <1>2, LenTyped DEF UpsertLeg
  <2>3. written[p] + 1 \in 1 .. Len(Project[doc])
    BY <1>1, <2>2
  <2>4. View[doc][KeyOf[leg]] = leg
    BY <1>2, <2>2, <2>3, PrefixHit DEF View
  <2>5. SUFFICES ASSUME blame = {}, ~Standing(failure), NEW k \in Key
                 PROVE  \/ fin_txn'[k] = View[doc][k]
                        \/ /\ fin_txn'[k] = NoLeg
                           /\ \E i \in written[p] + 2 .. Len(Project[doc]) :
                                KeyOf[Project[doc][i]] = k
    <3>1. \A k \in Key : (View[doc][k])' = View[doc][k]
      BY <1>1 DEF View, Prefix
    <3>2. written'[p] + 1 = written[p] + 2
      BY <1>1
    <3> QED BY <1>1, <2>1, <3>1, <3>2 DEF LoneBackfiller
  <2>6. CASE k = KeyOf[leg]
    BY <1>2, <2>2, <2>4, <2>6 DEF Ledger
  <2>7. CASE k # KeyOf[leg]
    <3>1. fin_txn'[k] = fin_txn[k]
      BY <1>2, <2>2, <2>7 DEF Ledger
    <3>2. CASE fin_txn[k] = View[doc][k]
      BY <3>1, <3>2
    <3>3. CASE /\ fin_txn[k] = NoLeg
               /\ \E i \in written[p] + 1 .. Len(Project[doc]) : KeyOf[Project[doc][i]] = k
      <4>1. PICK i \in written[p] + 1 .. Len(Project[doc]) : KeyOf[Project[doc][i]] = k
        BY <3>3
      <4>2. i # written[p] + 1
        BY <4>1, <2>7
      <4>3. i \in written[p] + 2 .. Len(Project[doc])
        BY <1>1, <2>2, <4>1, <4>2
      <4> QED BY <3>1, <3>3, <4>1, <4>3
    <3> QED BY <2>1, <2>5, <3>2, <3>3 DEF LoneBackfiller
  <2> QED BY <2>6, <2>7
<1> QED BY <1>1, <1>3, <1>4, StaySafe

(* The whole content is written: a lone projection shows it.               *)
LEMMA WrittenIsView ==
  ASSUME Invariant, NEW p \in Proc, AllWritten(p), p \in Projector, p \notin dirty
  PROVE  fin_txn = View[doc] /\ seen[p] = doc /\ doc \in Doc
<1>1. p \in Active /\ pc[p] = "persist" /\ doc \in Doc
  BY DEF AllWritten, Active, Invariant, Budgeted, Typed, TypeOK
<1>2. seen[p] = doc /\ fin_txn = Prefix(doc, written[p])
  BY <1>1, AloneFacts DEF LoneProjector
<1> QED BY <1>1, <1>2 DEF AllWritten, View

(* A backfill leaves nothing but the document's legs to a ledger that was  *)
(* faithful.                                                               *)
LEMMA BackfilledIsView ==
  ASSUME Invariant, NEW p \in Proc, AllWritten(p), p \in Backfiller, p \notin dirty,
         blame = {}, ~Standing(failure)
  PROVE  fin_txn = View[doc]
<1>1. p \in Active /\ doc \in Doc /\ fin_txn \in Ledger
  BY DEF AllWritten, Active, Invariant, Budgeted, Typed, TypeOK
<1>2. LoneBackfiller(p) /\ written[p] = Len(Project[doc]) /\ Len(Project[doc]) \in Nat
  BY <1>1, AloneFacts, LenTyped DEF LoneBackfiller, AllWritten
<1>3. written[p] + 1 .. Len(Project[doc]) = {}
  BY <1>2
<1>4. \A k \in Key : fin_txn[k] = View[doc][k]
  BY <1>2, <1>3 DEF LoneBackfiller
<1> QED BY <1>1, <1>4, ViewTyped DEF Ledger

(* The view of an unchanged document does not change.                      *)
LEMMA ViewStays ==
  ASSUME doc' = doc
  PROVE  (View[doc])' = View[doc]
BY DEF View, Prefix

(* The steps on which a process stays, after reproject_source.             *)
LEMMA ProjectedSafe ==
  ASSUME Invariant, NEW p \in Proc, Projected(p)
  PROVE  Safe'
<1>t. Typed /\ TypeOK /\ Roles
  BY DEF Invariant, Budgeted, Typed
<1>1. /\ p \in Active /\ Active' = Active /\ dirty' = dirty /\ p \in Projector
      /\ p \notin Backfiller /\ pc'[p] \in {"resolve", "mark"}
      /\ UNCHANGED <<doc, fin_txn, failure, seen, written, row>>
  BY <1>t, DisjointRoles DEF Projected, AllWritten, Active, TypeOK, Projector
<1>2. blame' = blame \/ (p \notin dirty /\ blame' = {})
  BY DEF Projected, Repaired
<1>3. ASSUME p \notin dirty PROVE LoneProjector(p)'
  <2>1. blame' = {}
    BY <1>3 DEF Projected, Repaired
  <2>2. fin_txn' = (View[doc])'
    BY <1>1, <1>3, WrittenIsView, ViewStays DEF Projected
  <2>3. p \in Replayer => row'[p] = failure'
    BY <1>1, <1>3, AloneFacts DEF LoneProjector
  <2> QED BY <1>1, <2>1, <2>2, <2>3 DEF LoneProjector
<1> QED BY <1>1, <1>2, <1>3, StaySafe

LEMMA GotoSafe ==
  ASSUME Invariant, NEW p \in Proc,
         \/ /\ p \in Writer \cup Replayer
            /\ pc[p] # "idle"
            /\ Goto(p, pc[p], IF p \in Writer THEN "record" ELSE "demote")
            /\ UNCHANGED <<doc, fin_txn, failure, seen, written, row>>
         \/ /\ Goto(p, "resolve", "resolve_write")
            /\ UNCHANGED <<doc, fin_txn, failure, seen, written, row>>
         \/ RecordFind(p)
         \/ MarkRaise(p)
  PROVE  Safe'
<1>t. Typed /\ TypeOK /\ Roles
  BY DEF Invariant, Budgeted, Typed
<1>p. {"record", "demote", "resolve_write", "record_write"} \subseteq PC \ {"idle"}
  BY DEF PC
<1>1. CASE /\ p \in Writer \cup Replayer
           /\ pc[p] # "idle"
           /\ Goto(p, pc[p], IF p \in Writer THEN "record" ELSE "demote")
           /\ UNCHANGED <<doc, fin_txn, failure, seen, written, row>>
  <2>1. /\ p \in Active /\ Active' = Active /\ dirty' = dirty /\ blame' = blame
        /\ pc'[p] \in {"record", "demote"} /\ p \in Projector /\ p \notin Backfiller
    BY <1>1, <1>t, <1>p, GotoActive, DisjointRoles DEF Projector
  <2>2. p \notin dirty => LoneProjector(p)'
    BY <1>1, <2>1, AloneFacts DEF LoneProjector
  <2> QED BY <2>1, <2>2, StaySafe
<1>2. CASE /\ Goto(p, "resolve", "resolve_write")
           /\ UNCHANGED <<doc, fin_txn, failure, seen, written, row>>
  <2>1. /\ p \in Active /\ Active' = Active /\ dirty' = dirty /\ blame' = blame
        /\ pc[p] = "resolve" /\ pc'[p] = "resolve_write"
        /\ p \in Projector /\ p \notin Backfiller
    BY <1>2, <1>t, <1>p, GotoActive, DisjointRoles DEF Goto, Roles, Projector
  <2>2. p \notin dirty => LoneProjector(p)'
    BY <1>2, <2>1, AloneFacts, ViewStays DEF LoneProjector
  <2> QED BY <2>1, <2>2, StaySafe
<1>3. CASE RecordFind(p)
  <2>1. /\ p \in Active /\ Active' = Active /\ dirty' = dirty /\ blame' = blame
        /\ pc[p] = "record" /\ pc'[p] = "record_write"
        /\ p \in Projector /\ p \notin Backfiller
    BY <1>3, <1>t, <1>p, GotoActive, DisjointRoles DEF RecordFind, Goto, Roles, Projector
  <2>2. row'[p] = failure'
    BY <1>3, <1>t DEF RecordFind, TypeOK
  <2>3. p \notin dirty => LoneProjector(p)'
    BY <2>1, <2>2 DEF LoneProjector
  <2> QED BY <2>1, <2>3, StaySafe
<1>4. CASE MarkRaise(p)
  <2>1. /\ p \in Active /\ Active' = Active /\ dirty' = dirty /\ blame' = blame
        /\ pc'[p] = "demote" /\ p \in Projector /\ p \notin Backfiller
    BY <1>4, <1>t, <1>p, GotoActive, DisjointRoles DEF MarkRaise, Goto, Roles, Projector
  <2>2. p \notin dirty => LoneProjector(p)'
    BY <1>4, <2>1, AloneFacts DEF LoneProjector, MarkRaise
  <2> QED BY <2>1, <2>2, StaySafe
<1> QED BY <1>1, <1>2, <1>3, <1>4

(* The steps on which a process ends.                                      *)
LEMMA ProjectionEnds ==
  ASSUME Invariant, NEW p \in Proc,
         BackfillSkip(p) \/ AdminDone(p) \/ BackfillDone(p) \/ Crash(p)
           \/ RecordRaise(p)
           \/ (Leave(p, blame \cup {"lost"}) /\ pc[p] # "idle")
  PROVE  Safe'
<1>t. Typed /\ TypeOK /\ Roles /\ Meetings
  BY DEF Invariant, Budgeted, Typed
<1>1. CASE Leave(p, blame \cup {"lost"}) /\ pc[p] # "idle"
  BY <1>1, <1>t, LeaveLone DEF Safe
<1>2. CASE Crash(p) \/ RecordRaise(p)
  BY <1>1, <1>2 DEF Crash, RecordRaise
<1>3. CASE BackfillSkip(p)
  <2>1. p \in Backfiller /\ p \in Active /\ pc[p] = "fetched" /\ Leave(p, blame)
        /\ doc \in Doc /\ fin_txn \in Ledger
    BY <1>3, <1>t DEF BackfillSkip, Roles, Active, TypeOK
  <2>2. ASSUME p \notin dirty, blame = {}, ~Standing(failure)
        PROVE  fin_txn = View[doc]
    <3>1. \A k \in Key : fin_txn[k] = View[doc][k]
      BY <2>1, <2>2, AloneFacts DEF LoneBackfiller
    <3> QED BY <2>1, <3>1, ViewTyped DEF Ledger
  <2>3. \/ p \in dirty \/ Standing(failure') \/ blame # {} \/ fin_txn' = (View[doc])'
    BY <1>3, <2>2, ViewStays DEF BackfillSkip
  <2> QED BY <1>t, <2>1, <2>3, LeaveLone DEF Safe
<1>4. CASE AdminDone(p)
  <2>1. pc[p] # "idle" /\ p \in Projector /\ Leave(p, Repaired(p))
    BY <1>4 DEF AdminDone, AllWritten, Projector
  <2>2. p \in dirty \/ fin_txn' = (View[doc])'
    BY <1>4, <2>1, WrittenIsView, ViewStays DEF AdminDone
  <2> QED BY <1>t, <2>1, <2>2, LeaveLone DEF Safe, Repaired
<1>5. CASE BackfillDone(p)
  <2>1. pc[p] # "idle" /\ Leave(p, blame)
    BY <1>5 DEF BackfillDone, AllWritten
  <2>2. \/ p \in dirty \/ Standing(failure') \/ blame # {} \/ fin_txn' = (View[doc])'
    BY <1>5, BackfilledIsView, ViewStays DEF BackfillDone
  <2> QED BY <1>t, <2>1, <2>2, LeaveLone DEF Safe
<1> QED BY <1>1, <1>2, <1>3, <1>4, <1>5

LEMMA QueueEnds ==
  ASSUME Invariant, NEW p \in Proc,
         (pc[p] = "resolve" /\ Leave(p, blame) /\ UNCHANGED <<doc, fin_txn, failure>>)
           \/ ResolveWrite(p) \/ ResolveRaise(p) \/ RecordWrite(p)
           \/ MarkResolved(p) \/ Demote(p) \/ DemoteRaise(p)
  PROVE  Safe'
<1>t. Typed /\ TypeOK /\ Roles /\ Meetings /\ Attempts
  BY DEF Invariant, Budgeted, Typed
<1>a. pc[p] # "idle" => p \in Active
  BY DEF Active
<1>1. CASE \/ pc[p] = "resolve" /\ Leave(p, blame) /\ UNCHANGED <<doc, fin_txn, failure>>
           \/ ResolveWrite(p) \/ ResolveRaise(p) \/ MarkResolved(p)
  <2>1. /\ pc[p] \in {"resolve", "resolve_write", "mark"} /\ p \in Projector
        /\ Leave(p, blame) /\ UNCHANGED <<doc, fin_txn>>
    BY <1>1, <1>t DEF ResolveWrite, ResolveRaise, MarkResolved, Roles, Projector
  <2>2. p \in dirty \/ fin_txn' = (View[doc])'
    BY <2>1, <1>a, AloneFacts, ViewStays DEF LoneProjector
  <2> QED BY <1>t, <2>1, <2>2, LeaveLone DEF Safe
<1>2. CASE RecordWrite(p)
  <2>1. pc[p] = "record_write" /\ p \in Projector /\ Leave(p, blame)
    BY <1>2, <1>t DEF RecordWrite, Roles, Projector
  <2>2. p \in dirty \/ Open(failure')
    BY <1>2, <2>1, <1>a, AloneFacts DEF RecordWrite, LoneProjector, Open, NonTerminal
  <2> QED BY <1>t, <2>1, <2>2, LeaveLone DEF Safe, Standing
<1>3. CASE Demote(p) \/ DemoteRaise(p)
  <2>1. /\ pc[p] = "demote" /\ p \in Projector /\ p \in Replayer
        /\ Leave(p, blame) /\ failure \in FailureRow
    BY <1>3, <1>t DEF Demote, DemoteRaise, Roles, Projector, TypeOK
  <2>2. Open(row[p]) /\ (p \in dirty \/ row[p] = failure)
    BY <1>t, <2>1, <1>a, AloneFacts DEF Attempts, LoneProjector
  <2>3. p \in dirty \/ Standing(failure')
    <3>1. CASE DemoteRaise(p)
      BY <2>2, <3>1 DEF DemoteRaise, Standing
    <3>2. CASE Demote(p)
      <4>1. p \in dirty \/ failure'.status \in {"permanently_failed", "retrying"}
        BY <2>1, <2>2, <3>2 DEF Demote, UpdateById, FailureRow
      <4> QED BY <4>1 DEF Standing, Open, NonTerminal
    <3> QED BY <1>3, <3>1, <3>2
  <2> QED BY <1>t, <2>1, <2>3, LeaveLone DEF Safe
<1> QED BY <1>1, <1>2, <1>3

-----------------------------------------------------------------------------
(* The invariant.                                                          *)

LEMMA InvariantInit == Init => Invariant
<1> SUFFICES ASSUME Init PROVE Invariant
  OBVIOUS
<1>1. Typed
  BY TypedInit
<1>2. RetryBudget
  BY DEF Init, RetryBudget, NoRow
<1>3. Active = {} /\ dirty = {}
  BY DEF Init, Active
<1>4. Meetings /\ Lone
  BY <1>3 DEF Meetings, Lone
<1>5. SettledLedgerIsFaithful
  BY DEF Init, SettledLedgerIsFaithful
<1> QED BY <1>1, <1>2, <1>4, <1>5 DEF Invariant, Budgeted

LEMMA InvariantNext == Invariant /\ [Next]_vars => Invariant'
<1> SUFFICES ASSUME Invariant, [Next]_vars PROVE Invariant'
  OBVIOUS
<1>1. Budgeted'
  BY TypedNext DEF Invariant
<1>2. Safe'
  <2>1. CASE UNCHANGED vars
    <3>1. Meetings' /\ SettledLedgerIsFaithful'
      BY <2>1 DEF vars, Invariant, Meetings, Active, SettledLedgerIsFaithful, Debt,
                  Standing, Open, View, Prefix
    <3>2. ASSUME NEW q \in Proc, LoneProjector(q)
          PROVE  LoneProjector(q)'
      <4>1. Prefix(doc, written[q])' = Prefix(doc, written[q])
        BY <2>1 DEF vars, Prefix
      <4>2. (View[doc])' = View[doc]
        BY <2>1, ViewStays DEF vars
      <4> QED BY <2>1, <3>2, <4>1, <4>2 DEF vars, LoneProjector
    <3>3. ASSUME NEW q \in Proc, LoneBackfiller(q)
          PROVE  LoneBackfiller(q)'
      <4>1. \A k \in Key : (View[doc][k])' = View[doc][k]
        BY <2>1 DEF vars, View, Prefix
      <4> QED BY <2>1, <3>3, <4>1 DEF vars, LoneBackfiller, Standing, Open
    <3>4. Active' = Active /\ dirty' = dirty /\ Active \subseteq Proc
      BY <2>1 DEF vars, Active
    <3>5. Lone'
      BY <3>2, <3>3, <3>4 DEF Invariant, Lone
    <3> QED BY <3>1, <3>5 DEF Safe
  <2>2. ASSUME NEW p \in Proc, NEW d \in Doc, CommitSource(p, d)
        PROVE  Safe'
    BY <2>2, EnterSafe
  <2>3. ASSUME NEW p \in Proc,
               AdminReproject(p) \/ ReplayRow(p) \/ BackfillFetch(p)
        PROVE  Safe'
    <3>1. doc \in Doc
      BY DEF Invariant, Budgeted, Typed, TypeOK
    <3> QED BY <2>3, <3>1, EnterSafe
  <2>4. ASSUME NEW p \in Proc, Raise(p)
        PROVE  Safe'
    <3>1. pc[p] # "idle"
      BY <2>4 DEF Raise, Projecting
    <3> QED BY <2>4, <3>1, GotoSafe, ProjectionEnds DEF Raise
  <2>5. ASSUME NEW p \in Proc, ResolveFind(p)
        PROVE  Safe'
    BY <2>5, GotoSafe, QueueEnds DEF ResolveFind
  <2> QED
    BY <2>1, <2>2, <2>3, <2>4, <2>5, ProjectSafe, UpsertSafe, ProjectedSafe,
       GotoSafe, ProjectionEnds, QueueEnds
       DEF Next, Reproject, HookStep, ReplayStep, BackfillStep, AdminStep
<1> QED BY <1>1, <1>2 DEF Invariant, Safe

(* IInv is an invariant for every number of writers, drivers, admins and   *)
(* backfills, every family of projections and every retry budget.          *)
THEOREM InductiveInvariant == Spec => []IInv
<1>1. Spec => []Invariant
  BY InvariantInit, InvariantNext, PTL DEF Spec
<1>2. []Invariant => []IInv
  BY IInvIsInvariant, PTL
<1> QED BY <1>1, <1>2

(* Every variable keeps its type.                                          *)
THEOREM TypeCorrect == Spec => []TypeOK
<1>1. IInv => TypeOK
  BY DEF IInv
<1> QED BY <1>1, InductiveInvariant, PTL

(* A ledger that nobody works on, no failure row stands for and nothing    *)
(* went wrong with holds exactly the legs of its document.                 *)
THEOREM SettledIsFaithful == Spec => []SettledLedgerIsFaithful
<1>1. IInv => SettledLedgerIsFaithful
  BY DEF IInv
<1> QED BY <1>1, InductiveInvariant, PTL

(* hook_after_source_write and the driver never leave an open row with no  *)
(* attempts left, nor give one up early.                                   *)
THEOREM BudgetKept == Spec => []RetryBudget
<1>1. IInv => RetryBudget
  BY DEF IInv
<1> QED BY <1>1, InductiveInvariant, PTL

(* A reproject_source that met nobody ends with a faithful ledger, from    *)
(* whatever ledger it started.                                             *)
THEOREM LoneProjectionIsFaithful == Spec => []LoneProjectionHeals
<1>1. IInv => LoneProjectionHeals
  <2> SUFFICES ASSUME IInv, NEW p \in Projector, AllWritten(p), p \notin dirty
               PROVE  fin_txn = View[doc]
    BY DEF LoneProjectionHeals
  <2>1. p \in Proc /\ Invariant
    BY IInvIsInvariant DEF Proc, Projector
  <2> QED BY <2>1, WrittenIsView
<1> QED BY <1>1, InductiveInvariant, PTL

-----------------------------------------------------------------------------
(* The contract.                                                           *)

(* Every step is a request's commit, a start that changes nothing else, or *)
(* a step of a process that is already running.                            *)
LEMMA StepKinds ==
  ASSUME Typed, Next
  PROVE  /\ doc' = doc \/ (fin_txn' = fin_txn /\ Active' # {})
         /\ Active # {} \/ (fin_txn' = fin_txn /\ Active' # {})
<1>t. TypeOK
  BY DEF Typed
<1>1. PICK p \in Proc :
        \/ \E d \in Doc : CommitSource(p, d)
        \/ Reproject(p) \/ HookStep(p) \/ ReplayStep(p)
        \/ BackfillStep(p) \/ AdminStep(p) \/ Crash(p)
  BY DEF Next
<1>2. ASSUME Enter(p, FirstDelete) \/ Enter(p, "fetched")
      PROVE  Active' # {}
  <2>1. {FirstDelete, "fetched"} \subseteq PC \ {"idle"}
    BY DEF FirstDelete, PC, Projecting
  <2> QED BY <1>2, <2>1, EnterActive
<1>3. CASE (\E d \in Doc : CommitSource(p, d)) \/ AdminReproject(p) \/ ReplayRow(p)
             \/ BackfillFetch(p)
  BY <1>2, <1>3 DEF CommitSource, AdminReproject, ReplayRow, BackfillFetch
<1>4. CASE Reproject(p)
  <2>1. pc[p] # "idle" /\ doc' = doc
    BY <1>4 DEF Reproject, DeleteCascade, DeleteExact, ReadSource, UpsertLeg, Projected,
                Raise, Goto, AllWritten, Projecting
  <2> QED BY <2>1 DEF Active
<1>5. CASE HookStep(p) \/ MarkResolved(p) \/ MarkRaise(p) \/ Demote(p) \/ DemoteRaise(p)
  <2>1. pc[p] # "idle" /\ doc' = doc
    BY <1>5 DEF HookStep, ResolveFind, ResolveWrite, ResolveRaise, RecordFind, RecordWrite,
                RecordRaise, MarkResolved, MarkRaise, Demote, DemoteRaise, Goto
  <2> QED BY <2>1 DEF Active
<1>6. CASE BackfillSkip(p) \/ BackfillDelete(p) \/ BackfillDone(p) \/ AdminDone(p) \/ Crash(p)
  <2>1. pc[p] # "idle" /\ doc' = doc
    BY <1>6 DEF BackfillSkip, BackfillDelete, BackfillDone, AdminDone, Crash, Goto, AllWritten
  <2> QED BY <2>1 DEF Active
<1> QED BY <1>1, <1>3, <1>4, <1>5, <1>6 DEF ReplayStep, BackfillStep, AdminStep

Reasons == {"running", "queued", "overlap", "lost"}

LEMMA ContractInit == Init => Contract!Init
<1> SUFFICES ASSUME Init PROVE Contract!Init
  OBVIOUS
<1>1. Active = {} /\ ~Standing(failure) /\ blame = {}
  BY DEF Init, Active, Standing, Open, NonTerminal, NoRow
<1> QED BY <1>1 DEF Init, Contract!Init, Debt

LEMMA ContractNext ==
  Invariant /\ Invariant' /\ [Next]_vars => [Contract!Next]_(Contract!vars)
<1> SUFFICES ASSUME Invariant, Invariant', [Next]_vars
             PROVE  [Contract!Next]_(Contract!vars)
  OBVIOUS
<1>1. CASE UNCHANGED vars
  <2>1. Debt' = Debt
    BY <1>1 DEF vars, Debt, Active, Standing, Open
  <2> QED BY <1>1, <2>1 DEF vars, Contract!vars
<1>2. CASE Next
  <2>1. /\ doc' = doc \/ (fin_txn' = fin_txn /\ Active' # {})
        /\ Active # {} \/ (fin_txn' = fin_txn /\ Active' # {})
    BY <1>2, StepKinds DEF Invariant, Budgeted
  <2>2. doc' \in Doc /\ fin_txn' \in Ledger
    BY DEF Invariant, Budgeted, Typed, TypeOK
  <2>3. Debt' \subseteq Reasons
    BY DEF Invariant, Budgeted, Typed, TypeOK, Debt, Reasons
  <2>4. (Active # {} => Debt # {}) /\ (Active' # {} => Debt' # {})
    BY DEF Debt
  <2>5. Debt' = {} => fin_txn' = (View[doc])'
    BY DEF Invariant, SettledLedgerIsFaithful
  <2>6. CASE doc' # doc
    <3>1. Contract!Write
      BY <2>1, <2>2, <2>3, <2>4, <2>6 DEF Contract!Write, Reasons
    <3> QED BY <3>1 DEF Contract!Next
  <2>7. CASE doc' = doc /\ Debt = {}
    <3>1. Contract!Undertake
      BY <2>1, <2>3, <2>4, <2>7 DEF Contract!Undertake, Reasons
    <3> QED BY <3>1 DEF Contract!Next
  <2>8. CASE doc' = doc /\ Debt # {} /\ Debt' # {}
    <3>1. Contract!Repair
      BY <2>2, <2>3, <2>8 DEF Contract!Repair, Reasons
    <3> QED BY <3>1 DEF Contract!Next
  <2>9. CASE doc' = doc /\ Debt # {} /\ Debt' = {}
    <3>1. Contract!Settle
      BY <2>5, <2>9, ViewStays DEF Contract!Settle
    <3> QED BY <3>1 DEF Contract!Next
  <2> QED BY <2>6, <2>7, <2>8, <2>9
<1> QED BY <1>1, <1>2

(* fin_txn implements LedgerContract: a rebuildable view of the document,  *)
(* wrong only while somebody owes it a repair.                             *)
THEOREM ImplementsContract == Spec => KeepsContract
<1>1. Spec => []Invariant
  BY InvariantInit, InvariantNext, PTL DEF Spec
<1> QED BY <1>1, ContractInit, ContractNext, PTL DEF Spec, KeepsContract, Contract!Spec

-----------------------------------------------------------------------------
(* One driver.                                                             *)

OneDriver == \A p, q \in Replayer : p = q

(* The row that the only driver works on has not been given up.            *)
NotGivenUp ==
  \A p \in Replayer : pc[p] # "idle" => failure.status # "permanently_failed"

(* What a step can do to the queue and to the drivers.                     *)
LEMMA QueueSteps ==
  ASSUME Typed, NotGivenUp, OneDriver, Next
  PROVE  NotGivenUp'
         /\ (failure.status = "permanently_failed" => failure'.status # "retrying")
<1>t. TypeOK /\ Roles /\ failure \in FailureRow
  BY DEF Typed, TypeOK
<1>1. PICK p \in Proc :
        \/ \E d \in Doc : CommitSource(p, d)
        \/ Reproject(p) \/ HookStep(p) \/ ReplayStep(p)
        \/ BackfillStep(p) \/ AdminStep(p) \/ Crash(p)
  BY DEF Next
<1>2. ASSUME failure' = failure,
             \A q \in Replayer : pc[q] = "idle" /\ pc'[q] # "idle" => Open(failure)
      PROVE  NotGivenUp'
             /\ (failure.status = "permanently_failed" => failure'.status # "retrying")
  BY <1>2 DEF NotGivenUp, Open, NonTerminal
<1>3. ASSUME failure'.status \notin {"permanently_failed", "retrying"}
      PROVE  NotGivenUp'
             /\ (failure.status = "permanently_failed" => failure'.status # "retrying")
  BY <1>3 DEF NotGivenUp
<1>4. CASE (\E d \in Doc : CommitSource(p, d)) \/ AdminReproject(p) \/ BackfillFetch(p)
  <2>1. p \notin Replayer
    BY <1>4, DisjointRoles DEF CommitSource, AdminReproject, BackfillFetch, Enter,
                               Projector, Proc
  <2>2. failure' = failure /\ \A q \in Proc : q # p => pc'[q] = pc[q]
    BY <1>4, <1>t DEF CommitSource, AdminReproject, BackfillFetch, Enter, TypeOK
  <2> QED BY <1>2, <2>1, <2>2 DEF Proc
<1>5. CASE ReplayRow(p)
  BY <1>2, <1>5 DEF ReplayRow
<1>6. CASE Reproject(p) \/ Crash(p) \/ ResolveFind(p) \/ ResolveRaise(p) \/ RecordFind(p)
             \/ RecordRaise(p) \/ MarkRaise(p) \/ DemoteRaise(p) \/ BackfillSkip(p)
             \/ BackfillDelete(p) \/ BackfillDone(p) \/ AdminDone(p)
  <2>1. failure' = failure /\ pc[p] # "idle" /\ \A q \in Proc : q # p => pc'[q] = pc[q]
    <3>1. CASE Reproject(p)
      BY <3>1, <1>t DEF Reproject, DeleteCascade, DeleteExact, ReadSource, UpsertLeg,
                Projected, Raise, Goto, Leave, AllWritten, Projecting, TypeOK
    <3>2. CASE ~Reproject(p)
      BY <1>6, <3>2, <1>t DEF Crash, ResolveFind, ResolveRaise, RecordFind, RecordRaise,
                MarkRaise, DemoteRaise, BackfillSkip, BackfillDelete, BackfillDone,
                AdminDone, Goto, Leave, AllWritten, TypeOK
    <3> QED BY <3>1, <3>2
  <2> QED BY <1>2, <2>1 DEF Proc
<1>7. CASE ResolveWrite(p)
  BY <1>3, <1>7, <1>t DEF ResolveWrite, FailureRow
<1>8. CASE RecordWrite(p) \/ MarkResolved(p)
  <2>1. CASE failure' = failure
    <3>1. pc[p] # "idle" /\ \A q \in Proc : q # p => pc'[q] = pc[q]
      BY <1>8, <1>t DEF RecordWrite, MarkResolved, Leave, TypeOK
    <3> QED BY <1>2, <2>1, <3>1 DEF Proc
  <2>2. CASE failure' # failure
    BY <1>3, <1>8, <2>2, <1>t DEF RecordWrite, MarkResolved, UpdateById, FailureRow
  <2> QED BY <2>1, <2>2
<1>9. CASE Demote(p)
  <2>1. p \in Replayer /\ pc[p] # "idle" /\ pc'[p] = "idle"
    BY <1>9, <1>t DEF Demote, Roles, Leave, TypeOK
  <2>2. \A q \in Replayer : pc'[q] = "idle"
    BY <2>1 DEF OneDriver
  <2> QED BY <2>1, <2>2 DEF NotGivenUp
<1> QED
  BY <1>1, <1>4, <1>5, <1>6, <1>7, <1>8, <1>9
     DEF HookStep, ReplayStep, BackfillStep, AdminStep

(* While sweeps do not overlap, no driver puts a row that was given up     *)
(* back to "retrying".                                                     *)
THEOREM GivenUpStays == ASSUME OneDriver PROVE Spec => GivenUpIsNotRetried
<1>1. Spec => []Typed
  <2>1. Init => Budgeted
    BY InvariantInit DEF Invariant
  <2>2. Budgeted => Typed
    BY DEF Budgeted
  <2> QED BY <2>1, <2>2, TypedNext, PTL DEF Spec
<1>2. Init => NotGivenUp
  BY DEF Init, NotGivenUp, Proc
<1>3. Typed /\ NotGivenUp /\ [Next]_vars => NotGivenUp'
  <2>1. UNCHANGED vars /\ NotGivenUp => NotGivenUp'
    BY DEF vars, NotGivenUp
  <2> QED BY <2>1, QueueSteps
<1>4. Typed /\ NotGivenUp /\ [Next]_vars
        => [failure.status = "permanently_failed" => failure'.status # "retrying"]_vars
  BY QueueSteps
<1> QED BY <1>1, <1>2, <1>3, <1>4, PTL DEF Spec, GivenUpIsNotRetried
=============================================================================
