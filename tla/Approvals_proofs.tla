-------------------------- MODULE Approvals_proofs --------------------------
(***************************************************************************)
(* Proofs about Approvals, for every set of requests and payloads, solo or *)
(* not, with and without faults, and for every bound of revision_index.    *)
(***************************************************************************)
EXTENDS Approvals, TLAPS

(* What a request forgets when it ends is harmless.                        *)
LEMMA LeaveForgets ==
  ASSUME TypeOK, NEW r \in Request, Leave(r)
  PROVE  /\ pc' \in [Request -> PCs] /\ pc'[r] = "idle"
         /\ read' \in [Request -> Reads]
         /\ hand' \in [Request -> Payload \cup {Nothing}]
         /\ \A q \in Request : q # r => /\ pc'[q] = pc[q] /\ read'[q] = read[q]
                                       /\ hand'[q] = hand[q]
BY DEF TypeOK, Leave, PCs, Reads, NoRead

(* What the five swaps do, field by field.                                 *)
SameRow ==
  /\ approval'.payload = approval.payload
  /\ approval'.revision_index = approval.revision_index

Moves(r, from, to, status) ==
  /\ pc[r] = from
  /\ pc' = [pc EXCEPT ![r] = to]
  /\ approval' \in Rows
  /\ approval'.status = status
  /\ UNCHANGED <<revisions, audits, posted, read, hand>>

Autos(r) ==
  /\ approval.status = "PENDING_APPROVAL"
  /\ Moves(r, "auto", "auto_approved", "APPROVED")
  /\ SameRow

Approves(r) ==
  /\ approval.status = "PENDING_APPROVAL"
  /\ Moves(r, "approve", "approved", "APPROVED")
  /\ SameRow

Rejects(r) ==
  /\ approval.status = "PENDING_APPROVAL"
  /\ Moves(r, "reject", "rejected", "REJECTED")
  /\ SameRow

Withdraws(r) ==
  /\ approval.status = "PENDING_APPROVAL"
  /\ Moves(r, "withdraw", "withdrawn", "WITHDRAWN")
  /\ SameRow

Resubmits(r) ==
  /\ approval.status \in Closed
  /\ Moves(r, "resubmit", "edited", "PENDING_APPROVAL")
  /\ approval'.payload = hand[r]
  /\ approval'.revision_index = read[r].revision_index + 1

Loses(r) == Leave(r) /\ UNCHANGED <<approval, revisions, audits, posted>>

LEMMA RowsTyped ==
  ASSUME TypeOK, NEW s \in Statuses, NEW c \in {"none", "tenant", "solo_owner"}
  PROVE  /\ [approval EXCEPT !.status = s] \in Rows
         /\ [approval EXCEPT !.status = s, !.checker = c] \in Rows
         /\ [approval EXCEPT !.status = s].status = s
         /\ [approval EXCEPT !.status = s, !.checker = c].status = s
         /\ [approval EXCEPT !.status = s].payload = approval.payload
         /\ [approval EXCEPT !.status = s].revision_index = approval.revision_index
         /\ [approval EXCEPT !.status = s, !.checker = c].payload = approval.payload
         /\ [approval EXCEPT !.status = s, !.checker = c].revision_index
              = approval.revision_index
BY DEF TypeOK, Rows

LEMMA SwapCases ==
  ASSUME TypeOK, NEW r \in Request
  PROVE  /\ AutoApprove(r) => Autos(r) \/ Loses(r)
         /\ Approve(r) => Approves(r) \/ Loses(r)
         /\ Reject(r) => Rejects(r) \/ Loses(r)
         /\ Withdraw(r) => Withdraws(r) \/ Loses(r)
         /\ Resubmit(r) => Resubmits(r) \/ Loses(r)
<1>0. {"APPROVED", "REJECTED", "WITHDRAWN", "PENDING_APPROVAL"} \subseteq Statuses
  BY DEF Statuses, Closed, Decided
<1>1. AutoApprove(r) => Autos(r) \/ Loses(r)
  <2>1. ASSUME AutoApprove(r), approval.status = "PENDING_APPROVAL"
        PROVE  Autos(r)
    <3>1. approval' = [approval EXCEPT !.status = "APPROVED", !.checker = "solo_owner"]
      BY <2>1 DEF AutoApprove, Swap
    <3>2. /\ approval' \in Rows /\ approval'.status = "APPROVED"
          /\ SameRow
      BY <1>0, <3>1, RowsTyped DEF SameRow
    <3> QED BY <2>1, <3>2 DEF AutoApprove, Swap, Autos, Moves
  <2>2. ASSUME AutoApprove(r), approval.status # "PENDING_APPROVAL"
        PROVE  Loses(r)
    BY <2>2 DEF AutoApprove, Swap, Loses
  <2> QED BY <2>1, <2>2
<1>2. Approve(r) => Approves(r) \/ Loses(r)
  <2>1. ASSUME Approve(r), approval.status = "PENDING_APPROVAL"
        PROVE  Approves(r)
    <3>1. approval' = [approval EXCEPT !.status = "APPROVED", !.checker = "tenant"]
      BY SMTT(40), <2>1 DEF Approve, Swap
    <3>2. /\ approval' \in Rows /\ approval'.status = "APPROVED"
          /\ SameRow
      BY ZenonT(60), <1>0, <3>1, RowsTyped DEF SameRow
    <3> QED BY <2>1, <3>2 DEF Approve, Swap, Approves, Moves
  <2>2. ASSUME Approve(r), approval.status # "PENDING_APPROVAL"
        PROVE  Loses(r)
    BY <2>2 DEF Approve, Swap, Loses
  <2> QED BY <2>1, <2>2
<1>3. Reject(r) => Rejects(r) \/ Loses(r)
  <2>1. ASSUME Reject(r), approval.status = "PENDING_APPROVAL"
        PROVE  Rejects(r)
    <3>1. approval' = [approval EXCEPT !.status = "REJECTED", !.checker = "tenant"]
      BY <2>1 DEF Reject, Swap
    <3>2. /\ approval' \in Rows /\ approval'.status = "REJECTED"
          /\ SameRow
      BY ZenonT(60), <1>0, <3>1, RowsTyped DEF SameRow
    <3> QED BY <2>1, <3>2 DEF Reject, Swap, Rejects, Moves
  <2>2. ASSUME Reject(r), approval.status # "PENDING_APPROVAL"
        PROVE  Loses(r)
    BY <2>2 DEF Reject, Swap, Loses
  <2> QED BY <2>1, <2>2
<1>4. Withdraw(r) => Withdraws(r) \/ Loses(r)
  <2>1. ASSUME Withdraw(r), approval.status = "PENDING_APPROVAL"
        PROVE  Withdraws(r)
    <3>1. approval' = [approval EXCEPT !.status = "WITHDRAWN"]
      BY <2>1 DEF Withdraw, Swap
    <3>2. /\ approval' \in Rows /\ approval'.status = "WITHDRAWN"
          /\ SameRow
      BY <1>0, <3>1, RowsTyped DEF SameRow
    <3> QED BY <2>1, <3>2 DEF Withdraw, Swap, Withdraws, Moves
  <2>2. ASSUME Withdraw(r), approval.status # "PENDING_APPROVAL"
        PROVE  Loses(r)
    BY <2>2 DEF Withdraw, Swap, Loses
  <2> QED BY <2>1, <2>2
<1>5. Resubmit(r) => Resubmits(r) \/ Loses(r)
  <2>1. hand[r] \in Payload \cup {Nothing} /\ read[r].revision_index + 1 \in Nat
    BY DEF TypeOK, Reads
  <2>2. ASSUME Resubmit(r), approval.status \in Closed
        PROVE  Resubmits(r)
    <3>1. approval' = [approval EXCEPT !.status = "PENDING_APPROVAL", !.payload = hand[r],
                                       !.revision_index = read[r].revision_index + 1,
                                       !.checker = "none"]
      BY <2>2 DEF Resubmit, Swap
    <3>2. /\ approval' \in Rows /\ approval'.status = "PENDING_APPROVAL"
          /\ approval'.payload = hand[r]
          /\ approval'.revision_index = read[r].revision_index + 1
      BY <1>0, <2>1, <3>1 DEF TypeOK, Rows
    <3> QED BY <2>2, <3>2 DEF Resubmit, Swap, Resubmits, Moves
  <2>3. ASSUME Resubmit(r), approval.status \notin Closed
        PROVE  Loses(r)
    BY <2>3 DEF Resubmit, Swap, Loses
  <2> QED BY <2>2, <2>3
<1> QED BY <1>1, <1>2, <1>3, <1>4, <1>5

-----------------------------------------------------------------------------
(* Types.                                                                  *)

LEMMA TypeInit == Init => TypeOK
BY DEF Init, TypeOK, NoApproval, Pending, NoRead, Rows, Reads, Statuses, Closed,
   Decided, PCs, Actions, Decisions

LEMMA TypeStep ==
  ASSUME TypeOK, [Next]_vars
  PROVE  TypeOK'
<1>1. ASSUME NEW r \in Request, NEW p \in Payload, SubmitFind(r, p)
      PROVE  TypeOK'
  BY <1>1 DEF SubmitFind, Goto, TypeOK, NoRead, Rows, Reads, Statuses, Closed,
     Decided, PCs, Actions, Decisions
<1>2. ASSUME NEW r \in Request, Insert(r)
      PROVE  TypeOK'
  BY <1>2 DEF Insert, Goto, Pending, TypeOK, NoRead, Rows, Reads, Statuses, Closed,
     Decided, PCs, Actions, Decisions
<1>3. ASSUME NEW r \in Request, InsertLost(r)
      PROVE  TypeOK'
  BY <1>3, LeaveForgets DEF InsertLost, TypeOK, NoRead, Rows, Reads, Statuses,
     Closed, Decided, PCs, Actions, Decisions
<1>4. ASSUME NEW r \in Request, AuditSubmit(r)
      PROVE  TypeOK'
  BY ZenonT(60), <1>4, LeaveForgets DEF AuditSubmit, AuditThenGo, AuditThenLeave, Goto, TypeOK,
     NoRead, Rows, Reads, Statuses, Closed, Decided, PCs, Actions, Decisions
<1>5. ASSUME NEW r \in Request, CheckFind(r, "approve")
      PROVE  TypeOK'
  BY <1>5 DEF CheckFind, Goto, TypeOK, NoRead, Rows, Reads, Statuses, Closed,
     Decided, PCs, Actions, Decisions
<1>6. ASSUME NEW r \in Request, Approve(r)
      PROVE  TypeOK'
  <2>1. CASE Approves(r)
    BY <2>1 DEF Approves, Moves, TypeOK, NoRead, Rows, Reads, Statuses, Closed,
       Decided, PCs, Actions, Decisions
  <2>2. CASE Loses(r)
    BY <2>2, LeaveForgets DEF Loses, TypeOK, NoRead, Rows, Reads, Statuses, Closed,
       Decided, PCs, Actions, Decisions
  <2> QED BY <1>6, <2>1, <2>2, SwapCases
<1>7. ASSUME NEW r \in Request, AuditApprove(r)
      PROVE  TypeOK'
  BY <1>7 DEF AuditApprove, AuditThenGo, Goto, TypeOK, NoRead, Rows, Reads,
     Statuses, Closed, Decided, PCs, Actions, Decisions
<1>8. ASSUME NEW r \in Request, CheckFind(r, "reject")
      PROVE  TypeOK'
  BY <1>8 DEF CheckFind, Goto, TypeOK, NoRead, Rows, Reads, Statuses, Closed,
     Decided, PCs, Actions, Decisions
<1>9. ASSUME NEW r \in Request, Reject(r)
      PROVE  TypeOK'
  <2>1. CASE Rejects(r)
    BY <2>1 DEF Rejects, Moves, TypeOK, NoRead, Rows, Reads, Statuses, Closed,
       Decided, PCs, Actions, Decisions
  <2>2. CASE Loses(r)
    BY <2>2, LeaveForgets DEF Loses, TypeOK, NoRead, Rows, Reads, Statuses, Closed,
       Decided, PCs, Actions, Decisions
  <2> QED BY <1>9, <2>1, <2>2, SwapCases
<1>10. ASSUME NEW r \in Request, AuditReject(r)
       PROVE  TypeOK'
  BY <1>10, LeaveForgets DEF AuditReject, AuditThenLeave, TypeOK, NoRead, Rows,
     Reads, Statuses, Closed, Decided, PCs, Actions, Decisions
<1>11. ASSUME NEW r \in Request, WithdrawFind(r)
       PROVE  TypeOK'
  BY <1>11 DEF WithdrawFind, Goto, TypeOK, NoRead, Rows, Reads, Statuses, Closed,
     Decided, PCs, Actions, Decisions
<1>12. ASSUME NEW r \in Request, Withdraw(r)
       PROVE  TypeOK'
  <2>1. CASE Withdraws(r)
    BY <2>1 DEF Withdraws, Moves, TypeOK, NoRead, Rows, Reads, Statuses, Closed,
       Decided, PCs, Actions, Decisions
  <2>2. CASE Loses(r)
    BY <2>2, LeaveForgets DEF Loses, TypeOK, NoRead, Rows, Reads, Statuses, Closed,
       Decided, PCs, Actions, Decisions
  <2> QED BY <1>12, <2>1, <2>2, SwapCases
<1>13. ASSUME NEW r \in Request, AuditWithdraw(r)
       PROVE  TypeOK'
  BY <1>13, LeaveForgets DEF AuditWithdraw, AuditThenLeave, TypeOK, NoRead, Rows,
     Reads, Statuses, Closed, Decided, PCs, Actions, Decisions
<1>14. ASSUME NEW r \in Request, NEW p \in Payload, EditFind(r, p)
       PROVE  TypeOK'
  BY <1>14 DEF EditFind, Goto, Seen, TypeOK, NoRead, Rows, Reads, Statuses, Closed,
     Decided, PCs, Actions, Decisions
<1>15. ASSUME NEW r \in Request, Revise(r)
       PROVE  TypeOK'
  BY <1>15 DEF Revise, Goto, Revision, TypeOK, NoRead, Rows, Reads, Statuses,
     Closed, Decided, PCs, Actions, Decisions
<1>16. ASSUME NEW r \in Request, ReviseRefused(r)
       PROVE  TypeOK'
  BY <1>16, LeaveForgets DEF ReviseRefused, TypeOK, NoRead, Rows, Reads, Statuses,
     Closed, Decided, PCs, Actions, Decisions
<1>17. ASSUME NEW r \in Request, Resubmit(r)
       PROVE  TypeOK'
  <2>1. CASE Resubmits(r)
    BY <2>1 DEF Resubmits, Moves, TypeOK, NoRead, Rows, Reads, Statuses, Closed,
       Decided, PCs, Actions, Decisions
  <2>2. CASE Loses(r)
    BY <2>2, LeaveForgets DEF Loses, TypeOK, NoRead, Rows, Reads, Statuses, Closed,
       Decided, PCs, Actions, Decisions
  <2> QED BY <1>17, <2>1, <2>2, SwapCases
<1>18. ASSUME NEW r \in Request, AuditEdit(r)
       PROVE  TypeOK'
  BY ZenonT(60), <1>18, LeaveForgets DEF AuditEdit, AuditThenGo, AuditThenLeave, Goto, TypeOK,
     NoRead, Rows, Reads, Statuses, Closed, Decided, PCs, Actions, Decisions
<1>19. ASSUME NEW r \in Request, AutoApprove(r)
       PROVE  TypeOK'
  <2>1. CASE Autos(r)
    BY <2>1 DEF Autos, Moves, TypeOK, NoRead, Rows, Reads, Statuses, Closed,
       Decided, PCs, Actions, Decisions
  <2>2. CASE Loses(r)
    BY <2>2, LeaveForgets DEF Loses, TypeOK, NoRead, Rows, Reads, Statuses, Closed,
       Decided, PCs, Actions, Decisions
  <2> QED BY <1>19, <2>1, <2>2, SwapCases
<1>20. ASSUME NEW r \in Request, AuditAutoApprove(r)
       PROVE  TypeOK'
  BY <1>20 DEF AuditAutoApprove, AuditThenGo, Goto, TypeOK, NoRead, Rows, Reads,
     Statuses, Closed, Decided, PCs, Actions, Decisions
<1>21. ASSUME NEW r \in Request, ExecuteFind(r)
       PROVE  TypeOK'
  <2>1. Seen \in Reads
    BY DEF TypeOK, Seen, Rows, Reads
  <2>2. CASE approval.status = "APPROVED"
    BY <1>21, <2>1, <2>2 DEF ExecuteFind, TypeOK, PCs
  <2>3. CASE approval.status # "APPROVED"
    BY <1>21, <2>3, LeaveForgets DEF ExecuteFind, TypeOK
  <2> QED BY <2>2, <2>3
<1>22. ASSUME NEW r \in Request, Write(r)
       PROVE  TypeOK'
  BY <1>22 DEF Write, Goto, TypeOK, NoRead, Rows, Reads, Statuses, Closed, Decided,
     PCs, Actions, Decisions
<1>23. ASSUME NEW r \in Request, WriteRefused(r)
       PROVE  TypeOK'
  BY <1>23 DEF WriteRefused, Goto, TypeOK, NoRead, Rows, Reads, Statuses, Closed,
     Decided, PCs, Actions, Decisions
<1>24. ASSUME NEW r \in Request, Post(r)
       PROVE  TypeOK'
  BY <1>24 DEF Post, Goto, TypeOK, NoRead, Rows, Reads, Statuses, Closed, Decided,
     PCs, Actions, Decisions
<1>25. ASSUME NEW r \in Request, AuditExecute(r)
       PROVE  TypeOK'
  BY <1>25, LeaveForgets DEF AuditExecute, AuditThenLeave, TypeOK, NoRead, Rows,
     Reads, Statuses, Closed, Decided, PCs, Actions, Decisions
<1>26. ASSUME NEW r \in Request, ExecutionFailed(r)
       PROVE  TypeOK'
  BY <1>26 DEF ExecutionFailed, Goto, TypeOK, NoRead, Rows, Reads, Statuses, Closed,
     Decided, PCs, Actions, Decisions
<1>27. ASSUME NEW r \in Request, AuditExecuteFail(r)
       PROVE  TypeOK'
  BY <1>27, LeaveForgets DEF AuditExecuteFail, AuditThenLeave, TypeOK, NoRead, Rows,
     Reads, Statuses, Closed, Decided, PCs, Actions, Decisions
<1>28. ASSUME NEW r \in Request, Raise(r)
       PROVE  TypeOK'
  BY <1>28 DEF Raise, TypeOK, NoRead, Rows, Reads, Statuses, Closed, Decided, PCs,
     Actions, Decisions
<1>29. ASSUME NEW r \in Request, Die(r)
       PROVE  TypeOK'
  BY <1>29, LeaveForgets DEF Die, TypeOK, NoRead, Rows, Reads, Statuses, Closed,
     Decided, PCs, Actions, Decisions
<1>30. CASE UNCHANGED vars
  BY <1>30 DEF vars, TypeOK, NoRead, Rows, Reads, Statuses, Closed, Decided, PCs,
     Actions, Decisions
<1> QED
  BY <1>1, <1>2, <1>3, <1>4, <1>5, <1>6, <1>7, <1>8, <1>9, <1>10, <1>11, <1>12,
     <1>13, <1>14, <1>15, <1>16, <1>17, <1>18, <1>19, <1>20, <1>21, <1>22, <1>23,
     <1>24, <1>25, <1>26, <1>27, <1>28, <1>29, <1>30 DEF Next, Create, Check,
     TakeBack, Edit, Execute

-----------------------------------------------------------------------------
(* One request executes.                                                   *)

LEMMA OneExecutesInit == Init => OneExecutes
BY DEF Init, OneExecutes, Executing, Before

LEMMA OneExecutesStep ==
  ASSUME TypeOK, OneExecutes, [Next]_vars
  PROVE  OneExecutes'
<1>1. ASSUME NEW r \in Request, NEW p \in Payload, SubmitFind(r, p)
      PROVE  OneExecutes'
  BY <1>1 DEF SubmitFind, Goto, TypeOK, OneExecutes, Executing, Before, Closed,
     SameRow
<1>2. ASSUME NEW r \in Request, Insert(r)
      PROVE  OneExecutes'
  BY <1>2 DEF Insert, Goto, Pending, TypeOK, OneExecutes, Executing, Before, Closed,
     SameRow
<1>3. ASSUME NEW r \in Request, InsertLost(r)
      PROVE  OneExecutes'
  BY <1>3, LeaveForgets DEF InsertLost, TypeOK, OneExecutes, Executing, Before,
     Closed, SameRow
<1>4. ASSUME NEW r \in Request, AuditSubmit(r)
      PROVE  OneExecutes'
  BY <1>4, LeaveForgets DEF AuditSubmit, AuditThenGo, AuditThenLeave, Goto, TypeOK,
     OneExecutes, Executing, Before, Closed, SameRow
<1>5. ASSUME NEW r \in Request, CheckFind(r, "approve")
      PROVE  OneExecutes'
  BY <1>5 DEF CheckFind, Goto, TypeOK, OneExecutes, Executing, Before, Closed, SameRow
<1>6. ASSUME NEW r \in Request, Approve(r)
      PROVE  OneExecutes'
  <2>1. CASE Approves(r)
    BY <2>1 DEF Approves, Moves, TypeOK, OneExecutes, Executing, Before, Closed,
       SameRow
  <2>2. CASE Loses(r)
    BY <2>2, LeaveForgets DEF Loses, TypeOK, OneExecutes, Executing, Before, Closed,
       SameRow
  <2> QED BY <1>6, <2>1, <2>2, SwapCases
<1>7. ASSUME NEW r \in Request, AuditApprove(r)
      PROVE  OneExecutes'
  BY <1>7 DEF AuditApprove, AuditThenGo, Goto, TypeOK, OneExecutes, Executing,
     Before, Closed, SameRow
<1>8. ASSUME NEW r \in Request, CheckFind(r, "reject")
      PROVE  OneExecutes'
  BY <1>8 DEF CheckFind, Goto, TypeOK, OneExecutes, Executing, Before, Closed, SameRow
<1>9. ASSUME NEW r \in Request, Reject(r)
      PROVE  OneExecutes'
  <2>1. CASE Rejects(r)
    BY <2>1 DEF Rejects, Moves, TypeOK, OneExecutes, Executing, Before, Closed,
       SameRow
  <2>2. CASE Loses(r)
    BY <2>2, LeaveForgets DEF Loses, TypeOK, OneExecutes, Executing, Before, Closed,
       SameRow
  <2> QED BY <1>9, <2>1, <2>2, SwapCases
<1>10. ASSUME NEW r \in Request, AuditReject(r)
       PROVE  OneExecutes'
  BY <1>10, LeaveForgets DEF AuditReject, AuditThenLeave, TypeOK, OneExecutes,
     Executing, Before, Closed, SameRow
<1>11. ASSUME NEW r \in Request, WithdrawFind(r)
       PROVE  OneExecutes'
  BY <1>11 DEF WithdrawFind, Goto, TypeOK, OneExecutes, Executing, Before, Closed,
     SameRow
<1>12. ASSUME NEW r \in Request, Withdraw(r)
       PROVE  OneExecutes'
  <2>1. CASE Withdraws(r)
    BY <2>1 DEF Withdraws, Moves, TypeOK, OneExecutes, Executing, Before, Closed,
       SameRow
  <2>2. CASE Loses(r)
    BY <2>2, LeaveForgets DEF Loses, TypeOK, OneExecutes, Executing, Before, Closed,
       SameRow
  <2> QED BY <1>12, <2>1, <2>2, SwapCases
<1>13. ASSUME NEW r \in Request, AuditWithdraw(r)
       PROVE  OneExecutes'
  BY <1>13, LeaveForgets DEF AuditWithdraw, AuditThenLeave, TypeOK, OneExecutes,
     Executing, Before, Closed, SameRow
<1>14. ASSUME NEW r \in Request, NEW p \in Payload, EditFind(r, p)
       PROVE  OneExecutes'
  BY <1>14 DEF EditFind, Goto, Seen, TypeOK, OneExecutes, Executing, Before, Closed,
     SameRow
<1>15. ASSUME NEW r \in Request, Revise(r)
       PROVE  OneExecutes'
  BY <1>15 DEF Revise, Goto, Revision, TypeOK, OneExecutes, Executing, Before,
     Closed, SameRow
<1>16. ASSUME NEW r \in Request, ReviseRefused(r)
       PROVE  OneExecutes'
  BY <1>16, LeaveForgets DEF ReviseRefused, TypeOK, OneExecutes, Executing, Before,
     Closed, SameRow
<1>17. ASSUME NEW r \in Request, Resubmit(r)
       PROVE  OneExecutes'
  <2>1. CASE Resubmits(r)
    BY <2>1 DEF Resubmits, Moves, TypeOK, OneExecutes, Executing, Before, Closed,
       SameRow
  <2>2. CASE Loses(r)
    BY <2>2, LeaveForgets DEF Loses, TypeOK, OneExecutes, Executing, Before, Closed,
       SameRow
  <2> QED BY <1>17, <2>1, <2>2, SwapCases
<1>18. ASSUME NEW r \in Request, AuditEdit(r)
       PROVE  OneExecutes'
  BY <1>18, LeaveForgets DEF AuditEdit, AuditThenGo, AuditThenLeave, Goto, TypeOK,
     OneExecutes, Executing, Before, Closed, SameRow
<1>19. ASSUME NEW r \in Request, AutoApprove(r)
       PROVE  OneExecutes'
  <2>1. CASE Autos(r)
    BY <2>1 DEF Autos, Moves, TypeOK, OneExecutes, Executing, Before, Closed, SameRow
  <2>2. CASE Loses(r)
    BY <2>2, LeaveForgets DEF Loses, TypeOK, OneExecutes, Executing, Before, Closed,
       SameRow
  <2> QED BY <1>19, <2>1, <2>2, SwapCases
<1>20. ASSUME NEW r \in Request, AuditAutoApprove(r)
       PROVE  OneExecutes'
  BY <1>20 DEF AuditAutoApprove, AuditThenGo, Goto, TypeOK, OneExecutes, Executing,
     Before, Closed, SameRow
<1>21. ASSUME NEW r \in Request, ExecuteFind(r)
       PROVE  OneExecutes'
  <2>1. CASE approval.status = "APPROVED"
    BY <1>21, <2>1 DEF ExecuteFind, Seen, TypeOK, OneExecutes, Executing, Before,
       Closed, SameRow
  <2>2. CASE approval.status # "APPROVED"
    BY <1>21, <2>2, LeaveForgets DEF ExecuteFind, TypeOK, OneExecutes, Executing,
       Before, Closed, SameRow
  <2> QED BY <2>1, <2>2
<1>22. ASSUME NEW r \in Request, Write(r)
       PROVE  OneExecutes'
  BY <1>22 DEF Write, Goto, TypeOK, OneExecutes, Executing, Before, Closed, SameRow
<1>23. ASSUME NEW r \in Request, WriteRefused(r)
       PROVE  OneExecutes'
  BY <1>23 DEF WriteRefused, Goto, TypeOK, OneExecutes, Executing, Before, Closed,
     SameRow
<1>24. ASSUME NEW r \in Request, Post(r)
       PROVE  OneExecutes'
  BY <1>24 DEF Post, Goto, TypeOK, OneExecutes, Executing, Before, Closed, SameRow
<1>25. ASSUME NEW r \in Request, AuditExecute(r)
       PROVE  OneExecutes'
  BY <1>25, LeaveForgets DEF AuditExecute, AuditThenLeave, TypeOK, OneExecutes,
     Executing, Before, Closed, SameRow
<1>26. ASSUME NEW r \in Request, ExecutionFailed(r)
       PROVE  OneExecutes'
  BY <1>26 DEF ExecutionFailed, Goto, TypeOK, OneExecutes, Executing, Before,
     Closed, SameRow
<1>27. ASSUME NEW r \in Request, AuditExecuteFail(r)
       PROVE  OneExecutes'
  BY <1>27, LeaveForgets DEF AuditExecuteFail, AuditThenLeave, TypeOK, OneExecutes,
     Executing, Before, Closed, SameRow
<1>28. ASSUME NEW r \in Request, Raise(r)
       PROVE  OneExecutes'
  BY <1>28 DEF Raise, TypeOK, OneExecutes, Executing, Before, Closed, SameRow
<1>29. ASSUME NEW r \in Request, Die(r)
       PROVE  OneExecutes'
  BY <1>29, LeaveForgets DEF Die, TypeOK, OneExecutes, Executing, Before, Closed,
     SameRow
<1>30. CASE UNCHANGED vars
  BY <1>30 DEF vars, TypeOK, OneExecutes, Executing, Before, Closed, SameRow
<1> QED
  BY <1>1, <1>2, <1>3, <1>4, <1>5, <1>6, <1>7, <1>8, <1>9, <1>10, <1>11, <1>12,
     <1>13, <1>14, <1>15, <1>16, <1>17, <1>18, <1>19, <1>20, <1>21, <1>22, <1>23,
     <1>24, <1>25, <1>26, <1>27, <1>28, <1>29, <1>30 DEF Next, Create, Check,
     TakeBack, Edit, Execute

-----------------------------------------------------------------------------
(* The writer.                                                             *)

WriterInv == WriterRunsOnce /\ ExecutedIsOnRecord /\ DecisionIsAudited /\ WriterState

EditorInv == RevisionChain /\ EditNeverLoses /\ EditorState

LEMMA WriterInit == Init => WriterInv
BY DEF Init, WriterInv, WriterRunsOnce, ExecutedIsOnRecord, DecisionIsAudited,
   WriterState, NoApproval, Pending, Before

LEMMA WriterStep ==
  ASSUME TypeOK, OneExecutes, WriterInv, EditorInv, [Next]_vars
  PROVE  WriterInv'
<1>1. ASSUME NEW r \in Request, NEW p \in Payload, SubmitFind(r, p)
      PROVE  WriterInv'
  BY <1>1 DEF SubmitFind, Goto, TypeOK, OneExecutes, WriterInv, WriterRunsOnce,
     ExecutedIsOnRecord, DecisionIsAudited, WriterState, Executing, Before, Closed,
     Decided, Decisions, SameRow
<1>2. ASSUME NEW r \in Request, Insert(r)
      PROVE  WriterInv'
  BY <1>2 DEF Insert, Goto, Pending, TypeOK, OneExecutes, WriterInv, WriterRunsOnce,
     ExecutedIsOnRecord, DecisionIsAudited, WriterState, Executing, Before, Closed,
     Decided, Decisions, SameRow
<1>3. ASSUME NEW r \in Request, InsertLost(r)
      PROVE  WriterInv'
  BY <1>3, LeaveForgets DEF InsertLost, TypeOK, OneExecutes, WriterInv,
     WriterRunsOnce, ExecutedIsOnRecord, DecisionIsAudited, WriterState, Executing,
     Before, Closed, Decided, Decisions, SameRow
<1>4. ASSUME NEW r \in Request, AuditSubmit(r)
      PROVE  WriterInv'
  BY <1>4, LeaveForgets DEF AuditSubmit, AuditThenGo, AuditThenLeave, Goto, TypeOK,
     OneExecutes, WriterInv, WriterRunsOnce, ExecutedIsOnRecord, DecisionIsAudited,
     WriterState, Executing, Before, Closed, Decided, Decisions, SameRow
<1>5. ASSUME NEW r \in Request, CheckFind(r, "approve")
      PROVE  WriterInv'
  BY <1>5 DEF CheckFind, Goto, TypeOK, OneExecutes, WriterInv, WriterRunsOnce,
     ExecutedIsOnRecord, DecisionIsAudited, WriterState, Executing, Before, Closed,
     Decided, Decisions, SameRow
<1>6. ASSUME NEW r \in Request, Approve(r)
      PROVE  WriterInv'
  <2>1. CASE Approves(r)
    BY <2>1 DEF Approves, Moves, TypeOK, OneExecutes, WriterInv, WriterRunsOnce,
       ExecutedIsOnRecord, DecisionIsAudited, WriterState, Executing, Before,
       Closed, Decided, Decisions, SameRow
  <2>2. CASE Loses(r)
    BY <2>2, LeaveForgets DEF Loses, TypeOK, OneExecutes, WriterInv, WriterRunsOnce,
       ExecutedIsOnRecord, DecisionIsAudited, WriterState, Executing, Before,
       Closed, Decided, Decisions, SameRow
  <2> QED BY <1>6, <2>1, <2>2, SwapCases
<1>7. ASSUME NEW r \in Request, AuditApprove(r)
      PROVE  WriterInv'
  BY <1>7 DEF AuditApprove, AuditThenGo, Goto, TypeOK, OneExecutes, WriterInv,
     WriterRunsOnce, ExecutedIsOnRecord, DecisionIsAudited, WriterState, Executing,
     Before, Closed, Decided, Decisions, SameRow
<1>8. ASSUME NEW r \in Request, CheckFind(r, "reject")
      PROVE  WriterInv'
  BY <1>8 DEF CheckFind, Goto, TypeOK, OneExecutes, WriterInv, WriterRunsOnce,
     ExecutedIsOnRecord, DecisionIsAudited, WriterState, Executing, Before, Closed,
     Decided, Decisions, SameRow
<1>9. ASSUME NEW r \in Request, Reject(r)
      PROVE  WriterInv'
  <2>1. CASE Rejects(r)
    BY <2>1 DEF Rejects, Moves, TypeOK, OneExecutes, WriterInv, WriterRunsOnce,
       ExecutedIsOnRecord, DecisionIsAudited, WriterState, Executing, Before,
       Closed, Decided, Decisions, SameRow
  <2>2. CASE Loses(r)
    BY <2>2, LeaveForgets DEF Loses, TypeOK, OneExecutes, WriterInv, WriterRunsOnce,
       ExecutedIsOnRecord, DecisionIsAudited, WriterState, Executing, Before,
       Closed, Decided, Decisions, SameRow
  <2> QED BY <1>9, <2>1, <2>2, SwapCases
<1>10. ASSUME NEW r \in Request, AuditReject(r)
       PROVE  WriterInv'
  BY <1>10, LeaveForgets DEF AuditReject, AuditThenLeave, TypeOK, OneExecutes,
     WriterInv, WriterRunsOnce, ExecutedIsOnRecord, DecisionIsAudited, WriterState,
     Executing, Before, Closed, Decided, Decisions, SameRow
<1>11. ASSUME NEW r \in Request, WithdrawFind(r)
       PROVE  WriterInv'
  BY <1>11 DEF WithdrawFind, Goto, TypeOK, OneExecutes, WriterInv, WriterRunsOnce,
     ExecutedIsOnRecord, DecisionIsAudited, WriterState, Executing, Before, Closed,
     Decided, Decisions, SameRow
<1>12. ASSUME NEW r \in Request, Withdraw(r)
       PROVE  WriterInv'
  <2>1. CASE Withdraws(r)
    BY <2>1 DEF Withdraws, Moves, TypeOK, OneExecutes, WriterInv, WriterRunsOnce,
       ExecutedIsOnRecord, DecisionIsAudited, WriterState, Executing, Before,
       Closed, Decided, Decisions, SameRow
  <2>2. CASE Loses(r)
    BY <2>2, LeaveForgets DEF Loses, TypeOK, OneExecutes, WriterInv, WriterRunsOnce,
       ExecutedIsOnRecord, DecisionIsAudited, WriterState, Executing, Before,
       Closed, Decided, Decisions, SameRow
  <2> QED BY <1>12, <2>1, <2>2, SwapCases
<1>13. ASSUME NEW r \in Request, AuditWithdraw(r)
       PROVE  WriterInv'
  BY <1>13, LeaveForgets DEF AuditWithdraw, AuditThenLeave, TypeOK, OneExecutes,
     WriterInv, WriterRunsOnce, ExecutedIsOnRecord, DecisionIsAudited, WriterState,
     Executing, Before, Closed, Decided, Decisions, SameRow
<1>14. ASSUME NEW r \in Request, NEW p \in Payload, EditFind(r, p)
       PROVE  WriterInv'
  BY <1>14 DEF EditFind, Goto, Seen, TypeOK, OneExecutes, WriterInv, WriterRunsOnce,
     ExecutedIsOnRecord, DecisionIsAudited, WriterState, Executing, Before, Closed,
     Decided, Decisions, SameRow
<1>15. ASSUME NEW r \in Request, Revise(r)
       PROVE  WriterInv'
  <2>1. approval.status # "none"
    <3>1. /\ read[r].revision_index \in Nat /\ approval.revision_index \in Nat
          /\ read[r].revision_index <= approval.revision_index
          /\ approval.revision_index = read[r].revision_index => approval.status \in Closed
      BY <1>15 DEF Revise, Goto, EditorInv, EditorState, TypeOK, Rows, Reads
    <3>2. approval.status = "none" => approval.revision_index = 0
      BY DEF WriterInv, WriterState
    <3> QED BY <3>1, <3>2 DEF Closed
  <2> QED BY <1>15, <2>1 DEF Revise, Goto, TypeOK, OneExecutes, WriterInv,
     WriterRunsOnce, ExecutedIsOnRecord, DecisionIsAudited, WriterState, Before
<1>16. ASSUME NEW r \in Request, ReviseRefused(r)
       PROVE  WriterInv'
  BY <1>16, LeaveForgets DEF ReviseRefused, TypeOK, OneExecutes, WriterInv,
     WriterRunsOnce, ExecutedIsOnRecord, DecisionIsAudited, WriterState, Executing,
     Before, Closed, Decided, Decisions, SameRow
<1>17. ASSUME NEW r \in Request, Resubmit(r)
       PROVE  WriterInv'
  <2>1. CASE Resubmits(r)
    BY <2>1 DEF Resubmits, Moves, TypeOK, OneExecutes, WriterInv, WriterRunsOnce,
       ExecutedIsOnRecord, DecisionIsAudited, WriterState, Executing, Before,
       Closed, Decided, Decisions, SameRow
  <2>2. CASE Loses(r)
    BY <2>2, LeaveForgets DEF Loses, TypeOK, OneExecutes, WriterInv, WriterRunsOnce,
       ExecutedIsOnRecord, DecisionIsAudited, WriterState, Executing, Before,
       Closed, Decided, Decisions, SameRow
  <2> QED BY <1>17, <2>1, <2>2, SwapCases
<1>18. ASSUME NEW r \in Request, AuditEdit(r)
       PROVE  WriterInv'
  BY <1>18, LeaveForgets DEF AuditEdit, AuditThenGo, AuditThenLeave, Goto, TypeOK,
     OneExecutes, WriterInv, WriterRunsOnce, ExecutedIsOnRecord, DecisionIsAudited,
     WriterState, Executing, Before, Closed, Decided, Decisions, SameRow
<1>19. ASSUME NEW r \in Request, AutoApprove(r)
       PROVE  WriterInv'
  <2>1. CASE Autos(r)
    BY <2>1 DEF Autos, Moves, TypeOK, OneExecutes, WriterInv, WriterRunsOnce,
       ExecutedIsOnRecord, DecisionIsAudited, WriterState, Executing, Before,
       Closed, Decided, Decisions, SameRow
  <2>2. CASE Loses(r)
    BY <2>2, LeaveForgets DEF Loses, TypeOK, OneExecutes, WriterInv, WriterRunsOnce,
       ExecutedIsOnRecord, DecisionIsAudited, WriterState, Executing, Before,
       Closed, Decided, Decisions, SameRow
  <2> QED BY <1>19, <2>1, <2>2, SwapCases
<1>20. ASSUME NEW r \in Request, AuditAutoApprove(r)
       PROVE  WriterInv'
  BY <1>20 DEF AuditAutoApprove, AuditThenGo, Goto, TypeOK, OneExecutes, WriterInv,
     WriterRunsOnce, ExecutedIsOnRecord, DecisionIsAudited, WriterState, Executing,
     Before, Closed, Decided, Decisions, SameRow
<1>21. ASSUME NEW r \in Request, ExecuteFind(r)
       PROVE  WriterInv'
  <2>1. CASE approval.status = "APPROVED"
    BY <1>21, <2>1 DEF ExecuteFind, Seen, TypeOK, OneExecutes, WriterInv,
       WriterRunsOnce, ExecutedIsOnRecord, DecisionIsAudited, WriterState,
       Executing, Before, Closed, Decided, Decisions, SameRow
  <2>2. CASE approval.status # "APPROVED"
    BY <1>21, <2>2, LeaveForgets DEF ExecuteFind, TypeOK, OneExecutes, WriterInv,
       WriterRunsOnce, ExecutedIsOnRecord, DecisionIsAudited, WriterState,
       Executing, Before, Closed, Decided, Decisions, SameRow
  <2> QED BY <2>1, <2>2
<1>22. ASSUME NEW r \in Request, Write(r)
       PROVE  WriterInv'
  BY <1>22 DEF Write, Goto, TypeOK, OneExecutes, WriterInv, WriterRunsOnce,
     ExecutedIsOnRecord, DecisionIsAudited, WriterState, Executing, Before, Closed,
     Decided, Decisions, SameRow
<1>23. ASSUME NEW r \in Request, WriteRefused(r)
       PROVE  WriterInv'
  BY <1>23 DEF WriteRefused, Goto, TypeOK, OneExecutes, WriterInv, WriterRunsOnce,
     ExecutedIsOnRecord, DecisionIsAudited, WriterState, Executing, Before, Closed,
     Decided, Decisions, SameRow
<1>24. ASSUME NEW r \in Request, Post(r)
       PROVE  WriterInv'
  BY <1>24 DEF Post, Goto, TypeOK, OneExecutes, WriterInv, WriterRunsOnce,
     ExecutedIsOnRecord, DecisionIsAudited, WriterState, Executing, Before, Closed,
     Decided, Decisions, SameRow
<1>25. ASSUME NEW r \in Request, AuditExecute(r)
       PROVE  WriterInv'
  BY <1>25, LeaveForgets DEF AuditExecute, AuditThenLeave, TypeOK, OneExecutes,
     WriterInv, WriterRunsOnce, ExecutedIsOnRecord, DecisionIsAudited, WriterState,
     Executing, Before, Closed, Decided, Decisions, SameRow
<1>26. ASSUME NEW r \in Request, ExecutionFailed(r)
       PROVE  WriterInv'
  BY <1>26 DEF ExecutionFailed, Goto, TypeOK, OneExecutes, WriterInv,
     WriterRunsOnce, ExecutedIsOnRecord, DecisionIsAudited, WriterState, Executing,
     Before, Closed, Decided, Decisions, SameRow
<1>27. ASSUME NEW r \in Request, AuditExecuteFail(r)
       PROVE  WriterInv'
  BY <1>27, LeaveForgets DEF AuditExecuteFail, AuditThenLeave, TypeOK, OneExecutes,
     WriterInv, WriterRunsOnce, ExecutedIsOnRecord, DecisionIsAudited, WriterState,
     Executing, Before, Closed, Decided, Decisions, SameRow
<1>28. ASSUME NEW r \in Request, Raise(r)
       PROVE  WriterInv'
  BY <1>28 DEF Raise, TypeOK, OneExecutes, WriterInv, WriterRunsOnce,
     ExecutedIsOnRecord, DecisionIsAudited, WriterState, Executing, Before, Closed,
     Decided, Decisions, SameRow
<1>29. ASSUME NEW r \in Request, Die(r)
       PROVE  WriterInv'
  BY <1>29, LeaveForgets DEF Die, TypeOK, OneExecutes, WriterInv, WriterRunsOnce,
     ExecutedIsOnRecord, DecisionIsAudited, WriterState, Executing, Before, Closed,
     Decided, Decisions, SameRow
<1>30. CASE UNCHANGED vars
  BY <1>30 DEF vars, TypeOK, OneExecutes, WriterInv, WriterRunsOnce,
     ExecutedIsOnRecord, DecisionIsAudited, WriterState, Executing, Before, Closed,
     Decided, Decisions, SameRow
<1> QED
  BY <1>1, <1>2, <1>3, <1>4, <1>5, <1>6, <1>7, <1>8, <1>9, <1>10, <1>11, <1>12,
     <1>13, <1>14, <1>15, <1>16, <1>17, <1>18, <1>19, <1>20, <1>21, <1>22, <1>23,
     <1>24, <1>25, <1>26, <1>27, <1>28, <1>29, <1>30 DEF Next, Create, Check,
     TakeBack, Edit, Execute

-----------------------------------------------------------------------------
(* Revisions.                                                              *)

LEMMA EditorInit == Init => EditorInv
BY DEF Init, EditorInv, RevisionChain, EditNeverLoses, EditorState, NoApproval,
   Pending

(* A step that leaves revisions, the row's payload and index, and editors  *)
(* as they are, and closed rows closed.                                    *)
EditFrame ==
  /\ revisions' = revisions
  /\ SameRow
  /\ approval.status \in Closed => approval'.status \in Closed
  /\ \A q \in Request : pc'[q] \in {"revise", "resubmit"} =>
       pc'[q] = pc[q] /\ read'[q] = read[q] /\ hand'[q] = hand[q]

LEMMA EditorFrame == TypeOK /\ EditorInv /\ EditFrame => EditorInv'
BY DEF TypeOK, EditorInv, RevisionChain, EditNeverLoses, EditorState, EditFrame,
   SameRow

LEMMA EditorStep ==
  ASSUME TypeOK, OneExecutes, WriterInv, EditorInv, [Next]_vars
  PROVE  EditFrame \/ EditorInv'
<1>1. ASSUME NEW r \in Request, NEW p \in Payload, SubmitFind(r, p)
      PROVE  EditFrame \/ EditorInv'
  BY <1>1 DEF SubmitFind, Goto, EditFrame, TypeOK, OneExecutes, Executing, Before,
     Closed, SameRow
<1>2. ASSUME NEW r \in Request, Insert(r)
      PROVE  EditFrame \/ EditorInv'
  <2>1. revisions = {} /\ approval.revision_index = 0 /\ approval'.revision_index = 0
        /\ revisions' = {}
    BY <1>2 DEF Insert, Pending, WriterInv, WriterState
  <2>2. \A q \in Request : pc[q] # "resubmit" /\ pc[q] # "revise"
    BY <1>2, <2>1 DEF Insert, EditorInv, EditNeverLoses, EditorState, Closed,
       TypeOK, Reads
  <2> QED BY <1>2, <2>1, <2>2 DEF Insert, Goto, TypeOK, EditorInv, RevisionChain,
     EditNeverLoses, EditorState
<1>3. ASSUME NEW r \in Request, InsertLost(r)
      PROVE  EditFrame \/ EditorInv'
  BY <1>3, LeaveForgets DEF InsertLost, EditFrame, TypeOK, OneExecutes, Executing,
     Before, Closed, SameRow
<1>4. ASSUME NEW r \in Request, AuditSubmit(r)
      PROVE  EditFrame \/ EditorInv'
  BY <1>4, LeaveForgets DEF AuditSubmit, AuditThenGo, AuditThenLeave, Goto,
     EditFrame, TypeOK, OneExecutes, Executing, Before, Closed, SameRow
<1>5. ASSUME NEW r \in Request, CheckFind(r, "approve")
      PROVE  EditFrame \/ EditorInv'
  BY <1>5 DEF CheckFind, Goto, EditFrame, TypeOK, OneExecutes, Executing, Before,
     Closed, SameRow
<1>6. ASSUME NEW r \in Request, Approve(r)
      PROVE  EditFrame \/ EditorInv'
  <2>1. CASE Approves(r)
    BY <2>1 DEF Approves, Moves, EditFrame, TypeOK, OneExecutes, Executing, Before,
       Closed, SameRow
  <2>2. CASE Loses(r)
    BY <2>2, LeaveForgets DEF Loses, EditFrame, TypeOK, OneExecutes, Executing,
       Before, Closed, SameRow
  <2> QED BY <1>6, <2>1, <2>2, SwapCases
<1>7. ASSUME NEW r \in Request, AuditApprove(r)
      PROVE  EditFrame \/ EditorInv'
  BY <1>7 DEF AuditApprove, AuditThenGo, Goto, EditFrame, TypeOK, OneExecutes,
     Executing, Before, Closed, SameRow
<1>8. ASSUME NEW r \in Request, CheckFind(r, "reject")
      PROVE  EditFrame \/ EditorInv'
  BY <1>8 DEF CheckFind, Goto, EditFrame, TypeOK, OneExecutes, Executing, Before,
     Closed, SameRow
<1>9. ASSUME NEW r \in Request, Reject(r)
      PROVE  EditFrame \/ EditorInv'
  <2>1. CASE Rejects(r)
    BY <2>1 DEF Rejects, Moves, EditFrame, TypeOK, OneExecutes, Executing, Before,
       Closed, SameRow
  <2>2. CASE Loses(r)
    BY <2>2, LeaveForgets DEF Loses, EditFrame, TypeOK, OneExecutes, Executing,
       Before, Closed, SameRow
  <2> QED BY <1>9, <2>1, <2>2, SwapCases
<1>10. ASSUME NEW r \in Request, AuditReject(r)
       PROVE  EditFrame \/ EditorInv'
  BY <1>10, LeaveForgets DEF AuditReject, AuditThenLeave, EditFrame, TypeOK,
     OneExecutes, Executing, Before, Closed, SameRow
<1>11. ASSUME NEW r \in Request, WithdrawFind(r)
       PROVE  EditFrame \/ EditorInv'
  BY <1>11 DEF WithdrawFind, Goto, EditFrame, TypeOK, OneExecutes, Executing,
     Before, Closed, SameRow
<1>12. ASSUME NEW r \in Request, Withdraw(r)
       PROVE  EditFrame \/ EditorInv'
  <2>1. CASE Withdraws(r)
    BY <2>1 DEF Withdraws, Moves, EditFrame, TypeOK, OneExecutes, Executing, Before,
       Closed, SameRow
  <2>2. CASE Loses(r)
    BY <2>2, LeaveForgets DEF Loses, EditFrame, TypeOK, OneExecutes, Executing,
       Before, Closed, SameRow
  <2> QED BY <1>12, <2>1, <2>2, SwapCases
<1>13. ASSUME NEW r \in Request, AuditWithdraw(r)
       PROVE  EditFrame \/ EditorInv'
  BY <1>13, LeaveForgets DEF AuditWithdraw, AuditThenLeave, EditFrame, TypeOK,
     OneExecutes, Executing, Before, Closed, SameRow
<1>14. ASSUME NEW r \in Request, NEW p \in Payload, EditFind(r, p)
       PROVE  EditFrame \/ EditorInv'
  <2>1. revisions' = revisions /\ approval' = approval
    BY <1>14 DEF EditFind
  <2>2. /\ pc'[r] = "revise" /\ read'[r] = Seen
        /\ \A q \in Request \ {r} :
             pc'[q] = pc[q] /\ read'[q] = read[q] /\ hand'[q] = hand[q]
    BY <1>14 DEF EditFind, Goto, TypeOK
  <2>3. approval.status \in Closed /\ Seen.revision_index = approval.revision_index
        /\ Seen.payload = approval.payload /\ approval.revision_index \in Nat
    BY <1>14 DEF EditFind, Seen, TypeOK, Rows
  <2>4. RevisionChain'
    BY <2>1 DEF EditorInv, RevisionChain
  <2>5. EditNeverLoses'
    BY <2>1, <2>2 DEF EditorInv, EditNeverLoses
  <2>6. EditorState'
    BY <2>1, <2>2, <2>3 DEF EditorInv, EditorState
  <2> QED BY <2>4, <2>5, <2>6 DEF EditorInv
<1>15. ASSUME NEW r \in Request, Revise(r)
       PROVE  EditFrame \/ EditorInv'
  <2> DEFINE k == read[r].revision_index
             new == Revision(r)
  <2>1. /\ k \in Nat /\ approval.revision_index \in Nat
        /\ \A v \in revisions : v.index \in Nat
        /\ new.index = k + 1 /\ new.before = read[r].payload /\ new.after = hand[r]
    BY DEF TypeOK, Reads, Rows, Revision
  <2>2. /\ \A v \in revisions : v.index # k + 1
        /\ revisions' = revisions \cup {new} /\ approval' = approval
        /\ pc[r] = "revise" /\ pc'[r] = "resubmit" /\ read' = read /\ hand' = hand
        /\ \A q \in Request \ {r} : pc'[q] = pc[q]
    BY <1>15 DEF Revise, Goto, TypeOK
  <2>3. k = approval.revision_index
    <3>1. k <= approval.revision_index
      BY <2>2 DEF EditorInv, EditorState
    <3>2. ~(k < approval.revision_index)
      BY <2>1, <2>2 DEF EditorInv, RevisionChain
    <3> QED BY <2>1, <3>1, <3>2
  <2>4. approval.status \in Closed /\ read[r].payload = approval.payload
    BY <2>2, <2>3 DEF EditorInv, EditorState
  <2>5. \A q \in Request : pc[q] # "resubmit"
    BY <2>2, <2>3 DEF EditorInv, EditorState, EditNeverLoses
  <2>6. RevisionChain'
    <3>1. \A v, w \in revisions' : v.index = w.index => v = w
      BY <2>1, <2>2 DEF EditorInv, RevisionChain
    <3>2. \A v \in revisions' : v.index \in 1 .. approval'.revision_index + 1
      BY <2>1, <2>2, <2>3 DEF EditorInv, RevisionChain
    <3>3. \A j \in 1 .. approval'.revision_index : \E v \in revisions' : v.index = j
      BY <2>2 DEF EditorInv, RevisionChain
    <3>4. \A v, w \in revisions' : w.index = v.index + 1 => w.before = v.after
      BY <2>1, <2>2, <2>3, <2>4 DEF EditorInv, RevisionChain
    <3>5. \A v \in revisions' : v.index = approval'.revision_index =>
             v.after = approval'.payload
      BY <2>1, <2>2, <2>3 DEF EditorInv, RevisionChain
    <3> QED BY <3>1, <3>2, <3>3, <3>4, <3>5 DEF RevisionChain
  <2>7. EditNeverLoses'
    BY <2>2, <2>3, <2>4, <2>5 DEF EditNeverLoses
  <2>8. EditorState'
    BY <2>1, <2>2, <2>5 DEF EditorInv, EditorState
  <2> QED BY <2>6, <2>7, <2>8 DEF EditorInv
<1>16. ASSUME NEW r \in Request, ReviseRefused(r)
       PROVE  EditFrame \/ EditorInv'
  BY <1>16, LeaveForgets DEF ReviseRefused, EditFrame, TypeOK, OneExecutes,
     Executing, Before, Closed, SameRow
<1>17. ASSUME NEW r \in Request, Resubmit(r)
       PROVE  EditFrame \/ EditorInv'
  <2>1. CASE Resubmits(r)
    <3> DEFINE k == approval.revision_index
    <3>1. /\ k \in Nat /\ approval'.revision_index = k + 1
          /\ approval'.payload = hand[r]
          /\ revisions' = revisions /\ read' = read /\ hand' = hand
          /\ \A v \in revisions : v.index \in Nat
          /\ \A q \in Request : read[q].revision_index \in Nat
      BY <2>1 DEF Resubmits, Moves, EditorInv, EditNeverLoses, TypeOK, Rows, Reads
    <3>2. \A q \in Request : q # r => pc'[q] = pc[q] /\ pc[q] # "resubmit"
      BY <2>1 DEF Resubmits, Moves, EditorInv, EditorState, TypeOK
    <3>3. pc'[r] = "edited"
      BY <2>1 DEF Resubmits, Moves, TypeOK
    <3>4. PICK u \in revisions : u.index = k + 1 /\ u.after = hand[r]
      BY <2>1 DEF Resubmits, Moves, EditorInv, EditorState, EditNeverLoses
    <3>5. RevisionChain'
      <4>1. \A v, w \in revisions' : v.index = w.index => v = w
        BY <3>1 DEF EditorInv, RevisionChain
      <4>2. \A v \in revisions' : v.index \in 1 .. approval'.revision_index + 1
        BY <3>1 DEF EditorInv, RevisionChain
      <4>3. \A j \in 1 .. approval'.revision_index : \E v \in revisions' : v.index = j
        BY <3>1, <3>4 DEF EditorInv, RevisionChain
      <4>4. \A v, w \in revisions' : w.index = v.index + 1 => w.before = v.after
        BY <3>1 DEF EditorInv, RevisionChain
      <4>5. \A v \in revisions' : v.index = approval'.revision_index =>
             v.after = approval'.payload
        BY <3>1, <3>4 DEF EditorInv, RevisionChain
      <4> QED BY <4>1, <4>2, <4>3, <4>4, <4>5 DEF RevisionChain
    <3>6. EditNeverLoses'
      BY <3>2, <3>3 DEF EditNeverLoses
    <3>7. EditorState'
      BY <3>1, <3>2, <3>3 DEF EditorInv, EditorState
    <3> QED BY <3>5, <3>6, <3>7 DEF EditorInv
  <2>2. CASE Loses(r)
    BY <2>2, LeaveForgets DEF Loses, EditFrame, TypeOK, SameRow
  <2> QED BY <1>17, <2>1, <2>2, SwapCases
<1>18. ASSUME NEW r \in Request, AuditEdit(r)
       PROVE  EditFrame \/ EditorInv'
  BY <1>18, LeaveForgets DEF AuditEdit, AuditThenGo, AuditThenLeave, Goto,
     EditFrame, TypeOK, OneExecutes, Executing, Before, Closed, SameRow
<1>19. ASSUME NEW r \in Request, AutoApprove(r)
       PROVE  EditFrame \/ EditorInv'
  <2>1. CASE Autos(r)
    BY <2>1 DEF Autos, Moves, EditFrame, TypeOK, OneExecutes, Executing, Before,
       Closed, SameRow
  <2>2. CASE Loses(r)
    BY <2>2, LeaveForgets DEF Loses, EditFrame, TypeOK, OneExecutes, Executing,
       Before, Closed, SameRow
  <2> QED BY <1>19, <2>1, <2>2, SwapCases
<1>20. ASSUME NEW r \in Request, AuditAutoApprove(r)
       PROVE  EditFrame \/ EditorInv'
  BY <1>20 DEF AuditAutoApprove, AuditThenGo, Goto, EditFrame, TypeOK, OneExecutes,
     Executing, Before, Closed, SameRow
<1>21. ASSUME NEW r \in Request, ExecuteFind(r)
       PROVE  EditFrame \/ EditorInv'
  <2>1. CASE approval.status = "APPROVED"
    BY <1>21, <2>1 DEF ExecuteFind, Seen, EditFrame, TypeOK, OneExecutes, Executing,
       Before, Closed, SameRow
  <2>2. CASE approval.status # "APPROVED"
    BY <1>21, <2>2, LeaveForgets DEF ExecuteFind, EditFrame, TypeOK, OneExecutes,
       Executing, Before, Closed, SameRow
  <2> QED BY <2>1, <2>2
<1>22. ASSUME NEW r \in Request, Write(r)
       PROVE  EditFrame \/ EditorInv'
  BY <1>22 DEF Write, Goto, EditFrame, TypeOK, OneExecutes, Executing, Before,
     Closed, SameRow
<1>23. ASSUME NEW r \in Request, WriteRefused(r)
       PROVE  EditFrame \/ EditorInv'
  BY <1>23 DEF WriteRefused, Goto, EditFrame, TypeOK, OneExecutes, Executing,
     Before, Closed, SameRow
<1>24. ASSUME NEW r \in Request, Post(r)
       PROVE  EditFrame \/ EditorInv'
  BY <1>24 DEF Post, Goto, EditFrame, TypeOK, OneExecutes, Executing, Before,
     Closed, SameRow
<1>25. ASSUME NEW r \in Request, AuditExecute(r)
       PROVE  EditFrame \/ EditorInv'
  BY <1>25, LeaveForgets DEF AuditExecute, AuditThenLeave, EditFrame, TypeOK,
     OneExecutes, Executing, Before, Closed, SameRow
<1>26. ASSUME NEW r \in Request, ExecutionFailed(r)
       PROVE  EditFrame \/ EditorInv'
  BY <1>26 DEF ExecutionFailed, Goto, EditFrame, TypeOK, OneExecutes, Executing,
     Before, Closed, SameRow
<1>27. ASSUME NEW r \in Request, AuditExecuteFail(r)
       PROVE  EditFrame \/ EditorInv'
  BY <1>27, LeaveForgets DEF AuditExecuteFail, AuditThenLeave, EditFrame, TypeOK,
     OneExecutes, Executing, Before, Closed, SameRow
<1>28. ASSUME NEW r \in Request, Raise(r)
       PROVE  EditFrame \/ EditorInv'
  BY <1>28 DEF Raise, EditFrame, TypeOK, OneExecutes, Executing, Before, Closed,
     SameRow
<1>29. ASSUME NEW r \in Request, Die(r)
       PROVE  EditFrame \/ EditorInv'
  BY <1>29, LeaveForgets DEF Die, EditFrame, TypeOK, OneExecutes, Executing, Before,
     Closed, SameRow
<1>30. CASE UNCHANGED vars
  BY <1>30 DEF vars, EditFrame, TypeOK, OneExecutes, Executing, Before, Closed,
     SameRow
<1> QED
  BY <1>1, <1>2, <1>3, <1>4, <1>5, <1>6, <1>7, <1>8, <1>9, <1>10, <1>11, <1>12,
     <1>13, <1>14, <1>15, <1>16, <1>17, <1>18, <1>19, <1>20, <1>21, <1>22, <1>23,
     <1>24, <1>25, <1>26, <1>27, <1>28, <1>29, <1>30 DEF Next, Create, Check,
     TakeBack, Edit, Execute

-----------------------------------------------------------------------------
(* The theorems.                                                           *)

(* The inductive invariant: one request executes, the writer has run as    *)
(* far as the status and the audit rows say, and one editor has the next   *)
(* revision.                                                               *)
THEOREM InductiveInvariant == Spec => []IInv
<1>1. Init => IInv
  BY TypeInit, OneExecutesInit, WriterInit, EditorInit DEF IInv, WriterInv, EditorInv
<1>2. IInv /\ [Next]_vars => IInv'
  <2> SUFFICES ASSUME IInv, [Next]_vars PROVE IInv'
    OBVIOUS
  <2>1. TypeOK /\ OneExecutes /\ WriterInv /\ EditorInv
    BY DEF IInv, WriterInv, EditorInv
  <2>2. TypeOK' /\ OneExecutes' /\ WriterInv'
    BY <2>1, TypeStep, OneExecutesStep, WriterStep
  <2>3. EditorInv'
    BY <2>1, EditorStep, EditorFrame
  <2> QED BY <2>2, <2>3 DEF IInv, WriterInv, EditorInv
<1> QED BY <1>1, <1>2, PTL DEF Spec

(* Whatever requests approve, edit, retry or die, the domain writer        *)
(* creates at most one document for an approval.                           *)
THEOREM WriterAtMostOnce == Spec => []WriterRunsOnce
<1>1. IInv => WriterRunsOnce
  BY DEF IInv
<1> QED BY <1>1, InductiveInvariant, PTL

(* The document and the approval keep the same payload.                    *)
THEOREM RecordIsTrue == Spec => []ExecutedIsOnRecord
<1>1. IInv => ExecutedIsOnRecord
  BY DEF IInv
<1> QED BY <1>1, InductiveInvariant, PTL

(* Every document has an audited decision behind it.                       *)
THEOREM AuditComesFirst == Spec => []DecisionIsAudited
<1>1. IInv => DecisionIsAudited
  BY DEF IInv
<1> QED BY <1>1, InductiveInvariant, PTL

(* The revisions are a chain, and an edit that has its revision does not   *)
(* lose the swap.                                                          *)
THEOREM RevisionsAreAChain == Spec => [](RevisionChain /\ EditNeverLoses)
<1>1. IInv => RevisionChain /\ EditNeverLoses
  BY DEF IInv
<1> QED BY <1>1, InductiveInvariant, PTL

(* A decided row never changes but in its status, and stays decided.       *)
THEOREM DecisionIsFinal == Spec => DecidedIsFrozen
<1> DEFINE Frozen == approval.status \in Decided =>
                       /\ approval'.status \in Decided
                       /\ approval' = [approval EXCEPT !.status = approval'.status]
<1>1. ASSUME TypeOK, [Next]_vars
      PROVE  [Frozen]_vars
  <2>0. approval \in Rows
    BY <1>1 DEF TypeOK
  <2>1. approval' = approval => Frozen
    BY <2>0 DEF Rows
  <2>2. ASSUME NEW r \in Request, Create(r)
        PROVE  Frozen
    <3>1. CASE Insert(r)
      BY <3>1 DEF Insert, Decided, Closed
    <3>2. CASE ~Insert(r)
      BY <2>1, <2>2, <3>2 DEF Create, SubmitFind, InsertLost, AuditSubmit,
         AuditThenGo,
         AuditThenLeave
    <3> QED BY <3>1, <3>2
  <2>3. ASSUME NEW r \in Request, Check(r) \/ TakeBack(r) \/ Edit(r)
        PROVE  Frozen
    <3>1. CASE Approve(r) \/ Reject(r) \/ Withdraw(r) \/ Resubmit(r)
      BY <2>1, <3>1 DEF Approve, Reject, Withdraw, Resubmit, Swap, Decided, Closed
    <3>2. CASE ~(Approve(r) \/ Reject(r) \/ Withdraw(r) \/ Resubmit(r))
      BY <2>1, <2>3, <3>2 DEF Check, TakeBack, Edit, CheckFind, AuditApprove,
         AuditReject,
         WithdrawFind, AuditWithdraw, EditFind, Revise, ReviseRefused, AuditEdit,
         AuditThenGo, AuditThenLeave
    <3> QED BY <3>1, <3>2
  <2>4. ASSUME NEW r \in Request, Execute(r)
        PROVE  Frozen
    <3>1. CASE AutoApprove(r)
      BY <2>1, <3>1 DEF AutoApprove, Swap, Decided, Closed
    <3>2. CASE Post(r)
      BY <2>0, <2>1, <3>2 DEF Post, Rows, Decided
    <3>3. CASE ExecutionFailed(r)
      BY <2>0, <3>3 DEF ExecutionFailed, Rows, Decided
    <3>4. CASE ~(AutoApprove(r) \/ Post(r) \/ ExecutionFailed(r))
      BY <2>1, <2>4, <3>4 DEF Execute, AuditAutoApprove, ExecuteFind, Write,
         WriteRefused,
         AuditExecute, AuditExecuteFail, AuditThenGo, AuditThenLeave
    <3> QED BY <3>1, <3>2, <3>3, <3>4
  <2>5. ASSUME NEW r \in Request, Raise(r) \/ Die(r)
        PROVE  Frozen
    BY <2>1, <2>5 DEF Raise, Die
  <2>6. CASE UNCHANGED vars
    BY <2>6
  <2> QED BY <1>1, <2>2, <2>3, <2>4, <2>5, <2>6 DEF Next
<1>2. Spec => []TypeOK
  BY TypeInit, TypeStep, PTL DEF Spec
<1> QED BY <1>1, <1>2, PTL DEF Spec, DecidedIsFrozen

=============================================================================
