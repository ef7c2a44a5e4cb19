------------------------------ MODULE Approvals ------------------------------
(***************************************************************************)
(* The maker-checker framework, services_approvals.py, for ONE approval:   *)
(* its row, its revisions, its audit rows, the requests that act upon it,  *)
(* and the documents that the domain writer creates for it.                *)
(*                                                                         *)
(* Every await of the service is a step boundary.  A request finds the row *)
(* and later swaps it by its status; whatever else it has read by then may *)
(* be out of date.                                                         *)
(***************************************************************************)
EXTENDS Naturals, Sequences, FiniteSets

CONSTANTS
  Owner,      \* requests of users who may approve
  Staff,      \* requests of users who may only submit
  Payload,    \* request bodies of the writer
  Nothing,    \* no payload
  Solo,       \* what _is_solo_owner counts: no other checker
  Faults,     \* whether requests die and store calls raise
  MaxRev      \* bound of revision_index

ASSUME Actors == Owner \cap Staff = {} /\ Nothing \notin Payload

ASSUME Switches == Solo \in BOOLEAN /\ Faults \in BOOLEAN /\ MaxRev \in Nat

VARIABLES
  approval,   \* the row of approvals
  revisions,  \* the rows of approval_revisions
  audits,     \* the actions in approval_audits
  posted,     \* payloads of the documents the writer has created
  pc,         \* where each request is
  read,       \* revision_index and payload of the row each request has read
  hand        \* the payload its user has offered or seen

vars == <<approval, revisions, audits, posted, pc, read, hand>>

Request == Owner \cup Staff

Closed == {"REJECTED", "WITHDRAWN"}
Decided == {"APPROVED", "POSTED", "EXECUTION_FAILED"}
Decisions == {"approve", "auto_approve"}

(* A member of the team carries the user_id of the owner, so maker_user_id *)
(* is the tenant's, except where the tests store another.                  *)
NoApproval == [status |-> "none", payload |-> Nothing, revision_index |-> 0,
               maker |-> "tenant", checker |-> "none"]

Pending(p, m) == [status |-> "PENDING_APPROVAL", payload |-> p,
                  revision_index |-> 0, maker |-> m, checker |-> "none"]

NoRead == [revision_index |-> 0, payload |-> Nothing]

Seen == [revision_index |-> approval.revision_index, payload |-> approval.payload]

Goto(r, from, to) == pc[r] = from /\ pc' = [pc EXCEPT ![r] = to]

(* A request ends and forgets what it held.                                *)
Leave(r) ==
  /\ pc' = [pc EXCEPT ![r] = "idle"]
  /\ read' = [read EXCEPT ![r] = NoRead]
  /\ hand' = [hand EXCEPT ![r] = Nothing]

AutoApproves(r) == Solo /\ r \in Owner

Init ==
  /\ approval \in {NoApproval} \cup {Pending(p, "peer") : p \in Payload}
  /\ revisions = {}
  /\ audits = {}
  /\ posted = <<>>
  /\ pc = [r \in Request |-> "idle"]
  /\ read = [r \in Request |-> NoRead]
  /\ hand = [r \in Request |-> Nothing]

-----------------------------------------------------------------------------
(* create_approval.                                                        *)

(* The row of the idempotency key is returned when there is one.           *)
SubmitFind(r, p) ==
  /\ approval.status = "none"
  /\ Goto(r, "idle", "insert")
  /\ hand' = [hand EXCEPT ![r] = p]
  /\ UNCHANGED <<approval, revisions, audits, posted, read>>

Insert(r) ==
  /\ approval.status = "none"
  /\ Goto(r, "insert", "submitted")
  /\ approval' = Pending(hand[r], "tenant")
  /\ UNCHANGED <<revisions, audits, posted, read, hand>>

(* The unique key: the row of another request is returned.                 *)
InsertLost(r) ==
  /\ pc[r] = "insert"
  /\ approval.status # "none"
  /\ Leave(r)
  /\ UNCHANGED <<approval, revisions, audits, posted>>

-----------------------------------------------------------------------------
(* Audit rows, and where a request goes after each.                        *)

AuditThenGo(r, from, action, to) ==
  /\ Goto(r, from, to)
  /\ audits' = audits \cup {action}
  /\ UNCHANGED <<approval, revisions, posted, read, hand>>

AuditThenLeave(r, from, action) ==
  /\ pc[r] = from
  /\ audits' = audits \cup {action}
  /\ Leave(r)
  /\ UNCHANGED <<approval, revisions, posted>>

AuditSubmit(r) ==
  \/ AutoApproves(r) /\ AuditThenGo(r, "submitted", "submit", "auto")
  \/ ~AutoApproves(r) /\ AuditThenLeave(r, "submitted", "submit")

AuditEdit(r) ==
  \/ AutoApproves(r) /\ AuditThenGo(r, "edited", "edit", "auto")
  \/ ~AutoApproves(r) /\ AuditThenLeave(r, "edited", "edit")

AuditAutoApprove(r) == AuditThenGo(r, "auto_approved", "auto_approve", "execute")
AuditApprove(r) == AuditThenGo(r, "approved", "approve", "execute")
AuditReject(r) == AuditThenLeave(r, "rejected", "reject")
AuditWithdraw(r) == AuditThenLeave(r, "withdrawn", "withdraw")
AuditExecute(r) == AuditThenLeave(r, "posted", "execute")
AuditExecuteFail(r) == AuditThenLeave(r, "failed", "execute_fail")

-----------------------------------------------------------------------------
(* find_one_and_update with a status in its filter.                        *)

Swap(r, from, statuses, row, to) ==
  /\ pc[r] = from
  /\ IF approval.status \in statuses
     THEN /\ approval' = row
          /\ pc' = [pc EXCEPT ![r] = to]
          /\ UNCHANGED <<read, hand>>
     ELSE Leave(r) /\ UNCHANGED approval
  /\ UNCHANGED <<revisions, audits, posted>>

(* A mutant: the filter loses its status.                                  *)
AnyStatus == Closed \cup Decided \cup {"none", "PENDING_APPROVAL"}

ApproveUnguarded(r) ==
  Swap(r, "approve", AnyStatus,
       [approval EXCEPT !.status = "APPROVED", !.checker = "tenant"], "approved")

(* A mutant: the decision is audited after the writer, or never.           *)
AutoApproveUnaudited(r) ==
  Swap(r, "auto", {"PENDING_APPROVAL"},
       [approval EXCEPT !.status = "APPROVED", !.checker = "solo_owner"], "execute")

AutoApprove(r) ==
  Swap(r, "auto", {"PENDING_APPROVAL"},
       [approval EXCEPT !.status = "APPROVED", !.checker = "solo_owner"],
       "auto_approved")

Approve(r) ==
  Swap(r, "approve", {"PENDING_APPROVAL"},
       [approval EXCEPT !.status = "APPROVED", !.checker = "tenant"], "approved")

Reject(r) ==
  Swap(r, "reject", {"PENDING_APPROVAL"},
       [approval EXCEPT !.status = "REJECTED", !.checker = "tenant"], "rejected")

Withdraw(r) ==
  Swap(r, "withdraw", {"PENDING_APPROVAL"},
       [approval EXCEPT !.status = "WITHDRAWN"], "withdrawn")

Resubmit(r) ==
  Swap(r, "resubmit", Closed,
       [approval EXCEPT !.status = "PENDING_APPROVAL", !.payload = hand[r],
                        !.revision_index = read[r].revision_index + 1,
                        !.checker = "none"], "edited")

-----------------------------------------------------------------------------
(* approve, reject, withdraw and edit_and_resubmit find the row first; all *)
(* other statuses and users are refused.                                   *)

(* A mutant: makers decide, and nobody else.                               *)
CheckFindSwapped(r, to) ==
  /\ r \in Owner
  /\ approval.status = "PENDING_APPROVAL"
  /\ approval.maker = "tenant"
  /\ Goto(r, "idle", to)
  /\ hand' = [hand EXCEPT ![r] = approval.payload]
  /\ UNCHANGED <<approval, revisions, audits, posted, read>>

(* A checker is not the maker.                                             *)
CheckFind(r, to) ==
  /\ r \in Owner
  /\ approval.status = "PENDING_APPROVAL"
  /\ approval.maker # "tenant"
  /\ Goto(r, "idle", to)
  /\ hand' = [hand EXCEPT ![r] = approval.payload]
  /\ UNCHANGED <<approval, revisions, audits, posted, read>>

WithdrawFind(r) ==
  /\ approval.status = "PENDING_APPROVAL"
  /\ approval.maker = "tenant" \/ r \in Owner
  /\ Goto(r, "idle", "withdraw")
  /\ UNCHANGED <<approval, revisions, audits, posted, read, hand>>

(* The bound of revision_index is the model's.                             *)
EditFind(r, p) ==
  /\ approval.status \in Closed
  /\ approval.maker = "tenant"
  /\ approval.revision_index < MaxRev
  /\ Goto(r, "idle", "revise")
  /\ read' = [read EXCEPT ![r] = Seen]
  /\ hand' = [hand EXCEPT ![r] = p]
  /\ UNCHANGED <<approval, revisions, audits, posted>>

Revision(r) == [index |-> read[r].revision_index + 1,
                before |-> read[r].payload, after |-> hand[r]]

(* The revision is inserted before the row is swapped.                     *)
Revise(r) ==
  /\ \A v \in revisions : v.index # read[r].revision_index + 1
  /\ Goto(r, "revise", "resubmit")
  /\ revisions' = revisions \cup {Revision(r)}
  /\ UNCHANGED <<approval, audits, posted, read, hand>>

(* The unique index (approval_id, revision_index) refuses it.              *)
ReviseRefused(r) ==
  /\ pc[r] = "revise"
  /\ \E v \in revisions : v.index = read[r].revision_index + 1
  /\ Leave(r)
  /\ UNCHANGED <<approval, revisions, audits, posted>>

-----------------------------------------------------------------------------
(* _execute_approved.                                                      *)

ExecuteFind(r) ==
  /\ pc[r] = "execute"
  /\ IF approval.status = "APPROVED"
     THEN /\ pc' = [pc EXCEPT ![r] = "write"]
          /\ read' = [read EXCEPT ![r] = Seen]
          /\ UNCHANGED hand
     ELSE Leave(r)
  /\ UNCHANGED <<approval, revisions, audits, posted>>

(* A mutant: the caller's copy of the payload is executed.                 *)
WriteCallersCopy(r) ==
  /\ Goto(r, "write", "wrote")
  /\ posted' = Append(posted, hand[r])
  /\ UNCHANGED <<approval, revisions, audits, read, hand>>

(* The domain writer creates its document.                                 *)
Write(r) ==
  /\ Goto(r, "write", "wrote")
  /\ posted' = Append(posted, read[r].payload)
  /\ UNCHANGED <<approval, revisions, audits, read, hand>>

(* It refuses the payload.                                                 *)
WriteRefused(r) ==
  /\ Goto(r, "write", "failing")
  /\ UNCHANGED <<approval, revisions, audits, posted, read, hand>>

Post(r) ==
  /\ Goto(r, "wrote", "posted")
  /\ approval' = IF approval.status = "APPROVED"
                 THEN [approval EXCEPT !.status = "POSTED"] ELSE approval
  /\ UNCHANGED <<revisions, audits, posted, read, hand>>

(* The row is set to EXECUTION_FAILED, whatever its status is.             *)
ExecutionFailed(r) ==
  /\ Goto(r, "failing", "failed")
  /\ approval' = [approval EXCEPT !.status = "EXECUTION_FAILED"]
  /\ UNCHANGED <<revisions, audits, posted, read, hand>>

-----------------------------------------------------------------------------
(* Faults.                                                                 *)

(* Within the try block of _execute_approved an exception leads to         *)
(* EXECUTION_FAILED: the writer's after its insert, that of the swap to    *)
(* POSTED, or that of the audit row, which may have been written.          *)
Raise(r) ==
  /\ Faults
  /\ \/ /\ pc[r] = "wrote"
        /\ UNCHANGED audits
     \/ /\ pc[r] = "posted"
        /\ audits' \in {audits, audits \cup {"execute"}}
  /\ pc' = [pc EXCEPT ![r] = "failing"]
  /\ UNCHANGED <<approval, revisions, posted, read, hand>>

(* Anywhere else it ends the request, as a crash or a cancellation does.   *)
Die(r) ==
  /\ Faults
  /\ pc[r] # "idle"
  /\ Leave(r)
  /\ UNCHANGED <<approval, revisions, audits, posted>>

-----------------------------------------------------------------------------
Create(r) ==
  \/ \E p \in Payload : SubmitFind(r, p)
  \/ Insert(r) \/ InsertLost(r) \/ AuditSubmit(r)

Check(r) ==
  \/ CheckFind(r, "approve") \/ Approve(r) \/ AuditApprove(r)
  \/ CheckFind(r, "reject") \/ Reject(r) \/ AuditReject(r)

TakeBack(r) == WithdrawFind(r) \/ Withdraw(r) \/ AuditWithdraw(r)

Edit(r) ==
  \/ \E p \in Payload : EditFind(r, p)
  \/ Revise(r) \/ ReviseRefused(r) \/ Resubmit(r) \/ AuditEdit(r)

Execute(r) ==
  \/ AutoApprove(r) \/ AuditAutoApprove(r)
  \/ ExecuteFind(r) \/ Write(r) \/ WriteRefused(r) \/ Post(r) \/ AuditExecute(r)
  \/ ExecutionFailed(r) \/ AuditExecuteFail(r)

Next == \E r \in Request :
  Create(r) \/ Check(r) \/ TakeBack(r) \/ Edit(r) \/ Execute(r) \/ Raise(r) \/ Die(r)

Spec == Init /\ [][Next]_vars

(* The event loop resumes a request that has begun.                        *)
Resume(r) ==
  /\ pc[r] # "idle"
  /\ Create(r) \/ Check(r) \/ TakeBack(r) \/ Edit(r) \/ Execute(r)

(* Owners look at the queue, and approve what they may.                    *)
FairSpec ==
  /\ Spec
  /\ \A r \in Request : WF_vars(Resume(r))
  /\ \A r \in Owner : WF_vars(CheckFind(r, "approve"))

-----------------------------------------------------------------------------
Statuses == Closed \cup Decided \cup {"none", "PENDING_APPROVAL"}

PCs == {"idle", "insert", "submitted", "auto", "auto_approved", "approve", "approved",
        "reject", "rejected", "withdraw", "withdrawn", "revise", "resubmit", "edited",
        "execute", "write", "wrote", "posted", "failing", "failed"}

Actions == Decisions \cup {"submit", "edit", "reject", "withdraw", "execute", "execute_fail"}

Rows == [status : Statuses, payload : Payload \cup {Nothing}, revision_index : Nat,
         maker : {"tenant", "peer"}, checker : {"none", "tenant", "solo_owner"}]

Reads == [revision_index : Nat, payload : Payload \cup {Nothing}]

(* Every variable has its type: the seven statuses and eight audit tokens  *)
(* of models.py are all there are.                                         *)
TypeOK ==
  /\ approval \in Rows
  /\ revisions \subseteq [index : Nat, before : Payload \cup {Nothing},
                          after : Payload \cup {Nothing}]
  /\ audits \subseteq Actions
  /\ posted \in Seq(Payload \cup {Nothing})
  /\ pc \in [Request -> PCs]
  /\ read \in [Request -> Reads]
  /\ hand \in [Request -> Payload \cup {Nothing}]

(* The writer never runs to its insert twice for one approval, whichever   *)
(* requests approve, resubmit, retry or die.                               *)
WriterRunsOnce == Len(posted) <= 1

(* What was executed is what the row says for ever after: no edit, swap or *)
(* stale copy puts the document and its approval apart.                    *)
ExecutedIsOnRecord ==
  posted # <<>> => /\ approval.status \in Decided
                   /\ posted[1] = approval.payload

(* No document without an audit row of the decision behind it: the audit   *)
(* precedes the writer, and a failed audit stops it.                       *)
DecisionIsAudited == posted # <<>> => audits \cap Decisions # {}

(* The revisions are a chain: one for every index up to the row's, at most *)
(* one that the row does not have yet, each starting where the last ended, *)
(* and the row's payload is the last one's.                                *)
RevisionChain ==
  /\ \A v, w \in revisions : v.index = w.index => v = w
  /\ \A v \in revisions : v.index \in 1 .. approval.revision_index + 1
  /\ \A k \in 1 .. approval.revision_index : \E v \in revisions : v.index = k
  /\ \A v, w \in revisions : w.index = v.index + 1 => w.before = v.after
  /\ \A v \in revisions : v.index = approval.revision_index => v.after = approval.payload

(* An edit that has inserted its revision cannot lose the swap: the 409 of *)
(* line 449 is never answered, and no revision is left over by a race.     *)
EditNeverLoses ==
  \A r \in Request : pc[r] = "resubmit" =>
    /\ approval.status \in Closed
    /\ approval.revision_index = read[r].revision_index

(* Once approved, a row keeps its payload, its revision and its checker,   *)
(* and is never pending, rejected or withdrawn again.                      *)
DecidedIsFrozen ==
  [][approval.status \in Decided =>
       /\ approval'.status \in Decided
       /\ approval' = [approval EXCEPT !.status = approval'.status]]_vars

(* A submission of someone other than the checker is decided, and executed *)
(* if it is approved, when owners look at the queue and nothing fails.     *)
PeersAreDecided ==
  approval.status = "PENDING_APPROVAL" /\ approval.maker = "peer"
    ~> approval.status \in Closed \cup {"POSTED", "EXECUTION_FAILED"}

-----------------------------------------------------------------------------
(* What documents and comments say that the code does not do.              *)

(* "checker approve -> execute -> POSTED": every submission can be decided *)
(* by an owner who looks at the queue.                                     *)
PendingIsDecided ==
  approval.status = "PENDING_APPROVAL" ~> approval.status # "PENDING_APPROVAL"

(* "execution-failure containment": an approved row ends posted or failed. *)
ApprovedSettles ==
  approval.status = "APPROVED" ~> approval.status \in {"POSTED", "EXECUTION_FAILED"}

(* "On writer failure the approval transitions to EXECUTION_FAILED": a row *)
(* that is POSTED stays so.                                                *)
PostedStays == [][approval.status = "POSTED" => approval'.status = "POSTED"]_vars

(* "auto_approve + execute atomically": what an owner's request executes   *)
(* is what that owner has offered, or has seen when approving it.          *)
ApproverKnowsPayload ==
  \A r \in Request : pc[r] = "write" => read[r].payload = hand[r]

(* "a new ApprovalRevision row is appended and status resets": there is no *)
(* revision that its approval does not have, but while an edit runs.       *)
EditIsAtomic ==
  (\A r \in Request : pc[r] # "resubmit")
    => \A v \in revisions : v.index <= approval.revision_index

-----------------------------------------------------------------------------
(* The inductive invariant.                                                *)

Executing == {"auto_approved", "approved", "execute", "write", "wrote", "posted",
              "failing", "failed"}

Before == {"auto_approved", "approved", "execute", "write"}

(* One request executes, and the status says how far it is.                *)
OneExecutes ==
  /\ \A r, s \in Request : pc[r] \in Executing /\ pc[s] \in Executing => r = s
  /\ \A r \in Request :
       /\ pc[r] \in Before \cup {"wrote"} => approval.status = "APPROVED"
       /\ pc[r] = "posted" => approval.status = "POSTED"
       /\ pc[r] = "failing" => approval.status \in {"APPROVED", "POSTED"}
       /\ pc[r] = "failed" => approval.status = "EXECUTION_FAILED"

(* The writer has not run yet, or has and the row is decided.              *)
WriterState ==
  /\ posted # <<>> => \A r \in Request : pc[r] \notin Before
  /\ approval.status = "none" => approval.revision_index = 0 /\ revisions = {}
  /\ \A r \in Request :
       /\ pc[r] = "write" => read[r].payload = approval.payload
       /\ pc[r] \in {"execute", "write", "wrote"} => audits \cap Decisions # {}

(* An editor's copy is the row's, or the row has moved on; one editor has  *)
(* the revision that is next.                                              *)
EditorState ==
  /\ \A r, s \in Request : pc[r] = "resubmit" /\ pc[s] = "resubmit" => r = s
  /\ \A r \in Request :
       /\ pc[r] = "revise" =>
            /\ read[r].revision_index <= approval.revision_index
            /\ approval.revision_index = read[r].revision_index =>
                 approval.status \in Closed /\ read[r].payload = approval.payload
       /\ pc[r] = "resubmit" =>
            \E v \in revisions : /\ v.index = read[r].revision_index + 1
                                 /\ v.after = hand[r]

IInv ==
  /\ TypeOK
  /\ WriterRunsOnce
  /\ ExecutedIsOnRecord
  /\ DecisionIsAudited
  /\ RevisionChain
  /\ EditNeverLoses
  /\ OneExecutes
  /\ WriterState
  /\ EditorState
=============================================================================
