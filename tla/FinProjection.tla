--------------------------- MODULE FinProjection ---------------------------
(***************************************************************************)
(* The fin_txn projection of ONE source document (an invoice, an expense,  *)
(* a trip's customer receipts, ...), from services_fin_txn.py and          *)
(* services_fin_txn_hooks.py.                                              *)
(*                                                                         *)
(* There are no Mongo transactions: every `await db...` is a step of its   *)
(* own, any other request may run between two steps, any step may raise    *)
(* and any process may die.  All queries are scoped to one                 *)
(* (user, company, source_type, source_id), so documents do not interact   *)
(* here and one is enough.  Four kinds of process touch the ledger:        *)
(*   Writer      a request that saves the document and then calls          *)
(*               hook_after_source_write;                                  *)
(*   Admin       POST /api/fin/reproject for one document;                 *)
(*   Replayer    replay_pending_failures, on this document's row;          *)
(*   Backfiller  backfill_tenant, on this document.                        *)
(***************************************************************************)
EXTENDS Integers, Sequences

CONSTANTS
  Doc,          \* contents of the source document, "absent" among them
  Leg,          \* ledger legs, with all their fields
  NoLeg,        \* no leg under a key
  Key,          \* ref_source_key values
  KeyOf,        \* the key of a leg
  Project,      \* what a content projects to: a sequence of legs
  Exact,        \* the keys that the delete on the exact source_id matches
  Writer, Admin, Replayer, Backfiller,
  Nobody,       \* the id of a failure row that does not exist
  NoDoc,        \* the local copy of a process that has read nothing
  MaxRetries

Proc == Writer \cup Admin \cup Replayer \cup Backfiller

(* The processes that run reproject_source.                                *)
Projector == Writer \cup Admin \cup Replayer

ASSUME RolesDisjoint ==
  /\ Writer \cap (Admin \cup Replayer \cup Backfiller) = {}
  /\ Admin \cap (Replayer \cup Backfiller) = {}
  /\ Replayer \cap Backfiller = {}

ASSUME ProjectionAssumption ==
  /\ NoLeg \notin Leg
  /\ NoDoc \notin Doc
  /\ Nobody \notin Writer
  /\ KeyOf \in [Leg -> Key]
  /\ Project \in [Doc -> Seq(Leg)]
  /\ Exact \subseteq Key

(* Every leg suffix of one projection is used once.                        *)
ASSUME KeysUnique ==
  \A d \in Doc : \A i, j \in 1 .. Len(Project[d]) :
    KeyOf[Project[d][i]] = KeyOf[Project[d][j]] => i = j

ASSUME MaxRetriesAssumption == MaxRetries \in Nat \ {0}

VARIABLES
  doc,       \* the authoritative source document
  fin_txn,   \* the ledger legs of this document, by ref_source_key
  failure,   \* the document's row of fin_hook_failures
  pc,        \* where each process is
  seen,      \* the content each process projects
  written,   \* how many legs of it the process has upserted
  row,       \* the failure row each process has read
  dirty,     \* history: running processes that met another one
  blame      \* history: what happened since the last clean projection

vars == <<doc, fin_txn, failure, pc, seen, written, row, dirty, blame>>

-----------------------------------------------------------------------------
(* The ledger.                                                             *)

Ledger == [Key -> Leg \cup {NoLeg}]

(* The ledger after the first n legs of content d, and nothing else.       *)
Prefix(d, n) ==
  [k \in Key |->
     IF \E i \in 1 .. n : KeyOf[Project[d][i]] = k
     THEN Project[d][CHOOSE i \in 1 .. n : KeyOf[Project[d][i]] = k]
     ELSE NoLeg]

View == [d \in Doc |-> Prefix(d, Len(Project[d]))]

-----------------------------------------------------------------------------
(* The failure queue.                                                      *)

NonTerminal == {"pending", "retrying"}

FailureRow ==
  [status : NonTerminal \cup {"none", "resolved", "permanently_failed"},
   retry_count : 0 .. MaxRetries,
   id : Writer \cup {Nobody}]

NoRow == [status |-> "none", retry_count |-> 0, id |-> Nobody]

Open(f) == f.status \in NonTerminal

(* A row that still asks for a repair, from the driver or from a human.    *)
Standing(f) == Open(f) \/ f.status = "permanently_failed"

-----------------------------------------------------------------------------
(* Processes.                                                              *)

Projecting == {"cascade", "delete", "read", "persist", "fetched"}

PC == Projecting \cup
      {"idle", "resolve", "resolve_write", "record", "record_write",
       "mark", "demote"}

Active == {p \in Proc : pc[p] # "idle"}

(* reproject_source deletes the compound ids first, if the type has any.   *)
FirstDelete == IF Exact = Key THEN "delete" ELSE "cascade"

(* A process starts work: it and every running one have met.               *)
Enter(p, where) ==
  /\ pc[p] = "idle"
  /\ pc' = [pc EXCEPT ![p] = where]
  /\ dirty' = IF Active = {} THEN {} ELSE Active \cup {p}
  /\ blame' = IF Active = {} THEN blame ELSE blame \cup {"overlap"}

Goto(p, from, to) ==
  /\ pc[p] = from
  /\ pc' = [pc EXCEPT ![p] = to]
  /\ UNCHANGED <<dirty, blame>>

(* A process ends; b is what a later projection still has to repair.       *)
Leave(p, b) ==
  /\ pc' = [pc EXCEPT ![p] = "idle"]
  /\ seen' = [seen EXCEPT ![p] = NoDoc]
  /\ written' = [written EXCEPT ![p] = 0]
  /\ row' = [row EXCEPT ![p] = NoRow]
  /\ dirty' = dirty \ {p}
  /\ blame' = b

Init ==
  /\ doc \in Doc
  /\ fin_txn = View[doc]
  /\ failure = NoRow
  /\ pc = [p \in Proc |-> "idle"]
  /\ seen = [p \in Proc |-> NoDoc]
  /\ written = [p \in Proc |-> 0]
  /\ row = [p \in Proc |-> NoRow]
  /\ dirty = {}
  /\ blame = {}

-----------------------------------------------------------------------------
(* The four entry points.                                                  *)

(* The request commits the document; the hook is called after that.        *)
CommitSource(p, d) ==
  /\ p \in Writer
  /\ Enter(p, FirstDelete)
  /\ doc' = d
  /\ UNCHANGED <<fin_txn, failure, seen, written, row>>

(* The owner asks for one document to be projected again.                  *)
AdminReproject(p) ==
  /\ p \in Admin
  /\ Enter(p, FirstDelete)
  /\ UNCHANGED <<doc, fin_txn, failure, seen, written, row>>

(* The driver's cursor yields the row; its fields are used until the end.  *)
ReplayRow(p) ==
  /\ p \in Replayer
  /\ Open(failure)
  /\ Enter(p, FirstDelete)
  /\ row' = [row EXCEPT ![p] = failure]
  /\ UNCHANGED <<doc, fin_txn, failure, seen, written>>

(* The backfill's cursor yields the document, before anything is deleted.  *)
BackfillFetch(p) ==
  /\ p \in Backfiller
  /\ Enter(p, "fetched")
  /\ seen' = [seen EXCEPT ![p] = doc]
  /\ UNCHANGED <<doc, fin_txn, failure, written, row>>

-----------------------------------------------------------------------------
(* reproject_source: delete, read, then upsert leg by leg.                 *)

(* A mutant: the pattern of the prefix delete matches nothing.             *)
DeleteCascadeMissed(p) ==
  /\ Goto(p, "cascade", "delete")
  /\ UNCHANGED <<doc, fin_txn, failure, seen, written, row>>

(* The prefix delete, "{source_id}:*".                                     *)
DeleteCascade(p) ==
  /\ Goto(p, "cascade", "delete")
  /\ fin_txn' = [k \in Key |-> IF k \in Exact THEN fin_txn[k] ELSE NoLeg]
  /\ UNCHANGED <<doc, failure, seen, written, row>>

WithoutExact == [k \in Key |-> IF k \in Exact THEN NoLeg ELSE fin_txn[k]]

DeleteExact(p) ==
  /\ Goto(p, "delete", "read")
  /\ fin_txn' = WithoutExact
  /\ UNCHANGED <<doc, failure, seen, written, row>>

ReadSource(p) ==
  /\ Goto(p, "read", "persist")
  /\ seen' = [seen EXCEPT ![p] = doc]
  /\ UNCHANGED <<doc, fin_txn, failure, written, row>>

(* backfill_tenant skips a document without legs before it deletes any.    *)
BackfillSkip(p) ==
  /\ pc[p] = "fetched"
  /\ Project[seen[p]] = <<>>
  /\ Leave(p, blame)
  /\ UNCHANGED <<doc, fin_txn, failure>>

(* Otherwise it deletes on the exact id only and keeps what it has read.   *)
BackfillDelete(p) ==
  /\ Goto(p, "fetched", "persist")
  /\ Project[seen[p]] # <<>>
  /\ fin_txn' = WithoutExact
  /\ UNCHANGED <<doc, failure, seen, written, row>>

UpsertLeg(p) ==
  /\ pc[p] = "persist"
  /\ written[p] < Len(Project[seen[p]])
  /\ written' = [written EXCEPT ![p] = @ + 1]
  /\ LET leg == Project[seen[p]][written[p] + 1]
     IN  fin_txn' = [fin_txn EXCEPT ![KeyOf[leg]] = leg]
  /\ UNCHANGED <<doc, failure, pc, seen, row, dirty, blame>>

AllWritten(p) == pc[p] = "persist" /\ written[p] = Len(Project[seen[p]])

(* A projection that met nobody has repaired whatever came before it.      *)
Repaired(p) == IF p \in dirty THEN blame ELSE {}

(* reproject_source returns to the hook or to the driver.                  *)
Projected(p) ==
  /\ AllWritten(p)
  /\ \/ p \in Writer   /\ pc' = [pc EXCEPT ![p] = "resolve"]
     \/ p \in Replayer /\ pc' = [pc EXCEPT ![p] = "mark"]
  /\ blame' = Repaired(p)
  /\ UNCHANGED <<doc, fin_txn, failure, seen, written, row, dirty>>

(* It returns to the admin route, which does not look at the queue.        *)
AdminDone(p) ==
  /\ p \in Admin
  /\ AllWritten(p)
  /\ Leave(p, Repaired(p))
  /\ UNCHANGED <<doc, fin_txn, failure>>

(* The backfill goes on to its next document.                              *)
BackfillDone(p) ==
  /\ p \in Backfiller
  /\ AllWritten(p)
  /\ Leave(p, blame)
  /\ UNCHANGED <<doc, fin_txn, failure>>

(* A mutant: the hook swallows the error and records nothing.              *)
RaiseSwallowed(p) ==
  /\ pc[p] \in Projecting
  /\ Leave(p, IF p \in Writer THEN blame ELSE blame \cup {"lost"})
  /\ UNCHANGED <<doc, fin_txn, failure>>

(* A database call (or the account lookup) raises.  The hook and the       *)
(* driver catch it; the admin route answers 500 and the backfill counts    *)
(* an error, and neither leaves a row behind.                              *)
Raise(p) ==
  /\ pc[p] \in Projecting
  /\ \/ /\ p \in Writer \cup Replayer
        /\ Goto(p, pc[p], IF p \in Writer THEN "record" ELSE "demote")
        /\ UNCHANGED <<seen, written, row>>
     \/ /\ p \in Admin \cup Backfiller
        /\ Leave(p, blame \cup {"lost"})
  /\ UNCHANGED <<doc, fin_txn, failure>>

-----------------------------------------------------------------------------
(* hook_after_source_write, after reproject_source.                        *)

(* _resolve_failure: find an open row ...                                  *)
ResolveFind(p) ==
  /\ pc[p] = "resolve"
  /\ \/ /\ Open(failure)
        /\ Goto(p, "resolve", "resolve_write")
        /\ UNCHANGED <<seen, written, row>>
     \/ /\ ~Open(failure)
        /\ Leave(p, blame)
  /\ UNCHANGED <<doc, fin_txn, failure>>

(* ... then close the document's row, whatever its status is by now.       *)
ResolveWrite(p) ==
  /\ pc[p] = "resolve_write"
  /\ failure' = [failure EXCEPT !.status = "resolved"]
  /\ Leave(p, blame)
  /\ UNCHANGED <<doc, fin_txn>>

(* The hook swallows an error of either call.                              *)
ResolveRaise(p) ==
  /\ pc[p] \in {"resolve", "resolve_write"}
  /\ Leave(p, blame)
  /\ UNCHANGED <<doc, fin_txn, failure>>

(* _record_failure: read the row ...                                       *)
RecordFind(p) ==
  /\ Goto(p, "record", "record_write")
  /\ row' = [row EXCEPT ![p] = failure]
  /\ UNCHANGED <<doc, fin_txn, failure, seen, written>>

(* Two mutants: a terminal row is not reopened; it is, straight into       *)
(* "retrying".                                                             *)
RecordWriteOnce(p) ==
  /\ pc[p] = "record_write"
  /\ failure' = IF row[p] # NoRow THEN failure
                ELSE [status |-> "pending", retry_count |-> 0, id |-> p]
  /\ Leave(p, blame)
  /\ UNCHANGED <<doc, fin_txn>>

RecordWriteRetrying(p) ==
  /\ pc[p] = "record_write"
  /\ failure' =
       IF Open(row[p]) THEN failure
       ELSE [status |-> IF row[p] = NoRow THEN "pending" ELSE "retrying",
             retry_count |-> 0,
             id |-> IF row[p] = NoRow THEN p ELSE row[p].id]
  /\ Leave(p, blame)
  /\ UNCHANGED <<doc, fin_txn>>

(* ... an open row only gets the new error text, any other is created or   *)
(* reopened with a fresh budget and keeps the id it had.                   *)
RecordWrite(p) ==
  /\ pc[p] = "record_write"
  /\ failure' =
       IF Open(row[p]) THEN failure
       ELSE [status |-> "pending", retry_count |-> 0,
             id |-> IF row[p] = NoRow THEN p ELSE row[p].id]
  /\ Leave(p, blame)
  /\ UNCHANGED <<doc, fin_txn>>

(* The hook only logs that the failure could not be recorded.              *)
RecordRaise(p) ==
  /\ pc[p] \in {"record", "record_write"}
  /\ Leave(p, blame \cup {"lost"})
  /\ UNCHANGED <<doc, fin_txn, failure>>

-----------------------------------------------------------------------------
(* replay_pending_failures, after reproject_source.                        *)

(* The driver's updates select by the id it read with the row.             *)
UpdateById(p, f) == IF failure.id = row[p].id THEN f ELSE failure

MarkResolved(p) ==
  /\ pc[p] = "mark"
  /\ failure' = UpdateById(p, [failure EXCEPT !.status = "resolved"])
  /\ Leave(p, blame)
  /\ UNCHANGED <<doc, fin_txn>>

(* The update stands inside the try: its failure counts as an attempt.     *)
MarkRaise(p) ==
  /\ Goto(p, "mark", "demote")
  /\ UNCHANGED <<doc, fin_txn, failure, seen, written, row>>

(* A mutant: attempts are not counted.                                     *)
DemoteUncounted(p) ==
  /\ pc[p] = "demote"
  /\ failure' = UpdateById(p, [failure EXCEPT !.status = "retrying"])
  /\ Leave(p, blame)
  /\ UNCHANGED <<doc, fin_txn>>

(* The attempt is counted on the row that was read, not on the row now.    *)
Demote(p) ==
  /\ pc[p] = "demote"
  /\ LET count == row[p].retry_count + 1
     IN  failure' = UpdateById(p,
           [failure EXCEPT
              !.retry_count = count,
              !.status = IF count >= MaxRetries
                         THEN "permanently_failed" ELSE "retrying"])
  /\ Leave(p, blame)
  /\ UNCHANGED <<doc, fin_txn>>

(* An error here ends the whole sweep; the row stays as it is.             *)
DemoteRaise(p) ==
  /\ pc[p] = "demote"
  /\ Leave(p, blame)
  /\ UNCHANGED <<doc, fin_txn, failure>>

-----------------------------------------------------------------------------
(* The process dies between two of its steps.                              *)
Crash(p) ==
  /\ pc[p] # "idle"
  /\ Leave(p, blame \cup {"lost"})
  /\ UNCHANGED <<doc, fin_txn, failure>>

Reproject(p) ==
  \/ DeleteCascade(p) \/ DeleteExact(p) \/ ReadSource(p)
  \/ UpsertLeg(p) \/ Projected(p) \/ Raise(p)

HookStep(p) ==
  \/ ResolveFind(p) \/ ResolveWrite(p) \/ ResolveRaise(p)
  \/ RecordFind(p) \/ RecordWrite(p) \/ RecordRaise(p)

ReplayStep(p) ==
  ReplayRow(p) \/ MarkResolved(p) \/ MarkRaise(p) \/ Demote(p) \/ DemoteRaise(p)

BackfillStep(p) ==
  BackfillFetch(p) \/ BackfillSkip(p) \/ BackfillDelete(p) \/ BackfillDone(p)

AdminStep(p) == AdminReproject(p) \/ AdminDone(p)

Next ==
  \E p \in Proc :
    \/ \E d \in Doc : CommitSource(p, d)
    \/ Reproject(p) \/ HookStep(p) \/ ReplayStep(p)
    \/ BackfillStep(p) \/ AdminStep(p) \/ Crash(p)

Spec == Init /\ [][Next]_vars

-----------------------------------------------------------------------------
(* Properties.                                                             *)

(* Types of the variables.                                                 *)
TypeOK ==
  /\ doc \in Doc
  /\ fin_txn \in Ledger
  /\ failure \in FailureRow
  /\ pc \in [Proc -> PC]
  /\ seen \in [Proc -> Doc \cup {NoDoc}]
  /\ written \in [Proc -> Nat]
  /\ row \in [Proc -> FailureRow]
  /\ dirty \subseteq Proc
  /\ blame \subseteq {"overlap", "lost"}

Debt ==
  (IF Active = {} THEN {} ELSE {"running"})
    \cup (IF Standing(failure) THEN {"queued"} ELSE {})
    \cup blame

(* Once nobody works on the document, no row asks for a repair, and        *)
(* nothing went wrong since the last projection that ran undisturbed, the  *)
(* ledger holds exactly the document's legs: none missing, none left over. *)
SettledLedgerIsFaithful == Debt = {} => fin_txn = View[doc]

(* A projection that met nobody shows, when it ends, the content it read,  *)
(* whatever crashes, races or half-written ledgers came before it.         *)
LoneProjectionHeals ==
  \A p \in Projector :
    AllWritten(p) /\ p \notin dirty => fin_txn = View[doc]

(* The retry budget: an open row has attempts left, a row is given up      *)
(* after exactly MaxRetries of them, and reopening starts a new budget.    *)
RetryBudget ==
  /\ failure.status = "pending" => failure.retry_count = 0
  /\ failure.status = "retrying" => failure.retry_count \in 1 .. MaxRetries - 1
  /\ failure.status = "permanently_failed" => failure.retry_count = MaxRetries

(* A row given up is for a human: no driver puts it back to "retrying".    *)
(* It holds as long as sweeps do not overlap, and only then.               *)
GivenUpIsNotRetried ==
  [][failure.status = "permanently_failed" => failure'.status # "retrying"]_vars

(* The queue is drained: an open row is resolved or given up in the end.   *)
QueueDrains == Open(failure) ~> ~Open(failure)

(* A driver is run again and again, and does not always die, or lose its   *)
(* database, at the same step.                                             *)
DriverFairness ==
  \A p \in Replayer :
    /\ SF_vars(ReplayRow(p))
    /\ SF_vars(DeleteCascade(p))
    /\ SF_vars(DeleteExact(p))
    /\ SF_vars(ReadSource(p))
    /\ SF_vars(UpsertLeg(p))
    /\ SF_vars(Projected(p))
    /\ SF_vars(MarkResolved(p) \/ MarkRaise(p))
    /\ SF_vars(Demote(p))

FairSpec == Spec /\ DriverFairness

(* The projection keeps the contract of a rebuildable view.                *)
Contract == INSTANCE LedgerContract WITH
  Doc <- Doc, View <- View, Ledger <- Ledger,
  Reason <- {"running", "queued", "overlap", "lost"},
  doc <- doc, ledger <- fin_txn, debt <- Debt

KeepsContract == Contract!Spec

-----------------------------------------------------------------------------
(* What the source says and concurrency breaks.                            *)

(* services_fin_txn.py: re-projection never leaks a leg of an earlier      *)
(* content.  (Nothing failed and nothing crashed.)                         *)
NoLegacyLeg ==
  Active = {} /\ failure = NoRow /\ "lost" \notin blame =>
    \A k \in Key : fin_txn[k] # NoLeg => View[doc][k] # NoLeg

(* services_fin_txn_hooks.py: repair information does not silently         *)
(* disappear: a row that the driver closes asks for nothing any more.      *)
ClosedRowIsRepaired ==
  [][\A p \in Replayer :
       MarkResolved(p) /\ Active = {p} /\ "lost" \notin blame
         => fin_txn = View[doc]]_vars

(* backfill_tenant rebuilds: a document it has deleted and inserted, with  *)
(* nobody else around, shows in the ledger as it is.                       *)
BackfillRebuilds ==
  \A p \in Backfiller :
    AllWritten(p) /\ p \notin dirty => fin_txn = View[doc]

-----------------------------------------------------------------------------
(* The inductive invariant behind the properties.                          *)

(* Who has met whom, and that it is remembered.                            *)
Meetings ==
  /\ dirty \subseteq Active
  /\ dirty # {} => "overlap" \in blame
  /\ \A p \in Active \ dirty : Active = {p}

(* Which role can be where, and what it then holds.                        *)
Roles ==
  \A p \in Proc :
    /\ pc[p] \in {"cascade", "delete", "read"} => p \in Projector
    /\ pc[p] = "fetched" => p \in Backfiller
    /\ pc[p] \in {"resolve", "resolve_write", "record", "record_write"}
         => p \in Writer
    /\ pc[p] \in {"mark", "demote"} => p \in Replayer
    /\ pc[p] \in {"fetched", "persist"} => seen[p] \in Doc
    /\ pc[p] = "persist" => written[p] <= Len(Project[seen[p]])
    /\ pc[p] \in {"idle", "cascade", "delete", "read", "fetched"}
         => written[p] = 0

(* The rows that the drivers work on have attempts left.                   *)
Attempts ==
  \A p \in Replayer :
    pc[p] # "idle" => Open(row[p]) /\ row[p].retry_count < MaxRetries

(* How far a lone reproject_source has brought the ledger.                 *)
LoneProjector(p) ==
  /\ pc[p] = "delete" => \A k \in Key \ Exact : fin_txn[k] = NoLeg
  /\ pc[p] = "read" => \A k \in Key : fin_txn[k] = NoLeg
  /\ pc[p] = "persist" => seen[p] = doc /\ fin_txn = Prefix(doc, written[p])
  /\ pc[p] \in {"resolve", "resolve_write", "mark"}
       => blame = {} /\ fin_txn = View[doc]
  /\ pc[p] = "record_write" => row[p] = failure
  /\ p \in Replayer => row[p] = failure

(* A lone backfill keeps a faithful ledger faithful.                       *)
LoneBackfiller(p) ==
  /\ seen[p] = doc
  /\ blame = {} /\ ~Standing(failure) =>
       \A k \in Key :
         \/ fin_txn[k] = View[doc][k]
         \/ /\ pc[p] = "persist"
            /\ fin_txn[k] = NoLeg
            /\ \E i \in written[p] + 1 .. Len(Project[doc]) :
                 KeyOf[Project[doc][i]] = k

Lone ==
  \A p \in Active \ dirty :
    /\ p \in Projector => LoneProjector(p)
    /\ p \in Backfiller => LoneBackfiller(p)

IInv ==
  /\ TypeOK
  /\ Meetings
  /\ Roles
  /\ Attempts
  /\ RetryBudget
  /\ Lone
  /\ SettledLedgerIsFaithful
=============================================================================
