---------------------------- MODULE Idempotency ----------------------------
(***************************************************************************)
(* The Idempotency-Key middleware, idempotency.py, for ONE tuple of user,  *)
(* company, method, path and key: the composite _id keeps tuples apart.    *)
(*                                                                         *)
(* Every request of Req is one attempt at the same operation (a double     *)
(* click, a retry after a lost answer).  The handler behind the middleware *)
(* is external: it has its effect or not, and answers with something that  *)
(* is cached (2xx to 4xx) or not (5xx, an exception, more than 5 MiB).     *)
(***************************************************************************)
EXTENDS Naturals

CONSTANTS
  Req,          \* attempts with the same key
  Nobody,       \* no response
  MaxPolls      \* polls that fit into POLL_TIMEOUT_SEC

ASSUME ReqAssumption == Nobody \notin Req

ASSUME MaxPollsAssumption == MaxPolls \in Nat \ {0}

VARIABLES
  row,       \* the row of idempotency_keys
  pc,        \* where each attempt is
  polls,     \* how often a follower has looked at the row
  answer,    \* whose response each attempt was answered with
  effects,   \* attempts whose handler had its effect, in this replay window
  gaveUp,    \* history: followers that gave up waiting
  released   \* history: leaders that released the claim

vars == <<row, pc, polls, answer, effects, gaveUp, released>>

Absent == [status |-> "absent", response |-> Nobody]
InProgress == [status |-> "in_progress", response |-> Nobody]
Completed(r) == [status |-> "completed", response |-> r]

Leading == {"lead", "store", "release"}

PC == Leading \cup {"new", "look", "sleep", "run", "done", "dead"}

Leader == {r \in Req : pc[r] \in Leading}

Live == {r \in Req : pc[r] \notin {"new", "done", "dead"}}

(* Attempts whose own run the middleware does not protect.                 *)
Excused == gaveUp \cup released

Goto(r, from, to) == pc[r] = from /\ pc' = [pc EXCEPT ![r] = to]

Init ==
  /\ row = Absent
  /\ pc = [r \in Req |-> "new"]
  /\ polls = [r \in Req |-> 0]
  /\ answer = [r \in Req |-> Nobody]
  /\ effects = {}
  /\ gaveUp = {}
  /\ released = {}

-----------------------------------------------------------------------------
(* The claim.                                                              *)

(* insert_one under the unique _id succeeds for one attempt.               *)
Claim(r) ==
  /\ row = Absent
  /\ Goto(r, "new", "lead")
  /\ row' = InProgress
  /\ UNCHANGED <<polls, answer, effects, gaveUp, released>>

(* Any exception of insert_one makes a follower: a duplicate _id, but also *)
(* a lost database, or an acknowledgement that got lost.                   *)
ClaimRefused(r) ==
  /\ Goto(r, "new", "look")
  /\ row' \in {row, IF row = Absent THEN InProgress ELSE row}
  /\ UNCHANGED <<polls, answer, effects, gaveUp, released>>

-----------------------------------------------------------------------------
(* The follower.                                                           *)

(* A mutant: a claim in progress is not waited for.                        *)
LookImpatient(r) ==
  /\ pc[r] = "look"
  /\ \/ /\ row.status = "completed"
        /\ pc' = [pc EXCEPT ![r] = "done"]
        /\ answer' = [answer EXCEPT ![r] = row.response]
     \/ /\ row.status # "completed"
        /\ pc' = [pc EXCEPT ![r] = "run"]
        /\ UNCHANGED answer
  /\ UNCHANGED <<row, polls, effects, gaveUp, released>>

(* find_one: a completed row is replayed, anything else is waited for.     *)
Look(r) ==
  /\ pc[r] = "look"
  /\ \/ /\ row.status = "completed"
        /\ pc' = [pc EXCEPT ![r] = "done"]
        /\ answer' = [answer EXCEPT ![r] = row.response]
     \/ /\ row.status # "completed"
        /\ pc' = [pc EXCEPT ![r] = "sleep"]
        /\ UNCHANGED answer
  /\ UNCHANGED <<row, polls, effects, gaveUp, released>>

(* Nothing catches an error of find_one: the attempt ends in a 500.        *)
LookRaise(r) ==
  /\ Goto(r, "look", "done")
  /\ UNCHANGED <<row, polls, answer, effects, gaveUp, released>>

(* A mutant: a deadline that is never reached.                             *)
LookAgainForever(r) ==
  /\ Goto(r, "sleep", "look")
  /\ UNCHANGED <<row, polls, answer, effects, gaveUp, released>>

LookAgain(r) ==
  /\ polls[r] < MaxPolls
  /\ Goto(r, "sleep", "look")
  /\ polls' = [polls EXCEPT ![r] = @ + 1]
  /\ UNCHANGED <<row, answer, effects, gaveUp, released>>

(* At the deadline the follower runs the handler, without a claim.         *)
GiveUp(r) ==
  /\ Goto(r, "sleep", "run")
  /\ gaveUp' = gaveUp \cup {r}
  /\ UNCHANGED <<row, polls, answer, effects, released>>

(* A mutant: the response of such a run is cached too.                     *)
RunUnclaimedCached(r) ==
  /\ Goto(r, "run", "done")
  /\ effects' \in {effects, effects \cup {r}}
  /\ answer' = [answer EXCEPT ![r] = r]
  /\ row' = Completed(r)
  /\ UNCHANGED <<polls, gaveUp, released>>

(* Its response is neither cached nor does it touch the row.               *)
RunUnclaimed(r) ==
  /\ Goto(r, "run", "done")
  /\ effects' \in {effects, effects \cup {r}}
  /\ answer' = [answer EXCEPT ![r] = r]
  /\ UNCHANGED <<row, polls, gaveUp, released>>

-----------------------------------------------------------------------------
(* The leader.                                                             *)

(* The handler: its effect, and whether the response may be cached.        *)
Handle(r) ==
  /\ \E next \in {"store", "release"} : Goto(r, "lead", next)
  /\ effects' \in {effects, effects \cup {r}}
  /\ UNCHANGED <<row, polls, answer, gaveUp, released>>

(* update_one without upsert.                                              *)
Store(r) ==
  /\ Goto(r, "store", "done")
  /\ row' = IF row = Absent THEN Absent ELSE Completed(r)
  /\ answer' = [answer EXCEPT ![r] = r]
  /\ UNCHANGED <<polls, effects, gaveUp, released>>

(* The claim is dropped, so that a later attempt may lead.                 *)
Release(r) ==
  /\ Goto(r, "release", "done")
  /\ row' = Absent
  /\ answer' = [answer EXCEPT ![r] = r]
  /\ released' = released \cup {r}
  /\ UNCHANGED <<polls, effects, gaveUp>>

(* An error of either write is swallowed; the row stays in progress.       *)
SettleRaise(r) ==
  /\ \E from \in {"store", "release"} : Goto(r, from, "done")
  /\ answer' = [answer EXCEPT ![r] = r]
  /\ UNCHANGED <<row, polls, effects, gaveUp, released>>

-----------------------------------------------------------------------------
(* The environment.                                                        *)

(* The server dies under an attempt; its row, if any, stays.               *)
Crash(r) ==
  /\ r \in Live
  /\ pc' = [pc EXCEPT ![r] = "dead"]
  /\ UNCHANGED <<row, polls, answer, effects, gaveUp, released>>

(* The TTL index drops the row after 24 hours: a new replay window starts. *)
(* No attempt lasts that long.                                             *)
Expire ==
  /\ row # Absent
  /\ Live = {}
  /\ row' = Absent
  /\ answer' = [r \in Req |-> Nobody]
  /\ effects' = {}
  /\ gaveUp' = {}
  /\ released' = {}
  /\ UNCHANGED <<pc, polls>>

Follow(r) ==
  \/ Look(r) \/ LookRaise(r) \/ LookAgain(r) \/ GiveUp(r) \/ RunUnclaimed(r)

Lead(r) == Handle(r) \/ Store(r) \/ Release(r) \/ SettleRaise(r)

Next ==
  \/ \E r \in Req : Claim(r) \/ ClaimRefused(r) \/ Follow(r) \/ Lead(r) \/ Crash(r)
  \/ Expire

Spec == Init /\ [][Next]_vars

(* An attempt that has begun goes on: the event loop runs it, the handler  *)
(* ends, and the deadline of the poll loop is reached.                     *)
FairSpec == Spec /\ \A r \in Req : WF_vars(Follow(r) \/ Lead(r))

-----------------------------------------------------------------------------
(* Properties.                                                             *)

(* Types of the variables.                                                 *)
TypeOK ==
  /\ row \in {Absent, InProgress} \cup {Completed(r) : r \in Req}
  /\ pc \in [Req -> PC]
  /\ polls \in [Req -> 0 .. MaxPolls]
  /\ answer \in [Req -> Req \cup {Nobody}]
  /\ effects \subseteq Req
  /\ gaveUp \subseteq Req
  /\ released \subseteq Req

(* In one replay window at most one attempt has the effect, but for those  *)
(* that gave up waiting and those whose claim was released after it.       *)
OncePerWindow == \A r, s \in effects \ Excused : r = s

(* Attempts that neither gave up nor were released are answered with one   *)
(* and the same response, in whatever order they came and ended.           *)
AnswersAgree ==
  \A r, s \in Req \ Excused :
    answer[r] # Nobody /\ answer[s] # Nobody => answer[r] = answer[s]

(* Nobody waits for ever, not even on a leader that died.                  *)
Answered == \A r \in Req : r \in Live ~> r \notin Live

(* idempotency.py: the handler is executed exactly once per tuple, and no  *)
(* duplicate row is ever created.  (No response was left uncached.)        *)
ExecutedOnce == released = {} => \A r, s \in effects : r = s

-----------------------------------------------------------------------------
(* The inductive invariant behind the properties.                          *)

(* One leader at a time, and the claim is there while it leads.            *)
SingleFlight ==
  /\ \A r, s \in Leader : r = s
  /\ Leader # {} => row = InProgress

(* What an attempt without an excuse leaves behind.                        *)
Trace ==
  /\ \A r \in Req :
       /\ pc[r] = "new" => r \notin effects /\ r \notin Excused
       /\ pc[r] = "run" => r \in gaveUp
       /\ pc[r] \in {"lead", "look", "sleep"} => r \notin effects
       /\ pc[r] = "new" \/ r \in Live => answer[r] = Nobody
       /\ r \in Leader => r \notin Excused
  /\ \A r \in effects \ Excused : row # Absent /\ Leader \subseteq {r}
  /\ \A r \in Req \ Excused :
       answer[r] # Nobody =>
         \/ row = Completed(answer[r])
         \/ row = InProgress /\ Leader = {} /\ answer[r] = r

IInv ==
  /\ TypeOK
  /\ SingleFlight
  /\ Trace
  /\ OncePerWindow
  /\ AnswersAgree
=============================================================================
