------------------------- MODULE Idempotency_proofs -------------------------
(***************************************************************************)
(* Proofs about Idempotency, for every set of attempts and every number of *)
(* polls.                                                                  *)
(***************************************************************************)
EXTENDS Idempotency, TLAPS

(* The rows are three kinds that cannot be confused.                       *)
LEMMA Rows ==
  /\ Absent # InProgress
  /\ \A r : Completed(r) # Absent /\ Completed(r) # InProgress
  /\ \A r, s : Completed(r) = Completed(s) => r = s
BY DEF Absent, InProgress, Completed

LEMMA InitInv == Init => IInv
<1> SUFFICES ASSUME Init PROVE IInv
  OBVIOUS
<1>1. TypeOK
  BY MaxPollsAssumption DEF Init, TypeOK, PC
<1>2. SingleFlight /\ Trace
  BY DEF Init, SingleFlight, Trace, Leader, Leading, Live, Excused
<1>3. OncePerWindow /\ AnswersAgree
  BY DEF Init, OncePerWindow, AnswersAgree
<1> QED BY <1>1, <1>2, <1>3 DEF IInv

(* A completed row names the attempt whose response it holds.              *)
LEMMA RowHolds ==
  ASSUME TypeOK
  PROVE  row.status = "completed" => row.response \in Req /\ row = Completed(row.response)
BY DEF TypeOK, Absent, InProgress, Completed

(* The claim keeps the invariant: there is none while anybody leads.       *)
LEMMA ClaimInv ==
  ASSUME IInv, NEW r \in Req, Claim(r) \/ ClaimRefused(r)
  PROVE  IInv'
<1>t. TypeOK /\ SingleFlight /\ Trace /\ OncePerWindow /\ AnswersAgree
  BY DEF IInv
<1>1. TypeOK'
  BY <1>t DEF Claim, ClaimRefused, Goto, TypeOK, PC, Leading, Live
<1>2. SingleFlight'
  BY <1>t, Rows DEF Claim, ClaimRefused, Goto, TypeOK, SingleFlight, Trace, Leader, Leading, Live
<1>3. Trace'
  <2>1. CASE Claim(r)
    BY <1>t, <2>1, Rows DEF Claim, Goto, TypeOK, SingleFlight, Trace, Leader, Leading,
       Live, Excused
  <2>2. CASE ClaimRefused(r)
    <3>1. /\ pc[r] = "new" /\ pc'[r] = "look" /\ Leader' = Leader
          /\ \A s \in Req : s # r => pc'[s] = pc[s]
          /\ UNCHANGED <<answer, effects, gaveUp, released>>
      BY <1>t, <2>2 DEF ClaimRefused, Goto, TypeOK, Leader, Leading
    <3>2. CASE row' = row
      BY <1>t, <3>1, <3>2 DEF Trace, Live, Excused
    <3>3. CASE row = Absent /\ row' = InProgress
      <4>1. /\ effects \ Excused = {}
            /\ \A s \in Req \ Excused : answer[s] = Nobody
        BY <1>t, <3>3, Rows DEF Trace
      <4> QED BY <1>t, <3>1, <4>1 DEF Trace, Live, Excused
    <3> QED BY <2>2, <3>2, <3>3 DEF ClaimRefused
  <2> QED BY <2>1, <2>2
<1>4. OncePerWindow'
  BY <1>t DEF Claim, ClaimRefused, Goto, TypeOK, SingleFlight, Trace, Leader, Leading,
     Excused, OncePerWindow
<1>5. AnswersAgree'
  BY <1>t, Rows, ReqAssumption DEF Claim, ClaimRefused, Goto, TypeOK, SingleFlight, Trace, Leader, Leading,
     Excused, AnswersAgree
<1> QED BY <1>1, <1>2, <1>3, <1>4, <1>5 DEF IInv

(* A follower looks at the row, and may replay it.                         *)
LEMMA LookInv ==
  ASSUME IInv, NEW r \in Req, Look(r) \/ LookRaise(r)
  PROVE  IInv'
<1>t. TypeOK /\ SingleFlight /\ Trace /\ OncePerWindow /\ AnswersAgree
  BY DEF IInv
<1>1. TypeOK'
  BY <1>t, RowHolds DEF Look, LookRaise, Goto, TypeOK, PC, Leading, Live
<1>2. SingleFlight'
  BY <1>t, Rows DEF Look, LookRaise, Goto, TypeOK, SingleFlight, Trace, Leader, Leading, Live
<1>3. Trace'
  BY <1>t, Rows, RowHolds, ReqAssumption DEF Look, LookRaise, Goto, TypeOK, SingleFlight, Trace, Leader, Leading,
     Live, Excused, AnswersAgree
<1>4. OncePerWindow'
  BY <1>t DEF Look, LookRaise, Goto, TypeOK, SingleFlight, Trace, Leader, Leading,
     Excused, OncePerWindow
<1>5. AnswersAgree'
  BY <1>t, Rows, RowHolds, ReqAssumption DEF Look, LookRaise, Goto, TypeOK, SingleFlight, Trace, Leader, Leading,
     Excused, AnswersAgree
<1> QED BY <1>1, <1>2, <1>3, <1>4, <1>5 DEF IInv

(* A follower waits, or gives up.                                          *)
LEMMA WaitInv ==
  ASSUME IInv, NEW r \in Req, LookAgain(r) \/ GiveUp(r)
  PROVE  IInv'
<1>t. TypeOK /\ SingleFlight /\ Trace /\ OncePerWindow /\ AnswersAgree
  BY DEF IInv
<1>1. TypeOK'
  BY <1>t, MaxPollsAssumption DEF LookAgain, GiveUp, Goto, TypeOK, PC, Leading, Live
<1>2. SingleFlight'
  BY <1>t, Rows DEF LookAgain, GiveUp, Goto, TypeOK, SingleFlight, Trace, Leader, Leading, Live
<1>3. Trace'
  BY <1>t, Rows, ReqAssumption DEF LookAgain, GiveUp, Goto, TypeOK, SingleFlight, Trace, Leader, Leading,
     Live, Excused, AnswersAgree
<1>4. OncePerWindow'
  BY <1>t DEF LookAgain, GiveUp, Goto, TypeOK, SingleFlight, Trace, Leader, Leading,
     Excused, OncePerWindow
<1>5. AnswersAgree'
  BY <1>t, Rows, ReqAssumption DEF LookAgain, GiveUp, Goto, TypeOK, SingleFlight, Trace, Leader, Leading,
     Excused, AnswersAgree
<1> QED BY <1>1, <1>2, <1>3, <1>4, <1>5 DEF IInv

(* A follower that gave up runs the handler.                               *)
LEMMA RunInv ==
  ASSUME IInv, NEW r \in Req, RunUnclaimed(r)
  PROVE  IInv'
<1>t. TypeOK /\ SingleFlight /\ Trace /\ OncePerWindow /\ AnswersAgree
  BY DEF IInv
<1>1. TypeOK'
  BY <1>t DEF RunUnclaimed, Goto, TypeOK, PC, Leading, Live
<1>2. SingleFlight'
  BY <1>t, Rows DEF RunUnclaimed, Goto, TypeOK, SingleFlight, Trace, Leader, Leading, Live
<1>3. Trace'
  BY <1>t, Rows, ReqAssumption DEF RunUnclaimed, Goto, TypeOK, SingleFlight, Trace, Leader, Leading,
     Live, Excused, AnswersAgree
<1>4. OncePerWindow'
  BY <1>t DEF RunUnclaimed, Goto, TypeOK, SingleFlight, Trace, Leader, Leading,
     Excused, OncePerWindow
<1>5. AnswersAgree'
  BY <1>t, Rows, ReqAssumption DEF RunUnclaimed, Goto, TypeOK, SingleFlight, Trace, Leader, Leading,
     Excused, AnswersAgree
<1> QED BY <1>1, <1>2, <1>3, <1>4, <1>5 DEF IInv

(* The leader's handler runs: nobody without an excuse has run it before.  *)
LEMMA HandleInv ==
  ASSUME IInv, NEW r \in Req, Handle(r)
  PROVE  IInv'
<1>t. TypeOK /\ SingleFlight /\ Trace /\ OncePerWindow /\ AnswersAgree
  BY DEF IInv
<1>1. TypeOK'
  BY <1>t DEF Handle, Goto, TypeOK, PC, Leading, Live
<1>2. SingleFlight'
  BY <1>t, Rows DEF Handle, Goto, TypeOK, SingleFlight, Trace, Leader, Leading, Live
<1>3. Trace'
  BY <1>t, Rows, ReqAssumption DEF Handle, Goto, TypeOK, SingleFlight, Trace, Leader, Leading,
     Live, Excused, AnswersAgree
<1>4. OncePerWindow'
  BY <1>t DEF Handle, Goto, TypeOK, SingleFlight, Trace, Leader, Leading,
     Excused, OncePerWindow
<1>5. AnswersAgree'
  BY <1>t, Rows, ReqAssumption DEF Handle, Goto, TypeOK, SingleFlight, Trace, Leader, Leading,
     Excused, AnswersAgree
<1> QED BY <1>1, <1>2, <1>3, <1>4, <1>5 DEF IInv

(* The leader's response is cached: nobody else was answered before.       *)
LEMMA StoreInv ==
  ASSUME IInv, NEW r \in Req, Store(r)
  PROVE  IInv'
<1>t. TypeOK /\ SingleFlight /\ Trace /\ OncePerWindow /\ AnswersAgree
  BY DEF IInv
<1>1. TypeOK'
  BY <1>t DEF Store, Goto, TypeOK, PC, Leading, Live
<1>2. SingleFlight'
  BY <1>t, Rows DEF Store, Goto, TypeOK, SingleFlight, Trace, Leader, Leading, Live
<1>3. Trace'
  BY <1>t, Rows, ReqAssumption DEF Store, Goto, TypeOK, SingleFlight, Trace, Leader, Leading,
     Live, Excused, AnswersAgree
<1>4. OncePerWindow'
  BY <1>t DEF Store, Goto, TypeOK, SingleFlight, Trace, Leader, Leading,
     Excused, OncePerWindow
<1>5. AnswersAgree'
  BY <1>t, Rows, ReqAssumption DEF Store, Goto, TypeOK, SingleFlight, Trace, Leader, Leading,
     Excused, AnswersAgree
<1> QED BY <1>1, <1>2, <1>3, <1>4, <1>5 DEF IInv

(* The leader drops its claim, and with it the protection of its run.      *)
LEMMA ReleaseInv ==
  ASSUME IInv, NEW r \in Req, Release(r)
  PROVE  IInv'
<1>t. TypeOK /\ SingleFlight /\ Trace /\ OncePerWindow /\ AnswersAgree
  BY DEF IInv
<1>1. TypeOK'
  BY <1>t DEF Release, Goto, TypeOK, PC, Leading, Live
<1>2. SingleFlight'
  BY <1>t, Rows DEF Release, Goto, TypeOK, SingleFlight, Trace, Leader, Leading, Live
<1>3. Trace'
  BY <1>t, Rows, ReqAssumption DEF Release, Goto, TypeOK, SingleFlight, Trace, Leader, Leading,
     Live, Excused, AnswersAgree
<1>4. OncePerWindow'
  BY <1>t DEF Release, Goto, TypeOK, SingleFlight, Trace, Leader, Leading,
     Excused, OncePerWindow
<1>5. AnswersAgree'
  BY <1>t, Rows, ReqAssumption DEF Release, Goto, TypeOK, SingleFlight, Trace, Leader, Leading,
     Excused, AnswersAgree
<1> QED BY <1>1, <1>2, <1>3, <1>4, <1>5 DEF IInv

(* The leader could do neither: its claim stays for the rest of the window.*)
LEMMA RaiseInv ==
  ASSUME IInv, NEW r \in Req, SettleRaise(r)
  PROVE  IInv'
<1>t. TypeOK /\ SingleFlight /\ Trace /\ OncePerWindow /\ AnswersAgree
  BY DEF IInv
<1>1. TypeOK'
  BY <1>t DEF SettleRaise, Goto, TypeOK, PC, Leading, Live
<1>2. SingleFlight'
  BY <1>t, Rows DEF SettleRaise, Goto, TypeOK, SingleFlight, Trace, Leader, Leading, Live
<1>3. Trace'
  BY <1>t, Rows, ReqAssumption DEF SettleRaise, Goto, TypeOK, SingleFlight, Trace, Leader, Leading,
     Live, Excused, AnswersAgree
<1>4. OncePerWindow'
  BY <1>t DEF SettleRaise, Goto, TypeOK, SingleFlight, Trace, Leader, Leading,
     Excused, OncePerWindow
<1>5. AnswersAgree'
  BY <1>t, Rows, ReqAssumption DEF SettleRaise, Goto, TypeOK, SingleFlight, Trace, Leader, Leading,
     Excused, AnswersAgree
<1> QED BY <1>1, <1>2, <1>3, <1>4, <1>5 DEF IInv

(* An attempt dies: its claim stays.                                       *)
LEMMA CrashInv ==
  ASSUME IInv, NEW r \in Req, Crash(r)
  PROVE  IInv'
<1>t. TypeOK /\ SingleFlight /\ Trace /\ OncePerWindow /\ AnswersAgree
  BY DEF IInv
<1>1. TypeOK'
  BY <1>t DEF Crash, Goto, TypeOK, PC, Leading, Live
<1>2. SingleFlight'
  BY <1>t, Rows DEF Crash, Goto, TypeOK, SingleFlight, Trace, Leader, Leading, Live
<1>3. Trace'
  BY <1>t, Rows, ReqAssumption DEF Crash, Goto, TypeOK, SingleFlight, Trace, Leader, Leading,
     Live, Excused, AnswersAgree
<1>4. OncePerWindow'
  BY <1>t DEF Crash, Goto, TypeOK, SingleFlight, Trace, Leader, Leading,
     Excused, OncePerWindow
<1>5. AnswersAgree'
  BY <1>t, Rows, ReqAssumption DEF Crash, Goto, TypeOK, SingleFlight, Trace, Leader, Leading,
     Excused, AnswersAgree
<1> QED BY <1>1, <1>2, <1>3, <1>4, <1>5 DEF IInv

(* A new window starts: everybody who has begun has ended.                 *)
LEMMA ExpireInv ==
  ASSUME IInv, Expire
  PROVE  IInv'
<1>t. TypeOK /\ Trace
  BY DEF IInv
<1>1. TypeOK'
  BY <1>t DEF Expire, TypeOK
<1>2. Leader' = {} /\ Live' = {}
  BY DEF Expire, Live, Leader, Leading
<1>3. SingleFlight' /\ OncePerWindow' /\ AnswersAgree'
  BY <1>2 DEF Expire, SingleFlight, OncePerWindow, AnswersAgree
<1>4. Trace'
  BY <1>2 DEF Expire, Trace, Live, Leader, Leading, Excused
<1> QED BY <1>1, <1>3, <1>4 DEF IInv

LEMMA NextInv == IInv /\ [Next]_vars => IInv'
<1> SUFFICES ASSUME IInv, [Next]_vars PROVE IInv'
  OBVIOUS
<1>1. CASE UNCHANGED vars
  BY <1>1 DEF vars, IInv, TypeOK, SingleFlight, Trace, OncePerWindow, AnswersAgree, Leader,
              Live, Excused
<1>2. CASE Next
  BY <1>2, ClaimInv, LookInv, WaitInv, RunInv, HandleInv, StoreInv, ReleaseInv, RaiseInv,
     CrashInv, ExpireInv DEF Next, Follow, Lead
<1> QED BY <1>1, <1>2

(* IInv is an invariant of the middleware for any number of attempts.      *)
THEOREM InductiveInvariant == Spec => []IInv
BY InitInv, NextInv, PTL DEF Spec

(* However the attempts interleave, fail and die, at most one that neither *)
(* gave up waiting nor released its claim has the effect in one window.    *)
THEOREM AtMostOneEffect == Spec => []OncePerWindow
<1>1. IInv => OncePerWindow
  BY DEF IInv
<1> QED BY <1>1, InductiveInvariant, PTL

(* Such attempts are all answered with the same response.                  *)
THEOREM OneAnswer == Spec => []AnswersAgree
<1>1. IInv => AnswersAgree
  BY DEF IInv
<1> QED BY <1>1, InductiveInvariant, PTL
=============================================================================
