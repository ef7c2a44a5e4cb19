------------------------- MODULE DayClosing_proofs -------------------------
(***************************************************************************)
(* Proofs about DayClosing, for every set of owners, projections and legs  *)
(* and for every bound of the clock.                                       *)
(***************************************************************************)
EXTENDS DayClosing, TLAPS

-----------------------------------------------------------------------------
(* Types.                                                                  *)

LEMMA RowsTyped ==
  /\ NoClosure \in Closure
  /\ \A c \in Closure : c.history \in Seq(Event) /\ Len(c.history) \in Nat
  /\ \A t \in Time, s \in SUBSET Version :
       ClosedEvent(t, s) \in Event /\ ReopenedEvent(t) \in Event
BY MaxNowAssumption DEF NoClosure, Closure, ClosedEvent, ReopenedEvent, Event, Time

LEMMA AppendTyped ==
  ASSUME NEW h \in Seq(Event), NEW e \in Event
  PROVE  Append(h, e) \in Seq(Event)
OBVIOUS

LEMMA TickTyped ==
  ASSUME TypeOK, NEW p \in Proc, Tick(p)
  PROVE  now' \in Time /\ at' \in [Proc -> Time] /\ at'[p] = now' /\ now' = now + 1
BY MaxNowAssumption DEF TypeOK, Tick, Time

LEMMA LeaveTyped ==
  ASSUME TypeOK, NEW p \in Proc, Leave(p)
  PROVE  /\ pc' \in [Proc -> {"idle", "found", "scan", "write", "insert",
                              "reopen", "erased", "stamped"}]
         /\ existing' \in [Proc -> Closure]
         /\ at' \in [Proc -> Time]
         /\ start' \in [Proc -> SUBSET Version]
         /\ snap' \in [Proc -> SUBSET Version]
         /\ leg' \in [Proc -> Leg \cup {Nothing}]
         /\ met' \in [Proc -> SUBSET Leg]
BY RowsTyped, MaxNowAssumption DEF TypeOK, Leave, Time

LEMMA VersionsTyped == TypeOK => Versions \subseteq Version
BY DEF TypeOK, Versions, Version

LEMMA TypeInit == Init => TypeOK
BY RowsTyped, MaxNowAssumption DEF Init, TypeOK, Time

LEMMA TypeStep == TypeOK /\ [Next]_vars => TypeOK'
<1> SUFFICES ASSUME TypeOK, [Next]_vars
             PROVE  TypeOK'
  OBVIOUS
<1> USE DEF Proc
<1>1. ASSUME NEW o \in Owner, CloseFind(o)
      PROVE  TypeOK'
  BY <1>1 DEF TypeOK, CloseFind, Goto
<1>2. ASSUME NEW o \in Owner, OpenCursor(o)
      PROVE  TypeOK'
  <2>1. now' \in Time /\ at' \in [Proc -> Time]
    BY <1>2, TickTyped DEF OpenCursor
  <2>2. {leg[w] : w \in Writer} \ {Nothing} \subseteq Leg
    BY DEF TypeOK
  <2> QED BY <1>2, <2>1, <2>2, VersionsTyped DEF TypeOK, OpenCursor, Goto
<1>3. ASSUME NEW o \in Owner, Capture(o)
      PROVE  TypeOK'
  BY <1>3, VersionsTyped DEF TypeOK, Capture
<1>4. ASSUME NEW o \in Owner, EndOfCursor(o)
      PROVE  TypeOK'
  BY <1>4 DEF TypeOK, EndOfCursor, Goto
<1>5. ASSUME NEW o \in Owner, AlreadyClosed(o)
      PROVE  TypeOK'
  BY <1>5, LeaveTyped DEF TypeOK, AlreadyClosed
<1>6. ASSUME NEW o \in Owner, Reclose(o)
      PROVE  TypeOK'
  <2>1. at[o] \in Time /\ snap[o] \in SUBSET Version /\ existing[o] \in Closure
        /\ met[o] \subseteq Leg
    BY DEF TypeOK
  <2>2. Append(existing[o].history, ClosedEvent(at[o], snap[o])) \in Seq(Event)
    BY <2>1, RowsTyped, AppendTyped
  <2>3. closure' \in Closure
    BY <1>6, <2>1, <2>2 DEF Reclose, Closure
  <2> QED BY <1>6, <2>1, <2>3, LeaveTyped DEF TypeOK, Reclose
<1>7. ASSUME NEW o \in Owner, StampClosure(o)
      PROVE  TypeOK'
  <2>1. now' \in Time /\ at' \in [Proc -> Time]
    BY <1>7, TickTyped DEF StampClosure
  <2> QED BY <1>7, <2>1 DEF TypeOK, StampClosure, Goto
<1>8. ASSUME NEW o \in Owner, InsertClosure(o)
      PROVE  TypeOK'
  <2>1. at[o] \in Time /\ snap[o] \in SUBSET Version /\ met[o] \subseteq Leg
    BY DEF TypeOK
  <2>2. <<ClosedEvent(at[o], snap[o])>> \in Seq(Event)
    BY <2>1, RowsTyped
  <2>3. FirstClosure(o) \in Closure
    BY <2>1, <2>2 DEF FirstClosure, Closure
  <2> QED BY <1>8, <2>1, <2>3, LeaveTyped DEF TypeOK, InsertClosure
<1>9. ASSUME NEW o \in Owner, ReopenFind(o)
      PROVE  TypeOK'
  BY <1>9 DEF TypeOK, ReopenFind, Goto
<1>10. ASSUME NEW o \in Owner, Reopen(o)
       PROVE  TypeOK'
  <2>1. now + 1 \in Time /\ now' = now + 1 /\ existing[o] \in Closure
    BY <1>10, MaxNowAssumption DEF TypeOK, Reopen, Time
  <2>2. Append(existing[o].history, ReopenedEvent(now + 1)) \in Seq(Event)
    BY <2>1, RowsTyped, AppendTyped
  <2>3. closure' \in Closure
    BY <1>10, <2>2 DEF TypeOK, Reopen, Closure
  <2> QED BY <1>10, <2>1, <2>3, LeaveTyped DEF TypeOK, Reopen
<1>11. ASSUME NEW w \in Writer, NEW l \in Leg, Erase(w, l)
       PROVE  TypeOK'
  <2>1. fin_txn' \in [Leg -> Time]
    BY <1>11, MaxNowAssumption DEF TypeOK, Erase, Time
  <2>2. met' \in [Proc -> SUBSET Leg]
    BY <1>11 DEF TypeOK, Erase
  <2> QED BY <1>11, <2>1, <2>2 DEF TypeOK, Erase, Goto
<1>12. ASSUME NEW w \in Writer, StampLeg(w)
       PROVE  TypeOK'
  <2>1. now' \in Time /\ at' \in [Proc -> Time]
    BY <1>12, TickTyped DEF StampLeg
  <2> QED BY <1>12, <2>1 DEF TypeOK, StampLeg, Goto
<1>13. ASSUME NEW w \in Writer, PutLeg(w)
       PROVE  TypeOK'
  <2>1. fin_txn' \in [Leg -> Time]
    BY <1>13 DEF TypeOK, PutLeg
  <2> QED BY <1>13, <2>1, LeaveTyped DEF TypeOK, PutLeg
<1>14. ASSUME NEW p \in Proc, Stop(p)
       PROVE  TypeOK'
  BY <1>14, LeaveTyped DEF TypeOK, Stop
<1>15. CASE UNCHANGED vars
  BY <1>15 DEF vars, TypeOK
<1> QED
  BY <1>1, <1>2, <1>3, <1>4, <1>5, <1>6, <1>7, <1>8, <1>9, <1>10, <1>11,
     <1>12, <1>13, <1>14, <1>15 DEF Next, CloseDay, ReopenDay, PersistLeg

-----------------------------------------------------------------------------
(* The clock.                                                              *)

(* What a process forgets when it ends is harmless.                        *)
LEMMA LeaveForgets ==
  ASSUME TypeOK, NEW p \in Proc, Leave(p), NEW q \in Proc
  PROVE  /\ pc'[p] = "idle" /\ existing'[p] = NoClosure /\ at'[p] = 0
         /\ snap'[p] = {} /\ leg'[p] = Nothing /\ met'[p] = {}
         /\ q # p => /\ pc'[q] = pc[q] /\ existing'[q] = existing[q]
                     /\ at'[q] = at[q] /\ start'[q] = start[q]
                     /\ snap'[q] = snap[q] /\ leg'[q] = leg[q] /\ met'[q] = met[q]
BY DEF TypeOK, Leave

(* One more event, at a time not before the others.                        *)
LEMMA PastAppend ==
  ASSUME NEW h \in Seq(Event), NEW e \in Event, NEW t \in Time,
         \A i \in 1 .. Len(h) : h[i].at <= t, e.at <= t
  PROVE  \A i \in 1 .. Len(Append(h, e)) : Append(h, e)[i].at <= t
<1> SUFFICES ASSUME NEW i \in 1 .. Len(Append(h, e))
             PROVE  Append(h, e)[i].at <= t
  OBVIOUS
<1>1. CASE i = Len(h) + 1
  BY <1>1
<1>2. CASE i \in 1 .. Len(h)
  BY <1>2
<1> QED BY <1>1, <1>2

LEMMA PastLater ==
  ASSUME NEW c \in Closure, NEW s \in Time, NEW t \in Time, s <= t, Past(c, s)
  PROVE  Past(c, t)
<1> SUFFICES ASSUME NEW i \in 1 .. Len(c.history)
             PROVE  c.history[i].at <= t
  BY DEF Past
<1>1. c.history[i] \in Event
  BY DEF Closure
<1>2. c.history[i].at \in Time
  BY <1>1 DEF Event
<1>3. c.history[i].at <= s
  BY DEF Past
<1> QED BY <1>2, <1>3, MaxNowAssumption DEF Time

LEMMA PastNoClosure == ASSUME NEW t PROVE Past(NoClosure, t)
BY DEF Past, NoClosure

(* The clock moves on and nothing else that Clock reads changes.           *)
LEMMA ClockTicks ==
  ASSUME TypeOK, Clock, now' \in Time, now <= now',
         UNCHANGED <<fin_txn, closure, existing, snap>>,
         \A p \in Proc : at'[p] <= now'
  PROVE  Clock'
<1>1. \A l \in Leg : fin_txn'[l] <= now'
  BY MaxNowAssumption DEF TypeOK, Clock, Time
<1>2. closure'.closed_at <= now'
  BY MaxNowAssumption DEF TypeOK, Clock, Time, Closure
<1>3. Past(closure', now')
  BY PastLater DEF TypeOK, Clock
<1>4. ASSUME NEW p \in Proc
      PROVE  Past(existing'[p], now') /\ \A v \in snap'[p] : v[2] <= now'
  <2>1. Past(existing'[p], now')
    BY PastLater DEF TypeOK, Clock
  <2>2. ASSUME NEW v \in snap'[p]
        PROVE  v[2] <= now'
    <3>1. v \in Version /\ v[2] <= now
      BY DEF TypeOK, Clock
    <3> QED BY <3>1, MaxNowAssumption DEF TypeOK, Version, Time
  <2> QED BY <2>1, <2>2
<1> QED BY <1>1, <1>2, <1>3, <1>4 DEF Clock

(* A process ends; the clock may have moved on.                            *)
LEMMA ClockLeaves ==
  ASSUME TypeOK, Clock, NEW p \in Proc, Leave(p), now' \in Time, now <= now',
         \A l \in Leg : fin_txn'[l] <= now',
         closure'.closed_at <= now', Past(closure', now')
  PROVE  Clock'
<1>1. ASSUME NEW q \in Proc
      PROVE  /\ at'[q] <= now' /\ Past(existing'[q], now')
             /\ \A v \in snap'[q] : v[2] <= now'
  <2>1. CASE q = p
    BY <2>1, LeaveForgets, PastNoClosure, MaxNowAssumption DEF Time
  <2>2. CASE q # p
    <3>1. at'[q] = at[q] /\ existing'[q] = existing[q] /\ snap'[q] = snap[q]
      BY <2>2, LeaveForgets
    <3>2. at'[q] <= now'
      BY <3>1, MaxNowAssumption DEF TypeOK, Clock, Time
    <3>3. Past(existing'[q], now')
      BY <3>1, PastLater DEF TypeOK, Clock
    <3>4. ASSUME NEW v \in snap'[q]
          PROVE  v[2] <= now'
      <4>1. v \in Version /\ v[2] <= now
        BY <3>1 DEF TypeOK, Clock
      <4> QED BY <4>1, MaxNowAssumption DEF TypeOK, Version, Time
    <3> QED BY <3>2, <3>3, <3>4
  <2> QED BY <2>1, <2>2
<1> QED BY <1>1 DEF Clock

LEMMA ClockInit == Init => Clock
BY PastNoClosure DEF Init, Clock, NoClosure

LEMMA ClockStep == TypeOK /\ TypeOK' /\ Clock /\ [Next]_vars => Clock'
<1> SUFFICES ASSUME TypeOK, TypeOK', Clock, [Next]_vars
             PROVE  Clock'
  OBVIOUS
<1>0. /\ now \in Time /\ now' \in Time
      /\ \A p \in Proc : at[p] \in Time
      /\ Owner \subseteq Proc /\ Writer \subseteq Proc
      /\ \A t \in Time : t \in Nat /\ t <= t
  BY MaxNowAssumption DEF TypeOK, Time, Proc
<1>1. ASSUME NEW o \in Owner, CloseFind(o) \/ ReopenFind(o)
      PROVE  Clock'
  BY <1>1, <1>0 DEF CloseFind, ReopenFind, Clock, TypeOK
<1>2. ASSUME NEW p \in Proc, Tick(p), UNCHANGED <<fin_txn, closure, existing, snap>>
      PROVE  Clock'
  <2>1. now' = now + 1 /\ \A q \in Proc : at'[q] = IF q = p THEN now + 1 ELSE at[q]
    BY <1>2 DEF Tick, TypeOK
  <2>2. ASSUME NEW q \in Proc
        PROVE  at'[q] <= now'
    <3>1. at[q] \in Nat /\ now \in Nat /\ at[q] <= now
      BY <1>0 DEF Clock
    <3> QED BY <2>1, <3>1
  <2> QED BY <1>0, <1>2, <2>1, <2>2, ClockTicks
<1>3. ASSUME NEW o \in Owner, Capture(o)
      PROVE  Clock'
  <2>1. PICK v \in Versions : snap' = [snap EXCEPT ![o] = @ \cup {v}]
    BY <1>3 DEF Capture
  <2>2. v[2] <= now
    BY <2>1 DEF Versions, Clock
  <2>3. \A p \in Proc : \A u \in snap'[p] : u[2] <= now
    BY <2>1, <2>2 DEF TypeOK, Clock
  <2> QED BY <1>3, <2>3 DEF Capture, Clock
<1>4. ASSUME NEW o \in Owner, EndOfCursor(o)
      PROVE  Clock'
  BY <1>4 DEF EndOfCursor, Clock
<1>5. ASSUME NEW p \in Proc, Leave(p), UNCHANGED <<now, fin_txn, closure>>
      PROVE  Clock'
  BY <1>0, <1>5, ClockLeaves DEF Clock
<1>6. ASSUME NEW o \in Owner, Reclose(o)
      PROVE  Clock'
  <2> DEFINE e == ClosedEvent(at[o], snap[o])
  <2> DEFINE h == existing[o].history
  <2>1. h \in Seq(Event) /\ e \in Event /\ e.at = at[o]
    BY <1>0, RowsTyped DEF TypeOK, ClosedEvent
  <2>2. \A i \in 1 .. Len(h) : h[i].at <= now
    BY <1>0 DEF Clock, Past
  <2>3. at[o] <= now
    BY <1>0 DEF Clock
  <2>4. \A i \in 1 .. Len(Append(h, e)) : Append(h, e)[i].at <= now
    BY <1>0, <2>1, <2>2, <2>3, PastAppend
  <2>5. closure'.history = Append(h, e) /\ closure'.closed_at = at[o]
        /\ now' = now /\ fin_txn' = fin_txn /\ Leave(o)
    BY <1>6 DEF Reclose
  <2>6. Past(closure', now')
    BY <2>4, <2>5 DEF Past
  <2> QED BY <1>0, <2>3, <2>5, <2>6, ClockLeaves DEF Clock
<1>7. ASSUME NEW o \in Owner, InsertClosure(o)
      PROVE  Clock'
  <2>1. Leave(o) /\ now' = now /\ fin_txn' = fin_txn
    BY <1>7 DEF InsertClosure
  <2>2. at[o] <= now
    BY <1>0 DEF Clock
  <2>3. closure'.closed_at <= now' /\ Past(closure', now')
    BY <1>7, <2>1, <2>2 DEF InsertClosure, FirstClosure, ClosedEvent, Past, Clock
  <2> QED BY <1>0, <2>1, <2>3, ClockLeaves DEF Clock
<1>8. ASSUME NEW o \in Owner, Reopen(o)
      PROVE  Clock'
  <2> DEFINE e == ReopenedEvent(now + 1)
  <2> DEFINE h == existing[o].history
  <2>1. now' = now + 1 /\ closure'.history = Append(h, e)
        /\ closure'.closed_at = closure.closed_at /\ fin_txn' = fin_txn /\ Leave(o)
    BY <1>8 DEF Reopen, TypeOK, Closure
  <2>2. h \in Seq(Event) /\ e \in Event /\ e.at = now'
    BY <1>0, <2>1, RowsTyped DEF TypeOK, ReopenedEvent
  <2>3. \A i \in 1 .. Len(h) : h[i].at <= now'
    <3>1. Past(existing[o], now)
      BY <1>0 DEF Clock
    <3>2. existing[o] \in Closure /\ now \in Time /\ now' \in Time
      BY <1>0 DEF TypeOK
    <3>4. now <= now'
      BY <2>1, <3>2, MaxNowAssumption DEF Time
    <3>3. Past(existing[o], now')
      BY <3>1, <3>2, <3>4, PastLater
    <3> QED BY <3>3 DEF Past
  <2>4. Past(closure', now')
    <3>1. \A i \in 1 .. Len(Append(h, e)) : Append(h, e)[i].at <= now'
      <4>1. e.at <= now'
        BY <1>0, <2>2
      <4> HIDE DEF h, e
      <4> QED BY <1>0, <2>2, <2>3, <4>1, PastAppend
    <3> HIDE DEF h, e
    <3> QED BY <2>1, <3>1 DEF Past
  <2>5. closure'.closed_at <= now' /\ \A l \in Leg : fin_txn'[l] <= now'
    BY SMTT(40), <1>0, <2>1, MaxNowAssumption DEF Clock, TypeOK, Closure, Time
  <2> QED BY <1>0, <2>1, <2>4, <2>5, ClockLeaves
<1>9. ASSUME NEW w \in Writer, NEW l \in Leg, Erase(w, l)
      PROVE  Clock'
  <2>1. \A k \in Leg : fin_txn'[k] <= now
    BY <1>0, <1>9 DEF Erase, Clock, TypeOK
  <2> QED BY <1>9, <2>1 DEF Erase, Clock
<1>10. ASSUME NEW w \in Writer, PutLeg(w)
       PROVE  Clock'
  <2>1. Leave(w) /\ now' = now /\ closure' = closure
        /\ fin_txn' = [fin_txn EXCEPT ![leg[w]] = at[w]]
    BY <1>10 DEF PutLeg
  <2>2. \A k \in Leg : fin_txn'[k] <= now'
    BY <1>0, <2>1 DEF Clock, TypeOK
  <2> QED BY <1>0, <2>1, <2>2, ClockLeaves DEF Clock
<1>11. CASE UNCHANGED vars
  BY <1>11 DEF vars, Clock
<1> QED
  BY <1>0, <1>1, <1>2, <1>3, <1>4, <1>5, <1>6, <1>7, <1>8, <1>9, <1>10, <1>11
     DEF Next, CloseDay, ReopenDay, PersistLeg, OpenCursor, StampClosure,
         StampLeg, AlreadyClosed, Stop

-----------------------------------------------------------------------------
(* The history.                                                            *)

LEMMA StoryNoClosure == Story(NoClosure)
BY DEF Story, NoClosure

LEMMA StoryFirst ==
  ASSUME NEW c, NEW e \in Event, c.history = <<e>>, c.status = "closed",
         e.event = "closed"
  PROVE  Story(c)
BY DEF Story

LEMMA StoryAppend ==
  ASSUME NEW c \in Closure, Story(c), c.history # <<>>,
         NEW e \in Event, e.event # c.status,
         \A i \in 1 .. Len(c.history) : c.history[i].at < e.at,
         NEW d \in Closure, d.history = Append(c.history, e), d.status = e.event
  PROVE  Story(d) /\ Len(d.history) >= 2
<1> DEFINE h == c.history
<1> DEFINE g == d.history
<1> DEFINE n == Len(h)
<1>1. h \in Seq(Event) /\ n \in Nat /\ n >= 1
  BY DEF Closure
<1>2. g = Append(h, e) /\ Len(g) = n + 1 /\ g[n + 1] = e
  BY <1>1
<1>3. \A i \in 1 .. n : g[i] = h[i]
  BY <1>1, <1>2
<1>4. h[1].event = "closed" /\ h[n].event = c.status
  BY <1>1 DEF Story
<1>5. g[1].event = "closed"
  BY <1>1, <1>3, <1>4
<1>6. ASSUME NEW i \in 1 .. Len(g) - 1
      PROVE  g[i].event # g[i + 1].event
  <2>1. CASE i = n
    BY <2>1, <1>1, <1>2, <1>3, <1>4
  <2>2. CASE i # n
    <3>1. i \in 1 .. n - 1 /\ i \in 1 .. n /\ i + 1 \in 1 .. n
      BY <2>2, <1>1, <1>2
    <3>2. h[i].event # h[i + 1].event
      BY <3>1 DEF Story
    <3> QED BY <3>1, <3>2, <1>3
  <2> QED BY <2>1, <2>2
<1>7. ASSUME NEW i \in 1 .. Len(g), NEW j \in 1 .. Len(g), i < j
      PROVE  g[i].at < g[j].at
  <2>1. i \in 1 .. n
    BY <1>1, <1>2, <1>7
  <2>2. CASE j = n + 1
    BY <2>1, <2>2, <1>2, <1>3
  <2>3. CASE j # n + 1
    <3>1. j \in 1 .. n
      BY <2>3, <1>1, <1>2
    <3>2. h[i].at < h[j].at
      BY <2>1, <3>1, <1>7 DEF Story
    <3> QED BY <2>1, <3>1, <3>2, <1>3
  <2> QED BY <2>2, <2>3
<1>8. d.status = g[Len(g)].event /\ g # <<>> /\ Len(g) >= 2
  BY <1>1, <1>2
<1> QED BY <1>5, <1>6, <1>7, <1>8 DEF Story

(* The event of a second close or of a reopening goes on with the story.   *)
LEMMA RecloseStory ==
  ASSUME TypeOK, TypeOK', Reading, NEW o \in Owner, Reclose(o)
  PROVE  Story(closure') /\ Len(closure'.history) >= 2
<1> DEFINE e == ClosedEvent(at[o], snap[o])
<1>1. existing[o] \in Closure /\ at[o] \in Time /\ snap[o] \in SUBSET Version
      /\ closure' \in Closure
  BY DEF TypeOK, Proc
<1>2. e \in Event /\ e.event = "closed" /\ e.at = at[o]
  BY <1>1, RowsTyped DEF ClosedEvent
<1>3. Story(existing[o]) /\ existing[o].status = "reopened"
      /\ \A i \in 1 .. Len(existing[o].history) : existing[o].history[i].at < e.at
  BY <1>2 DEF Reading, Read, Reclose
<1>4. existing[o].history # <<>>
  BY <1>3 DEF Story
<1>5. closure'.history = Append(existing[o].history, e) /\ closure'.status = "closed"
  BY DEF Reclose
<1> QED BY <1>1, <1>2, <1>3, <1>4, <1>5, StoryAppend

LEMMA ReopenStory ==
  ASSUME TypeOK, TypeOK', Clock, Reading, NEW o \in Owner, Reopen(o)
  PROVE  Story(closure') /\ Len(closure'.history) >= 2
<1> DEFINE e == ReopenedEvent(now + 1)
<1> DEFINE h == existing[o].history
<1>1. existing[o] \in Closure /\ closure' \in Closure /\ now' = now + 1
      /\ now \in Nat /\ now' \in Time
  BY MaxNowAssumption DEF TypeOK, Proc, Reopen, Time
<1>2. e \in Event /\ e.event = "reopened" /\ e.at = now + 1
  BY <1>1, RowsTyped DEF ReopenedEvent
<1>3. Story(existing[o]) /\ existing[o].status = "closed"
  BY DEF Reading, Read, Reopen
<1>4. h # <<>>
  BY <1>3 DEF Story
<1>5. ASSUME NEW i \in 1 .. Len(h)
      PROVE  h[i].at < e.at
  <2>1. h[i] \in Event
    BY <1>1 DEF Closure
  <2>2. h[i].at \in Nat
    BY <2>1, MaxNowAssumption DEF Event, Time
  <2>3. h[i].at <= now
    BY DEF Clock, Past, Proc
  <2> QED BY <2>2, <2>3, <1>1, <1>2
<1>6. closure'.history = Append(h, e) /\ closure'.status = "reopened"
  BY <1>1 DEF Reopen, TypeOK, Closure
<1> QED BY <1>1, <1>2, <1>3, <1>4, <1>5, <1>6, StoryAppend

LEMMA InsertStory ==
  ASSUME TypeOK, NEW o \in Owner, InsertClosure(o)
  PROVE  \/ closure' = closure
         \/ Story(closure') /\ closure.status = "none" /\ closure' = FirstClosure(o)
<1>1. at[o] \in Time /\ snap[o] \in SUBSET Version
  BY DEF TypeOK, Proc
<1>2. ClosedEvent(at[o], snap[o]) \in Event /\ ClosedEvent(at[o], snap[o]).event = "closed"
  BY <1>1, RowsTyped DEF ClosedEvent
<1>3. Story(FirstClosure(o))
  BY <1>2, StoryFirst DEF FirstClosure
<1> QED BY <1>3 DEF InsertClosure

(* Which actions touch the row.                                            *)
LEMMA RowUntouched ==
  ASSUME [Next]_vars
  PROVE  \/ closure' = closure /\ blurred' = blurred
         \/ \E o \in Owner : Reclose(o) \/ InsertClosure(o) \/ Reopen(o)
BY DEF Next, vars, CloseDay, ReopenDay, PersistLeg, CloseFind, OpenCursor, Capture,
       EndOfCursor, AlreadyClosed, StampClosure, ReopenFind, Erase, StampLeg,
       PutLeg, Stop

LEMMA HistoryStep ==
  TypeOK /\ TypeOK' /\ Clock /\ Reading /\ HistoryIsAStory /\ [Next]_vars
    => HistoryIsAStory'
BY RowUntouched, RecloseStory, ReopenStory, InsertStory DEF HistoryIsAStory

LEMMA ReadFrame ==
  ASSUME NEW o \in Owner, Read(o), existing'[o] = existing[o], pc'[o] = pc[o],
         at'[o] = at[o], snap'[o] = snap[o]
  PROVE  Read(o)'
BY DEF Read

LEMMA ReadIdle ==
  ASSUME NEW o \in Owner, existing'[o] = NoClosure, pc'[o] = "idle"
  PROVE  Read(o)'
BY StoryNoClosure DEF Read

LEMMA ReadInit == Init => Reading
BY StoryNoClosure DEF Init, Reading, Read, Proc

LEMMA ReadStep ==
  TypeOK /\ TypeOK' /\ Clock /\ Reading /\ HistoryIsAStory /\ [Next]_vars => Reading'
<1> SUFFICES ASSUME TypeOK, TypeOK', Clock, Reading, HistoryIsAStory, [Next]_vars,
                    NEW q \in Owner
             PROVE  Read(q)'
  BY DEF Reading
<1>0. Read(q) /\ q \in Proc /\ Owner \subseteq Proc /\ Writer \subseteq Proc
      /\ \A w \in Writer : w # q
  BY Actors DEF Reading, Proc
<1>1. ASSUME NEW o \in Owner, CloseFind(o) \/ ReopenFind(o)
      PROVE  Read(q)'
  <2>1. CASE q = o
    <3>1. existing'[q] = closure /\ pc'[q] \in {"found", "reopen"}
          /\ (pc'[q] = "reopen" => closure.status = "closed")
      BY <1>0, <1>1, <2>1 DEF CloseFind, ReopenFind, Goto, TypeOK
    <3> QED BY <3>1 DEF Read, HistoryIsAStory
  <2>2. CASE q # o
    BY <1>0, <1>1, <2>2, ReadFrame DEF CloseFind, ReopenFind, Goto, TypeOK
  <2> QED BY <2>1, <2>2
<1>2. ASSUME NEW o \in Owner, OpenCursor(o)
      PROVE  Read(q)'
  <2>1. CASE q = o
    <3>1. existing'[q] = existing[q] /\ pc'[q] = "scan" /\ at'[q] = now + 1
      BY <1>0, <1>2, <2>1 DEF OpenCursor, Goto, Tick, TypeOK
    <3>2. ASSUME NEW i \in 1 .. Len(existing[q].history)
          PROVE  existing[q].history[i].at < now + 1
      <4>1. existing[q].history[i] \in Event
        BY <1>0 DEF TypeOK, Closure
      <4>2. existing[q].history[i].at \in Nat /\ now \in Nat
        BY <4>1, MaxNowAssumption DEF Event, Time, TypeOK
      <4>3. existing[q].history[i].at <= now
        BY <1>0 DEF Clock, Past
      <4> QED BY <4>2, <4>3
    <3> QED BY <1>0, <3>1, <3>2 DEF Read
  <2>2. CASE q # o
    BY <1>0, <1>2, <2>2, ReadFrame DEF OpenCursor, Goto, Tick, TypeOK
  <2> QED BY <2>1, <2>2
<1>3. ASSUME NEW o \in Owner, Capture(o)
      PROVE  Read(q)'
  <2>1. CASE q = o
    <3>1. existing'[q] = existing[q] /\ pc'[q] = "scan" /\ pc[q] = "scan"
          /\ at'[q] = at[q]
      BY <1>0, <1>3, <2>1 DEF Capture
    <3> QED BY <1>0, <3>1 DEF Read
  <2>2. CASE q # o
    BY <1>0, <1>3, <2>2, ReadFrame DEF Capture, TypeOK
  <2> QED BY <2>1, <2>2
<1>4. ASSUME NEW o \in Owner, EndOfCursor(o)
      PROVE  Read(q)'
  <2>1. CASE q = o
    <3>1. existing'[q] = existing[q] /\ pc'[q] = "write" /\ pc[q] = "scan"
          /\ at'[q] = at[q]
      BY <1>0, <1>4, <2>1 DEF EndOfCursor, Goto, TypeOK
    <3> QED BY <1>0, <3>1 DEF Read
  <2>2. CASE q # o
    BY <1>0, <1>4, <2>2, ReadFrame DEF EndOfCursor, Goto, TypeOK
  <2> QED BY <2>1, <2>2
<1>5. ASSUME NEW p \in Proc, Leave(p)
      PROVE  Read(q)'
  <2>1. CASE q = p
    BY <1>0, <1>5, <2>1, LeaveForgets, ReadIdle
  <2>2. CASE q # p
    BY <1>0, <1>5, <2>2, LeaveForgets, ReadFrame
  <2> QED BY <2>1, <2>2
<1>6. ASSUME NEW o \in Owner, StampClosure(o)
      PROVE  Read(q)'
  <2>1. CASE q = o
    <3>1. existing'[q] = existing[q] /\ pc'[q] = "insert" /\ at'[q] = now + 1
          /\ snap'[q] = snap[q]
      BY <1>0, <1>6, <2>1 DEF StampClosure, Goto, Tick, TypeOK
    <3>2. ASSUME NEW v \in snap[q]
          PROVE  v[2] < now + 1
      <4>1. v \in Version /\ v[2] <= now
        BY <1>0 DEF TypeOK, Clock
      <4> QED BY <4>1, MaxNowAssumption DEF TypeOK, Version, Time
    <3> QED BY <1>0, <3>1, <3>2 DEF Read
  <2>2. CASE q # o
    BY <1>0, <1>6, <2>2, ReadFrame DEF StampClosure, Goto, Tick, TypeOK
  <2> QED BY <2>1, <2>2
<1>7. ASSUME NEW w \in Writer, NEW l \in Leg, Erase(w, l)
      PROVE  Read(q)'
  BY <1>0, <1>7, ReadFrame DEF Erase, Goto, TypeOK
<1>8. ASSUME NEW w \in Writer, StampLeg(w)
      PROVE  Read(q)'
  BY <1>0, <1>8, ReadFrame DEF StampLeg, Goto, Tick, TypeOK
<1>9. CASE UNCHANGED vars
  BY <1>0, <1>9, ReadFrame DEF vars
<1> QED
  BY <1>0, <1>1, <1>2, <1>3, <1>4, <1>5, <1>6, <1>7, <1>8, <1>9
     DEF Next, CloseDay, ReopenDay, PersistLeg, AlreadyClosed, Reclose,
         InsertClosure, Reopen, PutLeg, Stop

-----------------------------------------------------------------------------
(* The cursor and the projections.                                         *)

LEMMA ScanFrame ==
  ASSUME NEW o \in Owner, Scan(o), fin_txn' = fin_txn,
         \A w \in Writer : leg'[w] \in {leg[w], Nothing},
         met'[o] = met[o], pc'[o] = pc[o], start'[o] = start[o], snap'[o] = snap[o]
  PROVE  Scan(o)'
BY Actors DEF Scan

LEMMA ScanInit == Init => Scanning
BY DEF Init, Scanning, Closing, Proc

LEMMA ScanStep ==
  TypeOK /\ TypeOK' /\ Scanning /\ Working /\ [Next]_vars => Scanning'
<1> SUFFICES ASSUME TypeOK, TypeOK', Scanning, Working, [Next]_vars,
                    NEW q \in Owner, pc'[q] \in {"scan", "write", "insert"}
             PROVE  Scan(q)'
  BY DEF Scanning, Closing
<1>0. /\ q \in Proc /\ Owner \subseteq Proc /\ Writer \subseteq Proc
      /\ \A w \in Writer : w # q
      /\ q \in Closing => Scan(q)
  BY Actors DEF Scanning, Proc
<1>1. ASSUME NEW o \in Owner, CloseFind(o) \/ ReopenFind(o)
      PROVE  Scan(q)'
  <2>1. q # o /\ pc'[q] = pc[q]
    BY <1>0, <1>1 DEF CloseFind, ReopenFind, Goto, TypeOK
  <2>2. q \in Closing
    BY <2>1 DEF Closing
  <2> QED BY <1>0, <1>1, <2>1, <2>2, ScanFrame DEF CloseFind, ReopenFind
<1>2. ASSUME NEW o \in Owner, OpenCursor(o)
      PROVE  Scan(q)'
  <2>1. CASE q = o
    <3>1. pc'[q] = "scan" /\ start'[q] = Versions /\ fin_txn' = fin_txn
          /\ met'[q] = {leg[w] : w \in Writer} \ {Nothing} /\ leg' = leg
      BY <1>0, <1>2, <2>1 DEF OpenCursor, Goto, TypeOK
    <3>2. ASSUME NEW l \in Leg \ met'[q]
          PROVE  /\ \A w \in Writer : leg'[w] # l
                 /\ fin_txn'[l] # 0 => <<l, fin_txn'[l]>> \in start'[q]
      BY <3>1, Actors DEF Versions
    <3> QED BY <3>1, <3>2 DEF Scan
  <2>2. CASE q # o
    <3>1. pc'[q] = pc[q] /\ start'[q] = start[q] /\ met'[q] = met[q]
      BY <1>0, <1>2, <2>2 DEF OpenCursor, Goto, TypeOK
    <3>2. q \in Closing
      BY <3>1 DEF Closing
    <3> QED BY <1>0, <1>2, <3>1, <3>2, ScanFrame DEF OpenCursor
  <2> QED BY <2>1, <2>2
<1>3. ASSUME NEW o \in Owner, Capture(o)
      PROVE  Scan(q)'
  <2>1. q \in Closing
    BY <1>3 DEF Capture, Closing
  <2>2. CASE q = o
    <3>1. pc[q] = "scan" /\ pc'[q] = "scan"
      BY <1>3, <2>2 DEF Capture
    <3> QED BY <1>0, <1>3, <2>1, <3>1 DEF Scan, Capture
  <2>3. CASE q # o
    <3>1. snap'[q] = snap[q]
      BY <1>0, <1>3, <2>3 DEF Capture, TypeOK
    <3> QED BY <1>0, <1>3, <2>1, <3>1, ScanFrame DEF Capture
  <2> QED BY <2>2, <2>3
<1>4. ASSUME NEW o \in Owner, EndOfCursor(o)
      PROVE  Scan(q)'
  <2>1. CASE q = o
    <3>1. pc[q] = "scan" /\ pc'[q] = "write" /\ start[q] \cap Versions \subseteq snap[q]
          /\ UNCHANGED <<fin_txn, leg, met, start, snap>>
      BY <1>0, <1>4, <2>1 DEF EndOfCursor, Goto, TypeOK
    <3>2. Scan(q)
      BY <1>0, <3>1 DEF Closing
    <3>3. ASSUME NEW l \in Leg \ met[q]
          PROVE  /\ \A w \in Writer : leg[w] # l
                 /\ fin_txn[l] # 0 => <<l, fin_txn[l]>> \in snap[q]
      <4>1. fin_txn[l] # 0 => <<l, fin_txn[l]>> \in start[q] \cap Versions
        BY <3>1, <3>2 DEF Scan, Versions
      <4> QED BY <3>1, <3>2, <4>1 DEF Scan
    <3> QED BY <3>1, <3>3 DEF Scan
  <2>2. CASE q # o
    <3>1. pc'[q] = pc[q]
      BY <1>0, <1>4, <2>2 DEF EndOfCursor, Goto, TypeOK
    <3>2. q \in Closing
      BY <3>1 DEF Closing
    <3> QED BY <1>0, <1>4, <3>1, <3>2, ScanFrame DEF EndOfCursor
  <2> QED BY <2>1, <2>2
<1>5. ASSUME NEW p \in Proc, Leave(p), fin_txn' = fin_txn
      PROVE  Scan(q)'
  <2>1. q # p
    BY <1>0, <1>5, LeaveForgets
  <2>2. pc'[q] = pc[q] /\ start'[q] = start[q] /\ snap'[q] = snap[q] /\ met'[q] = met[q]
    BY <1>0, <1>5, <2>1, LeaveForgets
  <2>3. \A w \in Writer : leg'[w] \in {leg[w], Nothing}
    BY <1>0, <1>5, LeaveForgets
  <2>4. q \in Closing
    BY <2>2 DEF Closing
  <2> QED BY <1>0, <1>5, <2>2, <2>3, <2>4, ScanFrame
<1>6. ASSUME NEW o \in Owner, StampClosure(o)
      PROVE  Scan(q)'
  <2>1. UNCHANGED <<fin_txn, leg, met, start, snap>>
    BY <1>6 DEF StampClosure
  <2>2. CASE q = o
    <3>1. pc[q] = "write" /\ pc'[q] = "insert"
      BY <1>0, <1>6, <2>2 DEF StampClosure, Goto, TypeOK
    <3>2. Scan(q)
      BY <1>0, <3>1 DEF Closing
    <3> QED BY <2>1, <3>1, <3>2 DEF Scan
  <2>3. CASE q # o
    <3>1. pc'[q] = pc[q]
      BY <1>0, <1>6, <2>3 DEF StampClosure, Goto, TypeOK
    <3>2. q \in Closing
      BY <3>1 DEF Closing
    <3> QED BY <1>0, <2>1, <3>1, <3>2, ScanFrame
  <2> QED BY <2>2, <2>3
<1>7. ASSUME NEW w \in Writer, NEW l \in Leg, Erase(w, l)
      PROVE  Scan(q)'
  <2>1. pc'[q] = pc[q] /\ start' = start /\ snap' = snap
    BY <1>0, <1>7 DEF Erase, Goto, TypeOK
  <2>2. q \in Closing
    BY <2>1 DEF Closing
  <2>3. met'[q] = met[q] \cup {l}
    BY <1>0, <1>7, <2>2 DEF Erase
  <2>4. \A u \in Writer : leg'[u] = IF u = w THEN l ELSE leg[u]
    BY <1>0, <1>7 DEF Erase, TypeOK
  <2>5. \A k \in Leg : k # l => fin_txn'[k] = fin_txn[k]
    BY <1>7 DEF Erase, TypeOK
  <2> QED BY <1>0, <2>1, <2>2, <2>3, <2>4, <2>5 DEF Scan
<1>8. ASSUME NEW w \in Writer, StampLeg(w)
      PROVE  Scan(q)'
  <2>1. pc'[q] = pc[q] /\ UNCHANGED <<fin_txn, leg, met, start, snap>>
    BY <1>0, <1>8 DEF StampLeg, Goto, TypeOK
  <2>2. q \in Closing
    BY <2>1 DEF Closing
  <2> QED BY <1>0, <2>1, <2>2, ScanFrame
<1>9. ASSUME NEW w \in Writer, PutLeg(w)
      PROVE  Scan(q)'
  <2>1. Leave(w) /\ fin_txn' = [fin_txn EXCEPT ![leg[w]] = at[w]]
    BY <1>9 DEF PutLeg
  <2>2. pc'[q] = pc[q] /\ start'[q] = start[q] /\ snap'[q] = snap[q] /\ met'[q] = met[q]
    BY <1>0, <2>1, LeaveForgets
  <2>3. q \in Closing
    BY <2>2 DEF Closing
  <2>4. Scan(q)
    BY <1>0, <2>3
  <2>5. \A u \in Writer : leg'[u] \in {leg[u], Nothing}
    BY <1>0, <2>1, LeaveForgets
  <2>6. ASSUME NEW l \in Leg \ met[q]
        PROVE  /\ \A u \in Writer : leg'[u] # l
               /\ fin_txn'[l] = fin_txn[l]
    <3>1. \A u \in Writer : leg[u] # l
      BY <2>4 DEF Scan
    <3>2. leg[w] # l
      BY <3>1
    <3> QED BY <2>1, <2>5, <3>1, <3>2, Actors DEF TypeOK
  <2> QED BY <2>2, <2>4, <2>6 DEF Scan
<1>10. CASE UNCHANGED vars
  <2>1. q \in Closing
    BY <1>10 DEF vars, Closing
  <2> QED BY <1>0, <1>10, <2>1, ScanFrame DEF vars
<1> QED
  BY <1>0, <1>1, <1>2, <1>3, <1>4, <1>5, <1>6, <1>7, <1>8, <1>9, <1>10
     DEF Next, CloseDay, ReopenDay, PersistLeg, AlreadyClosed, Reclose,
         InsertClosure, Reopen, Stop

LEMMA WorkFrame ==
  ASSUME NEW w \in Writer, Work(w), pc'[w] = pc[w], leg'[w] = leg[w], at'[w] = at[w],
         closure' = closure, blurred' = blurred
  PROVE  Work(w)'
BY DEF Work

LEMMA WorkInit == Init => Working
BY DEF Init, Working, Work, Proc

LEMMA WorkStep ==
  TypeOK /\ TypeOK' /\ Clock /\ Scanning /\ Working /\ [Next]_vars => Working'
<1> SUFFICES ASSUME TypeOK, TypeOK', Clock, Scanning, Working, [Next]_vars
             PROVE  Working'
  OBVIOUS
<1>0. /\ Owner \subseteq Proc /\ Writer \subseteq Proc
      /\ \A o \in Owner : \A w \in Writer : o # w
  BY Actors DEF Proc
<1>1. ASSUME NEW o \in Owner
      PROVE  pc'[o] \notin {"erased", "stamped"}
  <2>1. pc[o] \notin {"erased", "stamped"}
    BY DEF Working
  <2>2. ASSUME NEW p \in Owner,
               CloseFind(p) \/ OpenCursor(p) \/ Capture(p) \/ EndOfCursor(p)
                 \/ StampClosure(p) \/ ReopenFind(p)
        PROVE  pc'[o] \notin {"erased", "stamped"}
    BY <1>0, <2>1, <2>2
       DEF CloseFind, OpenCursor, Capture, EndOfCursor, StampClosure,
           ReopenFind, Goto, TypeOK
  <2>3. ASSUME NEW p \in Proc, Leave(p)
        PROVE  pc'[o] \notin {"erased", "stamped"}
    BY <1>0, <2>1, <2>3, LeaveForgets
  <2>4. ASSUME NEW w \in Writer, StampLeg(w) \/ \E l \in Leg : Erase(w, l)
        PROVE  pc'[o] \notin {"erased", "stamped"}
    BY <1>0, <2>1, <2>4 DEF StampLeg, Erase, Goto, TypeOK
  <2>5. CASE UNCHANGED vars
    BY <2>1, <2>5 DEF vars
  <2> QED
    BY <1>0, <2>2, <2>3, <2>4, <2>5
       DEF Next, CloseDay, ReopenDay, PersistLeg, AlreadyClosed, Reclose,
           InsertClosure, Reopen, PutLeg, Stop
<1>2. ASSUME NEW u \in Writer
      PROVE  Work(u)'
  <2>0. Work(u) /\ u \in Proc
    BY <1>0 DEF Working
  <2>1. ASSUME NEW o \in Owner,
               CloseFind(o) \/ OpenCursor(o) \/ Capture(o) \/ EndOfCursor(o)
                 \/ StampClosure(o) \/ ReopenFind(o)
        PROVE  Work(u)'
    <3>1. pc'[u] = pc[u] /\ leg'[u] = leg[u] /\ at'[u] = at[u]
          /\ closure' = closure /\ blurred' = blurred
      BY <1>0, <2>0, <2>1
         DEF CloseFind, OpenCursor, Capture, EndOfCursor, StampClosure,
             ReopenFind, Goto, Tick, TypeOK
    <3> QED BY <2>0, <3>1, WorkFrame
  <2>2. ASSUME NEW p \in Proc, Leave(p), closure' = closure, blurred' = blurred
        PROVE  Work(u)'
    <3>1. CASE u = p
      BY <2>0, <2>2, <3>1, LeaveForgets DEF Work
    <3>2. CASE u # p
      BY <2>0, <2>2, <3>2, LeaveForgets, WorkFrame
    <3> QED BY <3>1, <3>2
  <2>3. ASSUME NEW o \in Owner, Leave(o), o \in Closing, blurred' = met[o]
        PROVE  Work(u)'
    <3>1. pc'[u] = pc[u] /\ leg'[u] = leg[u]
      BY <1>0, <2>0, <2>3, LeaveForgets
    <3>2. leg[u] \in Leg => leg[u] \in met[o]
      BY <2>3 DEF Scanning, Scan
    <3> QED BY <2>0, <2>3, <3>1, <3>2 DEF Work
  <2>4. ASSUME NEW o \in Owner, Reclose(o) \/ InsertClosure(o)
        PROVE  Work(u)'
    <3>1. Leave(o) /\ o \in Closing
      BY <2>4 DEF Reclose, InsertClosure, Closing
    <3>2. blurred' = met[o] \/ (closure' = closure /\ blurred' = blurred)
      BY <2>4 DEF Reclose, InsertClosure
    <3> QED BY <1>0, <3>1, <3>2, <2>2, <2>3
  <2>5. ASSUME NEW o \in Owner, Reopen(o)
        PROVE  Work(u)'
    <3>1. closure'.status = "reopened"
      BY <2>5 DEF Reopen, TypeOK, Closure
    <3>2. pc'[u] = pc[u] /\ leg'[u] = leg[u]
      BY <1>0, <2>0, <2>5, LeaveForgets DEF Reopen
    <3> QED BY <2>0, <3>1, <3>2 DEF Work
  <2>6. ASSUME NEW w \in Writer, NEW l \in Leg, Erase(w, l)
        PROVE  Work(u)'
    <3>1. CASE u = w
      <4>1. pc'[u] = "erased" /\ leg'[u] = l
        BY <1>0, <2>6, <3>1 DEF Erase, Goto, TypeOK
      <4> QED BY <4>1 DEF Work
    <3>2. CASE u # w
      BY <1>0, <2>0, <2>6, <3>2, WorkFrame DEF Erase, Goto, TypeOK
    <3> QED BY <3>1, <3>2
  <2>7. ASSUME NEW w \in Writer, StampLeg(w)
        PROVE  Work(u)'
    <3>1. CASE u = w
      <4>1. pc[u] = "erased" /\ pc'[u] = "stamped" /\ leg'[u] = leg[u]
            /\ at'[u] = now + 1 /\ closure' = closure
        BY <1>0, <2>7, <3>1 DEF StampLeg, Goto, Tick, TypeOK
      <4>2. now + 1 > closure.closed_at
        BY MaxNowAssumption DEF Clock, TypeOK, Closure, Time
      <4> QED BY <2>0, <4>1, <4>2 DEF Work
    <3>2. CASE u # w
      BY <1>0, <2>0, <2>7, <3>2, WorkFrame DEF StampLeg, Goto, Tick, TypeOK
    <3> QED BY <3>1, <3>2
  <2>8. CASE UNCHANGED vars
    BY <2>0, <2>8, WorkFrame DEF vars
  <2> QED
    BY <1>0, <2>1, <2>2, <2>4, <2>5, <2>6, <2>7, <2>8
       DEF Next, CloseDay, ReopenDay, PersistLeg, AlreadyClosed, PutLeg, Stop
<1> QED BY <1>1, <1>2 DEF Working

-----------------------------------------------------------------------------
(* The report.                                                             *)

LEMMA ReportStep ==
  TypeOK /\ TypeOK' /\ Clock /\ Scanning /\ Working /\ EveryLegIsReported /\ [Next]_vars
    => EveryLegIsReported'
<1> SUFFICES ASSUME TypeOK, TypeOK', Clock, Scanning, Working, EveryLegIsReported,
                    [Next]_vars, closure'.status = "closed",
                    NEW l \in Leg, l \notin blurred', fin_txn'[l] # 0
             PROVE  Counted(l)' \/ Late(l)'
  BY DEF EveryLegIsReported
<1>0. Owner \subseteq Proc /\ Writer \subseteq Proc
  BY DEF Proc
<1>1. ASSUME closure' = closure, blurred' = blurred, fin_txn'[l] = fin_txn[l]
      PROVE  Counted(l)' \/ Late(l)'
  BY <1>1 DEF EveryLegIsReported, Counted, Late
<1>2. ASSUME NEW o \in Owner, o \in Closing, pc[o] # "scan", fin_txn' = fin_txn,
             blurred' = met[o], closure'.snapshot = snap[o]
      PROVE  Counted(l)' \/ Late(l)'
  <2>1. l \in Leg \ met[o] /\ fin_txn[l] # 0
    BY <1>2
  <2>2. <<l, fin_txn[l]>> \in snap[o]
    BY <1>2, <2>1 DEF Scanning, Scan
  <2> QED BY <1>2, <2>2 DEF Counted
<1>3. ASSUME NEW o \in Owner, Reclose(o)
      PROVE  Counted(l)' \/ Late(l)'
  <2>1. o \in Closing /\ pc[o] # "scan" /\ fin_txn' = fin_txn /\ blurred' = met[o]
        /\ closure'.snapshot = snap[o]
    BY <1>3 DEF Reclose, Closing
  <2> QED BY <1>2, <2>1
<1>4. ASSUME NEW o \in Owner, InsertClosure(o)
      PROVE  Counted(l)' \/ Late(l)'
  <2>1. o \in Closing /\ pc[o] # "scan" /\ fin_txn' = fin_txn
    BY <1>4 DEF InsertClosure, Closing
  <2>2. \/ closure' = closure /\ blurred' = blurred
        \/ closure'.snapshot = snap[o] /\ blurred' = met[o]
    BY <1>4 DEF InsertClosure, FirstClosure
  <2> QED BY <1>1, <1>2, <2>1, <2>2
<1>5. ASSUME NEW o \in Owner, Reopen(o)
      PROVE  FALSE
  BY <1>5 DEF Reopen, TypeOK, Closure
<1>6. ASSUME NEW w \in Writer, NEW k \in Leg, Erase(w, k)
      PROVE  Counted(l)' \/ Late(l)'
  <2>1. k # l
    BY <1>6 DEF Erase, TypeOK
  <2>2. closure' = closure /\ blurred' = blurred /\ fin_txn'[l] = fin_txn[l]
    BY <1>6, <2>1 DEF Erase, TypeOK
  <2> QED BY <1>1, <2>2
<1>7. ASSUME NEW w \in Writer, PutLeg(w)
      PROVE  Counted(l)' \/ Late(l)'
  <2>1. closure' = closure /\ blurred' = blurred
        /\ fin_txn' = [fin_txn EXCEPT ![leg[w]] = at[w]] /\ pc[w] = "stamped"
    BY <1>7 DEF PutLeg
  <2>2. CASE leg[w] = l
    <3>1. at[w] > closure.closed_at
      BY <2>1, <2>2 DEF Working, Work
    <3> QED BY <2>1, <2>2, <3>1 DEF Late, TypeOK
  <2>3. CASE leg[w] # l
    BY <1>1, <2>1, <2>3 DEF TypeOK
  <2> QED BY <2>2, <2>3
<1>8. CASE closure' = closure /\ blurred' = blurred /\ fin_txn' = fin_txn
  BY <1>1, <1>8
<1> QED
  BY <1>3, <1>4, <1>5, <1>6, <1>7, <1>8
     DEF Next, vars, CloseDay, ReopenDay, PersistLeg, CloseFind, OpenCursor,
         Capture, EndOfCursor, AlreadyClosed, StampClosure, ReopenFind,
         StampLeg, Stop

LEMMA CountStep ==
  TypeOK /\ TypeOK' /\ Clock /\ Reading /\ FirstCloseCountsOnce /\ [Next]_vars
    => FirstCloseCountsOnce'
<1> SUFFICES ASSUME TypeOK, TypeOK', Clock, Reading, FirstCloseCountsOnce, [Next]_vars,
                    Len(closure'.history) = 1
             PROVE  \A v \in closure'.snapshot : v[2] < closure'.closed_at
  BY DEF FirstCloseCountsOnce
<1>1. CASE closure' = closure
  BY <1>1 DEF FirstCloseCountsOnce
<1>2. ASSUME NEW o \in Owner, Reclose(o) \/ Reopen(o)
      PROVE  FALSE
  BY <1>2, RecloseStory, ReopenStory
<1>3. ASSUME NEW o \in Owner, InsertClosure(o), closure' # closure
      PROVE  \A v \in closure'.snapshot : v[2] < closure'.closed_at
  BY <1>3 DEF InsertClosure, FirstClosure, Reading, Read
<1> QED BY <1>1, <1>2, <1>3, RowUntouched

-----------------------------------------------------------------------------
(* The theorems.                                                           *)

LEMMA InvInit == Init => IInv
<1> SUFFICES ASSUME Init
             PROVE  IInv
  OBVIOUS
<1>1. EveryLegIsReported /\ FirstCloseCountsOnce /\ HistoryIsAStory
  BY StoryNoClosure
     DEF Init, NoClosure, EveryLegIsReported, FirstCloseCountsOnce, HistoryIsAStory
<1> QED BY <1>1, TypeInit, ClockInit, ReadInit, ScanInit, WorkInit DEF IInv

LEMMA InvStep == IInv /\ [Next]_vars => IInv'
BY TypeStep, ClockStep, ReadStep, ScanStep, WorkStep, ReportStep, CountStep, HistoryStep
   DEF IInv

(* The inductive invariant holds: what owners have read and captured, what *)
(* projections hold, and how both relate to the clock.                     *)
THEOREM InductiveInvariant == Spec => []IInv
<1>1. Init => IInv
  BY InvInit
<1>2. IInv /\ [Next]_vars => IInv'
  BY InvStep
<1> QED BY <1>1, <1>2, PTL DEF Spec

(* On a closed day every leg that no projection was rewriting during the   *)
(* close is in the snapshot or among the late entries (close_day,          *)
(* _capture_snapshot, late_entries).                                       *)
THEOREM ReportIsComplete == Spec => []EveryLegIsReported
<1>1. IInv => EveryLegIsReported
  BY DEF IInv
<1> QED BY <1>1, InductiveInvariant, PTL

(* A first close counts no leg twice (close_day stamps it last).           *)
THEOREM FirstCloseIsExact == Spec => []FirstCloseCountsOnce
<1>1. IInv => FirstCloseCountsOnce
  BY DEF IInv
<1> QED BY <1>1, InductiveInvariant, PTL

(* Whatever close_day and reopen_day requests overlap, the history on      *)
(* record alternates, is in the order of time and ends with the status.    *)
THEOREM HistoryMakesSense == Spec => []HistoryIsAStory
<1>1. IInv => HistoryIsAStory
  BY DEF IInv
<1> QED BY <1>1, InductiveInvariant, PTL

(* Once the day has a row, no first close replaces it (the unique index).  *)
THEOREM FirstClosePrevails == Spec => FirstCloseStands
<1>1. IInv /\ IInv' /\ [Next]_vars =>
        (closure.status # "none" /\ Len(closure'.history) = 1 => closure' = closure)
  <2> SUFFICES ASSUME IInv, IInv', [Next]_vars, closure.status # "none",
                      Len(closure'.history) = 1
               PROVE  closure' = closure
    OBVIOUS
  <2>1. ASSUME NEW o \in Owner, Reclose(o) \/ Reopen(o)
        PROVE  FALSE
    BY <2>1, RecloseStory, ReopenStory DEF IInv
  <2>2. ASSUME NEW o \in Owner, InsertClosure(o)
        PROVE  closure' = closure
    BY <2>2 DEF InsertClosure
  <2> QED BY <2>1, <2>2, RowUntouched
<1> QED BY <1>1, InductiveInvariant, PTL DEF Spec, FirstCloseStands
=============================================================================
