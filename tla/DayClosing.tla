----------------------------- MODULE DayClosing -----------------------------
(***************************************************************************)
(* Day closing, fin_day_closing.py, for ONE company and ONE business date: *)
(* the fin_day_closures row, the owners who close and reopen the day, and  *)
(* the projections that write ledger legs dated on or before it meanwhile. *)
(*                                                                         *)
(* Every timestamp that the code takes is a tick of one clock, and ticks   *)
(* are unique, so a leg together with its created_at is one version of it. *)
(* Amounts are left out: a snapshot is the set of the versions it sums.    *)
(***************************************************************************)
EXTENDS Naturals, Sequences, FiniteSets

CONSTANTS
  Leg,        \* ref_source_key of the legs dated on or before the day
  Owner,      \* requests that close or reopen the day
  Writer,     \* projections that rewrite a leg
  Nothing,    \* no leg
  MaxNow      \* bound of the clock

ASSUME Actors == Owner \cap Writer = {} /\ Nothing \notin Leg

ASSUME MaxNowAssumption == MaxNow \in Nat \ {0}

VARIABLES
  now,        \* the clock
  fin_txn,    \* created_at of each leg, 0 when it is not there
  closure,    \* the row of fin_day_closures
  pc,         \* where each process is
  existing,   \* the row each owner has read
  at,         \* the timestamp each process has taken
  start,      \* the versions there were when each owner opened its cursor
  snap,       \* the versions its cursor has returned
  leg,        \* the leg each writer rewrites
  met,        \* history: legs rewritten while each owner was closing
  blurred     \* history: the same, for the close on record

vars == <<now, fin_txn, closure, pc, existing, at, start, snap, leg, met, blurred>>

Proc == Owner \cup Writer

Time == 0 .. MaxNow

Versions == {<<l, fin_txn[l]>> : l \in {k \in Leg : fin_txn[k] # 0}}

NoClosure == [status |-> "none", closed_at |-> 0, snapshot |-> {}, history |-> <<>>]

ClosedEvent(t, s) == [event |-> "closed", at |-> t, snapshot |-> s]
ReopenedEvent(t) == [event |-> "reopened", at |-> t, snapshot |-> {}]

Closing == {o \in Owner : pc[o] \in {"scan", "write", "insert"}}

Goto(p, from, to) == pc[p] = from /\ pc' = [pc EXCEPT ![p] = to]

(* A timestamp is taken.                                                   *)
Tick(p) ==
  /\ now < MaxNow
  /\ now' = now + 1
  /\ at' = [at EXCEPT ![p] = now + 1]

(* A process ends and forgets what it held.                                *)
Leave(p) ==
  /\ pc' = [pc EXCEPT ![p] = "idle"]
  /\ existing' = [existing EXCEPT ![p] = NoClosure]
  /\ at' = [at EXCEPT ![p] = 0]
  /\ start' = [start EXCEPT ![p] = {}]
  /\ snap' = [snap EXCEPT ![p] = {}]
  /\ leg' = [leg EXCEPT ![p] = Nothing]
  /\ met' = [met EXCEPT ![p] = {}]

Init ==
  /\ now = 1
  /\ fin_txn \in [Leg -> {0, 1}]
  /\ closure = NoClosure
  /\ pc = [p \in Proc |-> "idle"]
  /\ existing = [p \in Proc |-> NoClosure]
  /\ at = [p \in Proc |-> 0]
  /\ start = [p \in Proc |-> {}]
  /\ snap = [p \in Proc |-> {}]
  /\ leg = [p \in Proc |-> Nothing]
  /\ met = [p \in Proc |-> {}]
  /\ blurred = {}

-----------------------------------------------------------------------------
(* close_day.                                                              *)

CloseFind(o) ==
  /\ o \in Owner
  /\ Goto(o, "idle", "found")
  /\ existing' = [existing EXCEPT ![o] = closure]
  /\ UNCHANGED <<now, fin_txn, closure, at, start, snap, leg, met, blurred>>

(* `now` is taken, and the cursor of _capture_snapshot opened.             *)
OpenCursor(o) ==
  /\ Goto(o, "found", "scan")
  /\ Tick(o)
  /\ start' = [start EXCEPT ![o] = Versions]
  /\ met' = [met EXCEPT ![o] = {leg[w] : w \in Writer} \ {Nothing}]
  /\ UNCHANGED <<fin_txn, closure, existing, snap, leg, blurred>>

(* The cursor returns a version once, in no order one could rely on, and   *)
(* may also return one that was written after it was opened.               *)
Capture(o) ==
  /\ pc[o] = "scan"
  /\ \E v \in Versions \ snap[o] : snap' = [snap EXCEPT ![o] = @ \cup {v}]
  /\ UNCHANGED <<now, fin_txn, closure, pc, existing, at, start, leg, met, blurred>>

(* It ends when it has returned all that was there throughout.             *)
EndOfCursor(o) ==
  /\ Goto(o, "scan", "write")
  /\ start[o] \cap Versions \subseteq snap[o]
  /\ UNCHANGED <<now, fin_txn, closure, existing, at, start, snap, leg, met, blurred>>

(* Only now is a closed day refused, by what was read first.               *)
AlreadyClosed(o) ==
  /\ pc[o] = "write"
  /\ existing[o].status = "closed"
  /\ Leave(o)
  /\ UNCHANGED <<now, fin_txn, closure, blurred>>

(* A mutant: the snapshot of the earlier close is kept.                    *)
RecloseStaleSnapshot(o) ==
  /\ pc[o] = "write"
  /\ existing[o].status = "reopened"
  /\ closure' =
       [status |-> "closed", closed_at |-> at[o],
        snapshot |-> existing[o].snapshot,
        history |-> Append(existing[o].history, ClosedEvent(at[o], snap[o]))]
  /\ blurred' = met[o]
  /\ Leave(o)
  /\ UNCHANGED <<now, fin_txn>>

(* A reopened day: the history that was read, with one more event, is set. *)
Reclose(o) ==
  /\ pc[o] = "write"
  /\ existing[o].status = "reopened"
  /\ closure' =
       [status |-> "closed", closed_at |-> at[o], snapshot |-> snap[o],
        history |-> Append(existing[o].history, ClosedEvent(at[o], snap[o]))]
  /\ blurred' = met[o]
  /\ Leave(o)
  /\ UNCHANGED <<now, fin_txn>>

(* A mutant: closed_at is the moment at which close_day began.             *)
StampClosureEarly(o) ==
  /\ existing[o].status = "none"
  /\ Goto(o, "write", "insert")
  /\ UNCHANGED <<now, at, fin_txn, closure, existing, start, snap, leg, met, blurred>>

(* The first close: closed_at is FinDayClosure's default, a new timestamp. *)
StampClosure(o) ==
  /\ existing[o].status = "none"
  /\ Goto(o, "write", "insert")
  /\ Tick(o)
  /\ UNCHANGED <<fin_txn, closure, existing, start, snap, leg, met, blurred>>

FirstClosure(o) ==
  [status |-> "closed", closed_at |-> at[o], snapshot |-> snap[o],
   history |-> <<ClosedEvent(at[o], snap[o])>>]

(* insert_one, which the unique index refuses when the row is there.       *)
InsertClosure(o) ==
  /\ pc[o] = "insert"
  /\ IF closure.status = "none"
     THEN closure' = FirstClosure(o) /\ blurred' = met[o]
     ELSE UNCHANGED <<closure, blurred>>
  /\ Leave(o)
  /\ UNCHANGED <<now, fin_txn>>

-----------------------------------------------------------------------------
(* reopen_day.                                                             *)

ReopenFind(o) ==
  /\ o \in Owner
  /\ closure.status = "closed"
  /\ Goto(o, "idle", "reopen")
  /\ existing' = [existing EXCEPT ![o] = closure]
  /\ UNCHANGED <<now, fin_txn, closure, at, start, snap, leg, met, blurred>>

(* A mutant: the reopening is not added to the history.                    *)
ReopenUnlogged(o) ==
  /\ pc[o] = "reopen"
  /\ now < MaxNow
  /\ now' = now + 1
  /\ closure' = [closure EXCEPT !.status = "reopened"]
  /\ Leave(o)
  /\ UNCHANGED <<fin_txn, blurred>>

(* closed_at and the snapshot of the last close stay where they are.       *)
Reopen(o) ==
  /\ pc[o] = "reopen"
  /\ now < MaxNow
  /\ now' = now + 1
  /\ closure' =
       [closure EXCEPT
          !.status = "reopened",
          !.history = Append(existing[o].history, ReopenedEvent(now + 1))]
  /\ Leave(o)
  /\ UNCHANGED <<fin_txn, blurred>>

-----------------------------------------------------------------------------
(* A projection, as far as the day's report can see it: it deletes a leg,  *)
(* _persist_legs takes one created_at for all it writes, and upserts.      *)

Erase(w, l) ==
  /\ w \in Writer
  /\ Goto(w, "idle", "erased")
  /\ leg' = [leg EXCEPT ![w] = l]
  /\ fin_txn' = [fin_txn EXCEPT ![l] = 0]
  /\ met' = [p \in Proc |-> IF p \in Closing THEN met[p] \cup {l} ELSE met[p]]
  /\ UNCHANGED <<now, closure, existing, at, start, snap, blurred>>

StampLeg(w) ==
  /\ Goto(w, "erased", "stamped")
  /\ Tick(w)
  /\ UNCHANGED <<fin_txn, closure, existing, start, snap, leg, met, blurred>>

PutLeg(w) ==
  /\ pc[w] = "stamped"
  /\ fin_txn' = [fin_txn EXCEPT ![leg[w]] = at[w]]
  /\ Leave(w)
  /\ UNCHANGED <<now, closure, blurred>>

(* A request dies or gets an error; a projection may also end without the  *)
(* leg, because its document no longer has it.                             *)
Stop(p) ==
  /\ pc[p] # "idle"
  /\ Leave(p)
  /\ UNCHANGED <<now, fin_txn, closure, blurred>>

CloseDay(o) ==
  \/ CloseFind(o) \/ OpenCursor(o) \/ Capture(o) \/ EndOfCursor(o)
  \/ AlreadyClosed(o) \/ Reclose(o) \/ StampClosure(o) \/ InsertClosure(o)

ReopenDay(o) == ReopenFind(o) \/ Reopen(o)

PersistLeg(w) == (\E l \in Leg : Erase(w, l)) \/ StampLeg(w) \/ PutLeg(w)

Next ==
  \/ \E o \in Owner : CloseDay(o) \/ ReopenDay(o)
  \/ \E w \in Writer : PersistLeg(w)
  \/ \E p \in Proc : Stop(p)

Spec == Init /\ [][Next]_vars

-----------------------------------------------------------------------------
(* Properties.                                                             *)

Version == Leg \X (Time \ {0})

Event == [event : {"closed", "reopened"}, at : Time, snapshot : SUBSET Version]

Closure == [status : {"none", "closed", "reopened"}, closed_at : Time,
            snapshot : SUBSET Version, history : Seq(Event)]

(* Types of the variables.                                                 *)
TypeOK ==
  /\ now \in Time
  /\ fin_txn \in [Leg -> Time]
  /\ closure \in Closure
  /\ pc \in [Proc -> {"idle", "found", "scan", "write", "insert", "reopen",
                      "erased", "stamped"}]
  /\ existing \in [Proc -> Closure]
  /\ at \in [Proc -> Time]
  /\ start \in [Proc -> SUBSET Version]
  /\ snap \in [Proc -> SUBSET Version]
  /\ leg \in [Proc -> Leg \cup {Nothing}]
  /\ met \in [Proc -> SUBSET Leg]
  /\ blurred \subseteq Leg

Late(l) == fin_txn[l] > closure.closed_at

Counted(l) == <<l, fin_txn[l]>> \in closure.snapshot

(* On a closed day every leg is in the snapshot or among the late entries, *)
(* but for those that a projection was rewriting during the close.         *)
EveryLegIsReported ==
  closure.status = "closed" =>
    \A l \in Leg \ blurred : fin_txn[l] # 0 => Counted(l) \/ Late(l)

(* A first close never counts a leg in the snapshot and as late entry too. *)
(* (A later close does: it takes closed_at before it reads the ledger.)    *)
FirstCloseCountsOnce ==
  Len(closure.history) = 1 =>
    \A v \in closure.snapshot : v[2] < closure.closed_at

(* What the history of a row says when read as a story: it begins with a  *)
(* close, closes and reopenings alternate, later events have later times,  *)
(* and the status is what the last event says.                             *)
Story(c) ==
  LET h == c.history IN
  /\ h # <<>> => h[1].event = "closed"
  /\ \A i \in 1 .. Len(h) - 1 : h[i].event # h[i + 1].event
  /\ \A i, j \in 1 .. Len(h) : i < j => h[i].at < h[j].at
  /\ c.status = IF h = <<>> THEN "none" ELSE h[Len(h)].event

(* Whatever owners overlap, the day has a history that can have been.      *)
HistoryIsAStory == Story(closure)

(* Of two owners that both close the day for the first time one is refused *)
(* and leaves no trace, even if the day was reopened in between.           *)
FirstCloseStands ==
  [][closure.status # "none" /\ Len(closure'.history) = 1
       => closure' = closure]_vars

-----------------------------------------------------------------------------
(* What the source says and concurrency breaks.                            *)

(* models_iter150d.py: the history is an append-only lifecycle audit.      *)
HistoryIsAppendOnly ==
  [][/\ Len(closure.history) <= Len(closure'.history)
     /\ SubSeq(closure'.history, 1, Len(closure.history)) = closure.history]_vars

(* models_iter150d.py: the snapshot is immutable for its close.            *)
SnapshotIsImmutable ==
  [][closure.status = "closed" /\ closure'.status = "closed"
       => closure'.snapshot = closure.snapshot]_vars

(* memory/PRD.md: the close snapshots the ledger and surfaces any leg that *)
(* projects after it as a late entry.  Judged when no projection runs.     *)
NothingSlipsThrough ==
  closure.status = "closed" /\ (\A w \in Writer : pc[w] = "idle") =>
    \A l \in Leg : fin_txn[l] # 0 => Counted(l) \/ Late(l)

-----------------------------------------------------------------------------
(* The inductive invariant behind the properties.                          *)

Past(c, t) == \A i \in 1 .. Len(c.history) : c.history[i].at <= t

(* Nothing comes from the future.                                          *)
Clock ==
  /\ \A l \in Leg : fin_txn[l] <= now
  /\ closure.closed_at <= now
  /\ Past(closure, now)
  /\ \A p \in Proc :
       /\ at[p] <= now
       /\ Past(existing[p], now)
       /\ \A v \in snap[p] : v[2] <= now

(* What an owner has read, and how it relates to the time it has taken.    *)
Read(o) ==
  /\ Story(existing[o])
  /\ pc[o] \in {"scan", "write"} =>
       \A i \in 1 .. Len(existing[o].history) : existing[o].history[i].at < at[o]
  /\ pc[o] = "reopen" => existing[o].status = "closed"
  /\ pc[o] = "insert" => \A v \in snap[o] : v[2] < at[o]

Reading == \A o \in Owner : Read(o)

(* A leg that no projection touched since the cursor was opened is where   *)
(* the cursor finds it, and in the snapshot when the cursor has ended.     *)
Scan(o) ==
  \A l \in Leg \ met[o] :
    /\ \A w \in Writer : leg[w] # l
    /\ fin_txn[l] # 0 =>
         <<l, fin_txn[l]>> \in (IF pc[o] = "scan" THEN start[o] ELSE snap[o])

Scanning == \A o \in Closing : Scan(o)

(* A projection that began after the close stamps its leg after it.        *)
Work(w) ==
  /\ pc[w] \in {"idle", "erased", "stamped"}
  /\ pc[w] \in {"erased", "stamped"} => leg[w] \in Leg
  /\ pc[w] = "stamped" /\ closure.status = "closed" /\ leg[w] \notin blurred
       => at[w] > closure.closed_at

Working ==
  /\ \A o \in Owner : pc[o] \notin {"erased", "stamped"}
  /\ \A w \in Writer : Work(w)

IInv ==
  /\ TypeOK
  /\ Clock
  /\ Reading
  /\ Scanning
  /\ Working
  /\ EveryLegIsReported
  /\ FirstCloseCountsOnce
  /\ HistoryIsAStory
=============================================================================
