------------------------------ MODULE NodeRouter ------------------------------
(***************************************************************************)
(* The router in front of the Node read port: backend/node_router.py.      *)
(*                                                                         *)
(* The process decides for each request whether Python serves it or        *)
(* whether it is forwarded to Node; a forwarded request that Node does not *)
(* really answer is served by Python after all.  A file kills the          *)
(* forwarding; the router looks for it at most once in Ttl.  Failures in a *)
(* row open a circuit for some time.  Several requests are with Node at    *)
(* once, and their answers come in any order.                              *)
(*                                                                         *)
(* Time is counted in ticks, up to the bound Horizon, and the clock begins *)
(* at a time later than Ttl, as a monotonic clock does.                    *)
(***************************************************************************)
EXTENDS Naturals, FiniteSets

CONSTANTS
  Request,    \* requests, each of which comes at most once
  Route,      \* routes of the application
  Config,     \* the allowlist, the deferred list, the routes and the percentage
              \* that are switched on, and what each route matches
  Bucket,     \* the bucket of each route, 0..99, for the caller
  Ttl,        \* how long the look at the kill file is good for
  Threshold,  \* failures in a row that open the circuit
  Cooldown,   \* how long it stays open
  Horizon     \* bound: the last tick

VARIABLES
  config,     \* RouterConfig
  now,        \* time.monotonic()
  killFile,   \* whether the file exists
  since,      \* history: since when it has been as it is
  seen,       \* _kill_cached
  seenAt,     \* _kill_cached_at
  failures,   \* _consecutive_failures
  openUntil,  \* _circuit_open_until
  pc,         \* where each request is
  route       \* the route it has been forwarded for, or "none"

vars == <<config, now, killFile, since, seen, seenAt, failures, openUntil, pc, route>>

-----------------------------------------------------------------------------
(* RouterConfig.enabled and _build_eligible: one problem disables it all.  *)

Enabled(c) == c.on /\ c.percent > 0 /\ c.routes # {}

Wanted(c) == c.allowed \cap c.routes
Problem(c) ==
  \/ c.allowed \cap c.deferred # {}
  \/ \E t \in Wanted(c) : c.matches[t] # 1
  \/ ~(c.routes \subseteq c.allowed)

Eligible(c) == IF ~Enabled(c) \/ Problem(c) THEN {} ELSE Wanted(c)

-----------------------------------------------------------------------------
Start == Ttl + 1

Init ==
  /\ config \in Config
  /\ now = Start
  /\ killFile \in BOOLEAN /\ since = 0
  /\ seen = FALSE /\ seenAt = 0
  /\ failures = 0 /\ openUntil = 0
  /\ pc = [r \in Request |-> "new"]
  /\ route = [r \in Request |-> "none"]

(* Somebody touches the file, or removes it.                               *)
Kill ==
  /\ killFile' = ~killFile /\ since' = now
  /\ UNCHANGED <<config, now, seen, seenAt, failures, openUntil, pc, route>>

Tick ==
  /\ now < Horizon
  /\ now' = now + 1
  /\ UNCHANGED <<config, killFile, since, seen, seenAt, failures, openUntil, pc, route>>

(* _killed: what it answers, which is kept.  A mutant: a look that saw no  *)
(* file is good for a tick more.                                           *)
KilledLate == IF now - seenAt > (IF seen THEN Ttl ELSE Ttl + 1) THEN killFile ELSE seen
Killed == IF now - seenAt > Ttl THEN killFile ELSE seen

Look ==
  /\ seen' = Killed
  /\ seenAt' = IF now - seenAt > Ttl THEN now ELSE seenAt

(* decide, in its order: the file is looked for only when a request could  *)
(* be forwarded at all.                                                    *)
Forwards(t) ==
  /\ ~Killed
  /\ t \in Eligible(config)
  /\ Bucket[t] < config.percent
  /\ now >= openUntil

Possible(method) == method = "GET" /\ Enabled(config)

Decide(r, method, t) ==
  LET forwarded == Possible(method) /\ Forwards(t)
  IN  /\ pc[r] = "new"
      /\ pc' = [pc EXCEPT ![r] = IF forwarded THEN "node" ELSE "python"]
      /\ route' = [route EXCEPT ![r] = IF forwarded THEN t ELSE "none"]
      /\ IF Possible(method) THEN Look ELSE UNCHANGED <<seen, seenAt>>
      /\ UNCHANGED <<config, now, killFile, since, failures, openUntil>>

-----------------------------------------------------------------------------
(* A genuine answer of Node, an error of the application included.         *)
NodeAnswers(r) ==
  /\ pc[r] = "node"
  /\ pc' = [pc EXCEPT ![r] = "by node"]
  /\ failures' = 0
  /\ UNCHANGED <<config, now, killFile, since, seen, seenAt, openUntil, route>>

(* It is unreachable, too slow, or says so itself: _infra_failure.  The    *)
(* answers of requests that were sent before the circuit opened count too. *)
NodeFails(r) ==
  /\ pc[r] = "node"
  /\ pc' = [pc EXCEPT ![r] = "python"]
  /\ IF failures + 1 >= Threshold
     THEN failures' = 0 /\ openUntil' = now + Cooldown
     ELSE failures' = failures + 1 /\ UNCHANGED openUntil
  /\ UNCHANGED <<config, now, killFile, since, seen, seenAt, route>>

(* Anything else that is raised: the caller has an error.                  *)
Raises(r) ==
  /\ pc[r] = "node"
  /\ pc' = [pc EXCEPT ![r] = "error"]
  /\ UNCHANGED <<config, now, killFile, since, seen, seenAt, failures, openUntil, route>>

PythonAnswers(r) ==
  /\ pc[r] = "python"
  /\ pc' = [pc EXCEPT ![r] = "by python"]
  /\ UNCHANGED <<config, now, killFile, since, seen, seenAt, failures, openUntil, route>>

Next ==
  \/ Kill \/ Tick
  \/ \E r \in Request, m \in {"GET", "POST"}, t \in Route : Decide(r, m, t)
  \/ \E r \in Request :
       NodeAnswers(r) \/ NodeFails(r) \/ Raises(r) \/ PythonAnswers(r)

Spec == Init /\ [][Next]_vars

-----------------------------------------------------------------------------
TypeOK ==
  /\ config \in Config /\ now \in Start .. Horizon /\ since \in 0 .. Horizon
  /\ killFile \in BOOLEAN /\ seen \in BOOLEAN /\ seenAt \in 0 .. Horizon
  /\ failures \in 0 .. Threshold - 1 /\ openUntil \in 0 .. Horizon + Cooldown
  /\ route \in [Request -> Route \cup {"none"}]
  /\ pc \in [Request -> {"new", "node", "python", "by node", "by python", "error"}]

(* "If the file exists, every request is served by Python (checked on      *)
(* every request, cached <= 1 s)"; "only routes in .migration-allowlist    *)
(* are eligible; entries in .migration-deferred are never eligible": no    *)
(* request is handed to Node that the file should have stopped, whatever   *)
(* was looked up before and whichever way the file has gone since.         *)
KillHeeded ==
  \A r \in Request :
    pc[r] = "new" /\ pc'[r] = "node" =>
      /\ ~(killFile /\ now - since > Ttl)
      /\ route'[r] \in config.allowed \ config.deferred
KillTakesEffect == [][KillHeeded]_vars

=============================================================================
