------------------------------- MODULE Masters -------------------------------
(***************************************************************************)
(* The masters of customers, suppliers and vehicles, and what keeps one    *)
(* party from being entered twice: backend/routers/customers.py,           *)
(* suppliers.py, vehicles.py, dedup.py, dedup_admin.py, and the supplier   *)
(* that a trip enters in passing (trips.py _enforce_supplier_link).        *)
(*                                                                         *)
(* A master is compared by shadow fields, its normal forms, which creating *)
(* it writes and nothing else does but the migration at startup.  The      *)
(* partial indexes which that would build are not there: their filter uses *)
(* $ne, MongoDB refuses it, and the code goes on without.  So a comparison *)
(* is a find, an await or more before the insert.                          *)
(***************************************************************************)
EXTENDS Naturals, Sequences

CONSTANTS
  Request,    \* requests, each of which comes at most once
  Typed,      \* what is typed in: [kind, tax, pan, name]
  Legacy      \* the masters from before the shadow fields

(* A name, or a vehicle's number, is <<what it normalises to, its          *)
(* spelling>>; tax and pan are typed in one way.                           *)

VARIABLES
  masters,    \* db.customers, db.suppliers and db.vehicles
  log,        \* vehicle_status_audit_log: the newest entry of a vehicle
  backfill,   \* the migration: the collection it is at, and its cursor
  pc,         \* where each request is
  hand,       \* what it has in hand
  marred      \* history: <<master, field>>, entered or changed past a check

vars == <<masters, log, backfill, pc, hand, marred>>

None == "none"
Kinds == <<"customer", "vehicle", "supplier">>

(* norm_gstin, norm_pan, norm_name, norm_vehicle_number                    *)
Norm(f) == [tax |-> f.tax, pan |-> f.pan, name |-> f.name[1]]
NoNorm == [tax |-> "absent", pan |-> "absent", name |-> "absent"]

Master(f, id, norm) ==
  [id |-> id, kind |-> f.kind, tax |-> f.tax, pan |-> f.pan, name |-> f.name,
   norm |-> norm, active |-> TRUE]

Blank == [kind |-> None, tax |-> None, pan |-> None, name |-> <<None, None>>]
Idle == [form |-> Blank, id |-> <<None, None>>, checks |-> <<>>, how |-> None,
         rows |-> {}, active |-> TRUE, early |-> FALSE]

TypeOK ==
  /\ \A m \in masters : /\ m.kind \in {"customer", "vehicle", "supplier"}
                        /\ m.active \in BOOLEAN
                        /\ m.norm = NoNorm \/ \E f \in Typed \cup Legacy : m.norm = Norm(f)
  /\ \A m, n \in masters : m.id = n.id => m = n
  /\ \A e \in log : e.active \in BOOLEAN
  /\ backfill.at \in 0 .. 4 /\ backfill.flag \in BOOLEAN
  /\ \A r \in Request :
       pc[r] \in {"new", "check", "insert", "rows", "form", "audit", "status", "done", "refused"}

(* One and the same party: by its GSTIN, by its PAN if it has none, by its *)
(* name.                                                                   *)
Same(m, n, field) ==
  CASE field = "tax"  -> m.tax = n.tax /\ m.tax # None
    [] field = "pan"  -> m.tax = None /\ n.tax = None /\ m.pan = n.pan /\ m.pan # None
    [] field = "name" -> m.name[1] = n.name[1]

Marks(id, fields) == {<<id, f>> : f \in fields}
Identity == {"tax", "pan", "name"}

(* Who was there twice from before.                                        *)
Twins == {f \in Legacy : \E g \in Legacy : /\ g # f /\ g.kind = f.kind
                                         /\ \E field \in Identity : Same(f, g, field)}

Init ==
  /\ masters = {Master(f, <<"legacy", f>>, NoNorm) : f \in Legacy}
  /\ log = {}
  /\ backfill = [at |-> 0, todo |-> {}, flag |-> FALSE]
  /\ pc = [r \in Request |-> "new"] /\ hand = [r \in Request |-> Idle]
  /\ marred = UNION {Marks(<<"legacy", f>>, Identity) : f \in Twins}

(* Whom a check sees: no supplier who is inactive.                         *)
InScope(m) == m.kind = "supplier" => m.active

(* Those whom one check finds: by the shadow fields, but a trip compares   *)
(* the names of all suppliers as they are spelled.                         *)
Hits(f, check) ==
  {m \in masters : m.kind = f.kind /\
     CASE check = "tax"  -> InScope(m) /\ m.norm.tax = f.tax
       [] check = "pan"  -> InScope(m) /\ m.norm.pan = f.pan /\ m.norm.tax = None
       [] check = "name" -> InScope(m) /\ m.norm.name = Norm(f).name
       [] check = "raw"  -> m.name = f.name}

(* The checks of a form, in order: the PAN counts if there is no GSTIN,    *)
(* and the user may insist on the name of a customer.                      *)
Checks(f, how) ==
  CASE how = "override"    -> <<>>
    [] how = "trip"        -> <<"raw">>
    [] f.kind = "vehicle"  -> <<"name">>
    [] OTHER ->
         (IF f.tax # None THEN <<"tax">> ELSE IF f.pan # None THEN <<"pan">> ELSE <<>>)
           \o IF how = "confirmed" THEN <<>> ELSE <<"name">>

Ways(f) ==
  CASE f.kind = "customer" -> {"plain", "confirmed", "override"}
    [] f.kind = "supplier" -> {"plain", "override", "trip"}
    [] f.kind = "vehicle"  -> {"plain"}

-----------------------------------------------------------------------------
(* create_customer, create_supplier, create_vehicle, _enforce_supplier_link *)

Create(r, f, how) ==
  /\ pc[r] = "new" /\ how \in Ways(f)
  /\ hand' = [hand EXCEPT ![r] =
       [Idle EXCEPT !.form = f, !.how = how, !.checks = Checks(f, how),
                    !.early = \E m \in masters : /\ m.id[1] = "legacy" /\ m.kind = f.kind
                                                  /\ m.norm = NoNorm]]
  /\ pc' = [pc EXCEPT ![r] = IF Checks(f, how) = <<>> THEN "insert" ELSE "check"]
  /\ UNCHANGED <<masters, log, backfill, marred>>

(* A hit refuses the request; a vehicle, or a supplier of a trip, that is  *)
(* there already is used instead.                                          *)
Check(r) ==
  /\ pc[r] = "check"
  /\ LET checks == hand[r].checks
         found == Hits(hand[r].form, Head(checks)) # {}
     IN  /\ hand' = [hand EXCEPT ![r].checks = Tail(checks)]
         /\ pc' = [pc EXCEPT ![r] = IF found
                                    THEN IF hand[r].form.kind = "vehicle" \/ hand[r].how = "trip"
                                         THEN "done" ELSE "refused"
                                    ELSE IF Len(checks) = 1 THEN "insert" ELSE "check"]
  /\ UNCHANGED <<masters, log, backfill, marred>>

(* A master that comes in is not checked against those that come in        *)
(* between its checks and itself, nor they against it, nor against one     *)
(* that has no shadow fields yet.                                          *)
Pending(kind) ==
  {r \in Request : /\ pc[r] \in {"check", "insert", "rows"}
                   /\ kind = IF pc[r] = "rows" THEN "vehicle" ELSE hand[r].form.kind}

(* What the way it came leaves unchecked.                                  *)
Skipped(r, f, how) ==
  IF how \in {"override", "trip"} \/ hand[r].early \/ Pending(f.kind) # {r} THEN Identity
  ELSE IF how = "confirmed" THEN {"name"} ELSE {}

Insert(r) ==
  /\ pc[r] = "insert"
  /\ LET f == hand[r].form
         how == hand[r].how
         id == <<r, f.name>>
     IN  /\ masters' = masters \cup {Master(f, id, IF how = "trip" THEN NoNorm ELSE Norm(f))}
         /\ marred' = marred \cup Marks(id, Skipped(r, f, how))
  /\ pc' = [pc EXCEPT ![r] = "done"]
  /\ UNCHANGED <<log, backfill, hand>>

-----------------------------------------------------------------------------
(* bulk_import_commit: the numbers as they are spelled are compared with   *)
(* those there are; what is new is inserted row by row, without a shadow.  *)

Import(r, F) ==
  /\ pc[r] = "new"
  /\ LET fresh == {f \in F : Hits(f, "raw") = {}}
     IN  /\ hand' = [hand EXCEPT ![r] = [Idle EXCEPT !.rows = fresh]]
         /\ pc' = [pc EXCEPT ![r] = IF fresh = {} THEN "done" ELSE "rows"]
  /\ UNCHANGED <<masters, log, backfill, marred>>

ImportRow(r, f) ==
  /\ pc[r] = "rows" /\ f \in hand[r].rows
  /\ masters' = masters \cup {Master(f, <<r, f.name>>, NoNorm)}
  /\ marred' = marred \cup Marks(<<r, f.name>>, Identity)
  /\ hand' = [hand EXCEPT ![r].rows = @ \ {f}]
  /\ pc' = [pc EXCEPT ![r] = IF hand[r].rows = {f} THEN "done" ELSE "rows"]
  /\ UNCHANGED <<log, backfill>>

-----------------------------------------------------------------------------
(* update_customer, update_supplier, update_vehicle: the whole form, as it *)
(* was when it was opened but for what is typed; the shadow fields stay.   *)

Put(m, f, active) ==
  [m EXCEPT !.tax = f.tax, !.pan = f.pan, !.name = f.name, !.active = active]

OpenForm(r, m) ==
  /\ pc[r] = "new" /\ m \in masters
  /\ hand' = [hand EXCEPT ![r] = [Idle EXCEPT !.id = m.id, !.form.kind = m.kind,
                                          !.active = m.active]]
  /\ pc' = [pc EXCEPT ![r] = "form"]
  /\ UNCHANGED <<masters, log, backfill, marred>>

SaveForm(r, f) ==
  /\ pc[r] = "form" /\ f.kind = hand[r].form.kind
  /\ LET old == {m \in masters : m.id = hand[r].id}
     IN  /\ masters' = (masters \ old) \cup {Put(m, f, hand[r].active) : m \in old}
         /\ marred' = marred \cup
              UNION {IF m.active = hand[r].active THEN Marks(m.id, Identity)
                     ELSE Marks(m.id, Identity \cup {"active"}) : m \in old}
  /\ pc' = [pc EXCEPT ![r] = "done"]
  /\ UNCHANGED <<log, backfill, hand>>

(* delete_customer and delete_vehicle.                                     *)
Delete(m) ==
  /\ m \in masters /\ m.kind # "supplier"
  /\ masters' = masters \ {m}
  /\ UNCHANGED <<log, backfill, pc, hand, marred>>

(* delete_supplier and reactivate_supplier.                                *)
SetSupplier(m, active) ==
  /\ m \in masters /\ m.kind = "supplier"
  /\ masters' = (masters \ {m}) \cup {[m EXCEPT !.active = active]}
  /\ marred' = IF active /\ ~m.active THEN marred \cup Marks(m.id, Identity) ELSE marred
  /\ UNCHANGED <<log, backfill, pc, hand>>

-----------------------------------------------------------------------------
(* change_vehicle_status: found, written into the log, and then done.      *)

ChangeStatus(r, m, active) ==
  /\ pc[r] = "new" /\ m \in masters /\ m.kind = "vehicle"
  /\ IF m.active = active
     THEN pc' = [pc EXCEPT ![r] = "refused"] /\ UNCHANGED hand
     ELSE /\ pc' = [pc EXCEPT ![r] = "audit"]
          /\ hand' = [hand EXCEPT ![r] = [Idle EXCEPT !.id = m.id, !.active = active]]
  /\ UNCHANGED <<masters, log, backfill, marred>>

Newest(id, active) == [id |-> id, active |-> active]

AuditStatus(r) ==
  /\ pc[r] = "audit"
  /\ log' = {e \in log : e.id # hand[r].id} \cup {Newest(hand[r].id, hand[r].active)}
  /\ pc' = [pc EXCEPT ![r] = "status"]
  /\ UNCHANGED <<masters, backfill, hand, marred>>

(* Another change of the vehicle may have been logged in between.          *)
WriteStatus(r) ==
  /\ pc[r] = "status"
  /\ LET old == {m \in masters : m.id = hand[r].id}
     IN  masters' = (masters \ old) \cup {[m EXCEPT !.active = hand[r].active] : m \in old}
  /\ marred' = IF Newest(hand[r].id, ~hand[r].active) \in log
               THEN marred \cup Marks(hand[r].id, {"active"}) ELSE marred
  /\ pc' = [pc EXCEPT ![r] = "done"]
  /\ UNCHANGED <<log, backfill, hand>>

-----------------------------------------------------------------------------
(* ensure_dedup_indexes_and_backfill, in the background of the startup: a  *)
(* cursor over one collection after the other, and a flag.                 *)

Ahead(k) == k > backfill.at /\ \E m \in masters : m.kind = Kinds[k]

BackfillRead(k) ==
  /\ ~backfill.flag /\ backfill.todo = {}
  /\ Ahead(k) /\ \A j \in 1 .. k - 1 : ~Ahead(j)
  /\ backfill' = [backfill EXCEPT !.at = k, !.todo = {m \in masters : m.kind = Kinds[k]}]
  /\ UNCHANGED <<masters, log, pc, hand, marred>>

BackfillRow(d) ==
  /\ d \in backfill.todo
  /\ LET old == {m \in masters : m.id = d.id}
     IN  masters' = (masters \ old) \cup {[m EXCEPT !.norm = Norm(d)] : m \in old}
  /\ backfill' = [backfill EXCEPT !.todo = @ \ {d}]
  /\ UNCHANGED <<log, pc, hand, marred>>

BackfillDone ==
  /\ ~backfill.flag /\ backfill.todo = {} /\ \A k \in 1 .. 3 : ~Ahead(k)
  /\ backfill' = [at |-> 4, todo |-> {}, flag |-> TRUE]
  /\ UNCHANGED <<masters, log, pc, hand, marred>>

(* The process dies: its requests are over, and the migration begins anew. *)
Crash ==
  /\ pc' = [r \in Request |-> IF pc[r] \in {"new", "form", "done"} THEN pc[r] ELSE "refused"]
  /\ marred' = marred \cup
       UNION {Marks(hand[r].id, {"active"}) : r \in {x \in Request : pc[x] = "status"}}
  /\ backfill' = [backfill EXCEPT !.at = IF backfill.flag THEN 4 ELSE 0, !.todo = {}]
  /\ UNCHANGED <<masters, log, hand>>

-----------------------------------------------------------------------------
Next ==
  \/ \E r \in Request :
       \/ \E f \in Typed : \/ \E how \in Ways(f) : Create(r, f, how)
                          \/ SaveForm(r, f)
                          \/ ImportRow(r, f)
       \/ \E F \in SUBSET {f \in Typed : f.kind = "vehicle"} \ {{}} : Import(r, F)
       \/ Check(r) \/ Insert(r)
       \/ \E m \in masters : OpenForm(r, m) \/ \E a \in BOOLEAN : ChangeStatus(r, m, a)
       \/ AuditStatus(r) \/ WriteStatus(r)
  \/ \E m \in masters : Delete(m) \/ \E a \in BOOLEAN : SetSupplier(m, a)
  \/ \E k \in 1 .. 3 : BackfillRead(k)
  \/ \E d \in backfill.todo : BackfillRow(d)
  \/ BackfillDone
  \/ Crash

Spec == Init /\ [][Next]_vars

-----------------------------------------------------------------------------
(* No customer, supplier or vehicle is there twice: by its GSTIN, by its   *)
(* PAN if it has none, by its name or number, however they are spelled.    *)
(* Excepted is who was there twice from before, and who came or was        *)
(* changed past a check: by an override, a trip, an import or an edit,     *)
(* back from being inactive, at the same time as another, or before its    *)
(* like had shadow fields.                                                 *)
(* Behaviour: the duplicate protection of the three create handlers.       *)
NoTwins ==
  \A m, n \in {x \in masters : InScope(x)} :
    m.id # n.id /\ m.kind = n.kind =>
      \A field \in Identity :
        Same(m, n, field) => <<m.id, field>> \in marred \/ <<n.id, field>> \in marred

(* A vehicle is in service or not as the newest entry of its log says, but *)
(* while a change is being written, and unless a change was overtaken, cut *)
(* off by a crash, or undone by a form that was opened before it.          *)
(* Behaviour: change_vehicle_status, and the history it lists.             *)
StatusIsLogged ==
  \A m \in masters :
    /\ m.kind = "vehicle" /\ <<m.id, "active">> \notin marred
    /\ \A r \in Request : pc[r] = "status" => hand[r].id # m.id
    => m.active = (Newest(m.id, FALSE) \notin log)

(* The masters are what their users may take them for.                     *)
MastersAgree == NoTwins /\ StatusIsLogged
=============================================================================
