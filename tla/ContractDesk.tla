----------------------------- MODULE ContractDesk -----------------------------
(***************************************************************************)
(* The alert desk behind the contract API: scans that raise alerts and      *)
(* escalate those that need an approval, the resolution of escalations, and *)
(* the versioned update of purchase orders.                                 *)
(*                                                                         *)
(* Each request reads, computes on what it has read, and commits once, so a *)
(* request that dies leaves nothing behind.  One action is one SELECT or    *)
(* the commit; under READ COMMITTED every SELECT sees what others have      *)
(* committed by then.  A commit writes only the columns whose value differs *)
(* from the one the session has read.  A row's id is its index.             *)
(***************************************************************************)
EXTENDS Naturals, Sequences, SequencesExt, FiniteSets

CONSTANTS
  Entities,         \* what an alert may be about: ids of any table
  PurchaseOrders,   \* ids in contract_purchase_orders
  ScenarioOrder,    \* "PO-7712", whose status the scenario lab writes
  ApprovalAbove,    \* purchase order -> approval_required_above
  InitialRows,      \* functions from purchase orders to rows: the seed data
  Patches,          \* payloads of PATCH, without their version
  OtherFindings,    \* what the rules on other tables may report: sequences
  Clients,          \* clients; each waits for the answer to its request
  Absent,           \* no value
  MaxRequests,      \* bound: requests that may change something
  MaxNow            \* bound: the days that pass

OrderStatus == {"in_transit", "delayed", "delivered", "cancelled"}

(* Amounts are in the unit the columns store; the other columns never change. *)
Row ==
  [status : OrderStatus, quantity : Nat, price : Nat, total : Nat,
   due : Nat, version : Nat]

Columns == {"status", "quantity", "price", "total", "due", "version"}

PurchaseOrderPatch ==
  [status : OrderStatus \cup {Absent}, quantity : Nat \cup {Absent},
   price : Nat \cup {Absent}, due : Nat \cup {Absent}]

AlertTypes ==
  {"po_delayed", "inventory_below_safety_stock", "supplier_response_pending",
   "budget_approval_required", "production_schedule_at_risk"}

(* What a rule reports and an alert is about: its type and its entity. *)
Finding == AlertTypes \X Entities

AlertRow == [type : AlertTypes, entity : Entities, status : {"open", "resolved"}]

EscalationStatus == {"pending", "approved", "rejected"}

EscalationRow == [alert : Nat, status : EscalationStatus]

(* A purchase order as a client has fetched it. *)
Fetched == [order : PurchaseOrders, row : Row]

TotalOf(row) == row.quantity * row.price

(* The seed data's totals are those of their quantities and prices. *)
ASSUME DeskAssumption ==
  /\ IsFiniteSet(PurchaseOrders)
  /\ PurchaseOrders \subseteq Entities
  /\ ScenarioOrder \in PurchaseOrders
  /\ ApprovalAbove \in [PurchaseOrders -> Nat]
  /\ InitialRows \subseteq [PurchaseOrders -> Row]
  /\ \A rows \in InitialRows : \A p \in PurchaseOrders :
       rows[p].total = TotalOf(rows[p])
  /\ Patches \subseteq PurchaseOrderPatch
  /\ OtherFindings \subseteq Seq(Finding)
  /\ Absent \notin OrderStatus \cup EscalationStatus \cup Nat \cup Fetched
  /\ MaxRequests \in Nat
  /\ MaxNow \in Nat

VARIABLES
  pos,          \* table contract_purchase_orders
  alerts,       \* table alerts
  escalations,  \* table escalations
  audit,        \* table audit_log, in the order of the commits
  now,          \* the date
  view,         \* client -> the purchase order it has fetched last
  pc,           \* client -> the next step of its request
  ctx,          \* client -> the local variables of its request
  started       \* number of requests started, for the bound MaxRequests

tables == <<pos, alerts, escalations, audit>>
vars   == <<tables, now, view, pc, ctx, started>>

(* seen and was are what the request has read of an order and of an          *)
(* escalation.                                                              *)
NoContext == [seen |-> Absent, patch |-> Absent, found |-> <<>>, open |-> {},
              escalation |-> 0, was |-> Absent, decision |-> Absent]

Context ==
  [seen : Row \cup {Absent}, patch : PurchaseOrderPatch \cup {Absent},
   found : Seq(Finding), open : SUBSET Finding, escalation : Nat,
   was : EscalationStatus \cup {Absent},
   decision : {"approved", "rejected", Absent}]

Labels == {"idle", "patch", "scan_budget", "scan_open", "scan_insert", "resolve"}

TypeOK ==
  /\ pos \in [PurchaseOrders -> Row]
  /\ alerts \in Seq(AlertRow)
  /\ escalations \in Seq(EscalationRow)
  /\ \A e \in DOMAIN escalations : escalations[e].alert \in DOMAIN alerts
  /\ now \in 0..MaxNow
  /\ view \in [Clients -> Fetched \cup {Absent}]
  /\ pc \in [Clients -> Labels]
  /\ ctx \in [Clients -> Context]
  /\ started \in 0..MaxRequests

Init ==
  /\ pos \in InitialRows
  /\ alerts = <<>>
  /\ escalations = <<>>
  /\ audit = <<>>
  /\ now = 0
  /\ view = [c \in Clients |-> Absent]
  /\ pc = [c \in Clients |-> "idle"]
  /\ ctx = [c \in Clients |-> NoContext]
  /\ started = 0

-----------------------------------------------------------------------------
(* Helpers *)

Begin(c, label, locals) ==
  /\ pc[c] = "idle"
  /\ started < MaxRequests
  /\ started' = started + 1
  /\ pc' = [pc EXCEPT ![c] = label]
  /\ ctx' = [ctx EXCEPT ![c] = locals]
  /\ UNCHANGED <<now, view>>

Goto(c, from, to) ==
  /\ pc[c] = from
  /\ pc' = [pc EXCEPT ![c] = to]
  /\ UNCHANGED <<now, view, started>>

Finish(c, from) ==
  /\ Goto(c, from, "idle")
  /\ ctx' = [ctx EXCEPT ![c] = NoContext]

AuditRow(event, entity, ref, before, after) ==
  [event |-> event, entity |-> entity, ref |-> ref,
   before |-> before, after |-> after]

Key(a) == <<alerts[a].type, alerts[a].entity>>

-----------------------------------------------------------------------------
(* GET and PATCH /purchase-orders/{p} *)

GetPurchaseOrder(c, p) ==
  /\ pc[c] = "idle"
  /\ view' = [view EXCEPT ![c] = [order |-> p, row |-> pos[p]]]
  /\ UNCHANGED <<tables, now, pc, ctx, started>>

(* Mutant: the version the client sends is not looked at. *)
PatchAnyVersion(c, f) ==
  /\ view[c] # Absent
  /\ Begin(c, "patch",
           [NoContext EXCEPT !.seen = pos[view[c].order], !.patch = f])
  /\ UNCHANGED tables

(* The client sends the version it has fetched; any other one is answered    *)
(* with a conflict.                                                         *)
PatchPurchaseOrder(c, f) ==
  /\ view[c] # Absent
  /\ pos[view[c].order].version = view[c].row.version
  /\ Begin(c, "patch",
           [NoContext EXCEPT !.seen = pos[view[c].order], !.patch = f])
  /\ UNCHANGED tables

(* Mutant: a new price alone does not touch the total. *)
PatchedKeepingTotal(row, f) ==
  LET new(col) == IF f[col] = Absent THEN row[col] ELSE f[col]
  IN  [row EXCEPT !.status = new("status"), !.due = new("due"),
                  !.quantity = new("quantity"), !.price = new("price"),
                  !.total = IF f.quantity = Absent
                              THEN @ ELSE new("quantity") * new("price"),
                  !.version = @ + 1]

Patched(row, f) ==
  LET new(col) == IF f[col] = Absent THEN row[col] ELSE f[col]
  IN  [row EXCEPT !.status = new("status"), !.due = new("due"),
                  !.quantity = new("quantity"), !.price = new("price"),
                  !.total = IF f.quantity = Absent /\ f.price = Absent
                              THEN @ ELSE new("quantity") * new("price"),
                  !.version = @ + 1]

(* The columns of a row that before_state and after_state show. *)
Shown(row) == [col \in Columns \ {"due"} |-> row[col]]

(* Mutant: after_state is taken before the version is counted up. *)
WritePatchShownEarly(c) ==
  LET p    == view[c].order
      seen == ctx[c].seen
      new  == Patched(seen, ctx[c].patch)
  IN  /\ Finish(c, "patch")
      /\ pos' = [pos EXCEPT ![p] =
                   [col \in Columns |-> IF new[col] = seen[col] THEN pos[p][col]
                                                                ELSE new[col]]]
      /\ audit' = Append(audit,
           AuditRow("purchase_order_updated", p, 0, Shown(seen),
                    Shown([new EXCEPT !.version = seen.version])))
      /\ UNCHANGED <<alerts, escalations>>

WritePatch(c) ==
  LET p    == view[c].order
      seen == ctx[c].seen
      new  == Patched(seen, ctx[c].patch)
  IN  /\ Finish(c, "patch")
      /\ pos' = [pos EXCEPT ![p] =
                   [col \in Columns |-> IF new[col] = seen[col] THEN pos[p][col]
                                                                ELSE new[col]]]
      /\ audit' = Append(audit,
           AuditRow("purchase_order_updated", p, 0, Shown(seen), Shown(new)))
      /\ UNCHANGED <<alerts, escalations>>

(* Injecting or resetting the delivery scenario writes the status column and *)
(* neither the version nor an audit row.                                    *)
RunScenario(c, s) ==
  /\ pc[c] = "idle"
  /\ started < MaxRequests
  /\ started' = started + 1
  /\ pos' = [pos EXCEPT ![ScenarioOrder].status = s]
  /\ UNCHANGED <<alerts, escalations, audit, now, view, pc, ctx>>

-----------------------------------------------------------------------------
(* POST /alerts/scan.  The rules run one after the other; those on components, *)
(* supplier messages and production orders read tables this module does not  *)
(* model and report any of OtherFindings.                                   *)

IsDelayed(p) == /\ pos[p].status \notin {"delivered", "cancelled"}
                /\ pos[p].due < now \/ pos[p].status = "delayed"

IsOverBudget(p) == pos[p].total > ApprovalAbove[p]

Findings(type, ps) == SetToSeq({<<type, p>> : p \in ps})

ScanDelayed(c) ==
  /\ Begin(c, "scan_budget",
       [NoContext EXCEPT !.found =
          Findings("po_delayed", {p \in PurchaseOrders : IsDelayed(p)})])
  /\ UNCHANGED tables

ScanBudget(c) ==
  /\ Goto(c, "scan_budget", "scan_open")
  /\ \E other \in OtherFindings :
       ctx' = [ctx EXCEPT ![c].found = @ \o other \o
                 Findings("budget_approval_required",
                          {p \in PurchaseOrders : IsOverBudget(p)})]
  /\ UNCHANGED tables

(* Mutant: an alert of any status counts as open. *)
ScanAnyStatus(c) ==
  /\ Goto(c, "scan_open", "scan_insert")
  /\ ctx' = [ctx EXCEPT ![c].open = {Key(a) : a \in DOMAIN alerts}]
  /\ UNCHANGED tables

ScanOpen(c) ==
  /\ Goto(c, "scan_open", "scan_insert")
  /\ ctx' = [ctx EXCEPT ![c].open =
       {Key(a) : a \in {b \in DOMAIN alerts : alerts[b].status = "open"}}]
  /\ UNCHANGED tables

RequiresApproval(key) == key[1] = "budget_approval_required"

(* The rows a scan inserts for findings keys and for the alerts ids. *)
NewAlerts(keys) ==
  [n \in DOMAIN keys |->
     [type |-> keys[n][1], entity |-> keys[n][2], status |-> "open"]]

NewEscalations(ids) ==
  [n \in DOMAIN ids |-> [alert |-> ids[n], status |-> "pending"]]

(* Mutant: an entity that was ever escalated is not escalated again. *)
EscalatedOncePerEntity(keys) ==
  SetToSeq({a \in Len(alerts) + 1..Len(alerts) + Len(keys) :
              /\ RequiresApproval(keys[a - Len(alerts)])
              /\ \A e \in DOMAIN escalations :
                   Key(escalations[e].alert) # keys[a - Len(alerts)]})

(* The alerts to be inserted that are escalated at once. *)
Escalated(keys) ==
  SetToSeq({a \in Len(alerts) + 1..Len(alerts) + Len(keys) :
              RequiresApproval(keys[a - Len(alerts)])})

(* Mutant: a finding is not remembered as open once it has been raised. *)
FreshFindingsRepeated(c) ==
  SelectSeq(ctx[c].found, LAMBDA k : k \notin ctx[c].open)

(* The findings that get an alert: one each, whatever rule reports it twice. *)
FreshFindings(c) == SetToSeq(ToSet(ctx[c].found) \ ctx[c].open)

(* Mutant: the creation of escalations is not written to the audit log. *)
CreationRowsOfAlerts(keys, ids) ==
  [n \in DOMAIN keys |->
     AuditRow("alert_generated", keys[n][2], Len(alerts) + n, Absent, Absent)]

CreationRows(keys, ids) ==
  [n \in DOMAIN keys |->
     AuditRow("alert_generated", keys[n][2], Len(alerts) + n, Absent, Absent)]
  \o
  [n \in DOMAIN ids |->
     AuditRow("escalation_created", keys[ids[n] - Len(alerts)][2],
              Len(escalations) + n, Absent, "pending")]

InsertAlerts(c) ==
  LET keys == FreshFindings(c)
      ids  == Escalated(keys)
  IN  /\ Finish(c, "scan_insert")
      /\ alerts' = alerts \o NewAlerts(keys)
      /\ escalations' = escalations \o NewEscalations(ids)
      /\ audit' = audit \o CreationRows(keys, ids)
      /\ UNCHANGED pos

-----------------------------------------------------------------------------
(* POST /escalations/{e}/resolve, whatever the escalation's status. *)

ResolveEscalation(c, e, d) ==
  /\ Begin(c, "resolve", [NoContext EXCEPT !.escalation = e, !.decision = d,
                                           !.was = escalations[e].status])
  /\ UNCHANGED tables

(* Mutant: the verb of the request is written instead of the status. *)
WriteResolutionAsVerb(c) ==
  LET e == ctx[c].escalation
      d == IF ctx[c].decision = "approved" THEN "approve" ELSE "reject"
      a == escalations[e].alert
  IN  /\ Finish(c, "resolve")
      /\ escalations' = [escalations EXCEPT ![e].status = d]
      /\ alerts' = [alerts EXCEPT ![a].status = "resolved"]
      /\ audit' = Append(audit,
           AuditRow("escalation_resolved", alerts[a].entity, 0, ctx[c].was, d))
      /\ UNCHANGED pos

(* Mutant: only an approval closes the linked alert. *)
WriteResolutionOfApproved(c) ==
  LET e == ctx[c].escalation
      d == ctx[c].decision
      a == escalations[e].alert
  IN  /\ Finish(c, "resolve")
      /\ escalations' = IF ctx[c].was = d THEN escalations
                           ELSE [escalations EXCEPT ![e].status = d]
      /\ alerts' = IF d = "approved"
                      THEN [alerts EXCEPT ![a].status = "resolved"] ELSE alerts
      /\ audit' = Append(audit,
           AuditRow("escalation_resolved", alerts[a].entity, 0, ctx[c].was, d))
      /\ UNCHANGED pos

(* The audit row names the entity of the alert, not the escalation. *)
WriteResolution(c) ==
  LET e == ctx[c].escalation
      d == ctx[c].decision
      a == escalations[e].alert
  IN  /\ Finish(c, "resolve")
      /\ escalations' = IF ctx[c].was = d THEN escalations
                           ELSE [escalations EXCEPT ![e].status = d]
      /\ alerts' = [alerts EXCEPT ![a].status = "resolved"]
      /\ audit' = Append(audit,
           AuditRow("escalation_resolved", alerts[a].entity, 0, ctx[c].was, d))
      /\ UNCHANGED pos

-----------------------------------------------------------------------------
Tick ==
  /\ now < MaxNow
  /\ now' = now + 1
  /\ UNCHANGED <<tables, view, pc, ctx, started>>

Request(c) ==
  \/ \E f \in Patches : PatchPurchaseOrder(c, f)
  \/ ScanDelayed(c)
  \/ \E e \in DOMAIN escalations, d \in {"approved", "rejected"} :
       ResolveEscalation(c, e, d)
  \/ \E s \in {"delayed", "in_transit"} : RunScenario(c, s)

Step(c) ==
  \/ WritePatch(c) \/ WriteResolution(c)
  \/ ScanBudget(c) \/ ScanOpen(c) \/ InsertAlerts(c)

Fetch(c) == \E p \in PurchaseOrders : GetPurchaseOrder(c, p)

Next == Tick \/ \E c \in Clients : Fetch(c) \/ Request(c) \/ Step(c)

Idle == \A c \in Clients : pc[c] = "idle"

(* Requests that change something arrive one after the other; clients still  *)
(* hold what they have fetched while others are served.                      *)
SerialNext ==
  \/ Tick
  \/ \E c \in Clients : Fetch(c) \/ (Idle /\ Request(c)) \/ Step(c)

Spec       == Init /\ [][Next]_vars
SerialSpec == Init /\ [][SerialNext]_vars

-----------------------------------------------------------------------------
(* Properties that hold in every interleaving *)

(* Every alert that requires an approval has exactly one escalation, and no  *)
(* other alert has one, however many scans overlap and find the same thing.  *)
EscalatedOnce ==
  \A a \in DOMAIN alerts :
    Cardinality({e \in DOMAIN escalations : escalations[e].alert = a})
      = IF RequiresApproval(Key(a)) THEN 1 ELSE 0

(* An escalation awaits its decision exactly as long as its alert is open,   *)
(* also when two clients decide it at once or decide it again.               *)
ResolvedTogether ==
  \A e \in DOMAIN escalations :
    escalations[e].status = "pending"
      <=> alerts[escalations[e].alert].status = "open"

(* The audit log accounts for every alert, every escalation and every        *)
(* decision: an entity has at least as many decision rows of a kind as it    *)
(* has escalations that stand so decided, though the rows name no escalation *)
(* and a decision may be written over another one.                           *)
DecisionRows(entity, d) ==
  {n \in DOMAIN audit : /\ audit[n].event = "escalation_resolved"
                        /\ audit[n].entity = entity
                        /\ audit[n].after = d}

Decided(entity, d) ==
  {e \in DOMAIN escalations : /\ escalations[e].status = d
                              /\ alerts[escalations[e].alert].entity = entity}

HasCreationRow(event, ref) ==
  \E n \in DOMAIN audit : audit[n].event = event /\ audit[n].ref = ref

TrailComplete ==
  /\ \A a \in DOMAIN alerts : HasCreationRow("alert_generated", a)
  /\ \A e \in DOMAIN escalations : HasCreationRow("escalation_created", e)
  /\ \A p \in PurchaseOrders, d \in {"approved", "rejected"} :
       Cardinality(Decided(p, d)) <= Cardinality(DecisionRows(p, d))

-----------------------------------------------------------------------------
(* Properties of requests that do not overlap *)

(* No entity has two open alerts of one type, although rules report an       *)
(* entity several times in one scan and in every scan.                       *)
NoDuplicateOpenAlert ==
  \A a, b \in DOMAIN alerts :
    /\ Key(a) = Key(b)
    /\ alerts[a].status = "open"
    /\ alerts[b].status = "open"
    => a = b

(* The total the budget rule compares is always that of the row's quantity   *)
(* and price, whatever mixture of columns the updates carried.               *)
TotalsConsistent ==
  \A p \in PurchaseOrders : pos[p].total = TotalOf(pos[p])

(* The update rows of a purchase order form a chain: each raises the version *)
(* by one, starts from the terms the one before left and the last one shows  *)
(* the terms in force.  The status is left out: the scenario lab writes it.  *)
Terms(row) == <<row.quantity, row.price, row.total, row.version>>

UpdateRows(p) ==
  {n \in DOMAIN audit : /\ audit[n].event = "purchase_order_updated"
                        /\ audit[n].entity = p}

TrailReplays ==
  \A p \in PurchaseOrders : \A n \in UpdateRows(p) :
    LET later   == {m \in UpdateRows(p) : m > n}
        next(m) == m \in later /\ \A i \in later : m <= i
    IN  /\ audit[n].after.version = audit[n].before.version + 1
        /\ \A m \in later :
             next(m) => Terms(audit[m].before) = Terms(audit[n].after)
        /\ later = {} => Terms(pos[p]) = Terms(audit[n].after)

(* An update is based on the terms in force: what the client had fetched is  *)
(* what the row still says when the update is committed.                     *)
Commits(c, label) == pc[c] = label /\ pc'[c] = "idle"

UpdatesSeeCurrentTerms ==
  [][\A c \in Clients : Commits(c, "patch") =>
       LET p == view[c].order
       IN  /\ Terms(view[c].row) = Terms(pos[p])
           /\ view[c].row.due = pos[p].due]_vars

(* After a scan everything it found has an open alert: also a purchase order *)
(* that is over its budget again, or still, after an earlier decision.       *)
ScanRaisesFindings ==
  [][\A c \in Clients : Commits(c, "scan_insert") =>
       \A k \in ToSet(ctx[c].found) :
         \E a \in DOMAIN alerts' : /\ <<alerts'[a].type, alerts'[a].entity>> = k
                                   /\ alerts'[a].status = "open"]_vars
=============================================================================
