-------------------------- MODULE RecoveryWorkflow --------------------------
(***************************************************************************)
(* The human-approved recovery workflow of the back end: requesting an      *)
(* approval for a plan, deciding it, executing the plan (which places the   *)
(* purchase order), verifying the execution and replanning.                 *)
(*                                                                         *)
(* Every HTTP request is served by a handler with a database session of its *)
(* own.  The repository helpers commit each write, so a handler is a        *)
(* sequence of transactions and one action below is one transaction: other  *)
(* handlers run, and the process may die, between any two of them.  The     *)
(* tables are sequences in order of insertion; a row's id is its index.     *)
(*                                                                         *)
(* A session keeps the attributes of a loaded row for as long as the handler *)
(* holds the object (the factory sets expire_on_commit=False): assigning a   *)
(* column the value the session remembers emits no UPDATE.  ctx[h].planSeen  *)
(* and ctx[h].incidentSeen are those remembered status columns; an execution *)
(* holds its plan to the end, but loads the incident again to verify.        *)
(***************************************************************************)
EXTENDS Naturals, Sequences, FiniteSets

CONSTANTS
  Incidents,        \* ids of the incidents; those about a material share it
  Suppliers,        \* ids of the suppliers
  NoSupplier,       \* plan_details without a supplier_id
  DefaultSupplier,  \* "SUP-34", what verification assumes of such a plan
  Quantities,       \* quantities a plan may order; 0: plan_details has none
  DefaultQuantity,  \* 800, what verification assumes of such a plan
  InitialPlans,     \* sequences of rows recovery_plans may start with
  InitialOrders,    \* sequences of rows purchase_orders may start with
  Handlers,         \* request handlers that may run at the same time
  MaxRequests,      \* bound: requests that change something
  MaxPlans          \* bound: plans a recommendation may grow the table to

None == "none"

IncidentStatus == {"OPEN", "APPROVED", "REPLANNING", "RESOLVED"}
PlanStatus     == {"PROPOSED", "EXECUTING", "COMPLETED", "SUPERSEDED"}
ApprovalStatus == {"PENDING", "APPROVED", "REJECTED"}

Contents == [supplier : Suppliers \cup {NoSupplier}, quantity : Quantities]
Plan     == [incident : Incidents, contents : Contents, status : PlanStatus]
Approval == [incident : Incidents, plan : Nat, status : ApprovalStatus]

(* plan and approval are those of the execution that placed the order (the  *)
(* table has neither column); 0 for an order the workflow did not create.   *)
Order    == [plan : Nat, approval : Nat, supplier : Suppliers, quantity : Nat]

Events == {"APPROVAL_REQUESTED", "APPROVE", "REJECT", "EXECUTION_STARTED",
           "PO_CREATED", "EXECUTION_COMPLETED", "VERIFICATION_PASSED",
           "VERIFICATION_FAILED", "ASSUMPTION_FAILURE_DETECTED",
           "REPLANNING_COMPLETED"}
AuditEvent == [event : Events, incident : Incidents, plan : Nat, approval : Nat]

ASSUME WorkflowAssumption ==
  /\ NoSupplier \notin Suppliers
  /\ DefaultSupplier \in Suppliers
  /\ Quantities \subseteq Nat
  /\ DefaultQuantity \in Nat
  /\ InitialPlans \subseteq
       Seq([incident : Incidents, contents : Contents, status : {"PROPOSED"}])
  /\ InitialOrders \subseteq
       Seq([plan : {0}, approval : {0}, supplier : Suppliers, quantity : Nat])
  /\ None \notin Incidents
  /\ MaxRequests \in Nat
  /\ MaxPlans \in Nat

VARIABLES
  incidents,  \* incident -> status
  plans,      \* table recovery_plans
  approvals,  \* table approval_requests
  orders,     \* table purchase_orders
  audit,      \* table audit_events, as the set of its distinct rows
  pc,         \* handler -> the transaction it is about to run
  ctx,        \* handler -> its local variables
  started,    \* number of requests started, for the bound MaxRequests
  granted     \* history: the approvals a human has approved at some time

db   == <<incidents, plans, approvals, orders, audit, granted>>
vars == <<db, pc, ctx, started>>

Labels ==
  {"idle", "suggest", "insert_requested", "audit_requested",
   "insert_dossier", "insert_ondemand",
   "decide", "mark_incident", "audit_decision",
   "exec_audit", "exec_begin", "exec_order", "exec_complete", "exec_resolve",
   "exec_done", "verify", "pass_incident", "pass_plan", "pass_audit",
   "fail_plan", "fail_audit", "replan_incident", "replan_plan",
   "replan_approval", "replan_audit"}

Context ==
  [incident     : Incidents \cup {None},
   plan         : Nat,
   approval     : Nat,
   decision     : {"APPROVED", "REJECTED", None},
   planSeen     : PlanStatus \cup {None},
   incidentSeen : IncidentStatus \cup {None},
   revised      : Nat]

NoContext ==
  [incident |-> None, plan |-> 0, approval |-> 0, decision |-> None,
   planSeen |-> None, incidentSeen |-> None, revised |-> 0]

TypeOK ==
  /\ incidents \in [Incidents -> IncidentStatus]
  /\ plans \in Seq(Plan)
  /\ approvals \in Seq(Approval)
  /\ orders \in Seq(Order)
  /\ audit \subseteq AuditEvent
  /\ pc \in [Handlers -> Labels]
  /\ ctx \in [Handlers -> Context]
  /\ started \in 0..MaxRequests
  /\ granted \subseteq DOMAIN approvals

Init ==
  /\ incidents = [i \in Incidents |-> "OPEN"]
  /\ plans \in InitialPlans
  /\ approvals = <<>>
  /\ orders \in InitialOrders
  /\ audit = {}
  /\ pc = [h \in Handlers |-> "idle"]
  /\ ctx = [h \in Handlers |-> NoContext]
  /\ started = 0
  /\ granted = {}

-----------------------------------------------------------------------------
(* Helpers *)

(* A new request, whose first transaction leads to label with locals c. *)
Begin(h, label, c) ==
  /\ pc[h] = "idle"
  /\ started < MaxRequests
  /\ started' = started + 1
  /\ pc' = [pc EXCEPT ![h] = label]
  /\ ctx' = [ctx EXCEPT ![h] = c]

(* The next transaction of a running request. *)
Goto(h, from, to) ==
  /\ pc[h] = from
  /\ pc' = [pc EXCEPT ![h] = to]
  /\ UNCHANGED started

(* The request has been answered. *)
Finish(h, from) ==
  /\ Goto(h, from, "idle")
  /\ ctx' = [ctx EXCEPT ![h] = NoContext]

Log(event, i, p, a) ==
  audit' = audit \cup
    {[event |-> event, incident |-> i, plan |-> p, approval |-> a]}

NewPlan(i, c) ==
  plans' = Append(plans, [incident |-> i, contents |-> c, status |-> "PROPOSED"])

NewApproval(p) ==
  approvals' = Append(approvals,
    [incident |-> plans[p].incident, plan |-> p, status |-> "PENDING"])

(* update_plan_status: the column is written only if the session remembers *)
(* another value.                                                           *)
SetPlanStatus(h, status) ==
  /\ plans' = IF ctx[h].planSeen = status
                THEN plans
                ELSE [plans EXCEPT ![ctx[h].plan].status = status]
  /\ ctx' = [ctx EXCEPT ![h].planSeen = status]

SetIncidentStatus(h, status) ==
  /\ incidents' = IF ctx[h].incidentSeen = status
                    THEN incidents
                    ELSE [incidents EXCEPT ![ctx[h].incident] = status]
  /\ ctx' = [ctx EXCEPT ![h].incidentSeen = status]

PlansOf(i)    == {p \in DOMAIN plans : plans[p].incident = i}
PendingFor(p) == {a \in DOMAIN approvals :
                    approvals[a].plan = p /\ approvals[a].status = "PENDING"}

(* Execution orders something only for a supplier and a positive quantity. *)
Buys(p) == /\ plans[p].contents.supplier # NoSupplier
           /\ plans[p].contents.quantity > 0

-----------------------------------------------------------------------------
(* POST /incidents/{i}/recommend: one plan per suggestion, unvalidated, then *)
(* the approval of the first is requested.                                  *)

RecommendPlans(h, i) ==
  /\ Len(plans) < MaxPlans
  /\ Begin(h, "suggest", [NoContext EXCEPT !.plan = Len(plans) + 1,
                                           !.incident = i])
  /\ \E c \in Contents : NewPlan(i, c)
  /\ UNCHANGED <<incidents, approvals, orders, audit, granted>>

SuggestAnother(h) ==
  /\ Goto(h, "suggest", "suggest")
  /\ Len(plans) < MaxPlans
  /\ \E c \in Contents : NewPlan(ctx[h].incident, c)
  /\ UNCHANGED <<incidents, approvals, orders, audit, granted, ctx>>

SubmitFirst(h) ==
  \/ /\ Goto(h, "suggest", "insert_requested")  \* valid, none pending
     /\ PendingFor(ctx[h].plan) = {}
     /\ UNCHANGED <<db, ctx>>
  \/ /\ Finish(h, "suggest")  \* invalid, or pending requests were found
     /\ UNCHANGED db

-----------------------------------------------------------------------------
(* POST /plans/{p}/approval.  A request that finds the plan invalid or a     *)
(* pending approval changes nothing.                                        *)

RequestApproval(h, p) ==
  /\ PendingFor(p) = {}
  /\ Begin(h, "insert_requested",
           [NoContext EXCEPT !.plan = p, !.incident = plans[p].incident])
  /\ UNCHANGED db

InsertRequested(h) ==
  /\ Goto(h, "insert_requested", "audit_requested")
  /\ NewApproval(ctx[h].plan)
  /\ UNCHANGED <<incidents, plans, orders, audit, granted, ctx>>

AuditRequested(h) ==
  /\ Finish(h, "audit_requested")
  /\ Log("APPROVAL_REQUESTED", ctx[h].incident, ctx[h].plan, 0)
  /\ UNCHANGED <<incidents, plans, approvals, orders, granted>>

(* GET /incidents/{i}/dossier creates an approval when neither the incident  *)
(* nor one of its plans has any; p is the plan it recommends.                *)
OpenDossier(h, p) ==
  /\ \A a \in DOMAIN approvals : approvals[a].incident # plans[p].incident
  /\ Begin(h, "insert_dossier",
           [NoContext EXCEPT !.plan = p, !.incident = plans[p].incident])
  /\ UNCHANGED db

InsertDossier(h) ==
  /\ Finish(h, "insert_dossier")
  /\ NewApproval(ctx[h].plan)
  /\ UNCHANGED <<incidents, plans, orders, audit, granted>>

-----------------------------------------------------------------------------
(* POST /approvals/{id}/approve and /reject.  The id may also be a plan's or  *)
(* an incident's: its earliest pending approval is decided, and if there is  *)
(* none an approval is created on the spot.                                  *)

DecideApproval(h, a, d) ==
  /\ approvals[a].status # d
  /\ Begin(h, "decide", [NoContext EXCEPT !.approval = a, !.decision = d,
                                          !.plan = approvals[a].plan,
                                          !.incident = approvals[a].incident])
  /\ UNCHANGED db

DecideOnDemand(h, p, d) ==
  /\ \/ PendingFor(p) = {}                      \* the id is the plan's
     \/ \A q \in PlansOf(plans[p].incident) : PendingFor(q) = {}
  /\ Begin(h, "insert_ondemand",
           [NoContext EXCEPT !.plan = p, !.decision = d,
                             !.incident = plans[p].incident,
                             !.incidentSeen = incidents[plans[p].incident]])
  /\ UNCHANGED db

InsertOnDemand(h) ==
  /\ Goto(h, "insert_ondemand", "decide")
  /\ NewApproval(ctx[h].plan)
  /\ ctx' = [ctx EXCEPT ![h].approval = Len(approvals) + 1]
  /\ UNCHANGED <<incidents, plans, orders, audit, granted>>

(* Mutant: the verb of the request is written instead of the status. *)
WriteDecisionAsVerb(h) ==
  /\ Goto(h, "decide", "mark_incident")
  /\ approvals' = [approvals EXCEPT ![ctx[h].approval].status =
                     IF ctx[h].decision = "APPROVED" THEN "APPROVE" ELSE "REJECT"]
  /\ granted' = granted \cup
       {a \in {ctx[h].approval} : ctx[h].decision = "APPROVED"}
  /\ UNCHANGED <<incidents, plans, orders, audit, ctx>>

WriteDecision(h) ==
  /\ Goto(h, "decide", "mark_incident")
  /\ approvals' = [approvals EXCEPT ![ctx[h].approval].status = ctx[h].decision]
  /\ granted' = granted \cup
       {a \in {ctx[h].approval} : ctx[h].decision = "APPROVED"}
  /\ UNCHANGED <<incidents, plans, orders, audit, ctx>>

(* Mutant: reject_request keeps the status of the handler it was copied from. *)
MarkIncidentApproved(h) ==
  /\ Goto(h, "mark_incident", "audit_decision")
  /\ SetIncidentStatus(h, "APPROVED")
  /\ UNCHANGED <<plans, approvals, orders, audit, granted>>

MarkIncident(h) ==
  /\ Goto(h, "mark_incident", "audit_decision")
  /\ SetIncidentStatus(h, IF ctx[h].decision = "APPROVED" THEN "APPROVED"
                                                          ELSE "REPLANNING")
  /\ UNCHANGED <<plans, approvals, orders, audit, granted>>

AuditDecision(h) ==
  /\ Finish(h, "audit_decision")
  /\ Log(IF ctx[h].decision = "APPROVED" THEN "APPROVE" ELSE "REJECT",
         ctx[h].incident, 0, ctx[h].approval)
  /\ UNCHANGED <<incidents, plans, approvals, orders, granted>>

-----------------------------------------------------------------------------
(* POST /plans/{p}/execute.  The plan's own status is not looked at; whether *)
(* the validation engine accepts the plan is left open, a refused request    *)
(* changes nothing.                                                          *)

(* Mutants: the approval may be another plan's, or still undecided. *)
ExecutePlanOfAnyApproval(h, p, a) ==
  /\ approvals[a].status = "APPROVED"
  /\ Begin(h, "exec_audit",
           [NoContext EXCEPT !.plan = p, !.approval = a,
                             !.incident = plans[p].incident,
                             !.planSeen = plans[p].status])
  /\ UNCHANGED db

ExecutePlanUnlessRejected(h, p, a) ==
  /\ approvals[a].status # "REJECTED"
  /\ approvals[a].plan = p
  /\ Begin(h, "exec_audit",
           [NoContext EXCEPT !.plan = p, !.approval = a,
                             !.incident = plans[p].incident,
                             !.planSeen = plans[p].status])
  /\ UNCHANGED db

ExecutePlan(h, p, a) ==
  /\ approvals[a].status = "APPROVED"
  /\ approvals[a].plan = p
  /\ Begin(h, "exec_audit",
           [NoContext EXCEPT !.plan = p, !.approval = a,
                             !.incident = plans[p].incident,
                             !.planSeen = plans[p].status])
  /\ UNCHANGED db

AuditExecution(h) ==
  /\ Goto(h, "exec_audit", "exec_begin")
  /\ Log("EXECUTION_STARTED", ctx[h].incident, ctx[h].plan, ctx[h].approval)
  /\ UNCHANGED <<incidents, plans, approvals, orders, granted, ctx>>

(* Mutant: the status is written past the session, which still remembers the *)
(* one it has read.                                                         *)
BeginExecutionPastSession(h) ==
  /\ Goto(h, "exec_begin",
          IF Buys(ctx[h].plan) THEN "exec_order" ELSE "exec_complete")
  /\ plans' = [plans EXCEPT ![ctx[h].plan].status = "EXECUTING"]
  /\ UNCHANGED <<incidents, approvals, orders, audit, granted, ctx>>

BeginExecution(h) ==
  /\ Goto(h, "exec_begin",
          IF Buys(ctx[h].plan) THEN "exec_order" ELSE "exec_complete")
  /\ SetPlanStatus(h, "EXECUTING")
  /\ UNCHANGED <<incidents, approvals, orders, audit, granted>>

(* Mutant: the order is committed before its audit event, which is lost. *)
PlaceOrderUnlogged(h) ==
  /\ Goto(h, "exec_order", "exec_complete")
  /\ orders' = Append(orders,
       [plan     |-> ctx[h].plan,
        approval |-> ctx[h].approval,
        supplier |-> plans[ctx[h].plan].contents.supplier,
        quantity |-> plans[ctx[h].plan].contents.quantity])
  /\ UNCHANGED <<incidents, plans, approvals, audit, granted, ctx>>

(* create_purchase_order only flushes: the commit of its audit event makes  *)
(* order and event durable together.                                        *)
PlaceOrder(h) ==
  /\ Goto(h, "exec_order", "exec_complete")
  /\ orders' = Append(orders,
       [plan     |-> ctx[h].plan,
        approval |-> ctx[h].approval,
        supplier |-> plans[ctx[h].plan].contents.supplier,
        quantity |-> plans[ctx[h].plan].contents.quantity])
  /\ Log("PO_CREATED", ctx[h].incident, ctx[h].plan, 0)
  /\ UNCHANGED <<incidents, plans, approvals, granted, ctx>>

CompletePlan(h) ==
  /\ Goto(h, "exec_complete", "exec_resolve")
  /\ SetPlanStatus(h, "COMPLETED")
  /\ UNCHANGED <<incidents, approvals, orders, audit, granted>>

ResolveIncident(h) ==
  /\ Goto(h, "exec_resolve", "verify")
  /\ SetIncidentStatus(h, "RESOLVED")
  /\ UNCHANGED <<plans, approvals, orders, audit, granted>>

AuditExecuted(h) ==
  /\ Finish(h, "exec_done")
  /\ Log("EXECUTION_COMPLETED", ctx[h].incident, ctx[h].plan, 0)
  /\ UNCHANGED <<incidents, plans, approvals, orders, granted>>

-----------------------------------------------------------------------------
(* POST /plans/{p}/verify, and the verification an execution ends with. *)

VerifyPlan(h, p) ==
  /\ Begin(h, "verify",
           [NoContext EXCEPT !.plan = p,
                             !.incident = plans[p].incident,
                             !.planSeen = plans[p].status])
  /\ UNCHANGED db

ExpectedSupplier(p) ==
  IF plans[p].contents.supplier = NoSupplier
    THEN DefaultSupplier ELSE plans[p].contents.supplier

ExpectedQuantity(p) ==
  IF plans[p].contents.quantity = 0
    THEN DefaultQuantity ELSE plans[p].contents.quantity

(* The order verification compares the plan with: the latest one of the     *)
(* expected supplier, whichever plan it was placed for.                     *)
IsLatestOrder(o, s) ==
  /\ orders[o].supplier = s
  /\ \A n \in DOMAIN orders : orders[n].supplier = s => n <= o

OrderFulfils(p) ==
  \E o \in DOMAIN orders :
    /\ IsLatestOrder(o, ExpectedSupplier(p))
    /\ orders[o].quantity >= ExpectedQuantity(p)

(* A misleading supplier claim, or a bad status of the order found, fails   *)
(* the verification of a fulfilled plan too: either outcome is possible.    *)
VerifyExecution(h) ==
  /\ \/ /\ Goto(h, "verify", "pass_incident")
        /\ OrderFulfils(ctx[h].plan)
     \/ Goto(h, "verify", "fail_plan")
  /\ ctx' = [ctx EXCEPT ![h].incidentSeen = incidents[ctx[h].incident]]
  /\ UNCHANGED db

(* Verification over: an execution still logs its completion. *)
Return(h, from) ==
  IF ctx[h].approval # 0
    THEN Goto(h, from, "exec_done") /\ UNCHANGED ctx
    ELSE Finish(h, from)

PassIncident(h) ==
  /\ Goto(h, "pass_incident", "pass_plan")
  /\ SetIncidentStatus(h, "RESOLVED")
  /\ UNCHANGED <<plans, approvals, orders, audit, granted>>

PassPlan(h) ==
  /\ Goto(h, "pass_plan", "pass_audit")
  /\ SetPlanStatus(h, "COMPLETED")
  /\ UNCHANGED <<incidents, approvals, orders, audit, granted>>

AuditPass(h) ==
  /\ Return(h, "pass_audit")
  /\ Log("VERIFICATION_PASSED", ctx[h].incident, ctx[h].plan, 0)
  /\ UNCHANGED <<incidents, plans, approvals, orders, granted>>

FailPlan(h) ==
  /\ Goto(h, "fail_plan", "fail_audit")
  /\ SetPlanStatus(h, "SUPERSEDED")
  /\ UNCHANGED <<incidents, approvals, orders, audit, granted>>

(* Mutant: a failed verification is reported and not followed up. *)
AuditFailOnly(h) ==
  /\ Return(h, "fail_audit")
  /\ Log("VERIFICATION_FAILED", ctx[h].incident, ctx[h].plan, 0)
  /\ UNCHANGED <<incidents, plans, approvals, orders, granted>>

AuditFail(h) ==
  /\ Goto(h, "fail_audit", "replan_incident")
  /\ Log("VERIFICATION_FAILED", ctx[h].incident, ctx[h].plan, 0)
  /\ UNCHANGED <<incidents, plans, approvals, orders, granted, ctx>>

-----------------------------------------------------------------------------
(* replan_incident, after a failed verification or an assumption failure. *)

HandleAssumptionFailure(h, i) ==
  /\ Begin(h, "replan_incident", [NoContext EXCEPT !.incident = i])
  /\ Log("ASSUMPTION_FAILURE_DETECTED", i, 0, 0)
  /\ UNCHANGED <<incidents, plans, approvals, orders, granted>>

(* Mutant: the incident keeps its status while it is replanned. *)
ReplanIncidentSilently(h) ==
  /\ Goto(h, "replan_incident", "replan_plan")
  /\ UNCHANGED <<incidents, plans, approvals, orders, audit, granted, ctx>>

ReplanIncident(h) ==
  /\ Goto(h, "replan_incident", "replan_plan")
  /\ SetIncidentStatus(h, "REPLANNING")
  /\ UNCHANGED <<plans, approvals, orders, audit, granted>>

(* A single supplier with a quantity, or a split plan whose details have a  *)
(* supplier but no quantity; validation does not gate either.               *)
InsertRevisedPlan(h) ==
  /\ Goto(h, "replan_plan", "replan_approval")
  /\ \E c \in Contents : /\ c.supplier # NoSupplier
                         /\ NewPlan(ctx[h].incident, c)
  /\ ctx' = [ctx EXCEPT ![h].revised = Len(plans) + 1]
  /\ UNCHANGED <<incidents, approvals, orders, audit, granted>>

(* Mutant: a pending approval of the incident is taken for the new one. *)
InsertRevisedApprovalOnce(h) ==
  /\ Goto(h, "replan_approval", "replan_audit")
  /\ \/ \E a \in DOMAIN approvals :
          /\ approvals[a].incident = ctx[h].incident
          /\ approvals[a].status = "PENDING"
          /\ UNCHANGED approvals
     \/ /\ \A a \in DOMAIN approvals :
             approvals[a].status = "PENDING" =>
               approvals[a].incident # ctx[h].incident
        /\ NewApproval(ctx[h].revised)
  /\ UNCHANGED <<incidents, plans, orders, audit, granted, ctx>>

InsertRevisedApproval(h) ==
  /\ Goto(h, "replan_approval", "replan_audit")
  /\ NewApproval(ctx[h].revised)
  /\ UNCHANGED <<incidents, plans, orders, audit, granted, ctx>>

AuditReplan(h) ==
  /\ Return(h, "replan_audit")
  /\ Log("REPLANNING_COMPLETED", ctx[h].incident, ctx[h].revised, 0)
  /\ UNCHANGED <<incidents, plans, approvals, orders, granted>>

-----------------------------------------------------------------------------
(* The process dies, or an exception ends the request: what was committed    *)
(* stays and nothing resumes the handler.                                    *)
Crash(h) ==
  /\ pc[h] # "idle"
  /\ pc' = [pc EXCEPT ![h] = "idle"]
  /\ ctx' = [ctx EXCEPT ![h] = NoContext]
  /\ UNCHANGED <<db, started>>

(* A client sends a request. *)
Request(h) ==
  \/ \E i \in Incidents : RecommendPlans(h, i)
  \/ \E p \in DOMAIN plans : RequestApproval(h, p)
  \/ \E p \in DOMAIN plans : OpenDossier(h, p)
  \/ \E a \in DOMAIN approvals, d \in {"APPROVED", "REJECTED"} :
       DecideApproval(h, a, d)
  \/ \E p \in DOMAIN plans, d \in {"APPROVED", "REJECTED"} :
       DecideOnDemand(h, p, d)
  \/ \E p \in DOMAIN plans, a \in DOMAIN approvals : ExecutePlan(h, p, a)
  \/ \E p \in DOMAIN plans : VerifyPlan(h, p)
  \/ \E i \in Incidents : HandleAssumptionFailure(h, i)

(* A running handler takes its next transaction. *)
Step(h) ==
  \/ SuggestAnother(h)        \/ SubmitFirst(h)
  \/ InsertRequested(h)       \/ AuditRequested(h)
  \/ InsertDossier(h)         \/ InsertOnDemand(h)
  \/ WriteDecision(h)         \/ MarkIncident(h)      \/ AuditDecision(h)
  \/ AuditExecution(h)        \/ BeginExecution(h)    \/ PlaceOrder(h)
  \/ CompletePlan(h)          \/ ResolveIncident(h)   \/ AuditExecuted(h)
  \/ VerifyExecution(h)       \/ PassIncident(h)      \/ PassPlan(h)
  \/ AuditPass(h)             \/ FailPlan(h)          \/ AuditFail(h)
  \/ ReplanIncident(h)        \/ InsertRevisedPlan(h)
  \/ InsertRevisedApproval(h) \/ AuditReplan(h)

CrashFreeNext == \E h \in Handlers : Request(h) \/ Step(h)

Next == CrashFreeNext \/ \E h \in Handlers : Crash(h)

Spec          == Init /\ [][Next]_vars
CrashFreeSpec == Init /\ [][CrashFreeNext]_vars

(* The event loop runs every handler on; no client has to send anything. *)
FairSpec == CrashFreeSpec /\ \A h \in Handlers : WF_vars(Step(h))

-----------------------------------------------------------------------------
(* Properties *)

Quiescent == \A h \in Handlers : pc[h] = "idle"

Logged(event, i, p, a) ==
  [event |-> event, incident |-> i, plan |-> p, approval |-> a] \in audit

(* Every purchase order of the workflow was placed under an approval that a  *)
(* human had granted, and granted for that very plan: execute_plan's check   *)
(* of the approval still protects the order several transactions later,      *)
(* whatever other requests, replans and crashes come in between.             *)
OrdersAuthorized ==
  \A o \in DOMAIN orders : orders[o].plan # 0 =>
    /\ orders[o].approval \in granted
    /\ approvals[orders[o].approval].plan = orders[o].plan

(* The audit trail explains every purchase order of the workflow: the start  *)
(* of its execution was logged, naming the approval it was placed under, and *)
(* so was the order; a crash leaves no unexplained order behind.             *)
OrdersAudited ==
  \A o \in DOMAIN orders : orders[o].plan # 0 =>
    LET p == orders[o].plan
        i == plans[p].incident
    IN  /\ Logged("EXECUTION_STARTED", i, p, orders[o].approval)
        /\ Logged("PO_CREATED", i, p, 0)

(* Unless a request dies, no plan is left EXECUTING once all requests have   *)
(* been answered, even when several execute and verify the same plan with    *)
(* stale copies of its row.                                                 *)
NoPlanLeftExecuting ==
  Quiescent => \A p \in DOMAIN plans : plans[p].status # "EXECUTING"

(* Unless a request dies, a plan that verification superseded has a younger  *)
(* plan of its incident to replace it, submitted for approval on its own.    *)
HasSuccessor(p) ==
  \E a \in DOMAIN approvals : /\ approvals[a].plan > p
                              /\ approvals[a].incident = plans[p].incident

SupersededHasSuccessor ==
  Quiescent => \A p \in DOMAIN plans :
                 plans[p].status = "SUPERSEDED" => HasSuccessor(p)

(* Unless a request dies, an incident shown as RESOLVED passed a             *)
(* verification: the dossier reports "Execution verified successfully" for   *)
(* it from its status alone.                                                *)
ResolvedWasVerified ==
  Quiescent => \A i \in Incidents : incidents[i] = "RESOLVED" =>
                 \E p \in DOMAIN plans : Logged("VERIFICATION_PASSED", i, p, 0)

(* When requests do not overlap, the three status columns, written by        *)
(* separate transactions, agree: a RESOLVED incident has a COMPLETED plan     *)
(* and an APPROVED one has an APPROVED approval.                             *)
StatusesAgree ==
  Quiescent => \A i \in Incidents :
    /\ incidents[i] = "RESOLVED" =>
         \E p \in PlansOf(i) : plans[p].status = "COMPLETED"
    /\ incidents[i] = "APPROVED" =>
         \E a \in DOMAIN approvals : /\ approvals[a].incident = i
                                     /\ approvals[a].status = "APPROVED"

(* A verification that failed is always followed up: the superseded plan     *)
(* eventually has a successor before a human.                               *)
FailureReachesHuman ==
  \A p \in 1..MaxPlans :
    (p \in DOMAIN plans /\ plans[p].status = "SUPERSEDED")
      ~> (p \in DOMAIN plans /\ HasSuccessor(p))

-----------------------------------------------------------------------------
(* The workflow implements the approval gate: a granted approval authorises *)
(* its plan, an order of the workflow is placed for the plan it names.       *)

AuthorisedPlans == {approvals[a].plan : a \in granted}
PlacedOrders ==
  {<<o, orders[o].plan>> : o \in {n \in DOMAIN orders : orders[n].plan # 0}}

Gate == INSTANCE ApprovalGate WITH authorised <- AuthorisedPlans,
                                   placed     <- PlacedOrders

(* No order is placed but for a plan authorised before, none disappears and  *)
(* none changes its plan, in any interleaving and across crashes.            *)
ImplementsGate == Gate!Spec
=============================================================================
