--------------------------- MODULE RecoveryProofs ---------------------------
(***************************************************************************)
(* Proofs about RecoveryWorkflow, for every number of incidents, suppliers, *)
(* handlers, requests and plans.                                            *)
(***************************************************************************)
EXTENDS RecoveryWorkflow, SequenceTheorems, TLAPS

(* What appending a row does to a table. *)
LEMMA AppendRow ==
  ASSUME NEW S, NEW t \in Seq(S), NEW r \in S
  PROVE  /\ Append(t, r) \in Seq(S)
         /\ DOMAIN t = 1..Len(t)
         /\ Len(t) \in Nat
         /\ DOMAIN Append(t, r) = 1..(Len(t) + 1)
         /\ \A i \in DOMAIN t : Append(t, r)[i] = t[i]
         /\ Append(t, r)[Len(t) + 1] = r
BY AppendProperties, LenProperties

(* What updating the status column of a row does to a table. *)
LEMMA UpdatePlanRow ==
  ASSUME NEW t \in Seq(Plan), NEW i \in DOMAIN t, NEW s \in PlanStatus
  PROVE  LET u == [t EXCEPT ![i].status = s]
         IN  /\ u \in Seq(Plan)
             /\ DOMAIN u = DOMAIN t
             /\ \A j \in DOMAIN t : /\ u[j].incident = t[j].incident
                                    /\ u[j].contents = t[j].contents
<1>1. /\ Len(t) \in Nat
      /\ t \in [1..Len(t) -> Plan]
      /\ DOMAIN t = 1..Len(t)
  BY LenProperties
<1> DEFINE r == [t[i] EXCEPT !.status = s]
<1>2. r \in Plan /\ r.incident = t[i].incident /\ r.contents = t[i].contents
  BY <1>1 DEF Plan
<1>3. [t EXCEPT ![i] = r] \in Seq(Plan)
  BY <1>1, <1>2, ExceptSeq
<1>4. QED
  BY <1>1, <1>2, <1>3

LEMMA UpdateApprovalRow ==
  ASSUME NEW t \in Seq(Approval), NEW i \in DOMAIN t, NEW s \in ApprovalStatus
  PROVE  LET u == [t EXCEPT ![i].status = s]
         IN  /\ u \in Seq(Approval)
             /\ DOMAIN u = DOMAIN t
             /\ \A j \in DOMAIN t : /\ u[j].incident = t[j].incident
                                    /\ u[j].plan = t[j].plan
<1>1. /\ Len(t) \in Nat
      /\ t \in [1..Len(t) -> Approval]
      /\ DOMAIN t = 1..Len(t)
  BY LenProperties
<1> DEFINE r == [t[i] EXCEPT !.status = s]
<1>2. r \in Approval /\ r.incident = t[i].incident /\ r.plan = t[i].plan
  BY <1>1 DEF Approval
<1>3. [t EXCEPT ![i] = r] \in Seq(Approval)
  BY <1>1, <1>2, ExceptSeq
<1>4. QED
  BY <1>1, <1>2, <1>3

-----------------------------------------------------------------------------
(* The inductive invariant *)

(* The labels of a handler, those at which it loads a page of ControlTower   *)
(* among them: the invariant and its lemmas then speak of both modules.      *)
AnyLabel ==
  Labels \cup {"load_plans", "load_again", "load_approval", "show_inserted"}

TablesOK ==
  /\ incidents \in [Incidents -> IncidentStatus]
  /\ plans \in Seq(Plan)
  /\ approvals \in Seq(Approval)
  /\ orders \in Seq(Order)
  /\ audit \subseteq AuditEvent
  /\ granted \subseteq DOMAIN approvals

ControlOK ==
  /\ pc \in [Handlers -> AnyLabel]
  /\ ctx \in [Handlers -> Context]
  /\ started \in 0..MaxRequests

(* Labels at which a handler works on a plan it has found in the table. *)
WithPlan ==
  Labels \ {"idle", "replan_incident", "replan_plan", "replan_approval",
            "replan_audit", "exec_done"}

(* Labels at which a handler works on an approval it found or created. *)
Deciding == {"decide", "mark_incident", "audit_decision"}

(* Labels between execute_plan's check of the approval and the order. *)
Executing == {"exec_audit", "exec_begin", "exec_order"}

(* What a running handler may rely on. *)
HandlerOK(h) ==
  /\ pc[h] # "idle" => ctx[h].incident \in Incidents
  /\ pc[h] \in WithPlan => ctx[h].plan \in DOMAIN plans
  /\ pc[h] = "replan_approval" => ctx[h].revised \in DOMAIN plans
  /\ pc[h] = "insert_ondemand" => ctx[h].decision # None
  /\ pc[h] \in Deciding => /\ ctx[h].approval \in DOMAIN approvals
                           /\ ctx[h].decision # None
  /\ pc[h] \in Executing => /\ ctx[h].approval \in granted
                            /\ approvals[ctx[h].approval].plan = ctx[h].plan
                            /\ ctx[h].incident = plans[ctx[h].plan].incident
  /\ pc[h] \in {"exec_begin", "exec_order"} =>
       Logged("EXECUTION_STARTED", ctx[h].incident, ctx[h].plan, ctx[h].approval)
  /\ pc[h] = "exec_order" => Buys(ctx[h].plan)

(* Foreign key approval_requests.plan_id; an approval that is APPROVED now   *)
(* was granted.                                                             *)
ApprovalsOK ==
  \A a \in DOMAIN approvals :
    /\ approvals[a].plan \in DOMAIN plans
    /\ approvals[a].status = "APPROVED" => a \in granted

OrdersOK ==
  \A o \in DOMAIN orders : orders[o].plan # 0 => orders[o].plan \in DOMAIN plans

IInv ==
  /\ TablesOK
  /\ ControlOK
  /\ ApprovalsOK
  /\ OrdersOK
  /\ OrdersAuthorized
  /\ OrdersAudited
  /\ \A h \in Handlers : HandlerOK(h)

-----------------------------------------------------------------------------
(* How a step relates the states before and after it *)

(* Tables only grow, and the columns the invariant reads never change. *)
Grows ==
  /\ DOMAIN plans \subseteq DOMAIN plans'
  /\ \A p \in DOMAIN plans : /\ plans'[p].incident = plans[p].incident
                             /\ plans'[p].contents = plans[p].contents
  /\ DOMAIN approvals \subseteq DOMAIN approvals'
  /\ \A a \in DOMAIN approvals : approvals'[a].plan = approvals[a].plan
  /\ granted \subseteq granted'
  /\ audit \subseteq audit'

(* Only handler h moves. *)
OnlyMoves(h) ==
  \A g \in Handlers : g # h => pc'[g] = pc[g] /\ ctx'[g] = ctx[g]

LEMMA OtherHandlers ==
  ASSUME TablesOK, Grows, NEW g \in Handlers,
         pc'[g] = pc[g], ctx'[g] = ctx[g], HandlerOK(g)
  PROVE  HandlerOK(g)'
<1>1. granted \subseteq DOMAIN approvals
  BY DEF TablesOK
<1>2. pc[g] \in Executing \cup {"exec_order"} => ctx[g].plan \in DOMAIN plans
  BY DEF HandlerOK, WithPlan, Executing, Labels
<1>3. QED
  BY <1>1, <1>2 DEF HandlerOK, Grows, Executing, Logged, Buys

-----------------------------------------------------------------------------
(* What the helpers of the specification do *)

LEMMA BeginControl ==
  ASSUME ControlOK, WorkflowAssumption, NEW h \in Handlers,
         NEW label \in Labels, NEW c \in Context, Begin(h, label, c)
  PROVE  /\ ControlOK' /\ OnlyMoves(h)
         /\ pc'[h] = label /\ ctx'[h] = c
BY DEF ControlOK, AnyLabel, Begin, OnlyMoves, WorkflowAssumption

LEMMA GotoControl ==
  ASSUME ControlOK, NEW h \in Handlers, NEW from, NEW to \in Labels,
         Goto(h, from, to), ctx' \in [Handlers -> Context],
         \A g \in Handlers : g # h => ctx'[g] = ctx[g]
  PROVE  ControlOK' /\ OnlyMoves(h) /\ pc[h] = from /\ pc'[h] = to
BY DEF ControlOK, AnyLabel, Goto, OnlyMoves

LEMMA NoContextOK == NoContext \in Context
BY DEF NoContext, Context, None, PlanStatus, IncidentStatus

LEMMA FinishControl ==
  ASSUME ControlOK, NEW h \in Handlers, NEW from, Finish(h, from)
  PROVE  ControlOK' /\ OnlyMoves(h) /\ pc[h] = from /\ pc'[h] = "idle"
<1>1. /\ ctx' \in [Handlers -> Context]
      /\ \A g \in Handlers : g # h => ctx'[g] = ctx[g]
  BY NoContextOK DEF ControlOK, Finish
<1>2. "idle" \in Labels
  BY DEF Labels
<1>3. QED
  BY <1>1, <1>2, GotoControl DEF Finish

-----------------------------------------------------------------------------
(* What a write to one table leaves of the invariant.  Preserved is all of   *)
(* it but the control state of the handlers.                                *)

TablesInv ==
  /\ TablesOK /\ ApprovalsOK /\ OrdersOK
  /\ OrdersAuthorized /\ OrdersAudited

Preserved == Grows /\ TablesInv'

LEMMA TablesInvHolds == IInv => TablesInv /\ ControlOK
BY DEF IInv, TablesInv

LEMMA OrdersStillExplained ==
  ASSUME TablesInv, Grows, orders' = orders, TablesOK', ApprovalsOK'
  PROVE  Preserved
<1>1. granted \subseteq DOMAIN approvals
  BY DEF TablesInv, TablesOK
<1>2. OrdersOK' /\ OrdersAuthorized' /\ OrdersAudited'
  BY <1>1 DEF TablesInv, Grows, OrdersOK, OrdersAuthorized, OrdersAudited, Logged
<1>3. QED
  BY <1>2 DEF Preserved, TablesInv

LEMMA NothingWritten ==
  ASSUME TablesInv, UNCHANGED db
  PROVE  Preserved
BY DEF Preserved, TablesInv, db, Grows, TablesOK, ApprovalsOK, OrdersOK,
       OrdersAuthorized, OrdersAudited, Logged

LEMMA LogWritten ==
  ASSUME TablesInv, NEW e \in Events, NEW i \in Incidents,
         NEW p \in Nat, NEW a \in Nat, Log(e, i, p, a),
         UNCHANGED <<incidents, plans, approvals, orders, granted>>
  PROVE  Preserved
<1>1. Grows /\ TablesOK' /\ ApprovalsOK'
  BY DEF TablesInv, Grows, TablesOK, ApprovalsOK, Log, AuditEvent
<1>2. QED
  BY <1>1, OrdersStillExplained

LEMMA PlanWritten ==
  ASSUME TablesInv, NEW i \in Incidents, NEW c \in Contents, NewPlan(i, c),
         UNCHANGED <<incidents, approvals, orders, audit, granted>>
  PROVE  Preserved /\ Len(plans) + 1 \in DOMAIN plans' /\ Len(plans) + 1 \in Nat
<1> DEFINE r == [incident |-> i, contents |-> c, status |-> "PROPOSED"]
<1>1. r \in Plan /\ plans \in Seq(Plan) /\ plans' = Append(plans, r)
  BY DEF Plan, PlanStatus, TablesInv, TablesOK, NewPlan
<1>2. /\ plans' \in Seq(Plan)
      /\ DOMAIN plans \subseteq DOMAIN plans'
      /\ \A p \in DOMAIN plans : plans'[p] = plans[p]
      /\ Len(plans) + 1 \in DOMAIN plans' /\ Len(plans) + 1 \in Nat
  BY <1>1, AppendRow
<1>3. Grows /\ TablesOK' /\ ApprovalsOK'
  BY <1>2 DEF TablesInv, Grows, TablesOK, ApprovalsOK
<1>4. QED
  BY <1>2, <1>3, OrdersStillExplained

LEMMA ApprovalWritten ==
  ASSUME TablesInv, NEW p \in DOMAIN plans, NewApproval(p),
         UNCHANGED <<incidents, plans, orders, audit, granted>>
  PROVE  /\ Preserved
         /\ Len(approvals) + 1 \in DOMAIN approvals' /\ Len(approvals) + 1 \in Nat
<1> DEFINE r == [incident |-> plans[p].incident, plan |-> p, status |-> "PENDING"]
<1>1. /\ plans \in Seq(Plan) /\ plans[p] \in Plan /\ p \in Nat
  BY ElementOfSeq, LenProperties DEF TablesInv, TablesOK
<1>2. /\ r \in Approval /\ approvals \in Seq(Approval)
      /\ approvals' = Append(approvals, r)
  BY <1>1 DEF Approval, ApprovalStatus, Plan, TablesInv, TablesOK, NewApproval
<1>3. /\ approvals' \in Seq(Approval)
      /\ DOMAIN approvals \subseteq DOMAIN approvals'
      /\ \A a \in DOMAIN approvals : approvals'[a] = approvals[a]
      /\ Len(approvals) + 1 \in DOMAIN approvals' /\ Len(approvals) + 1 \in Nat
      /\ DOMAIN approvals' = DOMAIN approvals \cup {Len(approvals) + 1}
      /\ approvals'[Len(approvals) + 1] = r
  BY <1>2, AppendRow
<1>4. Grows /\ TablesOK'
  BY <1>3 DEF TablesInv, Grows, TablesOK
<1>5. ApprovalsOK'
  BY <1>3 DEF TablesInv, ApprovalsOK
<1>6. QED
  BY <1>3, <1>4, <1>5, OrdersStillExplained

LEMMA PlanStatusWritten ==
  ASSUME TablesInv, ControlOK, NEW h \in Handlers, NEW s \in PlanStatus,
         ctx[h].plan \in DOMAIN plans, SetPlanStatus(h, s),
         UNCHANGED <<incidents, approvals, orders, audit, granted>>
  PROVE  /\ Preserved
         /\ ctx' \in [Handlers -> Context]
         /\ \A g \in Handlers : g # h => ctx'[g] = ctx[g]
         /\ ctx'[h] = [ctx[h] EXCEPT !.planSeen = s]
<1>1. CASE plans' = plans
  BY <1>1, NothingWritten DEF db, ControlOK, SetPlanStatus, Context
<1>2. CASE plans' = [plans EXCEPT ![ctx[h].plan].status = s]
  <2>1. plans \in Seq(Plan)
    BY DEF TablesInv, TablesOK
  <2>2. /\ plans' \in Seq(Plan) /\ DOMAIN plans' = DOMAIN plans
        /\ \A j \in DOMAIN plans : /\ plans'[j].incident = plans[j].incident
                                   /\ plans'[j].contents = plans[j].contents
    BY <1>2, <2>1, UpdatePlanRow
  <2>3. Grows /\ TablesOK' /\ ApprovalsOK'
    BY <2>2 DEF TablesInv, Grows, TablesOK, ApprovalsOK
  <2>4. Preserved
    BY <2>3, OrdersStillExplained
  <2>5. QED
    BY <2>4 DEF ControlOK, SetPlanStatus, Context
<1>3. QED
  BY <1>1, <1>2 DEF SetPlanStatus

LEMMA IncidentStatusWritten ==
  ASSUME TablesInv, ControlOK, NEW h \in Handlers, NEW s \in IncidentStatus,
         SetIncidentStatus(h, s),
         UNCHANGED <<plans, approvals, orders, audit, granted>>
  PROVE  /\ Preserved
         /\ ctx' \in [Handlers -> Context]
         /\ \A g \in Handlers : g # h => ctx'[g] = ctx[g]
         /\ ctx'[h] = [ctx[h] EXCEPT !.incidentSeen = s]
<1>1. Grows /\ TablesOK' /\ ApprovalsOK'
  BY DEF TablesInv, Grows, TablesOK, ApprovalsOK, SetIncidentStatus
<1>2. Preserved
  BY <1>1, OrdersStillExplained
<1>3. QED
  BY <1>2 DEF ControlOK, SetIncidentStatus, Context

LEMMA StepKeepsInvariant ==
  ASSUME IInv, NEW h \in Handlers, Preserved, OnlyMoves(h), ControlOK',
         HandlerOK(h)'
  PROVE  IInv'
<1>1. TablesOK'
  BY DEF Preserved, TablesInv
<1>2. ASSUME NEW g \in Handlers
      PROVE  HandlerOK(g)'
  <2>1. CASE g = h
    BY <2>1
  <2>2. CASE g # h
    BY <2>2, OtherHandlers DEF IInv, OnlyMoves, Preserved
  <2>3. QED
    BY <2>1, <2>2
<1>3. QED
  BY <1>1, <1>2 DEF IInv, Preserved, TablesInv

(* A request that has been answered. *)
LEMMA FinishKeepsInvariant ==
  ASSUME IInv, NEW h \in Handlers, NEW from, Preserved, Finish(h, from)
  PROVE  IInv'
<1>1. ControlOK' /\ OnlyMoves(h) /\ pc'[h] = "idle"
  BY TablesInvHolds, FinishControl
<1>2. HandlerOK(h)'
  BY <1>1 DEF HandlerOK, WithPlan, Deciding, Executing
<1>3. QED
  BY <1>1, <1>2, StepKeepsInvariant

(* A request that goes on to a label where nothing but its plan and its      *)
(* incident matters.                                                        *)
LEMMA GotoKeepsInvariant ==
  ASSUME IInv, NEW h \in Handlers, Preserved,
         NEW from \in Labels \ {"idle"},
         NEW to \in Labels \ (Deciding \cup Executing \cup
                                {"idle", "insert_ondemand", "replan_approval"}),
         to \in WithPlan => from \in WithPlan,
         Goto(h, from, to),
         ctx' \in [Handlers -> Context],
         \A g \in Handlers : g # h => ctx'[g] = ctx[g],
         ctx'[h].plan = ctx[h].plan, ctx'[h].incident = ctx[h].incident
  PROVE  IInv'
<1>1. ControlOK' /\ OnlyMoves(h) /\ pc[h] = from /\ pc'[h] = to
  BY TablesInvHolds, GotoControl
<1>2. HandlerOK(h) /\ DOMAIN plans \subseteq DOMAIN plans'
  BY DEF IInv, Preserved, Grows
<1>3. HandlerOK(h)'
  BY <1>1, <1>2 DEF HandlerOK, Executing, Deciding
<1>4. QED
  BY <1>1, <1>3, StepKeepsInvariant

(* A request that begins. *)
LEMMA BeginKeepsInvariant ==
  ASSUME IInv, WorkflowAssumption, NEW h \in Handlers, Preserved,
         NEW label \in Labels, NEW c \in Context, Begin(h, label, c),
         HandlerOK(h)'
  PROVE  IInv'
BY TablesInvHolds, BeginControl, StepKeepsInvariant

(* The rows a request finds. *)
LEMMA RowsFound ==
  ASSUME IInv
  PROVE  /\ \A p \in DOMAIN plans : /\ p \in Nat
                                    /\ plans[p].incident \in Incidents
                                    /\ plans[p].contents \in Contents
                                    /\ plans[p].status \in PlanStatus
         /\ \A a \in DOMAIN approvals : /\ a \in Nat
                                        /\ approvals[a].incident \in Incidents
                                        /\ approvals[a].plan \in DOMAIN plans
         /\ \A i \in Incidents : incidents[i] \in IncidentStatus
<1>1. /\ plans \in Seq(Plan) /\ approvals \in Seq(Approval)
      /\ incidents \in [Incidents -> IncidentStatus]
  BY DEF IInv, TablesOK
<1>2. \A p \in DOMAIN plans : p \in Nat /\ plans[p] \in Plan
  BY <1>1, ElementOfSeq, LenProperties
<1>3. \A a \in DOMAIN approvals : a \in Nat /\ approvals[a] \in Approval
  BY <1>1, ElementOfSeq, LenProperties
<1>4. QED
  BY <1>1, <1>2, <1>3 DEF IInv, ApprovalsOK, Plan, Approval

-----------------------------------------------------------------------------
(* The requests keep the invariant *)

LEMMA RecommendPlansKeeps ==
  ASSUME IInv, WorkflowAssumption, NEW h \in Handlers, NEW i \in Incidents,
         RecommendPlans(h, i)
  PROVE  IInv'
<1> DEFINE c == [NoContext EXCEPT !.plan = Len(plans) + 1, !.incident = i]
<1>1. Begin(h, "suggest", c)
  BY DEF RecommendPlans
<1>2. /\ Preserved /\ Len(plans) + 1 \in DOMAIN plans'
      /\ Len(plans) + 1 \in Nat
  BY TablesInvHolds, PlanWritten DEF RecommendPlans
<1>3. c \in Context /\ c.plan = Len(plans) + 1 /\ c.incident = i
  BY <1>2, NoContextOK DEF Context, NoContext
<1>4. pc'[h] = "suggest" /\ ctx'[h] = c
  BY <1>1, <1>3, TablesInvHolds, BeginControl DEF Labels
<1>5. HandlerOK(h)'
  BY <1>2, <1>3, <1>4 DEF HandlerOK, Deciding, Executing
<1>6. QED
  BY <1>1, <1>2, <1>3, <1>5, BeginKeepsInvariant DEF Labels

(* The requests that read, and write nothing yet. *)
LEMMA ReadKeepsInvariant ==
  ASSUME IInv, WorkflowAssumption, NEW h \in Handlers, UNCHANGED db,
         NEW label \in {"insert_requested", "insert_dossier", "insert_ondemand",
                        "decide", "exec_audit", "verify"},
         NEW c \in Context, Begin(h, label, c),
         c.plan \in DOMAIN plans, c.incident \in Incidents,
         label \in {"insert_ondemand", "decide"} => c.decision # None,
         label = "decide" => c.approval \in DOMAIN approvals,
         label = "exec_audit" => /\ c.approval \in granted
                                 /\ approvals[c.approval].plan = c.plan
                                 /\ c.incident = plans[c.plan].incident
  PROVE  IInv'
<1>1. Preserved
  BY TablesInvHolds, NothingWritten
<1>2. label \in Labels
  BY DEF Labels
<1>3. pc'[h] = label /\ ctx'[h] = c
  BY <1>2, TablesInvHolds, BeginControl
<1>4. plans' = plans /\ approvals' = approvals /\ granted' = granted
  BY DEF db
<1>5. HandlerOK(h)'
  BY <1>3, <1>4 DEF HandlerOK, Deciding, Executing
<1>6. QED
  BY <1>1, <1>2, <1>5, BeginKeepsInvariant

LEMMA RequestApprovalKeeps ==
  ASSUME IInv, WorkflowAssumption, NEW h \in Handlers, NEW p \in DOMAIN plans,
         RequestApproval(h, p) \/ OpenDossier(h, p)
  PROVE  IInv'
<1> DEFINE c == [NoContext EXCEPT !.plan = p, !.incident = plans[p].incident]
<1>1. c \in Context /\ c.plan = p /\ c.incident = plans[p].incident
  BY RowsFound, NoContextOK DEF Context, NoContext
<1>2. plans[p].incident \in Incidents
  BY RowsFound
<1>3. /\ Begin(h, "insert_requested", c) \/ Begin(h, "insert_dossier", c)
      /\ UNCHANGED db
  BY DEF RequestApproval, OpenDossier
<1>4. QED
  BY <1>1, <1>2, <1>3, ReadKeepsInvariant

LEMMA DecideApprovalKeeps ==
  ASSUME IInv, WorkflowAssumption, NEW h \in Handlers,
         NEW a \in DOMAIN approvals, NEW d \in {"APPROVED", "REJECTED"},
         DecideApproval(h, a, d)
  PROVE  IInv'
<1> DEFINE c == [NoContext EXCEPT !.approval = a, !.decision = d,
                                  !.plan = approvals[a].plan,
                                  !.incident = approvals[a].incident]
<1>1. /\ c \in Context /\ c.plan = approvals[a].plan /\ c.approval = a
      /\ c.incident = approvals[a].incident /\ c.decision = d
  BY RowsFound, NoContextOK DEF Context, NoContext
<1>2. d # None
  BY DEF None
<1>3. /\ approvals[a].plan \in DOMAIN plans
      /\ approvals[a].incident \in Incidents
  BY RowsFound
<1>4. Begin(h, "decide", c) /\ UNCHANGED db
  BY DEF DecideApproval
<1>5. QED
  BY <1>1, <1>2, <1>3, <1>4, ReadKeepsInvariant

LEMMA DecideOnDemandKeeps ==
  ASSUME IInv, WorkflowAssumption, NEW h \in Handlers,
         NEW p \in DOMAIN plans, NEW d \in {"APPROVED", "REJECTED"},
         DecideOnDemand(h, p, d)
  PROVE  IInv'
<1> DEFINE i == plans[p].incident
           c == [NoContext EXCEPT !.plan = p, !.decision = d, !.incident = i,
                                  !.incidentSeen = incidents[i]]
<1>1. i \in Incidents /\ incidents[i] \in IncidentStatus /\ p \in Nat
  BY RowsFound
<1>2. c \in Context /\ c.plan = p /\ c.incident = i /\ c.decision = d
  BY <1>1, NoContextOK DEF Context, NoContext
<1>3. d # None
  BY DEF None
<1>4. Begin(h, "insert_ondemand", c) /\ UNCHANGED db
  BY DEF DecideOnDemand
<1>5. QED
  BY <1>1, <1>2, <1>3, <1>4, ReadKeepsInvariant

LEMMA ExecutePlanKeeps ==
  ASSUME IInv, WorkflowAssumption, NEW h \in Handlers,
         NEW p \in DOMAIN plans, NEW a \in DOMAIN approvals,
         ExecutePlan(h, p, a)
  PROVE  IInv'
<1> DEFINE c == [NoContext EXCEPT !.plan = p, !.approval = a,
                                  !.incident = plans[p].incident,
                                  !.planSeen = plans[p].status]
<1>1. /\ plans[p].incident \in Incidents /\ plans[p].status \in PlanStatus
      /\ p \in Nat /\ a \in Nat
  BY RowsFound
<1>2. /\ c \in Context /\ c.plan = p /\ c.approval = a
      /\ c.incident = plans[p].incident
  BY <1>1, NoContextOK DEF Context, NoContext
<1>3. a \in granted /\ approvals[a].plan = p
  BY DEF IInv, ApprovalsOK, ExecutePlan
<1>4. Begin(h, "exec_audit", c) /\ UNCHANGED db
  BY DEF ExecutePlan
<1>5. QED
  BY <1>1, <1>2, <1>3, <1>4, ReadKeepsInvariant

LEMMA VerifyPlanKeeps ==
  ASSUME IInv, WorkflowAssumption, NEW h \in Handlers,
         NEW p \in DOMAIN plans, VerifyPlan(h, p)
  PROVE  IInv'
<1> DEFINE i == plans[p].incident
           c == [NoContext EXCEPT !.plan = p, !.incident = i,
                                  !.planSeen = plans[p].status]
<1>1. i \in Incidents /\ plans[p].status \in PlanStatus /\ p \in Nat
  BY RowsFound
<1>2. c \in Context /\ c.plan = p /\ c.incident = i
  BY <1>1, NoContextOK DEF Context, NoContext
<1>3. Begin(h, "verify", c) /\ UNCHANGED db
  BY DEF VerifyPlan
<1>4. QED
  BY <1>1, <1>2, <1>3, ReadKeepsInvariant

LEMMA HandleAssumptionFailureKeeps ==
  ASSUME IInv, WorkflowAssumption, NEW h \in Handlers, NEW i \in Incidents,
         HandleAssumptionFailure(h, i)
  PROVE  IInv'
<1> DEFINE c == [NoContext EXCEPT !.incident = i]
<1>1. Preserved
  BY TablesInvHolds, LogWritten DEF HandleAssumptionFailure, Events
<1>2. c \in Context /\ c.incident = i
  BY NoContextOK DEF Context, NoContext
<1>3. Begin(h, "replan_incident", c)
  BY DEF HandleAssumptionFailure
<1>4. pc'[h] = "replan_incident" /\ ctx'[h] = c
  BY <1>2, <1>3, TablesInvHolds, BeginControl DEF Labels
<1>5. HandlerOK(h)'
  BY <1>2, <1>4 DEF HandlerOK, WithPlan, Deciding, Executing
<1>6. QED
  BY <1>1, <1>2, <1>3, <1>5, BeginKeepsInvariant DEF Labels

LEMMA RequestKeeps ==
  ASSUME IInv, WorkflowAssumption, NEW h \in Handlers, Request(h)
  PROVE  IInv'
BY RecommendPlansKeeps, RequestApprovalKeeps, DecideApprovalKeeps,
   DecideOnDemandKeeps, ExecutePlanKeeps, VerifyPlanKeeps,
   HandleAssumptionFailureKeeps DEF Request

-----------------------------------------------------------------------------
(* The transactions of a running handler keep the invariant *)

LEMMA Running ==
  ASSUME IInv, NEW h \in Handlers
  PROVE  /\ HandlerOK(h)
         /\ ctx \in [Handlers -> Context] /\ ctx[h] \in Context
         /\ ctx[h].plan \in Nat /\ ctx[h].approval \in Nat
         /\ ctx[h].revised \in Nat
         /\ ctx[h].decision \in {"APPROVED", "REJECTED", None}
         /\ pc[h] # "idle" => ctx[h].incident \in Incidents
         /\ pc[h] \in WithPlan => ctx[h].plan \in DOMAIN plans
BY DEF IInv, ControlOK, Context, HandlerOK

(* A transaction that logs an event and ends the request. *)
LEMMA LogAndFinishKeeps ==
  ASSUME IInv, NEW h \in Handlers,
         AuditRequested(h) \/ AuditDecision(h) \/ AuditExecuted(h)
  PROVE  IInv'
<1>1. pc[h] # "idle"
  BY DEF AuditRequested, AuditDecision, AuditExecuted, Finish, Goto
<1>2. ctx[h].incident \in Incidents /\ ctx[h].plan \in Nat /\ ctx[h].approval \in Nat
  BY <1>1, Running
<1>3. Preserved
  BY <1>2, TablesInvHolds, LogWritten
     DEF AuditRequested, AuditDecision, AuditExecuted, Events
<1>4. PICK from : Finish(h, from)
  BY DEF AuditRequested, AuditDecision, AuditExecuted
<1>5. QED
  BY <1>3, <1>4, FinishKeepsInvariant

(* A transaction that logs an event, after which verification is over. *)
LEMMA LogAndReturnKeeps ==
  ASSUME IInv, NEW h \in Handlers, AuditPass(h) \/ AuditReplan(h)
  PROVE  IInv'
<1>1. pc[h] # "idle"
  BY DEF AuditPass, AuditReplan, Return, Finish, Goto
<1>2. /\ ctx[h].incident \in Incidents /\ ctx[h].plan \in Nat
      /\ ctx[h].revised \in Nat /\ ctx \in [Handlers -> Context]
  BY <1>1, Running
<1>3. Preserved
  BY <1>2, TablesInvHolds, LogWritten DEF AuditPass, AuditReplan, Events
<1>4. PICK from \in {"pass_audit", "replan_audit"} : Return(h, from)
  BY DEF AuditPass, AuditReplan
<1>5. CASE Finish(h, from)
  BY <1>3, <1>5, FinishKeepsInvariant
<1>6. CASE Goto(h, from, "exec_done") /\ UNCHANGED ctx
  <2>1. /\ from \in Labels \ {"idle"}
        /\ "exec_done" \in Labels \ (Deciding \cup Executing \cup
                             {"idle", "insert_ondemand", "replan_approval"})
        /\ "exec_done" \notin WithPlan
    BY DEF Labels, Deciding, Executing, WithPlan
  <2>2. QED
    BY <1>2, <1>3, <1>6, <2>1, GotoKeepsInvariant
<1>7. QED
  BY <1>4, <1>5, <1>6 DEF Return

(* Transactions after which nothing but the plan and the incident matters. *)
LEMMA SuggestAnotherKeeps ==
  ASSUME IInv, NEW h \in Handlers, SuggestAnother(h)
  PROVE  IInv'
<1>1. pc[h] = "suggest"
  BY DEF SuggestAnother, Goto
<1>2. ctx[h].incident \in Incidents /\ ctx \in [Handlers -> Context]
  BY <1>1, Running
<1>3. Preserved
  BY <1>2, TablesInvHolds, PlanWritten DEF SuggestAnother
<1>4. "suggest" \in Labels \ (Deciding \cup Executing \cup
                       {"idle", "insert_ondemand", "replan_approval"})
  BY DEF Labels, Deciding, Executing
<1>5. QED
  BY <1>2, <1>3, <1>4, GotoKeepsInvariant DEF SuggestAnother

LEMMA SubmitFirstKeeps ==
  ASSUME IInv, NEW h \in Handlers, SubmitFirst(h)
  PROVE  IInv'
<1>1. Preserved /\ ctx \in [Handlers -> Context]
  BY TablesInvHolds, NothingWritten, Running DEF SubmitFirst
<1>2. /\ "suggest" \in Labels \ {"idle"}
      /\ "suggest" \in WithPlan
      /\ "insert_requested" \in Labels \ (Deciding \cup Executing \cup
                                  {"idle", "insert_ondemand", "replan_approval"})
  BY DEF Labels, Deciding, Executing, WithPlan
<1>3. CASE Finish(h, "suggest")
  BY <1>1, <1>3, FinishKeepsInvariant
<1>4. CASE Goto(h, "suggest", "insert_requested") /\ UNCHANGED ctx
  BY <1>1, <1>2, <1>4, GotoKeepsInvariant
<1>5. QED
  BY <1>3, <1>4 DEF SubmitFirst

LEMMA InsertRequestedKeeps ==
  ASSUME IInv, NEW h \in Handlers, InsertRequested(h)
  PROVE  IInv'
<1>1. pc[h] = "insert_requested" /\ "insert_requested" \in WithPlan
  BY DEF InsertRequested, Goto, WithPlan, Labels
<1>2. ctx[h].plan \in DOMAIN plans /\ ctx \in [Handlers -> Context]
  BY <1>1, Running
<1>3. Preserved
  BY <1>2, TablesInvHolds, ApprovalWritten DEF InsertRequested
<1>4. /\ "insert_requested" \in Labels \ {"idle"}
      /\ "audit_requested" \in Labels \ (Deciding \cup Executing \cup
                                 {"idle", "insert_ondemand", "replan_approval"})
  BY DEF Labels, Deciding, Executing
<1>5. QED
  BY <1>1, <1>2, <1>3, <1>4, GotoKeepsInvariant DEF InsertRequested

LEMMA InsertDossierKeeps ==
  ASSUME IInv, NEW h \in Handlers, InsertDossier(h)
  PROVE  IInv'
<1>1. pc[h] = "insert_dossier" /\ "insert_dossier" \in WithPlan
  BY DEF InsertDossier, Finish, Goto, WithPlan, Labels
<1>2. ctx[h].plan \in DOMAIN plans
  BY <1>1, Running
<1>3. Preserved
  BY <1>2, TablesInvHolds, ApprovalWritten DEF InsertDossier
<1>4. QED
  BY <1>3, FinishKeepsInvariant DEF InsertDossier

LEMMA InsertRevisedApprovalKeeps ==
  ASSUME IInv, NEW h \in Handlers, InsertRevisedApproval(h)
  PROVE  IInv'
<1>1. ctx[h].revised \in DOMAIN plans /\ ctx \in [Handlers -> Context]
  BY Running DEF HandlerOK, InsertRevisedApproval, Goto
<1>2. Preserved
  BY <1>1, TablesInvHolds, ApprovalWritten DEF InsertRevisedApproval
<1>3. /\ "replan_approval" \in Labels \ {"idle"}
      /\ "replan_audit" \in Labels \ (Deciding \cup Executing \cup
                              {"idle", "insert_ondemand", "replan_approval"})
      /\ "replan_audit" \notin WithPlan
  BY DEF Labels, Deciding, Executing, WithPlan
<1>4. QED
  BY <1>1, <1>2, <1>3, GotoKeepsInvariant DEF InsertRevisedApproval

LEMMA AuditFailKeeps ==
  ASSUME IInv, NEW h \in Handlers, AuditFail(h)
  PROVE  IInv'
<1>1. pc[h] = "fail_audit"
  BY DEF AuditFail, Goto
<1>2. /\ ctx[h].incident \in Incidents /\ ctx[h].plan \in Nat
      /\ ctx \in [Handlers -> Context]
  BY <1>1, Running
<1>3. Preserved
  BY <1>2, TablesInvHolds, LogWritten DEF AuditFail, Events
<1>4. /\ "fail_audit" \in Labels \ {"idle"}
      /\ "replan_incident" \in Labels \ (Deciding \cup Executing \cup
                                 {"idle", "insert_ondemand", "replan_approval"})
      /\ "replan_incident" \notin WithPlan
  BY DEF Labels, Deciding, Executing, WithPlan
<1>5. QED
  BY <1>2, <1>3, <1>4, GotoKeepsInvariant DEF AuditFail

LEMMA VerifyExecutionKeeps ==
  ASSUME IInv, NEW h \in Handlers, VerifyExecution(h)
  PROVE  IInv'
<1> DEFINE s == incidents[ctx[h].incident]
<1>1. PICK to \in {"pass_incident", "fail_plan"} : Goto(h, "verify", to)
  BY DEF VerifyExecution
<1>2. /\ Preserved
      /\ ctx' = [ctx EXCEPT ![h].incidentSeen = s]
  BY TablesInvHolds, NothingWritten DEF VerifyExecution
<1>3. /\ ctx[h].incident \in Incidents
      /\ ctx \in [Handlers -> Context] /\ ctx[h] \in Context
  BY <1>1, Running DEF Goto
<1>4. s \in IncidentStatus
  BY <1>3, RowsFound
<1>5. /\ ctx' \in [Handlers -> Context]
      /\ \A g \in Handlers : g # h => ctx'[g] = ctx[g]
      /\ ctx'[h].plan = ctx[h].plan /\ ctx'[h].incident = ctx[h].incident
  BY <1>2, <1>3, <1>4 DEF Context
<1>6. /\ "verify" \in Labels \ {"idle"}
      /\ "verify" \in WithPlan
      /\ to \in Labels \ (Deciding \cup Executing \cup
                    {"idle", "insert_ondemand", "replan_approval"})
  BY DEF Labels, Deciding, Executing, WithPlan
<1>7. QED
  BY <1>1, <1>2, <1>5, <1>6, GotoKeepsInvariant

(* Transactions that write the status of the incident; the last of them is   *)
(* that of replanning, whose context has no plan to speak of.                *)
LEMMA IncidentStatusKeeps ==
  ASSUME IInv, NEW h \in Handlers,
         ResolveIncident(h) \/ PassIncident(h) \/ ReplanIncident(h)
  PROVE  IInv'
<1>1. PICK s \in {"RESOLVED", "REPLANNING"} : SetIncidentStatus(h, s)
  BY DEF ResolveIncident, PassIncident, ReplanIncident
<1>2. /\ Preserved /\ ctx' \in [Handlers -> Context]
      /\ \A g \in Handlers : g # h => ctx'[g] = ctx[g]
      /\ ctx'[h] = [ctx[h] EXCEPT !.incidentSeen = s]
  BY <1>1, TablesInvHolds, IncidentStatusWritten
     DEF ResolveIncident, PassIncident, ReplanIncident, IncidentStatus
<1>3. ctx'[h].plan = ctx[h].plan /\ ctx'[h].incident = ctx[h].incident
  BY <1>2, Running DEF Context
<1>4. PICK from \in {"exec_resolve", "pass_incident", "replan_incident"},
           to \in {"verify", "pass_plan", "replan_plan"} :
        /\ Goto(h, from, to)
        /\ from = "replan_incident" => to = "replan_plan"
  BY DEF ResolveIncident, PassIncident, ReplanIncident
<1>5. /\ from \in Labels \ {"idle"}
      /\ to \in Labels \ (Deciding \cup Executing \cup
                    {"idle", "insert_ondemand", "replan_approval"})
      /\ to \in WithPlan => from \in WithPlan
  BY <1>4 DEF Labels, Deciding, Executing, WithPlan
<1>6. QED
  BY <1>2, <1>3, <1>4, <1>5, GotoKeepsInvariant

(* Transactions that write the status of the plan. *)
LEMMA PlanStatusKeeps ==
  ASSUME IInv, NEW h \in Handlers,
         CompletePlan(h) \/ PassPlan(h) \/ FailPlan(h)
  PROVE  IInv'
<1>1. PICK s \in {"COMPLETED", "SUPERSEDED"} : SetPlanStatus(h, s)
  BY DEF CompletePlan, PassPlan, FailPlan
<1>2. PICK from \in {"exec_complete", "pass_plan", "fail_plan"},
           to \in {"exec_resolve", "pass_audit", "fail_audit"} : Goto(h, from, to)
  BY DEF CompletePlan, PassPlan, FailPlan
<1>3. /\ from \in Labels \ {"idle"}
      /\ to \in Labels \ (Deciding \cup Executing \cup
                    {"idle", "insert_ondemand", "replan_approval"})
      /\ from \in WithPlan /\ s \in PlanStatus
  BY DEF Labels, Deciding, Executing, WithPlan, PlanStatus
<1>4. ctx[h].plan \in DOMAIN plans
  BY <1>2, <1>3, Running DEF Goto
<1>5. UNCHANGED <<incidents, approvals, orders, audit, granted>>
  BY DEF CompletePlan, PassPlan, FailPlan
<1>6. /\ Preserved /\ ctx' \in [Handlers -> Context]
      /\ \A g \in Handlers : g # h => ctx'[g] = ctx[g]
      /\ ctx'[h] = [ctx[h] EXCEPT !.planSeen = s]
  BY <1>1, <1>3, <1>4, <1>5, TablesInvHolds, PlanStatusWritten
<1>7. ctx'[h].plan = ctx[h].plan /\ ctx'[h].incident = ctx[h].incident
  BY <1>6, Running DEF Context
<1>8. QED
  BY <1>2, <1>3, <1>6, <1>7, GotoKeepsInvariant

LEMMA InsertRevisedPlanKeeps ==
  ASSUME IInv, NEW h \in Handlers, InsertRevisedPlan(h)
  PROVE  IInv'
<1>1. Goto(h, "replan_plan", "replan_approval")
  BY DEF InsertRevisedPlan
<1>2. ctx[h].incident \in Incidents
  BY <1>1, Running DEF Goto
<1>3. /\ Preserved /\ Len(plans) + 1 \in DOMAIN plans'
      /\ Len(plans) + 1 \in Nat
  BY <1>2, TablesInvHolds, PlanWritten DEF InsertRevisedPlan
<1>4. /\ ctx' \in [Handlers -> Context]
      /\ \A g \in Handlers : g # h => ctx'[g] = ctx[g]
      /\ ctx'[h].revised = Len(plans) + 1
      /\ ctx'[h].incident = ctx[h].incident
  BY <1>3, Running DEF InsertRevisedPlan, Context
<1>5. ControlOK' /\ OnlyMoves(h) /\ pc'[h] = "replan_approval"
  BY <1>1, <1>4, TablesInvHolds, GotoControl DEF Labels
<1>6. HandlerOK(h)'
  BY <1>2, <1>3, <1>4, <1>5 DEF HandlerOK, WithPlan, Deciding, Executing
<1>7. QED
  BY <1>3, <1>5, <1>6, StepKeepsInvariant

-----------------------------------------------------------------------------
(* The transactions of a decision *)

LEMMA InsertOnDemandKeeps ==
  ASSUME IInv, NEW h \in Handlers, InsertOnDemand(h)
  PROVE  IInv'
<1>1. Goto(h, "insert_ondemand", "decide")
  BY DEF InsertOnDemand
<1>2. /\ ctx[h].incident \in Incidents /\ ctx[h].plan \in DOMAIN plans
      /\ ctx[h].decision # None
  BY <1>1, Running DEF Goto, HandlerOK, WithPlan, Labels
<1>3. /\ Preserved
      /\ Len(approvals) + 1 \in DOMAIN approvals' /\ Len(approvals) + 1 \in Nat
  BY <1>2, TablesInvHolds, ApprovalWritten DEF InsertOnDemand
<1>4. /\ ctx' \in [Handlers -> Context]
      /\ \A g \in Handlers : g # h => ctx'[g] = ctx[g]
      /\ ctx'[h] = [ctx[h] EXCEPT !.approval = Len(approvals) + 1]
  BY ZenonT(30), <1>3, Running DEF InsertOnDemand, Context
<1>5. /\ ctx'[h].approval = Len(approvals) + 1
      /\ ctx'[h].incident = ctx[h].incident
      /\ ctx'[h].plan = ctx[h].plan /\ ctx'[h].decision = ctx[h].decision
  BY <1>4, Running DEF Context
<1>6. ControlOK' /\ OnlyMoves(h) /\ pc'[h] = "decide"
  BY <1>1, <1>4, TablesInvHolds, GotoControl DEF Labels
<1>7. DOMAIN plans \subseteq DOMAIN plans'
  BY <1>3 DEF Preserved, Grows
<1>8. HandlerOK(h)'
  BY <1>2, <1>3, <1>5, <1>6, <1>7 DEF HandlerOK, Deciding, Executing
<1>9. QED
  BY <1>3, <1>6, <1>8, StepKeepsInvariant

LEMMA WriteDecisionKeeps ==
  ASSUME IInv, NEW h \in Handlers, WriteDecision(h)
  PROVE  IInv'
<1> DEFINE a == ctx[h].approval
           d == ctx[h].decision
<1>1. /\ Goto(h, "decide", "mark_incident")
      /\ approvals' = [approvals EXCEPT ![a].status = d]
      /\ granted' = granted \cup {x \in {a} : d = "APPROVED"}
      /\ UNCHANGED <<incidents, plans, orders, audit, ctx>>
  BY DEF WriteDecision
<1>2. /\ a \in DOMAIN approvals /\ d \in ApprovalStatus /\ d # None
      /\ ctx[h].incident \in Incidents /\ ctx[h].plan \in DOMAIN plans
      /\ ctx \in [Handlers -> Context]
  BY <1>1, Running
     DEF Goto, HandlerOK, Deciding, WithPlan, Labels, ApprovalStatus, None
<1>3. approvals \in Seq(Approval)
  BY DEF IInv, TablesOK
<1>4. /\ approvals' \in Seq(Approval) /\ DOMAIN approvals' = DOMAIN approvals
      /\ \A j \in DOMAIN approvals : approvals'[j].plan = approvals[j].plan
  BY <1>1, <1>2, <1>3, UpdateApprovalRow
<1>5. /\ \A j \in DOMAIN approvals : j # a => approvals'[j] = approvals[j]
      /\ approvals'[a].status = d
  <2>1. /\ approvals \in [1..Len(approvals) -> Approval]
        /\ DOMAIN approvals = 1..Len(approvals)
        /\ approvals[a] \in Approval
    BY <1>2, <1>3, LenProperties
  <2>2. [approvals[a] EXCEPT !.status = d].status = d
    BY <2>1 DEF Approval
  <2>3. QED
    BY <1>1, <1>2, <2>1, <2>2
<1>6. Grows /\ TablesOK'
  BY <1>1, <1>2, <1>4 DEF IInv, Grows, TablesOK
<1>7. ApprovalsOK'
  <2>1. SUFFICES ASSUME NEW j \in DOMAIN approvals
                 PROVE  /\ approvals'[j].plan \in DOMAIN plans
                        /\ approvals'[j].status = "APPROVED" => j \in granted'
    BY <1>1, <1>4 DEF ApprovalsOK
  <2>2. approvals'[j].plan \in DOMAIN plans
    BY <1>4 DEF IInv, ApprovalsOK
  <2>3. approvals'[j].status = "APPROVED" => j \in granted'
    BY <1>1, <1>5 DEF IInv, ApprovalsOK
  <2>4. QED
    BY <2>2, <2>3
<1>8. Preserved
  BY <1>1, <1>6, <1>7, TablesInvHolds, OrdersStillExplained
<1>9. ControlOK' /\ OnlyMoves(h) /\ pc'[h] = "mark_incident"
  BY <1>1, <1>2, TablesInvHolds, GotoControl DEF Labels
<1>10. HandlerOK(h)'
  BY <1>1, <1>2, <1>4, <1>9 DEF HandlerOK, Deciding, Executing
<1>11. QED
  BY <1>8, <1>9, <1>10, StepKeepsInvariant

LEMMA MarkIncidentKeeps ==
  ASSUME IInv, NEW h \in Handlers, MarkIncident(h)
  PROVE  IInv'
<1>1. Goto(h, "mark_incident", "audit_decision")
  BY DEF MarkIncident
<1>2. PICK s \in {"APPROVED", "REPLANNING"} : SetIncidentStatus(h, s)
  BY DEF MarkIncident
<1>3. /\ Preserved /\ ctx' \in [Handlers -> Context]
      /\ \A g \in Handlers : g # h => ctx'[g] = ctx[g]
      /\ ctx'[h] = [ctx[h] EXCEPT !.incidentSeen = s]
  BY <1>2, TablesInvHolds, IncidentStatusWritten
     DEF MarkIncident, IncidentStatus
<1>4. /\ ctx'[h].incident = ctx[h].incident /\ ctx'[h].plan = ctx[h].plan
      /\ ctx'[h].approval = ctx[h].approval
      /\ ctx'[h].decision = ctx[h].decision
  BY <1>3, Running DEF Context
<1>5. ControlOK' /\ OnlyMoves(h) /\ pc'[h] = "audit_decision"
  BY <1>1, <1>3, TablesInvHolds, GotoControl DEF Labels
<1>6. /\ ctx[h].incident \in Incidents /\ ctx[h].plan \in DOMAIN plans
      /\ ctx[h].approval \in DOMAIN approvals /\ ctx[h].decision # None
  BY <1>1, Running DEF Goto, HandlerOK, Deciding, WithPlan, Labels
<1>7. UNCHANGED <<plans, approvals>>
  BY DEF MarkIncident
<1>8. HandlerOK(h)'
  BY <1>4, <1>5, <1>6, <1>7 DEF HandlerOK, Deciding, Executing
<1>9. QED
  BY <1>3, <1>5, <1>8, StepKeepsInvariant

-----------------------------------------------------------------------------
(* The transactions of an execution *)

LEMMA AuditExecutionKeeps ==
  ASSUME IInv, NEW h \in Handlers, AuditExecution(h)
  PROVE  IInv'
<1>1. Goto(h, "exec_audit", "exec_begin") /\ ctx' = ctx
  BY DEF AuditExecution
<1>2. /\ ctx[h].incident \in Incidents /\ ctx[h].plan \in DOMAIN plans
      /\ ctx[h].plan \in Nat /\ ctx[h].approval \in Nat
      /\ ctx \in [Handlers -> Context]
  BY <1>1, Running DEF Goto, WithPlan, Labels
<1>3. Preserved
  BY <1>2, TablesInvHolds, LogWritten DEF AuditExecution, Events
<1>4. ControlOK' /\ OnlyMoves(h) /\ pc[h] = "exec_audit" /\ pc'[h] = "exec_begin"
  BY <1>1, <1>2, TablesInvHolds, GotoControl DEF Labels
<1>5. Logged("EXECUTION_STARTED", ctx[h].incident, ctx[h].plan, ctx[h].approval)'
  BY DEF AuditExecution, Log, Logged
<1>6. UNCHANGED <<plans, approvals, granted>>
  BY DEF AuditExecution
<1>7. HandlerOK(h)'
  BY <1>1, <1>2, <1>4, <1>5, <1>6, Running
     DEF HandlerOK, Deciding, Executing, Logged
<1>8. QED
  BY <1>3, <1>4, <1>7, StepKeepsInvariant

LEMMA BeginExecutionKeeps ==
  ASSUME IInv, NEW h \in Handlers, BeginExecution(h)
  PROVE  IInv'
<1> DEFINE to == IF Buys(ctx[h].plan) THEN "exec_order" ELSE "exec_complete"
<1>1. Goto(h, "exec_begin", to) /\ SetPlanStatus(h, "EXECUTING")
  BY DEF BeginExecution
<1>2. UNCHANGED <<incidents, approvals, orders, audit, granted>>
  BY DEF BeginExecution
<1>3. pc[h] = "exec_begin" /\ "exec_begin" \in WithPlan /\ "exec_begin" \in Executing
  BY <1>1 DEF Goto, WithPlan, Labels, Executing
<1>4. ctx[h].plan \in DOMAIN plans /\ HandlerOK(h)
  BY <1>3, Running
<1>5. /\ Preserved /\ ctx' \in [Handlers -> Context]
      /\ \A g \in Handlers : g # h => ctx'[g] = ctx[g]
      /\ ctx'[h] = [ctx[h] EXCEPT !.planSeen = "EXECUTING"]
  BY <1>1, <1>2, <1>4, TablesInvHolds, PlanStatusWritten DEF PlanStatus
<1>6. /\ ctx'[h].incident = ctx[h].incident /\ ctx'[h].plan = ctx[h].plan
      /\ ctx'[h].approval = ctx[h].approval
  BY <1>5, Running DEF Context
<1>7. ControlOK' /\ OnlyMoves(h) /\ pc'[h] = to
  BY <1>1, <1>5, TablesInvHolds, GotoControl DEF Labels
<1>8. /\ ctx[h].plan \in DOMAIN plans'
      /\ plans'[ctx[h].plan].incident = plans[ctx[h].plan].incident
      /\ plans'[ctx[h].plan].contents = plans[ctx[h].plan].contents
  BY <1>4, <1>5 DEF Preserved, Grows
<1>9. to = "exec_order" => Buys(ctx[h].plan)
  OBVIOUS
<1>10. HandlerOK(h)'
  BY <1>2, <1>3, <1>4, <1>6, <1>7, <1>8, <1>9
     DEF HandlerOK, Deciding, Executing, Logged, Buys
<1>11. QED
  BY <1>5, <1>7, <1>10, StepKeepsInvariant

LEMMA PlaceOrderKeeps ==
  ASSUME IInv, WorkflowAssumption, NEW h \in Handlers, PlaceOrder(h)
  PROVE  IInv'
<1> DEFINE p == ctx[h].plan
           r == [plan     |-> p,
                 approval |-> ctx[h].approval,
                 supplier |-> plans[p].contents.supplier,
                 quantity |-> plans[p].contents.quantity]
<1>1. /\ Goto(h, "exec_order", "exec_complete")
      /\ orders' = Append(orders, r)
      /\ Log("PO_CREATED", ctx[h].incident, p, 0)
      /\ UNCHANGED <<incidents, plans, approvals, granted, ctx>>
  BY DEF PlaceOrder
<1>2. /\ pc[h] = "exec_order"
      /\ "exec_order" \in WithPlan /\ "exec_order" \in Executing
  BY <1>1 DEF Goto, WithPlan, Labels, Executing
<1>3. /\ HandlerOK(h) /\ ctx \in [Handlers -> Context]
      /\ ctx[h].incident \in Incidents /\ p \in DOMAIN plans
      /\ p \in Nat /\ ctx[h].approval \in Nat
  BY <1>2, Running
<1>4. /\ ctx[h].approval \in granted
      /\ approvals[ctx[h].approval].plan = p
      /\ ctx[h].incident = plans[p].incident
      /\ Logged("EXECUTION_STARTED", plans[p].incident, p, ctx[h].approval)
      /\ Buys(p)
  BY <1>2, <1>3 DEF HandlerOK
<1>5. plans[p].contents \in Contents
  BY <1>3, RowsFound
<1>6. r \in Order
  BY <1>3, <1>4, <1>5 DEF Order, Contents, Buys, WorkflowAssumption
<1>7. /\ orders \in Seq(Order) /\ orders' \in Seq(Order)
      /\ DOMAIN orders' = DOMAIN orders \cup {Len(orders) + 1}
      /\ \A o \in DOMAIN orders : orders'[o] = orders[o]
      /\ orders'[Len(orders) + 1] = r
  <2>1. orders \in Seq(Order)
    BY DEF IInv, TablesOK
  <2>2. QED
    BY <1>1, <1>6, <2>1, AppendRow
<1>8. Grows
  BY <1>1 DEF Grows, Log
<1>9. TablesOK' /\ ApprovalsOK'
  BY <1>1, <1>3, <1>7
     DEF IInv, TablesOK, ApprovalsOK, Log, AuditEvent, Events
<1>10. OrdersOK'
  BY SMTT(30), <1>1, <1>3, <1>7 DEF IInv, OrdersOK
<1>11. OrdersAuthorized'
  BY <1>1, <1>4, <1>7 DEF IInv, OrdersAuthorized
<1>12. OrdersAudited'
  <2> DEFINE Row(e, q, a) == [event |-> e, incident |-> plans[q].incident,
                              plan |-> q, approval |-> a]
  <2>1. /\ audit \subseteq audit'
        /\ Row("EXECUTION_STARTED", p, ctx[h].approval) \in audit'
        /\ Row("PO_CREATED", p, 0) \in audit'
    BY <1>1, <1>4 DEF Log, Logged
  <2>2. ASSUME NEW o \in DOMAIN orders, orders[o].plan # 0
        PROVE  /\ Row("EXECUTION_STARTED", orders[o].plan, orders[o].approval)
                    \in audit'
               /\ Row("PO_CREATED", orders[o].plan, 0) \in audit'
    BY <2>1, <2>2 DEF IInv, OrdersAudited, Logged
  <2>3. ASSUME NEW o \in DOMAIN orders', orders'[o].plan # 0
        PROVE  /\ Row("EXECUTION_STARTED", orders'[o].plan, orders'[o].approval)
                    \in audit'
               /\ Row("PO_CREATED", orders'[o].plan, 0) \in audit'
    <3>1. CASE o \in DOMAIN orders
      BY <1>7, <2>2, <2>3, <3>1
    <3>2. CASE o = Len(orders) + 1
      <4>1. orders'[o].plan = p /\ orders'[o].approval = ctx[h].approval
        BY <1>7, <3>2
      <4>2. QED
        BY <2>1, <4>1
    <3>3. QED
      BY <1>7, <3>1, <3>2
  <2>4. QED
    BY <1>1, <2>3 DEF OrdersAudited, Logged
<1>13. Preserved
  BY <1>8, <1>9, <1>10, <1>11, <1>12 DEF Preserved, TablesInv
<1>14. /\ "exec_order" \in Labels \ {"idle"}
       /\ "exec_complete" \in Labels \ (Deciding \cup Executing \cup
                                {"idle", "insert_ondemand", "replan_approval"})
  BY DEF Labels, Deciding, Executing
<1>15. QED
  BY <1>1, <1>2, <1>3, <1>13, <1>14, GotoKeepsInvariant

-----------------------------------------------------------------------------
(* The theorems *)

LEMMA StepKeeps ==
  ASSUME IInv, WorkflowAssumption, NEW h \in Handlers, Step(h)
  PROVE  IInv'
BY SuggestAnotherKeeps, SubmitFirstKeeps, InsertRequestedKeeps,
   InsertDossierKeeps, InsertOnDemandKeeps, WriteDecisionKeeps,
   MarkIncidentKeeps, AuditExecutionKeeps, BeginExecutionKeeps,
   PlaceOrderKeeps, PlanStatusKeeps, IncidentStatusKeeps, LogAndFinishKeeps,
   LogAndReturnKeeps, VerifyExecutionKeeps, AuditFailKeeps,
   InsertRevisedPlanKeeps, InsertRevisedApprovalKeeps DEF Step

LEMMA CrashKeeps ==
  ASSUME IInv, NEW h \in Handlers, Crash(h)
  PROVE  IInv'
<1>1. Preserved
  BY TablesInvHolds, NothingWritten DEF Crash
<1>2. Finish(h, pc[h])
  BY DEF Crash, Finish, Goto
<1>3. QED
  BY <1>1, <1>2, FinishKeepsInvariant

LEMMA StutterKeeps ==
  ASSUME IInv, UNCHANGED vars
  PROVE  IInv'
<1>1. Preserved /\ pc' = pc /\ ctx' = ctx /\ started' = started
  BY TablesInvHolds, NothingWritten DEF vars
<1>2. TablesOK' /\ ControlOK'
  BY <1>1 DEF Preserved, TablesInv, ControlOK, IInv
<1>3. \A g \in Handlers : HandlerOK(g)'
  BY <1>1, OtherHandlers DEF IInv, Preserved
<1>4. QED
  BY <1>1, <1>2, <1>3 DEF IInv, Preserved, TablesInv

LEMMA NextKeeps == IInv /\ [Next]_vars => IInv'
<1> SUFFICES ASSUME IInv, [Next]_vars
             PROVE  IInv'
  OBVIOUS
<1>1. ASSUME NEW h \in Handlers, Request(h)
      PROVE  IInv'
  BY <1>1, RequestKeeps, WorkflowAssumption
<1>2. ASSUME NEW h \in Handlers, Step(h)
      PROVE  IInv'
  BY <1>2, StepKeeps, WorkflowAssumption
<1>3. QED
  BY <1>1, <1>2, CrashKeeps, StutterKeeps DEF Next, CrashFreeNext

LEMMA InitOK == Init => IInv
<1> SUFFICES ASSUME Init
             PROVE  IInv
  OBVIOUS
<1> DEFINE NewPlans  == [incident : Incidents, contents : Contents,
                         status : {"PROPOSED"}]
           OldOrders == [plan : {0}, approval : {0}, supplier : Suppliers,
                         quantity : Nat]
<1>1. plans \in Seq(NewPlans) /\ orders \in Seq(OldOrders)
  BY WorkflowAssumption DEF Init, WorkflowAssumption
<1>2. NewPlans \subseteq Plan /\ OldOrders \subseteq Order
  BY DEF Plan, PlanStatus, Order
<1>3. plans \in Seq(Plan) /\ orders \in Seq(Order)
  BY <1>1, <1>2, SeqMonotonic
<1>4. approvals \in Seq(Approval) /\ DOMAIN approvals = {}
  BY DEF Init
<1>5. TablesOK /\ ControlOK
  BY <1>3, <1>4, NoContextOK, WorkflowAssumption
     DEF Init, TablesOK, ControlOK, AnyLabel, IncidentStatus, Labels,
         WorkflowAssumption
<1>6. ASSUME NEW o \in DOMAIN orders
      PROVE  orders[o].plan = 0
  <2>1. orders[o] \in OldOrders
    BY <1>1, ElementOfSeq, LenProperties
  <2>2. QED
    BY <2>1
<1>7. OrdersOK /\ OrdersAuthorized /\ OrdersAudited /\ ApprovalsOK
  BY <1>4, <1>6 DEF OrdersOK, OrdersAuthorized, OrdersAudited, ApprovalsOK
<1>8. \A h \in Handlers : HandlerOK(h)
  BY DEF Init, HandlerOK, WithPlan, Deciding, Executing
<1>9. QED
  BY <1>5, <1>7, <1>8 DEF IInv

(* The invariant holds in every reachable state. *)
THEOREM Invariance == Spec => []IInv
BY InitOK, NextKeeps, PTL DEF Spec

(* A transaction leads to a label of the workflow. *)
LEMMA LabelsKept ==
  ASSUME NEW h \in Handlers,
         Request(h) \/ Step(h) \/ Crash(h)
  PROVE  \E to \in Labels : pc' = [pc EXCEPT ![h] = to]
<1>1. CASE Request(h)
  BY <1>1
     DEF Request, RecommendPlans, RequestApproval, OpenDossier, DecideApproval,
         DecideOnDemand, ExecutePlan, VerifyPlan, HandleAssumptionFailure, Begin,
         Labels
<1>2. CASE Step(h)
  BY SMTT(30), <1>2
     DEF Step, SuggestAnother, SubmitFirst, InsertRequested, AuditRequested,
         InsertDossier, InsertOnDemand, WriteDecision, MarkIncident,
         AuditDecision, AuditExecution, BeginExecution, PlaceOrder,
         CompletePlan, ResolveIncident, AuditExecuted, VerifyExecution,
         PassIncident, PassPlan, AuditPass, FailPlan, AuditFail,
         ReplanIncident, InsertRevisedPlan, InsertRevisedApproval,
         AuditReplan, Finish, Return, Goto, Labels
<1>3. CASE Crash(h)
  BY <1>3 DEF Crash, Labels
<1>4. QED
  BY <1>1, <1>2, <1>3

(* Every reachable state is well typed, whatever requests interleave and die. *)
THEOREM TypeCorrectness == Spec => []TypeOK
<1> DEFINE WorkflowLabels == pc \in [Handlers -> Labels]
<1>1. Init => WorkflowLabels
  BY DEF Init, Labels
<1>2. WorkflowLabels /\ [Next]_vars => WorkflowLabels'
  <2> SUFFICES ASSUME WorkflowLabels, [Next]_vars
               PROVE  WorkflowLabels'
    OBVIOUS
  <2>1. CASE UNCHANGED vars
    BY <2>1 DEF vars
  <2>2. CASE Next
    <3>1. PICK h \in Handlers : Request(h) \/ Step(h) \/ Crash(h)
      BY <2>2 DEF Next, CrashFreeNext
    <3>2. PICK to \in Labels : pc' = [pc EXCEPT ![h] = to]
      BY <3>1, LabelsKept
    <3>3. QED
      BY <3>2
  <2>3. QED
    BY <2>1, <2>2
<1>3. IInv /\ WorkflowLabels => TypeOK
  BY DEF IInv, TablesOK, ControlOK, TypeOK
<1>4. QED
  BY <1>1, <1>2, <1>3, Invariance, PTL DEF Spec

(* Every purchase order the workflow places is for a plan whose approval a   *)
(* human granted, for any number of handlers, requests, incidents and plans. *)
THEOREM Authorization == Spec => []OrdersAuthorized
BY Invariance, PTL DEF IInv

(* Every purchase order the workflow places is explained by the audit trail. *)
THEOREM Accountability == Spec => []OrdersAudited
BY Invariance, PTL DEF IInv

-----------------------------------------------------------------------------
(* The recovery workflow implements the approval gate: every step of          *)
(* RecoveryWorkflow is a step of ApprovalGate, or a stutter.                  *)

(* A step that grants nothing and places nothing: approvals may be inserted. *)
Unrelated ==
  /\ granted' = granted /\ orders' = orders
  /\ approvals' = approvals \/ \E p \in Nat \cup DOMAIN plans : NewApproval(p)

LEMMA StepKinds ==
  ASSUME IInv, [Next]_vars
  PROVE  \/ Unrelated
         \/ \E h \in Handlers : WriteDecision(h) \/ PlaceOrder(h)
<1>1. CASE UNCHANGED vars
  BY <1>1 DEF vars, db, Unrelated
<1>2. ASSUME NEW h \in Handlers, Request(h)
      PROVE  Unrelated
  BY <1>2 DEF Request, RecommendPlans, RequestApproval, OpenDossier,
     DecideApproval, DecideOnDemand, ExecutePlan, VerifyPlan,
     HandleAssumptionFailure, db, Unrelated
<1>3. ASSUME NEW h \in Handlers, Crash(h)
      PROVE  Unrelated
  BY <1>3 DEF Crash, db, Unrelated
<1>4. ASSUME NEW h \in Handlers, Step(h)
      PROVE  Unrelated \/ WriteDecision(h) \/ PlaceOrder(h)
  <2>1. CASE InsertRequested(h) \/ InsertDossier(h) \/ InsertOnDemand(h)
    BY <2>1, Running DEF InsertRequested, InsertDossier, InsertOnDemand, Unrelated
  <2>2. CASE InsertRevisedApproval(h)
    BY <2>2, Running DEF InsertRevisedApproval, Unrelated
  <2>3. CASE \/ SuggestAnother(h) \/ SubmitFirst(h) \/ AuditRequested(h)
             \/ MarkIncident(h) \/ AuditDecision(h) \/ AuditExecution(h)
             \/ BeginExecution(h) \/ CompletePlan(h) \/ ResolveIncident(h)
             \/ AuditExecuted(h)
    BY <2>3 DEF SuggestAnother, SubmitFirst, AuditRequested, MarkIncident,
       AuditDecision, AuditExecution, BeginExecution, CompletePlan,
       ResolveIncident, AuditExecuted, db, Unrelated
  <2>4. CASE \/ VerifyExecution(h) \/ PassIncident(h) \/ PassPlan(h)
             \/ AuditPass(h) \/ FailPlan(h) \/ AuditFail(h)
             \/ ReplanIncident(h) \/ InsertRevisedPlan(h) \/ AuditReplan(h)
    BY <2>4 DEF VerifyExecution, PassIncident, PassPlan, AuditPass, FailPlan,
       AuditFail, ReplanIncident, InsertRevisedPlan, AuditReplan, db, Unrelated
  <2>5. QED
    BY <1>4, <2>1, <2>2, <2>3, <2>4 DEF Step
<1>5. QED
  BY <1>1, <1>2, <1>3, <1>4 DEF Next, CrashFreeNext

(* Granted approvals keep their plans. *)
LEMMA GrantedPlansKept ==
  ASSUME IInv, Unrelated
  PROVE  \A a \in granted : approvals'[a].plan = approvals[a].plan
<1>1. granted \subseteq DOMAIN approvals /\ approvals \in Seq(Approval)
  BY DEF IInv, TablesOK
<1>2. CASE approvals' = approvals
  BY <1>2
<1>3. ASSUME NEW p, NewApproval(p)
      PROVE  \A a \in DOMAIN approvals : approvals'[a] = approvals[a]
  <2> DEFINE r == [incident |-> plans[p].incident, plan |-> p,
                   status |-> "PENDING"]
             S == Approval \cup {r}
  <2>1. approvals \in Seq(S)
    BY <1>1, SeqMonotonic
  <2>2. r \in S
    OBVIOUS
  <2> HIDE DEF S
  <2>3. \A a \in DOMAIN approvals : Append(approvals, r)[a] = approvals[a]
    BY <2>1, <2>2, AppendRow
  <2>4. QED
    BY <1>3, <2>3 DEF NewApproval
<1>4. QED
  BY <1>1, <1>2, <1>3 DEF Unrelated

LEMMA UnrelatedStutters ==
  ASSUME IInv, Unrelated
  PROVE  UNCHANGED <<AuthorisedPlans, PlacedOrders>>
BY GrantedPlansKept DEF Unrelated, AuthorisedPlans, PlacedOrders

LEMMA DecisionAuthorises ==
  ASSUME IInv, NEW h \in Handlers, WriteDecision(h)
  PROVE  \/ UNCHANGED <<AuthorisedPlans, PlacedOrders>>
         \/ \E p \in AuthorisedPlans' : Gate!Authorise(p)
<1> DEFINE a == ctx[h].approval
           d == ctx[h].decision
<1>1. /\ approvals' = [approvals EXCEPT ![a].status = d]
      /\ granted' = granted \cup {x \in {a} : d = "APPROVED"}
      /\ orders' = orders
      /\ Goto(h, "decide", "mark_incident")
  BY DEF WriteDecision
<1>2. a \in DOMAIN approvals /\ d \in ApprovalStatus
  BY <1>1, Running DEF Goto, HandlerOK, Deciding, ApprovalStatus
<1>3. granted \subseteq DOMAIN approvals /\ approvals \in Seq(Approval)
  BY DEF IInv, TablesOK
<1>4. \A j \in DOMAIN approvals : approvals'[j].plan = approvals[j].plan
  BY <1>1, <1>2, <1>3, UpdateApprovalRow
<1>5. PlacedOrders' = PlacedOrders
  BY <1>1 DEF PlacedOrders
<1>6. CASE d = "APPROVED"
  <2>1. granted' = granted \cup {a}
    BY <1>1, <1>6
  <2>2. AuthorisedPlans' = AuthorisedPlans \cup {approvals[a].plan}
    BY <1>2, <1>3, <1>4, <2>1 DEF AuthorisedPlans
  <2>3. QED
    BY <1>5, <2>2 DEF Gate!Authorise
<1>7. CASE d # "APPROVED"
  BY <1>1, <1>3, <1>4, <1>5, <1>7 DEF AuthorisedPlans
<1>8. QED
  BY <1>6, <1>7

LEMMA OrderIsPlaced ==
  ASSUME IInv, NEW h \in Handlers, PlaceOrder(h)
  PROVE  \E e \in PlacedOrders' : Gate!Place(e[1], e[2])
<1> DEFINE p == ctx[h].plan
           o == Len(orders) + 1
           r == [plan     |-> p,
                 approval |-> ctx[h].approval,
                 supplier |-> plans[p].contents.supplier,
                 quantity |-> plans[p].contents.quantity]
           S == Order \cup {r}
<1>1. /\ orders' = Append(orders, r)
      /\ granted' = granted /\ approvals' = approvals
      /\ Goto(h, "exec_order", "exec_complete")
  BY DEF PlaceOrder
<1>2. pc[h] = "exec_order" /\ "exec_order" \in WithPlan
  BY <1>1 DEF Goto, WithPlan, Labels
<1>3. /\ ctx[h].approval \in granted
      /\ approvals[ctx[h].approval].plan = p
      /\ p \in DOMAIN plans
  BY <1>2, Running DEF HandlerOK, Executing
<1>4. p # 0
  BY <1>3, LenProperties DEF IInv, TablesOK
<1>5. orders \in Seq(S) /\ r \in S
  BY SeqMonotonic DEF IInv, TablesOK
<1>6. r.plan = p
  OBVIOUS
<1> HIDE DEF S, r
<1>7. /\ DOMAIN orders' = DOMAIN orders \cup {o} /\ o \notin DOMAIN orders
      /\ \A n \in DOMAIN orders : orders'[n] = orders[n]
      /\ orders'[o] = r
  BY <1>1, <1>5, AppendRow
<1>8. PlacedOrders' = PlacedOrders \cup {<<o, p>>}
  BY <1>4, <1>6, <1>7 DEF PlacedOrders
<1>9. AuthorisedPlans' = AuthorisedPlans
  BY <1>1 DEF AuthorisedPlans
<1>10. p \in AuthorisedPlans
  BY <1>3 DEF AuthorisedPlans
<1>11. \A q : <<o, q>> \notin PlacedOrders
  BY <1>7 DEF PlacedOrders
<1>12. Gate!Place(o, p)
  BY <1>8, <1>9, <1>10, <1>11 DEF Gate!Place
<1>13. <<o, p>> \in PlacedOrders' /\ <<o, p>>[1] = o /\ <<o, p>>[2] = p
  BY <1>8
<1>14. QED
  BY <1>12, <1>13

(* Every run of the workflow is a run of the approval gate: whatever requests *)
(* interleave, replan or die, each order is placed for a plan authorised     *)
(* before, and none disappears or changes its plan.                          *)
THEOREM WorkflowImplementsGate == Spec => ImplementsGate
<1>1. Init => Gate!Init
  <2>1. SUFFICES ASSUME Init
                 PROVE  AuthorisedPlans = {} /\ PlacedOrders = {}
    BY DEF Gate!Init
  <2>2. OrdersAuthorized /\ granted = {}
    BY <2>1, InitOK DEF IInv, Init
  <2>3. QED
    BY <2>2 DEF OrdersAuthorized, AuthorisedPlans, PlacedOrders
<1>2. IInv /\ [Next]_vars => [Gate!Next]_(Gate!gateVars)
  <2>1. SUFFICES ASSUME IInv, [Next]_vars
                 PROVE  [Gate!Next]_(Gate!gateVars)
    OBVIOUS
  <2>2. CASE Unrelated
    BY <2>1, <2>2, UnrelatedStutters DEF Gate!gateVars
  <2>3. ASSUME NEW h \in Handlers, WriteDecision(h)
        PROVE  [Gate!Next]_(Gate!gateVars)
    BY <2>1, <2>3, DecisionAuthorises DEF Gate!Next, Gate!gateVars
  <2>4. ASSUME NEW h \in Handlers, PlaceOrder(h)
        PROVE  [Gate!Next]_(Gate!gateVars)
    BY <2>1, <2>4, OrderIsPlaced DEF Gate!Next
  <2>5. QED
    BY <2>1, <2>2, <2>3, <2>4, StepKinds
<1>3. QED
  BY <1>1, <1>2, Invariance, PTL DEF Spec, ImplementsGate, Gate!Spec
=============================================================================
