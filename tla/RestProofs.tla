------------------------------ MODULE RestProofs ------------------------------
(***************************************************************************)
(* What RecoveryWorkflow leaves once all requests have been answered, for    *)
(* every number of handlers, requests, incidents and plans, unless a request *)
(* dies; and, when one handler serves them all, that the status columns      *)
(* agree.                                                                   *)
(***************************************************************************)
EXTENDS RecoveryProofs

-----------------------------------------------------------------------------
(* What a handler's step does to each table *)

LEMMA OneMoves ==
  ASSUME IInv, NEW h \in Handlers, Request(h) \/ Step(h)
  PROVE  OnlyMoves(h)
<1>1. pc \in [Handlers -> AnyLabel] /\ ctx \in [Handlers -> Context]
  BY DEF IInv, ControlOK
<1>2. CASE Request(h)
  BY <1>1, <1>2
     DEF Request, RecommendPlans, RequestApproval, OpenDossier, DecideApproval,
         DecideOnDemand, ExecutePlan, VerifyPlan, HandleAssumptionFailure, Begin,
         OnlyMoves
<1>3. CASE Step(h)
  <2>1. \E from, to : Goto(h, from, to)
    BY SMTT(30), <1>3
       DEF Step, SuggestAnother, SubmitFirst, InsertRequested, AuditRequested,
           InsertDossier, InsertOnDemand, WriteDecision, MarkIncident,
           AuditDecision, AuditExecution, BeginExecution, PlaceOrder,
           CompletePlan, ResolveIncident, AuditExecuted, VerifyExecution,
           PassIncident, PassPlan, AuditPass, FailPlan, AuditFail,
           ReplanIncident, InsertRevisedPlan, InsertRevisedApproval,
           AuditReplan, Finish, Return
  <2>2. \E c : ctx' = [ctx EXCEPT ![h] = c]
    BY <1>1, <1>3
       DEF Step, SuggestAnother, SubmitFirst, InsertRequested, AuditRequested,
           InsertDossier, InsertOnDemand, WriteDecision, MarkIncident,
           AuditDecision, AuditExecution, BeginExecution, PlaceOrder,
           CompletePlan, ResolveIncident, AuditExecuted, VerifyExecution,
           PassIncident, PassPlan, AuditPass, FailPlan, AuditFail,
           ReplanIncident, InsertRevisedPlan, InsertRevisedApproval,
           AuditReplan, Finish, Return, SetPlanStatus, SetIncidentStatus
  <2>3. QED
    BY <1>1, <2>1, <2>2 DEF Goto, OnlyMoves
<1>4. QED
  BY <1>2, <1>3

LEMMA PlansWritten ==
  ASSUME NEW h \in Handlers, Request(h) \/ Step(h)
  PROVE  \/ UNCHANGED plans /\ pc[h] \notin {"exec_begin", "exec_complete",
                                             "pass_plan", "fail_plan"}
         \/ /\ pc[h] \in {"idle", "suggest", "replan_plan"}
            /\ \E i \in Incidents \cup {ctx[h].incident}, c \in Contents : NewPlan(i, c)
         \/ pc[h] = "exec_begin" /\ BeginExecution(h)
         \/ pc[h] = "exec_complete" /\ CompletePlan(h)
         \/ pc[h] = "pass_plan" /\ PassPlan(h)
         \/ pc[h] = "fail_plan" /\ FailPlan(h)
<1>2. CASE Request(h)
  BY ZenonT(30), <1>2
     DEF Request, RecommendPlans, RequestApproval, OpenDossier, DecideApproval,
         DecideOnDemand, ExecutePlan, VerifyPlan, HandleAssumptionFailure, Begin,
         db
<1>3. CASE Step(h)
  BY ZenonT(30), <1>3
     DEF Step, SuggestAnother, SubmitFirst, InsertRequested, AuditRequested,
         InsertDossier, InsertOnDemand, WriteDecision, MarkIncident,
         AuditDecision, AuditExecution, BeginExecution, PlaceOrder,
         CompletePlan, ResolveIncident, AuditExecuted, VerifyExecution,
         PassIncident, PassPlan, AuditPass, FailPlan, AuditFail,
         ReplanIncident, InsertRevisedPlan, InsertRevisedApproval,
         AuditReplan, Finish, Return, Goto, db
<1>4. QED
  BY <1>2, <1>3

(* The status a handler is about to give its plan and its incident. *)
PlanTarget ==
  [exec_begin |-> "EXECUTING", exec_complete |-> "COMPLETED",
   pass_plan |-> "COMPLETED", fail_plan |-> "SUPERSEDED"]

IncidentTarget(h) ==
  IF pc[h] = "mark_incident"
    THEN IF ctx[h].decision = "APPROVED" THEN "APPROVED" ELSE "REPLANNING"
    ELSE IF pc[h] = "replan_incident" THEN "REPLANNING" ELSE "RESOLVED"

WritesIncident ==
  {"mark_incident", "exec_resolve", "pass_incident", "replan_incident"}

WritesPlan(h, p) == /\ pc[h] \in DOMAIN PlanTarget
                    /\ p = ctx[h].plan
                    /\ ctx[h].planSeen # PlanTarget[pc[h]]

LEMMA StatusUpdated ==
  ASSUME NEW t \in Seq(Plan), NEW i \in DOMAIN t, NEW s \in PlanStatus
  PROVE  LET u == [t EXCEPT ![i].status = s]
         IN  /\ DOMAIN u = DOMAIN t
             /\ u[i].status = s
             /\ \A j \in DOMAIN t : /\ u[j].incident = t[j].incident
                                    /\ j # i => u[j].status = t[j].status
<1>1. /\ Len(t) \in Nat
      /\ t \in [1..Len(t) -> Plan]
      /\ DOMAIN t = 1..Len(t)
  BY LenProperties
<1> DEFINE r == [t[i] EXCEPT !.status = s]
<1>2. r.status = s /\ r.incident = t[i].incident
  BY <1>1 DEF Plan
<1>3. QED
  BY <1>1, <1>2

LEMMA PlanStatusSet ==
  ASSUME IInv, NEW h \in Handlers,
         BeginExecution(h) \/ CompletePlan(h) \/ PassPlan(h) \/ FailPlan(h)
  PROVE  /\ pc[h] \in DOMAIN PlanTarget
         /\ SetPlanStatus(h, PlanTarget[pc[h]])
         /\ PlanTarget[pc[h]] \in PlanStatus
         /\ ctx[h].plan \in DOMAIN plans
         /\ ctx'[h] = [ctx[h] EXCEPT !.planSeen = PlanTarget[pc[h]]]
<1>1. /\ pc[h] \in DOMAIN PlanTarget
      /\ SetPlanStatus(h, PlanTarget[pc[h]])
  BY DEF BeginExecution, CompletePlan, PassPlan, FailPlan, Goto, PlanTarget
<1>2. PlanTarget[pc[h]] \in PlanStatus
  BY <1>1 DEF PlanTarget, PlanStatus
<1>3. pc[h] \in WithPlan
  BY <1>1 DEF PlanTarget, WithPlan, Labels
<1>4. QED
  BY <1>1, <1>2, <1>3, Running DEF SetPlanStatus

LEMMA PlansAfter ==
  ASSUME IInv, NEW h \in Handlers, Request(h) \/ Step(h)
  PROVE  /\ DOMAIN plans = 1..Len(plans) /\ Len(plans) \in Nat
         /\ DOMAIN plans \subseteq DOMAIN plans'
         /\ \A p \in DOMAIN plans :
              /\ plans'[p].incident = plans[p].incident
              /\ plans'[p].status = IF WritesPlan(h, p) THEN PlanTarget[pc[h]]
                                                      ELSE plans[p].status
         /\ \A p \in DOMAIN plans' \ DOMAIN plans :
              plans'[p].status = "PROPOSED"
<1>1. plans \in Seq(Plan)
  BY DEF IInv, TablesOK
<1>2. DOMAIN plans = 1..Len(plans) /\ Len(plans) \in Nat
  BY <1>1, LenProperties
<1>3. CASE UNCHANGED plans /\ pc[h] \notin DOMAIN PlanTarget
  BY <1>2, <1>3 DEF WritesPlan
<1>4. CASE /\ pc[h] \in {"idle", "suggest", "replan_plan"}
           /\ \E i \in Incidents \cup {ctx[h].incident}, c \in Contents : NewPlan(i, c)
  <2>1. PICK r : plans' = Append(plans, r) /\ r.status = "PROPOSED"
    BY <1>4 DEF NewPlan
  <2>2. /\ DOMAIN plans' = 1..(Len(plans) + 1)
        /\ \A p \in DOMAIN plans : plans'[p] = plans[p]
        /\ plans'[Len(plans) + 1] = r
    BY <1>1, <1>2, <2>1
  <2>3. \A p \in DOMAIN plans : ~WritesPlan(h, p)
    BY <1>4 DEF WritesPlan, PlanTarget
  <2>4. DOMAIN plans' \ DOMAIN plans = {Len(plans) + 1}
    BY <1>2, <2>2
  <2>5. QED
    BY <1>2, <2>1, <2>2, <2>3, <2>4
<1>5. CASE BeginExecution(h) \/ CompletePlan(h) \/ PassPlan(h) \/ FailPlan(h)
  <2> DEFINE s == PlanTarget[pc[h]]
  <2>1. /\ pc[h] \in DOMAIN PlanTarget
        /\ s \in PlanStatus
        /\ ctx[h].plan \in DOMAIN plans
        /\ plans' = IF ctx[h].planSeen = s THEN plans
                      ELSE [plans EXCEPT ![ctx[h].plan].status = s]
    BY <1>5, PlanStatusSet DEF SetPlanStatus
  <2> HIDE DEF s
  <2>2. CASE ctx[h].planSeen = s
    BY <1>2, <2>1, <2>2 DEF WritesPlan, s
  <2>3. CASE ctx[h].planSeen # s
    <3>1. plans' = [plans EXCEPT ![ctx[h].plan].status = s]
      BY <2>1, <2>3
    <3>2. /\ DOMAIN plans' = DOMAIN plans
          /\ plans'[ctx[h].plan].status = s
          /\ \A p \in DOMAIN plans :
               /\ plans'[p].incident = plans[p].incident
               /\ p # ctx[h].plan => plans'[p].status = plans[p].status
      BY <1>1, <2>1, <3>1, StatusUpdated
    <3>3. QED
      BY <1>2, <2>1, <2>3, <3>2 DEF WritesPlan, s
  <2>4. QED
    BY <2>2, <2>3
<1>6. QED
  BY <1>3, <1>4, <1>5, PlansWritten DEF PlanTarget

LEMMA IncidentsAfter ==
  ASSUME IInv, NEW h \in Handlers, Request(h) \/ Step(h)
  PROVE  \A i \in Incidents :
           incidents'[i] =
             IF /\ pc[h] \in WritesIncident
                /\ i = ctx[h].incident
                /\ ctx[h].incidentSeen # IncidentTarget(h)
               THEN IncidentTarget(h) ELSE incidents[i]
<1>1. incidents \in [Incidents -> IncidentStatus]
  BY DEF IInv, TablesOK
<1>2. CASE Request(h)
  BY <1>2
     DEF Request, RecommendPlans, RequestApproval, OpenDossier, DecideApproval,
         DecideOnDemand, ExecutePlan, VerifyPlan, HandleAssumptionFailure, Begin,
         db, WritesIncident
<1>3. CASE Step(h)
  <2>1. CASE pc[h] \in WritesIncident
    <3>1. SetIncidentStatus(h, IncidentTarget(h))
      BY <1>3, <2>1
         DEF Step, SuggestAnother, SubmitFirst, InsertRequested, AuditRequested,
             InsertDossier, InsertOnDemand, WriteDecision, MarkIncident,
             AuditDecision, AuditExecution, BeginExecution, PlaceOrder,
             CompletePlan, ResolveIncident, AuditExecuted, VerifyExecution,
             PassIncident, PassPlan, AuditPass, FailPlan, AuditFail,
             ReplanIncident, InsertRevisedPlan, InsertRevisedApproval,
             AuditReplan, Finish, Return, Goto, WritesIncident, IncidentTarget
    <3>2. QED
      BY <1>1, <2>1, <3>1 DEF SetIncidentStatus
  <2>2. CASE pc[h] \notin WritesIncident
    <3>1. UNCHANGED incidents
      BY <1>3, <2>2
         DEF Step, SuggestAnother, SubmitFirst, InsertRequested, AuditRequested,
             InsertDossier, InsertOnDemand, WriteDecision, MarkIncident,
             AuditDecision, AuditExecution, BeginExecution, PlaceOrder,
             CompletePlan, ResolveIncident, AuditExecuted, VerifyExecution,
             PassIncident, PassPlan, AuditPass, FailPlan, AuditFail,
             ReplanIncident, InsertRevisedPlan, InsertRevisedApproval,
             AuditReplan, Finish, Return, Goto, WritesIncident, db
    <3>2. QED
      BY <2>2, <3>1
  <2>3. QED
    BY <2>1, <2>2
<1>4. QED
  BY <1>2, <1>3

LEMMA ApprovalsWritten ==
  ASSUME NEW h \in Handlers, Request(h) \/ Step(h)
  PROVE  \/ UNCHANGED approvals
         \/ /\ pc[h] \in {"insert_requested", "insert_dossier", "insert_ondemand"}
            /\ NewApproval(ctx[h].plan)
         \/ pc[h] = "replan_approval" /\ NewApproval(ctx[h].revised)
         \/ pc[h] = "decide" /\ WriteDecision(h)
<1>1. CASE Request(h)
  BY <1>1
     DEF Request, RecommendPlans, RequestApproval, OpenDossier, DecideApproval,
         DecideOnDemand, ExecutePlan, VerifyPlan, HandleAssumptionFailure, db
<1>2. CASE Step(h)
  BY <1>2
     DEF Step, SuggestAnother, SubmitFirst, InsertRequested, AuditRequested,
         InsertDossier, InsertOnDemand, WriteDecision, MarkIncident,
         AuditDecision, AuditExecution, BeginExecution, PlaceOrder,
         CompletePlan, ResolveIncident, AuditExecuted, VerifyExecution,
         PassIncident, PassPlan, AuditPass, FailPlan, AuditFail,
         ReplanIncident, InsertRevisedPlan, InsertRevisedApproval,
         AuditReplan, Finish, Return, Goto, db
<1>3. QED
  BY <1>1, <1>2

LEMMA ApprovalsAfter ==
  ASSUME IInv, NEW h \in Handlers, Request(h) \/ Step(h)
  PROVE  /\ DOMAIN approvals = 1..Len(approvals) /\ Len(approvals) \in Nat
         /\ DOMAIN approvals \subseteq DOMAIN approvals'
         /\ \A a \in DOMAIN approvals :
              /\ approvals'[a].plan = approvals[a].plan
              /\ approvals'[a].incident = approvals[a].incident
              /\ approvals'[a].status =
                   IF pc[h] = "decide" /\ a = ctx[h].approval
                     THEN ctx[h].decision ELSE approvals[a].status
         /\ \A a \in DOMAIN approvals' \ DOMAIN approvals :
              approvals'[a].status = "PENDING"
<1>1. approvals \in Seq(Approval)
  BY DEF IInv, TablesOK
<1>2. DOMAIN approvals = 1..Len(approvals) /\ Len(approvals) \in Nat
  BY <1>1, LenProperties
<1>3. CASE UNCHANGED approvals /\ pc[h] # "decide"
  BY <1>2, <1>3
<1>4. CASE pc[h] # "decide" /\ \E p : NewApproval(p)
  <2>1. PICK r : approvals' = Append(approvals, r) /\ r.status = "PENDING"
    BY <1>4 DEF NewApproval
  <2>2. /\ DOMAIN approvals' = 1..(Len(approvals) + 1)
        /\ \A a \in DOMAIN approvals : approvals'[a] = approvals[a]
        /\ approvals'[Len(approvals) + 1] = r
    BY <1>1, <1>2, <2>1
  <2>3. DOMAIN approvals' \ DOMAIN approvals = {Len(approvals) + 1}
    BY <1>2, <2>2
  <2>4. QED
    BY <1>2, <1>4, <2>1, <2>2, <2>3
<1>5. CASE pc[h] = "decide" /\ WriteDecision(h)
  <2> DEFINE a == ctx[h].approval
             d == ctx[h].decision
  <2>1. approvals' = [approvals EXCEPT ![a].status = d]
    BY <1>5 DEF WriteDecision
  <2>2. a \in DOMAIN approvals
    BY <1>5, Running DEF HandlerOK, Deciding
  <2>3. /\ approvals \in [1..Len(approvals) -> Approval]
        /\ approvals[a] \in Approval
    BY <1>1, <1>2, <2>2, LenProperties
  <2> DEFINE r == [approvals[a] EXCEPT !.status = d]
  <2>4. /\ r.status = d /\ r.plan = approvals[a].plan
        /\ r.incident = approvals[a].incident
    BY <2>3 DEF Approval
  <2>5. /\ DOMAIN approvals' = DOMAIN approvals
        /\ approvals'[a] = r
        /\ \A b \in DOMAIN approvals : b # a => approvals'[b] = approvals[b]
    BY <2>1, <2>2, <2>3
  <2> HIDE DEF r
  <2>6. QED
    BY <1>2, <1>5, <2>4, <2>5
<1>6. pc[h] = "decide" => WriteDecision(h)
  BY DEF Request, RecommendPlans, RequestApproval, OpenDossier, DecideApproval,
         DecideOnDemand, ExecutePlan, VerifyPlan, HandleAssumptionFailure, Begin,
         Step, SuggestAnother, SubmitFirst, InsertRequested, AuditRequested,
         InsertDossier, InsertOnDemand, WriteDecision, MarkIncident,
         AuditDecision, AuditExecution, BeginExecution, PlaceOrder,
         CompletePlan, ResolveIncident, AuditExecuted, VerifyExecution,
         PassIncident, PassPlan, AuditPass, FailPlan, AuditFail,
         ReplanIncident, InsertRevisedPlan, InsertRevisedApproval,
         AuditReplan, Finish, Return, Goto
<1>7. QED
  BY <1>3, <1>4, <1>5, <1>6, ApprovalsWritten

-----------------------------------------------------------------------------
(* The inductive invariant *)

(* A plan is EXECUTING only while a handler that remembers it so is on its   *)
(* way to complete it.                                                      *)
Owns(h, p) == /\ pc[h] \in {"exec_order", "exec_complete"}
              /\ ctx[h].plan = p
              /\ ctx[h].planSeen = "EXECUTING"

ExecutingOwned ==
  \A p \in DOMAIN plans :
    plans[p].status = "EXECUTING" => \E h \in Handlers : Owns(h, p)

(* A plan without a successor is SUPERSEDED only while a handler replans it. *)
Replaces(h, p) ==
  \/ /\ pc[h] \in {"fail_audit", "replan_incident", "replan_plan"}
     /\ ctx[h].plan = p
     /\ ctx[h].incident = plans[p].incident
  \/ /\ pc[h] = "replan_approval"
     /\ ctx[h].revised > p
     /\ plans[ctx[h].revised].incident = plans[p].incident

SupersededReplaced ==
  \A p \in DOMAIN plans : plans[p].status = "SUPERSEDED" =>
    HasSuccessor(p) \/ \E h \in Handlers : Replaces(h, p)

(* An incident that never passed is RESOLVED only while a handler verifies   *)
(* it, or is about to withdraw the status it remembers.                     *)
Verifies(h, i) ==
  /\ ctx[h].incident = i
  /\ \/ pc[h] \in {"verify", "pass_incident", "pass_plan", "pass_audit"}
     \/ /\ pc[h] \in {"fail_plan", "fail_audit", "replan_incident"}
        /\ ctx[h].incidentSeen = "RESOLVED"

Passed(i) == \E p \in DOMAIN plans : Logged("VERIFICATION_PASSED", i, p, 0)

ResolvedVerified ==
  \A i \in Incidents : incidents[i] = "RESOLVED" =>
    Passed(i) \/ \E h \in Handlers : Verifies(h, i)

(* Executions and verifications know the incident of their plan, and         *)
(* replanning the one of its revised plan.                                  *)
WorkOK(h) ==
  /\ pc[h] \in {"exec_complete", "exec_resolve", "verify", "fail_plan"} =>
       ctx[h].incident = plans[ctx[h].plan].incident
  /\ pc[h] = "replan_approval" =>
       plans[ctx[h].revised].incident = ctx[h].incident

RestInv ==
  /\ IInv
  /\ ExecutingOwned
  /\ SupersededReplaced
  /\ ResolvedVerified
  /\ \A h \in Handlers : WorkOK(h)

-----------------------------------------------------------------------------
(* The steps keep it *)

LEMMA WorkKept ==
  ASSUME RestInv, IInv', NEW h \in Handlers, Request(h) \/ Step(h)
  PROVE  \A g \in Handlers : WorkOK(g)'
<1>1. /\ \A p \in DOMAIN plans : plans'[p].incident = plans[p].incident
      /\ OnlyMoves(h)
  BY PlansAfter, OneMoves DEF RestInv
<1>2. ASSUME NEW g \in Handlers, g # h PROVE WorkOK(g)'
  <2>1. HandlerOK(g) /\ WorkOK(g) /\ pc'[g] = pc[g] /\ ctx'[g] = ctx[g]
    BY <1>1, <1>2 DEF RestInv, IInv, OnlyMoves
  <2>2. /\ pc[g] \in WithPlan => ctx[g].plan \in DOMAIN plans
        /\ pc[g] = "replan_approval" => ctx[g].revised \in DOMAIN plans
    BY <2>1 DEF HandlerOK
  <2>3. {"exec_complete", "exec_resolve", "verify", "fail_plan"} \subseteq WithPlan
    BY DEF WithPlan, Labels
  <2>4. QED
    BY <1>1, <2>1, <2>2, <2>3 DEF WorkOK
<1>3. WorkOK(h)'
  <2>1. HandlerOK(h) /\ WorkOK(h) /\ ctx[h] \in Context /\ ctx \in [Handlers -> Context]
        /\ pc \in [Handlers -> AnyLabel]
    BY Running DEF RestInv, IInv, ControlOK
  <2>2. CASE Request(h)
    <3>1. CASE \E p \in DOMAIN plans : VerifyPlan(h, p)
      <4>1. PICK p \in DOMAIN plans : VerifyPlan(h, p)
        BY <3>1
      <4>2. ctx'[h].plan = p /\ ctx'[h].incident = plans[p].incident
            /\ pc'[h] = "verify" /\ plans' = plans
        BY <2>1, <4>1 DEF VerifyPlan, Begin, db, NoContext
      <4>3. QED
        BY <4>2 DEF WorkOK
    <3>2. CASE ~\E p \in DOMAIN plans : VerifyPlan(h, p)
      <4>1. pc'[h] \notin {"exec_complete", "exec_resolve", "verify", "fail_plan",
                          "replan_approval"}
        BY <2>1, <2>2, <3>2
           DEF Request, RecommendPlans, RequestApproval, OpenDossier,
               DecideApproval, DecideOnDemand, ExecutePlan,
               HandleAssumptionFailure, Begin
      <4>2. QED
        BY <4>1 DEF WorkOK
    <3>3. QED
      BY <3>1, <3>2
  <2>3. CASE Step(h)
    <3>1. CASE InsertRevisedPlan(h)
      <4>1. PICK c \in Contents : NewPlan(ctx[h].incident, c)
        BY <3>1 DEF InsertRevisedPlan
      <4>2. plans \in Seq(Plan)
        BY DEF RestInv, IInv, TablesOK
      <4>3. plans'[Len(plans) + 1].incident = ctx[h].incident
        BY <4>1, <4>2, LenProperties DEF NewPlan
      <4>4. ctx'[h].revised = Len(plans) + 1 /\ ctx'[h].incident = ctx[h].incident
            /\ pc'[h] = "replan_approval"
        BY <2>1, <3>1 DEF InsertRevisedPlan, Goto, Context
      <4>5. QED
        BY <4>3, <4>4 DEF WorkOK
    <3>2. CASE BeginExecution(h) \/ CompletePlan(h) \/ PassPlan(h) \/ FailPlan(h)
      <4>1. /\ ctx'[h].plan = ctx[h].plan /\ ctx'[h].incident = ctx[h].incident
            /\ ctx[h].plan \in DOMAIN plans
        BY <2>1, <3>2, PlanStatusSet DEF RestInv, Context
      <4>2. pc[h] = "exec_begin" => ctx[h].incident = plans[ctx[h].plan].incident
        BY <2>1 DEF HandlerOK, Executing
      <4>3. pc'[h] \in {"exec_order", "exec_complete"} => pc[h] = "exec_begin"
        BY <2>1, <3>2 DEF BeginExecution, CompletePlan, PassPlan, FailPlan, Goto
      <4>4. pc'[h] \in {"exec_resolve"} => pc[h] = "exec_complete"
        BY <2>1, <3>2 DEF BeginExecution, CompletePlan, PassPlan, FailPlan, Goto
      <4>5. pc'[h] \notin {"verify", "fail_plan", "replan_approval"}
        BY <2>1, <3>2 DEF BeginExecution, CompletePlan, PassPlan, FailPlan, Goto
      <4>6. QED
        BY <1>1, <2>1, <4>1, <4>2, <4>3, <4>4, <4>5 DEF WorkOK
    <3>3. CASE PlaceOrder(h)
      <4>1. /\ pc[h] = "exec_order" /\ pc'[h] = "exec_complete"
            /\ UNCHANGED <<plans, ctx>>
        BY <2>1, <3>3 DEF PlaceOrder, Goto
      <4>2. QED
        BY <2>1, <4>1 DEF HandlerOK, Executing, WorkOK
    <3>4. CASE ResolveIncident(h) \/ VerifyExecution(h)
      <4>1. /\ UNCHANGED plans
            /\ ctx'[h].plan = ctx[h].plan /\ ctx'[h].incident = ctx[h].incident
            /\ pc[h] \in {"exec_resolve", "verify"}
            /\ pc'[h] # "replan_approval"
        BY <2>1, <3>4 DEF ResolveIncident, VerifyExecution, SetIncidentStatus,
                          Goto, Context, db
      <4>2. QED
        BY <2>1, <4>1 DEF WorkOK
    <3>5. CASE pc'[h] \notin {"exec_complete", "exec_resolve", "verify",
                              "fail_plan", "replan_approval"}
      BY <3>5 DEF WorkOK
    <3>6. QED
      BY <2>1, <2>3, <3>1, <3>2, <3>3, <3>4, <3>5
         DEF Step, SuggestAnother, SubmitFirst, InsertRequested, AuditRequested,
             InsertDossier, InsertOnDemand, WriteDecision, MarkIncident,
             AuditDecision, AuditExecution, AuditExecuted, PassIncident,
             AuditPass, AuditFail, ReplanIncident, InsertRevisedApproval,
             AuditReplan, Finish, Return, Goto
  <2>4. QED
    BY <2>2, <2>3
<1>4. QED
  BY <1>2, <1>3

(* How a handler moves between the labels the invariant names. *)
LEMMA ExecutionMoves ==
  ASSUME IInv, NEW h \in Handlers, Request(h) \/ Step(h)
  PROVE  /\ pc[h] = "exec_begin" =>
              /\ pc'[h] \in {"exec_order", "exec_complete"}
              /\ ctx'[h] = [ctx[h] EXCEPT !.planSeen = "EXECUTING"]
         /\ pc[h] = "exec_order" => pc'[h] = "exec_complete" /\ ctx'[h] = ctx[h]
<1>1. pc \in [Handlers -> AnyLabel] /\ ctx \in [Handlers -> Context]
  BY DEF IInv, ControlOK
<1>2. CASE Request(h)
  BY <1>2
     DEF Request, RecommendPlans, RequestApproval, OpenDossier, DecideApproval,
         DecideOnDemand, ExecutePlan, VerifyPlan, HandleAssumptionFailure, Begin
<1>3. CASE Step(h)
  <2>1. pc[h] = "exec_begin" => BeginExecution(h)
    BY <1>2, <1>3, PlansWritten
  <2>2. pc[h] = "exec_order" => PlaceOrder(h)
    BY <1>3
       DEF Step, SuggestAnother, SubmitFirst, InsertRequested, AuditRequested,
           InsertDossier, InsertOnDemand, WriteDecision, MarkIncident,
           AuditDecision, AuditExecution, BeginExecution,
           CompletePlan, ResolveIncident, AuditExecuted, VerifyExecution,
           PassIncident, PassPlan, AuditPass, FailPlan, AuditFail,
           ReplanIncident, InsertRevisedPlan, InsertRevisedApproval,
           AuditReplan, Finish, Return, Goto
  <2>3. QED
    BY <1>1, <2>1, <2>2 DEF BeginExecution, PlaceOrder, SetPlanStatus, Goto
<1>4. QED
  BY <1>2, <1>3

LEMMA ExecutingKept ==
  ASSUME RestInv, IInv', NEW h \in Handlers, Request(h) \/ Step(h)
  PROVE  ExecutingOwned'
<1> SUFFICES ASSUME NEW p \in DOMAIN plans', plans'[p].status = "EXECUTING"
             PROVE  \E g \in Handlers : Owns(g, p)'
  BY DEF ExecutingOwned
<1>1. /\ IInv /\ ctx[h] \in Context
      /\ ctx \in [Handlers -> Context]
  BY DEF RestInv, IInv, ControlOK
<1>2. p \in DOMAIN plans
  BY <1>1, PlansAfter
<1>3. CASE WritesPlan(h, p)
  <2>1. plans'[p].status = PlanTarget[pc[h]]
    BY <1>1, <1>2, <1>3, PlansAfter
  <2>2. pc[h] = "exec_begin" /\ p = ctx[h].plan
    BY <1>3, <2>1 DEF WritesPlan, PlanTarget
  <2>3. Owns(h, p)'
    BY <1>1, <2>2, ExecutionMoves DEF Owns, Context
  <2>4. QED
    BY <2>3
<1>4. CASE ~WritesPlan(h, p)
  <2>1. plans[p].status = "EXECUTING"
    BY <1>1, <1>2, <1>4, PlansAfter
  <2>2. PICK g \in Handlers : Owns(g, p)
    BY <1>2, <2>1 DEF RestInv, ExecutingOwned
  <2>3. CASE g # h
    BY <1>1, <2>2, <2>3, OneMoves DEF OnlyMoves, Owns
  <2>4. CASE g = h
    <3>1. pc[h] = "exec_order"
      BY <1>4, <2>2, <2>4 DEF Owns, WritesPlan, PlanTarget
    <3>2. QED
      BY <1>1, <2>2, <2>4, <3>1, ExecutionMoves DEF Owns
  <2>5. QED
    BY <2>3, <2>4
<1>5. QED
  BY <1>3, <1>4

(* The label a handler has reached fixes the transaction it runs next. *)
LEMMA StepAt ==
  ASSUME NEW h \in Handlers, Request(h) \/ Step(h)
  PROVE  /\ pc[h] = "exec_resolve" => ResolveIncident(h)
         /\ pc[h] = "verify" => VerifyExecution(h)
         /\ pc[h] = "pass_incident" => PassIncident(h)
         /\ pc[h] = "pass_plan" => PassPlan(h)
         /\ pc[h] = "pass_audit" => AuditPass(h)
         /\ pc[h] = "fail_plan" => FailPlan(h)
         /\ pc[h] = "fail_audit" => AuditFail(h)
         /\ pc[h] = "replan_incident" => ReplanIncident(h)
         /\ pc[h] = "replan_plan" => InsertRevisedPlan(h)
         /\ pc[h] = "replan_approval" => InsertRevisedApproval(h)
<1>1. CASE Request(h)
  BY <1>1
     DEF Request, RecommendPlans, RequestApproval, OpenDossier, DecideApproval,
         DecideOnDemand, ExecutePlan, VerifyPlan, HandleAssumptionFailure, Begin
<1>2. CASE Step(h)
  BY <1>2
     DEF Step, SuggestAnother, SubmitFirst, InsertRequested, AuditRequested,
         InsertDossier, InsertOnDemand, WriteDecision, MarkIncident,
         AuditDecision, AuditExecution, BeginExecution, PlaceOrder,
         CompletePlan, ResolveIncident, AuditExecuted, VerifyExecution,
         PassIncident, PassPlan, AuditPass, FailPlan, AuditFail,
         ReplanIncident, InsertRevisedPlan, InsertRevisedApproval,
         AuditReplan, Finish, Return, Goto
<1>3. QED
  BY <1>1, <1>2

(* A successor stays one. *)
LEMMA SuccessorKept ==
  ASSUME IInv, NEW h \in Handlers, Request(h) \/ Step(h),
         NEW p \in DOMAIN plans, HasSuccessor(p)
  PROVE  HasSuccessor(p)'
<1>1. PICK a \in DOMAIN approvals :
             approvals[a].plan > p /\ approvals[a].incident = plans[p].incident
  BY DEF HasSuccessor
<1>2. /\ a \in DOMAIN approvals'
      /\ approvals'[a].plan > p /\ approvals'[a].incident = plans'[p].incident
  BY <1>1, ApprovalsAfter, PlansAfter
<1>3. QED
  BY <1>2 DEF HasSuccessor

(* A handler that replans a plan goes on until the successor is submitted. *)
LEMMA ReplacementGoesOn ==
  ASSUME IInv, NEW h \in Handlers, Request(h) \/ Step(h),
         NEW p \in DOMAIN plans, Replaces(h, p)
  PROVE  HasSuccessor(p)' \/ Replaces(h, p)'
<1>1. /\ pc \in [Handlers -> AnyLabel] /\ ctx \in [Handlers -> Context]
      /\ ctx[h] \in Context
      /\ plans \in Seq(Plan) /\ approvals \in Seq(Approval)
  BY DEF IInv, TablesOK, ControlOK
<1>2. /\ Len(plans) \in Nat /\ p \in 1..Len(plans)
      /\ plans'[p].incident = plans[p].incident
  BY PlansAfter
<1>3. CASE pc[h] = "fail_audit"
  <2>1. pc'[h] = "replan_incident" /\ ctx'[h] = ctx[h]
    BY <1>1, <1>3, StepAt DEF AuditFail, Goto
  <2>2. QED
    BY <1>2, <1>3, <2>1 DEF Replaces
<1>4. CASE pc[h] = "replan_incident"
  <2>1. /\ pc'[h] = "replan_plan"
        /\ ctx'[h] = [ctx[h] EXCEPT !.incidentSeen = "REPLANNING"]
    BY <1>1, <1>4, StepAt DEF ReplanIncident, SetIncidentStatus, Goto
  <2>2. ctx'[h].plan = ctx[h].plan /\ ctx'[h].incident = ctx[h].incident
    BY <1>1, <2>1 DEF Context
  <2>3. QED
    BY <1>2, <1>4, <2>1, <2>2 DEF Replaces
<1>5. CASE pc[h] = "replan_plan"
  <2>1. InsertRevisedPlan(h)
    BY <1>5, StepAt
  <2>2. PICK c \in Contents : NewPlan(ctx[h].incident, c)
    BY <2>1 DEF InsertRevisedPlan
  <2>3. plans'[Len(plans) + 1].incident = ctx[h].incident
    BY <1>1, <2>2, LenProperties DEF NewPlan
  <2>4. pc'[h] = "replan_approval" /\ ctx'[h].revised = Len(plans) + 1
    BY <1>1, <2>1 DEF InsertRevisedPlan, Goto, Context
  <2>5. ctx[h].incident = plans[p].incident
    BY <1>5 DEF Replaces
  <2>6. QED
    BY <1>2, <2>3, <2>4, <2>5 DEF Replaces
<1>6. CASE pc[h] = "replan_approval"
  <2>1. NewApproval(ctx[h].revised)
    BY <1>6, StepAt DEF InsertRevisedApproval
  <2>2. /\ Len(approvals) + 1 \in DOMAIN approvals'
        /\ approvals'[Len(approvals) + 1].plan = ctx[h].revised
        /\ approvals'[Len(approvals) + 1].incident = plans[ctx[h].revised].incident
    BY <1>1, <2>1, LenProperties DEF NewApproval
  <2>3. ctx[h].revised > p /\ plans[ctx[h].revised].incident = plans[p].incident
    BY <1>6 DEF Replaces
  <2>4. QED
    BY <1>2, <2>2, <2>3 DEF HasSuccessor
<1>7. QED
  BY <1>3, <1>4, <1>5, <1>6 DEF Replaces

LEMMA SupersededKept ==
  ASSUME RestInv, IInv', NEW h \in Handlers, Request(h) \/ Step(h)
  PROVE  SupersededReplaced'
<1> SUFFICES ASSUME NEW p \in DOMAIN plans', plans'[p].status = "SUPERSEDED"
             PROVE  HasSuccessor(p)' \/ \E g \in Handlers : Replaces(g, p)'
  BY DEF SupersededReplaced
<1>1. /\ IInv /\ ctx[h] \in Context
      /\ ctx \in [Handlers -> Context] /\ pc \in [Handlers -> AnyLabel]
  BY DEF RestInv, IInv, ControlOK
<1>2. p \in DOMAIN plans /\ plans'[p].incident = plans[p].incident
  BY <1>1, PlansAfter
<1>3. CASE WritesPlan(h, p)
  <2>1. plans'[p].status = PlanTarget[pc[h]]
    BY <1>1, <1>2, <1>3, PlansAfter
  <2>2. pc[h] = "fail_plan" /\ p = ctx[h].plan
    BY <1>3, <2>1 DEF WritesPlan, PlanTarget
  <2>3. /\ pc'[h] = "fail_audit"
        /\ ctx'[h] = [ctx[h] EXCEPT !.planSeen = "SUPERSEDED"]
    BY <1>1, <2>2, StepAt DEF FailPlan, SetPlanStatus, Goto
  <2>4. ctx[h].incident = plans[p].incident
    BY <2>2 DEF RestInv, WorkOK
  <2>5. Replaces(h, p)'
    BY <1>1, <1>2, <2>2, <2>3, <2>4 DEF Replaces, Context
  <2>6. QED
    BY <2>5
<1>4. CASE ~WritesPlan(h, p)
  <2>1. plans[p].status = "SUPERSEDED"
    BY <1>1, <1>2, <1>4, PlansAfter
  <2>2. CASE HasSuccessor(p)
    BY <1>1, <1>2, <2>2, SuccessorKept
  <2>3. CASE \E g \in Handlers : Replaces(g, p)
    <3>1. PICK g \in Handlers : Replaces(g, p)
      BY <2>3
    <3>2. CASE g # h
      <4>1. pc'[g] = pc[g] /\ ctx'[g] = ctx[g]
        BY <1>1, <3>2, OneMoves DEF OnlyMoves
      <4>2. pc[g] = "replan_approval" => ctx[g].revised \in DOMAIN plans
        BY <1>1, Running DEF HandlerOK
      <4>3. pc[g] = "replan_approval" =>
              plans'[ctx[g].revised].incident = plans[ctx[g].revised].incident
        BY <1>1, <4>2, PlansAfter
      <4>4. QED
        BY <1>2, <3>1, <4>1, <4>3 DEF Replaces
    <3>3. CASE g = h
      BY <1>1, <1>2, <3>1, <3>3, ReplacementGoesOn
    <3>4. QED
      BY <3>2, <3>3
  <2>4. QED
    BY <1>2, <2>1, <2>2, <2>3 DEF RestInv, SupersededReplaced
<1>5. QED
  BY <1>3, <1>4

LEMMA AuditGrows ==
  ASSUME NEW h \in Handlers, Request(h) \/ Step(h)
  PROVE  audit \subseteq audit'
<1>1. CASE Request(h)
  BY ZenonT(30), <1>1
     DEF Request, RecommendPlans, RequestApproval, OpenDossier, DecideApproval,
         DecideOnDemand, ExecutePlan, VerifyPlan, HandleAssumptionFailure, Log, db
<1>2. CASE Step(h)
  BY <1>2
     DEF Step, SuggestAnother, SubmitFirst, InsertRequested, AuditRequested,
         InsertDossier, InsertOnDemand, WriteDecision, MarkIncident,
         AuditDecision, AuditExecution, BeginExecution, PlaceOrder,
         CompletePlan, ResolveIncident, AuditExecuted, VerifyExecution,
         PassIncident, PassPlan, AuditPass, FailPlan, AuditFail,
         ReplanIncident, InsertRevisedPlan, InsertRevisedApproval,
         AuditReplan, Log, db
<1>3. QED
  BY <1>1, <1>2

(* A handler that verifies an incident goes on until the incident has passed *)
(* or the handler has withdrawn its status.                                 *)
LEMMA VerificationGoesOn ==
  ASSUME IInv, NEW h \in Handlers, Request(h) \/ Step(h),
         NEW i \in Incidents, incidents[i] = "RESOLVED", Verifies(h, i)
  PROVE  \/ Passed(i)' \/ Verifies(h, i)'
         \/ pc[h] = "replan_incident" /\ ctx[h].incidentSeen = "RESOLVED"
<1>1. /\ pc \in [Handlers -> AnyLabel] /\ ctx \in [Handlers -> Context]
      /\ ctx[h] \in Context
  BY DEF IInv, ControlOK
<1>2. ctx[h].incident = i
  BY DEF Verifies
<1>3. CASE pc[h] = "verify"
  <2>1. /\ pc'[h] \in {"pass_incident", "fail_plan"}
        /\ ctx'[h] = [ctx[h] EXCEPT !.incidentSeen = "RESOLVED"]
    BY <1>1, <1>2, <1>3, StepAt DEF VerifyExecution, Goto
  <2>2. ctx'[h].incident = i /\ ctx'[h].incidentSeen = "RESOLVED"
    BY <1>1, <1>2, <2>1 DEF Context
  <2>3. QED
    BY <2>1, <2>2 DEF Verifies
<1>4. CASE pc[h] = "pass_incident"
  <2>1. /\ pc'[h] = "pass_plan"
        /\ ctx'[h] = [ctx[h] EXCEPT !.incidentSeen = "RESOLVED"]
    BY <1>1, <1>4, StepAt DEF PassIncident, SetIncidentStatus, Goto
  <2>2. QED
    BY <1>1, <1>2, <2>1 DEF Verifies, Context
<1>5. CASE pc[h] = "pass_plan"
  <2>1. /\ pc'[h] = "pass_audit"
        /\ ctx'[h] = [ctx[h] EXCEPT !.planSeen = "COMPLETED"]
    BY <1>1, <1>5, StepAt DEF PassPlan, SetPlanStatus, Goto
  <2>2. QED
    BY <1>1, <1>2, <2>1 DEF Verifies, Context
<1>6. CASE pc[h] = "pass_audit"
  <2>1. PICK p \in DOMAIN plans : p = ctx[h].plan
    BY <1>6, Running DEF WithPlan, Labels
  <2>2. Logged("VERIFICATION_PASSED", i, p, 0)'
    BY <1>2, <1>6, <2>1, StepAt DEF AuditPass, Log, Logged
  <2>3. QED
    BY <2>2, PlansAfter DEF Passed
<1>7. CASE pc[h] = "fail_plan"
  <2>1. /\ pc'[h] = "fail_audit"
        /\ ctx'[h] = [ctx[h] EXCEPT !.planSeen = "SUPERSEDED"]
    BY <1>1, <1>7, StepAt DEF FailPlan, SetPlanStatus, Goto
  <2>2. QED
    BY <1>1, <1>2, <1>7, <2>1 DEF Verifies, Context
<1>8. CASE pc[h] = "fail_audit"
  <2>1. pc'[h] = "replan_incident" /\ ctx'[h] = ctx[h]
    BY <1>1, <1>8, StepAt DEF AuditFail, Goto
  <2>2. QED
    BY <1>8, <2>1 DEF Verifies
<1>9. QED
  BY <1>3, <1>4, <1>5, <1>6, <1>7, <1>8 DEF Verifies

LEMMA ResolvedKept ==
  ASSUME RestInv, IInv', NEW h \in Handlers, Request(h) \/ Step(h)
  PROVE  ResolvedVerified'
<1> SUFFICES ASSUME NEW i \in Incidents, incidents'[i] = "RESOLVED"
             PROVE  Passed(i)' \/ \E g \in Handlers : Verifies(g, i)'
  BY DEF ResolvedVerified
<1>1. /\ IInv /\ ctx[h] \in Context
      /\ ctx \in [Handlers -> Context] /\ pc \in [Handlers -> AnyLabel]
  BY DEF RestInv, IInv, ControlOK
<1> DEFINE Writes == /\ pc[h] \in WritesIncident
                     /\ i = ctx[h].incident
                     /\ ctx[h].incidentSeen # IncidentTarget(h)
<1>2. CASE Writes
  <2>1. IncidentTarget(h) = "RESOLVED"
    BY <1>1, <1>2, IncidentsAfter
  <2>2. pc[h] \in {"exec_resolve", "pass_incident"}
    BY <1>2, <2>1 DEF IncidentTarget, WritesIncident
  <2>3. /\ pc'[h] \in {"verify", "pass_plan"}
        /\ ctx'[h] = [ctx[h] EXCEPT !.incidentSeen = "RESOLVED"]
    BY <1>1, <2>2, StepAt DEF ResolveIncident, PassIncident, SetIncidentStatus, Goto
  <2>4. Verifies(h, i)'
    BY <1>1, <1>2, <2>3 DEF Verifies, Context
  <2>5. QED
    BY <2>4
<1>3. CASE ~Writes
  <2>1. incidents[i] = "RESOLVED"
    BY <1>1, <1>3, IncidentsAfter
  <2>2. CASE Passed(i)
    <3>1. DOMAIN plans \subseteq DOMAIN plans' /\ audit \subseteq audit'
      BY <1>1, PlansAfter, AuditGrows
    <3>2. Passed(i)'
      BY <2>2, <3>1 DEF Passed, Logged
    <3>3. QED
      BY <3>2
  <2>3. CASE \E g \in Handlers : Verifies(g, i)
    <3>1. PICK g \in Handlers : Verifies(g, i)
      BY <2>3
    <3>2. CASE g # h
      BY <1>1, <3>1, <3>2, OneMoves DEF OnlyMoves, Verifies
    <3>3. CASE g = h
      <4>1. ~(pc[h] = "replan_incident" /\ ctx[h].incidentSeen = "RESOLVED")
        BY <1>3, <3>1, <3>3 DEF Verifies, WritesIncident, IncidentTarget
      <4>2. QED
        BY <1>1, <2>1, <3>1, <3>3, <4>1, VerificationGoesOn
    <3>4. QED
      BY <3>2, <3>3
  <2>4. QED
    BY <2>1, <2>2, <2>3 DEF RestInv, ResolvedVerified
<1>4. QED
  BY <1>2, <1>3

-----------------------------------------------------------------------------
(* The theorems *)

LEMMA RestInit == Init => RestInv
<1> SUFFICES ASSUME Init
             PROVE  RestInv
  OBVIOUS
<1>1. IInv
  BY InitOK
<1>2. \A p \in DOMAIN plans : plans[p].status = "PROPOSED"
  <2> DEFINE NewPlans == [incident : Incidents, contents : Contents,
                          status : {"PROPOSED"}]
  <2>1. plans \in Seq(NewPlans)
    BY WorkflowAssumption DEF Init, WorkflowAssumption
  <2>2. \A p \in DOMAIN plans : plans[p] \in NewPlans
    <3> HIDE DEF NewPlans
    <3>1. QED
      BY <2>1, ElementOfSeq, LenProperties
  <2>3. QED
    BY <2>2
<1>3. ExecutingOwned /\ SupersededReplaced /\ ResolvedVerified
  BY <1>2 DEF Init, ExecutingOwned, SupersededReplaced, ResolvedVerified
<1>4. \A h \in Handlers : WorkOK(h)
  BY DEF Init, WorkOK
<1>5. QED
  BY <1>1, <1>3, <1>4 DEF RestInv

LEMMA RestStep == RestInv /\ [CrashFreeNext]_vars => RestInv'
<1> SUFFICES ASSUME RestInv, [CrashFreeNext]_vars
             PROVE  RestInv'
  OBVIOUS
<1>1. IInv'
  BY NextKeeps DEF RestInv, Next
<1>2. CASE CrashFreeNext
  <2>1. PICK h \in Handlers : Request(h) \/ Step(h)
    BY <1>2 DEF CrashFreeNext
  <2>2. QED
    BY <1>1, <2>1, ExecutingKept, SupersededKept, ResolvedKept, WorkKept
       DEF RestInv
<1>3. CASE UNCHANGED vars
  BY <1>1, <1>3
     DEF vars, db, RestInv, ExecutingOwned, SupersededReplaced, ResolvedVerified,
         WorkOK, Owns, Replaces, Verifies, Passed, Logged, HasSuccessor
<1>4. QED
  BY <1>2, <1>3

(* As long as no request dies, every unfinished state has a handler that     *)
(* will finish it.                                                          *)
THEOREM RestInvariance == CrashFreeSpec => []RestInv
BY RestInit, RestStep, PTL DEF CrashFreeSpec

(* Unless a request dies, no plan is left EXECUTING once all requests have   *)
(* been answered, however many execute and verify the same plan with stale   *)
(* copies of its row.                                                       *)
THEOREM ExecutionsEnd == CrashFreeSpec => []NoPlanLeftExecuting
<1>1. RestInv => NoPlanLeftExecuting
  BY DEF RestInv, ExecutingOwned, Owns, NoPlanLeftExecuting, Quiescent
<1>2. QED
  BY <1>1, RestInvariance, PTL

(* Unless a request dies, every plan that a verification superseded has a    *)
(* younger plan of its incident submitted for approval, once all requests    *)
(* have been answered.                                                      *)
THEOREM FailuresReplaced == CrashFreeSpec => []SupersededHasSuccessor
<1>1. RestInv => SupersededHasSuccessor
  BY DEF RestInv, SupersededReplaced, Replaces, SupersededHasSuccessor, Quiescent
<1>2. QED
  BY <1>1, RestInvariance, PTL

(* Unless a request dies, an incident that is RESOLVED once all requests     *)
(* have been answered has passed a verification.                            *)
THEOREM ResolutionVerified == CrashFreeSpec => []ResolvedWasVerified
<1>1. RestInv => ResolvedWasVerified
  BY DEF RestInv, ResolvedVerified, Verifies, Passed, ResolvedWasVerified, Quiescent
<1>2. QED
  BY <1>1, RestInvariance, PTL

-----------------------------------------------------------------------------
(* The agreement of the status columns when one handler serves all requests *)

(* Labels at which the session holds the plan, and knows its status. *)
Holding ==
  {"exec_audit", "exec_begin", "exec_order", "exec_complete", "exec_resolve",
   "verify", "pass_incident", "pass_plan", "fail_plan"}

(* What the session remembers is what the tables hold. *)
Fresh(h) ==
  /\ pc[h] \in Holding => ctx[h].planSeen = plans[ctx[h].plan].status
  /\ pc[h] # "idle" =>
       ctx[h].incidentSeen \in {None, incidents[ctx[h].incident]}

(* What the locals say about each other. *)
Coherent(h) ==
  /\ pc[h] \in Holding \cup {"insert_ondemand"} =>
       ctx[h].incident = plans[ctx[h].plan].incident
  /\ pc[h] \in {"decide", "mark_incident"} =>
       approvals[ctx[h].approval].incident = ctx[h].incident
  /\ pc[h] = "mark_incident" =>
       approvals[ctx[h].approval].status = ctx[h].decision
  /\ pc[h] = "exec_resolve" => ctx[h].planSeen = "COMPLETED"

(* An incident disagrees with its plans or approvals only between the two    *)
(* transactions that change both.                                           *)
ResolvedAgrees(h) ==
  \A i \in Incidents :
    \/ i = ctx[h].incident /\ pc[h] \in {"exec_order", "exec_complete", "pass_plan",
                                         "fail_audit", "replan_incident"}
    \/ incidents[i] = "RESOLVED" =>
         \E p \in PlansOf(i) : plans[p].status = "COMPLETED"

ApprovedAgrees(h) ==
  \A i \in Incidents :
    \/ i = ctx[h].incident /\ pc[h] = "mark_incident"
    \/ incidents[i] = "APPROVED" =>
         \E a \in DOMAIN approvals : /\ approvals[a].incident = i
                                     /\ approvals[a].status = "APPROVED"

AgreeInv(h) == /\ IInv
               /\ Fresh(h) /\ Coherent(h)
               /\ ResolvedAgrees(h) /\ ApprovedAgrees(h)

(* The locals a request begins with. *)
LEMMA RequestLocals ==
  ASSUME IInv, NEW h \in Handlers, Request(h)
  PROVE  /\ pc[h] = "idle"
         /\ pc'[h] \in {"suggest", "insert_requested", "insert_dossier",
                        "decide", "insert_ondemand", "exec_audit", "verify",
                        "replan_incident"}
         /\ UNCHANGED <<incidents, approvals>>
         /\ pc'[h] # "suggest" => UNCHANGED plans
         /\ ctx'[h].incident \in Incidents
         /\ ctx'[h].incidentSeen \in {None, incidents[ctx'[h].incident]}
         /\ pc'[h] \in {"exec_audit", "verify", "insert_ondemand"} =>
              ctx'[h].incident = plans[ctx'[h].plan].incident
         /\ pc'[h] \in {"exec_audit", "verify"} =>
              ctx'[h].planSeen = plans[ctx'[h].plan].status
         /\ pc'[h] = "decide" =>
              approvals[ctx'[h].approval].incident = ctx'[h].incident
<1>1. pc \in [Handlers -> AnyLabel] /\ ctx \in [Handlers -> Context]
  BY DEF IInv, ControlOK
<1>2. /\ \A p \in DOMAIN plans : plans[p].incident \in Incidents
      /\ \A a \in DOMAIN approvals : approvals[a].incident \in Incidents
  BY RowsFound
<1>3. CASE \E i \in Incidents : RecommendPlans(h, i)
  BY <1>1, <1>3 DEF RecommendPlans, Begin, NoContext
<1>4. CASE \E p \in DOMAIN plans : RequestApproval(h, p)
  BY <1>1, <1>2, <1>4 DEF RequestApproval, Begin, NoContext, db
<1>5. CASE \E p \in DOMAIN plans : OpenDossier(h, p)
  BY <1>1, <1>2, <1>5 DEF OpenDossier, Begin, NoContext, db
<1>6. CASE \E a \in DOMAIN approvals, d \in {"APPROVED", "REJECTED"} :
             DecideApproval(h, a, d)
  BY <1>1, <1>2, <1>6 DEF DecideApproval, Begin, NoContext, db
<1>7. CASE \E p \in DOMAIN plans, d \in {"APPROVED", "REJECTED"} :
             DecideOnDemand(h, p, d)
  BY <1>1, <1>2, <1>7 DEF DecideOnDemand, Begin, NoContext, db
<1>8. CASE \E p \in DOMAIN plans, a \in DOMAIN approvals : ExecutePlan(h, p, a)
  BY <1>1, <1>2, <1>8 DEF ExecutePlan, Begin, NoContext, db
<1>9. CASE \E p \in DOMAIN plans : VerifyPlan(h, p)
  BY <1>1, <1>2, <1>9 DEF VerifyPlan, Begin, NoContext, db
<1>10. CASE \E i \in Incidents : HandleAssumptionFailure(h, i)
  BY <1>1, <1>10 DEF HandleAssumptionFailure, Begin, NoContext, db
<1>11. QED
  BY <1>3, <1>4, <1>5, <1>6, <1>7, <1>8, <1>9, <1>10 DEF Request

(* How a transaction changes the locals of its handler. *)
LEMMA StepLocals ==
  ASSUME IInv, NEW h \in Handlers, Step(h)
  PROVE  /\ pc[h] # "idle"
         /\ pc'[h] # "idle" =>
              /\ ctx'[h].incident = ctx[h].incident
              /\ ctx'[h].plan = ctx[h].plan
              /\ ctx'[h].decision = ctx[h].decision
              /\ ctx'[h].approval = IF pc[h] = "insert_ondemand"
                                      THEN Len(approvals) + 1
                                      ELSE ctx[h].approval
              /\ ctx'[h].planSeen = IF pc[h] \in DOMAIN PlanTarget
                                      THEN PlanTarget[pc[h]]
                                      ELSE ctx[h].planSeen
              /\ ctx'[h].incidentSeen =
                   IF pc[h] \in WritesIncident THEN IncidentTarget(h)
                   ELSE IF pc[h] = "verify" THEN incidents[ctx[h].incident]
                   ELSE ctx[h].incidentSeen
<1>1. /\ pc \in [Handlers -> AnyLabel] /\ ctx \in [Handlers -> Context]
      /\ ctx[h] \in Context
  BY DEF IInv, ControlOK
<1>2. CASE \/ SuggestAnother(h) \/ InsertRequested(h) \/ WriteDecision(h)
           \/ AuditExecution(h) \/ PlaceOrder(h) \/ AuditFail(h)
           \/ InsertRevisedApproval(h)
  BY <1>2
     DEF SuggestAnother, InsertRequested, WriteDecision, AuditExecution,
         PlaceOrder, AuditFail, InsertRevisedApproval, Goto, PlanTarget,
         WritesIncident
<1>3. CASE \/ SubmitFirst(h) \/ AuditRequested(h) \/ InsertDossier(h)
           \/ AuditDecision(h) \/ AuditExecuted(h) \/ AuditPass(h)
           \/ AuditReplan(h)
  BY <1>1, <1>3
     DEF SubmitFirst, AuditRequested, InsertDossier, AuditDecision,
         AuditExecuted, AuditPass, AuditReplan, Finish, Return, Goto,
         PlanTarget, WritesIncident
<1>4. CASE InsertOnDemand(h) \/ VerifyExecution(h) \/ InsertRevisedPlan(h)
  BY <1>1, <1>4
     DEF InsertOnDemand, VerifyExecution, InsertRevisedPlan, Goto, Context,
         PlanTarget, WritesIncident
<1>5. CASE BeginExecution(h) \/ CompletePlan(h) \/ PassPlan(h) \/ FailPlan(h)
  BY <1>1, <1>5
     DEF BeginExecution, CompletePlan, PassPlan, FailPlan, Goto, Context,
         SetPlanStatus, PlanTarget, WritesIncident
<1>6. CASE MarkIncident(h) \/ ResolveIncident(h) \/ PassIncident(h)
           \/ ReplanIncident(h)
  BY <1>1, <1>6
     DEF MarkIncident, ResolveIncident, PassIncident, ReplanIncident, Goto,
         Context, SetIncidentStatus, PlanTarget, WritesIncident, IncidentTarget
<1>7. QED
  BY <1>2, <1>3, <1>4, <1>5, <1>6 DEF Step

(* Where the labels the invariant names are reached from. *)
LEMMA StepLabels ==
  ASSUME IInv, NEW h \in Handlers, Step(h)
  PROVE  /\ pc'[h] \in Holding => pc[h] \in Holding
         /\ pc'[h] # "insert_ondemand"
         /\ pc'[h] = "decide" => pc[h] = "insert_ondemand"
         /\ pc[h] = "decide" => pc'[h] = "mark_incident"
         /\ pc'[h] = "mark_incident" => pc[h] = "decide"
         /\ pc'[h] = "exec_resolve" <=> pc[h] = "exec_complete"
         /\ pc[h] = "exec_begin" => pc'[h] \in {"exec_order", "exec_complete"}
         /\ pc[h] = "exec_order" => pc'[h] = "exec_complete"
         /\ pc[h] = "pass_incident" <=> pc'[h] = "pass_plan"
         /\ pc[h] = "fail_plan" <=> pc'[h] = "fail_audit"
         /\ pc[h] = "fail_audit" => pc'[h] = "replan_incident"
         /\ pc[h] = "replan_incident" <=> pc'[h] = "replan_plan"
         /\ pc[h] = "replan_plan" <=> pc'[h] = "replan_approval"
         /\ pc[h] = "exec_audit" => pc'[h] = "exec_begin"
<1>1. pc \in [Handlers -> AnyLabel]
  BY DEF IInv, ControlOK
<1>2. QED
  BY <1>1
     DEF Step, SuggestAnother, SubmitFirst, InsertRequested, AuditRequested,
         InsertDossier, InsertOnDemand, WriteDecision, MarkIncident,
         AuditDecision, AuditExecution, BeginExecution, PlaceOrder,
         CompletePlan, ResolveIncident, AuditExecuted, VerifyExecution,
         PassIncident, PassPlan, AuditPass, FailPlan, AuditFail,
         ReplanIncident, InsertRevisedPlan, InsertRevisedApproval,
         AuditReplan, Finish, Return, Goto, Holding

LEMMA FreshKept ==
  ASSUME NEW h \in Handlers, AgreeInv(h), Request(h) \/ Step(h)
  PROVE  Fresh(h)'
<1>1. IInv /\ Fresh(h) /\ Holding \subseteq WithPlan
  BY DEF AgreeInv, Holding, WithPlan, Labels
<1>2. CASE Request(h)
  BY <1>1, <1>2, RequestLocals DEF Fresh, Holding
<1>3. CASE Step(h)
  <2> DEFINE p == ctx[h].plan
             i == ctx[h].incident
  <2>1. CASE pc'[h] = "idle"
    BY <2>1 DEF Fresh, Holding
  <2>2. CASE pc'[h] # "idle"
    <3>1. ctx'[h].plan = p /\ ctx'[h].incident = i /\ pc[h] # "idle" /\ i \in Incidents
      BY <1>1, <1>3, <2>2, StepLocals, Running
    <3>2. ASSUME pc'[h] \in Holding
          PROVE  ctx'[h].planSeen = plans'[p].status
      <4>1. pc[h] \in Holding /\ p \in DOMAIN plans /\ ctx[h].planSeen = plans[p].status
        BY <1>1, <1>3, <3>2, StepLabels, Running DEF Fresh
      <4>2. plans'[p].status = IF WritesPlan(h, p) THEN PlanTarget[pc[h]]
                                                   ELSE plans[p].status
        BY <1>1, <4>1, PlansAfter
      <4>3. ctx'[h].planSeen = IF pc[h] \in DOMAIN PlanTarget
                                 THEN PlanTarget[pc[h]] ELSE ctx[h].planSeen
        BY <1>1, <1>3, <2>2, StepLocals
      <4>4. QED
        BY <4>1, <4>2, <4>3 DEF WritesPlan
    <3>3. ctx'[h].incidentSeen \in {None, incidents'[i]}
      <4>1. ctx[h].incidentSeen \in {None, incidents[i]}
        BY <1>1, <3>1 DEF Fresh
      <4>2. incidents'[i] = IF /\ pc[h] \in WritesIncident
                               /\ ctx[h].incidentSeen # IncidentTarget(h)
                              THEN IncidentTarget(h) ELSE incidents[i]
        BY <1>1, <3>1, IncidentsAfter
      <4>3. IncidentTarget(h) # None
        BY DEF IncidentTarget, None
      <4>4. ctx'[h].incidentSeen =
              IF pc[h] \in WritesIncident THEN IncidentTarget(h)
              ELSE IF pc[h] = "verify" THEN incidents[i] ELSE ctx[h].incidentSeen
        BY <1>1, <1>3, <2>2, StepLocals
      <4>5. QED
        BY <4>1, <4>2, <4>3, <4>4
    <3>4. QED
      BY <3>1, <3>2, <3>3 DEF Fresh
  <2>3. QED
    BY <2>1, <2>2
<1>4. QED
  BY <1>2, <1>3

LEMMA CoherentKept ==
  ASSUME NEW h \in Handlers, AgreeInv(h), Request(h) \/ Step(h)
  PROVE  Coherent(h)'
<1>1. IInv /\ Coherent(h) /\ Holding \subseteq WithPlan
  BY DEF AgreeInv, Holding, WithPlan, Labels
<1>2. CASE Request(h)
  BY <1>1, <1>2, RequestLocals DEF Coherent, Holding
<1>3. CASE Step(h)
  <2>1. CASE pc'[h] = "idle"
    BY <2>1 DEF Coherent, Holding
  <2>2. CASE pc'[h] # "idle"
    <3>1. /\ ctx'[h].plan = ctx[h].plan /\ ctx'[h].incident = ctx[h].incident
          /\ ctx'[h].decision = ctx[h].decision
      BY <1>1, <1>3, <2>2, StepLocals
    <3>2. ASSUME pc'[h] \in Holding \cup {"insert_ondemand"}
          PROVE  ctx[h].incident = plans'[ctx[h].plan].incident
      BY <1>1, <1>3, <3>2, StepLabels, Running, PlansAfter DEF Coherent
    <3>3. ASSUME pc'[h] = "decide"
          PROVE  approvals'[ctx'[h].approval].incident = ctx[h].incident
      <4>1. pc[h] = "insert_ondemand" /\ ctx'[h].approval = Len(approvals) + 1
        BY <1>1, <1>3, <2>2, <3>3, StepLabels, StepLocals
      <4>2. NewApproval(ctx[h].plan)
        BY <1>1, <1>3, <3>3, <4>1
           DEF Step, SuggestAnother, SubmitFirst, InsertRequested, AuditRequested,
               InsertDossier, InsertOnDemand, WriteDecision, MarkIncident,
               AuditDecision, AuditExecution, BeginExecution, PlaceOrder,
               CompletePlan, ResolveIncident, AuditExecuted, VerifyExecution,
               PassIncident, PassPlan, AuditPass, FailPlan, AuditFail,
               ReplanIncident, InsertRevisedPlan, InsertRevisedApproval,
               AuditReplan, Finish, Return, Goto
      <4>3. approvals \in Seq(Approval)
        BY <1>1 DEF IInv, TablesOK
      <4>4. approvals'[Len(approvals) + 1].incident = plans[ctx[h].plan].incident
        BY <4>2, <4>3, LenProperties DEF NewApproval
      <4>5. QED
        BY <1>1, <4>1, <4>4 DEF Coherent
    <3>4. ASSUME pc'[h] = "mark_incident"
          PROVE  /\ approvals'[ctx'[h].approval].incident = ctx[h].incident
                 /\ approvals'[ctx'[h].approval].status = ctx[h].decision
      <4>1. pc[h] = "decide" /\ ctx'[h].approval = ctx[h].approval
        BY <1>1, <1>3, <2>2, <3>4, StepLabels, StepLocals
      <4>2. ctx[h].approval \in DOMAIN approvals
        BY <1>1, <4>1, Running DEF HandlerOK, Deciding
      <4>3. QED
        BY <1>1, <4>1, <4>2, ApprovalsAfter DEF Coherent
    <3>5. ASSUME pc'[h] = "exec_resolve"
          PROVE  ctx'[h].planSeen = "COMPLETED"
      <4>1. pc[h] = "exec_complete"
        BY <1>1, <1>3, <3>5, StepLabels
      <4>2. QED
        BY <1>1, <1>3, <2>2, <4>1, StepLocals DEF PlanTarget
    <3>6. QED
      BY <3>1, <3>2, <3>3, <3>4, <3>5 DEF Coherent
  <2>3. QED
    BY <2>1, <2>2
<1>4. QED
  BY <1>2, <1>3

LEMMA ResolvedAgreesKept ==
  ASSUME NEW h \in Handlers, AgreeInv(h), Request(h) \/ Step(h)
  PROVE  ResolvedAgrees(h)'
<1> DEFINE Between == {"exec_order", "exec_complete", "pass_plan", "fail_audit",
                       "replan_incident"}
<1> SUFFICES ASSUME NEW i \in Incidents, incidents'[i] = "RESOLVED",
                    ~(i = ctx'[h].incident /\ pc'[h] \in Between)
             PROVE  \E p \in DOMAIN plans' : /\ plans'[p].incident = i
                                             /\ plans'[p].status = "COMPLETED"
  BY DEF ResolvedAgrees, PlansOf
<1>1. /\ IInv /\ Fresh(h) /\ Coherent(h) /\ ResolvedAgrees(h)
      /\ Holding \subseteq WithPlan
  BY DEF AgreeInv, Holding, WithPlan, Labels
<1>2. pc[h] # "idle" => Step(h)
  BY <1>1, RequestLocals
<1>3. incidents'[i] = IF /\ pc[h] \in WritesIncident
                         /\ i = ctx[h].incident
                         /\ ctx[h].incidentSeen # IncidentTarget(h)
                        THEN IncidentTarget(h) ELSE incidents[i]
  BY <1>1, IncidentsAfter
<1>4. pc[h] # "idle" /\ pc'[h] # "idle" => ctx'[h].incident = ctx[h].incident
  BY <1>1, <1>2, StepLocals
<1>5. ASSUME NEW p \in DOMAIN plans, plans[p].incident = i,
             WritesPlan(h, p) => PlanTarget[pc[h]] = "COMPLETED",
             ~WritesPlan(h, p) => plans[p].status = "COMPLETED"
      PROVE  \E q \in DOMAIN plans' : /\ plans'[q].incident = i
                                      /\ plans'[q].status = "COMPLETED"
  BY <1>1, <1>5, PlansAfter
<1>6. CASE i = ctx[h].incident /\ pc[h] \in {"exec_complete", "exec_resolve", "pass_plan"}
  <2>1. pc[h] \in Holding /\ ctx[h].plan \in DOMAIN plans
    BY <1>1, <1>6, Running DEF Holding
  <2>2. /\ plans[ctx[h].plan].incident = i
        /\ ctx[h].planSeen = plans[ctx[h].plan].status
        /\ pc[h] = "exec_resolve" => ctx[h].planSeen = "COMPLETED"
    BY <1>1, <1>6, <2>1 DEF Coherent, Fresh
  <2>3. QED
    BY <1>5, <1>6, <2>1, <2>2 DEF WritesPlan, PlanTarget
<1>7. CASE i = ctx[h].incident /\ pc[h] \in {"exec_order", "fail_audit", "pass_incident"}
  <2>1. pc'[h] \in Between
    BY <1>1, <1>2, <1>7, StepLabels
  <2>2. QED
    BY <1>4, <1>7, <2>1
<1>8. CASE i = ctx[h].incident /\ pc[h] = "replan_incident"
  <2>1. ctx[h].incidentSeen \in {None, incidents[i]}
    BY <1>1, <1>8 DEF Fresh
  <2>2. QED
    BY <1>3, <1>8, <2>1 DEF IncidentTarget, WritesIncident, None
<1>9. CASE ~(i = ctx[h].incident
             /\ pc[h] \in Between \cup {"exec_resolve", "pass_incident"})
  <2>1. incidents[i] = "RESOLVED"
    BY <1>3, <1>9 DEF WritesIncident, IncidentTarget
  <2>2. PICK p \in PlansOf(i) : plans[p].status = "COMPLETED"
    BY <1>1, <1>9, <2>1 DEF ResolvedAgrees
  <2>3. p \in DOMAIN plans /\ plans[p].incident = i
    BY <2>2 DEF PlansOf
  <2>4. CASE ~WritesPlan(h, p)
    BY <1>5, <2>2, <2>3, <2>4
  <2>5. CASE WritesPlan(h, p)
    <3>1. pc[h] \in Holding /\ ctx[h].incident = i /\ pc[h] # "idle"
      BY <1>1, <2>3, <2>5 DEF WritesPlan, PlanTarget, Coherent, Holding
    <3>2. pc[h] \notin {"exec_begin", "fail_plan"}
      BY <1>1, <1>2, <1>4, <3>1, StepLabels
    <3>3. QED
      BY <1>5, <2>3, <2>5, <3>2 DEF WritesPlan, PlanTarget
  <2>6. QED
    BY <2>4, <2>5
<1>10. QED
  BY <1>6, <1>7, <1>8, <1>9

LEMMA ApprovedAgreesKept ==
  ASSUME NEW h \in Handlers, AgreeInv(h), Request(h) \/ Step(h)
  PROVE  ApprovedAgrees(h)'
<1> SUFFICES ASSUME NEW i \in Incidents, incidents'[i] = "APPROVED",
                    ~(i = ctx'[h].incident /\ pc'[h] = "mark_incident")
             PROVE  \E a \in DOMAIN approvals' : /\ approvals'[a].incident = i
                                                 /\ approvals'[a].status = "APPROVED"
  BY DEF ApprovedAgrees
<1>1. IInv /\ Fresh(h) /\ Coherent(h) /\ ApprovedAgrees(h)
  BY DEF AgreeInv
<1>2. pc[h] # "idle" => Step(h)
  BY <1>1, RequestLocals
<1>3. incidents'[i] = IF /\ pc[h] \in WritesIncident
                         /\ i = ctx[h].incident
                         /\ ctx[h].incidentSeen # IncidentTarget(h)
                        THEN IncidentTarget(h) ELSE incidents[i]
  BY <1>1, IncidentsAfter
<1>4. CASE i = ctx[h].incident /\ pc[h] = "mark_incident"
  <2>1. ctx[h].incidentSeen \in {None, incidents[i]}
    BY <1>1, <1>4 DEF Fresh
  <2>2. IncidentTarget(h) = "APPROVED"
    BY <1>3, <1>4, <2>1 DEF IncidentTarget, WritesIncident, None
  <2>3. ctx[h].decision = "APPROVED"
    BY <1>4, <2>2 DEF IncidentTarget
  <2>4. /\ ctx[h].approval \in DOMAIN approvals
        /\ approvals[ctx[h].approval].incident = i
        /\ approvals[ctx[h].approval].status = "APPROVED"
    BY <1>1, <1>4, <2>3, Running DEF HandlerOK, Deciding, Coherent
  <2>5. QED
    BY <1>1, <1>4, <2>4, ApprovalsAfter
<1>5. CASE ~(i = ctx[h].incident /\ pc[h] = "mark_incident")
  <2>1. incidents[i] = "APPROVED"
    BY <1>3, <1>5 DEF WritesIncident, IncidentTarget
  <2>2. PICK a \in DOMAIN approvals :
               approvals[a].incident = i /\ approvals[a].status = "APPROVED"
    BY <1>1, <1>5, <2>1 DEF ApprovedAgrees
  <2>3. CASE pc[h] = "decide" /\ a = ctx[h].approval
    <3>1. ctx[h].incident = i
      BY <1>1, <2>2, <2>3 DEF Coherent
    <3>2. pc'[h] = "mark_incident"
      BY <1>1, <1>2, <2>3, StepLabels
    <3>3. ctx'[h].incident = ctx[h].incident
      BY <1>1, <1>2, <2>3, <3>2, StepLocals
    <3>4. QED
      BY <3>1, <3>2, <3>3
  <2>4. CASE ~(pc[h] = "decide" /\ a = ctx[h].approval)
    BY <1>1, <2>2, <2>4, ApprovalsAfter
  <2>5. QED
    BY <2>3, <2>4
<1>6. QED
  BY <1>4, <1>5

(* When a single handler serves all requests, so that none overlap, and none *)
(* dies, the status columns agree whenever it rests: a RESOLVED incident has *)
(* a COMPLETED plan and an APPROVED one an APPROVED approval.                *)
THEOREM Agreement ==
  ASSUME NEW h, Handlers = {h}
  PROVE  CrashFreeSpec => []StatusesAgree
<1>1. Init => AgreeInv(h)
  BY InitOK DEF Init, AgreeInv, Fresh, Coherent, Holding, ResolvedAgrees,
                ApprovedAgrees
<1>2. AgreeInv(h) /\ [CrashFreeNext]_vars => AgreeInv(h)'
  <2> SUFFICES ASSUME AgreeInv(h), [CrashFreeNext]_vars
               PROVE  AgreeInv(h)'
    OBVIOUS
  <2>1. IInv'
    BY NextKeeps DEF AgreeInv, Next
  <2>2. CASE CrashFreeNext
    <3>1. h \in Handlers /\ (Request(h) \/ Step(h))
      BY <2>2 DEF CrashFreeNext
    <3>2. QED
      BY <2>1, <3>1, FreshKept, CoherentKept, ResolvedAgreesKept,
         ApprovedAgreesKept DEF AgreeInv
  <2>3. CASE UNCHANGED vars
    BY <2>1, <2>3
       DEF vars, db, AgreeInv, Fresh, Coherent, ResolvedAgrees, ApprovedAgrees,
           PlansOf
  <2>4. QED
    BY <2>2, <2>3
<1>3. AgreeInv(h) => StatusesAgree
  BY DEF AgreeInv, ResolvedAgrees, ApprovedAgrees, StatusesAgree, Quiescent
<1>4. QED
  BY <1>1, <1>2, <1>3, PTL DEF CrashFreeSpec
=============================================================================
