---------------------------- MODULE PlanPipeline ----------------------------
(***************************************************************************)
(* From a disruption to a plan on a manager's desk: the graph of graph.py    *)
(* (supervisor, recovery, validation, approval gate) and the scenario lab's  *)
(* injection, which takes the same agents through the workflow service.      *)
(*                                                                         *)
(* Every node opens its own session and every helper commits, so a pipeline  *)
(* is a sequence of transactions; what it validates may change under it by   *)
(* the injection or the reset of a scenario.  One action is one transaction  *)
(* or, in validation and analysis, the SELECTs about one plan or disruption.  *)
(* Audit events are left out.  A row's id is its index.  A run that stops     *)
(* anywhere is one that has failed.                                         *)
(***************************************************************************)
EXTENDS Sourcing, FiniteSets

CONSTANTS
  InitialLinks,      \* functions from suppliers to rows
  InitialStock,      \* snapshots
  ModelSuggestions,  \* answers of the language model, {} if none is configured
  Scenarios,         \* those injected for the material
  ExpiringSupplier,  \* "SUP-21", whose certificate SCENARIO-4 invalidates
  ScenarioStock,     \* the snapshot SCENARIO-2 inserts
  Runs               \* pipelines, each goes through once

ScenarioIds == {"SCENARIO-2", "SCENARIO-4"}

ASSUME PipelineAssumption ==
  /\ IsFiniteSet(Suppliers)
  /\ Absent \notin Suppliers
  /\ InitialLinks \subseteq [Suppliers -> Link]
  /\ InitialStock \subseteq Snapshot
  /\ ModelSuggestions \subseteq Seq(Suggestion) \ {<<>>}
  /\ \A todo \in ModelSuggestions : \A i \in DOMAIN todo : ~todo[i].rules
  /\ Scenarios \subseteq ScenarioIds
  /\ ExpiringSupplier \in Suppliers
  /\ ScenarioStock \in Snapshot

VARIABLES
  links,      \* tables suppliers and supplier_materials
  stock,      \* the latest row of inventory_snapshots
  incidents,  \* table incidents: status and the analysis in workflow_state
  plans,      \* table recovery_plans
  approvals,  \* table approval_requests
  pc,         \* run -> the next step
  run         \* run -> the state passed along the graph, or the locals

tables == <<links, stock, incidents, plans, approvals>>
vars   == <<tables, pc, run>>

Modes == {"graph", "scenario"}

NoRun == [mode |-> "graph", incident |-> 0, analysed |-> 0, todo |-> <<>>,
          valid |-> TRUE, stored |-> <<>>, checked |-> 0, passed |-> {},
          selected |-> 0]

Labels == {"start", "register", "analyze", "suggest", "validate", "store",
           "check", "request", "offer", "insert", "finish", "done"}

Statuses == {"PROPOSED", "INVALID", "SELECTED"}

TypeOK ==
  /\ links \in [Suppliers -> Link]
  /\ stock \in Snapshot
  /\ \A i \in DOMAIN incidents :
       /\ incidents[i].status \in {"ANALYZING", "AWAITING_APPROVAL"}
       /\ incidents[i].analysis \in Analysis
  /\ \A p \in DOMAIN plans : /\ plans[p].incident \in DOMAIN incidents
                             /\ plans[p].status \in Statuses
                             /\ plans[p].score \in Nat
  /\ \A a \in DOMAIN approvals : approvals[a].plan \in DOMAIN plans
  /\ pc \in [Runs -> Labels]
  /\ \A r \in Runs : /\ run[r].mode \in Modes
                     /\ run[r].todo \in Seq(Suggestion)
                     /\ run[r].passed \subseteq DOMAIN plans

Init ==
  /\ links \in InitialLinks
  /\ stock \in InitialStock
  /\ incidents = <<>>
  /\ plans = <<>>
  /\ approvals = <<>>
  /\ pc = [r \in Runs |-> "start"]
  /\ run = [r \in Runs |-> NoRun]

-----------------------------------------------------------------------------
(* Helpers *)

Step(r, from, to, locals) ==
  /\ pc[r] = from
  /\ pc' = [pc EXCEPT ![r] = to]
  /\ run' = [run EXCEPT ![r] = locals]

NewIncident == [status |-> "ANALYZING", analysis |-> NoAnalysis]

(* Mutant: an invalid plan keeps its score. *)
NewPlanUnhalved(incident, s, valid) ==
  [incident |-> incident, type |-> s.type, supplier |-> s.supplier,
   quantity |-> s.quantity, allocations |-> s.allocations,
   coherent |-> s.coherent, rules |-> s.rules, score |-> s.score,
   status |-> IF valid THEN "PROPOSED" ELSE "INVALID"]

(* create_plan of what generate_plans made of a suggestion *)
NewPlan(incident, s, valid) ==
  [incident |-> incident, type |-> s.type, supplier |-> s.supplier,
   quantity |-> s.quantity, allocations |-> s.allocations,
   coherent |-> s.coherent, rules |-> s.rules,
   score |-> IF valid THEN s.score ELSE HalfEven(s.score, 2),
   status |-> IF valid THEN "PROPOSED" ELSE "INVALID"]

Holds(p) == PlanValid(links, stock, plans[p])

(* Mutant: the first plan generated is taken for the best. *)
BestIsFirst(seq) == seq[1]

(* Python's max: the first of those with the highest score. *)
Best(seq) ==
  seq[CHOOSE i \in DOMAIN seq :
        \A j \in DOMAIN seq :
          /\ plans[seq[j]].score <= plans[seq[i]].score
          /\ j < i => plans[seq[j]].score < plans[seq[i]].score]

-----------------------------------------------------------------------------
(* Scenario lab: injection and reset *)

(* The writes of the scenario and the incident it reports, in one commit. *)
InjectScenario(r, scenario) ==
  /\ Step(r, "start", "register",
          [NoRun EXCEPT !.mode = "scenario", !.incident = Len(incidents) + 1])
  /\ incidents' = Append(incidents, NewIncident)
  /\ links' = IF scenario = "SCENARIO-4"
              THEN [links EXCEPT ![ExpiringSupplier].certified = FALSE]
              ELSE links
  /\ stock' = IF scenario = "SCENARIO-2" THEN ScenarioStock ELSE stock
  /\ UNCHANGED <<plans, approvals>>

(* reset_scenario restores the certificate.  It does not remove the snapshot. *)
ResetScenario ==
  /\ "SCENARIO-4" \in Scenarios
  /\ links' = [links EXCEPT ![ExpiringSupplier].certified = TRUE]
  /\ UNCHANGED <<stock, incidents, plans, approvals, pc, run>>

-----------------------------------------------------------------------------
(* Supervisor *)

(* start_workflow creates an incident of its own, also for one that exists. *)
RegisterIncident(r, from) ==
  /\ LET i == Len(incidents) + 1
     IN Step(r, from, "analyze",
             [run[r] EXCEPT !.analysed = i,
                            !.incident = IF run[r].mode = "graph" THEN i ELSE @])
  /\ incidents' = Append(incidents, NewIncident)
  /\ UNCHANGED <<links, stock, plans, approvals>>

(* Risk and candidates, stored with the incident start_workflow created. *)
Analyze(r) ==
  /\ Step(r, "analyze", "suggest", run[r])
  /\ \E ranking \in Rankings(links, RequiredQuantity(stock)) :
       incidents' = [incidents EXCEPT ![run[r].analysed].analysis =
                       Assess(stock, ranking)]
  /\ UNCHANGED <<links, stock, plans, approvals>>

-----------------------------------------------------------------------------
(* Recovery agent *)

(* The language model's answer, or the rules if none is configured or it      *)
(* fails.                                                                    *)
Suggest(r) ==
  /\ pc[r] = "suggest"
  /\ \E todo \in ModelSuggestions
                   \cup {Suggestions(links, incidents[run[r].incident].analysis)} :
       Step(r, "suggest", "validate", [run[r] EXCEPT !.todo = todo])
  /\ UNCHANGED tables

ValidateSuggestion(r) ==
  /\ run[r].todo # <<>>
  /\ Step(r, "validate", "store",
          [run[r] EXCEPT !.valid = PlanValid(links, stock, Head(run[r].todo))])
  /\ UNCHANGED tables

StorePlan(r) ==
  /\ Step(r, "store", "validate",
          [run[r] EXCEPT !.todo = Tail(@), !.stored = Append(@, Len(plans) + 1)])
  /\ plans' = Append(plans, NewPlan(run[r].incident, Head(run[r].todo), run[r].valid))
  /\ UNCHANGED <<links, stock, incidents, approvals>>

(* The end of generate_plans; recovery_node chooses the best plan. *)
EndRecovery(r) ==
  /\ run[r].mode = "graph"
  /\ run[r].todo = <<>>
  /\ Step(r, "validate", "check", [run[r] EXCEPT !.selected = Best(run[r].stored)])
  /\ UNCHANGED tables

(* recommend: the best plan becomes SELECTED, whatever its status. *)
SelectPlan(r) ==
  /\ run[r].mode = "scenario"
  /\ run[r].todo = <<>>
  /\ Step(r, "validate", "offer", [run[r] EXCEPT !.selected = Best(run[r].stored)])
  /\ plans' = [plans EXCEPT ![Best(run[r].stored)].status = "SELECTED"]
  /\ UNCHANGED <<links, stock, incidents, approvals>>

-----------------------------------------------------------------------------
(* Validation node and approval gate *)

(* The node's loop: the next plan is validated once more. *)
CheckPlan(r) ==
  /\ run[r].checked < Len(run[r].stored)
  /\ LET p == run[r].stored[run[r].checked + 1]
     IN Step(r, "check", "check",
             [run[r] EXCEPT !.checked = @ + 1,
                            !.passed = IF Holds(p) THEN @ \cup {p} ELSE @])
  /\ UNCHANGED tables

(* The selected plan if it passed, else the first that did. *)
ApprovalGate(r) ==
  /\ run[r].checked = Len(run[r].stored)
  /\ run[r].passed # {}
  /\ Step(r, "check", "request",
          [run[r] EXCEPT !.selected =
             IF @ \in run[r].passed THEN @
             ELSE run[r].stored[SelectInSeq(run[r].stored,
                                            LAMBDA p : p \in run[r].passed)]])
  /\ UNCHANGED tables

(* BLOCKED_INVALID_PLAN *)
BlockRun(r) ==
  /\ run[r].checked = Len(run[r].stored)
  /\ run[r].passed = {}
  /\ Step(r, "check", "done", NoRun)
  /\ UNCHANGED tables

(* Mutant: what the validation node found is trusted. *)
RequestPlanApprovalUnchecked(r) ==
  /\ Step(r, "request", "insert", [run[r] EXCEPT !.valid = Holds(run[r].selected)])
  /\ UNCHANGED tables

(* request_plan_approval validates once more and raises if the plan fails. *)
RequestPlanApproval(r) ==
  /\ pc[r] = "request"
  /\ IF Holds(run[r].selected)
     THEN Step(r, "request", "insert", [run[r] EXCEPT !.valid = TRUE])
     ELSE Step(r, "request", "done", NoRun)
  /\ UNCHANGED tables

(* The row is inserted in a later statement.  "held" is no column: it is what *)
(* the request's validation found.  The plan has no pending approval yet.     *)
InsertApproval(r) ==
  /\ Step(r, "insert", IF run[r].mode = "graph" THEN "done" ELSE "finish",
          IF run[r].mode = "graph" THEN NoRun ELSE run[r])
  /\ approvals' = Append(approvals,
                         [incident |-> plans[run[r].selected].incident,
                          plan |-> run[r].selected, by |-> run[r].mode,
                          held |-> run[r].valid])
  /\ UNCHANGED <<links, stock, incidents, plans>>

-----------------------------------------------------------------------------
(* The end of an injection *)

(* list_plans_for_incident, without the invalid ones: those it may put first. *)
TopPlans(i) ==
  LET offered == {p \in DOMAIN plans : /\ plans[p].incident = i
                                        /\ plans[p].status # "INVALID"}
  IN {p \in offered : \A q \in offered : plans[q].score <= plans[p].score}

(* If request_plan_approval raises, the injection inserts the row itself. *)
OfferTopPlan(r) ==
  /\ pc[r] = "offer"
  /\ \E p \in TopPlans(run[r].incident) :
       Step(r, "offer", "insert", [run[r] EXCEPT !.selected = p, !.valid = Holds(p)])
  /\ UNCHANGED tables

(* Mutant: a plan's status is written to the incident. *)
MarkIncidentAsProposed(r) ==
  /\ Step(r, "finish", "done", NoRun)
  /\ incidents' = [incidents EXCEPT ![run[r].incident].status = "PROPOSED"]
  /\ UNCHANGED <<links, stock, plans, approvals>>

MarkIncident(r) ==
  /\ Step(r, "finish", "done", NoRun)
  /\ incidents' = [incidents EXCEPT ![run[r].incident].status = "AWAITING_APPROVAL"]
  /\ UNCHANGED <<links, stock, plans, approvals>>

-----------------------------------------------------------------------------
Next ==
  \/ ResetScenario
  \/ \E r \in Runs :
       \/ \E scenario \in Scenarios : InjectScenario(r, scenario)
       \/ RegisterIncident(r, "start")
       \/ RegisterIncident(r, "register")
       \/ Analyze(r)
       \/ Suggest(r)
       \/ ValidateSuggestion(r)
       \/ StorePlan(r)
       \/ EndRecovery(r)
       \/ SelectPlan(r)
       \/ CheckPlan(r)
       \/ ApprovalGate(r)
       \/ BlockRun(r)
       \/ RequestPlanApproval(r)
       \/ InsertApproval(r)
       \/ OfferTopPlan(r)
       \/ MarkIncident(r)

Spec == Init /\ [][Next]_vars

-----------------------------------------------------------------------------
(* Properties *)

(* A plan the graph puts to a manager was valid when its approval was         *)
(* requested, although it was generated and checked in earlier transactions   *)
(* and a certificate may have expired or stock been recounted since           *)
(* (graph.py, approval_gate_node; workflow_service.py, request_plan_approval).*)
OfferedPlansHold ==
  \A a \in DOMAIN approvals : approvals[a].by = "graph" => approvals[a].held

(* The plan the gate is about to put to a manager passed the validation node, *)
(* and of the plans the rules made none that passed has a higher score,       *)
(* whether the selected plan passed or the gate fell back on another.  A      *)
(* language model may suggest more than two plans, and then the fallback is   *)
(* the first that passed, not the best (graph.py, approval_gate_node).         *)
GateOffersBest ==
  \A r \in Runs : pc[r] = "request" =>
    /\ run[r].selected \in run[r].passed
    /\ \A p \in run[r].passed :
         plans[p].rules => plans[p].score <= plans[run[r].selected].score

(* What the rules buy is what is needed or, if less, all that the suppliers   *)
(* which passed the filters have; nobody is asked for more than he has, and    *)
(* one is asked for less only if nobody is asked after him (the split          *)
(* allocation of llm_provider.py).                                           *)
AllocationsAddUp ==
  \A p \in DOMAIN plans : plans[p].rules /\ plans[p].allocations # <<>> =>
    LET bought    == plans[p].allocations
        a         == incidents[plans[p].incident].analysis
        capacity  == Total([i \in DOMAIN a.ranking |-> links[a.ranking[i]].available])
    IN /\ plans[p].quantity = Total([i \in DOMAIN bought |-> bought[i].quantity])
       /\ plans[p].quantity = Least(NeededUnits(a), capacity)
       /\ \A i \in DOMAIN bought :
            /\ bought[i].quantity \in 1..links[bought[i].supplier].available
            /\ i < Len(bought) =>
                 bought[i].quantity = links[bought[i].supplier].available

(* Of the plans the rules made for one incident, none that failed its         *)
(* validation ranks above or equal to one that passed: halving the score is   *)
(* all that keeps the best-scored plan from being an invalid one              *)
(* (recovery_recommendation.py).                                             *)
InvalidRanksBelow ==
  \A p, q \in DOMAIN plans :
    /\ plans[p].incident = plans[q].incident
    /\ plans[p].rules /\ plans[q].rules
    /\ plans[p].status = "INVALID" /\ plans[q].status = "PROPOSED"
    => plans[p].score < plans[q].score
=============================================================================
