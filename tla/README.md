# Supply-Chain-Ops: TLA+ models, checks and proofs

The repository is a procurement back end (FastAPI, SQLAlchemy on PostgreSQL) that
detects supply incidents, recommends recovery plans, lets a human approve one,
executes it by placing a purchase order, verifies the outcome and replans when
it falls short; beside that loop it raises alerts, escalates some of them and
keeps versioned purchase orders for a contract API. This directory models the
parts of it in which the order of events matters, checks them with TLC and
proves the most important properties with TLAPS.

Paths below are relative to `src/backend/app/` unless they say otherwise.

## 1. Inventory

| Component | State | Operations | Hard behaviour | What makes it correct |
|---|---|---|---|---|
| Recovery workflow: `api/approvals.py`, `services/workflow_service.py`, `agents/verification_replanning.py`, `db/repositories/*` | `incidents.status`, `recovery_plans`, `approval_requests`, `purchase_orders`, `audit_events` | request approval, approve, reject, execute, verify, replan, assumption failure | a request is many commits; two requests interleave at any commit, a request may die at any commit, and sessions keep stale rows | no order without a granted approval of its plan; every order accounted for; status columns agree; a failed plan gets a successor |
| Plan recommendation: `api/recovery.py`, `agents/recovery_recommendation.py` | `recovery_plans` | recommend (stores all suggestions), generate (validates and selects), list | several commits, validation between them | the selected plan is valid and the best by the score |
| Incidents and dossier: `api/incidents.py` | `incidents`, `recovery_plans`, `approval_requests` | create, analyse, dossier (a GET that writes) | the GET re-creates missing plans and approvals; two of them race | reading an incident twice creates nothing twice |
| Alert desk: `services/alert_rules.py`, `api/contract_api.py` | `alerts`, `escalations`, `audit_log`, `contract_purchase_orders` | scan, resolve, fetch, versioned patch | overlapping scans and patches; decisions repeated; a writer that ignores versions | one open alert per finding; alert, escalation and audit row in step; no lost update |
| Scenario lab: `services/scenario_service.py` | writes rows of every table | inject, list, reset | several tables written before the incident exists, which foreign keys may refuse; mixes helpers that commit | a disruption is stored with its incident or not at all |
| Supervisor and graph: `agents/supervisor.py`, `graph.py` | graph state | analyse, generate, validate, request approval | each node has its own session; what one found the next one trusts | a plan put to a manager is valid and the best of those that passed |
| Engines: `engines/*.py` | none | coverage, averages, trend, stop time, risk level, filters, scores, validation, pricing, simulation | thresholds, zero consumption, uneven spacing of counts, ties, rounding | figures of one report tell one story; more stock never looks worse |
| Suggestions: `services/llm_provider.py` | none | greedy split allocation, external model | capacity limits, rounding | allocates no more than is available |
| Tools: `tools/*.py` | stock, supplier and order rows | performance counters, prioritisation, order updates | read-modify-write of counters, within a transaction that may be rolled back | the supplier memory counts nothing nobody reported |
| Sessions: `db/session.py` | connection pool, identity map | one session per request, `expire_on_commit=False` | remembered columns suppress an `UPDATE` | - |
| Start-up and seed: `main.py`, `db/seed.py`, `seed/seed_data.py` | catalog, every table | create tables and indexes, probe, insert group by group, commit | a start may die anywhere and the next one probes a single table; groups must respect foreign keys | only a fully seeded database is served; every start that lives serves |
| Dashboard: `api/dashboard.py` | none | production at risk | judges the stock by rules of its own | never calmer than the alerts |
| Incident page: `src/frontend/src/pages/IncidentDetails.jsx`, `services/api.js` | the page of each tab | load, authorise, reject, dispatch | a press sends what was loaded long before; the dossier pairs plan and approval by position and writes while it reads | what is dispatched was displayed; nothing is offered twice |
| Other read-only APIs, migrations, worker heartbeat, messaging, RFQ, tracking, other pages | - | queries, single inserts, rendering | - | - |

How they interact: the client calls the API; every request opens its own session
(`db/session.py:36-38`). The repository helpers (`db/repositories/`) commit each
write, so a handler of the recovery workflow is a sequence of small transactions
that share nothing but the tables, under READ COMMITTED and without row locks.
`execute_plan` calls `verify_execution` in the same request, which calls
`replan_incident` when it fails; that inserts a new plan and a new approval, and
the loop starts over when a human decides it. The contract API commits once per
request. The scenario lab writes into the tables of both, reports to the same
supplier memory as the verification, and calls the pipeline. The incident page
loads dossiers and sends approvals and executions to the recovery workflow; it
shares no state with the server beyond the ids it was answered.

`PROJECT.json` lists every component with its status, and under `hazards` what
in this code is hard to test, with the property that covers it.

## 2. Modules

| Module | What it is |
|---|---|
| `RecoveryWorkflow` | the recovery workflow: tables, request handlers, one action per transaction, and its properties |
| `ApprovalGate` | what the workflow promises at the gate, without handlers and tables: an order is placed only for a plan authorised before |
| `RecoveryClaims` | statements of documents, comments and tests about the workflow that the code does not keep |
| `MCRecoveryWorkflow` | instances of the above for TLC |
| `RecoveryProofs` | the inductive invariant of `RecoveryWorkflow`, type correctness, the two safety theorems, and that it implements `ApprovalGate` |
| `RestProofs` | what the workflow leaves when all requests have been answered, unless one died: four theorems |
| `ContractDesk` | the alert desk and the versioned purchase orders, with its properties |
| `MCContractDesk` | its instances |
| `DeskProofs` | the inductive invariants of `ContractDesk`, for all interleavings and for requests that do not overlap, and the theorems that follow |
| `Sourcing` | the rules as pure operators: coverage and risk, supplier filters and score, suggestions with the split allocation, plan validation |
| `PlanPipeline`, `MCPlanPipeline` | from a disruption to a plan on a manager's desk: supervisor, recovery, validation and gate, and the scenario lab's injection; uses `Sourcing`; instances |
| `SourcingProofs` | lemmas about the operators of `Sourcing`: the folds it is built from, the split, the qualified suppliers, what the rules suggest and how they score it |
| `PipelineProofs` | the inductive invariants of `PlanPipeline` and its theorems |
| `Planning` | the rules on top of `Sourcing`: averages over the stock history, trend, hours to stop, simulation, production priorities, dashboard risk and stock alerts |
| `StockWatch`, `MCStockWatch` | the tables these rules read, as they change, and what the rules make of every such state; instances |
| `WatchProofs` | lemmas about the operators of `Planning`, and the properties of `StockWatch` for every state of the tables |
| `Startup` | the start of the process and the two seed routines, with the rows and foreign keys they meet |
| `ScenarioLab`, `MCScenarioLab` | extends `Startup` by injections, resets and the supplier memory, with the death of the process at any point; claims of the documents about the lab; instances |
| `LabProofs` | the inductive invariant of `Startup` and `ScenarioLab` and its theorems |
| `ControlTower`, `MCControlTower` | extends `RecoveryWorkflow` by the dossier and the incident pages that send its requests; instances |
| `TowerProofs` | the inductive invariants of `ControlTower` and its theorems |

Operators introduced by a comment "Mutant:" are variants of a definition with a
plausible bug. No specification uses them; they are there to show that a
property notices the bug (see `mutants` in `PROJECT.json`).

### 2.1 RecoveryWorkflow

*State.* `incidents`, `plans`, `approvals`, `orders` and `audit` are the tables
(a row's id is its position). `pc[h]` is the transaction handler `h` runs next,
`ctx[h]` its locals. Two fields of `ctx` deserve a word: `planSeen` and
`incidentSeen` are the status columns the session remembers of a row that the
handler still holds. The factory sets `expire_on_commit=False`, so a commit does
not refresh them, and SQLAlchemy emits no `UPDATE` for a column that is assigned
the value it remembers: `SetPlanStatus` and `SetIncidentStatus` skip the write
then. Rows that no variable of the handler refers to any more leave the weak
identity map, so a verification loads its incident afresh. `granted` is a history
variable: the approvals that were ever approved. `purchase_orders` has no column
for the plan or the approval; the model records both with the order, as what the
properties are about.

*Actions.* One action is one transaction; the SELECTs that precede a write up to
the previous commit are merged with it.

| Request | Actions in order | Code |
|---|---|---|
| `POST /incidents/{i}/recommend` | `RecommendPlans`, `SuggestAnother`*, `SubmitFirst`, `InsertRequested`, `AuditRequested` | `api/recovery.py:73-146` |
| `POST /plans/{p}/approval` | `RequestApproval`, `InsertRequested`, `AuditRequested` | `workflow_service.py:28-76` |
| `GET /incidents/{i}/dossier` | `OpenDossier`, `InsertDossier` | `api/incidents.py:283-323` |
| `POST /approvals/{id}/approve`, `/reject` | `DecideApproval` or `DecideOnDemand`, `InsertOnDemand`; `WriteDecision`, `MarkIncident`, `AuditDecision` | `api/approvals.py:55-194` |
| `POST /plans/{p}/execute` | `ExecutePlan`, `AuditExecution`, `BeginExecution`, `PlaceOrder`, `CompletePlan`, `ResolveIncident`, verification, `AuditExecuted` | `workflow_service.py:147-236` |
| `POST /plans/{p}/verify` | `VerifyPlan`, `VerifyExecution`; `PassIncident`, `PassPlan`, `AuditPass` or `FailPlan`, `AuditFail`, replanning | `verification_replanning.py` |
| replanning | `ReplanIncident`, `InsertRevisedPlan`, `InsertRevisedApproval`, `AuditReplan` | `verification_replanning.py:198-389` |
| assumption failure | `HandleAssumptionFailure`, replanning | `verification_replanning.py:391-` |

`Crash(h)` ends a request between two transactions, by an exception or the death
of the process.

*Abstractions.*
- Requests that change nothing (404, 409, "already pending", a failed validation)
  are stuttering steps. Whether the validation engine accepts a plan is left open.
- All incidents are about one material. Verification matches an order by material
  and supplier, not by plan, and that is kept: any order of the supplier counts.
- A verification may fail for reasons outside the model (a supplier claim that
  misleads, the status of the order found), so failing is always possible and
  passing requires a fulfilling order.
- The plan type `MONITOR_ONLY`, for which verification would expect no order, is
  produced nowhere in the code, so verification always expects one. A plan
  without supplier or quantity is verified against the code's defaults.
- Approving by a plan's or an incident's id decides the approval found, which
  `DecideApproval` covers; only the creation on demand is an action of its own.
  On-demand creation takes any plan of the incident (scores are abstracted).
- The audit table is the set of its distinct rows.
- `handle_assumption_failure` has no route; tests call it. It is modelled as a
  request.

### 2.2 ContractDesk

*State.* `pos`, `alerts`, `escalations`, `audit` are tables, `now` the date,
`view[c]` the purchase order client `c` has fetched last (which may be
arbitrarily old when it patches), `pc` and `ctx` as above; `ctx[c].seen` is the
purchase order a patch has read, `ctx[c].was` the status of the escalation a
resolution has read. `Entities` are the ids alerts may be about. Alerts and
escalations have random ids in the code; here an id is a position, and the order
of rows inserted in one commit means nothing.

*Actions.* Every request reads, then commits once, so the death of a request
leaves nothing behind and needs no action. `GetPurchaseOrder`;
`PatchPurchaseOrder` (the read and the version check) and `WritePatch` (the
commit, which writes only the columns that differ from the row read);
`ScanDelayed`, `ScanBudget`, `ScanOpen` (SELECTs, each seeing what is committed by
then) and `InsertAlerts` (the commit); `ResolveEscalation` and `WriteResolution`;
`RunScenario` (the scenario lab's write of the status column); `Tick`.

*Abstractions.* The rules on components, supplier messages and production orders
read tables nothing here writes: they report any of `OtherFindings`. Severity,
texts and `cost_delta` are left out. Amounts are in the unit of the columns.

`TrailReplays` reads the log the way an auditor would: `UpdateRows(p)` are the
positions of the updates of one order, every row leads from one version to the next,
and its terms are those the next row starts from or, for the last, those in force.

### 2.3 Sourcing

The tables are constants and arguments here: a row of `supplier_materials` joined
with its supplier (`Link`), the latest stock snapshot (`Snapshot`), what the
analysis stores (`Analysis`) and a suggestion. Each operator is one function of
`engines/` or of `services/llm_provider.py`, in its order of tests:
`calculate_risk` compares the *rounded* coverage and discrepancy; a promise of 0
counts as none recorded; the filters ask for the missing quantity or else for the
whole usable stock; the greedy split goes by `available_quantity` although the
filters go by the promise; validation demands that the own store holds the
ordered quantity as well and checks the order minimum only of plans without
allocations.

*Abstractions.* Quantities are whole units, scores and percentages hundredths. The
average consumptions come with the snapshot. What price and lead time contribute
to a score is one number (`terms`), and whether a plan's lead times and cost agree
with its suppliers and quantities is one flag (`coherent`), which the rules always
set and a language model may not. No rule reads the rest of a plan. Suppliers
whose scores tie may be ranked either way: the query has no ORDER BY.

### 2.4 PlanPipeline

*State.* `links`, `stock`, `incidents`, `plans`, `approvals` are the tables as far as
the pipeline uses them; `run[r]` is the state the graph passes along, or the
locals of an injection. `held` of an approval is no column: it records what the
validation in its request found. `rules` marks what the deterministic provider
suggested.

| Part | Actions | Code |
|---|---|---|
| injection, reset | `InjectScenario`, `ResetScenario` | `scenario_service.py:227-390, 443-482` |
| supervisor | `RegisterIncident`, `Analyze` | `agents/supervisor.py:18-111` |
| recovery agent | `Suggest`, `ValidateSuggestion`, `StorePlan` per suggestion; `EndRecovery` or `SelectPlan` | `recovery_recommendation.py:20-129`, `graph.py:94-117` |
| validation node | `CheckPlan` per plan | `graph.py:121-178` |
| approval gate | `ApprovalGate` or `BlockRun`, `RequestPlanApproval`, `InsertApproval` | `graph.py:213-250`, `workflow_service.py:28-66` |
| end of an injection | `OfferTopPlan`, `InsertApproval`, `MarkIncident` | `scenario_service.py:398-427` |

A pipeline that fails is one that stops: every run of the specification may stop
anywhere, as nothing is assumed fair.

*Abstractions.* The SELECTs of one validation, and those of one analysis, are one
step although READ COMMITTED lets a write fall between them. One material stands
for the materials of SCENARIO-2 and SCENARIO-4. Simulation reports and audit events
are left out, as no step reads them. A plan has no pending approval when its
pipeline asks for one: the requests of `RecoveryWorkflow` are not composed with
this module yet. Of a language model's answer any sequence of well-formed
suggestions about known suppliers is allowed. `rules` is no column either: it records
the provider, so that a model's answer never carries it, whatever it suggests.

### 2.5 Startup and ScenarioLab

*State.* `db` counts the committed rows of every table by key (0: absent), `tx` are
the rows the seed transaction has flushed and not committed; `server`, `stage` and
`step` say where a start is. A row is a pair of table and key; rows that no
statement tells apart are one. `References` are the foreign keys. On top of it
`cells` are the columns injections and resets overwrite, `inserted` the scenarios
whose own rows (messages, snapshots, notices) are stored, `memory` the table
`supplier_performance`, `incidents` and `injected` the incidents and their audit
events; `reports` and `answers` are history variables.

| Part | Actions | Code |
|---|---|---|
| start | `Start`, `CreateTables`, `CreateIndexes` | `main.py:28-`, `db/session.py` |
| each seed routine | `ProbeSeeded` or `ProbeEmpty`, `FlushGroup` per flush, `CommitStage` | `db/seed.py`, `seed/seed_data.py` |
| injection | `InjectScenario` or `InjectionRefused`; `RecordMismatch` (SCENARIO-3); `CreateIncident` or `IncidentRefused`; `AuditInjection`; `EndInjection` or `PipelineFails` | `scenario_service.py:159-440` |
| reset | `ResetScenario` | `scenario_service.py:443-482` |
| verification | `ReportOnTime`, `LogVerificationPassed` | `supplier_tools.py:58-85`, `verification_replanning.py` |
| environment | `Crash` (the process dies, uncommitted work with it), `AddMasterData` (an operator enters rows the scenarios expect) | - |

A reset is one commit. `record_supplier_performance` reads the latest record, counts
up in memory and flushes; the caller commits, and writes only the columns that
changed: `Record` and `Committed`.

*Abstractions.* The pipeline at the end of an injection is one step with three
outcomes (its detail is `PlanPipeline`). Cells hold "seeded", "disrupted" or
"reset": a reset does not restore everything (SCENARIO-1 keeps the expected date and
the messages and sets another status than was seeded, SCENARIO-2 keeps its snapshot
and sets another stock, SCENARIO-3 and -5 restore nothing, SCENARIO-4 leaves the
certificates of the contract table, SCENARIO-6 the priorities), so it is no
inverse and no property says it is. One process starts at a time: the deployment
runs one backend.

### 2.6 Planning and StockWatch

`Planning` is the remainder of `engines/risk_engine.py` and
`engines/simulation_engine.py`, `prioritize_production_orders`, the dashboard's
`production_at_risk` and two alert rules, as functions of table rows. Averages are
exact fractions where the code has decimals of 28 digits; rounding is kept where
the code rounds. Time is in half days, because the code takes whole days between
two counts and ignores pairs less than a day apart. `StockWatch` lets counts,
time and production orders come in (`CountStock`, `TimePasses`, `EnterOrder`). A window of counts, the daily rates of its pairs and the
queue of production orders are sequences, folded over as the loops of the code run
through them; rates of pairs are a list because two pairs with the same rate count
twice. The
properties compare the rules with each other and with reference definitions in
every table that can come about. Texts sort as texts: `ServedRank` is what
descending order makes of the priorities (medium, low, high, CRITICAL).

### 2.7 ControlTower

*State.* That of `RecoveryWorkflow`, `scores` of the plans, and of the browser:
`pages[c]` is what tab `c` shows (incident, plan, approval, whether that approval is
itself `approved`, and the buttons offered),
`serving[h]` the tab whose request handler `h` runs, `reloading` the tabs whose
press was answered and that have yet to load again; `seen`, `unseen` (the approvals
that a request from no page granted first) and `dispatched` are history variables.

| Part | Actions | Code |
|---|---|---|
| loading a dossier | `OpenPage`, `ReloadPage`; `GeneratePlan`, `FailDuplicate`, `ShowWithoutPlan`; `LoadApproval` or `LoadNewApproval`, `ShowInserted` | `api/incidents.py:160-323`, `IncidentDetails.jsx:20-36`, `api.js` |
| buttons | `Approve`, `Reject`, `Dispatch` | `IncidentDetails.jsx:38-111` |
| requests of API clients, from no page, and the transactions of all requests | `OtherRequest`, `WorkflowStep` | as in 2.1; `api/recovery.py:73-83` |

A dossier may be answered without a plan in three ways. The incident has no material
(`Unsourced`: the column is nullable), so nothing is generated; generation raises and
the exception is swallowed, before or after it has committed a plan
(`ShowWithoutPlan`); or the plans are committed, the dossier inserts them a second
time, fails, and the page shows the bare incident (`FailDuplicate`). Such a page shows
the latest approval, if any, and no button. Loading it again may or may not
find a plan, and no property says which.

*Abstractions.* A press the server refuses changes nothing and is left out; the load
that follows it is an `OpenPage`. A generated plan that validation calls INVALID
counts as PROPOSED: no action asks for the difference. Which plan the user has
selected in the list makes no difference to the requests while a plan is shown.
Requests do not die here: a verification that dies after it has superseded a plan
leaves a page that offers the dispatch again, so `NoSecondDispatch` is about
requests that are answered.

*What `OrdersAsShown` says, and what it cannot.* API clients that approve by the
endpoint have seen no page, so the property is about orders whose approval was not
granted by one of them (`unseen`); an approval that was first granted there and then
from a page counts as theirs. Of the others, an order buys a plan no better than
one that a page displayed next to its approval; and if a page that showed the approval
itself as approved sent the dispatch, it buys one that ties with a plan so displayed.
The second part cannot be had for every order. A page of an incident that is APPROVED
through an older approval offers "dispatch" while its latest approval is still
pending; that approval may then be granted from another tab, which shows a better
plan that has been added since, and the first page then dispatches the worse plan it
still shows, which is the one the approval names. This takes more requests than the bound of the run allows, and was met when
the proof of the equality failed. Both parts need requests that do not overlap: the
dossier reads the plans and later the approval, and with a second handler in between
TLC finds an order whose plan was never displayed. Hence one handler, in the run and
as a hypothesis of the theorem.

## 3. Runs

| Run | Specification and bounds | What it shows |
|---|---|---|
| `WorkflowGate` | `Spec` with crashes, 2 handlers, 3 requests, up to 2 plans, of which one or none at the start | `TypeOK`, `OrdersAuthorized`, `OrdersAudited`; the workflow implements `ApprovalGate` |
| `WorkflowRest` | `FairSpec`: fair, no crashes; 2 handlers, 3 requests, an older order in the table | what overlapping handlers leave once idle: `NoPlanLeftExecuting`, `SupersededHasSuccessor`, `ResolvedWasVerified`; and `FailureReachesHuman` |
| `DeskOverlap` | 2 clients, 4 requests | `TypeOK`, `EscalatedOnce`, `ResolvedTogether`, `TrailComplete` in every interleaving |
| `DeskSerial` | 2 clients, 4 requests that do not overlap | `NoDuplicateOpenAlert`, `TotalsConsistent`, `TrailReplays`, `UpdatesSeeCurrentTerms`, `ScanRaisesFindings` |
| `Pipeline` | 2 pipelines, 2 suppliers in 4 constellations, 4 snapshots, a language model that may answer, injection and reset of both scenarios | `TypeOK`, `OfferedPlansHold`, `GateOffersBest`, `AllocationsAddUp`, `InvalidRanksBelow` |
| `Lab` | `FairSpec`: 2 starts, death at any point, 2 sessions, 3 requests, missing master data added or not | `LabTypeOK`, `ServesOnlySeeded`, `InjectionAtomic`, `MemoryNeverInvents`; `StartsServe` |
| `Watch` | up to 3 counts of 3 quantities, half a day to 29 days apart; up to 3 production orders; 2 daily usages | `TypeOK`, `AverageWithinRates`, `StopFollowsTrend`, `ServedFromStock`, `SimulationOrdersPlans`, `AlertsShowOnDashboard` |
| `Tower` | 2 tabs, 1 handler, 3 requests that change something and any number of loads, no plan or two plans | `TowerTypeOK`, `OrdersAsShown`, `NoSecondDispatch`; and `StatusesAgree`, which needs requests that do not overlap |
| `ClaimOneOrder`, `ClaimLogged` | the workflow with one handler; with crashes | `OneOrderPerApproval`, `SignOffsLogged`: statements of the repository that the code does not keep |
| `ClaimNoDuplicate` | the desk of `DeskOverlap` | `NoDuplicateOpenAlert`: likewise, when scans overlap |
| `ClaimSeeded` | the lab on the seeded database, one request | `AllScenariosRun`: likewise |

*Bounds.* `MaxRequests` bounds the requests that change something, `MaxPlans` the
rows a recommendation may add (replanning may add more), `MaxNow` the days. The
shortest interesting histories need three requests (approve, execute, and one
that interferes: a second execution, a rejection, a replan), and every action is
taken in them. Four are needed on the desk: a scan, a decision, and two decisions
that overlap with its result; or two scans with a patch and a decision between.
One incident and one supplier suffice because verification does not tell plans
of one supplier apart; plans that buy and plans that only monitor, quantities 0
and 1, and a default quantity larger than both cover the branches on the plan's
contents. One purchase order suffices on the desk because nothing relates two.
In `Pipeline` the suppliers can serve any demand, part of it, or nothing, by
promise or by stock, and may be inactive, inspected by another standard or out of
stock; the snapshots lie on both sides of the limits of coverage and discrepancy,
so that the rules produce each of their plans and validation refuses some; the
model's answer ranks an order that cannot be met above two that can. Two
pipelines suffice for one to inject while the other is between two nodes.
In `Lab` two starts are one that dies at any step and one that finds what it left,
and two sessions one report that is read before and written after another. In
`Watch` the gaps lie below a day, above it, within a week and beyond the windows of
7 and 35 days, so that pairs of counts fall in both windows, in one or in none, and
rises, equal counts and falls occur; 57,856 states. In `Tower` a second tab suffices
to make the first one stale, and three requests to authorise, dispatch and
interfere; 1.4 million states. `Unsourced` is empty there: incidents of that set only
have fewer steps (`GeneratePlan` and recommendations are disabled, `ShowWithoutPlan` is
possible for every incident), so each of their behaviours is one of the run's. The
plans at the start have different scores; ties come in with generated plans.
Handlers, clients and pipelines are interchangeable (`SYMMETRY`), except in the run with a liveness property.
Deadlock is not checked: once the bound on requests is used up and all are
answered the system rightly stops.

*Fairness.* `FairSpec` of `RecoveryWorkflow` assumes weak fairness of `Step(h)`, the next transaction of
a running handler: the event loop resumes a coroutine whose query has returned.
Nothing is assumed of clients, so no request ever has to arrive. It excludes
crashes: a request that dies is not resumed by anything in the code. `FairSpec` of
`ScenarioLab` assumes weak fairness of the steps of a start: the process runs its
start-up code until it ends or dies. Nobody has to start it again.

*Findings* (each is a run named `Claim...`, quoted in `PROJECT.json`):
one approval pays for several orders; a request that dies between a decision and
its audit event leaves an approval no trail shows; overlapping scans raise one
finding twice, because the check is not part of the write; on the seeded database
SCENARIO-2 (and 3, 4, 5 and 6 in part) refers to rows no seed routine creates and is
answered with an error.

*Limits that follow from the code*, met on the way and listed as hazards or notes,
without a run: of two overlapping patches of one version both are accepted; a
rejection sets the incident to REPLANNING and starts no replanning; the page pairs
the plan of the best score with the latest approval, whichever plan that is for, and
may offer a dispatch the server refuses for good; SCENARIO-4 analyses a new incident
and recommends for the old one, so it selects monitoring, and an injection asks for
the approval of a plan that validation has refused; either decision can be
overturned by the other endpoint; a request that dies between RESOLVED and its
verification leaves the incident RESOLVED; an assumption failure does not supersede
the plan that failed; overlapping approve and reject requests leave the statuses in
disagreement; the scenario lab writes a purchase order without counting its version
up; two concurrent approval requests leave two pending approvals of one plan;
verification completes a plan that was never executed, and `POST /plans/{id}/verify`
resolves an incident nobody approved, if an older order is large enough; the dossier
shows a verification as passed from the plan's status alone; listing the scenarios
fails on the second approval of an incident (`scenario_service.py:125`); overlapping
reports lose outcomes of a supplier; the simulation's `production_stop_avoided` is
true exactly when the stop comes first.

## 4. Proofs

Proved with TLAPS, for every value of the constants that the named assumptions
admit.

| Module | Theorem | Statement |
|---|---|---|
| `RecoveryProofs` | `TypeCorrectness` | `Spec => []TypeOK` |
| | `Authorization` | `Spec => []OrdersAuthorized` |
| | `Accountability` | `Spec => []OrdersAudited` |
| | `WorkflowImplementsGate` | `Spec => ImplementsGate` |
| `RestProofs` | `ExecutionsEnd` | `CrashFreeSpec => []NoPlanLeftExecuting` |
| | `FailuresReplaced` | `CrashFreeSpec => []SupersededHasSuccessor` |
| | `ResolutionVerified` | `CrashFreeSpec => []ResolvedWasVerified` |
| | `Agreement` | `Handlers = {h}` gives `CrashFreeSpec => []StatusesAgree` |
| `DeskProofs` | `DeskTypeCorrectness` | `Spec => []TypeOK` |
| | `OneEscalationEach` | `Spec => []EscalatedOnce` |
| | `DecisionsCloseAlerts` | `Spec => []ResolvedTogether` |
| | `TrailAccounts` | `Spec => []TrailComplete` |
| | `TotalsStayConsistent` | `SerialSpec => []TotalsConsistent` |
| | `NoSecondOpenAlert` | `SerialSpec => []NoDuplicateOpenAlert` |
| | `UpdatesAreInformed` | `SerialSpec => UpdatesSeeCurrentTerms` |
| | `FindingsAreRaised` | `SerialSpec => ScanRaisesFindings` |
| | `TrailIsAChain` | `SerialSpec => []TrailReplays` |
| `PipelineProofs` | `PipelineTypeCorrectness` | `Spec => []TypeOK` |
| | `ApprovedPlansHeld` | `Spec => []OfferedPlansHold` |
| | `GateOffersTheBest` | `Spec => []GateOffersBest` |
| | `InvalidPlansRankBelow` | `Spec => []InvalidRanksBelow` |
| | `PurchasesAddUp` | `Spec => []AllocationsAddUp` |
| `WatchProofs` | `WatchTypeCorrectness` | `Spec => []TypeOK` |
| | `AlertsAreShown` | `Spec => []AlertsShowOnDashboard` |
| | `StockServes` | `Spec => []ServedFromStock` |
| | `SimulationIsMonotone` | `Spec => []SimulationOrdersPlans` |
| | `TrendExplainsTheStop` | `Spec => []StopFollowsTrend` |
| | `AveragesAreMeans` | `Spec => []AverageWithinRates` |
| `LabProofs` | `LabTypeCorrectness` | `Spec => []LabTypeOK` |
| | `SeedComplete` | `Spec => []ServesOnlySeeded` |
| | `DisruptionsHaveIncidents` | `Spec => []InjectionAtomic` |
| | `MemoryIsReported` | `Spec => []MemoryNeverInvents` |
| `TowerProofs` | `TowerTypeCorrectness` | `TowerSpec => []TowerTypeOK` |
| | `OrdersShown` | `Handlers = {h}` gives `TowerSpec => []OrdersAsShown` |
| | `PagesAgree` | `Handlers = {h}` gives `TowerSpec => []StatusesAgree` |
| | `NoneDispatchedTwice` | `Handlers = {h}` gives `TowerSpec => []NoSecondDispatch` |

**Recovery workflow** (from `WorkflowAssumption`: types of the constants, initial
tables well typed and without orders of the workflow). `execute_plan` checks the
approval in its first transaction and places
the order in its third, without a lock. The check protects the order because of
two facts about the tables: they only grow, with a plan's incident and contents
and an approval's plan never rewritten (`Grows`), and "was granted" is never taken
back although "is APPROVED" may be. The inductive invariant `IInv` therefore adds
to the properties: an approval that is APPROVED was granted and refers to an
existing plan (`ApprovalsOK`), orders refer to existing plans (`OrdersOK`), and for
each handler what its label lets it rely on (`HandlerOK`): between the check and
the order its approval is granted for its plan, after the first audit event that
event is in the log, at the order the plan has a supplier and a quantity. None of
the properties is inductive without it: nothing else ties the handler's locals
to the tables.

The proof has a lemma per write (`LogWritten`, `PlanWritten`, ...), which says that
the write preserves the part of the invariant about tables, and a lemma per
action (`...Keeps`); what the other handlers rely on survives because the tables
grow (`OtherHandlers`). The refinement proof sorts steps into those that grant or
place (`WriteDecision`, `PlaceOrder`) and those that map to a stutter.

**The workflow at rest** (from `WorkflowAssumption`; no request dies, which is what
`CrashFreeSpec` leaves out: runs of `Crash` do break these properties). The
properties speak of the moments when every handler is idle, so the invariant
`RestInv` says who is responsible in between. A plan that is EXECUTING is owned by
a handler that is past `BeginExecution`, before `CompletePlan`, and remembers
EXECUTING (`Owns`): the session then writes COMPLETED, whereas one that remembered
COMPLETED would emit no `UPDATE`, and this is why `BeginExecution` must go through the
session. A superseded plan without a successor has a handler between `FailPlan` and
`InsertRevisedApproval` (`Replaces`), whose revised plan is younger because
the table only grows. An incident that is RESOLVED and never passed a verification has
a handler that verifies it, or one whose verification failed and which remembers
RESOLVED, so that its REPLANNING is really written (`Verifies`).
The lemmas `...GoesOn` follow such a handler from label to label; another handler
may take the state away but never the responsibility.

`Agreement` needs requests that do not overlap, stated as `Handlers = {h}`. Its
invariant says that what the session remembers is what the tables hold (`Fresh`), and
that an incident disagrees with its plans or approvals only between two
named transactions (`ResolvedAgrees`, `ApprovedAgrees`).

**Contract desk** (from `DeskAssumption`: types; finitely many purchase orders, whose
initial totals are those of their quantities and prices; `Absent` is no value of a
column). For every interleaving, `DeskInv` says that exactly the alerts that need an
approval have an escalation (`EscalationsOK`), and what a resolution relies on: an
escalation it has read as decided is never pending again (`RequestOK`). That is why a
skipped `UPDATE` of an unchanged status is harmless. `TrailComplete` compares
cardinalities: the lemma about `WriteResolution` maps each escalation that stands
decided to a decision row of its entity and shows that a decision adds at most as
many of the former as of the latter. For requests that do not overlap,
`SerialInv` adds that one request is under way (`Alone`), that an order a client has
fetched tells the terms in force if its version is current (`ViewOK`), and that what the
request under way has read is what the tables say (`FreshOK`). With `FreshOK`,
`TrailReplays` is inductive on its own: the row an update logs as "before" is the row in
force, so the new position follows the last one of its order and every earlier row keeps
its successor (`WritePatchReplays`); every other step leaves the update rows and the
terms alone, also the scenario lab, whose write of the status is no term
(`ReplaysStep`).

**Start-up and scenario lab** (from `StartsAssumption` and `LabAssumption`: the bounds
are natural numbers). `StartupInv`: each of the two seed routines' rows are all
there once or all absent, no row belongs to both, and within a routine the
transaction holds exactly the groups flushed so far. The probe of one table can
stand for all only because of this. `LabInv` adds, per session, what its step relies
on (`Relies`): a pending report's record exists and every counter it will write is
at most one more than the outcomes committed (`PendingOK`); the count of committed
reports only grows, so a stale write stays below it.

**Pipeline** (from `PipelineAssumption`: types; finitely many suppliers, as they are rows
of a table; what the language model suggests is not marked as the rules' own).
`SourcingProofs` first settles what the operators compute. A fold over a sequence is a
recursive function of its length; that it takes one step per element (`PrefixSteps`,
`TotalSteps`, `SplitSteps`) follows from the uniqueness of the recursion, which in turn
follows from the least number at which two functions differ (`Minimum`, `Induction`):
the library's induction theorems are out of reach, but induction over one set of
numbers is not. From the steps come `SplitAddsUp` (the greedy split allocates the
demand or everything there is, takes no more than each supplier has, and all of it from
every supplier but the last) and `QualifiedHaveAll` (the ranked suppliers have what the
qualified ones have).

Four invariants build on each other. `TypeInv` has the tables, which locals a run has at
which label, and that a run about to insert an approval found its plan valid; that is
`OfferedPlansHold`, which no later step can disturb because the row keeps what the
validation found. `GateInv` says that a run stores at most two plans of the rules
(`FewRules`) and that the plan held by the validation node has the best score of those
stored (`HoldsBest`). If the selected plan fails, one plan of the rules is left at
most, and that is why falling back on the *first* plan that passed is good enough; for
a model's three plans it is not. `RankInv` says that incidents belong to one run each
(`Ownership`), that the rules make one purchase for an incident (`OnePurchase`), and what
its status says of a score: an INVALID purchase has at most 4820, half of the
best a purchase can score, while a plan that uses the own stock has at least 9100 and is
never INVALID (`PlanScored`). `SumInv` ties every suggestion under way and every stored
plan to the analysis of its incident, which is written before anybody plans for it; an
injection that lets a certificate expire changes nobody's stock (`SameStockBuysEnough`).

**Stock watch** (from `WatchAssumption`: counts, gaps, usages, the safety stock and what
orders need are natural numbers; priorities are those of the code). The behaviours
contribute one inductive fact, that the tables hold rows (`RowsOK`); each property is then
proved for *every* state with such tables, not only those TLC enumerates, so what the
theorems add to the run is every history, order book and quantity.
`ServeAll` is the loop invariant of production prioritisation: protected orders fit
into the stock, and an order was delayed only when what was left did not cover it.
`MeanIsBetween` and `EvenGaps` go through the prefixes of the list of daily rates: the mean
of one more rate stays between the slowest and the fastest, and with even gaps the falls
telescope to the first count minus the last. `RoundsByHalf` bounds what the two roundings
can hide; `FiguresFollow` puts hours, days and trend together. `MoreIsNoMoreUrgent` and
`FiguresOfMore` carry the order of two quantities through coverage, risk and simulation.

**Incident page** (from `TowerAssumption` and `WorkflowAssumption`). `TowerInv`
extends `IInv` of the workflow by what pages and loads name: rows of the tables, and a
page that shows a plan also shows an approval. It holds for any number of handlers. The other three theorems have the
hypothesis `Handlers = {h}`. `ShownInv` says that what is displayed with an approval ties
with the plan that approval is for or is better (`PageRated`, `Matched`), that a grant
came from such a page or else is in `unseen` (`GrantsSeen`), and what the one request under way has read
(`LoadReads`). It is proved together with `ServeOK`: a handler between requests serves no
page, so a decision of an API client is not taken for a press. `OnceInv` follows a dispatch: until its request is answered the execution
or its verification is under way, afterwards the plan is COMPLETED or a younger approval
of its incident exists (`DispatchOK`), and a loaded page pairs the latest approval; so
the old one is never offered again.

*Only model-checked*: `FailureReachesHuman` and `StartsServe`, which need fairness and are
out of the prover's reach. Every other property of a passing run is proved. The
statements of the `Claim...` runs are false. The proofs assume of `StatusesAgree` and of
the desk's serial properties what their runs do, that requests do not overlap.

## 5. Not modelled

- The composition of `ControlTower` with the analysis of `PlanPipeline`, and no run
  has overlapping requests under `ControlTower` (`TowerTypeOK` is
  proved for them): the state space of the product is beyond TLC at bounds at which
  anything happens; each is checked beside the part of the other it needs.
- In `ScenarioLab`, what pipelines, decisions and executions write to the status of an
  incident between its injection and the end of it: the column is written there and
  read by nothing. `RecoveryWorkflow` has those writes, without the injection. What
  their composition would show is listed as a hazard: the injection's last
  commit (`scenario_service.py:425`) overwrites the status of a decision that came first.
- Two processes that start at once: the deployment runs one backend, and creating
  tables and indexes takes locks of the database.
- Pricing, RFQ, tracking and messaging tools: single inserts and formulas without a
  branch that another part reads. Thresholds: the metric names that are looked up
  never match those that are stored.
- Tools that only tests call: stock adjustment, rescheduling, claim checks,
  `update_purchase_order_status`, `split_purchase_order`.
- Listings and detail queries: they format rows. The migrations: the process creates
  the tables itself. The worker prints a heartbeat.
- The pages other than the incident page: they list rows or send requests that the
  models receive in any order (`Approvals.jsx` decides escalations only).
- The language model (any sequence of well-formed suggestions is possible) and the
  connection pool.
