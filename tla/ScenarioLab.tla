----------------------------- MODULE ScenarioLab -----------------------------
(***************************************************************************)
(* The scenario lab: injecting one of six disruptions into the database and *)
(* resetting it, next to the verifications that report to the same memory   *)
(* of supplier performance.                                                 *)
(*                                                                         *)
(* The statements of an injection are one transaction up to the commit that *)
(* creates the incident.  They overwrite columns with constants, so when    *)
(* they run within it does not matter; only the memory is read first and    *)
(* written from what was read.                                              *)
(***************************************************************************)
EXTENDS Startup

CONSTANTS
  Sessions,    \* clients of the scenario lab and running verifications
  Inventory,   \* master data an operator may add: sets of rows
  MaxRequests  \* bound: injections, resets and reports

ASSUME LabAssumption == MaxRequests \in Nat

(* What an incident refers to, the cells an injection overwrites where the  *)
(* row exists, the rows it inserts with those they refer to, and the cells  *)
(* a reset overwrites.                                                      *)
Scenario(material, po, supplier, sets, inserts, resets) ==
  [targets |-> {<<"materials", material>>, <<"purchase_orders", po>>,
                <<"suppliers", supplier>>},
   sets |-> sets, inserts |-> inserts, resets |-> resets]

Cell(table, key, column) == <<<<table, key>>, column>>

PO7712 == {Cell("purchase_orders", "PO-7712", "status"),
           Cell("contract_purchase_orders", "PO-7712", "status")}

Scenarios ==
  [ s1 |-> Scenario("COMP-104", "PO-7712", "SUP-21",
             PO7712 \cup {Cell("purchase_orders", "PO-7712", "expected_date")},
             {<<"suppliers", "SUP-21">>, <<"purchase_orders", "PO-7712">>},
             PO7712 \cup {Cell("components", "COMP-104", "usable_stock")}),
    s2 |-> Scenario("COMP-102", "PO-7735", "SUP-34",
             {Cell("components", "COMP-102", "usable_stock")},
             {<<"materials", "COMP-102">>},
             {Cell("components", "COMP-102", "usable_stock")}),
    s3 |-> Scenario("COMP-105", "PO-7730", "SUP-21",
             {Cell("shipments", "PO-7730", "status")},
             {<<"suppliers", "SUP-21">>, <<"purchase_orders", "PO-7730">>}, {}),
    s4 |-> Scenario("COMP-103", "PO-7740", "SUP-21",
             {<<Listed("SUP-21", "COMP-103"), "certified">>,
              Cell("contract_suppliers", <<"SUP-21", "COMP-103">>, "certified")},
             {}, {<<Listed("SUP-21", "COMP-103"), "certified">>}),
    s5 |-> Scenario("COMP-108", "PO-7718", "SUP-34", {}, {}, {}),
    s6 |-> Scenario("COMP-101", "PO-7720", "SUP-21",
             {Cell("components", "COMP-101", "usable_stock"),
              Cell("production_orders", "PROD-882", "priority"),
              Cell("contract_production_orders", "PROD-882", "priority")},
             {}, {Cell("components", "COMP-101", "usable_stock")}) ]

ScenarioIds == DOMAIN Scenarios

Cells == UNION {Scenarios[n].sets \cup Scenarios[n].resets : n \in ScenarioIds}

(* The supplier whose claim SCENARIO-3 refutes, one the seed has a record   *)
(* of too, and one it has none of.                                          *)
Reported == {"SUP-21", "SUP-34", "SUP-41"}

AllRows == Seed \cup Catalog \cup Inventory \cup {c[1] : c \in Cells}
           \cup UNION {Scenarios[n].targets : n \in ScenarioIds}

VARIABLES
  cells,      \* values of the cells: "seeded", "disrupted" or "reset"
  inserted,   \* scenarios whose messages, snapshots or notices are stored
  memory,     \* table supplier_performance, by evaluation date
  incidents,  \* table incidents: scenario and status
  injected,   \* SCENARIO_INJECTED events, as indexes of incidents
  pc,         \* session -> the next step of its request
  ctx,        \* session -> what the request has read and will write
  started,    \* number of requests started, for the bound MaxRequests
  reports,    \* the reports committed, for checking
  answers     \* the answers to injections, for checking

labTables == <<cells, inserted, memory, incidents, injected>>
labVars   == <<startupVars, labTables, pc, ctx, started, reports, answers>>

(* A record of a supplier; completed, on_time, late and mismatches count     *)
(* from what the seed stores.                                               *)
Performance(s) ==
  [supplier |-> s, completed |-> 0, on_time |-> 0, late |-> 0, mismatches |-> 0]

Counters == {"completed", "on_time", "late", "mismatches"}

NoReport == [supplier |-> "none"]

NoRequest == [scenario |-> "none", report |-> NoReport, incident |-> 0]

LabTypeOK ==
  /\ StartupTypeOK
  /\ cells \in [Cells -> {"seeded", "disrupted", "reset"}]
  /\ inserted \subseteq ScenarioIds
  /\ \A i \in DOMAIN memory :
       memory[i].supplier \in Reported
  /\ \A i \in DOMAIN incidents :
       incidents[i].status \in {"ANALYZING", "AWAITING_APPROVAL", "OPEN"}
  /\ injected \subseteq DOMAIN incidents
  /\ pc \in [Sessions -> {"idle", "record", "create_incident", "audit",
                          "pipeline", "verification_passed"}]

Init ==
  /\ StartupInit(AllRows)
  /\ cells = [c \in Cells |-> "seeded"]
  /\ inserted = {}
  /\ memory = <<Performance("SUP-21"), Performance("SUP-34")>>
  /\ incidents = <<>>
  /\ injected = {}
  /\ pc = [s \in Sessions |-> "idle"]
  /\ ctx = [s \in Sessions |-> NoRequest]
  /\ started = 0
  /\ reports = <<>>
  /\ answers = {}

-----------------------------------------------------------------------------
Begin(s, label, request) ==
  /\ server = "up"
  /\ pc[s] = "idle"
  /\ started < MaxRequests
  /\ started' = started + 1
  /\ pc' = [pc EXCEPT ![s] = label]
  /\ ctx' = [ctx EXCEPT ![s] = request]
  /\ UNCHANGED startupVars

Goto(s, from, to) ==
  /\ pc[s] = from
  /\ pc' = [pc EXCEPT ![s] = to]
  /\ UNCHANGED <<startupVars, started>>

Answer(s, answer) ==
  /\ answers' = answers \cup {<<ctx[s].scenario, answer>>}
  /\ ctx' = [ctx EXCEPT ![s] = NoRequest]

Exist(rows) == \A r \in rows : db[r] > 0

(* Cells of rows that do not exist are not written. *)
Written(which, value) ==
  [c \in Cells |-> IF c \in which /\ db[c[1]] > 0 THEN value ELSE cells[c]]

-----------------------------------------------------------------------------
(* The memory of suppliers.  A report reads the latest record of the         *)
(* supplier; what it writes is computed from that and becomes durable with   *)
(* the caller's next commit.                                                *)

Latest(supplier) ==
  LET of == {i \in DOMAIN memory : memory[i].supplier = supplier}
  IN  IF of = {} THEN 0 ELSE CHOOSE i \in of : \A j \in of : j <= i

(* Mutant: a late delivery is counted as on time as well. *)
ChangesBoth(on_time, mismatch) ==
  {"completed", "on_time"} \cup (IF on_time THEN {} ELSE {"late"})
    \cup (IF mismatch THEN {"mismatches"} ELSE {})

(* The columns a report counts up. *)
Changes(on_time, mismatch) ==
  {"completed"} \cup (IF on_time THEN {"on_time"} ELSE {"late"})
    \cup (IF mismatch THEN {"mismatches"} ELSE {})

(* record_supplier_performance up to its flush: the record written, 0 for a  *)
(* new one, and the new values of the columns that change.                  *)
Record(supplier, on_time, mismatch) ==
  LET i    == Latest(supplier)
      seen == IF i = 0 THEN Performance(supplier) ELSE memory[i]
  IN  [record |-> i,
       row |-> [col \in Changes(on_time, mismatch) |-> seen[col] + 1],
       supplier |-> supplier, on_time |-> on_time, mismatch |-> mismatch]

(* A row with the columns that change. *)
Merge(row, changes) ==
  [col \in DOMAIN row |-> IF col \in DOMAIN changes THEN changes[col]
                                                     ELSE row[col]]

(* The table once a report is durable: only the columns that changed are     *)
(* written, over whatever others have committed since the report was read.  *)
Committed(report) ==
  IF report.record = 0
    THEN Append(memory, Merge(Performance(report.supplier), report.row))
    ELSE [memory EXCEPT ![report.record] = Merge(@, report.row)]

-----------------------------------------------------------------------------
(* POST /scenarios/{n}/inject *)

(* The supplier's notice is flushed before the memory is read; a reference   *)
(* to an order that is not there ends the request with an error.            *)
InjectScenario(s, n) ==
  /\ Exist(Scenarios[n].inserts)
  /\ Begin(s, IF n = "s3" THEN "record" ELSE "create_incident",
           [NoRequest EXCEPT !.scenario = n])
  /\ UNCHANGED <<labTables, reports, answers>>

InjectionRefused(s, n) ==
  /\ ~Exist(Scenarios[n].inserts)
  /\ Begin(s, "idle", NoRequest)
  /\ answers' = answers \cup {<<n, "error">>}
  /\ UNCHANGED <<labTables, reports>>

(* Mutant: the report to the memory commits what is pending. *)
RecordMismatchCommitting(s) ==
  LET n == ctx[s].scenario
  IN  /\ Goto(s, "record", "create_incident")
      /\ ctx' = [ctx EXCEPT ![s].report = Record("SUP-21", FALSE, TRUE)]
      /\ cells' = Written(Scenarios[n].sets, "disrupted")
      /\ inserted' = inserted \cup {n}
      /\ UNCHANGED <<memory, incidents, injected, reports, answers>>

RecordMismatch(s) ==
  /\ Goto(s, "record", "create_incident")
  /\ ctx' = [ctx EXCEPT ![s].report = Record("SUP-21", FALSE, TRUE)]
  /\ UNCHANGED <<labTables, reports, answers>>

Remember(report) ==
  IF report = NoReport
    THEN UNCHANGED <<memory, reports>>
    ELSE /\ memory' = Committed(report)
         /\ reports' = Append(reports, [supplier |-> report.supplier,
                                        on_time  |-> report.on_time,
                                        mismatch |-> report.mismatch])

(* The commit that makes the whole disruption visible. *)
CreateIncident(s) ==
  LET n == ctx[s].scenario
  IN  /\ Goto(s, "create_incident", "audit")
      /\ Exist(Scenarios[n].targets)
      /\ cells' = Written(Scenarios[n].sets, "disrupted")
      /\ inserted' = inserted \cup {n}
      /\ Remember(ctx[s].report)
      /\ incidents' = Append(incidents, [scenario |-> n, status |-> "ANALYZING"])
      /\ ctx' = [ctx EXCEPT ![s].incident = Len(incidents')]
      /\ UNCHANGED <<injected, answers>>

(* An incident that refers to a row that is not there takes everything back. *)
IncidentRefused(s) ==
  /\ Goto(s, "create_incident", "idle")
  /\ ~Exist(Scenarios[ctx[s].scenario].targets)
  /\ Answer(s, "error")
  /\ UNCHANGED <<labTables, reports>>

AuditInjection(s) ==
  /\ Goto(s, "audit", "pipeline")
  /\ injected' = injected \cup {ctx[s].incident}
  /\ UNCHANGED <<cells, inserted, memory, incidents, ctx, reports, answers>>

(* Mutant: the pipeline leaves its own status word in the incident. *)
EndWithPipelineStatus(s, status) ==
  /\ Goto(s, "pipeline", "idle")
  /\ incidents' = [incidents EXCEPT ![ctx[s].incident].status = "PLAN_READY"]
  /\ Answer(s, "success")
  /\ UNCHANGED <<cells, inserted, memory, injected, reports>>

(* The analysis and the plans (PlanPipeline) end with or without a request   *)
(* for approval, or fail.  The status is overwritten, whatever the pipeline, *)
(* a decision or an execution has made of it meanwhile: those writes are     *)
(* RecoveryWorkflow's, and nothing in this module reads the column.         *)
EndInjection(s, status) ==
  /\ Goto(s, "pipeline", "idle")
  /\ incidents' = [incidents EXCEPT ![ctx[s].incident].status = status]
  /\ Answer(s, "success")
  /\ UNCHANGED <<cells, inserted, memory, injected, reports>>

PipelineFails(s) ==
  /\ Goto(s, "pipeline", "idle")
  /\ Answer(s, "error")
  /\ UNCHANGED <<labTables, reports>>

(* POST /scenarios/{n}/reset *)
ResetScenario(s, n) ==
  /\ Begin(s, "idle", NoRequest)
  /\ cells' = Written(Scenarios[n].resets, "reset")
  /\ UNCHANGED <<inserted, memory, incidents, injected, reports, answers>>

-----------------------------------------------------------------------------
(* A verification that passes reports a delivery on time. *)
ReportOnTime(s, supplier) ==
  /\ db[<<"suppliers", supplier>>] > 0
  /\ Begin(s, "verification_passed",
           [NoRequest EXCEPT !.report = Record(supplier, TRUE, FALSE)])
  /\ UNCHANGED <<labTables, reports, answers>>

LogVerificationPassed(s) ==
  /\ Goto(s, "verification_passed", "idle")
  /\ Remember(ctx[s].report)
  /\ ctx' = [ctx EXCEPT ![s] = NoRequest]
  /\ UNCHANGED <<cells, inserted, incidents, injected, answers>>

-----------------------------------------------------------------------------
(* An operator adds the master data the seed lacks. *)
AddMasterData ==
  /\ server = "up"
  /\ \E r \in Inventory : db[r] = 0
  /\ db' = [r \in DOMAIN db |-> IF r \in Inventory THEN 1 ELSE db[r]]
  /\ UNCHANGED <<tx, server, stage, step, starts, labTables, pc, ctx, started,
                 reports, answers>>

(* The process dies, and with it all uncommitted work. *)
Crash ==
  /\ server \in StartSteps \cup {"up"}
  /\ Die
  /\ pc' = [s \in Sessions |-> "idle"]
  /\ ctx' = [s \in Sessions |-> NoRequest]
  /\ UNCHANGED <<labTables, started, reports, answers>>

labOthers == <<labTables, pc, ctx, started, reports, answers>>

Request(s) ==
  \/ \E n \in ScenarioIds : \/ InjectScenario(s, n)
                            \/ InjectionRefused(s, n)
                            \/ ResetScenario(s, n)
  \/ \E supplier \in Reported : ReportOnTime(s, supplier)

Step(s) ==
  \/ RecordMismatch(s)
  \/ CreateIncident(s)
  \/ IncidentRefused(s)
  \/ AuditInjection(s)
  \/ \E status \in {"AWAITING_APPROVAL", "OPEN"} : EndInjection(s, status)
  \/ PipelineFails(s)
  \/ LogVerificationPassed(s)

Next ==
  \/ Start /\ UNCHANGED labOthers
  \/ StartStep /\ UNCHANGED labOthers
  \/ \E s \in Sessions : Request(s) \/ Step(s)
  \/ AddMasterData
  \/ Crash

Spec == Init /\ [][Next]_labVars

(* The process works on a start it has begun; nobody has to begin one. *)
FairSpec == Spec /\ WF_labVars(StartStep /\ UNCHANGED labOthers)

-----------------------------------------------------------------------------
(* Nothing of a disruption is in the database without its incident, whatever *)
(* a request that failed or died has written before                         *)
(* (scenario_service.py:167-356).                                           *)
InjectionAtomic ==
  LET injectedBefore == {incidents[i].scenario : i \in DOMAIN incidents}
  IN  /\ inserted \subseteq injectedBefore
      /\ \A c \in Cells : cells[c] = "disrupted" =>
           \E n \in injectedBefore : c \in Scenarios[n].sets

(* No counter of a supplier's records exceeds the reports on it that were    *)
(* committed: overlapping reports may lose an outcome, but none is invented, *)
(* also by an injection that was rolled back (supplier_tools.py:72-80).     *)
MemoryNeverInvents ==
  \A i \in DOMAIN memory :
    LET about    == {k \in DOMAIN reports :
                       reports[k].supplier = memory[i].supplier}
        on_time  == {k \in about : reports[k].on_time}
        mismatch == {k \in about : reports[k].mismatch}
    IN  /\ memory[i].completed <= Cardinality(about)
        /\ memory[i].on_time <= Cardinality(on_time)
        /\ memory[i].late <= Cardinality(about \ on_time)
        /\ memory[i].mismatches <= Cardinality(mismatch)

(* "All 6 official benchmark scenarios are implemented and 100% verified via *)
(* automated integration suites" (README.md:75): no injection of one ends   *)
(* with an error on a server that has been started and seeded.              *)
AllScenariosRun == \A a \in answers : a[2] # "error"
=============================================================================
