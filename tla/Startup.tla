------------------------------- MODULE Startup -------------------------------
(***************************************************************************)
(* The start of the backend process: tables and indexes, then the two seed  *)
(* routines, each of which probes one table, inserts group after group in   *)
(* one transaction and commits.  A process that dies leaves only what it    *)
(* has committed, and the next one starts over.                             *)
(*                                                                         *)
(* A row is a pair of table and key.  Rows that differ in nothing any       *)
(* statement of the model looks at (the days of the stock history, the      *)
(* parameters of a specification) are one row.                              *)
(***************************************************************************)
EXTENDS Naturals, Sequences, FiniteSets, SequencesExt

CONSTANT MaxStarts  \* bound: starts of the process

ASSUME StartsAssumption == MaxStarts \in Nat

(* Rows the database numbers itself: inserting one twice is no conflict. *)
SerialTables ==
  {"material_specifications", "material_spec_parameters", "supplier_materials",
   "production_consumption", "inventory_snapshots", "inventory_movements",
   "supplier_communications", "supplier_performance", "risk_thresholds"}

Rows(table, keys) == {<<table, k>> : k \in keys}

Listed(supplier, material) == <<"supplier_materials", <<supplier, material>>>>

(* Tables whose rows refer to rows of others, and the rows they refer to. *)
References ==
  LET material(k) == <<"materials", k>>
      supplier(k) == <<"suppliers", k>>
      part(k)     == <<"components", k>>
  IN  [r \in Rows("material_specifications", {"COMP-104"})
             \cup Rows("inventory_snapshots", {"COMP-104"})
             \cup Rows("inventory_movements", {"COMP-104"})
             \cup Rows("risk_thresholds", {"COMP-104"}) |-> {material(r[2])}]
      @@ [r \in Rows("material_spec_parameters", {"COMP-104"}) |->
            {<<"material_specifications", r[2]>>}]
      @@ [r \in {Listed(s, "COMP-104") :
                   s \in {"SUP-21", "SUP-34", "SUP-41", "SUP-52"}} |->
            {supplier(r[2][1]), material(r[2][2])}]
      @@ [r \in Rows("supplier_performance", {"SUP-21", "SUP-34"}) |->
            {supplier(r[2])}]
      @@ [r \in Rows("production_consumption", {"PROD-882"}) |->
            {<<"production_orders", "PROD-882">>, material("COMP-104")}]
      @@ [r \in Rows("purchase_orders", {"PO-7712"}) |->
            {supplier("SUP-21"), material("COMP-104"),
             <<"production_orders", "PROD-882">>}]
      @@ [r \in Rows("shipments", {"PO-7712"}) |-> {<<"purchase_orders", r[2]>>}]
      @@ [r \in Rows("supplier_communications", {"PO-7712"}) |->
            {supplier("SUP-21"), <<"purchase_orders", r[2]>>}]
      @@ [r \in Rows("contract_suppliers", {<<"SUP-21", "COMP-104">>}) |->
            {part(r[2][2])}]
      @@ [r \in Rows("contract_purchase_orders", {"PO-7712"}) |->
            {part("COMP-104")}]
      @@ [r \in Rows("contract_production_orders", {"PROD-882"}) |->
            {part("COMP-104")}]

(* What seed_db inserts, flush by flush. *)
MaterialGroups == <<
  Rows("materials", {"COMP-104", "COMP-101", "COMP-105"}),
  Rows("material_specifications", {"COMP-104"}),
  Rows("material_spec_parameters", {"COMP-104"}) >>

SupplierGroups == <<
  Rows("suppliers", {"SUP-21", "SUP-34", "SUP-41", "SUP-52", "SUP-77"}),
  {Listed(s, "COMP-104") : s \in {"SUP-21", "SUP-34", "SUP-41", "SUP-52"}} >>

ProductionGroups == <<
  Rows("production_orders", {"PROD-882", "PROD-885"}),
  Rows("production_consumption", {"PROD-882"}) >>

StockGroups == <<
  Rows("inventory_snapshots", {"COMP-104"}),
  Rows("inventory_movements", {"COMP-104"}) >>

ProcurementGroups == <<
  Rows("purchase_orders", {"PO-7712"}),
  Rows("shipments", {"PO-7712"}),
  Rows("supplier_communications", {"PO-7712"}) >>

AssessmentGroups == <<
  Rows("supplier_performance", {"SUP-21", "SUP-34"}),
  Rows("risk_thresholds", {"COMP-104"}) >>

(* Mutant: the purchase order before the production order it is for. *)
OrderBeforeProduction ==
  MaterialGroups \o SupplierGroups \o ProcurementGroups \o ProductionGroups
    \o StockGroups \o AssessmentGroups

OperationalGroups ==
  MaterialGroups \o SupplierGroups \o ProductionGroups \o StockGroups
    \o ProcurementGroups \o AssessmentGroups

(* What seed_contract_data inserts: of its fixtures, the rows that the       *)
(* scenarios write or look for.                                             *)
ContractGroups == <<
  Rows("components", {"COMP-101", "COMP-102", "COMP-103", "COMP-104"}),
  Rows("contract_suppliers", {<<"SUP-21", "COMP-104">>}),
  Rows("contract_purchase_orders", {"PO-7712"}),
  Rows("contract_production_orders", {"PROD-882"}),
  Rows("supplier_messages", {"fixtures"}) >>

Stages == <<OperationalGroups, ContractGroups>>

Seed == UNION (Range(OperationalGroups) \cup Range(ContractGroups))

Catalog == Rows("catalog", {"tables", "indexes"})

VARIABLES
  db,      \* committed rows: row -> how often
  tx,      \* rows the seed transaction has flushed and not committed
  server,  \* the process: "down", a step of its start, "up" or "failed"
  stage,   \* the seed routine that runs
  step,    \* its next group
  starts   \* number of starts, for the bound MaxStarts

startupVars == <<db, tx, server, stage, step, starts>>

StartSteps == {"schema", "indexes", "probe", "flush", "commit"}

StartupTypeOK ==
  /\ Seed \cup Catalog \subseteq DOMAIN db
  /\ \A r \in DOMAIN db : db[r] \in Nat
  /\ tx \subseteq Seed
  /\ server \in StartSteps \cup {"down", "up", "failed"}
  /\ stage \in 1..Len(Stages)
  /\ step \in 1..Len(Stages[stage]) + 1
  /\ starts \in 0..MaxStarts

(* An empty database with room for the given rows. *)
StartupInit(rows) ==
  /\ db = [r \in rows |-> 0]
  /\ tx = {}
  /\ server = "down"
  /\ stage = 1
  /\ step = 1
  /\ starts = 0

-----------------------------------------------------------------------------
Visible(r) == db[r] > 0 \/ r \in tx

(* The statement fails on a reference to a row that is not there, and on a   *)
(* second row of one key.                                                   *)
CanInsert(r) ==
  /\ r \in DOMAIN References => \A ref \in References[r] : Visible(ref)
  /\ r[1] \notin SerialTables => ~Visible(r)

Start ==
  /\ server \in {"down", "failed"}
  /\ starts < MaxStarts
  /\ starts' = starts + 1
  /\ server' = "schema"
  /\ UNCHANGED <<db, tx, stage, step>>

Ensure(row, next) ==
  /\ db' = [db EXCEPT ![row] = 1]
  /\ server' = next
  /\ UNCHANGED <<tx, stage, step, starts>>

CreateTables == server = "schema" /\ Ensure(<<"catalog", "tables">>, "indexes")

CreateIndexes ==
  /\ server = "indexes"
  /\ db' = [db EXCEPT ![<<"catalog", "indexes">>] = 1]
  /\ server' = "probe"
  /\ stage' = 1
  /\ step' = 1
  /\ UNCHANGED <<tx, starts>>

EndStage ==
  /\ tx' = {}
  /\ step' = 1
  /\ IF stage < Len(Stages) THEN stage' = stage + 1 /\ server' = "probe"
                            ELSE stage' = stage /\ server' = "up"
  /\ UNCHANGED starts

(* A routine whose first table has rows returns at once. *)
ProbeSeeded ==
  /\ server = "probe"
  /\ \E r \in Stages[stage][1] : db[r] > 0
  /\ EndStage
  /\ UNCHANGED db

ProbeEmpty ==
  /\ server = "probe"
  /\ \A r \in Stages[stage][1] : db[r] = 0
  /\ server' = "flush"
  /\ UNCHANGED <<db, tx, stage, step, starts>>

(* Mutant: every group is committed on its own. *)
FlushGroupAndCommit ==
  LET group == Stages[stage][step]
  IN  /\ server = "flush"
      /\ \A r \in group : CanInsert(r)
      /\ db' = [r \in DOMAIN db |-> IF r \in group THEN db[r] + 1 ELSE db[r]]
      /\ step' = step + 1
      /\ server' = IF step < Len(Stages[stage]) THEN "flush" ELSE "commit"
      /\ UNCHANGED <<tx, stage, starts>>

(* An error of the database ends the start, and with it the process. *)
FlushGroup ==
  LET group == Stages[stage][step]
  IN  /\ server = "flush"
      /\ IF \A r \in group : CanInsert(r)
           THEN /\ tx' = tx \cup group
                /\ step' = step + 1
                /\ server' = IF step < Len(Stages[stage]) THEN "flush"
                                                          ELSE "commit"
           ELSE tx' = {} /\ server' = "failed" /\ UNCHANGED step
      /\ UNCHANGED <<db, stage, starts>>

CommitStage ==
  /\ server = "commit"
  /\ db' = [r \in DOMAIN db |-> IF r \in tx THEN db[r] + 1 ELSE db[r]]
  /\ EndStage

Die ==
  /\ tx' = {}
  /\ server' = "down"
  /\ UNCHANGED <<db, stage, step, starts>>

StartStep ==
  \/ CreateTables
  \/ CreateIndexes
  \/ ProbeSeeded
  \/ ProbeEmpty
  \/ FlushGroup
  \/ CommitStage

-----------------------------------------------------------------------------
(* A process that serves requests does so on a database with all rows of    *)
(* both seed routines, each once, whatever starts died before: the probe of *)
(* one table stands for all of them only because a routine commits once     *)
(* (db/seed.py:35, seed/seed_data.py:36).                                   *)
ServesOnlySeeded == server = "up" => \A r \in Seed : db[r] = 1

(* Every start that does not die comes to serve requests: each group finds  *)
(* the rows it refers to, whatever an earlier start has left                *)
(* (main.py:28).                                                            *)
StartsServe == (server \in StartSteps) ~> (server \in {"up", "down"})
=============================================================================
