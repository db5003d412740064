------------------------------ MODULE LabProofs ------------------------------
(***************************************************************************)
(* Proofs about Startup and ScenarioLab, for every number of starts,        *)
(* sessions and requests and whatever master data an operator adds.         *)
(***************************************************************************)
EXTENDS ScenarioLab, SequenceTheorems, FiniteSetTheorems, WellFoundedInduction, TLAPS

-----------------------------------------------------------------------------
(* The two seed routines: their tables differ, and each begins with rows.   *)

OperationalTables ==
  {"materials", "material_specifications", "material_spec_parameters",
   "suppliers", "supplier_materials", "production_orders",
   "production_consumption", "inventory_snapshots", "inventory_movements",
   "purchase_orders", "shipments", "supplier_communications",
   "supplier_performance", "risk_thresholds"}

ContractTables ==
  {"components", "contract_suppliers", "contract_purchase_orders",
   "contract_production_orders", "supplier_messages"}

StageRows(k) == UNION Range(Stages[k])

LEMMA ConcatGroups ==
  ASSUME NEW S, NEW a \in Seq(SUBSET S), NEW b \in Seq(SUBSET S), Len(a) > 0
  PROVE  /\ a \o b \in Seq(SUBSET S)
         /\ Len(a \o b) > 0
         /\ (a \o b)[1] = a[1]
         /\ Range(a \o b) = Range(a) \cup Range(b)
<1>1. Len(a) \in Nat /\ Len(b) \in Nat
  BY LenProperties
<1>2. QED
  BY <1>1, ConcatProperties, RangeConcatenation

(* The keys of the seed's rows. *)
Keys ==
  {"COMP-101", "COMP-102", "COMP-103", "COMP-104", "COMP-105",
   "SUP-21", "SUP-34", "SUP-41", "SUP-52", "SUP-77", "PO-7712",
   "PROD-882", "PROD-885", "fixtures", <<"SUP-21", "COMP-104">>,
   <<"SUP-34", "COMP-104">>, <<"SUP-41", "COMP-104">>, <<"SUP-52", "COMP-104">>}

OperationalRows == OperationalTables \X Keys
ContractRows    == ContractTables \X Keys

LEMMA KeysTyped ==
  /\ {"COMP-101", "COMP-102", "COMP-103", "COMP-104", "COMP-105"} \subseteq Keys
  /\ {"SUP-21", "SUP-34", "SUP-41", "SUP-52", "SUP-77"} \subseteq Keys
  /\ {"PO-7712", "PROD-882", "PROD-885", "fixtures"} \subseteq Keys
  /\ \A s \in {"SUP-21", "SUP-34", "SUP-41", "SUP-52"} : <<s, "COMP-104">> \in Keys
BY DEF Keys

LEMMA RowsTyped ==
  ASSUME NEW T, NEW t \in T, NEW K, K \subseteq Keys
  PROVE  Rows(t, K) \in SUBSET (T \X Keys)
BY DEF Rows

LEMMA OperationalRow ==
  \A t \in OperationalTables, k, l \in Keys :
    /\ Rows(t, {k}) \in SUBSET OperationalRows
    /\ Rows(t, {k, l}) \in SUBSET OperationalRows
BY RowsTyped DEF OperationalRows

LEMMA ContractTyped ==
  ASSUME NEW t \in ContractTables, NEW K, K \subseteq Keys
  PROVE  Rows(t, K) \in SUBSET ContractRows
BY RowsTyped DEF ContractRows

LEMMA MaterialPart ==
  MaterialGroups \in Seq(SUBSET OperationalRows) /\ Len(MaterialGroups) > 0
<1>1. /\ Rows("materials", {"COMP-104", "COMP-101", "COMP-105"}) \in SUBSET OperationalRows
      /\ Rows("material_specifications", {"COMP-104"}) \in SUBSET OperationalRows
      /\ Rows("material_spec_parameters", {"COMP-104"}) \in SUBSET OperationalRows
  BY ZenonT(30), KeysTyped, RowsTyped DEF OperationalTables, OperationalRows
<1>2. QED
  BY <1>1 DEF MaterialGroups

LEMMA SupplierPart ==
  SupplierGroups \in Seq(SUBSET OperationalRows) /\ Len(SupplierGroups) > 0
<1>1. Rows("suppliers", {"SUP-21", "SUP-34", "SUP-41", "SUP-52", "SUP-77"})
        \in SUBSET OperationalRows
  BY KeysTyped, RowsTyped DEF OperationalTables, OperationalRows
<1>2. \A s \in {"SUP-21", "SUP-34", "SUP-41", "SUP-52"} : Listed(s, "COMP-104") \in OperationalRows
  BY KeysTyped DEF Listed, OperationalRows, OperationalTables
<1>3. {Listed(s, "COMP-104") : s \in {"SUP-21", "SUP-34", "SUP-41", "SUP-52"}}
        \in SUBSET OperationalRows
  BY <1>2
<1>4. QED
  BY <1>1, <1>3 DEF SupplierGroups

LEMMA OtherParts ==
  /\ ProductionGroups \in Seq(SUBSET OperationalRows)
  /\ StockGroups \in Seq(SUBSET OperationalRows)
  /\ ProcurementGroups \in Seq(SUBSET OperationalRows)
  /\ AssessmentGroups \in Seq(SUBSET OperationalRows)
<1>1. /\ Rows("production_orders", {"PROD-882", "PROD-885"}) \in SUBSET OperationalRows
      /\ Rows("production_consumption", {"PROD-882"}) \in SUBSET OperationalRows
  BY KeysTyped, OperationalRow DEF OperationalTables
<1>2. /\ Rows("inventory_snapshots", {"COMP-104"}) \in SUBSET OperationalRows
      /\ Rows("inventory_movements", {"COMP-104"}) \in SUBSET OperationalRows
  BY KeysTyped, OperationalRow DEF OperationalTables
<1>3. /\ Rows("purchase_orders", {"PO-7712"}) \in SUBSET OperationalRows
      /\ Rows("shipments", {"PO-7712"}) \in SUBSET OperationalRows
      /\ Rows("supplier_communications", {"PO-7712"}) \in SUBSET OperationalRows
  BY KeysTyped, OperationalRow DEF OperationalTables
<1>4. /\ Rows("supplier_performance", {"SUP-21", "SUP-34"}) \in SUBSET OperationalRows
      /\ Rows("risk_thresholds", {"COMP-104"}) \in SUBSET OperationalRows
  BY KeysTyped, OperationalRow DEF OperationalTables
<1>5. ProductionGroups \in Seq(SUBSET OperationalRows)
  BY <1>1 DEF ProductionGroups
<1>6. StockGroups \in Seq(SUBSET OperationalRows)
  BY <1>2 DEF StockGroups
<1>7. ProcurementGroups \in Seq(SUBSET OperationalRows)
  BY <1>3 DEF ProcurementGroups
<1>8. AssessmentGroups \in Seq(SUBSET OperationalRows)
  BY <1>4 DEF AssessmentGroups
<1>9. QED
  BY <1>5, <1>6, <1>7, <1>8

LEMMA ContractPart ==
  /\ ContractGroups \in Seq(SUBSET ContractRows)
  /\ Len(ContractGroups) > 0
  /\ \E r : r \in ContractGroups[1]
<1> {"COMP-101", "COMP-102", "COMP-103", "COMP-104"} \subseteq Keys
  BY KeysTyped
<1> {<<"SUP-21", "COMP-104">>} \subseteq Keys
  BY KeysTyped
<1> /\ {"PO-7712"} \subseteq Keys
    /\ {"PROD-882"} \subseteq Keys
    /\ {"fixtures"} \subseteq Keys
  BY KeysTyped
<1>1. /\ Rows("components", {"COMP-101", "COMP-102", "COMP-103", "COMP-104"})
           \in SUBSET ContractRows
      /\ Rows("contract_suppliers", {<<"SUP-21", "COMP-104">>}) \in SUBSET ContractRows
      /\ Rows("contract_purchase_orders", {"PO-7712"}) \in SUBSET ContractRows
      /\ Rows("contract_production_orders", {"PROD-882"}) \in SUBSET ContractRows
      /\ Rows("supplier_messages", {"fixtures"}) \in SUBSET ContractRows
  BY ContractTyped DEF ContractTables
<1>2. /\ ContractGroups \in Seq(SUBSET ContractRows)
      /\ Len(ContractGroups) > 0
      /\ ContractGroups[1]
           = Rows("components", {"COMP-101", "COMP-102", "COMP-103", "COMP-104"})
  BY <1>1 DEF ContractGroups
<1>3. <<"components", "COMP-104">> \in ContractGroups[1]
  BY <1>2 DEF Rows
<1>4. QED
  BY <1>2, <1>3

LEMMA OperationalPart ==
  /\ OperationalGroups \in Seq(SUBSET OperationalRows)
  /\ Len(OperationalGroups) > 0
  /\ \E r : r \in OperationalGroups[1]
<1> DEFINE S == OperationalRows
           g1 == MaterialGroups \o SupplierGroups
           g2 == g1 \o ProductionGroups
           g3 == g2 \o StockGroups
           g4 == g3 \o ProcurementGroups
<1>1. g1 \in Seq(SUBSET S) /\ Len(g1) > 0 /\ g1[1] = MaterialGroups[1]
  BY MaterialPart, SupplierPart, ConcatGroups
<1>2. g2 \in Seq(SUBSET S) /\ Len(g2) > 0 /\ g2[1] = MaterialGroups[1]
  BY <1>1, OtherParts, ConcatGroups
<1>3. g3 \in Seq(SUBSET S) /\ Len(g3) > 0 /\ g3[1] = MaterialGroups[1]
  BY <1>2, OtherParts, ConcatGroups
<1>4. g4 \in Seq(SUBSET S) /\ Len(g4) > 0 /\ g4[1] = MaterialGroups[1]
  BY <1>3, OtherParts, ConcatGroups
<1>5. /\ OperationalGroups \in Seq(SUBSET S) /\ Len(OperationalGroups) > 0
      /\ OperationalGroups[1] = MaterialGroups[1]
  BY <1>4, OtherParts, ConcatGroups DEF OperationalGroups
<1>6. <<"materials", "COMP-104">> \in MaterialGroups[1]
  BY DEF MaterialGroups, Rows
<1>7. QED
  BY <1>5, <1>6

(* All that the proofs below need to know of the seed. *)
LEMMA StagesTyped ==
  /\ Len(Stages) = 2
  /\ \A k \in 1..2 : /\ Stages[k] \in Seq(SUBSET StageRows(k))
                     /\ Len(Stages[k]) \in Nat \ {0}
                     /\ DOMAIN Stages[k] = 1..Len(Stages[k])
                     /\ \E r : r \in Stages[k][1]
  /\ Seed = StageRows(1) \cup StageRows(2)
  /\ StageRows(1) \cap StageRows(2) = {}
  /\ Catalog \cap Seed = {}
<1>1. /\ Stages[1] = OperationalGroups
      /\ Stages[2] = ContractGroups
      /\ Len(Stages) = 2
  BY DEF Stages
<1>2. /\ Stages[1] \in Seq(SUBSET OperationalRows)
      /\ Stages[2] \in Seq(SUBSET ContractRows)
  BY <1>1, OperationalPart, ContractPart
<1>3. ASSUME NEW k \in 1..2
      PROVE  /\ Stages[k] \in Seq(SUBSET StageRows(k))
             /\ Len(Stages[k]) \in Nat
             /\ DOMAIN Stages[k] = 1..Len(Stages[k])
  <2>1. \E S : Stages[k] \in Seq(SUBSET S)
    <3>1. k = 1 \/ k = 2
      OBVIOUS
    <3>2. QED
      BY <1>2, <3>1
  <2>2. Stages[k] \in Seq(Range(Stages[k]))
    BY <2>1, SeqOfRange
  <2>3. Range(Stages[k]) \subseteq SUBSET StageRows(k)
    BY DEF StageRows
  <2>4. QED
    BY <2>1, <2>2, <2>3, SeqMonotonic, LenProperties
<1>4. StageRows(1) \subseteq OperationalRows /\ StageRows(2) \subseteq ContractRows
  BY <1>1, OperationalPart, ContractPart, RangeOfSeq DEF StageRows
<1>5. OperationalTables \cap ContractTables = {}
  BY DEF OperationalTables, ContractTables
<1>6. StageRows(1) \cap StageRows(2) = {}
  BY <1>4, <1>5 DEF OperationalRows, ContractRows
<1>7. Seed = StageRows(1) \cup StageRows(2)
  BY <1>1 DEF Seed, StageRows
<1>8. "catalog" \notin OperationalTables /\ "catalog" \notin ContractTables
  BY DEF OperationalTables, ContractTables
<1>9. Catalog \cap Seed = {}
  BY <1>4, <1>7, <1>8 DEF Catalog, Rows, OperationalRows, ContractRows
<1>10. QED
  BY <1>1, <1>3, <1>6, <1>7, <1>9, OperationalPart, ContractPart

(* What the seed transaction has flushed before its next group. *)
Flushed(k, n) == UNION {Stages[k][g] : g \in 1..n - 1}

Filled(k) == \A r \in StageRows(k) : db[r] = 1
Empty(k)  == \A r \in StageRows(k) : db[r] = 0

(* A routine has been done once or not at all; one that inserts has not.    *)
StartupInv ==
  /\ StartupTypeOK
  /\ ServesOnlySeeded
  /\ Filled(1) \/ Empty(1)
  /\ Filled(2) \/ Empty(2)
  /\ server \in {"probe", "flush", "commit"} /\ stage = 2 => Filled(1)
  /\ server \in {"flush", "commit"} => Empty(stage) /\ tx = Flushed(stage, step)
  /\ server \notin {"flush", "commit"} => tx = {}
  /\ server = "probe" => step = 1
  /\ server = "flush" => step <= Len(Stages[stage])
  /\ server = "commit" => step = Len(Stages[stage]) + 1

LEMMA FlushedRows ==
  ASSUME NEW k \in 1..2
  PROVE  /\ Flushed(k, 1) = {}
         /\ Flushed(k, Len(Stages[k]) + 1) = StageRows(k)
         /\ \A n \in DOMAIN Stages[k] :
              Flushed(k, n + 1) = Flushed(k, n) \cup Stages[k][n]
<1> DEFINE q == Stages[k]
<1>1. /\ q \in Seq(SUBSET StageRows(k)) /\ Len(q) \in Nat /\ DOMAIN q = 1..Len(q)
  BY StagesTyped
<1>2. Range(q) = {q[g] : g \in 1..Len(q)}
  BY <1>1, RangeEquality
<1>3. Flushed(k, 1) = {}
  BY DEF Flushed
<1>4. Flushed(k, Len(q) + 1) = StageRows(k)
  <2>1. (Len(q) + 1) - 1 = Len(q)
    BY <1>1
  <2>2. QED
    BY <1>2, <2>1 DEF Flushed, StageRows
<1>5. ASSUME NEW n \in DOMAIN q
      PROVE  Flushed(k, n + 1) = Flushed(k, n) \cup q[n]
  <2>1. 1..(n + 1) - 1 = (1..n - 1) \cup {n}
    BY <1>1
  <2> HIDE DEF q
  <2>2. UNION {q[g] : g \in (1..n - 1) \cup {n}}
          = (UNION {q[g] : g \in 1..n - 1}) \cup q[n]
    OBVIOUS
  <2>3. QED
    BY <2>1, <2>2 DEF Flushed, q
<1>6. QED
  BY <1>3, <1>4, <1>5

LEMMA StartupBegins ==
  ASSUME NEW rows, StartupInit(rows), Seed \cup Catalog \subseteq rows
  PROVE  StartupInv
<1>1. /\ Empty(1) /\ Empty(2)
      /\ db \in [rows -> Nat]
      /\ stage = 1 /\ step = 1 /\ tx = {} /\ server = "down" /\ starts = 0
  BY StagesTyped DEF StartupInit, Empty
<1>2. step \in 1..Len(Stages[stage]) + 1 /\ stage \in 1..Len(Stages)
  BY <1>1, StagesTyped
<1>3. QED
  BY <1>1, <1>2, StartsAssumption
     DEF StartupInv, StartupTypeOK, StartSteps, ServesOnlySeeded, StartupInit

(* A step that leaves the rows of the seed alone. *)
LEMMA SeedKept ==
  ASSUME StartupInv, DOMAIN db' = DOMAIN db, \A r \in DOMAIN db : db'[r] \in Nat,
         \A r \in Seed : db'[r] = db[r]
  PROVE  /\ \A k \in 1..2 : (Filled(k)' <=> Filled(k)) /\ (Empty(k)' <=> Empty(k))
         /\ Seed \cup Catalog \subseteq DOMAIN db'
<1>1. \A k \in 1..2 : StageRows(k) \subseteq Seed
  BY StagesTyped
<1>2. QED
  BY <1>1 DEF Filled, Empty, StartupInv, StartupTypeOK

LEMMA StartKeeps ==
  ASSUME StartupInv, Start
  PROVE  StartupInv'
BY StartsAssumption
   DEF StartupInv, Start, StartupTypeOK, StartSteps, ServesOnlySeeded, Filled, Empty

LEMMA DieKeeps ==
  ASSUME StartupInv, Die
  PROVE  StartupInv'
BY DEF StartupInv, Die, StartupTypeOK, StartSteps, ServesOnlySeeded, Filled, Empty

LEMMA CatalogKeeps ==
  ASSUME StartupInv, CreateTables \/ CreateIndexes
  PROVE  StartupInv'
<1>1. PICK c \in Catalog : db' = [db EXCEPT ![c] = 1]
  BY DEF CreateTables, CreateIndexes, Ensure, Catalog, Rows
<1>2. c \in DOMAIN db /\ c \notin Seed
  BY StagesTyped DEF StartupInv, StartupTypeOK
<1>3. /\ DOMAIN db' = DOMAIN db
      /\ \A r \in DOMAIN db : db'[r] \in Nat
      /\ \A r \in Seed : db'[r] = db[r]
  BY <1>1, <1>2 DEF StartupInv, StartupTypeOK
<1>4. /\ \A k \in 1..2 : (Filled(k)' <=> Filled(k)) /\ (Empty(k)' <=> Empty(k))
      /\ Seed \cup Catalog \subseteq DOMAIN db'
  BY <1>3, SeedKept
<1>5. CASE CreateTables
  BY <1>3, <1>4, <1>5 DEF StartupInv, CreateTables, Ensure, StartupTypeOK,
     StartSteps, ServesOnlySeeded
<1>6. CASE CreateIndexes
  <2>1. 1 \in 1..Len(Stages) /\ 1 \in 1..Len(Stages[1]) + 1
    BY StagesTyped
  <2>2. QED
    BY <1>3, <1>4, <1>6, <2>1 DEF StartupInv, CreateIndexes, StartupTypeOK,
       StartSteps, ServesOnlySeeded
<1>7. QED
  BY <1>5, <1>6

LEMMA ProbeEmptyKeeps ==
  ASSUME StartupInv, ProbeEmpty
  PROVE  StartupInv'
<1>1. /\ stage \in 1..2 /\ step = 1 /\ tx = {} /\ server = "probe"
      /\ \A r \in Stages[stage][1] : db[r] = 0
  BY StagesTyped DEF StartupInv, StartupTypeOK, ProbeEmpty
<1>2. PICK r : r \in Stages[stage][1]
  BY <1>1, StagesTyped
<1>3. r \in StageRows(stage) /\ db[r] = 0
  <2>1. Stages[stage][1] \in SUBSET StageRows(stage)
    BY <1>1, StagesTyped, ElementOfSeq
  <2>2. QED
    BY <1>1, <1>2, <2>1
<1>4. Empty(stage)
  BY <1>1, <1>3 DEF StartupInv, Filled
<1>5. Flushed(stage, 1) = {} /\ 1 <= Len(Stages[stage])
  BY <1>1, FlushedRows, StagesTyped
<1>6. QED
  BY <1>1, <1>4, <1>5 DEF StartupInv, ProbeEmpty, StartupTypeOK, StartSteps,
     ServesOnlySeeded, Filled, Empty, Flushed

(* The routine has been done when its stage ends. *)
LEMMA EndStageKeeps ==
  ASSUME StartupInv, EndStage, NEW k \in 1..2, k = stage,
         Filled(k)', k = 2 => Filled(1)',
         \A j \in 1..2 : j # k =>
           (Filled(j)' <=> Filled(j)) /\ (Empty(j)' <=> Empty(j)),
         \A r \in DOMAIN db' : db'[r] \in Nat,
         DOMAIN db' = DOMAIN db
  PROVE  StartupInv'
<1>1. Len(Stages) = 2
  BY StagesTyped
<1>2. CASE k = 1
  <2>1. stage' = 2 /\ server' = "probe" /\ step' = 1 /\ tx' = {}
    BY <1>1, <1>2 DEF EndStage
  <2>2. 1 \in 1..Len(Stages[2]) + 1
    BY StagesTyped
  <2>3. Filled(1)' /\ (Filled(2)' \/ Empty(2)')
    BY <1>2 DEF StartupInv
  <2>4. QED
    BY <1>1, <1>2, <2>1, <2>2, <2>3 DEF StartupInv, EndStage, StartupTypeOK,
       StartSteps, ServesOnlySeeded
<1>3. CASE k = 2
  <2>1. stage' = 2 /\ server' = "up" /\ step' = 1 /\ tx' = {}
    BY <1>1, <1>3 DEF EndStage
  <2>2. 1 \in 1..Len(Stages[2]) + 1
    BY StagesTyped
  <2>3. \A r \in Seed : db'[r] = 1
    <3>1. Filled(1)' /\ Filled(2)'
      BY <1>3
    <3>2. QED
      BY <3>1, StagesTyped DEF Filled
  <2>4. QED
    BY <1>1, <1>3, <2>1, <2>2, <2>3 DEF StartupInv, EndStage, StartupTypeOK,
       StartSteps, ServesOnlySeeded
<1>4. QED
  BY <1>2, <1>3

LEMMA ProbeSeededKeeps ==
  ASSUME StartupInv, ProbeSeeded
  PROVE  StartupInv'
<1>1. stage \in 1..2 /\ db' = db /\ EndStage /\ server = "probe"
  BY StagesTyped DEF StartupInv, StartupTypeOK, ProbeSeeded
<1>2. PICK k \in 1..2 : k = stage
  BY <1>1
<1>3. PICK r \in Stages[k][1] : db[r] > 0
  BY <1>2 DEF ProbeSeeded
<1>4. r \in StageRows(k)
  <2>1. Stages[k][1] \in SUBSET StageRows(k)
    BY StagesTyped, ElementOfSeq
  <2>2. QED
    BY <2>1
<1>5. Filled(k)
  BY <1>2, <1>3, <1>4 DEF StartupInv, Empty
<1>6. \A j \in 1..2 : (Filled(j)' <=> Filled(j)) /\ (Empty(j)' <=> Empty(j))
  BY <1>1 DEF Filled, Empty
<1>7. Filled(k)' /\ (k = 2 => Filled(1)')
  BY <1>1, <1>2, <1>5, <1>6 DEF StartupInv
<1>8. QED
  BY <1>1, <1>2, <1>6, <1>7, EndStageKeeps DEF StartupInv, StartupTypeOK

LEMMA FlushGroupKeeps ==
  ASSUME StartupInv, FlushGroup
  PROVE  StartupInv'
<1> DEFINE group == Stages[stage][step]
<1>1. /\ stage \in 1..2 /\ step \in DOMAIN Stages[stage] /\ server = "flush"
      /\ Len(Stages[stage]) \in Nat /\ step \in Nat
      /\ DOMAIN Stages[stage] = 1..Len(Stages[stage])
  BY StagesTyped DEF StartupInv, StartupTypeOK, FlushGroup
<1>2. UNCHANGED <<db, stage, starts>>
  BY DEF FlushGroup
<1>3. CASE \A r \in group : CanInsert(r)
  <2>1. /\ tx' = tx \cup group /\ step' = step + 1
        /\ server' = IF step < Len(Stages[stage]) THEN "flush" ELSE "commit"
    BY <1>3 DEF FlushGroup
  <2>2. tx' = Flushed(stage, step + 1)
    BY <1>1, <2>1, FlushedRows DEF StartupInv
  <2>3. tx' \subseteq Seed
    <3>1. group \in SUBSET StageRows(stage)
      BY <1>1, StagesTyped, ElementOfSeq
    <3>2. StageRows(stage) \subseteq Seed
      BY <1>1, StagesTyped
    <3>3. QED
      BY <2>1, <3>1, <3>2 DEF StartupInv, StartupTypeOK
  <2>4. (Flushed(stage, step))' = Flushed(stage, step + 1)
    BY <1>2, <2>1 DEF Flushed
  <2>5. QED
    BY <1>1, <1>2, <2>1, <2>2, <2>3, <2>4 DEF StartupInv, StartupTypeOK,
       StartSteps, ServesOnlySeeded, Filled, Empty
<1>4. CASE ~ \A r \in group : CanInsert(r)
  <2>1. tx' = {} /\ server' = "failed" /\ step' = step
    BY <1>4 DEF FlushGroup
  <2>2. QED
    BY <1>1, <1>2, <2>1 DEF StartupInv, StartupTypeOK, StartSteps,
       ServesOnlySeeded, Filled, Empty
<1>5. QED
  BY <1>3, <1>4

LEMMA CommitStageKeeps ==
  ASSUME StartupInv, CommitStage
  PROVE  StartupInv'
<1>1. /\ stage \in 1..2 /\ EndStage /\ server = "commit"
      /\ db' = [r \in DOMAIN db |-> IF r \in tx THEN db[r] + 1 ELSE db[r]]
  BY StagesTyped DEF StartupInv, StartupTypeOK, CommitStage
<1>2. PICK k \in 1..2 : k = stage
  BY <1>1
<1>3. tx = StageRows(k) /\ Empty(k)
  BY <1>1, <1>2, FlushedRows DEF StartupInv
<1>4. /\ Seed \subseteq DOMAIN db
      /\ \A j \in 1..2 : StageRows(j) \subseteq Seed
      /\ \A j \in 1..2 : j # k => StageRows(j) \cap StageRows(k) = {}
  BY StagesTyped DEF StartupInv, StartupTypeOK
<1>5. Filled(k)'
  BY <1>1, <1>3, <1>4 DEF Filled, Empty
<1>6. \A j \in 1..2 : j # k => \A r \in StageRows(j) : db'[r] = db[r]
  BY <1>1, <1>3, <1>4
<1>7. \A j \in 1..2 : j # k =>
        (Filled(j)' <=> Filled(j)) /\ (Empty(j)' <=> Empty(j))
  BY <1>6 DEF Filled, Empty
<1>8. DOMAIN db' = DOMAIN db /\ \A r \in DOMAIN db' : db'[r] \in Nat
  BY <1>1 DEF StartupInv, StartupTypeOK
<1>9. k = 2 => Filled(1)'
  BY <1>1, <1>2, <1>7 DEF StartupInv
<1>10. QED
  BY <1>1, <1>2, <1>5, <1>7, <1>8, <1>9, EndStageKeeps

LEMMA StartupStepKeeps ==
  ASSUME StartupInv, StartStep
  PROVE  StartupInv'
BY CatalogKeeps, ProbeSeededKeeps, ProbeEmptyKeeps, FlushGroupKeeps,
   CommitStageKeeps DEF StartStep

LEMMA StartupStutters ==
  ASSUME StartupInv, UNCHANGED startupVars
  PROVE  StartupInv'
BY DEF StartupInv, startupVars, StartupTypeOK, ServesOnlySeeded, Filled, Empty,
   Flushed

(* Rows that are inserted only where they are missing, on a server that is   *)
(* up, are none of the seed's.                                              *)
LEMMA MasterDataKeeps ==
  ASSUME StartupInv, AddMasterData
  PROVE  StartupInv'
<1>1. /\ server = "up" /\ UNCHANGED <<tx, server, stage, step, starts>>
      /\ db' = [r \in DOMAIN db |-> IF r \in Inventory THEN 1 ELSE db[r]]
  BY DEF AddMasterData
<1>2. /\ DOMAIN db' = DOMAIN db
      /\ \A r \in DOMAIN db : db'[r] \in Nat
      /\ \A r \in Seed : db'[r] = db[r]
  BY <1>1 DEF StartupInv, StartupTypeOK, ServesOnlySeeded
<1>3. /\ \A k \in 1..2 : (Filled(k)' <=> Filled(k)) /\ (Empty(k)' <=> Empty(k))
      /\ Seed \cup Catalog \subseteq DOMAIN db'
  BY <1>2, SeedKept
<1>4. QED
  BY <1>1, <1>2, <1>3 DEF StartupInv, StartupTypeOK, StartSteps, ServesOnlySeeded

-----------------------------------------------------------------------------
(* The scenario lab: types *)

IncidentRow == [scenario : ScenarioIds,
                status : {"ANALYZING", "AWAITING_APPROVAL", "OPEN"}]

ReportRow == [supplier : Reported, on_time : BOOLEAN, mismatch : BOOLEAN]

MemoryRow == [supplier : Reported, completed : Nat, on_time : Nat,
              late : Nat, mismatches : Nat]

(* What a session keeps of a report between reading and committing. *)
PendingReport ==
  [record : Nat, row : UNION {[Changes(o, m) -> Nat] : o, m \in BOOLEAN},
   supplier : Reported, on_time : BOOLEAN, mismatch : BOOLEAN]

LabRequest == [scenario : ScenarioIds \cup {"none"},
               report : PendingReport \cup {NoReport}, incident : Nat]

(* The committed reports on a supplier that count for a column. *)
Counted(col, supplier) ==
  {k \in DOMAIN reports :
     /\ reports[k].supplier = supplier
     /\ col \in Changes(reports[k].on_time, reports[k].mismatch)}

(* How often each column may have been counted up for each supplier. *)
Bound == [supplier \in Reported |->
           [col \in Counters |-> Cardinality(Counted(col, supplier))]]

(* A report that is under way writes at most one more than is committed.    *)
PendingOK(report) ==
  /\ DOMAIN report.row = Changes(report.on_time, report.mismatch)
  /\ \A col \in DOMAIN report.row :
       /\ report.row[col] \in Nat
       /\ report.row[col] <= Bound[report.supplier][col] + 1
  /\ report.record # 0 =>
       /\ report.record \in DOMAIN memory
       /\ memory[report.record].supplier = report.supplier

(* What a session may rely on that is about to take a step of its request. *)
Relies(label, request) ==
  /\ label \in {"record", "create_incident"} => request.scenario \in ScenarioIds
  /\ label \in {"audit", "pipeline"} => request.incident \in DOMAIN incidents
  /\ label = "verification_passed" => request.report # NoReport
  /\ request.report # NoReport => PendingOK(request.report)

SessionOK(s) == Relies(pc[s], ctx[s])

NoMoreThanReported ==
  \A i \in DOMAIN memory, col \in Counters :
    memory[i][col] <= Bound[memory[i].supplier][col]

LabTypes ==
  /\ cells \in [Cells -> {"seeded", "disrupted", "reset"}]
  /\ inserted \subseteq ScenarioIds
  /\ memory \in Seq(MemoryRow)
  /\ incidents \in Seq(IncidentRow)
  /\ injected \subseteq DOMAIN incidents
  /\ reports \in Seq(ReportRow)
  /\ pc \in [Sessions -> {"idle", "record", "create_incident", "audit",
                          "pipeline", "verification_passed"}]
  /\ ctx \in [Sessions -> LabRequest]

LabInv ==
  /\ StartupInv
  /\ LabTypes
  /\ InjectionAtomic
  /\ NoMoreThanReported
  /\ \A s \in Sessions : SessionOK(s)

LEMMA AppendRow ==
  ASSUME NEW S, NEW t \in Seq(S), NEW r \in S
  PROVE  /\ Append(t, r) \in Seq(S)
         /\ DOMAIN t = 1..Len(t)
         /\ Len(t) \in Nat
         /\ Len(Append(t, r)) = Len(t) + 1
         /\ DOMAIN Append(t, r) = 1..(Len(t) + 1)
         /\ \A i \in DOMAIN t : Append(t, r)[i] = t[i]
         /\ Append(t, r)[Len(t) + 1] = r
BY AppendProperties, LenProperties

(* The latest of a non-empty set of records exists. *)
LEMMA LatestIn ==
  ASSUME NEW n \in Nat, NEW T, \A i \in T : i \in Nat /\ i <= n, T # {}
  PROVE  \E i \in T : \A j \in T : j <= i
<1> DEFINE U == {n - i : i \in T}
<1>1. \A i \in T : n - i \in Nat
  OBVIOUS
<1>2. U \subseteq Nat
  BY <1>1
<1>3. U # {}
  OBVIOUS
<1>4. PICK R : /\ IsWellFoundedOn(R, Nat)
               /\ \A x, y \in Nat : x < y => <<x, y>> \in R
  <2>1. \A x, y \in Nat : x < y => <<x, y>> \in OpToRel(<, Nat)
    BY Zenon DEF OpToRel
  <2>2. QED
    BY <2>1, NatLessThanWellFounded, Zenon
<1> HIDE DEF U
<1>5. PICK x \in U : \A y \in U : <<y, x>> \notin R
  <2>1. IsWellFoundedOn(R, Nat)
    BY <1>4
  <2>2. \E x \in U : \A y \in U : ~ (<<y, x>> \in R)
    BY <1>2, <1>3, <2>1, WFMin, Zenon
  <2>3. QED
    BY <2>2
<1>6. \A y \in U : ~(y < x)
  BY <1>2, <1>4, <1>5
<1>7. PICK i \in T : x = n - i
  BY <1>5 DEF U
<1>8. ASSUME NEW j \in T
      PROVE  j <= i
  <2>1. n - j \in U
    BY DEF U
  <2>2. ~(n - j < n - i)
    BY <1>6, <1>7, <2>1
  <2>3. QED
    BY <2>2
<1>9. QED
  BY <1>8

(* Only Len(reports) committed reports can count, so they can be counted.   *)
LEMMA CountedFinite ==
  ASSUME reports \in Seq(ReportRow)
  PROVE  \A col, supplier : /\ IsFiniteSet(Counted(col, supplier))
                            /\ Cardinality(Counted(col, supplier)) \in Nat
<1>1. Len(reports) \in Nat /\ DOMAIN reports = 1..Len(reports)
  BY LenProperties
<1>2. IsFiniteSet(1..Len(reports))
  BY <1>1, FS_Interval
<1>3. \A col, supplier : Counted(col, supplier) \in SUBSET (1..Len(reports))
  BY <1>1 DEF Counted
<1>4. QED
  BY <1>2, <1>3, FS_Subset, FS_CardinalityType

(* A report that is committed counts once more where it counts, and nowhere  *)
(* else.                                                                    *)
LEMMA CountedAppend ==
  ASSUME reports \in Seq(ReportRow), NEW r \in ReportRow,
         reports' = Append(reports, r)
  PROVE  \A col, supplier :
           LET N == Cardinality(Counted(col, supplier))
           IN  /\ N \in Nat
               /\ Cardinality(Counted(col, supplier)') =
                    IF r.supplier = supplier /\ col \in Changes(r.on_time, r.mismatch)
                      THEN N + 1 ELSE N
<1> SUFFICES ASSUME NEW col, NEW supplier
    PROVE  LET N == Cardinality(Counted(col, supplier))
           IN  /\ N \in Nat
               /\ Cardinality(Counted(col, supplier)') =
                    IF r.supplier = supplier /\ col \in Changes(r.on_time, r.mismatch)
                      THEN N + 1 ELSE N
  OBVIOUS
<1> DEFINE C == Counted(col, supplier)
           k == Len(reports) + 1
<1>1. /\ DOMAIN reports = 1..Len(reports) /\ Len(reports) \in Nat
      /\ DOMAIN reports' = 1..k
      /\ \A i \in DOMAIN reports : reports'[i] = reports[i]
      /\ reports'[k] = r
  BY AppendRow
<1>2. IsFiniteSet(C) /\ Cardinality(C) \in Nat
  BY CountedFinite
<1>3. k \notin C
  BY <1>1 DEF Counted
<1>4. CASE r.supplier = supplier /\ col \in Changes(r.on_time, r.mismatch)
  <2>1. C' = C \cup {k}
    BY <1>1, <1>4 DEF Counted
  <2>2. QED
    BY <1>2, <1>3, <1>4, <2>1, FS_AddElement
<1>5. CASE ~(r.supplier = supplier /\ col \in Changes(r.on_time, r.mismatch))
  <2>1. C' = C
    BY <1>1, <1>5 DEF Counted
  <2>2. QED
    BY <1>2, <1>5, <2>1
<1>6. QED
  BY <1>4, <1>5

LEMMA BoundTyped ==
  ASSUME reports \in Seq(ReportRow)
  PROVE  \A supplier \in Reported, col \in Counters : Bound[supplier][col] \in Nat
BY CountedFinite DEF Bound

LEMMA BoundAppend ==
  ASSUME reports \in Seq(ReportRow), NEW r \in ReportRow,
         reports' = Append(reports, r)
  PROVE  \A supplier \in Reported, col \in Counters :
           Bound'[supplier][col] =
             IF r.supplier = supplier /\ col \in Changes(r.on_time, r.mismatch)
               THEN Bound[supplier][col] + 1 ELSE Bound[supplier][col]
BY CountedAppend DEF Bound

-----------------------------------------------------------------------------
(* The memory of suppliers *)

LEMMA LatestRow ==
  ASSUME memory \in Seq(MemoryRow), NEW supplier \in Reported
  PROVE  Latest(supplier) # 0 =>
           /\ Latest(supplier) \in DOMAIN memory
           /\ memory[Latest(supplier)].supplier = supplier
<1> DEFINE T == {i \in DOMAIN memory : memory[i].supplier = supplier}
<1>1. Len(memory) \in Nat /\ DOMAIN memory = 1..Len(memory)
  BY LenProperties
<1>2. CASE T = {}
  BY <1>2 DEF Latest
<1>3. CASE T # {}
  <2>1. \E i \in T : \A j \in T : j <= i
    <3>1. \A i \in T : i \in Nat /\ i <= Len(memory)
      BY <1>1
    <3>2. QED
      BY <1>1, <1>3, <3>1, LatestIn
  <2>2. Latest(supplier) \in T
    BY <1>3, <2>1 DEF Latest
  <2>3. QED
    BY <2>2
<1>4. QED
  BY <1>2, <1>3

LEMMA ChangesCounters ==
  \A o, m \in BOOLEAN : Changes(o, m) \subseteq Counters
BY DEF Changes, Counters

LEMMA CountersOf ==
  /\ \A row \in MemoryRow, col \in Counters : row[col] \in Nat
  /\ \A supplier \in Reported :
       /\ Performance(supplier) \in MemoryRow
       /\ Performance(supplier).supplier = supplier
       /\ \A col \in Counters : Performance(supplier)[col] = 0
BY DEF MemoryRow, Counters, Performance

LEMMA RecordPending ==
  ASSUME LabTypes, NoMoreThanReported,
         NEW supplier \in Reported, NEW o \in BOOLEAN, NEW m \in BOOLEAN
  PROVE  /\ Record(supplier, o, m) \in PendingReport
         /\ Record(supplier, o, m) # NoReport
         /\ PendingOK(Record(supplier, o, m))
<1> DEFINE i    == Latest(supplier)
           seen == IF i = 0 THEN Performance(supplier) ELSE memory[i]
           r    == Record(supplier, o, m)
<1>1. memory \in Seq(MemoryRow) /\ reports \in Seq(ReportRow)
  BY DEF LabTypes
<1>2. i # 0 => i \in DOMAIN memory /\ memory[i].supplier = supplier
  BY <1>1, LatestRow
<1>3. i \in Nat
  <2>1. DOMAIN memory \subseteq Nat
    BY <1>1, LenProperties
  <2>2. QED
    BY <1>2, <2>1
<1>4. seen \in MemoryRow
  <2>1. \A j \in DOMAIN memory : memory[j] \in MemoryRow
    BY <1>1, LenProperties
  <2>2. QED
    BY <1>2, <2>1, CountersOf
<1>5. \A col \in Counters :
        /\ seen[col] \in Nat
        /\ seen[col] <= Bound[supplier][col]
  <2> TAKE col \in Counters
  <2>1. seen[col] \in Nat
    BY <1>4, CountersOf
  <2>2. CASE i = 0
    <3>1. Bound[supplier][col] \in Nat
      BY <1>1, BoundTyped
    <3>2. QED
      BY <2>2, <3>1, CountersOf
  <2>3. CASE i # 0
    <3>1. memory[i][col] <= Bound[memory[i].supplier][col]
      BY <1>2, <2>3 DEF NoMoreThanReported
    <3>2. QED
      BY <1>2, <2>1, <2>3, <3>1
  <2>4. QED
    BY <2>1, <2>2, <2>3
<1>6. /\ r.record = i /\ r.supplier = supplier /\ r.on_time = o /\ r.mismatch = m
      /\ r.row = [col \in Changes(o, m) |-> seen[col] + 1]
  BY DEF Record
<1>7. r.row \in [Changes(o, m) -> Nat]
  BY <1>5, <1>6, ChangesCounters
<1>8. r = [record |-> i, row |-> r.row, supplier |-> supplier,
           on_time |-> o, mismatch |-> m]
  BY <1>6 DEF Record
<1>9. r \in PendingReport
  <2>1. r.row \in UNION {[Changes(oo, mm) -> Nat] : oo, mm \in BOOLEAN}
    <3> DEFINE F == {[Changes(oo, mm) -> Nat] : oo, mm \in BOOLEAN}
    <3>1. [Changes(o, m) -> Nat] \in F
      OBVIOUS
    <3> HIDE DEF F
    <3>2. r.row \in UNION F
      BY <1>7, <3>1
    <3>3. QED
      BY <3>2 DEF F
  <2> HIDE DEF r, i
  <2>2. QED
    BY <1>3, <1>8, <2>1 DEF PendingReport
<1>10. r # NoReport
  BY <1>6 DEF NoReport, Reported
<1>11. PendingOK(r)
  <2>1. DOMAIN r.row = Changes(r.on_time, r.mismatch)
    BY <1>6
  <2>2. \A col \in DOMAIN r.row :
          /\ r.row[col] \in Nat
          /\ r.row[col] <= Bound[r.supplier][col] + 1
    <3> TAKE col \in DOMAIN r.row
    <3>1. col \in Counters /\ r.row[col] = seen[col] + 1
      BY <1>6, ChangesCounters
    <3>2. Bound[supplier][col] \in Nat
      BY <1>1, <3>1, BoundTyped
    <3>3. QED
      BY <1>5, <1>6, <3>1, <3>2
  <2>3. QED
    BY <1>2, <1>6, <2>1, <2>2 DEF PendingOK
<1>12. QED
  BY <1>9, <1>10, <1>11

(* The row that a commit writes: the columns that change from the report,    *)
(* the others from the record.                                              *)
LEMMA MergedRow ==
  ASSUME NEW row \in MemoryRow, NEW C \in SUBSET Counters, NEW d \in [C -> Nat]
  PROVE  /\ Merge(row, d) \in MemoryRow
         /\ Merge(row, d).supplier = row.supplier
         /\ \A col \in Counters :
              Merge(row, d)[col] = IF col \in C THEN d[col] ELSE row[col]
<1> DEFINE u == Merge(row, d)
<1>1. u = [x \in DOMAIN row |-> IF x \in C THEN d[x] ELSE row[x]]
  BY DEF Merge
<1>2. DOMAIN row = {"supplier", "completed", "on_time", "late", "mismatches"}
  BY DEF MemoryRow
<1>3. Counters = {"completed", "on_time", "late", "mismatches"}
  BY DEF Counters
<1>4. "supplier" \notin C
  BY <1>3
<1>5. /\ row["supplier"] \in Reported
      /\ \A col \in Counters : row[col] \in Nat
  BY <1>3 DEF MemoryRow
<1>6. \A col \in Counters : u[col] = IF col \in C THEN d[col] ELSE row[col]
  BY <1>1, <1>2, <1>3
<1>7. u["supplier"] = row["supplier"]
  BY <1>1, <1>2, <1>4
<1>8. \A col \in Counters : u[col] \in Nat
  BY <1>5, <1>6
<1>9. u = [supplier |-> u["supplier"], completed |-> u["completed"],
           on_time |-> u["on_time"], late |-> u["late"],
           mismatches |-> u["mismatches"]]
  BY <1>1, <1>2
<1>10. u \in MemoryRow
  <2> HIDE DEF u
  <2>1. QED
    BY <1>3, <1>5, <1>7, <1>8, <1>9 DEF MemoryRow
<1>11. QED
  BY <1>6, <1>7, <1>10

LEMMA CommitReport ==
  ASSUME LabTypes, NoMoreThanReported,
         NEW report \in PendingReport, PendingOK(report), Remember(report)
  PROVE  /\ memory' \in Seq(MemoryRow)
         /\ reports' \in Seq(ReportRow)
         /\ NoMoreThanReported'
         /\ \A other \in PendingReport : PendingOK(other) => PendingOK(other)'
<1> DEFINE r == [supplier |-> report.supplier, on_time |-> report.on_time,
                 mismatch |-> report.mismatch]
           C == Changes(report.on_time, report.mismatch)
<1>1. /\ memory \in Seq(MemoryRow) /\ reports \in Seq(ReportRow)
      /\ Len(memory) \in Nat
      /\ DOMAIN memory = 1..Len(memory)
      /\ \A i \in DOMAIN memory : memory[i] \in MemoryRow
  BY LenProperties DEF LabTypes
<1>2. /\ report.supplier \in Reported
      /\ report.on_time \in BOOLEAN /\ report.mismatch \in BOOLEAN
      /\ report.record \in Nat
  BY DEF PendingReport
<1>3. report # NoReport
  BY <1>2 DEF NoReport, Reported
<1>4. reports' = Append(reports, r) /\ memory' = Committed(report)
  BY <1>3 DEF Remember
<1>5. r \in ReportRow
  BY <1>2 DEF ReportRow
<1>6. reports' \in Seq(ReportRow)
  BY <1>1, <1>4, <1>5, AppendRow
<1>7. \A supplier \in Reported, col \in Counters :
        /\ Bound[supplier][col] \in Nat
        /\ Bound'[supplier][col] =
             IF report.supplier = supplier /\ col \in C
               THEN Bound[supplier][col] + 1 ELSE Bound[supplier][col]
  BY <1>1, <1>4, <1>5, BoundTyped, BoundAppend
<1>8. C \in SUBSET Counters /\ report.row \in [C -> Nat]
  <2>1. report.row \in [DOMAIN report.row -> Nat]
    <3>1. report.row \in UNION {[Changes(o, m) -> Nat] : o, m \in BOOLEAN}
      BY DEF PendingReport
    <3>2. QED
      BY <3>1
  <2>2. QED
    BY <1>2, <2>1, ChangesCounters DEF PendingOK
<1>9. ASSUME NEW row \in MemoryRow, row.supplier = report.supplier,
             \A col \in Counters : row[col] <= Bound[report.supplier][col]
      PROVE  /\ Merge(row, report.row) \in MemoryRow
             /\ Merge(row, report.row).supplier = report.supplier
             /\ \A col \in Counters :
                  Merge(row, report.row)[col] <= Bound'[report.supplier][col]
  <2>1. /\ Merge(row, report.row) \in MemoryRow
        /\ Merge(row, report.row).supplier = report.supplier
    BY <1>8, <1>9, MergedRow
  <2>2. ASSUME NEW col \in Counters
        PROVE  Merge(row, report.row)[col] <= Bound'[report.supplier][col]
    <3>1. Merge(row, report.row)[col] = IF col \in C THEN report.row[col] ELSE row[col]
      BY <1>8, MergedRow
    <3>2. col \in C => report.row[col] <= Bound[report.supplier][col] + 1
      BY <1>8 DEF PendingOK
    <3>3. row[col] <= Bound[report.supplier][col]
      BY <1>9
    <3>4. QED
      BY <1>2, <1>7, <3>1, <3>2, <3>3
  <2>3. QED
    BY <2>1, <2>2
<1>10. ASSUME NEW i \in DOMAIN memory, NEW col \in Counters
       PROVE  memory[i][col] <= Bound'[memory[i].supplier][col]
  <2>1. memory[i][col] <= Bound[memory[i].supplier][col] /\ memory[i][col] \in Nat
    BY <1>1, CountersOf DEF NoMoreThanReported
  <2>2. memory[i].supplier \in Reported
    BY <1>1 DEF MemoryRow
  <2>3. QED
    BY <1>7, <2>1, <2>2
<1>11. /\ memory' \in Seq(MemoryRow)
       /\ \A i \in DOMAIN memory : /\ i \in DOMAIN memory'
                                   /\ memory'[i].supplier = memory[i].supplier
       /\ \A i \in DOMAIN memory', col \in Counters :
            memory'[i][col] <= Bound'[memory'[i].supplier][col]
  <2>1. CASE report.record = 0
    <3> DEFINE row == Performance(report.supplier)
               new == Merge(row, report.row)
    <3>1. memory' = Append(memory, new)
      BY <1>4, <2>1 DEF Committed
    <3>2. row \in MemoryRow /\ row.supplier = report.supplier
      BY <1>2, CountersOf
    <3>3. \A col \in Counters : row[col] <= Bound[report.supplier][col]
      BY <1>2, <1>7, CountersOf
    <3>4. /\ new \in MemoryRow /\ new.supplier = report.supplier
          /\ \A col \in Counters : new[col] <= Bound'[report.supplier][col]
      BY <1>9, <3>2, <3>3
    <3> HIDE DEF new
    <3>5. /\ memory' \in Seq(MemoryRow)
          /\ DOMAIN memory' = 1..(Len(memory) + 1)
          /\ \A i \in DOMAIN memory : memory'[i] = memory[i]
          /\ memory'[Len(memory) + 1] = new
      BY <1>1, <3>1, <3>4, AppendRow
    <3>6. QED
      BY <1>1, <1>10, <3>4, <3>5
  <2>2. CASE report.record # 0
    <3> DEFINE i == report.record
               row == memory[i]
               new == Merge(row, report.row)
    <3>1. /\ i \in DOMAIN memory /\ row.supplier = report.supplier
          /\ memory' = [memory EXCEPT ![i] = new]
      BY <1>4, <2>2 DEF Committed, PendingOK
    <3>2. row \in MemoryRow /\ \A col \in Counters : row[col] <= Bound[report.supplier][col]
      BY <1>1, <3>1 DEF NoMoreThanReported
    <3>3. /\ new \in MemoryRow /\ new.supplier = report.supplier
          /\ \A col \in Counters : new[col] <= Bound'[report.supplier][col]
      BY <1>9, <3>1, <3>2
    <3> HIDE DEF new
    <3>4. /\ memory' \in Seq(MemoryRow)
          /\ DOMAIN memory' = DOMAIN memory
          /\ \A j \in DOMAIN memory : memory'[j] = IF j = i THEN new ELSE memory[j]
      BY <1>1, <3>1, <3>3, ExceptSeq
    <3>5. QED
      BY <1>10, <3>1, <3>3, <3>4
  <2>3. QED
    BY <2>1, <2>2
<1>12. NoMoreThanReported'
  BY <1>11 DEF NoMoreThanReported
<1>13. ASSUME NEW other \in PendingReport, PendingOK(other)
       PROVE  PendingOK(other)'
  <2>1. \A col \in DOMAIN other.row :
          /\ other.row[col] \in Nat
          /\ other.row[col] <= Bound'[other.supplier][col] + 1
    <3> TAKE col \in DOMAIN other.row
    <3>1. other.row[col] \in Nat /\ other.row[col] <= Bound[other.supplier][col] + 1
      BY <1>13 DEF PendingOK
    <3>2. other.supplier \in Reported /\ col \in Counters
      BY <1>13, ChangesCounters DEF PendingOK, PendingReport
    <3>3. QED
      BY <1>7, <3>1, <3>2
  <2>2. QED
    BY <1>11, <1>13, <2>1 DEF PendingOK
<1>14. QED
  BY <1>6, <1>11, <1>12, <1>13

(* What the sessions and the memory rely on stays as it is.                 *)
LEMMA NoReportCommitted ==
  ASSUME LabInv, UNCHANGED <<memory, reports>>
  PROVE  /\ NoMoreThanReported'
         /\ \A other \in PendingReport : PendingOK(other) => PendingOK(other)'
BY DEF LabInv, NoMoreThanReported, PendingOK, Bound, Counted

-----------------------------------------------------------------------------
(* The steps of the scenario lab *)

LabLabels == {"idle", "record", "create_incident", "audit", "pipeline",
              "verification_passed"}

(* What a step of session s leaves to prove of the sessions. *)
LEMMA SessionStep ==
  ASSUME LabInv, NEW s \in Sessions,
         NEW label \in LabLabels, pc' = [pc EXCEPT ![s] = label],
         NEW request \in LabRequest, ctx' = [ctx EXCEPT ![s] = request],
         DOMAIN incidents \subseteq DOMAIN incidents',
         \A other \in PendingReport : PendingOK(other) => PendingOK(other)',
         Relies(label, request)'
  PROVE  /\ pc' \in [Sessions -> LabLabels]
         /\ ctx' \in [Sessions -> LabRequest]
         /\ \A t \in Sessions : SessionOK(t)'
<1>1. pc \in [Sessions -> LabLabels] /\ ctx \in [Sessions -> LabRequest]
  BY DEF LabInv, LabTypes, LabLabels
<1>2. pc' \in [Sessions -> LabLabels] /\ ctx' \in [Sessions -> LabRequest]
  BY <1>1
<1>3. pc'[s] = label /\ ctx'[s] = request
  BY <1>1
<1>4. SessionOK(s)'
  BY <1>3 DEF SessionOK
<1>5. ASSUME NEW t \in Sessions, t # s
      PROVE  SessionOK(t)'
  <2>1. pc'[t] = pc[t] /\ ctx'[t] = ctx[t] /\ SessionOK(t)
    BY <1>1, <1>5 DEF LabInv
  <2>2. ctx[t].report # NoReport => ctx[t].report \in PendingReport
    BY <1>1 DEF LabRequest
  <2>3. QED
    BY <2>1, <2>2 DEF SessionOK, Relies
<1>6. QED
  BY <1>2, <1>4, <1>5

LEMMA NoRequestTyped ==
  /\ NoRequest \in LabRequest
  /\ NoRequest.report = NoReport
  /\ \A n \in ScenarioIds : LET q == [NoRequest EXCEPT !.scenario = n]
                            IN  q \in LabRequest /\ q.scenario = n /\ q.report = NoReport
  /\ \A r \in PendingReport : LET q == [NoRequest EXCEPT !.report = r]
                              IN  q \in LabRequest /\ q.report = r
BY DEF NoRequest, LabRequest

(* A disruption stays explained by its incident. *)
LEMMA StillAtomic ==
  ASSUME LabInv, inserted' = inserted,
         \A c \in Cells : cells'[c] = "disrupted" => cells[c] = "disrupted",
         DOMAIN incidents' = DOMAIN incidents,
         \A i \in DOMAIN incidents : incidents'[i].scenario = incidents[i].scenario
  PROVE  InjectionAtomic'
<1>1. {incidents'[i].scenario : i \in DOMAIN incidents'}
        = {incidents[i].scenario : i \in DOMAIN incidents}
  OBVIOUS
<1>2. QED
  BY <1>1 DEF LabInv, InjectionAtomic

LEMMA InjectScenarioKeeps ==
  ASSUME LabInv, NEW s \in Sessions, NEW n \in ScenarioIds,
         InjectScenario(s, n) \/ InjectionRefused(s, n)
  PROVE  LabInv'
<1>1. UNCHANGED <<startupVars, labTables, reports>>
  BY DEF InjectScenario, InjectionRefused, Begin
<1>2. PICK label \in {"idle", "record", "create_incident"} :
        /\ pc' = [pc EXCEPT ![s] = label]
        /\ \/ ctx' = [ctx EXCEPT ![s] = NoRequest] /\ label = "idle"
           \/ ctx' = [ctx EXCEPT ![s] = [NoRequest EXCEPT !.scenario = n]]
  BY DEF InjectScenario, InjectionRefused, Begin
<1>3. /\ NoMoreThanReported'
      /\ \A other \in PendingReport : PendingOK(other) => PendingOK(other)'
  BY <1>1, NoReportCommitted DEF labTables
<1>4. InjectionAtomic'
  BY <1>1, StillAtomic DEF labTables
<1>5. /\ pc' \in [Sessions -> LabLabels] /\ ctx' \in [Sessions -> LabRequest]
      /\ \A t \in Sessions : SessionOK(t)'
  <2>1. label \in LabLabels /\ DOMAIN incidents \subseteq DOMAIN incidents'
    BY <1>1 DEF LabLabels, labTables
  <2>2. CASE ctx' = [ctx EXCEPT ![s] = NoRequest] /\ label = "idle"
    BY <1>2, <1>3, <2>1, <2>2, NoRequestTyped, SessionStep DEF Relies
  <2>3. CASE ctx' = [ctx EXCEPT ![s] = [NoRequest EXCEPT !.scenario = n]]
    <3> DEFINE q == [NoRequest EXCEPT !.scenario = n]
    <3>1. q \in LabRequest /\ q.scenario = n /\ q.report = NoReport
      BY NoRequestTyped
    <3> HIDE DEF q
    <3>2. ctx' = [ctx EXCEPT ![s] = q]
      BY <2>3 DEF q
    <3>3. QED
      BY <1>2, <1>3, <2>1, <3>1, <3>2, SessionStep DEF Relies
  <2>4. QED
    BY <1>2, <2>2, <2>3
<1>6. QED
  BY <1>1, <1>3, <1>4, <1>5, StartupStutters
     DEF LabInv, LabTypes, LabLabels, labTables

LEMMA ResetScenarioKeeps ==
  ASSUME LabInv, NEW s \in Sessions, NEW n \in ScenarioIds, ResetScenario(s, n)
  PROVE  LabInv'
<1>1. /\ UNCHANGED <<startupVars, inserted, memory, incidents, injected, reports>>
      /\ cells' = Written(Scenarios[n].resets, "reset")
      /\ pc' = [pc EXCEPT ![s] = "idle"]
      /\ ctx' = [ctx EXCEPT ![s] = NoRequest]
  BY DEF ResetScenario, Begin
<1>2. /\ cells' \in [Cells -> {"seeded", "disrupted", "reset"}]
      /\ \A c \in Cells : cells'[c] = "disrupted" => cells[c] = "disrupted"
  BY <1>1 DEF LabInv, LabTypes, Written
<1>3. /\ NoMoreThanReported'
      /\ \A other \in PendingReport : PendingOK(other) => PendingOK(other)'
  BY <1>1, NoReportCommitted
<1>4. InjectionAtomic'
  BY <1>1, <1>2, StillAtomic
<1>5. "idle" \in LabLabels /\ DOMAIN incidents \subseteq DOMAIN incidents'
  BY <1>1 DEF LabLabels
<1>6. /\ pc' \in [Sessions -> LabLabels] /\ ctx' \in [Sessions -> LabRequest]
      /\ \A t \in Sessions : SessionOK(t)'
  BY <1>1, <1>3, <1>5, NoRequestTyped, SessionStep DEF Relies
<1>7. QED
  BY <1>1, <1>2, <1>3, <1>4, <1>6, StartupStutters DEF LabInv, LabTypes, LabLabels

LEMMA ReportOnTimeKeeps ==
  ASSUME LabInv, NEW s \in Sessions, NEW supplier \in Reported,
         ReportOnTime(s, supplier)
  PROVE  LabInv'
<1> DEFINE r == Record(supplier, TRUE, FALSE)
           q == [NoRequest EXCEPT !.report = r]
<1>1. /\ UNCHANGED <<startupVars, labTables, reports>>
      /\ pc' = [pc EXCEPT ![s] = "verification_passed"]
      /\ ctx' = [ctx EXCEPT ![s] = q]
  BY DEF ReportOnTime, Begin
<1>2. r \in PendingReport /\ r # NoReport /\ PendingOK(r)
  BY RecordPending DEF LabInv
<1>3. /\ NoMoreThanReported'
      /\ \A other \in PendingReport : PendingOK(other) => PendingOK(other)'
  BY <1>1, NoReportCommitted DEF labTables
<1> HIDE DEF r
<1>4. q \in LabRequest /\ q.report = r
  BY <1>2, NoRequestTyped
<1>5. InjectionAtomic'
  BY <1>1, StillAtomic DEF labTables
<1>6. PICK w \in LabRequest : w = q
  BY <1>4
<1>7. /\ w.report # NoReport /\ ctx' = [ctx EXCEPT ![s] = w]
      /\ w.report \in PendingReport /\ PendingOK(w.report)
  BY <1>1, <1>2, <1>4, <1>6
<1>8. Relies("verification_passed", w)'
  BY <1>3, <1>7 DEF Relies
<1>9. "verification_passed" \in LabLabels /\ DOMAIN incidents \subseteq DOMAIN incidents'
  BY <1>1 DEF LabLabels, labTables
<1>10. /\ pc' \in [Sessions -> LabLabels] /\ ctx' \in [Sessions -> LabRequest]
       /\ \A t \in Sessions : SessionOK(t)'
  BY <1>1, <1>3, <1>7, <1>8, <1>9, SessionStep
<1>11. QED
  BY <1>1, <1>3, <1>5, <1>10, StartupStutters
     DEF LabInv, LabTypes, LabLabels, labTables

LEMMA RecordMismatchKeeps ==
  ASSUME LabInv, NEW s \in Sessions, RecordMismatch(s)
  PROVE  LabInv'
<1> DEFINE r == Record("SUP-21", FALSE, TRUE)
           q == [ctx[s] EXCEPT !.report = r]
<1>1. /\ UNCHANGED <<startupVars, labTables, reports>>
      /\ pc[s] = "record"
      /\ pc' = [pc EXCEPT ![s] = "create_incident"]
      /\ ctx' = [ctx EXCEPT ![s] = q]
  BY DEF RecordMismatch, Goto
<1>2. r \in PendingReport /\ r # NoReport /\ PendingOK(r)
  BY RecordPending DEF LabInv, Reported
<1>3. /\ NoMoreThanReported'
      /\ \A other \in PendingReport : PendingOK(other) => PendingOK(other)'
  BY <1>1, NoReportCommitted DEF labTables
<1> HIDE DEF r
<1>4. q \in LabRequest /\ q.report = r /\ q.scenario = ctx[s].scenario
  BY <1>2 DEF LabInv, LabTypes, LabRequest
<1>5. q.scenario \in ScenarioIds
  BY <1>1, <1>4 DEF LabInv, SessionOK, Relies
<1>6. InjectionAtomic'
  BY <1>1, StillAtomic DEF labTables
<1>7. PICK w \in LabRequest : w = q
  BY <1>4
<1>8. /\ w.report # NoReport /\ ctx' = [ctx EXCEPT ![s] = w]
      /\ w.report \in PendingReport /\ PendingOK(w.report)
      /\ w.scenario \in ScenarioIds
  BY <1>1, <1>2, <1>4, <1>5, <1>7
<1>9. Relies("create_incident", w)'
  BY <1>3, <1>8 DEF Relies
<1>10. "create_incident" \in LabLabels /\ DOMAIN incidents \subseteq DOMAIN incidents'
  BY <1>1 DEF LabLabels, labTables
<1>11. /\ pc' \in [Sessions -> LabLabels] /\ ctx' \in [Sessions -> LabRequest]
       /\ \A t \in Sessions : SessionOK(t)'
  BY <1>1, <1>3, <1>8, <1>9, <1>10, SessionStep
<1>12. QED
  BY <1>1, <1>3, <1>6, <1>11, StartupStutters
     DEF LabInv, LabTypes, LabLabels, labTables

(* A commit of what a session has read. *)
LEMMA RememberKeeps ==
  ASSUME LabInv, NEW s \in Sessions, Remember(ctx[s].report)
  PROVE  /\ memory' \in Seq(MemoryRow)
         /\ reports' \in Seq(ReportRow)
         /\ NoMoreThanReported'
         /\ \A other \in PendingReport : PendingOK(other) => PendingOK(other)'
<1>1. CASE ctx[s].report = NoReport
  <2>1. UNCHANGED <<memory, reports>>
    BY <1>1 DEF Remember
  <2>2. QED
    BY <2>1, NoReportCommitted DEF LabInv, LabTypes
<1>2. CASE ctx[s].report # NoReport
  <2>1. PendingOK(ctx[s].report) /\ ctx[s].report \in PendingReport
    BY <1>2 DEF LabInv, LabTypes, LabRequest, SessionOK, Relies
  <2>2. QED
    BY <2>1, CommitReport DEF LabInv
<1>3. QED
  BY <1>1, <1>2

LEMMA CreateIncidentKeeps ==
  ASSUME LabInv, NEW s \in Sessions, CreateIncident(s)
  PROVE  LabInv'
<1> DEFINE n == ctx[s].scenario
           row == [scenario |-> n, status |-> "ANALYZING"]
           k == Len(incidents) + 1
           q == [ctx[s] EXCEPT !.incident = k]
<1>1. /\ UNCHANGED <<startupVars, injected>>
      /\ pc[s] = "create_incident"
      /\ pc' = [pc EXCEPT ![s] = "audit"]
      /\ cells' = Written(Scenarios[n].sets, "disrupted")
      /\ inserted' = inserted \cup {n}
      /\ Remember(ctx[s].report)
      /\ incidents' = Append(incidents, row)
      /\ ctx' = [ctx EXCEPT ![s].incident = Len(incidents')]
  BY DEF CreateIncident, Goto
<1>2. n \in ScenarioIds
  BY <1>1 DEF LabInv, SessionOK, Relies
<1>3. /\ incidents \in Seq(IncidentRow) /\ row \in IncidentRow
      /\ ctx[s] \in LabRequest
  BY <1>2 DEF LabInv, LabTypes, IncidentRow
<1>4. /\ incidents' \in Seq(IncidentRow)
      /\ DOMAIN incidents = 1..Len(incidents) /\ Len(incidents) \in Nat
      /\ Len(incidents') = Len(incidents) + 1
      /\ DOMAIN incidents' = 1..(Len(incidents) + 1)
      /\ \A i \in DOMAIN incidents : incidents'[i] = incidents[i]
      /\ incidents'[Len(incidents) + 1] = row
  BY <1>1, <1>3, AppendRow
<1>5. /\ memory' \in Seq(MemoryRow)
      /\ reports' \in Seq(ReportRow)
      /\ NoMoreThanReported'
      /\ \A other \in PendingReport : PendingOK(other) => PendingOK(other)'
  BY <1>1, RememberKeeps
<1>6. /\ cells' \in [Cells -> {"seeded", "disrupted", "reset"}]
      /\ \A c \in Cells : cells'[c] = "disrupted" =>
           cells[c] = "disrupted" \/ c \in Scenarios[n].sets
  BY <1>1 DEF LabInv, LabTypes, Written
<1>7. InjectionAtomic'
  <2> DEFINE before == {incidents[i].scenario : i \in DOMAIN incidents}
             after  == {incidents'[i].scenario : i \in DOMAIN incidents'}
  <2>1. before \subseteq after /\ n \in after
    BY <1>4
  <2>2. /\ inserted \subseteq before
        /\ \A c \in Cells : cells[c] = "disrupted" =>
             \E m \in before : c \in Scenarios[m].sets
    BY DEF LabInv, InjectionAtomic
  <2> HIDE DEF before, after
  <2>3. /\ inserted' \subseteq after
        /\ \A c \in Cells : cells'[c] = "disrupted" =>
             \E m \in after : c \in Scenarios[m].sets
    BY <1>1, <1>6, <2>1, <2>2
  <2>4. QED
    BY <2>3 DEF InjectionAtomic, after
<1>8. q \in LabRequest /\ q.incident = k /\ q.report = ctx[s].report
  <2>1. k \in Nat
    BY <1>4
  <2>2. QED
    BY <1>3, <2>1 DEF LabRequest
<1>9. PICK w \in LabRequest : /\ w.incident = k /\ w.report = ctx[s].report
                              /\ ctx' = [ctx EXCEPT ![s] = w]
  <2>1. ctx' = [ctx EXCEPT ![s] = q]
    BY <1>1, <1>4
  <2>2. QED
    BY <1>8, <2>1
<1>10. w.report # NoReport => PendingOK(w.report)'
  <2>1. ctx[s].report # NoReport =>
          ctx[s].report \in PendingReport /\ PendingOK(ctx[s].report)
    BY <1>3 DEF LabInv, SessionOK, Relies, LabRequest
  <2>2. QED
    BY <1>5, <1>9, <2>1
<1>11. /\ "audit" \in LabLabels /\ DOMAIN incidents \subseteq DOMAIN incidents'
       /\ Relies("audit", w)'
  BY <1>4, <1>9, <1>10 DEF LabLabels, Relies
<1>12. /\ pc' \in [Sessions -> LabLabels] /\ ctx' \in [Sessions -> LabRequest]
       /\ \A t \in Sessions : SessionOK(t)'
  BY <1>1, <1>5, <1>9, <1>10, <1>11, SessionStep
<1>13. /\ inserted' \subseteq ScenarioIds
       /\ injected' \subseteq DOMAIN incidents'
  BY <1>1, <1>2, <1>11 DEF LabInv, LabTypes
<1>14. QED
  BY <1>1, <1>4, <1>5, <1>6, <1>7, <1>12, <1>13, StartupStutters
     DEF LabInv, LabTypes, LabLabels

(* A request that ends without writing. *)
LEMMA RefusalKeeps ==
  ASSUME LabInv, NEW s \in Sessions, IncidentRefused(s) \/ PipelineFails(s)
  PROVE  LabInv'
<1>1. /\ UNCHANGED <<startupVars, labTables, reports>>
      /\ pc' = [pc EXCEPT ![s] = "idle"]
      /\ ctx' = [ctx EXCEPT ![s] = NoRequest]
  BY DEF IncidentRefused, PipelineFails, Goto, Answer
<1>2. /\ NoMoreThanReported'
      /\ \A other \in PendingReport : PendingOK(other) => PendingOK(other)'
  BY <1>1, NoReportCommitted DEF labTables
<1>3. InjectionAtomic'
  BY <1>1, StillAtomic DEF labTables
<1>4. "idle" \in LabLabels /\ DOMAIN incidents \subseteq DOMAIN incidents'
  BY <1>1 DEF LabLabels, labTables
<1>5. /\ pc' \in [Sessions -> LabLabels] /\ ctx' \in [Sessions -> LabRequest]
      /\ \A t \in Sessions : SessionOK(t)'
  BY <1>1, <1>2, <1>4, NoRequestTyped, SessionStep DEF Relies
<1>6. QED
  BY <1>1, <1>2, <1>3, <1>5, StartupStutters
     DEF LabInv, LabTypes, LabLabels, labTables

LEMMA AuditInjectionKeeps ==
  ASSUME LabInv, NEW s \in Sessions, AuditInjection(s)
  PROVE  LabInv'
<1>1. /\ UNCHANGED <<startupVars, cells, inserted, memory, incidents, ctx, reports>>
      /\ pc[s] = "audit"
      /\ pc' = [pc EXCEPT ![s] = "pipeline"]
      /\ injected' = injected \cup {ctx[s].incident}
  BY DEF AuditInjection, Goto
<1>2. /\ NoMoreThanReported'
      /\ \A other \in PendingReport : PendingOK(other) => PendingOK(other)'
  BY <1>1, NoReportCommitted
<1>3. InjectionAtomic'
  BY <1>1, StillAtomic
<1>4. PICK w \in LabRequest : w = ctx[s]
  BY DEF LabInv, LabTypes
<1>5. ctx' = [ctx EXCEPT ![s] = w] /\ w.incident \in DOMAIN incidents
  BY <1>1, <1>4 DEF LabInv, LabTypes, SessionOK, Relies
<1>6. Relies("pipeline", w)'
  <2>1. w.report # NoReport => w.report \in PendingReport /\ PendingOK(w.report)
    BY <1>4 DEF LabInv, SessionOK, Relies, LabRequest
  <2>2. QED
    BY <1>1, <1>2, <1>5, <2>1 DEF Relies
<1>7. "pipeline" \in LabLabels /\ DOMAIN incidents \subseteq DOMAIN incidents'
  BY <1>1 DEF LabLabels
<1>8. /\ pc' \in [Sessions -> LabLabels] /\ ctx' \in [Sessions -> LabRequest]
      /\ \A t \in Sessions : SessionOK(t)'
  BY <1>1, <1>2, <1>5, <1>6, <1>7, SessionStep
<1>9. injected' \subseteq DOMAIN incidents
  BY <1>1, <1>4, <1>5 DEF LabInv, LabTypes
<1>10. QED
  BY <1>1, <1>2, <1>3, <1>8, <1>9, StartupStutters DEF LabInv, LabTypes, LabLabels

LEMMA EndInjectionKeeps ==
  ASSUME LabInv, NEW s \in Sessions, NEW status \in {"AWAITING_APPROVAL", "OPEN"},
         EndInjection(s, status)
  PROVE  LabInv'
<1> DEFINE i == ctx[s].incident
<1>1. /\ UNCHANGED <<startupVars, cells, inserted, memory, injected, reports>>
      /\ pc[s] = "pipeline"
      /\ pc' = [pc EXCEPT ![s] = "idle"]
      /\ ctx' = [ctx EXCEPT ![s] = NoRequest]
      /\ incidents' = [incidents EXCEPT ![i].status = status]
  BY DEF EndInjection, Goto, Answer
<1>2. i \in DOMAIN incidents
  BY <1>1 DEF LabInv, SessionOK, Relies
<1>3. /\ incidents \in Seq(IncidentRow)
      /\ DOMAIN incidents = 1..Len(incidents)
      /\ incidents[i] \in IncidentRow
  BY <1>2, LenProperties DEF LabInv, LabTypes
<1> DEFINE row == [incidents[i] EXCEPT !.status = status]
<1>4. row \in IncidentRow /\ row.scenario = incidents[i].scenario
  BY <1>3 DEF IncidentRow
<1>5. incidents' = [incidents EXCEPT ![i] = row]
  BY <1>1
<1> HIDE DEF row
<1>6. /\ incidents' \in Seq(IncidentRow)
      /\ DOMAIN incidents' = DOMAIN incidents
      /\ \A j \in DOMAIN incidents : incidents'[j].scenario = incidents[j].scenario
  BY <1>2, <1>3, <1>4, <1>5, ExceptSeq
<1>7. /\ NoMoreThanReported'
      /\ \A other \in PendingReport : PendingOK(other) => PendingOK(other)'
  BY <1>1, NoReportCommitted
<1>8. InjectionAtomic'
  BY <1>1, <1>6, StillAtomic
<1>9. "idle" \in LabLabels /\ DOMAIN incidents \subseteq DOMAIN incidents'
  BY <1>6 DEF LabLabels
<1>10. /\ pc' \in [Sessions -> LabLabels] /\ ctx' \in [Sessions -> LabRequest]
       /\ \A t \in Sessions : SessionOK(t)'
  BY <1>1, <1>7, <1>9, NoRequestTyped, SessionStep DEF Relies
<1>11. QED
  BY <1>1, <1>6, <1>7, <1>8, <1>10, StartupStutters DEF LabInv, LabTypes, LabLabels

LEMMA LogVerificationPassedKeeps ==
  ASSUME LabInv, NEW s \in Sessions, LogVerificationPassed(s)
  PROVE  LabInv'
<1>1. /\ UNCHANGED <<startupVars, cells, inserted, incidents, injected>>
      /\ pc' = [pc EXCEPT ![s] = "idle"]
      /\ ctx' = [ctx EXCEPT ![s] = NoRequest]
      /\ Remember(ctx[s].report)
  BY DEF LogVerificationPassed, Goto
<1>2. /\ memory' \in Seq(MemoryRow)
      /\ reports' \in Seq(ReportRow)
      /\ NoMoreThanReported'
      /\ \A other \in PendingReport : PendingOK(other) => PendingOK(other)'
  BY <1>1, RememberKeeps
<1>3. InjectionAtomic'
  BY <1>1, StillAtomic
<1>4. "idle" \in LabLabels /\ DOMAIN incidents \subseteq DOMAIN incidents'
  BY <1>1 DEF LabLabels
<1>5. /\ pc' \in [Sessions -> LabLabels] /\ ctx' \in [Sessions -> LabRequest]
      /\ \A t \in Sessions : SessionOK(t)'
  BY <1>1, <1>2, <1>4, NoRequestTyped, SessionStep DEF Relies
<1>6. QED
  BY <1>1, <1>2, <1>3, <1>5, StartupStutters DEF LabInv, LabTypes, LabLabels

(* What belongs to the requests depends on nothing of the start. *)
LEMMA LabStutters ==
  ASSUME LabInv, UNCHANGED <<labTables, pc, ctx, reports>>
  PROVE  /\ LabTypes' /\ InjectionAtomic' /\ NoMoreThanReported'
         /\ \A s \in Sessions : SessionOK(s)'
<1>1. LabTypes'
  BY DEF LabInv, LabTypes, labTables
<1>2. InjectionAtomic'
  BY StillAtomic DEF labTables
<1>3. /\ NoMoreThanReported'
      /\ \A other \in PendingReport : PendingOK(other) => PendingOK(other)'
  BY NoReportCommitted DEF labTables
<1>4. \A s \in Sessions :
        ctx[s].report # NoReport => ctx[s].report \in PendingReport
  BY DEF LabInv, LabTypes, LabRequest
<1>5. \A s \in Sessions : SessionOK(s)'
  BY <1>3, <1>4 DEF LabInv, labTables, SessionOK, Relies
<1>6. QED
  BY <1>1, <1>2, <1>3, <1>5

LEMMA CrashKeeps ==
  ASSUME LabInv, Crash
  PROVE  LabInv'
<1>1. /\ Die /\ UNCHANGED <<labTables, reports>>
      /\ pc' = [s \in Sessions |-> "idle"]
      /\ ctx' = [s \in Sessions |-> NoRequest]
  BY DEF Crash
<1>2. StartupInv'
  BY <1>1, DieKeeps DEF LabInv
<1>3. InjectionAtomic'
  BY <1>1, StillAtomic DEF labTables
<1>4. NoMoreThanReported'
  BY <1>1, NoReportCommitted DEF labTables
<1>5. \A s \in Sessions : SessionOK(s)'
  BY <1>1, NoRequestTyped DEF SessionOK, Relies
<1>6. LabTypes'
  BY <1>1, NoRequestTyped DEF LabInv, LabTypes, labTables
<1>7. QED
  BY <1>2, <1>3, <1>4, <1>5, <1>6 DEF LabInv

LEMMA LabBegins ==
  ASSUME Init
  PROVE  LabInv
<1>1. StartupInv
  BY StartupBegins DEF Init, AllRows
<1>2. memory \in Seq(MemoryRow) /\ reports \in Seq(ReportRow)
  <2>1. Performance("SUP-21") \in MemoryRow /\ Performance("SUP-34") \in MemoryRow
    BY CountersOf DEF Reported
  <2>2. QED
    BY <2>1 DEF Init
<1>3. LabTypes
  BY <1>2, NoRequestTyped DEF Init, LabTypes
<1>4. InjectionAtomic
  BY DEF Init, InjectionAtomic
<1>5. NoMoreThanReported
  <2> SUFFICES ASSUME NEW i \in DOMAIN memory, NEW col \in Counters
               PROVE  memory[i][col] <= Bound[memory[i].supplier][col]
    BY DEF NoMoreThanReported
  <2>1. memory[i] = Performance("SUP-21") \/ memory[i] = Performance("SUP-34")
    BY DEF Init
  <2>2. memory[i][col] = 0 /\ memory[i].supplier \in Reported
    BY <2>1, CountersOf DEF Reported
  <2>3. Bound[memory[i].supplier][col] \in Nat
    BY <1>2, <2>2, BoundTyped
  <2>4. QED
    BY <2>2, <2>3
<1>6. \A s \in Sessions : SessionOK(s)
  BY NoRequestTyped DEF Init, SessionOK, Relies
<1>7. QED
  BY <1>1, <1>3, <1>4, <1>5, <1>6 DEF LabInv

LEMMA LabSteps ==
  ASSUME LabInv, [Next]_labVars
  PROVE  LabInv'
<1>1. CASE UNCHANGED labVars
  BY <1>1, StartupStutters, LabStutters DEF LabInv, labVars
<1>2. CASE (Start \/ StartStep) /\ UNCHANGED labOthers
  BY <1>2, StartKeeps, StartupStepKeeps, LabStutters DEF LabInv, labOthers
<1>3. CASE AddMasterData
  <2>1. UNCHANGED <<labTables, pc, ctx, reports>>
    BY <1>3 DEF AddMasterData
  <2>2. QED
    BY <1>3, <2>1, MasterDataKeeps, LabStutters DEF LabInv
<1>4. CASE Crash
  BY <1>4, CrashKeeps
<1>5. ASSUME NEW s \in Sessions, Request(s)
      PROVE  LabInv'
  BY <1>5, InjectScenarioKeeps, ResetScenarioKeeps, ReportOnTimeKeeps DEF Request
<1>6. ASSUME NEW s \in Sessions, Step(s)
      PROVE  LabInv'
  BY <1>6, RecordMismatchKeeps, CreateIncidentKeeps, RefusalKeeps,
     AuditInjectionKeeps, EndInjectionKeeps, LogVerificationPassedKeeps DEF Step
<1>7. QED
  BY <1>1, <1>2, <1>3, <1>4, <1>5, <1>6 DEF Next

(* The inductive invariant: the start, the types, the two properties of the  *)
(* lab and what every session relies on (main.py:28,                        *)
(* scenario_service.py:167-430, supplier_tools.py:44-83).                   *)
THEOREM LabInvariant == Spec => []LabInv
<1>1. Init => LabInv
  BY LabBegins
<1>2. LabInv /\ [Next]_labVars => LabInv'
  BY LabSteps
<1>3. QED
  BY <1>1, <1>2, PTL DEF Spec

-----------------------------------------------------------------------------
(* What follows from the invariant *)

LEMMA ChangedColumns ==
  \A o, m \in BOOLEAN :
    /\ "completed" \in Changes(o, m)
    /\ "on_time" \in Changes(o, m) <=> o
    /\ "late" \in Changes(o, m) <=> ~o
    /\ "mismatches" \in Changes(o, m) <=> m
BY DEF Changes

LEMMA BoundsAreReports ==
  ASSUME LabInv
  PROVE  MemoryNeverInvents
<1> SUFFICES ASSUME NEW i \in DOMAIN memory
    PROVE  LET about    == {k \in DOMAIN reports :
                              reports[k].supplier = memory[i].supplier}
               on_time  == {k \in about : reports[k].on_time}
               mismatch == {k \in about : reports[k].mismatch}
           IN  /\ memory[i].completed <= Cardinality(about)
               /\ memory[i].on_time <= Cardinality(on_time)
               /\ memory[i].late <= Cardinality(about \ on_time)
               /\ memory[i].mismatches <= Cardinality(mismatch)
  BY DEF MemoryNeverInvents
<1> DEFINE x        == memory[i].supplier
           about    == {k \in DOMAIN reports : reports[k].supplier = x}
           on_time  == {k \in about : reports[k].on_time}
           mismatch == {k \in about : reports[k].mismatch}
<1>1. x \in Reported
  <2>1. memory[i] \in MemoryRow
    BY LenProperties DEF LabInv, LabTypes
  <2>2. QED
    BY <2>1 DEF MemoryRow
<1>2. \A k \in DOMAIN reports :
        reports[k].on_time \in BOOLEAN /\ reports[k].mismatch \in BOOLEAN
  <2>1. \A k \in DOMAIN reports : reports[k] \in ReportRow
    BY LenProperties DEF LabInv, LabTypes
  <2>2. QED
    BY <2>1 DEF ReportRow
<1>3. /\ Counted("completed", x) = about
      /\ Counted("on_time", x) = on_time
      /\ Counted("late", x) = about \ on_time
      /\ Counted("mismatches", x) = mismatch
  BY <1>2, ChangedColumns DEF Counted
<1>4. \A col \in Counters : memory[i][col] <= Cardinality(Counted(col, x))
  BY <1>1 DEF LabInv, NoMoreThanReported, Bound
<1>5. /\ "completed" \in Counters /\ "on_time" \in Counters
      /\ "late" \in Counters /\ "mismatches" \in Counters
  BY DEF Counters
<1> HIDE DEF x, about, on_time, mismatch
<1>6. /\ memory[i]["completed"] <= Cardinality(about)
      /\ memory[i]["on_time"] <= Cardinality(on_time)
      /\ memory[i]["late"] <= Cardinality(about \ on_time)
      /\ memory[i]["mismatches"] <= Cardinality(mismatch)
  BY <1>3, <1>4, <1>5
<1>7. QED
  BY <1>6 DEF x, about, on_time, mismatch

LEMMA TypesFollow ==
  ASSUME LabInv
  PROVE  LabTypeOK
<1>1. \A i \in DOMAIN memory : memory[i].supplier \in Reported
  <2>1. \A i \in DOMAIN memory : memory[i] \in MemoryRow
    BY LenProperties DEF LabInv, LabTypes
  <2>2. QED
    BY <2>1 DEF MemoryRow
<1>2. \A i \in DOMAIN incidents :
        incidents[i].status \in {"ANALYZING", "AWAITING_APPROVAL", "OPEN"}
  <2>1. \A i \in DOMAIN incidents : incidents[i] \in IncidentRow
    BY LenProperties DEF LabInv, LabTypes
  <2>2. QED
    BY <2>1 DEF IncidentRow
<1>3. QED
  BY <1>1, <1>2 DEF LabInv, StartupInv, LabTypes, LabTypeOK

(* The tables, the sessions and the process keep their types. *)
THEOREM LabTypeCorrectness == Spec => []LabTypeOK
BY LabInvariant, TypesFollow, PTL

(* A server that answers requests has the whole seed, each row once, after   *)
(* any number of starts that died at any step (db/seed.py:35,               *)
(* seed/seed_data.py:36).                                                   *)
THEOREM SeedComplete == Spec => []ServesOnlySeeded
<1>1. LabInv => ServesOnlySeeded
  BY DEF LabInv, StartupInv
<1>2. QED
  BY <1>1, LabInvariant, PTL

(* An injection that fails or dies leaves nothing of its disruption behind   *)
(* (scenario_service.py:167-356).                                           *)
THEOREM DisruptionsHaveIncidents == Spec => []InjectionAtomic
<1>1. LabInv => InjectionAtomic
  BY DEF LabInv
<1>2. QED
  BY <1>1, LabInvariant, PTL

(* The memory of a supplier holds no outcome nobody reported, for any number *)
(* of overlapping reports, rollbacks and crashes (supplier_tools.py:72-80). *)
THEOREM MemoryIsReported == Spec => []MemoryNeverInvents
BY LabInvariant, BoundsAreReports, PTL
=============================================================================
