------------------------------- MODULE Sourcing -------------------------------
(***************************************************************************)
(* The rules by which a disruption is assessed, suppliers are filtered and  *)
(* ranked, recovery plans are suggested and a plan is validated: pure       *)
(* functions of the tables, used by PlanPipeline.  All rows are about one    *)
(* material.  Quantities are whole units; scores are in hundredths of a      *)
(* point, as the columns keep two decimals.                                  *)
(***************************************************************************)
EXTENDS Integers, Sequences, SequencesExt

CONSTANTS
  Suppliers,              \* the suppliers linked to the material
  Absent,                 \* no supplier
  CertificationRequired,  \* material_specifications.required_certifications
  AqlRequired             \* material_specifications.aql_level is set

(* A row of supplier_materials joined with suppliers; the pipeline writes only  *)
(* its certificate, so what the analysis copies of it stays true.  promise and maximum    *)
(* are 0 where the column is NULL or 0, which the code does not tell apart;   *)
(* "terms" is what the price and the lead time contribute to the score.       *)
Link == [active : BOOLEAN, certified : BOOLEAN, aqlMatches : BOOLEAN,
         available : Nat, promise : Nat, minimum : Nat, maximum : Nat,
         quality : 0..100, reliability : 0..100, terms : 0..2500]

(* The latest row of inventory_snapshots, with the average daily consumption  *)
(* the history up to it yields.  An average is never zero: days without       *)
(* consumption are left out, and without any the code takes 25.               *)
Snapshot == [usable : Nat, erp : Nat, physical : Nat,
             rate7 : Nat \ {0}, rate30 : Nat \ {0}]

RiskLevels == {"CRITICAL", "HIGH", "MEDIUM", "LOW", "NONE", "UNKNOWN"}

PlanTypes == {"EMERGENCY_PROCUREMENT", "SPLIT_SOURCING",
              "PRODUCTION_ADJUSTMENT", "MONITORING"}

Least(a, b)   == IF a < b THEN a ELSE b
Greatest(a, b) == IF a > b THEN a ELSE b

(* sum() of a list *)
Total(seq) == FoldLeft(LAMBDA sum, x : sum + x, 0, seq)

(* Decimal.quantize rounds half to even. *)
HalfEven(n, d) ==
  LET q == n \div d
      r == n % d
  IN IF 2 * r > d \/ (2 * r = d /\ q % 2 = 1) THEN q + 1 ELSE q

-----------------------------------------------------------------------------
(* OperationalRiskEngine *)

(* calculate_inventory_coverage, in tenths of a day *)
Coverage(snap) == HalfEven(10 * snap.usable, snap.rate30)

(* calculate_inventory_discrepancy, in hundredths of a percent *)
Discrepancy(snap) ==
  LET gap == Greatest(snap.physical - snap.erp, snap.erp - snap.physical)
  IN IF snap.erp > 0 THEN HalfEven(10000 * gap, snap.erp) ELSE 0

(* calculate_risk: the level follows the rounded figures. *)
RiskLevel(snap) ==
  CASE Coverage(snap) < 30 \/ Discrepancy(snap) > 2000 -> "CRITICAL"
    [] Coverage(snap) \in 30..69 /\ Discrepancy(snap) <= 2000 -> "HIGH"
    [] Coverage(snap) \in 70..139 /\ Discrepancy(snap) <= 2000 -> "MEDIUM"
    [] Coverage(snap) \in 140..209 /\ Discrepancy(snap) <= 2000 -> "LOW"
    [] OTHER -> "NONE"

-----------------------------------------------------------------------------
(* SupplierEvaluationEngine *)

(* "available_to_promise or available_quantity": a promise of 0 counts as     *)
(* none recorded.                                                            *)
Promise(link) == IF link.promise # 0 THEN link.promise ELSE link.available

(* What start_workflow asks the filters for: the missing quantity, or else    *)
(* as much as there is in store.                                             *)
RequiredQuantity(snap) ==
  IF snap.physical < snap.erp THEN snap.erp - snap.physical ELSE snap.usable

PassesHardFilters(link, quantity) ==
  /\ link.active
  /\ Promise(link) >= quantity
  /\ link.certified
  /\ link.minimum <= quantity
  /\ link.maximum # 0 => quantity <= link.maximum

(* calculate_supplier_score *)
SupplierScore(link) ==
  30 * link.quality + 25 * link.reliability
    + 2 * Least(Promise(link), 1000) + link.terms

(* The suppliers that pass, best first; equal scores in any order. *)
Rankings(links, quantity) ==
  {seq \in SetToSeqs({s \in Suppliers : PassesHardFilters(links[s], quantity)}) :
     \A i, j \in DOMAIN seq :
       i < j => SupplierScore(links[seq[i]]) >= SupplierScore(links[seq[j]])}

-----------------------------------------------------------------------------
(* What the analysis of a disruption stores with its incident. *)

Analysis == [usable : Nat, rate : Nat \ {0}, coverage : Nat,
             level : RiskLevels, ranking : Seq(Suppliers)]

(* The values that stand for a missing analysis. *)
NoAnalysis == [usable |-> 0, rate |-> 50, coverage |-> 0, level |-> "UNKNOWN",
               ranking |-> <<>>]

Assess(snap, ranking) ==
  [usable |-> snap.usable, rate |-> snap.rate7, coverage |-> Coverage(snap),
   level |-> RiskLevel(snap), ranking |-> ranking]

-----------------------------------------------------------------------------
(* Suggestions *)

Allocation == [supplier : Suppliers, quantity : Nat]

(* coherent: lead times are no shorter than the supplier's and the cost is    *)
(* that of the quantities.  rules: made by the deterministic provider.        *)
Suggestion == [type : PlanTypes, supplier : Suppliers \cup {Absent},
               quantity : Nat, allocations : Seq(Allocation),
               coherent : BOOLEAN, score : Nat, rules : BOOLEAN]

(* 7 days of consumption and at least 100 in store; at least 50 are bought. *)
NeededUnits(a) == Greatest(50, Greatest(100, 7 * a.rate) - a.usable)

(* The ranked suppliers that have some, in their order. *)
Qualified(links, a) ==
  LET keep(kept, s) == IF links[s].available > 0 THEN Append(kept, s) ELSE kept
  IN FoldLeft(keep, <<>>, a.ranking)

(* Mutant: the demand is not reduced by what a supplier has taken. *)
SplitAllocationsUnreduced(links, suppliers, needed) ==
  LET take(acc, s) ==
        [remaining |-> acc.remaining - Least(acc.remaining, links[s].available),
         taken |-> Append(acc.taken,
                          [supplier |-> s, quantity |-> Least(needed, links[s].available)])]
  IN FoldLeft(take, [remaining |-> needed, taken |-> <<>>], suppliers)

(* The greedy loop over the qualified suppliers. *)
SplitAllocations(links, suppliers, needed) ==
  LET take(acc, s) ==
        IF acc.remaining = 0 THEN acc
        ELSE LET q == Least(acc.remaining, links[s].available)
             IN [remaining |-> acc.remaining - q,
                 taken |-> Append(acc.taken, [supplier |-> s, quantity |-> q])]
  IN FoldLeft(take, [remaining |-> needed, taken |-> <<>>], suppliers)

EmergencyPlan(links, best, needed) ==
  [type |-> "EMERGENCY_PROCUREMENT", supplier |-> best, quantity |-> needed,
   allocations |-> <<[supplier |-> best, quantity |-> needed]>>,
   coherent |-> TRUE, rules |-> TRUE,
   score |-> 40 * links[best].quality + 30 * links[best].reliability + 2640]

SplitPlan(links, suppliers, needed) ==
  LET split == SplitAllocations(links, suppliers, needed)
  IN [type |-> "SPLIT_SOURCING", supplier |-> Head(split.taken).supplier,
      quantity |-> needed - split.remaining, allocations |-> split.taken,
      coherent |-> TRUE, rules |-> TRUE, score |-> 9000]

PurchasePlan(links, suppliers, needed) ==
  IF links[Head(suppliers)].available >= needed
  THEN EmergencyPlan(links, Head(suppliers), needed)
  ELSE SplitPlan(links, suppliers, needed)

InternalPlan(type, score) ==
  [type |-> type, supplier |-> Absent, quantity |-> 0, allocations |-> <<>>,
   coherent |-> TRUE, rules |-> TRUE, score |-> score]

Reschedules(a) == a.coverage < 50 /\ a.level \in {"CRITICAL", "HIGH"}

(* _get_deterministic_suggestions *)
Suggestions(links, a) ==
  LET suppliers  == Qualified(links, a)
      purchase   == IF suppliers = <<>> THEN <<>>
                    ELSE <<PurchasePlan(links, suppliers, NeededUnits(a))>>
      reschedule == IF Reschedules(a)
                    THEN <<InternalPlan("PRODUCTION_ADJUSTMENT", 9350)>> ELSE <<>>
  IN IF purchase \o reschedule = <<>>
     THEN <<InternalPlan("MONITORING", 9100)>>
     ELSE purchase \o reschedule

-----------------------------------------------------------------------------
(* PlanValidationEngine *)

(* Stock at the supplier and, as the code has it, in the own store as well. *)
AllocationValid(links, snap, s, quantity) ==
  /\ links[s].active
  /\ Promise(links[s]) >= quantity
  /\ snap.usable >= quantity
  /\ CertificationRequired => links[s].certified
  /\ AqlRequired => links[s].aqlMatches

(* validate_plan: the order minimum is checked only where there are no         *)
(* allocations.                                                              *)
PlanValid(links, snap, p) ==
  \/ p.supplier = Absent /\ p.allocations = <<>>
  \/ /\ p.allocations # <<>>
     /\ p.coherent
     /\ \A i \in DOMAIN p.allocations :
          AllocationValid(links, snap, p.allocations[i].supplier,
                          p.allocations[i].quantity)
  \/ /\ p.supplier # Absent
     /\ p.allocations = <<>>
     /\ p.coherent
     /\ AllocationValid(links, snap, p.supplier, p.quantity)
     /\ p.quantity >= links[p.supplier].minimum
=============================================================================
