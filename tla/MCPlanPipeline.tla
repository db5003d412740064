---------------------------- MODULE MCPlanPipeline ----------------------------
(***************************************************************************)
(* Instances of PlanPipeline for TLC.                                       *)
(***************************************************************************)
EXTENDS PlanPipeline, TLC

CONSTANTS s1, s2, r1, r2

LinkRow(avail, prom, q, t) ==
  [active |-> TRUE, certified |-> TRUE, aqlMatches |-> TRUE,
   available |-> avail, promise |-> prom, minimum |-> 0, maximum |-> 0,
   quality |-> q, reliability |-> q, terms |-> t]

Pair(a, b) == [s \in Suppliers |-> IF s = s1 THEN a ELSE b]

(* s1 can serve any demand or only part of it; s2 may have promised less than *)
(* it has, be inactive, inspected by another standard, or out of stock.        *)
SomeLinks ==
  {Pair(LinkRow(400, 400, 98, 900), [LinkRow(400, 0, 80, 100) EXCEPT !.active = FALSE])}
  \cup
  {Pair(LinkRow(60, 60, 90, 900), b) :
     b \in {LinkRow(100, 70, 80, 900), [LinkRow(30, 0, 99, 2400) EXCEPT !.aqlMatches = FALSE],
            [LinkRow(0, 0, 80, 900) EXCEPT !.minimum = 20]}}

Stock(u, e, p, r) ==
  [usable |-> u, erp |-> e, physical |-> p, rate7 |-> r, rate30 |-> 20]

(* Coverage of 2.9, 4, 6 and 20 days, with and without a gap in the books.    *)
SomeStock == {Stock(58, 58, 58, 20), Stock(80, 120, 80, 25),
              Stock(120, 130, 120, 20), Stock(400, 400, 400, 20)}

Recount == Stock(39, 80, 39, 20)

ModelPlan(q, allocations, score, coherent) ==
  [type |-> "EMERGENCY_PROCUREMENT", supplier |-> s1, quantity |-> q,
   allocations |-> allocations, coherent |-> coherent, score |-> score,
   rules |-> FALSE]

NoModel == {}

(* A model that ranks an excessive order above two that can be met, one of    *)
(* them without allocations.                                                 *)
SomeModel ==
  {<<ModelPlan(500, <<[supplier |-> s1, quantity |-> 500]>>, 19000, FALSE),
     ModelPlan(40, <<>>, 7000, TRUE),
     ModelPlan(30, <<[supplier |-> s1, quantity |-> 30]>>, 8000, TRUE)>>}

RunSymmetry == Permutations(Runs)
=============================================================================
