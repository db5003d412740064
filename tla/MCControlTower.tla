---------------------------- MODULE MCControlTower ----------------------------
(***************************************************************************)
(* Instances of ControlTower for TLC.                                       *)
(***************************************************************************)
EXTENDS ControlTower, TLC

CONSTANTS i1, s1, c1, c2

PlanRow == [incident |-> i1, contents |-> [supplier |-> s1, quantity |-> 1],
            status |-> "PROPOSED"]

(* The scenario lab has opened the incident and nobody has looked at it; or  *)
(* a recommendation left two plans, the first invalid and with half its      *)
(* score: no approval yet.                                                  *)
NoneOrTwoPlans == {<<>>, <<PlanRow, PlanRow>>}
TheirScores == {<<>>, <<1, 2>>}
NoOrder == {<<>>}

ClientSymmetry == Permutations(Clients)
=============================================================================
