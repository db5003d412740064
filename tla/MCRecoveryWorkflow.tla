-------------------------- MODULE MCRecoveryWorkflow --------------------------
(***************************************************************************)
(* Instances of RecoveryWorkflow for TLC.                                   *)
(***************************************************************************)
EXTENDS RecoveryClaims, TLC

CONSTANTS i1, s1, h1, h2

PlanRow(s, q) == [incident |-> i1, contents |-> [supplier |-> s, quantity |-> q],
                  status |-> "PROPOSED"]

(* A plan that buys, as a recommendation leaves it before its approval is    *)
(* requested; or no plan yet.                                               *)
OnePlan       == {<<PlanRow(s1, 1)>>}
NoneOrOnePlan == OnePlan \cup {<<>>}

(* An empty table, or an older order for more than any plan buys. *)
NoOrder    == {<<>>}
OlderOrder == {<<[plan |-> 0, approval |-> 0, supplier |-> s1, quantity |-> 2]>>}

HandlerSymmetry == Permutations(Handlers)
=============================================================================
