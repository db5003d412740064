---------------------------- MODULE RecoveryClaims ----------------------------
(***************************************************************************)
(* What documents, comments and tests of the repository say of the recovery *)
(* workflow and the code does not keep.  Each claim is refuted by a run.     *)
(***************************************************************************)
EXTENDS RecoveryWorkflow

(* README.md:29: approved purchase orders are dispatched "atomically ... with *)
(* optimistic concurrency locking".  execute_plan looks at no status of the  *)
(* plan, so an approval pays for an order per request.                       *)
OneOrderPerApproval ==
  \A m, n \in DOMAIN orders :
    m # n /\ orders[m].plan # 0 => orders[m].approval # orders[n].approval

(* README.md:31: the audit trail permanently records every human sign-off.   *)
(* The decision is committed two transactions before its audit event, and    *)
(* nothing supplies the event of a request that died in between.            *)
SignOffsLogged ==
  Quiescent => \A a \in granted :
    Logged("APPROVE", approvals[a].incident, 0, a)
=============================================================================
