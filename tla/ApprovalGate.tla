----------------------------- MODULE ApprovalGate -----------------------------
(***************************************************************************)
(* What the approval gate promises of the recovery workflow, without its    *)
(* handlers and tables: a human may authorise a plan at any time, and every *)
(* purchase order the workflow commits is for a plan authorised before.     *)
(* Orders are never withdrawn and their ids are never reused.               *)
(***************************************************************************)

VARIABLES
  authorised,  \* plans a human has authorised so far
  placed       \* pairs <<id of a purchase order, the plan it is for>>

gateVars == <<authorised, placed>>

Init == authorised = {} /\ placed = {}

Authorise(p) ==
  /\ authorised' = authorised \cup {p}
  /\ UNCHANGED placed

Place(o, p) ==
  /\ p \in authorised
  /\ \A q \in authorised : <<o, q>> \notin placed
  /\ placed' = placed \cup {<<o, p>>}
  /\ UNCHANGED authorised

(* The new plan or order is found among those of the next state, so that    *)
(* the identifiers need no enumerable set.                                  *)
Next ==
  \/ \E p \in authorised' : Authorise(p)
  \/ \E e \in placed' : Place(e[1], e[2])

Spec == Init /\ [][Next]_gateVars
=============================================================================
