---------------------------- MODULE MCContractDesk ----------------------------
(***************************************************************************)
(* Instances of ContractDesk for TLC.                                       *)
(***************************************************************************)
EXTENDS ContractDesk, TLC

CONSTANTS p1, sup, c1, c2

(* One order below its limit, which a larger quantity or a higher price lifts *)
(* above it; and one that is above it from the start.                        *)
OrderRow(q, s) == [status |-> s, quantity |-> q, price |-> 2, total |-> 2 * q,
                   due |-> 0, version |-> 1]

SeedRows == {[p \in PurchaseOrders |-> OrderRow(1, "in_transit")],
             [p \in PurchaseOrders |-> OrderRow(2, "delayed")]}

Limits == [p \in PurchaseOrders |-> 3]

NoPatch == [status |-> Absent, quantity |-> Absent, price |-> Absent,
            due |-> Absent]

(* Each column alone, and two of them together. *)
SomePatches == {[NoPatch EXCEPT !.quantity = 2],
                [NoPatch EXCEPT !.price = 3],
                [NoPatch EXCEPT !.quantity = 1, !.price = 1],
                [NoPatch EXCEPT !.status = "delivered"],
                [NoPatch EXCEPT !.due = 1]}

(* Those that overlapping updates of one row are told apart by. *)
TwoPatches == {[NoPatch EXCEPT !.quantity = 2],
               [NoPatch EXCEPT !.status = "delivered", !.due = 1]}

(* Two unanswered messages of one supplier are two findings. *)
Unanswered == {<<>>, <<<<"supplier_response_pending", sup>>,
                       <<"supplier_response_pending", sup>>>>}

ClientSymmetry == Permutations(Clients)
=============================================================================
