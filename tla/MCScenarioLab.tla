---------------------------- MODULE MCScenarioLab ----------------------------
(***************************************************************************)
(* Instances of ScenarioLab for TLC.                                        *)
(***************************************************************************)
EXTENDS ScenarioLab, TLC

CONSTANTS s1, s2

(* What SCENARIO-3 and SCENARIO-4 need beyond the seed. *)
MissingRows ==
  Rows("purchase_orders", {"PO-7730", "PO-7740"})
    \cup Rows("materials", {"COMP-103"})
    \cup Rows("shipments", {"PO-7730"})
    \cup {Listed("SUP-21", "COMP-103")}

NoRows == {}
=============================================================================
