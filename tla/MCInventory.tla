---------------------------- MODULE MCInventory ----------------------------
(* Inventory for TLC: two tenants, two sites of one or of both, one test,   *)
(* two agents, one device and two requests at a time.                       *)
EXTENDS Inventory, TLC

Symmetry == Permutations(Tenants) \cup Permutations(Sites) \cup Permutations(Agents)
            \cup Permutations(Requests)
=============================================================================
