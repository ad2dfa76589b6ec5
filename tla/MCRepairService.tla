--------------------------- MODULE MCRepairService ---------------------------
(* Small instances of RepairService.                                       *)
EXTENDS RepairService, TLC

Symmetry == Permutations(Thread) \cup Permutations(Order) \cup Permutations(Worker)
=============================================================================
