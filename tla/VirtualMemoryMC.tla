--------------------------- MODULE VirtualMemoryMC ---------------------------
(* The instance of VirtualMemory that TLC checks.                          *)
EXTENDS VirtualMemory

\* Pages are only compared with each other and used as indices.
Symmetry == Permutations(Pages)
=============================================================================
