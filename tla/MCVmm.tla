------------------------------- MODULE MCVmm -------------------------------
(* Small instances of memory management for TLC. *)
EXTENDS Vmm, TLC

\* Spaces are interchangeable, and so are the pages of available memory: the memory
\* map may list them in any order.
Symmetry == Permutations(Space) \cup Permutations(HighAvail)
=============================================================================
