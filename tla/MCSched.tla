------------------------------ MODULE MCSched ------------------------------
(* Small instances of the scheduler for TLC. *)
EXTENDS Sched, TLC

\* Thread slots are interchangeable, and so are process slots: no action and
\* no invariant names one.
SlotSymmetry == Permutations(Thread) \cup Permutations(Process)
=============================================================================
