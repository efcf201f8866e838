------------------------------- MODULE MCLock -------------------------------
(* Small instances of the spin lock for TLC. *)
EXTENDS Lock

CONSTANTS l1, l2

\* The lock of a blocker is held when the lock of a queue is taken.
BlockerThenQueue == {<<l1, l2>>}

=============================================================================
