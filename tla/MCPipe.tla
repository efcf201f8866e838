------------------------------- MODULE MCPipe -------------------------------
(* Small instances of the pipe for TLC. *)
EXTENDS Pipe, TLC

\* No action names a thread.
ThreadSymmetry == Permutations(Thread)
=============================================================================
