------------------------------ MODULE MCKernel ------------------------------
(***************************************************************************)
(* Small instances of three parts of the kernel that share no state, in    *)
(* one run: the CPUs that start and halt each other, the heap, and the     *)
(* searches.  A behaviour is one of the part that unit names.              *)
(***************************************************************************)
EXTENDS Smp, Heap, Searches

VARIABLE unit

vars == <<unit, smpVars, heapVars, call>>

Init == unit \in {"smp", "heap", "searches"} /\ SmpInit /\ HeapInit /\ SearchesInit

Next ==
    /\ UNCHANGED unit
    /\ \/ unit = "smp" /\ SmpNext /\ UNCHANGED <<heapVars, call>>
       \/ unit = "heap" /\ HeapNext /\ UNCHANGED <<smpVars, call>>
       \/ unit = "searches" /\ SearchesNext /\ UNCHANGED <<smpVars, heapVars>>

\* A CPU goes on; a pending interrupt is taken once the flag allows it; the
\* ticket lock serves whoever waits (Served of module Lock); and a handler that
\* runs with interrupts off returns.
SmpFairness ==
    \A c \in Core :
        /\ WF_smpVars(unit = "smp" /\ SmpStep(c))
        /\ SF_smpVars(unit = "smp" /\ IpiEnter(c))
        /\ SF_smpVars(unit = "smp" /\ Sti(c))
        /\ SF_smpVars(unit = "smp" /\ SmpSpinEnd(c))

Spec == Init /\ [][Next]_vars /\ SmpFairness
=============================================================================
