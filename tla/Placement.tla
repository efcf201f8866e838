----------------------------- MODULE Placement -----------------------------
(***************************************************************************)
(* Objects with a single list entry, in intrusive lists and in hands.      *)
(*                                                                         *)
(* An object of this kernel that lives in a list_t embeds its list_entry_t *)
(* (include/stdlib/sys/list.h), so it is in at most one list at a time;    *)
(* between two lists a local variable or a pointer field, a "hand", holds  *)
(* it.  L maps list names to sequences, H maps hands to objects or none,   *)
(* A is the set of allocated objects.                                      *)
(***************************************************************************)
EXTENDS Integers, Sequences

LinkedOnce(L) ==
    \A k, l \in DOMAIN L : \A i \in 1 .. Len(L[k]), j \in 1 .. Len(L[l]) :
        L[k][i] = L[l][j] => k = l /\ i = j

HeldOnce(H, none) ==
    \A g, h \in DOMAIN H : H[g] = H[h] /\ H[g] # none => g = h

HeldNotLinked(L, H) ==
    \A h \in DOMAIN H, l \in DOMAIN L : \A i \in 1 .. Len(L[l]) : L[l][i] # H[h]

OnlyAllocated(L, H, A, none) ==
    /\ \A l \in DOMAIN L : \A i \in 1 .. Len(L[l]) : L[l][i] \in A
    /\ \A h \in DOMAIN H : H[h] # none => H[h] \in A

AllFound(L, H, A) ==
    \A x \in A : \/ \E l \in DOMAIN L : \E i \in 1 .. Len(L[l]) : L[l][i] = x
                 \/ \E h \in DOMAIN H : H[h] = x

Placed(L, H, A, none) ==
    /\ LinkedOnce(L)
    /\ HeldOnce(H, none)
    /\ HeldNotLinked(L, H)
    /\ OnlyAllocated(L, H, A, none)
    /\ AllFound(L, H, A)
=============================================================================
