-------------------------- MODULE PlacementProofs --------------------------
(***************************************************************************)
(* The moves of objects between lists and hands keep them placed.  S is    *)
(* the set of all objects, LS the lists and HS the hands.  The last part   *)
(* is about the loops that the models state as folds.                      *)
(***************************************************************************)
EXTENDS Placement, SequencesExt, SequenceTheorems, FiniteSetTheorems, WellFoundedInduction, TLAPS

WellPlaced(S, none, LS, HS, L, H, A) ==
    /\ none \notin S
    /\ L \in [LS -> Seq(S)]
    /\ H \in [HS -> S \cup {none}]
    /\ A \in SUBSET S
    /\ Placed(L, H, A, none)

\* M is L with x inserted at position p of list l.
Inserted(S, LS, L, M, l, p, x) ==
    /\ M \in [LS -> Seq(S)]
    /\ p \in 1 .. Len(L[l]) + 1
    /\ Len(M[l]) = Len(L[l]) + 1
    /\ M[l][p] = x
    /\ \A i \in 1 .. p - 1 : M[l][i] = L[l][i]
    /\ \A i \in p + 1 .. Len(L[l]) + 1 : M[l][i] = L[l][i - 1]
    /\ \A k \in LS : k # l => M[k] = L[k]

(***************************************************************************)
(* Taking the first entry of a list into an empty hand, as list_pop and    *)
(* queue_pop do for their caller, keeps every object in one place.         *)
(***************************************************************************)
THEOREM PopIntoHand ==
    ASSUME NEW S, NEW none, NEW LS, NEW HS, NEW L, NEW H, NEW A,
           WellPlaced(S, none, LS, HS, L, H, A),
           NEW l \in LS, L[l] # <<>>,
           NEW h \in HS, H[h] = none
    PROVE  WellPlaced(S, none, LS, HS, [L EXCEPT ![l] = Tail(@)], [H EXCEPT ![h] = Head(L[l])], A)
<1>0. /\ none \notin S /\ L \in [LS -> Seq(S)] /\ H \in [HS -> S \cup {none}]
      /\ A \in SUBSET S /\ Placed(L, H, A, none)
  BY DEF WellPlaced
<1> USE <1>0
<1> DEFINE M == [L EXCEPT ![l] = Tail(@)]
           G == [H EXCEPT ![h] = Head(L[l])]
<1>1. /\ M \in [LS -> Seq(S)]
      /\ Len(M[l]) = Len(L[l]) - 1
      /\ \A i \in 1 .. Len(M[l]) : M[l][i] = L[l][i + 1]
      /\ \A k \in LS : k # l => M[k] = L[k]
      /\ Head(L[l]) = L[l][1]
      /\ Len(L[l]) \in Nat \ {0}
      /\ L[l][1] \in S
  OBVIOUS
<1>2. G \in [HS -> S \cup {none}] /\ G[h] = L[l][1] /\ \A g \in HS : g # h => G[g] = H[g]
  BY <1>1
<1>3. LinkedOnce(M)
  BY <1>1 DEF Placed, LinkedOnce
<1>4. HeldOnce(G, none)
  BY <1>1, <1>2 DEF Placed, HeldOnce, HeldNotLinked
<1>5. HeldNotLinked(M, G)
  BY <1>1, <1>2 DEF Placed, HeldNotLinked, LinkedOnce
<1>6. OnlyAllocated(M, G, A, none)
  BY <1>1, <1>2 DEF Placed, OnlyAllocated
<1>7. AllFound(M, G, A)
  <2> SUFFICES ASSUME NEW x \in A
               PROVE  \/ \E k \in LS : \E i \in 1 .. Len(M[k]) : M[k][i] = x
                      \/ \E g \in HS : G[g] = x
    BY <1>1, <1>2 DEF AllFound
  <2>1. CASE \E k \in LS : \E i \in 1 .. Len(L[k]) : L[k][i] = x
    <3>0. PICK k \in LS : \E i \in 1 .. Len(L[k]) : L[k][i] = x
      BY <2>1
    <3>1. PICK i \in 1 .. Len(L[k]) : L[k][i] = x
      BY <3>0
    <3>2. CASE k # l
      BY <1>1, <3>1, <3>2
    <3>3. CASE k = l /\ i = 1
      BY <1>2, <3>1, <3>3
    <3>4. CASE k = l /\ i # 1
      <4>1. i - 1 \in 1 .. Len(M[l]) /\ M[l][i - 1] = x
        BY <1>1, <3>1, <3>4
      <4> QED
        BY <4>1
    <3> QED
      BY <3>2, <3>3, <3>4
  <2>2. CASE \E g \in HS : H[g] = x
    BY <1>2, <2>2
  <2> QED
    BY <2>1, <2>2 DEF Placed, AllFound
<1> QED
  BY <1>1, <1>2, <1>3, <1>4, <1>5, <1>6, <1>7 DEF Placed, WellPlaced

(***************************************************************************)
(* Linking what a hand holds at any position of a list, as list_push,      *)
(* queue_push and the list_prepend of blocker_push do.                     *)
(***************************************************************************)
THEOREM LinkFromHand ==
    ASSUME NEW S, NEW none, NEW LS, NEW HS, NEW L, NEW H, NEW A,
           WellPlaced(S, none, LS, HS, L, H, A),
           NEW l \in LS, NEW h \in HS, H[h] # none,
           NEW M, NEW p, Inserted(S, LS, L, M, l, p, H[h])
    PROVE  WellPlaced(S, none, LS, HS, M, [H EXCEPT ![h] = none], A)
<1>0. /\ none \notin S /\ L \in [LS -> Seq(S)] /\ H \in [HS -> S \cup {none}]
      /\ A \in SUBSET S /\ Placed(L, H, A, none)
  BY DEF WellPlaced
<1> USE <1>0
<1>i. /\ M \in [LS -> Seq(S)] /\ p \in 1 .. Len(L[l]) + 1 /\ Len(M[l]) = Len(L[l]) + 1
      /\ M[l][p] = H[h]
      /\ \A i \in 1 .. p - 1 : M[l][i] = L[l][i]
      /\ \A i \in p + 1 .. Len(L[l]) + 1 : M[l][i] = L[l][i - 1]
      /\ \A k \in LS : k # l => M[k] = L[k]
  BY DEF Inserted
<1> USE <1>i
<1> DEFINE G == [H EXCEPT ![h] = none]
<1>1. G \in [HS -> S \cup {none}] /\ G[h] = none /\ \A g \in HS : g # h => G[g] = H[g]
  OBVIOUS
<1>2. Len(L[l]) \in Nat /\ \A k \in LS : Len(L[k]) \in Nat /\ Len(M[k]) \in Nat
  OBVIOUS
\* Every entry of M is the new one or an entry of L, and its place tells which.
<1> DEFINE IsNew(k, i) == k = l /\ i = p
           Old(k, i) == IF k = l /\ i > p THEN i - 1 ELSE i
<1>3. ASSUME NEW k \in LS, NEW i \in 1 .. Len(M[k])
      PROVE  /\ IsNew(k, i) => M[k][i] = H[h]
             /\ ~IsNew(k, i) => Old(k, i) \in 1 .. Len(L[k]) /\ M[k][i] = L[k][Old(k, i)]
  <2>1. CASE k # l
    BY <2>1, <1>2
  <2>2. CASE k = l /\ i = p
    BY <2>2
  <2>3. CASE k = l /\ i < p
    <3>1. i \in 1 .. p - 1 /\ i \in 1 .. Len(L[l])
      BY <2>3, <1>2
    <3> QED BY <3>1, <2>3, <1>2
  <2>4. CASE k = l /\ i > p
    <3>1. i \in p + 1 .. Len(L[l]) + 1 /\ i - 1 \in 1 .. Len(L[l])
      BY <2>4, <1>2
    <3> QED BY <3>1, <2>4, <1>2
  <2> QED BY <2>1, <2>2, <2>3, <2>4, <1>2
<1> HIDE DEF IsNew, Old
<1>4. LinkedOnce(M)
  <2> SUFFICES ASSUME NEW k \in LS, NEW m \in LS,
                      NEW i \in 1 .. Len(M[k]), NEW j \in 1 .. Len(M[m]),
                      M[k][i] = M[m][j]
               PROVE  k = m /\ i = j
    BY DEF LinkedOnce
  <2>1. CASE IsNew(k, i) /\ IsNew(m, j)
    BY <2>1 DEF IsNew
  <2>2. CASE IsNew(k, i) /\ ~IsNew(m, j)
    <3>1. Old(m, j) \in 1 .. Len(L[m]) /\ L[m][Old(m, j)] = H[h]
      BY <2>2, <1>3
    <3> QED BY <3>1 DEF Placed, HeldNotLinked
  <2>3. CASE ~IsNew(k, i) /\ IsNew(m, j)
    <3>1. Old(k, i) \in 1 .. Len(L[k]) /\ L[k][Old(k, i)] = H[h]
      BY <2>3, <1>3
    <3> QED BY <3>1 DEF Placed, HeldNotLinked
  <2>4. CASE ~IsNew(k, i) /\ ~IsNew(m, j)
    <3>1. /\ Old(k, i) \in 1 .. Len(L[k]) /\ Old(m, j) \in 1 .. Len(L[m])
          /\ L[k][Old(k, i)] = L[m][Old(m, j)]
      BY <2>4, <1>3
    <3>2. k = m /\ Old(k, i) = Old(m, j)
      BY <3>1 DEF Placed, LinkedOnce
    <3> QED BY <3>2, <2>4, <1>2 DEF IsNew, Old
  <2> QED BY <2>1, <2>2, <2>3, <2>4
<1>5. HeldOnce(G, none)
  BY <1>1 DEF Placed, HeldOnce
<1>6. HeldNotLinked(M, G)
  <2> SUFFICES ASSUME NEW g \in HS, NEW k \in LS, NEW i \in 1 .. Len(M[k]), M[k][i] = G[g]
               PROVE  FALSE
    BY <1>1 DEF HeldNotLinked
  <2>1. M[k][i] \in S
    BY <1>2
  <2>2. g # h /\ H[g] = M[k][i] /\ H[g] # none
    BY <1>1, <2>1
  <2>3. CASE IsNew(k, i)
    BY <1>3, <2>2, <2>3 DEF Placed, HeldOnce
  <2>4. CASE ~IsNew(k, i)
    BY <1>3, <2>2, <2>4 DEF Placed, HeldNotLinked
  <2> QED BY <2>3, <2>4
<1>7. OnlyAllocated(M, G, A, none)
  <2>1. ASSUME NEW k \in LS, NEW i \in 1 .. Len(M[k]) PROVE M[k][i] \in A
    <3>1. CASE IsNew(k, i)
      BY <3>1, <1>3 DEF Placed, OnlyAllocated
    <3>2. CASE ~IsNew(k, i)
      BY <3>2, <1>3 DEF Placed, OnlyAllocated
    <3> QED BY <3>1, <3>2
  <2>2. \A g \in HS : G[g] # none => G[g] \in A
    BY <1>1 DEF Placed, OnlyAllocated
  <2> QED BY <1>1, <2>1, <2>2 DEF OnlyAllocated
<1>8. AllFound(M, G, A)
  <2> SUFFICES ASSUME NEW x \in A
               PROVE  \/ \E k \in LS : \E i \in 1 .. Len(M[k]) : M[k][i] = x
                      \/ \E g \in HS : G[g] = x
    BY <1>1 DEF AllFound
  <2>1. CASE \E k \in LS : \E i \in 1 .. Len(L[k]) : L[k][i] = x
    <3>0. PICK k \in LS : \E i \in 1 .. Len(L[k]) : L[k][i] = x
      BY <2>1
    <3>1. PICK i \in 1 .. Len(L[k]) : L[k][i] = x
      BY <3>0
    <3>2. CASE k # l
      BY <3>1, <3>2
    <3>3. CASE k = l /\ i < p
      <4>1. i \in 1 .. p - 1 /\ i \in 1 .. Len(M[l])
        BY <1>2, <3>3
      <4> QED BY <4>1, <3>1, <3>3
    <3>4. CASE k = l /\ ~(i < p)
      <4>1. i + 1 \in p + 1 .. Len(L[l]) + 1 /\ i + 1 \in 1 .. Len(M[l]) /\ (i + 1) - 1 = i
        BY <1>2, <3>4
      <4>2. M[l][i + 1] = x
        BY <4>1, <3>1, <3>4
      <4> QED BY <4>1, <4>2
    <3> QED BY <3>2, <3>3, <3>4
  <2>2. CASE \E g \in HS : H[g] = x
    <3>1. PICK g \in HS : H[g] = x
      BY <2>2
    <3>2. CASE g = h
      <4>1. p \in 1 .. Len(M[l]) /\ M[l][p] = x
        BY <1>2, <3>1, <3>2
      <4> QED BY <4>1
    <3>3. CASE g # h
      BY <1>1, <3>1, <3>3
    <3> QED BY <3>2, <3>3
  <2> QED BY <2>1, <2>2 DEF Placed, AllFound
<1> QED
  BY <1>1, <1>4, <1>5, <1>6, <1>7, <1>8 DEF Placed, WellPlaced

(***************************************************************************)
(* Allocating an object into an empty hand, as thread_new and thread_split *)
(* do for the caller that will queue the thread.                           *)
(***************************************************************************)
THEOREM AllocateIntoHand ==
    ASSUME NEW S, NEW none, NEW LS, NEW HS, NEW L, NEW H, NEW A,
           WellPlaced(S, none, LS, HS, L, H, A),
           NEW x \in S, x \notin A,
           NEW h \in HS, H[h] = none
    PROVE  WellPlaced(S, none, LS, HS, L, [H EXCEPT ![h] = x], A \cup {x})
<1>0. /\ none \notin S /\ L \in [LS -> Seq(S)] /\ H \in [HS -> S \cup {none}]
      /\ A \in SUBSET S /\ Placed(L, H, A, none)
  BY DEF WellPlaced
<1> USE <1>0
<1> DEFINE G == [H EXCEPT ![h] = x]
<1>1. G \in [HS -> S \cup {none}] /\ G[h] = x /\ \A g \in HS : g # h => G[g] = H[g]
  OBVIOUS
<1>2. LinkedOnce(L)
  BY DEF Placed
<1>3. HeldOnce(G, none)
  BY <1>1 DEF Placed, HeldOnce, OnlyAllocated
<1>4. HeldNotLinked(L, G)
  BY <1>1 DEF Placed, HeldNotLinked, OnlyAllocated
<1>5. OnlyAllocated(L, G, A \cup {x}, none)
  BY <1>1 DEF Placed, OnlyAllocated
<1>6. AllFound(L, G, A \cup {x})
  <2> SUFFICES ASSUME NEW y \in A \cup {x}
               PROVE  \/ \E k \in LS : \E i \in 1 .. Len(L[k]) : L[k][i] = y
                      \/ \E g \in HS : G[g] = y
    BY <1>1 DEF AllFound
  <2>1. CASE y = x
    BY <1>1, <2>1
  <2>2. CASE y # x
    BY <1>1, <2>2 DEF Placed, AllFound
  <2> QED BY <2>1, <2>2
<1> QED
  BY <1>1, <1>2, <1>3, <1>4, <1>5, <1>6 DEF Placed, WellPlaced

(***************************************************************************)
(* Freeing the object a hand holds, as thread_free does with a thread that *)
(* was just popped.                                                        *)
(***************************************************************************)
THEOREM FreeFromHand ==
    ASSUME NEW S, NEW none, NEW LS, NEW HS, NEW L, NEW H, NEW A,
           WellPlaced(S, none, LS, HS, L, H, A),
           NEW h \in HS, H[h] # none
    PROVE  WellPlaced(S, none, LS, HS, L, [H EXCEPT ![h] = none], A \ {H[h]})
<1>0. /\ none \notin S /\ L \in [LS -> Seq(S)] /\ H \in [HS -> S \cup {none}]
      /\ A \in SUBSET S /\ Placed(L, H, A, none)
  BY DEF WellPlaced
<1> USE <1>0
<1> DEFINE G == [H EXCEPT ![h] = none]
<1>1. G \in [HS -> S \cup {none}] /\ G[h] = none /\ \A g \in HS : g # h => G[g] = H[g]
  OBVIOUS
<1>2. HeldOnce(G, none)
  BY <1>1 DEF Placed, HeldOnce
<1>3. HeldNotLinked(L, G)
  BY <1>1 DEF Placed, HeldNotLinked
<1>4. OnlyAllocated(L, G, A \ {H[h]}, none)
  BY <1>1 DEF Placed, OnlyAllocated, HeldOnce, HeldNotLinked
<1>5. AllFound(L, G, A \ {H[h]})
  BY <1>1 DEF Placed, AllFound
<1> QED
  BY <1>1, <1>2, <1>3, <1>4, <1>5 DEF Placed, WellPlaced

(***************************************************************************)
(* Linking what a hand holds at the end of a list: list_push, queue_push.  *)
(***************************************************************************)
THEOREM AppendFromHand ==
    ASSUME NEW S, NEW none, NEW LS, NEW HS, NEW L, NEW H, NEW A,
           WellPlaced(S, none, LS, HS, L, H, A),
           NEW l \in LS, NEW h \in HS, H[h] # none
    PROVE  WellPlaced(S, none, LS, HS, [L EXCEPT ![l] = Append(@, H[h])], [H EXCEPT ![h] = none], A)
<1>0. /\ none \notin S /\ L \in [LS -> Seq(S)] /\ H \in [HS -> S \cup {none}]
      /\ A \in SUBSET S /\ Placed(L, H, A, none)
  BY DEF WellPlaced
<1> USE <1>0
<1> DEFINE M == [L EXCEPT ![l] = Append(@, H[h])]
           p == Len(L[l]) + 1
<1>1. H[h] \in S /\ Len(L[l]) \in Nat
  OBVIOUS
<1>2. /\ M \in [LS -> Seq(S)]
      /\ Len(M[l]) = Len(L[l]) + 1
      /\ M[l][p] = H[h]
      /\ \A i \in 1 .. p - 1 : M[l][i] = L[l][i]
      /\ \A k \in LS : k # l => M[k] = L[k]
  BY <1>1
<1>3. Inserted(S, LS, L, M, l, p, H[h])
  BY <1>1, <1>2 DEF Inserted
<1> HIDE DEF M, p
<1>4. WellPlaced(S, none, LS, HS, M, [H EXCEPT ![h] = none], A)
  BY <1>3, LinkFromHand
<1> QED
  BY <1>4 DEF M

(***************************************************************************)
(* Passing an object from one hand to an empty one, as sched_schedule does *)
(* with the thread it has found.                                           *)
(***************************************************************************)
THEOREM PassOn ==
    ASSUME NEW S, NEW none, NEW LS, NEW HS, NEW L, NEW H, NEW A,
           WellPlaced(S, none, LS, HS, L, H, A),
           NEW g \in HS, NEW h \in HS, g # h, H[h] = none
    PROVE  WellPlaced(S, none, LS, HS, L, [H EXCEPT ![h] = H[g], ![g] = none], A)
<1>0. /\ none \notin S /\ L \in [LS -> Seq(S)] /\ H \in [HS -> S \cup {none}]
      /\ A \in SUBSET S /\ Placed(L, H, A, none)
  BY DEF WellPlaced
<1> USE <1>0
<1> DEFINE G == [H EXCEPT ![h] = H[g], ![g] = none]
<1>1. /\ G \in [HS -> S \cup {none}] /\ G[h] = H[g] /\ G[g] = none
      /\ \A k \in HS : k # g /\ k # h => G[k] = H[k]
  OBVIOUS
<1> HIDE DEF G
<1>2. LinkedOnce(L)
  BY DEF Placed
<1>3. HeldOnce(G, none)
  BY <1>1 DEF Placed, HeldOnce
<1>4. HeldNotLinked(L, G)
  BY <1>1 DEF Placed, HeldNotLinked
<1>5. OnlyAllocated(L, G, A, none)
  BY <1>1 DEF Placed, OnlyAllocated
<1>6. AllFound(L, G, A)
  BY <1>1 DEF Placed, AllFound
<1>7. WellPlaced(S, none, LS, HS, L, G, A)
  BY <1>1, <1>2, <1>3, <1>4, <1>5, <1>6 DEF Placed, WellPlaced
<1> QED
  BY <1>7 DEF G

-----------------------------------------------------------------------------
(* Lists as sequences: an entry put in, taken out, and moved *)

\* r is the list s with x put in at place p, and the rest shifted.
Widened(S, s, r, p, x) ==
    /\ r \in Seq(S) /\ Len(r) = Len(s) + 1 /\ r[p] = x
    /\ \A i \in 1 .. p - 1 : r[i] = s[i]
    /\ \A i \in p + 1 .. Len(s) + 1 : r[i] = s[i - 1]

\* An entry put into a list shifts the rest.
LEMMA InsertAtInserts ==
    ASSUME NEW S, NEW s \in Seq(S), NEW x \in S, NEW p \in 1 .. Len(s) + 1
    PROVE  Widened(S, s, InsertAt(s, p, x), p, x)
<1> DEFINE a == SubSeq(s, 1, p - 1)
           b == SubSeq(s, p, Len(s))
<1>1. Len(s) \in Nat /\ p \in Nat
  OBVIOUS
<1>2. a \in Seq(S) /\ Len(a) = p - 1 /\ \A i \in 1 .. p - 1 : a[i] = s[i]
  BY <1>1
<1>3. b \in Seq(S) /\ Len(b) = Len(s) + 1 - p /\ \A i \in 1 .. Len(s) + 1 - p : b[i] = s[i + p - 1]
  BY <1>1
<1>4. InsertAt(s, p, x) = (a \o <<x>>) \o b
  BY DEF InsertAt
<1> HIDE DEF a, b
<1> DEFINE e == a \o <<x>>
<1>5. e \in Seq(S) /\ Len(e) = p /\ e[p] = x /\ \A i \in 1 .. p - 1 : e[i] = s[i]
  BY <1>1, <1>2
<1> HIDE DEF e
<1>6. /\ e \o b \in Seq(S) /\ Len(e \o b) = Len(s) + 1
      /\ \A i \in 1 .. p : (e \o b)[i] = e[i]
      /\ \A i \in p + 1 .. Len(s) + 1 : (e \o b)[i] = b[i - p]
  BY <1>1, <1>3, <1>5
<1>7. \A i \in p + 1 .. Len(s) + 1 : b[i - p] = s[i - 1]
  <2> TAKE i \in p + 1 .. Len(s) + 1
  <2>1. i - p \in 1 .. Len(s) + 1 - p /\ (i - p) + p - 1 = i - 1
    BY <1>1
  <2> QED
    BY <1>3, <2>1
<1>8. Widened(S, s, e \o b, p, x)
  BY <1>1, <1>5, <1>6, <1>7 DEF Widened
<1>9. InsertAt(s, p, x) = e \o b
  BY <1>4 DEF e
<1> QED
  BY <1>8, <1>9, Zenon

\* An entry taken out of a list
LEMMA RemoveAtRemoves ==
    ASSUME NEW S, NEW s \in Seq(S), NEW p \in 1 .. Len(s)
    PROVE  /\ RemoveAt(s, p) \in Seq(S)
           /\ Len(RemoveAt(s, p)) = Len(s) - 1
           /\ \A i \in 1 .. Len(s) - 1 : RemoveAt(s, p)[i] = s[IF i < p THEN i ELSE i + 1]
<1> DEFINE a == SubSeq(s, 1, p - 1)
           b == SubSeq(s, p + 1, Len(s))
<1>1. Len(s) \in Nat /\ p \in Nat
  OBVIOUS
<1>2. a \in Seq(S) /\ Len(a) = p - 1 /\ \A i \in 1 .. p - 1 : a[i] = s[i]
  BY <1>1
<1>3. b \in Seq(S) /\ Len(b) = Len(s) - p /\ \A i \in 1 .. Len(s) - p : b[i] = s[i + p]
  BY <1>1
<1>4. RemoveAt(s, p) = a \o b
  BY DEF RemoveAt
<1> HIDE DEF a, b
<1>5. /\ a \o b \in Seq(S) /\ Len(a \o b) = Len(s) - 1
      /\ \A i \in 1 .. p - 1 : (a \o b)[i] = a[i]
      /\ \A i \in p .. Len(s) - 1 : (a \o b)[i] = b[i - (p - 1)]
  <2>1. a \o b \in Seq(S) /\ Len(a \o b) = Len(a) + Len(b)
    BY <1>2, <1>3, ConcatProperties
  <2>2. \A i \in 1 .. Len(a) + Len(b) : (a \o b)[i] = IF i <= Len(a) THEN a[i] ELSE b[i - Len(a)]
    BY <1>2, <1>3, ConcatProperties
  <2>3. Len(a) + Len(b) = Len(s) - 1
    BY <1>1, <1>2, <1>3
  <2>4. \A i \in 1 .. p - 1 : i \in 1 .. Len(s) - 1 /\ i <= p - 1
    BY <1>1
  <2>5. \A i \in p .. Len(s) - 1 : i \in 1 .. Len(s) - 1 /\ ~(i <= p - 1)
    BY <1>1
  <2> QED
    BY <1>2, <2>1, <2>2, <2>3, <2>4, <2>5
<1>6. ASSUME NEW i \in 1 .. Len(s) - 1 PROVE (a \o b)[i] = s[IF i < p THEN i ELSE i + 1]
  <2>1. CASE i < p
    BY <1>1, <1>2, <1>5, <2>1
  <2>2. CASE ~(i < p)
    <3>1. i \in p .. Len(s) - 1 /\ i - (p - 1) \in 1 .. Len(s) - p /\ i - (p - 1) + p = i + 1
      BY <1>1, <2>2
    <3> QED
      BY <1>3, <1>5, <2>2, <3>1
  <2> QED
    BY <2>1, <2>2
<1> QED
  BY <1>4, <1>5, <1>6

\* A list in which no entry is twice
Distinct(s) == \A i, j \in 1 .. Len(s) : s[i] = s[j] => i = j

\* Such a list is no longer than there are entries.
LEMMA DistinctLength ==
    ASSUME NEW S, IsFiniteSet(S), NEW s \in Seq(S), Distinct(s)
    PROVE  Len(s) \in 0 .. Cardinality(S) /\ s \in BoundedSeq(S, Cardinality(S))
<1>1. Len(s) \in Nat /\ s \in [1 .. Len(s) -> S]
  OBVIOUS
<1>2. s \in Injection(1 .. Len(s), S)
  BY <1>1 DEF Injection, IsInjective, Distinct
<1>3. Cardinality(1 .. Len(s)) <= Cardinality(S)
  BY <1>2, FS_Injection
<1>4. Cardinality(1 .. Len(s)) = Len(s)
  BY <1>1, FS_Interval
<1>5. Cardinality(S) \in Nat
  BY FS_CardinalityType
<1>6. Len(s) \in 0 .. Cardinality(S)
  BY <1>1, <1>3, <1>4, <1>5
<1> QED
  BY <1>1, <1>6 DEF BoundedSeq, SeqOf

LEMMA RangeOf ==
    ASSUME NEW S, NEW s \in Seq(S)
    PROVE  /\ \A x : x \in Range(s) <=> \E i \in 1 .. Len(s) : s[i] = x
           /\ Range(s) \subseteq S
BY DEF Range

\* list_remove takes the entry out and leaves the others.
LEMMA RemoveFirstUnlinks ==
    ASSUME NEW S, NEW s \in Seq(S), Distinct(s), NEW x
    PROVE  /\ RemoveFirst(s, x) \in Seq(S) /\ Distinct(RemoveFirst(s, x))
           /\ Range(RemoveFirst(s, x)) = Range(s) \ {x}
<1>1. Len(s) \in Nat
  OBVIOUS
<1>2. CASE \A i \in 1 .. Len(s) : s[i] # x
  <2>1. RemoveFirst(s, x) = s
    BY <1>2 DEF RemoveFirst
  <2>2. x \notin Range(s)
    BY <1>2, RangeOf
  <2> QED
    BY <2>1, <2>2
<1>3. CASE \E i \in 1 .. Len(s) : s[i] = x
  <2>1. PICK p \in 1 .. Len(s) : s[p] = x
    BY <1>3
  <2>2. {i \in 1 .. Len(s) : s[i] = x} = {p}
    BY <2>1 DEF Distinct
  <2>3. Min({p}) = p
    BY <2>1 DEF Min
  <2>4. RemoveFirst(s, x) = RemoveAt(s, p)
    BY <1>3, <2>2, <2>3 DEF RemoveFirst, SelectInSeq
  <2> DEFINE t == RemoveAt(s, p)
             at(i) == IF i < p THEN i ELSE i + 1
  <2>5. /\ t \in Seq(S) /\ Len(t) = Len(s) - 1
        /\ \A i \in 1 .. Len(s) - 1 : t[i] = s[at(i)]
    BY <2>1, RemoveAtRemoves
  <2> HIDE DEF t
  <2>6. \A i \in 1 .. Len(s) - 1 : at(i) \in 1 .. Len(s) /\ at(i) # p
    BY <1>1, <2>1
  <2>7. \A i, j \in 1 .. Len(s) - 1 : at(i) = at(j) => i = j
    BY <1>1, <2>1
  <2>8. \A i \in 1 .. Len(s) : i # p => \E j \in 1 .. Len(s) - 1 : at(j) = i
    <3> TAKE i \in 1 .. Len(s)
    <3> HAVE i # p
    <3>1. CASE i < p
      <4>1. i \in 1 .. Len(s) - 1 /\ at(i) = i
        BY <1>1, <2>1, <3>1
      <4> QED
        BY <4>1
    <3>2. CASE p < i
      <4>1. i - 1 \in 1 .. Len(s) - 1 /\ at(i - 1) = i
        BY <1>1, <2>1, <3>2
      <4> QED
        BY <4>1
    <3> QED
      BY <2>1, <3>1, <3>2
  <2> HIDE DEF at
  <2>9. Distinct(t)
    BY <2>5, <2>6, <2>7 DEF Distinct
  <2>10. ASSUME NEW y PROVE y \in Range(t) <=> y \in Range(s) \ {x}
    <3>1. y \in Range(t) <=> \E i \in 1 .. Len(s) - 1 : t[i] = y
      BY <2>5, RangeOf
    <3>2. y \in Range(s) <=> \E i \in 1 .. Len(s) : s[i] = y
      BY RangeOf
    <3>3. y \in Range(t) => y \in Range(s) \ {x}
      BY <2>1, <2>5, <2>6, <3>1, <3>2 DEF Distinct
    <3>4. ASSUME y \in Range(s) \ {x} PROVE y \in Range(t)
      <4>1. PICK i \in 1 .. Len(s) : s[i] = y
        BY <3>2, <3>4
      <4>2. i # p
        BY <2>1, <3>4, <4>1
      <4>3. PICK j \in 1 .. Len(s) - 1 : at(j) = i
        BY <2>8, <4>1, <4>2
      <4> QED
        BY <2>5, <3>1, <4>1, <4>3
    <3> QED
      BY <3>3, <3>4
  <2> QED
    BY <2>4, <2>5, <2>9, <2>10 DEF t
<1> QED
  BY <1>2, <1>3

\* list_push puts an entry that is in no list at the end.
LEMMA AppendLinks ==
    ASSUME NEW S, NEW s \in Seq(S), Distinct(s), NEW x \in S, x \notin Range(s)
    PROVE  /\ Append(s, x) \in Seq(S) /\ Distinct(Append(s, x))
           /\ Range(Append(s, x)) = Range(s) \cup {x}
<1>1. Len(s) \in Nat
  OBVIOUS
<1> DEFINE t == Append(s, x)
<1>2. /\ t \in Seq(S) /\ Len(t) = Len(s) + 1 /\ t[Len(s) + 1] = x
      /\ \A i \in 1 .. Len(s) : t[i] = s[i]
  BY AppendProperties
<1> HIDE DEF t
<1>3. \A i \in 1 .. Len(s) + 1 : i \in 1 .. Len(s) \/ i = Len(s) + 1
  BY <1>1
<1>4. \A i \in 1 .. Len(s) : s[i] # x /\ i \in 1 .. Len(s) + 1
  BY <1>1, RangeOf
<1>5. Distinct(t)
  BY <1>2, <1>3, <1>4 DEF Distinct
<1>6. ASSUME NEW y PROVE y \in Range(t) <=> y \in Range(s) \cup {x}
  <2>1. y \in Range(t) <=> \E i \in 1 .. Len(s) + 1 : t[i] = y
    BY <1>2, RangeOf
  <2>2. y \in Range(s) <=> \E i \in 1 .. Len(s) : s[i] = y
    BY RangeOf
  <2>3. Len(s) + 1 \in 1 .. Len(s) + 1
    BY <1>1
  <2> QED
    BY <1>2, <1>3, <1>4, <2>1, <2>2, <2>3
<1> QED
  BY <1>2, <1>5, <1>6 DEF t

\* The rest of such a list
LEMMA TailUnlinks ==
    ASSUME NEW S, NEW s \in Seq(S), Distinct(s), s # <<>>
    PROVE  /\ Tail(s) \in Seq(S) /\ Distinct(Tail(s)) /\ Head(s) \in Range(s)
           /\ Range(Tail(s)) = Range(s) \ {Head(s)}
<1>1. Len(s) \in Nat /\ Len(s) > 0 /\ Head(s) = s[1]
  BY EmptySeq
<1>2. /\ Tail(s) \in Seq(S) /\ Len(Tail(s)) = Len(s) - 1
      /\ \A i \in 1 .. Len(s) - 1 : Tail(s)[i] = s[i + 1]
  BY HeadTailProperties
<1> DEFINE t == Tail(s)
<1>3. /\ 1 \in 1 .. Len(s)
      /\ \A i \in 1 .. Len(s) - 1 : i + 1 \in 1 .. Len(s) /\ i + 1 # 1
      /\ \A i, j \in 1 .. Len(s) - 1 : i + 1 = j + 1 => i = j
      /\ \A i \in 1 .. Len(s) : i = 1 \/ (i - 1 \in 1 .. Len(s) - 1 /\ (i - 1) + 1 = i)
  BY <1>1
<1>4. Distinct(t)
  BY <1>2, <1>3 DEF Distinct
<1> HIDE DEF t
<1>5. t \in Seq(S) /\ Len(t) = Len(s) - 1 /\ \A i \in 1 .. Len(s) - 1 : t[i] = s[i + 1]
  BY <1>2 DEF t
<1>6. ASSUME NEW y PROVE y \in Range(t) <=> y \in Range(s) \ {Head(s)}
  <2>1. y \in Range(t) <=> \E i \in 1 .. Len(s) - 1 : t[i] = y
    BY <1>5, RangeOf
  <2>2. y \in Range(s) <=> \E i \in 1 .. Len(s) : s[i] = y
    BY RangeOf
  <2>3. y \in Range(t) => y \in Range(s) \ {Head(s)}
    BY <1>1, <1>3, <1>5, <2>1, <2>2 DEF Distinct
  <2>4. ASSUME y \in Range(s) \ {Head(s)} PROVE y \in Range(t)
    <3>1. PICK i \in 1 .. Len(s) : s[i] = y /\ i # 1
      BY <1>1, <2>2, <2>4
    <3>2. i - 1 \in 1 .. Len(s) - 1 /\ (i - 1) + 1 = i
      BY <1>3, <3>1
    <3>3. t[i - 1] = y
      BY <1>5, <3>1, <3>2
    <3> QED
      BY <2>1, <3>2, <3>3
  <2> QED
    BY <2>3, <2>4
<1>7. Head(s) \in Range(s)
  BY <1>1, <1>3, RangeOf
<1> QED
  BY <1>2, <1>4, <1>6, <1>7 DEF t

-----------------------------------------------------------------------------
(* Folds *)

\* A set of natural numbers has a smallest element.
LEMMA LeastOf ==
    ASSUME NEW S \in SUBSET Nat, S # {}
    PROVE  \E n \in S : \A k \in S : n <= k
<1>1. PICK n \in S : \A k \in S : ~(<<k, n>> \in OpToRel(<, Nat))
  BY NatLessThanWellFounded, WFMin, Zenon
<1>2. ASSUME NEW k \in S PROVE n <= k
  <2>1. n \in Nat /\ k \in Nat
    OBVIOUS
  <2>2. ~(k < n)
    BY <1>1, <2>1 DEF OpToRel
  <2> QED
    BY <2>1, <2>2
<1> QED
  BY <1>2

\* The largest element of a set that has one
LEMMA MaxIs ==
    ASSUME NEW s \in SUBSET Int, NEW k \in s, \A j \in s : j <= k
    PROVE  Max(s) = k
<1>1. \A j \in s : k >= j
  OBVIOUS
<1>2. Max(s) \in s /\ \A j \in s : Max(s) >= j
  BY <1>1 DEF Max
<1>3. Max(s) >= k /\ Max(s) <= k /\ Max(s) \in Int /\ k \in Int
  BY <1>2
<1> QED
  BY <1>3

\* It is one of it.
LEMMA MaxIn ==
    ASSUME NEW n \in Nat, NEW s \in SUBSET (1 .. n), s # {}
    PROVE  Max(s) \in s
<1> DEFINE D == {d \in Nat : n - d \in s}
<1>1. D # {}
  <2>1. PICK j \in s : TRUE
    OBVIOUS
  <2>2. n - j \in Nat /\ n - (n - j) = j
    OBVIOUS
  <2> QED
    BY <2>2
<1>2. PICK d \in D : \A e \in D : d <= e
  BY <1>1, LeastOf
<1>3. ASSUME NEW j \in s PROVE j <= n - d
  <2>1. n - j \in Nat /\ n - (n - j) = j
    OBVIOUS
  <2>2. n - j \in D
    BY <2>1
  <2>3. d <= n - j
    BY <1>2, <2>2
  <2> QED
    BY <2>1, <2>3
<1>4. n - d \in s /\ s \in SUBSET Int
  OBVIOUS
<1> QED
  BY <1>3, <1>4, MaxIs

\* F folds g over the subsets of 1 .. k, from the smallest element on.
IsFold(S, b, g, k, F) ==
    /\ F \in [SUBSET (1 .. k) -> S]
    /\ F[{}] = b
    /\ \A s \in SUBSET (1 .. k) : s # {} => F[s] = g[<<F[s \ {Max(s)}], Max(s)>>]

\* The equation of a fold has a solution.
LEMMA FoldExists ==
    ASSUME NEW S, NEW n \in Nat, NEW b \in S, NEW g \in [S \X (1 .. n) -> S]
    PROVE  \E F : IsFold(S, b, g, n, F)
<1> DEFINE Bad == {k \in Nat : k <= n /\ ~\E F : IsFold(S, b, g, k, F)}
<1>1. 0 \notin Bad
  <2> DEFINE F == [s \in SUBSET (1 .. 0) |-> b]
  <2>1. 1 .. 0 = {}
    OBVIOUS
  <2>2. \A s \in SUBSET (1 .. 0) : s = {}
    BY <2>1
  <2>3. F \in [SUBSET (1 .. 0) -> S] /\ F[{}] = b
    OBVIOUS
  <2> HIDE DEF F
  <2>4. IsFold(S, b, g, 0, F)
    BY <2>2, <2>3 DEF IsFold
  <2> QED
    BY <2>4
<1>2. ASSUME NEW k \in Nat, k # 0, k <= n, NEW F, IsFold(S, b, g, k - 1, F)
      PROVE  \E G : IsFold(S, b, g, k, G)
  <2> DEFINE G == [s \in SUBSET (1 .. k) |-> IF k \in s THEN g[<<F[s \ {k}], k>>] ELSE F[s]]
  <2>1. F \in [SUBSET (1 .. k - 1) -> S] /\ F[{}] = b
        /\ \A s \in SUBSET (1 .. k - 1) : s # {} => F[s] = g[<<F[s \ {Max(s)}], Max(s)>>]
    BY <1>2 DEF IsFold
  <2>2. ASSUME NEW s \in SUBSET (1 .. k), k \in s
        PROVE  s \ {k} \in SUBSET (1 .. k - 1) /\ Max(s) = k /\ k \notin s \ {k}
    <3>1. s \ {k} \in SUBSET (1 .. k - 1)
      BY <1>2
    <3>2. s \in SUBSET Int /\ \A j \in s : j <= k
      OBVIOUS
    <3> QED
      BY <2>2, <3>1, <3>2, MaxIs
  <2>3. ASSUME NEW s \in SUBSET (1 .. k), k \notin s
        PROVE  s \in SUBSET (1 .. k - 1)
    BY <2>3, <1>2
  <2>4. G \in [SUBSET (1 .. k) -> S]
    <3>1. ASSUME NEW s \in SUBSET (1 .. k), k \in s PROVE g[<<F[s \ {k}], k>>] \in S
      <4>1. F[s \ {k}] \in S
        BY <2>1, <2>2, <3>1
      <4>2. k \in 1 .. n
        BY <1>2
      <4> QED
        BY <4>1, <4>2
    <3>2. ASSUME NEW s \in SUBSET (1 .. k), k \notin s PROVE F[s] \in S
      BY <2>1, <2>3, <3>2
    <3> QED
      BY <3>1, <3>2
  <2>5. \A s \in SUBSET (1 .. k) : G[s] = IF k \in s THEN g[<<F[s \ {k}], k>>] ELSE F[s]
    OBVIOUS
  <2> HIDE DEF G
  <2>6. \A s \in SUBSET (1 .. k - 1) : s \in SUBSET (1 .. k) /\ k \notin s
    BY <1>2
  <2>7. G[{}] = b
    BY <2>1, <2>5
  <2>8. ASSUME NEW s \in SUBSET (1 .. k), s # {} PROVE G[s] = g[<<G[s \ {Max(s)}], Max(s)>>]
    <3>1. CASE k \in s
      <4>1. Max(s) = k /\ s \ {k} \in SUBSET (1 .. k - 1)
        BY <2>2, <3>1
      <4>2. G[s \ {k}] = F[s \ {k}]
        BY <2>5, <2>6, <4>1
      <4> QED
        BY <2>5, <3>1, <4>1, <4>2
    <3>2. CASE k \notin s
      <4>1. s \in SUBSET (1 .. k - 1)
        BY <2>3, <3>2
      <4>2. G[s] = F[s] /\ F[s] = g[<<F[s \ {Max(s)}], Max(s)>>]
        BY <2>1, <2>5, <2>8, <3>2, <4>1
      <4>3. s \ {Max(s)} \in SUBSET (1 .. k - 1)
        BY <4>1
      <4>4. G[s \ {Max(s)}] = F[s \ {Max(s)}]
        BY <2>5, <2>6, <4>3
      <4> QED
        BY <4>2, <4>4
    <3> QED
      BY <3>1, <3>2
  <2>9. IsFold(S, b, g, k, G)
    BY <2>4, <2>7, <2>8 DEF IsFold
  <2> QED
    BY <2>9
<1>3. Bad = {}
  <2> SUFFICES ASSUME Bad # {} PROVE FALSE
    OBVIOUS
  <2>1. PICK k \in Bad : \A j \in Bad : k <= j
    BY LeastOf
  <2>2. k \in Nat /\ k <= n /\ k # 0 /\ ~\E F : IsFold(S, b, g, k, F)
    BY <1>1
  <2>3. k - 1 \in Nat /\ k - 1 <= n /\ ~(k <= k - 1)
    BY <2>2
  <2>4. k - 1 \notin Bad
    <3> HIDE DEF Bad
    <3> QED
      BY <2>1, <2>3
  <2>5. PICK F : IsFold(S, b, g, k - 1, F)
    BY <2>3, <2>4
  <2> QED
    BY <1>2, <2>2, <2>5
<1> QED
  BY <1>3

\* The largest element of the first numbers
LEMMA FirstNumbers ==
    ASSUME NEW n \in Nat, NEW i \in 1 .. n
    PROVE  1 .. i \in SUBSET (1 .. n) /\ 1 .. i # {} /\ Max(1 .. i) = i /\ (1 .. i) \ {i} = 1 .. i - 1
<1>1. 1 .. i \in SUBSET Int /\ i \in 1 .. i /\ \A j \in 1 .. i : j <= i
  OBVIOUS
<1>2. Max(1 .. i) = i
  BY <1>1, MaxIs
<1>3. (1 .. i) \ {i} = 1 .. i - 1
  OBVIOUS
<1>4. 1 .. i \in SUBSET (1 .. n)
  OBVIOUS
<1> QED
  BY <1>1, <1>2, <1>3, <1>4

\* Induction up to n
LEMMA UpTo ==
    ASSUME NEW n \in Nat, NEW P, 0 \in P, \A i \in 1 .. n : i - 1 \in P => i \in P
    PROVE  \A i \in 0 .. n : i \in P
<1> DEFINE Bad == {i \in Nat : i <= n /\ i \notin P}
<1>1. Bad = {}
  <2> SUFFICES ASSUME Bad # {} PROVE FALSE
    OBVIOUS
  <2>1. PICK k \in Bad : \A j \in Bad : k <= j
    BY LeastOf
  <2>2. k \in Nat /\ k <= n /\ k \notin P /\ k # 0
    OBVIOUS
  <2>3. k - 1 \in Nat /\ k - 1 <= n /\ k \in 1 .. n /\ ~(k <= k - 1)
    BY <2>2
  <2>4. k - 1 \in P
    BY <2>1, <2>3
  <2> QED
    BY <2>2, <2>3, <2>4
<1> QED
  BY <1>1
=============================================================================
