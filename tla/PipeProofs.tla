----------------------------- MODULE PipeProofs -----------------------------
(***************************************************************************)
(* Proofs about the pipe, for every number of threads and descriptors and  *)
(* every size of the ring.                                                 *)
(***************************************************************************)
EXTENDS Pipe, FiniteSetTheorems, SequenceTheorems, TLAPS

\* A system call holds a reference to its file from Enter to Leave.
InCall == {"test", "block", "parked", "unblock", "leave"}

Uses(r, e) == r.pc \in InCall /\ r.end = e

Users(e) == {t \in Thread : Uses(task[t], e)}

RefsCount == \A e \in End : ref[e] = fds[e] + Cardinality(Users(e))

\* An end is cleaned up once, by whoever gave up its last reference.
CleanedOnce ==
    /\ \A e \in End : closed[e] => ref[e] = 0
    /\ \A t \in Thread : task[t].pc = "cleanup" =>
        ref[task[t].end] = 0 /\ ~closed[task[t].end]
    /\ \A t, u \in Thread :
        task[t].pc = "cleanup" /\ task[u].pc = "cleanup" /\ task[t].end = task[u].end => t = u

\* The pipe is freed once, after both ends.
FreedOnce ==
    /\ \A t \in Thread : task[t].pc = "free" => ~freed /\ \A e \in End : closed[e]
    /\ \A t, u \in Thread : task[t].pc = "free" /\ task[u].pc = "free" => t = u
    /\ freed => \A e \in End : closed[e]

WaitersParked == \A i \in 1 .. Len(waiters) : task[waiters[i]].pc = "parked"

CallInv == RefsCount /\ CleanedOnce /\ FreedOnce /\ WaitersParked /\ NeverPanics

-----------------------------------------------------------------------------
(* References *)

\* The change of one thread's call changes the users of an end by that thread.
LEMMA UsersChange ==
    ASSUME task \in [Thread -> Task], NEW t \in Thread, NEW r,
           task' = [task EXCEPT ![t] = r], NEW e \in End
    PROVE  /\ Cardinality(Users(e)) \in Nat /\ Cardinality(Users(e)') \in Nat
           /\ (Uses(task[t], e) <=> Uses(r, e)) =>
                Cardinality(Users(e)') = Cardinality(Users(e))
           /\ ~Uses(task[t], e) /\ Uses(r, e) =>
                Cardinality(Users(e)') = Cardinality(Users(e)) + 1
           /\ Uses(task[t], e) /\ ~Uses(r, e) =>
                /\ Cardinality(Users(e)') = Cardinality(Users(e)) - 1
                /\ Cardinality(Users(e)) >= 1
<1>1. /\ task'[t] = r /\ \A u \in Thread : u # t => task'[u] = task[u]
  OBVIOUS
<1>2. IsFiniteSet(Users(e)) /\ IsFiniteSet(Users(e)')
  BY FdAssumption, FS_Subset DEF Users
<1>3. Cardinality(Users(e)) \in Nat /\ Cardinality(Users(e)') \in Nat
  BY <1>2, FS_CardinalityType
<1>4. ASSUME Uses(task[t], e) <=> Uses(r, e) PROVE Users(e)' = Users(e)
  BY <1>1, <1>4 DEF Users, Uses
<1>5. ASSUME ~Uses(task[t], e), Uses(r, e)
      PROVE  Cardinality(Users(e)') = Cardinality(Users(e)) + 1
  <2>1. Users(e)' = Users(e) \cup {t} /\ t \notin Users(e)
    BY <1>1, <1>5 DEF Users, Uses
  <2> QED
    BY <1>2, <2>1, FS_AddElement
<1>6. ASSUME Uses(task[t], e), ~Uses(r, e)
      PROVE  /\ Cardinality(Users(e)') = Cardinality(Users(e)) - 1
             /\ Cardinality(Users(e)) >= 1
  <2>1. Users(e)' = Users(e) \ {t} /\ t \in Users(e)
    BY <1>1, <1>6 DEF Users, Uses
  <2>2. Cardinality(Users(e)) # 0
    BY <1>2, <2>1, FS_EmptySet
  <2> QED
    BY <1>2, <1>3, <2>1, <2>2, FS_RemoveElement
<1> QED
  BY <1>3, <1>4, <1>5, <1>6

\* A file without references has no descriptor, and no call uses it.
LEMMA NoRefs ==
    ASSUME TypeOK, RefsCount, NEW e \in End, ref[e] = 0
    PROVE  fds[e] = 0 /\ \A t \in Thread : ~Uses(task[t], e)
<1>1. IsFiniteSet(Users(e))
  BY FdAssumption, FS_Subset DEF Users
<1>2. Cardinality(Users(e)) \in Nat
  BY <1>1, FS_CardinalityType
<1>3. fds[e] \in Nat /\ ref[e] = fds[e] + Cardinality(Users(e))
  BY FdAssumption DEF TypeOK, RefsCount
<1>4. fds[e] = 0 /\ Cardinality(Users(e)) = 0
  BY <1>2, <1>3
<1>5. Users(e) = {}
  BY <1>1, <1>4, FS_EmptySet
<1> QED
  BY <1>4, <1>5 DEF Users

\* The list of waiters stays right when a thread that does not wait moves.
LEMMA WaitersKept ==
    ASSUME TypeOK, WaitersParked, NEW t \in Thread, NEW r, task' = [task EXCEPT ![t] = r],
           task[t].pc # "parked", waiters' = waiters
    PROVE  WaitersParked'
BY DEF TypeOK, WaitersParked

\* A step inside a call that leaves the files alone
LEMMA CallStays ==
    ASSUME TypeOK, CallInv, NEW t \in Thread, NEW r \in Task, task' = [task EXCEPT ![t] = r],
           UNCHANGED <<closed, freed, fds, ref>>, WaitersParked',
           task[t].pc \in InCall, r.pc \in InCall, r.end = task[t].end
    PROVE  CallInv'
<1>1. /\ task \in [Thread -> Task] /\ task'[t] = r
      /\ \A u \in Thread : u # t => task'[u] = task[u]
  BY DEF TypeOK
<1>2. RefsCount'
  <2> SUFFICES ASSUME NEW e \in End PROVE ref'[e] = fds'[e] + Cardinality(Users(e)')
    BY DEF RefsCount
  <2>0. Uses(task[t], e) <=> Uses(r, e)
    BY DEF Uses
  <2>1. Cardinality(Users(e)') = Cardinality(Users(e))
    BY <1>1, <2>0, UsersChange
  <2> QED
    BY <2>1 DEF CallInv, RefsCount
<1>3. CleanedOnce'
  BY <1>1 DEF CallInv, CleanedOnce, InCall
<1>4. FreedOnce'
  BY <1>1 DEF CallInv, FreedOnce, InCall
<1>5. NeverPanics'
  BY <1>1 DEF CallInv, NeverPanics, InCall
<1> QED
  BY <1>2, <1>3, <1>4, <1>5 DEF CallInv

\* Lengths and counts are numbers.
LEMMA Lengths ==
    ASSUME TypeOK, NEW t \in Thread
    PROVE  /\ task[t] \in Task /\ task[t].count \in Nat
           /\ DataLength \in Nat /\ DataLength <= RING_SIZE
           /\ FreeLength \in Nat /\ FreeLength = RING_SIZE - DataLength
<1>1. task[t] \in Task /\ ring \in Ring
  BY DEF TypeOK
<1>2. task[t].count \in Count \cup {0} /\ ring.dataLength \in 0 .. RING_SIZE
  BY <1>1 DEF Task, Ring
<1>3. task[t].count \in Nat
  <2>1. \A n \in Count : n \in Nat
    BY RingAssumption
  <2> QED
    BY <1>2, <2>1
<1>4. ring.dataLength \in Nat /\ ring.dataLength <= RING_SIZE /\ RING_SIZE \in Nat
  BY <1>2, RingAssumption
<1> QED
  BY <1>1, <1>3, <1>4 DEF DataLength, FreeLength

\* The bytes that a read takes are there, or it waits.
LEMMA ReadFits ==
    ASSUME TypeOK, NEW t \in Thread, task[t].end = "read", Condition(t)
    PROVE  ReadCount(t) \in Nat /\ ReadCount(t) <= DataLength
<1>1. task[t].count \in Nat /\ DataLength \in Nat
  BY Lengths
<1>2. CASE closed["write"]
  <2>1. Min({task[t].count, DataLength}) \in {task[t].count, DataLength}
        /\ Min({task[t].count, DataLength}) <= DataLength
    BY <1>1 DEF Min
  <2> QED
    BY <1>1, <1>2, <2>1 DEF ReadCount
<1>3. CASE ~closed["write"]
  BY <1>1, <1>3 DEF ReadCount, Condition
<1> QED
  BY <1>2, <1>3

\* The steps inside pipe_read and pipe_write keep the invariant of the calls.
LEMMA CallTest ==
    ASSUME TypeOK, CallInv, NEW t \in Thread, Test(t)
    PROVE  CallInv'
<1> DEFINE r == [task[t] EXCEPT !.pc = "block"]
<1>1. /\ task[t] \in Task /\ task[t].pc = "test" /\ r \in Task
      /\ r.pc = "block" /\ r.end = task[t].end /\ task' = [task EXCEPT ![t] = r]
  BY DEF TypeOK, Test, Task, Goto
<1> HIDE DEF r
<1>2. WaitersParked'
  BY <1>1, WaitersKept DEF CallInv, Test
<1> QED
  BY <1>1, <1>2, CallStays DEF Test, InCall

LEMMA CallPark ==
    ASSUME TypeOK, CallInv, NEW t \in Thread, Park(t)
    PROVE  CallInv'
<1> DEFINE r == [task[t] EXCEPT !.pc = "parked"]
<1>1. /\ task[t] \in Task /\ task[t].pc = "block" /\ r \in Task
      /\ r.pc = "parked" /\ r.end = task[t].end /\ task' = [task EXCEPT ![t] = r]
  BY DEF TypeOK, Park, Task, Goto
<1> HIDE DEF r
<1>2. /\ waiters \in Seq(Thread) /\ Len(waiters') = Len(waiters) + 1
      /\ \A i \in 1 .. Len(waiters) : waiters'[i] = waiters[i] /\ waiters[i] \in Thread
      /\ waiters'[Len(waiters) + 1] = t
  BY DEF TypeOK, Park
<1>3. WaitersParked'
  <2> SUFFICES ASSUME NEW i \in 1 .. Len(waiters) + 1 PROVE task'[waiters'[i]].pc = "parked"
    BY <1>2 DEF WaitersParked
  <2>1. CASE i = Len(waiters) + 1
    BY <1>1, <1>2, <2>1 DEF TypeOK
  <2>2. CASE i \in 1 .. Len(waiters)
    BY <1>1, <1>2, <2>2 DEF TypeOK, CallInv, WaitersParked
  <2> QED
    BY <1>2, <2>1, <2>2
<1> QED
  BY <1>1, <1>3, CallStays DEF Park, InCall

LEMMA CallRead ==
    ASSUME TypeOK, CallInv, NEW t \in Thread, Read(t)
    PROVE  CallInv'
<1> DEFINE r == [task[t] EXCEPT !.pc = "unblock"]
<1>1. ~ ReadCount(t) > DataLength
  <2>1. ReadCount(t) \in Nat /\ DataLength \in Int /\ ReadCount(t) <= DataLength
    BY ReadFits DEF Read, TypeOK, Ring, DataLength
  <2> QED
    BY <2>1
<1>2. /\ task[t] \in Task /\ task[t].pc = "test" /\ r \in Task
      /\ r.pc = "unblock" /\ r.end = task[t].end /\ task' = [task EXCEPT ![t] = r]
  BY <1>1 DEF TypeOK, Read, Task, Goto
<1> HIDE DEF r
<1>3. WaitersParked'
  BY <1>2, WaitersKept DEF CallInv, Read
<1> QED
  BY <1>2, <1>3, CallStays DEF Read, InCall

LEMMA CallWrite ==
    ASSUME TypeOK, CallInv, NEW t \in Thread, Write(t)
    PROVE  CallInv'
<1> DEFINE r == [task[t] EXCEPT !.pc = "unblock"]
<1>1. closed["read"] \/ ~ task[t].count > FreeLength
  BY Lengths DEF Write, Condition
<1>2. /\ task[t] \in Task /\ task[t].pc = "test" /\ r \in Task
      /\ r.pc = "unblock" /\ r.end = task[t].end /\ task' = [task EXCEPT ![t] = r]
  BY <1>1 DEF TypeOK, Write, Task, Goto
<1> HIDE DEF r
<1>3. WaitersParked'
  BY <1>2, WaitersKept DEF CallInv, Write
<1> QED
  BY <1>2, <1>3, CallStays DEF Write, InCall

LEMMA CallUnblock ==
    ASSUME TypeOK, CallInv, NEW t \in Thread, Unblock(t)
    PROVE  CallInv'
<1>1. \A u \in Thread :
        /\ task'[u].end = task[u].end
        /\ task'[u].pc = task[u].pc \/ (task[u].pc \in InCall /\ task'[u].pc \in InCall)
  BY DEF TypeOK, Task, Unblock, InCall
<1>2. RefsCount'
  <2> SUFFICES ASSUME NEW e \in End PROVE ref'[e] = fds'[e] + Cardinality(Users(e)')
    BY DEF RefsCount
  <2>1. Users(e)' = Users(e)
    BY <1>1 DEF Users, Uses
  <2> QED
    BY <2>1 DEF CallInv, RefsCount, Unblock
<1>3. CleanedOnce'
  BY <1>1 DEF CallInv, CleanedOnce, InCall, Unblock
<1>4. FreedOnce'
  BY <1>1 DEF CallInv, FreedOnce, InCall, Unblock
<1>5. NeverPanics'
  BY <1>1 DEF CallInv, NeverPanics, InCall
<1>6. WaitersParked'
  BY DEF WaitersParked, Unblock
<1> QED
  BY <1>2, <1>3, <1>4, <1>5, <1>6 DEF CallInv

\* A call takes a reference of a file that has a descriptor.
LEMMA CallEnter ==
    ASSUME TypeOK, CallInv, NEW t \in Thread, NEW e \in End, NEW n \in Count, Enter(t, e, n)
    PROVE  CallInv'
<1> SUFFICES ASSUME NEW r, r = [pc |-> IF n >= RING_SIZE THEN "leave" ELSE "test",
                                end |-> e, count |-> n]
             PROVE  CallInv'
  OBVIOUS
<1>1. /\ task \in [Thread -> Task] /\ task[t].pc = "user" /\ task' = [task EXCEPT ![t] = r]
      /\ r.pc \in {"leave", "test"} /\ r.end = e
  BY DEF TypeOK, Enter
<1>2. task'[t] = r /\ \A u \in Thread : u # t => task'[u] = task[u]
  BY <1>1
<1>3. /\ ref'[e] = ref[e] + 1 /\ \A f \in End : f # e => ref'[f] = ref[f]
      /\ UNCHANGED <<closed, freed, waiters, fds>>
  BY DEF TypeOK, Enter, GetFile
<1>4. ref[e] # 0
  BY NoRefs DEF CallInv, Enter
<1>5. RefsCount'
  <2> SUFFICES ASSUME NEW f \in End PROVE ref'[f] = fds'[f] + Cardinality(Users(f)')
    BY DEF RefsCount
  <2>1. ref[f] = fds[f] + Cardinality(Users(f)) /\ fds[f] \in Int
    BY DEF CallInv, RefsCount, TypeOK
  <2>2. ~Uses(task[t], f) /\ (Uses(r, f) <=> f = e)
    BY <1>1 DEF Uses, InCall
  <2>3. CASE f = e
    <3>1. Cardinality(Users(f)') = Cardinality(Users(f)) + 1 /\ Cardinality(Users(f)) \in Nat
      BY <1>1, <2>2, <2>3, UsersChange
    <3> QED
      BY <1>3, <2>1, <2>3, <3>1
  <2>4. CASE f # e
    <3>1. Cardinality(Users(f)') = Cardinality(Users(f))
      BY <1>1, <2>2, <2>4, UsersChange
    <3> QED
      BY <1>3, <2>1, <2>4, <3>1
  <2> QED
    BY <2>3, <2>4
<1>6. CleanedOnce'
  <2>1. \A u \in Thread : task'[u].pc = "cleanup" => u # t /\ task[u].end # e /\ task[u].end \in End
    BY <1>1, <1>2, <1>4 DEF CallInv, CleanedOnce, Task
  <2>2. ~closed[e]
    BY <1>4 DEF CallInv, CleanedOnce
  <2> QED
    BY <1>2, <1>3, <2>1, <2>2 DEF CallInv, CleanedOnce
<1>7. FreedOnce'
  BY <1>1, <1>2, <1>3 DEF CallInv, FreedOnce
<1>8. NeverPanics'
  BY <1>1, <1>2 DEF CallInv, NeverPanics
<1>9. WaitersParked'
  BY <1>1, <1>3, WaitersKept DEF CallInv
<1> QED
  BY <1>5, <1>6, <1>7, <1>8, <1>9 DEF CallInv

\* file_deref: whoever takes the last reference becomes the one that cleans up.
LEMMA CallDeref ==
    ASSUME TypeOK, CallInv, NEW t \in Thread, NEW e \in End, Deref(t, e),
           task[t].pc \in {"user", "leave"}, ref[e] # 0,
           UNCHANGED <<closed, freed, waiters>>,
           \A f \in End : ref'[f] = fds'[f] + Cardinality(Users(f)')
    PROVE  CallInv'
<1> SUFFICES ASSUME NEW r, task' = [task EXCEPT ![t] = r],
                    \/ ref[e] <= 1 /\ r = [pc |-> "cleanup", end |-> e, count |-> 0]
                    \/ ~ ref[e] <= 1 /\ r = [pc |-> "user", end |-> "read", count |-> 0]
             PROVE  CallInv'
  BY DEF Deref, Done
<1>1. /\ task \in [Thread -> Task] /\ task'[t] = r
      /\ \A u \in Thread : u # t => task'[u] = task[u]
  BY DEF TypeOK
<1>2. /\ ref'[e] = ref[e] - 1 /\ \A f \in End : f # e => ref'[f] = ref[f]
      /\ ref[e] \in Nat
  BY DEF TypeOK, Deref
<1>3. ~closed[e] /\ \A u \in Thread : task[u].pc = "cleanup" => task[u].end # e /\ task[u].end \in End
  BY <1>1 DEF CallInv, CleanedOnce, Task
<1>4. RefsCount'
  BY DEF RefsCount
<1>5. CleanedOnce'
  <2>1. ASSUME NEW u \in Thread, task'[u].pc = "cleanup"
        PROVE  ref'[task'[u].end] = 0 /\ ~closed'[task'[u].end]
    <3>1. CASE u = t
      <4>1. r.end = e /\ ref[e] <= 1
        BY <1>1, <2>1, <3>1
      <4> QED
        BY <1>1, <1>2, <1>3, <3>1, <4>1
    <3>2. CASE u # t
      BY <1>1, <1>2, <1>3, <2>1, <3>2 DEF CallInv, CleanedOnce
    <3> QED
      BY <3>1, <3>2
  <2>2. ASSUME NEW u \in Thread, NEW v \in Thread, task'[u].pc = "cleanup",
               task'[v].pc = "cleanup", task'[u].end = task'[v].end
        PROVE  u = v
    BY <1>1, <1>3, <2>2 DEF CallInv, CleanedOnce
  <2>3. \A f \in End : closed'[f] => ref'[f] = 0
    BY <1>2, <1>3 DEF CallInv, CleanedOnce
  <2> QED
    BY <2>1, <2>2, <2>3 DEF CleanedOnce
<1>6. FreedOnce'
  BY <1>1 DEF CallInv, FreedOnce
<1>7. NeverPanics'
  BY <1>1 DEF CallInv, NeverPanics
<1>8. WaitersParked'
  BY WaitersKept DEF CallInv
<1> QED
  BY <1>4, <1>5, <1>6, <1>7, <1>8 DEF CallInv

\* It leaves the call.
LEMMA DerefTask ==
    ASSUME NEW t \in Thread, NEW e \in End, Deref(t, e)
    PROVE  \E r : task' = [task EXCEPT ![t] = r] /\ r.pc \in {"cleanup", "user"}
<1> DEFINE r == IF ref[e] <= 1 THEN [pc |-> "cleanup", end |-> e, count |-> 0]
                               ELSE [pc |-> "user", end |-> "read", count |-> 0]
<1>1. task' = [task EXCEPT ![t] = r] /\ r.pc \in {"cleanup", "user"}
  BY DEF Deref, Done
<1> HIDE DEF r
<1> QED
  BY <1>1

LEMMA CallLeave ==
    ASSUME TypeOK, CallInv, NEW t \in Thread, Leave(t)
    PROVE  CallInv'
<1> SUFFICES ASSUME NEW e, e = task[t].end PROVE CallInv'
  OBVIOUS
<1>1. task[t] \in Task /\ e \in End /\ task[t].pc = "leave" /\ Deref(t, e)
  BY DEF TypeOK, Task, Leave
<1>2. Uses(task[t], e)
  BY <1>1 DEF Uses, InCall
<1>3. ref[e] # 0
  BY <1>1, <1>2, NoRefs DEF CallInv
<1>4. ASSUME NEW f \in End PROVE ref'[f] = fds'[f] + Cardinality(Users(f)')
  <2>1. PICK r : task' = [task EXCEPT ![t] = r] /\ r.pc \in {"cleanup", "user"}
    BY <1>1, DerefTask
  <2>2. ~Uses(r, f) /\ (Uses(task[t], f) <=> f = e)
    BY <1>1, <2>1 DEF Uses, InCall
  <2>3. /\ ref[f] = fds[f] + Cardinality(Users(f)) /\ fds[f] \in Int /\ fds' = fds
        /\ task \in [Thread -> Task]
        /\ ref'[f] = IF f = e THEN ref[f] - 1 ELSE ref[f]
    BY <1>1 DEF CallInv, RefsCount, TypeOK, Leave, Deref
  <2>4. CASE f = e
    <3>1. Cardinality(Users(f)') = Cardinality(Users(f)) - 1 /\ Cardinality(Users(f)) \in Nat
      BY <2>1, <2>2, <2>3, <2>4, UsersChange
    <3> QED
      BY <2>3, <2>4, <3>1
  <2>5. CASE f # e
    <3>1. Cardinality(Users(f)') = Cardinality(Users(f))
      BY <2>1, <2>2, <2>3, <2>5, UsersChange
    <3> QED
      BY <2>3, <2>5, <3>1
  <2> QED
    BY <2>4, <2>5
<1> QED
  BY <1>1, <1>3, <1>4, CallDeref DEF Leave

LEMMA CallClose ==
    ASSUME TypeOK, CallInv, NEW t \in Thread, NEW e \in End, Close(t, e)
    PROVE  CallInv'
<1>1. task[t].pc = "user" /\ Deref(t, e) /\ fds[e] > 0
  BY DEF Close
<1>2. ref[e] # 0
  BY <1>1, NoRefs DEF CallInv
<1>3. ASSUME NEW f \in End PROVE ref'[f] = fds'[f] + Cardinality(Users(f)')
  <2>1. PICK r : task' = [task EXCEPT ![t] = r] /\ r.pc \in {"cleanup", "user"}
    BY <1>1, DerefTask
  <2>2. ~Uses(r, f) /\ ~Uses(task[t], f)
    BY <1>1, <2>1 DEF Uses, InCall
  <2>3. /\ ref[f] = fds[f] + Cardinality(Users(f)) /\ fds[f] \in Int
        /\ task \in [Thread -> Task]
        /\ ref'[f] = (IF f = e THEN ref[f] - 1 ELSE ref[f])
        /\ fds'[f] = (IF f = e THEN fds[f] - 1 ELSE fds[f])
    BY <1>1 DEF CallInv, RefsCount, TypeOK, Close, Deref
  <2>4. Cardinality(Users(f)') = Cardinality(Users(f)) /\ Cardinality(Users(f)) \in Nat
    BY <2>1, <2>2, <2>3, UsersChange
  <2> QED
    BY <2>3, <2>4
<1> QED
  BY <1>1, <1>2, <1>3, CallDeref DEF Close

LEMMA CallShare ==
    ASSUME TypeOK, CallInv, NEW t \in Thread, NEW e \in End, Share(t, e)
    PROVE  CallInv'
<1>1. /\ UNCHANGED <<closed, freed, waiters, task>> /\ fds[e] > 0
      /\ \A f \in End : /\ ref'[f] = (IF f = e THEN ref[f] + 1 ELSE ref[f])
                        /\ fds'[f] = (IF f = e THEN fds[f] + 1 ELSE fds[f])
  BY DEF Share, TypeOK
<1>2. ref[e] # 0
  BY <1>1, NoRefs DEF CallInv
<1>3. RefsCount'
  <2> SUFFICES ASSUME NEW f \in End PROVE ref'[f] = fds'[f] + Cardinality(Users(f)')
    BY DEF RefsCount
  <2>1. ref[f] = fds[f] + Cardinality(Users(f)) /\ fds[f] \in Int
    BY DEF CallInv, RefsCount, TypeOK
  <2>2. Users(f)' = Users(f) /\ IsFiniteSet(Users(f))
    BY <1>1, FdAssumption, FS_Subset DEF Users
  <2>3. Cardinality(Users(f)) \in Nat
    BY <2>2, FS_CardinalityType
  <2> QED
    BY <1>1, <2>1, <2>2, <2>3
<1>4. CleanedOnce'
  BY <1>1, <1>2 DEF CallInv, CleanedOnce, TypeOK, Task
<1>5. FreedOnce' /\ NeverPanics' /\ WaitersParked'
  BY <1>1 DEF CallInv, FreedOnce, NeverPanics, WaitersParked
<1> QED
  BY <1>3, <1>4, <1>5 DEF CallInv

\* The second cleanup goes on to free the pipe.
LEMMA CallCleanup ==
    ASSUME TypeOK, CallInv, NEW t \in Thread, Cleanup(t)
    PROVE  CallInv'
<1> SUFFICES ASSUME NEW e, NEW r, e = task[t].end, task' = [task EXCEPT ![t] = r],
                    \/ /\ \A o \in End \ {e} : closed[o]
                       /\ r = [task[t] EXCEPT !.pc = "free"]
                    \/ r = [pc |-> "user", end |-> "read", count |-> 0]
             PROVE  CallInv'
  BY DEF Cleanup, Goto, Done
<1>1. /\ task \in [Thread -> Task] /\ task[t] \in Task /\ task'[t] = r /\ e \in End
      /\ \A u \in Thread : u # t => task'[u] = task[u]
  BY DEF TypeOK, Task
<1>2. /\ task[t].pc = "cleanup" /\ UNCHANGED <<freed, waiters, fds, ref>>
      /\ closed'[e] = TRUE /\ \A f \in End : f # e => closed'[f] = closed[f]
  BY <1>1 DEF Cleanup, TypeOK
<1>3. r.pc \in {"free", "user"} /\ (r.pc = "free" => \A o \in End \ {e} : closed[o])
  BY <1>1 DEF Task
<1>4. ref[e] = 0 /\ ~closed[e] /\ ~freed
  BY <1>1, <1>2 DEF CallInv, CleanedOnce, FreedOnce
<1>5. RefsCount'
  <2> SUFFICES ASSUME NEW f \in End PROVE ref'[f] = fds'[f] + Cardinality(Users(f)')
    BY DEF RefsCount
  <2>1. ~Uses(task[t], f) /\ ~Uses(r, f)
    BY <1>2, <1>3 DEF Uses, InCall
  <2>2. Cardinality(Users(f)') = Cardinality(Users(f))
    BY <1>1, <2>1, UsersChange
  <2> QED
    BY <1>2, <2>2 DEF CallInv, RefsCount
<1>6. CleanedOnce'
  <2>1. \A u \in Thread : task'[u].pc = "cleanup" => u # t /\ task[u].pc = "cleanup" /\ task'[u] = task[u]
    BY <1>1, <1>3
  <2>2. \A u \in Thread : task'[u].pc = "cleanup" => task[u].end # e /\ task[u].end \in End
    BY <1>1, <1>2, <2>1 DEF CallInv, CleanedOnce, Task
  <2>3. \A f \in End : closed'[f] => ref'[f] = 0
    BY <1>2, <1>4 DEF CallInv, CleanedOnce
  <2> QED
    BY <1>2, <2>1, <2>2, <2>3 DEF CallInv, CleanedOnce
<1>7. FreedOnce'
  <2>1. \A u \in Thread : task[u].pc # "free"
    BY <1>1, <1>4 DEF CallInv, FreedOnce
  <2> QED
    BY <1>1, <1>2, <1>3, <1>4, <2>1 DEF FreedOnce
<1>8. NeverPanics'
  BY <1>1, <1>3 DEF CallInv, NeverPanics
<1>9. WaitersParked'
  BY <1>2, WaitersKept DEF CallInv
<1> QED
  BY <1>5, <1>6, <1>7, <1>8, <1>9 DEF CallInv

\* Nobody waits any more when the pipe is freed.
LEMMA CallFree ==
    ASSUME TypeOK, CallInv, NEW t \in Thread, Free(t)
    PROVE  CallInv'
<1>1. task[t].pc = "free" /\ ~freed /\ \A e \in End : closed[e] /\ ref[e] = 0
  BY DEF Free, CallInv, FreedOnce, CleanedOnce
<1>2. \A u \in Thread : task[u].pc # "parked"
  <2>1. \A u \in Thread : task[u].end \in End /\ ~Uses(task[u], task[u].end)
    BY <1>1, NoRefs DEF CallInv, TypeOK, Task
  <2> QED
    BY <2>1 DEF Uses, InCall
<1>3. waiters = <<>>
  <2>0. waiters \in Seq(Thread)
    BY DEF TypeOK
  <2>1. ~ Len(waiters) > 0
    <3> SUFFICES ASSUME Len(waiters) > 0 PROVE FALSE
      OBVIOUS
    <3>1. 1 \in 1 .. Len(waiters) /\ waiters[1] \in Thread
      BY <2>0
    <3> QED
      BY <1>2, <3>1 DEF CallInv, WaitersParked
  <2> QED
    BY <2>0, <2>1, EmptySeq
<1> SUFFICES ASSUME NEW r, r = [pc |-> "user", end |-> "read", count |-> 0],
                    task' = [task EXCEPT ![t] = r], freed' = TRUE
             PROVE  CallInv'
  BY <1>3 DEF Free, Done
<1>4. /\ task \in [Thread -> Task] /\ task'[t] = r
      /\ \A u \in Thread : u # t => task'[u] = task[u]
      /\ UNCHANGED <<closed, waiters, fds, ref>>
  BY DEF TypeOK, Free
<1>5. RefsCount'
  <2> SUFFICES ASSUME NEW f \in End PROVE ref'[f] = fds'[f] + Cardinality(Users(f)')
    BY DEF RefsCount
  <2>1. ~Uses(task[t], f) /\ ~Uses(r, f)
    BY <1>1 DEF Uses, InCall
  <2>2. Cardinality(Users(f)') = Cardinality(Users(f))
    BY <1>4, <2>1, UsersChange
  <2> QED
    BY <1>4, <2>2 DEF CallInv, RefsCount
<1>6. CleanedOnce'
  BY <1>4 DEF CallInv, CleanedOnce
<1>7. FreedOnce'
  BY <1>1, <1>4 DEF CallInv, FreedOnce
<1>8. NeverPanics'
  BY <1>4 DEF CallInv, NeverPanics
<1>9. WaitersParked'
  BY <1>1, <1>4, WaitersKept DEF CallInv
<1> QED
  BY <1>5, <1>6, <1>7, <1>8, <1>9 DEF CallInv

-----------------------------------------------------------------------------
(* Bytes *)

\* a modulo m, for a that is less than m away from 0 .. m - 1
Mod(a, m) == IF a < 0 THEN a + m ELSE IF a < m THEN a ELSE a - m

LEMMA ModValue ==
    ASSUME NEW m \in Nat \ {0}, NEW a \in Int, -m <= a, a < m + m
    PROVE  a % m = Mod(a, m) /\ Mod(a, m) \in 0 .. m - 1
<1>1. a >= 0 /\ a < m => a % m = a
  OBVIOUS
<1>2. a >= m => a % m = a - m
  OBVIOUS
<1>3. a < 0 => a % m = a + m
  OBVIOUS
<1> QED
  BY <1>1, <1>2, <1>3 DEF Mod

\* Ring r holds the bytes after the first g, modulo Values.
Content(r, g) ==
    /\ r.writeIndex = Mod(r.readIndex + r.dataLength, RING_SIZE)
    /\ \A i \in 1 .. r.dataLength :
        r.buffer[Mod(r.readIndex + i - 1, RING_SIZE)] = Mod(g + i, Values)

\* A function on 1 .. n is a sequence.
LEMMA FunctionSeq ==
    ASSUME NEW S, NEW n \in Nat, NEW f \in [1 .. n -> S]
    PROVE  f \in Seq(S) /\ Len(f) = n
OBVIOUS

\* The bytes after the first a
Follows(data, a) == \A i \in 1 .. Len(data) : data[i] = Mod(a + i, Values)

\* The fields of a ring
LEMMA RingFields ==
    ASSUME NEW r \in Ring
    PROVE  /\ r.buffer \in [Index -> Byte]
           /\ r.readIndex \in Int /\ 0 <= r.readIndex /\ r.readIndex < RING_SIZE
           /\ r.writeIndex \in Int /\ 0 <= r.writeIndex /\ r.writeIndex < RING_SIZE
           /\ r.dataLength \in Nat /\ r.dataLength <= RING_SIZE
           /\ RING_SIZE \in Nat /\ RING_SIZE > 0 /\ Values \in Nat /\ Values > RING_SIZE
<1>1. /\ r.readIndex \in Index /\ r.writeIndex \in Index
      /\ r.dataLength \in 0 .. RING_SIZE /\ r.buffer \in [Index -> Byte]
  BY DEF Ring
<1> QED
  BY <1>1, RingAssumption, ValuesAssumption DEF Index

\* A ring of m bytes with d of them in use from rd on has room for n at w.
Fits(m, rd, w, d, n) ==
    /\ m \in Nat /\ rd \in Nat /\ w \in Nat /\ d \in Nat /\ n \in Nat
    /\ rd < m /\ w < m /\ d + n <= m
    /\ w = Mod(rd + d, m)

LEMMA WriteIndex ==
    ASSUME NEW m, NEW rd, NEW w, NEW d, NEW n, Fits(m, rd, w, d, n)
    PROVE  (w + n) % m = Mod(rd + (d + n), m) /\ (w + n) % m \in 0 .. m - 1
<1>1. m \in Nat \ {0} /\ w + n \in Int /\ -m <= w + n /\ w + n < m + m
  BY DEF Fits
<1>2. (w + n) % m = Mod(w + n, m) /\ Mod(w + n, m) \in 0 .. m - 1
  BY <1>1, ModValue
<1>3. Mod(w + n, m) = Mod(rd + (d + n), m)
  BY DEF Fits, Mod
<1> QED
  BY <1>2, <1>3

\* The old bytes stay, and the new ones follow.
LEMMA WritePlaces ==
    ASSUME NEW m, NEW rd, NEW w, NEW d, NEW n, Fits(m, rd, w, d, n),
           NEW i \in 1 .. d + n, NEW k, k = Mod(rd + i - 1, m)
    PROVE  /\ k \in Nat /\ k < m
           /\ i <= d => ~(k >= w /\ k < w + n) /\ ~(k < n - (m - w))
           /\ i > d /\ k >= w => k - w + 1 = i - d /\ k < w + n
           /\ i > d /\ ~(k >= w) => m - w + k + 1 = i - d /\ k < n - (m - w)
<1>1. /\ m \in Nat /\ rd \in Nat /\ w \in Nat /\ d \in Nat /\ n \in Nat
      /\ rd < m /\ w < m /\ d + n <= m /\ i \in Nat /\ 1 <= i /\ i <= d + n
  BY DEF Fits
<1>2. \/ rd + d < m /\ w = rd + d
      \/ rd + d >= m /\ w = rd + d - m
  BY <1>1 DEF Fits, Mod
<1>3. /\ k \in Nat
      /\ \/ rd + i - 1 < m /\ k = rd + i - 1
         \/ rd + i - 1 >= m /\ k = rd + i - 1 - m
  BY <1>1 DEF Mod
<1> QED
  BY <1>1, <1>2, <1>3

\* What ring_write leaves in the buffer
Put(buf, data, m, w, n) ==
    [k \in Index |-> IF k >= w /\ k < w + n THEN data[k - w + 1]
                     ELSE IF k < n - (m - w) THEN data[m - w + k + 1] ELSE buf[k]]

LEMMA PutBytes ==
    ASSUME NEW buf \in [Index -> Byte], NEW rd, NEW w, NEW d, NEW n,
           Fits(RING_SIZE, rd, w, d, n), NEW data \in Seq(Byte), Len(data) = n
    PROVE  Put(buf, data, RING_SIZE, w, n) \in [Index -> Byte]
<1> SUFFICES ASSUME NEW k \in Index PROVE Put(buf, data, RING_SIZE, w, n)[k] \in Byte
  BY DEF Put
<1>1. k \in Nat /\ k < RING_SIZE /\ RING_SIZE \in Nat /\ w \in Nat /\ n \in Nat
  BY DEF Index, Fits
<1>2. \A i \in 1 .. n : data[i] \in Byte
  OBVIOUS
<1>3. CASE k >= w /\ k < w + n
  <2>1. k - w + 1 \in 1 .. n
    BY <1>1, <1>3
  <2> QED
    BY <1>2, <1>3, <2>1 DEF Put
<1>4. CASE ~(k >= w /\ k < w + n) /\ k < n - (RING_SIZE - w)
  <2>1. RING_SIZE - w + k + 1 \in 1 .. n
    <3>1. w < RING_SIZE
      BY DEF Fits
    <3> QED
      BY <1>1, <1>4, <3>1
  <2> QED
    BY <1>2, <1>4, <2>1 DEF Put
<1>5. CASE ~(k >= w /\ k < w + n) /\ ~(k < n - (RING_SIZE - w))
  BY <1>5 DEF Put
<1> QED
  BY <1>3, <1>4, <1>5

\* ring_write appends the data, in one piece or in two.
LEMMA WriteContent ==
    ASSUME NEW r \in Ring, NEW g \in Byte, Content(r, g),
           NEW n \in Nat, n <= RING_SIZE - r.dataLength,
           NEW data \in Seq(Byte), Len(data) = n, Follows(data, g + r.dataLength)
    PROVE  /\ RingWrite(r, data) \in Ring
           /\ RingWrite(r, data).dataLength = r.dataLength + n
           /\ Content(RingWrite(r, data), g)
<1> SUFFICES ASSUME NEW buf, NEW rd, NEW w, NEW d, NEW m, NEW s,
                    buf = r.buffer, rd = r.readIndex, w = r.writeIndex, d = r.dataLength,
                    m = RING_SIZE, s = RingWrite(r, data)
             PROVE  s \in Ring /\ s.dataLength = d + n /\ Content(s, g)
  OBVIOUS
<1>0. Fits(m, rd, w, d, n) /\ buf \in [Index -> Byte] /\ g \in Nat /\ d \in Nat /\ m \in Nat
  BY RingFields, ValuesAssumption DEF Fits, Content, Byte
<1>1. s = [buffer |-> Put(buf, data, m, w, n), readIndex |-> rd,
           writeIndex |-> (w + n) % m, dataLength |-> d + n]
  BY DEF RingWrite, Ring, Put
<1>2. Put(buf, data, m, w, n) \in [Index -> Byte]
  BY <1>0, PutBytes
<1>3. (w + n) % m = Mod(rd + (d + n), m) /\ (w + n) % m \in 0 .. m - 1
  BY <1>0, WriteIndex
<1>4. s \in Ring
  <2>1. (w + n) % m \in Index
    BY <1>3 DEF Index
  <2>2. rd \in Index
    BY <1>0 DEF Index, Fits
  <2>3. d + n \in 0 .. RING_SIZE
    BY <1>0 DEF Fits
  <2> QED
    BY <1>1, <1>2, <2>1, <2>2, <2>3 DEF Ring
<1>5. ASSUME NEW i \in 1 .. d + n
      PROVE  Put(buf, data, m, w, n)[Mod(rd + i - 1, m)] = Mod(g + i, Values)
  <2> SUFFICES ASSUME NEW k, k = Mod(rd + i - 1, m)
               PROVE  Put(buf, data, m, w, n)[k] = Mod(g + i, Values)
    OBVIOUS
  <2>1. /\ k \in Nat /\ k < m
        /\ i <= d => ~(k >= w /\ k < w + n) /\ ~(k < n - (m - w))
        /\ i > d /\ k >= w => k - w + 1 = i - d /\ k < w + n
        /\ i > d /\ ~(k >= w) => m - w + k + 1 = i - d /\ k < n - (m - w)
    BY <1>0, WritePlaces
  <2>2. k \in Index
    BY <1>0, <2>1 DEF Index
  <2>3. CASE i <= d
    <3>1. Put(buf, data, m, w, n)[k] = buf[k]
      BY <2>1, <2>2, <2>3 DEF Put
    <3>2. i \in 1 .. d
      BY <1>0, <2>3
    <3> QED
      BY <3>1, <3>2 DEF Content
  <2>4. CASE i > d
    <3>0. i - d \in 1 .. Len(data) /\ (g + d) + (i - d) = g + i
      BY <1>0, <2>4
    <3>1. data[i - d] = Mod(g + i, Values)
      BY <3>0 DEF Follows
    <3>2. Put(buf, data, m, w, n)[k] = data[i - d]
      BY <2>1, <2>2, <2>4 DEF Put
    <3> QED
      BY <3>1, <3>2
  <2> QED
    BY <1>0, <2>3, <2>4
<1> QED
  BY <1>1, <1>3, <1>4, <1>5 DEF Content

\* ring_read returns the oldest bytes and leaves the others.
LEMMA ReadContent ==
    ASSUME NEW r \in Ring, NEW g \in Byte, Content(r, g), NEW n \in Nat, n <= r.dataLength
    PROVE  /\ RingData(r, n) \in Seq(Byte) /\ Len(RingData(r, n)) = n
           /\ \A i \in 1 .. n : RingData(r, n)[i] = Mod(g + i, Values)
           /\ RingConsume(r, n) \in Ring
           /\ RingConsume(r, n).dataLength = r.dataLength - n
           /\ Content(RingConsume(r, n), Mod(g + n, Values))
<1> SUFFICES ASSUME NEW buf, NEW rd, NEW w, NEW d, NEW s,
                    buf = r.buffer, rd = r.readIndex, w = r.writeIndex, d = r.dataLength,
                    s = RingConsume(r, n)
             PROVE  /\ RingData(r, n) \in Seq(Byte) /\ Len(RingData(r, n)) = n
                    /\ \A i \in 1 .. n : RingData(r, n)[i] = Mod(g + i, Values)
                    /\ s \in Ring /\ s.dataLength = d - n /\ Content(s, Mod(g + n, Values))
  OBVIOUS
<1>0. /\ buf \in [Index -> Byte] /\ rd \in Int /\ 0 <= rd /\ rd < RING_SIZE
      /\ w \in Int /\ 0 <= w /\ w < RING_SIZE /\ d \in Nat /\ d <= RING_SIZE
      /\ RING_SIZE \in Nat /\ RING_SIZE > 0 /\ Values \in Nat /\ Values > RING_SIZE
      /\ n <= d /\ g \in Int /\ 0 <= g /\ g < Values
  BY RingFields, ValuesAssumption DEF Byte
<1>1. /\ w = Mod(rd + d, RING_SIZE)
      /\ \A i \in 1 .. d : buf[Mod(rd + i - 1, RING_SIZE)] = Mod(g + i, Values)
  BY DEF Content
<1>2. /\ s.buffer = buf /\ s.readIndex = (rd + n) % RING_SIZE /\ s.writeIndex = w
      /\ s.dataLength = d - n
      /\ s = [buffer |-> buf, readIndex |-> (rd + n) % RING_SIZE, writeIndex |-> w,
              dataLength |-> d - n]
  BY DEF RingConsume, Ring
<1>3. /\ (rd + n) % RING_SIZE = Mod(rd + n, RING_SIZE)
      /\ Mod(rd + n, RING_SIZE) \in 0 .. RING_SIZE - 1
  BY <1>0, ModValue
<1>4. s \in Ring
  <2>1. (rd + n) % RING_SIZE \in Index /\ w \in Index /\ d - n \in 0 .. RING_SIZE
    BY <1>0, <1>3 DEF Index
  <2> QED
    BY <1>0, <1>2, <2>1 DEF Ring
<1>5. ASSUME NEW i \in 1 .. n
      PROVE  /\ RingData(r, n)[i] = buf[Mod(rd + i - 1, RING_SIZE)]
             /\ RingData(r, n)[i] = Mod(g + i, Values)
  <2>0. i \in Int /\ 1 <= i /\ i <= n /\ i \in 1 .. d
    BY <1>0
  <2>1. CASE i <= RING_SIZE - rd
    <3>1. RingData(r, n)[i] = buf[rd + i - 1]
      BY <2>1 DEF RingData
    <3>2. rd + i - 1 = Mod(rd + i - 1, RING_SIZE)
      BY <1>0, <2>0, <2>1 DEF Mod
    <3> QED
      BY <1>1, <2>0, <3>1, <3>2
  <2>2. CASE ~(i <= RING_SIZE - rd)
    <3>1. RingData(r, n)[i] = buf[i - (RING_SIZE - rd) - 1]
      BY <2>2 DEF RingData
    <3>2. i - (RING_SIZE - rd) - 1 = Mod(rd + i - 1, RING_SIZE)
      BY <1>0, <2>0, <2>2 DEF Mod
    <3> QED
      BY <1>1, <2>0, <3>1, <3>2
  <2> QED
    BY <2>1, <2>2
<1>6. RingData(r, n) \in Seq(Byte) /\ Len(RingData(r, n)) = n
  <2>1. ASSUME NEW i \in 1 .. n PROVE RingData(r, n)[i] \in Byte
    <3>1. i \in Int /\ 1 <= i /\ i <= n
      BY <1>0
    <3>2. Mod(rd + i - 1, RING_SIZE) \in Index
      BY <1>0, <3>1 DEF Mod, Index
    <3> QED
      BY <1>0, <1>5, <3>2
  <2>2. RingData(r, n) = [i \in 1 .. n |-> RingData(r, n)[i]]
    BY DEF RingData
  <2> QED
    BY <2>1, <2>2
<1>7. s.writeIndex = Mod(s.readIndex + s.dataLength, RING_SIZE)
  <2>1. \/ rd + d < RING_SIZE /\ w = rd + d
        \/ rd + d >= RING_SIZE /\ w = rd + d - RING_SIZE
    BY <1>0, <1>1 DEF Mod
  <2>2. \/ rd + n < RING_SIZE /\ s.readIndex = rd + n
        \/ rd + n >= RING_SIZE /\ s.readIndex = rd + n - RING_SIZE
    BY <1>0, <1>2, <1>3 DEF Mod
  <2>3. Mod(s.readIndex + (d - n), RING_SIZE) = w
    <3>1. CASE rd + n < RING_SIZE
      <4>1. s.readIndex + (d - n) = rd + d
        BY <1>0, <2>2, <3>1
      <4> QED
        BY <1>1, <4>1
    <3>2. CASE rd + n >= RING_SIZE
      <4>1. s.readIndex + (d - n) = w /\ w < RING_SIZE /\ w >= 0
        BY <1>0, <2>1, <2>2, <3>2
      <4> QED
        BY <1>0, <4>1 DEF Mod
    <3> QED
      BY <1>0, <3>1, <3>2
  <2> QED
    BY <1>2, <2>3
<1>8. ASSUME NEW i \in 1 .. d - n
      PROVE  s.buffer[Mod(s.readIndex + i - 1, RING_SIZE)] = Mod(Mod(g + n, Values) + i, Values)
  <2>1. i \in Int /\ 1 <= i /\ i <= d - n /\ n + i \in 1 .. d
    BY <1>0
  <2>2. Mod(s.readIndex + i - 1, RING_SIZE) = Mod(rd + (n + i) - 1, RING_SIZE)
    BY <1>0, <1>2, <1>3, <2>1 DEF Mod
  <2>3. Mod(Mod(g + n, Values) + i, Values) = Mod(g + (n + i), Values)
    BY <1>0, <2>1 DEF Mod
  <2> QED
    BY <1>1, <1>2, <2>1, <2>2, <2>3
<1> QED
  BY <1>2, <1>4, <1>5, <1>6, <1>7, <1>8 DEF Content

\* The pipe as a queue of numbered bytes
BytesInv ==
    /\ Content(ring, got)
    /\ sent = Mod(got + ring.dataLength, Values)
    /\ Len(delivered) <= RING_SIZE
    /\ \A i \in 1 .. Len(delivered) : delivered[i] = Mod(got - Len(delivered) + i, Values)

\* Bytes a + i and so on are less than Values behind byte a.
Near(v, a, i) == v \in Nat \ {0} /\ a \in Nat /\ i \in Nat /\ a + i < v + v

LEMMA AddBytes ==
    ASSUME NEW v, NEW a, NEW i, Near(v, a, i)
    PROVE  (Mod(a, v) + i) % v = Mod(a + i, v) /\ (Mod(a, v) + i) % v \in 0 .. v - 1
<1>1. v \in Nat \ {0} /\ a \in Nat /\ i \in Nat /\ a + i < v + v
  BY DEF Near
<1>2. Mod(a, v) \in Nat /\ Mod(a, v) + i < v + v
  BY <1>1 DEF Mod
<1>3. Mod(a, v) + i \in Int /\ -v <= Mod(a, v) + i
  BY <1>1, <1>2
<1>4. /\ (Mod(a, v) + i) % v = Mod(Mod(a, v) + i, v)
      /\ Mod(Mod(a, v) + i, v) \in 0 .. v - 1
  BY <1>1, <1>2, <1>3, ModValue
<1>5. Mod(Mod(a, v) + i, v) = Mod(a + i, v)
  BY <1>1 DEF Mod
<1> QED
  BY <1>4, <1>5

\* After n more bytes are read, byte g + i is the one n - i before the last.
Passed(v, g, n, d) == v \in Nat /\ g \in Nat /\ n \in Nat /\ d \in Nat /\ g < v /\ n <= d /\ d < v

LEMMA PassBytes ==
    ASSUME NEW v, NEW g, NEW n, NEW d, Passed(v, g, n, d)
    PROVE  /\ (g + n) % v = Mod(g + n, v) /\ (g + n) % v \in 0 .. v - 1
           /\ Mod(g + d, v) = Mod(Mod(g + n, v) + (d - n), v)
           /\ \A i \in 1 .. n : Mod(g + i, v) = Mod(Mod(g + n, v) - n + i, v)
<1>1. v \in Nat /\ g \in Nat /\ n \in Nat /\ d \in Nat /\ g < v /\ n <= d /\ d < v
  BY DEF Passed
<1>2. (g + n) % v = Mod(g + n, v) /\ (g + n) % v \in 0 .. v - 1
  <2>1. v \in Nat \ {0} /\ g + n \in Int /\ -v <= g + n /\ g + n < v + v
    BY <1>1
  <2> QED
    BY <2>1, ModValue
<1>3. Mod(g + d, v) = Mod(Mod(g + n, v) + (d - n), v)
  BY <1>1 DEF Mod
<1>4. ASSUME NEW i \in 1 .. n PROVE Mod(g + i, v) = Mod(Mod(g + n, v) - n + i, v)
  BY <1>1, <1>4 DEF Mod
<1> QED
  BY <1>2, <1>3, <1>4

\* A write continues the numbering.
LEMMA BytesWrite ==
    ASSUME TypeOK, BytesInv, NEW t \in Thread, Write(t)
    PROVE  ring' \in Ring /\ sent' \in Byte /\ BytesInv'
<1>1. CASE UNCHANGED <<ring, sent>>
  BY <1>1 DEF Write, TypeOK, BytesInv
<1>2. CASE ~UNCHANGED <<ring, sent>>
  <2> SUFFICES ASSUME NEW n, NEW data, NEW d, n = task[t].count, d = ring.dataLength,
                      data = [i \in 1 .. n |-> (sent + i) % Values]
               PROVE  ring' \in Ring /\ sent' \in Byte /\ BytesInv'
    OBVIOUS
  <2>1. /\ ring' = RingWrite(ring, data) /\ sent' = (sent + n) % Values
        /\ ~ n > FreeLength /\ UNCHANGED <<got, delivered>>
    BY <1>2 DEF Write
  <2>2. /\ ring \in Ring /\ got \in Byte /\ sent = Mod(got + d, Values)
        /\ n \in Nat /\ d \in Nat /\ FreeLength = RING_SIZE - d /\ Content(ring, got)
    BY Lengths DEF TypeOK, BytesInv, DataLength
  <2>3. n <= RING_SIZE - d /\ RING_SIZE \in Nat /\ Values \in Nat /\ Values > RING_SIZE /\ got \in Nat /\ got < Values
    BY <2>1, <2>2, RingAssumption, ValuesAssumption DEF Byte
  <2>4. ASSUME NEW i \in 0 .. n
        PROVE  /\ (sent + i) % Values = Mod((got + d) + i, Values)
               /\ (sent + i) % Values \in Byte
    <3>1. Near(Values, got + d, i)
      BY <2>2, <2>3 DEF Near
    <3> QED
      BY <2>2, <3>1, AddBytes DEF Byte
  <2>5. data \in Seq(Byte) /\ Len(data) = n /\ Follows(data, got + d)
    <3>1. \A i \in 1 .. n : data[i] = Mod((got + d) + i, Values) /\ data[i] \in Byte
      BY <2>2, <2>4
    <3>2. data \in Seq(Byte) /\ Len(data) = n
      <4>1. data \in [1 .. n -> Byte]
        BY <3>1
      <4> QED
        BY <2>2, <4>1, FunctionSeq
    <3> QED
      BY <3>1, <3>2 DEF Follows
  <2>6. /\ ring' \in Ring /\ ring'.dataLength = d + n /\ Content(ring', got)
    BY <2>1, <2>2, <2>3, <2>5, WriteContent
  <2>7. sent' = Mod(got + (d + n), Values) /\ sent' \in Byte
    <3>1. (got + d) + n = got + (d + n) /\ n \in 0 .. n
      BY <2>2, <2>3
    <3> QED
      BY <2>1, <2>4, <3>1
  <2> QED
    BY <2>1, <2>6, <2>7 DEF BytesInv
<1> QED
  BY <1>1, <1>2

\* A read returns the bytes in their order.
LEMMA BytesRead ==
    ASSUME TypeOK, BytesInv, NEW t \in Thread, Read(t)
    PROVE  ring' \in Ring /\ got' \in Byte /\ delivered' \in Seq(Byte) /\ BytesInv'
<1> SUFFICES ASSUME NEW n, NEW d, n = ReadCount(t), d = ring.dataLength
             PROVE  ring' \in Ring /\ got' \in Byte /\ delivered' \in Seq(Byte) /\ BytesInv'
  OBVIOUS
<1>1. /\ n \in Nat /\ d \in Nat /\ n <= d /\ d <= RING_SIZE
  BY ReadFits, Lengths DEF Read, DataLength
<1>2. /\ ring' = RingConsume(ring, n) /\ got' = (got + n) % Values
      /\ delivered' = RingData(ring, n) /\ sent' = sent
  BY <1>1 DEF Read, DataLength
<1>3. /\ ring \in Ring /\ got \in Byte /\ sent = Mod(got + d, Values) /\ Content(ring, got)
      /\ RING_SIZE \in Nat
  BY RingAssumption DEF TypeOK, BytesInv
<1>4. Passed(Values, got, n, d)
  BY <1>1, <1>3, ValuesAssumption DEF Passed, Byte
<1>5. /\ got' = Mod(got + n, Values) /\ got' \in Byte
      /\ Mod(got + d, Values) = Mod(got' + (d - n), Values)
      /\ \A i \in 1 .. n : Mod(got + i, Values) = Mod(got' - n + i, Values)
  BY <1>2, <1>4, PassBytes DEF Byte
<1>6. /\ delivered' \in Seq(Byte) /\ Len(delivered') = n
      /\ \A i \in 1 .. n : delivered'[i] = Mod(got + i, Values)
      /\ ring' \in Ring /\ ring'.dataLength = d - n /\ Content(ring', Mod(got + n, Values))
  BY <1>1, <1>2, <1>3, ReadContent
<1> QED
  BY <1>1, <1>2, <1>3, <1>5, <1>6 DEF BytesInv

-----------------------------------------------------------------------------
(* The pipe *)

IndInv == TypeOK /\ CallInv /\ BytesInv

\* The invariant holds of a new pipe.
LEMMA IndInit == Init => IndInv
<1> SUFFICES ASSUME Init PROVE IndInv
  OBVIOUS
<1>0. /\ RING_SIZE \in Nat /\ RING_SIZE > 0 /\ Values \in Nat /\ Values > RING_SIZE
      /\ MaxFd \in Nat /\ MaxFd > 0
  BY RingAssumption, ValuesAssumption, FdAssumption
<1>1. TypeOK
  <2>1. 0 \in Index /\ 0 \in Byte /\ 0 \in 0 .. RING_SIZE /\ 1 \in 0 .. MaxFd
    BY <1>0 DEF Index, Byte
  <2>2. ring \in Ring
    BY <2>1 DEF Init, Ring
  <2>3. task \in [Thread -> Task]
    BY DEF Init, Task, End
  <2> QED
    BY <2>1, <2>2, <2>3 DEF Init, TypeOK
<1>2. \A t \in Thread : task[t].pc = "user"
  BY DEF Init
<1>3. CallInv
  <2>1. RefsCount
    <3> SUFFICES ASSUME NEW e \in End PROVE ref[e] = fds[e] + Cardinality(Users(e))
      BY DEF RefsCount
    <3>1. Users(e) = {}
      BY <1>2 DEF Users, Uses, InCall
    <3> QED
      BY <3>1, FS_EmptySet DEF Init
  <2>2. CleanedOnce /\ FreedOnce /\ NeverPanics
    BY <1>2 DEF Init, CleanedOnce, FreedOnce, NeverPanics
  <2>3. WaitersParked
    BY DEF Init, WaitersParked
  <2> QED
    BY <2>1, <2>2, <2>3 DEF CallInv
<1>4. BytesInv
  <2>1. ring.readIndex = 0 /\ ring.writeIndex = 0 /\ ring.dataLength = 0 /\ got = 0 /\ sent = 0
    BY DEF Init
  <2>2. Mod(0, RING_SIZE) = 0 /\ Mod(0, Values) = 0
    BY <1>0 DEF Mod
  <2>3. delivered = <<>> /\ Len(delivered) = 0
    BY DEF Init
  <2> QED
    BY <1>0, <2>1, <2>2, <2>3 DEF BytesInv, Content
<1> QED
  BY <1>1, <1>3, <1>4 DEF IndInv

\* The types of a step that leaves the ring alone
LEMMA TypesKept ==
    ASSUME TypeOK, BytesInv, UNCHANGED <<ring, sent, got, delivered>>,
           closed' \in [End -> BOOLEAN], freed' \in BOOLEAN, waiters' \in Seq(Thread),
           fds' \in [End -> 0 .. MaxFd], ref' \in [End -> Nat], task' \in [Thread -> Task]
    PROVE  TypeOK' /\ BytesInv'
BY DEF TypeOK, BytesInv

\* The place of a thread changes, and nothing else of its call.
LEMMA GotoType ==
    ASSUME task \in [Thread -> Task], NEW t \in Thread,
           NEW pc \in {"test", "block", "parked", "unblock", "leave", "free", "panic"}
    PROVE  Goto(t, pc) \in [Thread -> Task]
BY DEF Goto, Task

\* Every step keeps it.
LEMMA IndNext == IndInv /\ [Next]_vars => IndInv'
<1> SUFFICES ASSUME IndInv, [Next]_vars PROVE IndInv'
  OBVIOUS
<1>0. TypeOK /\ CallInv /\ BytesInv
  BY DEF IndInv
<1>a. /\ closed \in [End -> BOOLEAN] /\ freed \in BOOLEAN /\ waiters \in Seq(Thread)
      /\ fds \in [End -> 0 .. MaxFd] /\ ref \in [End -> Nat] /\ task \in [Thread -> Task]
  BY <1>0 DEF TypeOK
<1>b. [pc |-> "user", end |-> "read", count |-> 0] \in Task
  BY DEF Task, End
<1>c. ASSUME NEW t \in Thread, NEW e \in End, Deref(t, e), ref[e] # 0
      PROVE  ref' \in [End -> Nat] /\ task' \in [Thread -> Task]
  <2>1. ref[e] - 1 \in Nat
    BY <1>a, <1>c
  <2>2. [pc |-> "cleanup", end |-> e, count |-> 0] \in Task
    BY DEF Task
  <2> QED
    BY <1>a, <1>b, <1>c, <2>1, <2>2 DEF Deref, Done
<1>1. ASSUME NEW t \in Thread, NEW e \in End, NEW n \in Count, Enter(t, e, n) PROVE IndInv'
  <2>1. CallInv'
    BY <1>0, <1>1, CallEnter
  <2>2. [pc |-> IF n >= RING_SIZE THEN "leave" ELSE "test", end |-> e, count |-> n] \in Task
    BY DEF Task
  <2>3. task' \in [Thread -> Task] /\ ref' \in [End -> Nat]
    BY <1>a, <1>1, <2>2 DEF Enter, GetFile
  <2>4. TypeOK' /\ BytesInv'
    BY <1>0, <1>a, <1>1, <2>3, TypesKept DEF Enter
  <2> QED
    BY <2>1, <2>4 DEF IndInv
<1>2. ASSUME NEW t \in Thread, NEW e \in End, Close(t, e) PROVE IndInv'
  <2>1. CallInv'
    BY <1>0, <1>2, CallClose
  <2>2. ref[e] # 0
    BY <1>0, <1>2, NoRefs DEF Close, CallInv
  <2>3. fds' \in [End -> 0 .. MaxFd]
    <3>1. fds[e] - 1 \in 0 .. MaxFd
      BY <1>a, <1>2, FdAssumption DEF Close
    <3> QED
      BY <1>a, <1>2, <3>1 DEF Close
  <2>4. TypeOK' /\ BytesInv'
    BY <1>0, <1>a, <1>c, <1>2, <2>2, <2>3, TypesKept DEF Close
  <2> QED
    BY <2>1, <2>4 DEF IndInv
<1>3. ASSUME NEW t \in Thread, NEW e \in End, Share(t, e) PROVE IndInv'
  <2>1. CallInv'
    BY <1>0, <1>3, CallShare
  <2>2. fds' \in [End -> 0 .. MaxFd] /\ ref' \in [End -> Nat]
    <3>1. fds[e] + 1 \in 0 .. MaxFd
      BY <1>a, <1>3, FdAssumption DEF Share
    <3> QED
      BY <1>a, <1>3, <3>1 DEF Share
  <2>3. TypeOK' /\ BytesInv'
    BY <1>0, <1>a, <1>3, <2>2, TypesKept DEF Share
  <2> QED
    BY <2>1, <2>3 DEF IndInv
<1>4. ASSUME NEW t \in Thread, Test(t) PROVE IndInv'
  <2>1. task' \in [Thread -> Task]
    BY <1>a, <1>4, GotoType DEF Test
  <2> QED
    BY <1>0, <1>a, <1>4, <2>1, CallTest, TypesKept DEF Test, IndInv
<1>5. ASSUME NEW t \in Thread, Park(t) PROVE IndInv'
  <2>1. task' \in [Thread -> Task] /\ waiters' \in Seq(Thread)
    BY <1>a, <1>5, GotoType DEF Park
  <2> QED
    BY <1>0, <1>a, <1>5, <2>1, CallPark, TypesKept DEF Park, IndInv
<1>6. ASSUME NEW t \in Thread, Read(t) PROVE IndInv'
  <2>1. CallInv'
    BY <1>0, <1>6, CallRead
  <2>2. ring' \in Ring /\ got' \in Byte /\ delivered' \in Seq(Byte) /\ BytesInv'
    BY <1>0, <1>6, BytesRead
  <2>3. task' \in [Thread -> Task]
    <3>1. task' = Goto(t, "panic") \/ task' = Goto(t, "unblock")
      BY <1>6 DEF Read
    <3> QED
      BY <1>a, <3>1, GotoType
  <2>4. TypeOK'
    BY <1>0, <1>6, <2>2, <2>3 DEF TypeOK, Read
  <2> QED
    BY <2>1, <2>2, <2>4 DEF IndInv
<1>7. ASSUME NEW t \in Thread, Write(t) PROVE IndInv'
  <2>1. CallInv'
    BY <1>0, <1>7, CallWrite
  <2>2. ring' \in Ring /\ sent' \in Byte /\ BytesInv'
    BY <1>0, <1>7, BytesWrite
  <2>3. task' \in [Thread -> Task]
    <3>1. task' = Goto(t, "panic") \/ task' = Goto(t, "unblock")
      BY <1>7 DEF Write
    <3> QED
      BY <1>a, <3>1, GotoType
  <2>4. TypeOK'
    BY <1>0, <1>7, <2>2, <2>3 DEF TypeOK, Write
  <2> QED
    BY <2>1, <2>2, <2>4 DEF IndInv
<1>8. ASSUME NEW t \in Thread, Unblock(t) PROVE IndInv'
  <2>1. task' \in [Thread -> Task] /\ waiters' \in Seq(Thread)
    <3>1. \A u \in Thread : /\ [task[u] EXCEPT !.pc = "test"] \in Task
                            /\ [task[u] EXCEPT !.pc = "leave"] \in Task
      BY <1>a DEF Task
    <3> QED
      BY <1>a, <1>8, <3>1 DEF Unblock
  <2> QED
    BY <1>0, <1>a, <1>8, <2>1, CallUnblock, TypesKept DEF Unblock, IndInv
<1>9. ASSUME NEW t \in Thread, Leave(t) PROVE IndInv'
  <2>1. CallInv'
    BY <1>0, <1>9, CallLeave
  <2>2. task[t].end \in End /\ Uses(task[t], task[t].end)
    BY <1>a, <1>9 DEF Leave, Uses, InCall, Task
  <2>3. ref[task[t].end] # 0
    BY <1>0, <2>2, NoRefs DEF CallInv
  <2>4. TypeOK' /\ BytesInv'
    BY <1>0, <1>a, <1>c, <1>9, <2>2, <2>3, TypesKept DEF Leave
  <2> QED
    BY <2>1, <2>4 DEF IndInv
<1>10. ASSUME NEW t \in Thread, Cleanup(t) PROVE IndInv'
  <2>1. task' \in [Thread -> Task]
    BY <1>a, <1>b, <1>10, GotoType DEF Cleanup, Done
  <2>2. closed' \in [End -> BOOLEAN]
    BY <1>a, <1>10 DEF Cleanup
  <2> QED
    BY <1>0, <1>a, <1>10, <2>1, <2>2, CallCleanup, TypesKept DEF Cleanup, IndInv
<1>11. ASSUME NEW t \in Thread, Free(t) PROVE IndInv'
  <2>1. task' \in [Thread -> Task] /\ freed' \in BOOLEAN
    BY <1>a, <1>b, <1>11, GotoType DEF Free, Done
  <2> QED
    BY <1>0, <1>a, <1>11, <2>1, CallFree, TypesKept DEF Free, IndInv
<1>12. CASE UNCHANGED vars
  <2>1. RefsCount' /\ CleanedOnce' /\ FreedOnce' /\ WaitersParked' /\ NeverPanics'
    BY <1>0, <1>12 DEF vars, CallInv, RefsCount, Users, Uses, CleanedOnce, FreedOnce, WaitersParked,
                       NeverPanics
  <2> QED
    BY <1>0, <1>a, <1>12, <2>1, TypesKept DEF vars, CallInv, IndInv
<1> QED
  BY <1>1, <1>2, <1>3, <1>4, <1>5, <1>6, <1>7, <1>8, <1>9, <1>10, <1>11, <1>12
     DEF Next, Proceed

LEMMA Invariance == Spec => []IndInv
BY IndInit, IndNext, PTL DEF Spec

(***************************************************************************)
(* No interleaving of reads, writes and closes of a pipe makes an          *)
(* assertion of pipe.c fail, frees the pipe under a call, or moves an      *)
(* index of the ring out of its buffer.                                    *)
(***************************************************************************)
THEOREM PipeNoFault == Spec => []NoFault
<1>1. IndInv => NoFault
  <2> SUFFICES ASSUME IndInv PROVE NoUseAfterFree
    BY DEF IndInv, CallInv, NoFault
  <2>0. TypeOK /\ CallInv
    BY DEF IndInv
  <2> SUFFICES ASSUME NEW t \in Thread,
                      task[t].pc \in {"test", "block", "parked", "unblock", "cleanup", "free"}
               PROVE  ~freed
    BY DEF NoUseAfterFree
  <2>1. task[t].end \in End
    BY <2>0 DEF TypeOK, Task
  <2>2. CASE task[t].pc \in {"test", "block", "parked", "unblock"}
    <3>1. Uses(task[t], task[t].end)
      BY <2>2 DEF Uses, InCall
    <3>2. ref[task[t].end] # 0
      BY <2>0, <2>1, <3>1, NoRefs DEF CallInv
    <3> QED
      BY <2>0, <2>1, <3>2 DEF CallInv, CleanedOnce, FreedOnce
  <2>3. CASE task[t].pc \in {"cleanup", "free"}
    BY <2>0, <2>1, <2>3 DEF CallInv, CleanedOnce, FreedOnce
  <2> QED
    BY <2>2, <2>3
<1> QED
  BY <1>1, Invariance, PTL

(***************************************************************************)
(* A pipe delivers the bytes written to it once and in order, whatever the *)
(* sizes of the reads and writes and wherever the ring wraps around.       *)
(***************************************************************************)
THEOREM PipeInOrder == Spec => []InOrder
<1>1. IndInv => InOrder
  <2> SUFFICES ASSUME IndInv PROVE InOrder
    OBVIOUS
  <2>0. /\ ring \in Ring /\ got \in Byte /\ delivered \in Seq(Byte) /\ BytesInv
        /\ DataLength = ring.dataLength
    BY DEF IndInv, TypeOK, DataLength
  <2>1. /\ RING_SIZE \in Nat \ {0} /\ Values \in Nat \ {0} /\ Values > RING_SIZE
        /\ ring.readIndex \in Nat /\ ring.readIndex < RING_SIZE
        /\ ring.dataLength \in Nat /\ ring.dataLength <= RING_SIZE
        /\ got \in Nat /\ got < Values /\ Len(delivered) \in Nat /\ Len(delivered) <= RING_SIZE
    BY <2>0, RingFields, ValuesAssumption DEF Byte, BytesInv
  <2>2. ASSUME NEW i \in 1 .. ring.dataLength
        PROVE  ring.buffer[(ring.readIndex + i - 1) % RING_SIZE] = (got + i) % Values
    <3>1. /\ ring.readIndex + i - 1 \in Int /\ -RING_SIZE <= ring.readIndex + i - 1
          /\ ring.readIndex + i - 1 < RING_SIZE + RING_SIZE
          /\ got + i \in Int /\ -Values <= got + i /\ got + i < Values + Values
      BY <2>1
    <3>2. /\ (ring.readIndex + i - 1) % RING_SIZE = Mod(ring.readIndex + i - 1, RING_SIZE)
          /\ (got + i) % Values = Mod(got + i, Values)
      BY <2>1, <3>1, ModValue
    <3> QED
      BY <2>0, <3>2 DEF BytesInv, Content
  <2>3. RingContent = [i \in 1 .. DataLength |-> (got + i) % Values]
    BY <2>0, <2>2 DEF RingContent
  <2>4. sent = (got + DataLength) % Values
    <3>1. /\ got + ring.dataLength \in Int /\ -Values <= got + ring.dataLength
          /\ got + ring.dataLength < Values + Values
      BY <2>1
    <3>2. (got + ring.dataLength) % Values = Mod(got + ring.dataLength, Values)
      BY <2>1, <3>1, ModValue
    <3> QED
      BY <2>0, <3>2 DEF BytesInv
  <2>5. ASSUME NEW i \in 1 .. Len(delivered)
        PROVE  delivered[i] = (got - Len(delivered) + i) % Values
    <3>1. /\ got - Len(delivered) + i \in Int /\ -Values <= got - Len(delivered) + i
          /\ got - Len(delivered) + i < Values + Values
      BY <2>1
    <3>2. (got - Len(delivered) + i) % Values = Mod(got - Len(delivered) + i, Values)
      BY <2>1, <3>1, ModValue
    <3> QED
      BY <2>0, <3>2 DEF BytesInv
  <2>6. delivered = [i \in 1 .. Len(delivered) |-> (got - Len(delivered) + i) % Values]
    BY <2>0, <2>5
  <2> QED
    BY <2>3, <2>4, <2>6 DEF InOrder
<1> QED
  BY <1>1, Invariance, PTL
=============================================================================
