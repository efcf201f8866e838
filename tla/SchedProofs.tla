---------------------------- MODULE SchedProofs ----------------------------
(***************************************************************************)
(* Proofs about the scheduler, for every number of CPUs, priorities,       *)
(* blockers, processes and thread slots.                                   *)
(***************************************************************************)
EXTENDS Sched, PlacementProofs, FiniteSetTheorems

\* What the code of a CPU has established when it gets to a place
CpuControl ==
    \A c \in CPU :
        /\ cpu[c].pushing # None => cpu[c].pc \in {"unblock", "tick"}
        /\ cpu[c].pc = "unblock" => cpu[c].lock # None
        /\ cpu[c].pc = "find" => (cpu[c].why = "idle" <=> cpu[c].runThread = None)

\* What the code of a thread has established
ThreadControl ==
    \A t \in Thread :
        /\ thread[t].at = "push" <=> thread[t].child # None
        /\ thread[t].at = "free" <=> thread[t].process = None
        /\ thread[t].killed => thread[t].at \in {"exit", "returned"}

\* A thread dies in user mode or in an exit function, with no child in hand.
GraveControl ==
    \A c \in CPU : \A i \in 1 .. Len(list[Graveyard(c)]) :
        thread[list[Graveyard(c)][i]].at \in {"user", "exit", "returned"}

PlacedInv == WellPlaced(Thread, None, ListId, HandId, list, held, allocated)

IndInv ==
    /\ TypeOK
    /\ CpuControl
    /\ ThreadControl
    /\ GraveControl
    /\ PlacedInv
    /\ RefCountsThreads

-----------------------------------------------------------------------------
(* Lists and hands *)

\* The lists have different names: queue, graveyard and blocker lists.
LEMMA ListNames ==
    /\ \A c \in CPU, p \in Priority : Queue(c, p) \in ListId
    /\ \A c \in CPU : Graveyard(c) \in ListId
    /\ \A b \in Blocker : Waiters(b) \in ListId
    /\ \A c, d \in CPU : c # d => Graveyard(c) # Graveyard(d)
    /\ \A c, d \in CPU, p \in Priority : Queue(c, p) # Graveyard(d)
    /\ \A c \in CPU, b \in Blocker : Waiters(b) # Graveyard(c)
BY DEF ListId, QueueId, GraveyardId, WaitersId, Queue, Graveyard, Waiters

HandTable ==
    /\ held \in [HandId -> Thread \cup {None}]
    /\ \A c \in CPU : held[RunHand(c)] = Owned(c) /\ held[PushHand(c)] = cpu[c].pushing
    /\ \A t \in Thread : held[ChildHand(t)] = thread[t].child

\* The hands are three different kinds of pointers.
LEMMA HandNames ==
    /\ \A c \in CPU : RunHand(c) \in HandId /\ PushHand(c) \in HandId
    /\ \A t \in Thread : ChildHand(t) \in HandId
    /\ \A h \in HandId : \/ \E c \in CPU : h = RunHand(c) \/ h = PushHand(c)
                         \/ \E t \in Thread : h = ChildHand(t)
    /\ \A c, d \in CPU, t \in Thread :
        /\ RunHand(c) # PushHand(d) /\ RunHand(c) # ChildHand(t)
        /\ PushHand(c) # ChildHand(t)
        /\ c # d => RunHand(c) # RunHand(d) /\ PushHand(c) # PushHand(d)
    /\ \A t, u \in Thread : t # u => ChildHand(t) # ChildHand(u)
BY DEF HandId, RunHand, PushHand, ChildHand

\* held as a table of the pointers it stands for
LEMMA HandsNow == ASSUME TypeOK PROVE HandTable
<1>1. ASSUME NEW c \in CPU
      PROVE  /\ Owned(c) \in Thread \cup {None} /\ cpu[c].pushing \in Thread \cup {None}
             /\ Hold(RunHand(c)) = Owned(c) /\ Hold(PushHand(c)) = cpu[c].pushing
  BY DEF TypeOK, CpuRecord, Owned, Hold, RunHand, PushHand
<1>2. ASSUME NEW t \in Thread
      PROVE  /\ thread[t].child \in Thread \cup {None}
             /\ Hold(ChildHand(t)) = thread[t].child
  BY DEF TypeOK, ThreadRecord, Hold, ChildHand
<1>3. \A h \in HandId : Hold(h) \in Thread \cup {None}
  BY <1>1, <1>2, HandNames
<1> QED
  BY <1>1, <1>2, <1>3, HandNames DEF HandTable, held

\* The same after a step
LEMMA HandsNext == ASSUME TypeOK' PROVE HandTable'
<1>1. ASSUME NEW c \in CPU
      PROVE  /\ Owned(c)' \in Thread \cup {None} /\ cpu'[c].pushing \in Thread \cup {None}
             /\ Hold(RunHand(c))' = Owned(c)' /\ Hold(PushHand(c))' = cpu'[c].pushing
  BY DEF TypeOK, CpuRecord, Owned, Hold, RunHand, PushHand
<1>2. ASSUME NEW t \in Thread
      PROVE  /\ thread'[t].child \in Thread \cup {None}
             /\ Hold(ChildHand(t))' = thread'[t].child
  BY DEF TypeOK, ThreadRecord, Hold, ChildHand
<1>3. \A h \in HandId : Hold(h)' \in Thread \cup {None}
  BY <1>1, <1>2, HandNames
<1> QED
  BY <1>1, <1>2, <1>3, HandNames DEF HandTable, held

\* A step that changes no pointer
LEMMA SameHands ==
    ASSUME TypeOK, TypeOK',
           \A c \in CPU : Owned(c)' = Owned(c) /\ cpu'[c].pushing = cpu[c].pushing,
           \A t \in Thread : thread'[t].child = thread[t].child
    PROVE  held' = held
<1>1. HandTable /\ HandTable'
  BY HandsNow, HandsNext
<1> QED
  BY <1>1, HandNames DEF HandTable

\* A step that changes the thread one CPU runs
LEMMA RunHandChanges ==
    ASSUME TypeOK, TypeOK', NEW c \in CPU,
           \A d \in CPU : d # c => Owned(d)' = Owned(d),
           \A d \in CPU : cpu'[d].pushing = cpu[d].pushing,
           \A t \in Thread : thread'[t].child = thread[t].child
    PROVE  held' = [held EXCEPT ![RunHand(c)] = Owned(c)']
<1>1. HandTable /\ HandTable'
  BY HandsNow, HandsNext
<1> DEFINE new == [held EXCEPT ![RunHand(c)] = Owned(c)']
<1>2. ASSUME NEW h \in HandId PROVE held'[h] = new[h]
  <2>1. CASE \E d \in CPU : h = RunHand(d)
    BY <1>1, <2>1, HandNames DEF HandTable
  <2>2. CASE \E d \in CPU : h = PushHand(d)
    BY <1>1, <2>2, HandNames DEF HandTable
  <2>3. CASE \E u \in Thread : h = ChildHand(u)
    BY <1>1, <2>3, HandNames DEF HandTable
  <2> QED
    BY <2>1, <2>2, <2>3, HandNames
<1>3. held' \in [HandId -> Thread \cup {None}] /\ new \in [HandId -> Thread \cup {None}]
  BY <1>1, HandNames DEF HandTable
<1> HIDE DEF new
<1>4. held' = new
  BY <1>2, <1>3
<1> QED
  BY <1>4 DEF new

\* A step that changes the thread one CPU is about to push
LEMMA PushHandChanges ==
    ASSUME TypeOK, TypeOK', NEW c \in CPU,
           \A d \in CPU : Owned(d)' = Owned(d),
           \A d \in CPU : d # c => cpu'[d].pushing = cpu[d].pushing,
           \A t \in Thread : thread'[t].child = thread[t].child
    PROVE  held' = [held EXCEPT ![PushHand(c)] = cpu'[c].pushing]
<1>1. HandTable /\ HandTable'
  BY HandsNow, HandsNext
<1> DEFINE new == [held EXCEPT ![PushHand(c)] = cpu'[c].pushing]
<1>2. ASSUME NEW h \in HandId PROVE held'[h] = new[h]
  <2>1. CASE \E d \in CPU : h = RunHand(d)
    BY <1>1, <2>1, HandNames DEF HandTable
  <2>2. CASE \E d \in CPU : h = PushHand(d)
    BY <1>1, <2>2, HandNames DEF HandTable
  <2>3. CASE \E u \in Thread : h = ChildHand(u)
    BY <1>1, <2>3, HandNames DEF HandTable
  <2> QED
    BY <2>1, <2>2, <2>3, HandNames
<1>3. held' \in [HandId -> Thread \cup {None}] /\ new \in [HandId -> Thread \cup {None}]
  BY <1>1, HandNames DEF HandTable
<1> HIDE DEF new
<1>4. held' = new
  BY <1>2, <1>3
<1> QED
  BY <1>4 DEF new

\* A step that changes the new thread a creator has in hand
LEMMA ChildHandChanges ==
    ASSUME TypeOK, TypeOK', NEW t \in Thread,
           \A c \in CPU : Owned(c)' = Owned(c) /\ cpu'[c].pushing = cpu[c].pushing,
           \A u \in Thread : u # t => thread'[u].child = thread[u].child
    PROVE  held' = [held EXCEPT ![ChildHand(t)] = thread'[t].child]
<1>1. HandTable /\ HandTable'
  BY HandsNow, HandsNext
<1> DEFINE new == [held EXCEPT ![ChildHand(t)] = thread'[t].child]
<1>2. ASSUME NEW h \in HandId PROVE held'[h] = new[h]
  <2>1. CASE \E d \in CPU : h = RunHand(d)
    BY <1>1, <2>1, HandNames DEF HandTable
  <2>2. CASE \E d \in CPU : h = PushHand(d)
    BY <1>1, <2>2, HandNames DEF HandTable
  <2>3. CASE \E u \in Thread : h = ChildHand(u)
    BY <1>1, <2>3, HandNames DEF HandTable
  <2> QED
    BY <2>1, <2>2, <2>3, HandNames
<1>3. held' \in [HandId -> Thread \cup {None}] /\ new \in [HandId -> Thread \cup {None}]
  BY <1>1, HandNames DEF HandTable
<1> HIDE DEF new
<1>4. held' = new
  BY <1>2, <1>3
<1> QED
  BY <1>4 DEF new
-----------------------------------------------------------------------------
(* References and graveyards *)

Members(p) == {t \in Thread : thread[t].at # "free" /\ thread[t].process = p}

\* The threads of a process can be counted.
LEMMA MembersFinite ==
    \A p : IsFiniteSet(Members(p)) /\ Cardinality(Members(p)) \in Nat
BY SlotAssumption, FS_Subset, FS_CardinalityType DEF Members

\* A step that neither allocates nor frees leaves the counts right.
LEMMA RefsKept ==
    ASSUME RefCountsThreads,
           \A t \in Thread : /\ thread'[t].at = "free" <=> thread[t].at = "free"
                             /\ thread'[t].process = thread[t].process,
           \A p \in Process : process'[p].ref = process[p].ref
    PROVE  RefCountsThreads'
<1>1. \A p : Members(p)' = Members(p)
  BY DEF Members
<1>2. RefCountsThreads <=> \A p \in Process : process[p].ref = Cardinality(Members(p))
  BY DEF RefCountsThreads, Members
<1>3. RefCountsThreads' <=> \A p \in Process : process'[p].ref = Cardinality(Members(p)')
  BY DEF RefCountsThreads, Members
<1> QED
  BY <1>1, <1>2, <1>3

\* thread_free keeps the counts right, and a count does not drop below zero.
LEMMA RefsAfterFree ==
    ASSUME TypeOK, RefCountsThreads, ThreadControl,
           NEW t \in Thread, thread[t].at # "free", ThreadFree(t)
    PROVE  process' \in [Process -> ProcessRecord] /\ RefCountsThreads'
<1>0. PICK p \in Process : p = thread[t].process
  BY DEF TypeOK, ThreadControl, ThreadRecord
<1>1. p \in Process /\ process \in [Process -> ProcessRecord]
  BY DEF TypeOK
<1>2. /\ process[p].ref \in Nat
      /\ process' = [process EXCEPT ![p] = [process[p] EXCEPT !.ref = process[p].ref - 1]]
  BY <1>0, <1>1 DEF ThreadFree, ProcessRecord
<1>3. Members(p)' = Members(p) \ {t} /\ \A q \in Process : q # p => Members(q)' = Members(q)
  <2>1. thread'[t].at = "free" /\ \A u \in Thread : u # t => thread'[u] = thread[u]
    BY DEF ThreadFree, FreeThread, NewThread, TypeOK
  <2> QED
    BY <1>0, <2>1 DEF Members
<1>4. t \in Members(p)
  BY <1>0 DEF Members
<1>5. Cardinality(Members(p)) \in Nat /\ Cardinality(Members(p)')  = Cardinality(Members(p)) - 1
  BY <1>3, <1>4, MembersFinite, FS_RemoveElement
<1>6. Cardinality(Members(p)) # 0
  BY <1>4, MembersFinite, FS_EmptySet
<1>7. \A q \in Process : process[q].ref = Cardinality(Members(q))
  BY DEF RefCountsThreads, Members
<1>8. process[p].ref - 1 \in Nat
  BY <1>1, <1>2, <1>5, <1>6, <1>7
<1>9. process' \in [Process -> ProcessRecord]
  BY <1>1, <1>2, <1>8 DEF ProcessRecord
<1>10. \A q \in Process : process'[q].ref = Cardinality(Members(q)')
  <2>1. process'[p].ref = process[p].ref - 1 /\ \A q \in Process : q # p => process'[q] = process[q]
    BY <1>1, <1>2 DEF ProcessRecord
  <2>2. process'[p].ref = Cardinality(Members(p)')
    BY <1>1, <1>5, <1>7, <2>1
  <2>3. ASSUME NEW q \in Process, q # p PROVE process'[q].ref = Cardinality(Members(q)')
    BY <1>3, <1>7, <2>1, <2>3
  <2> QED
    BY <2>2, <2>3
<1> QED
  BY <1>9, <1>10 DEF RefCountsThreads, Members

\* thread_new and thread_split keep the counts right.
LEMMA RefsAfterNew ==
    ASSUME TypeOK, RefCountsThreads, NEW u \in Thread, NEW p \in Process,
           thread[u].at = "free", thread'[u].at # "free", thread'[u].process = p,
           \A t \in Thread \ {u} : /\ thread'[t].at = "free" <=> thread[t].at = "free"
                                   /\ thread'[t].process = thread[t].process,
           process'[p].ref = process[p].ref + 1,
           \A q \in Process \ {p} : process'[q].ref = process[q].ref
    PROVE  RefCountsThreads'
<1>1. Members(p)' = Members(p) \cup {u} /\ \A q \in Process : q # p => Members(q)' = Members(q)
  BY DEF Members
<1>2. u \notin Members(p)
  BY DEF Members
<1>3. Cardinality(Members(p)') = Cardinality(Members(p)) + 1
  BY <1>1, <1>2, MembersFinite, FS_AddElement
<1>4. \A q \in Process : process[q].ref = Cardinality(Members(q))
  BY DEF RefCountsThreads, Members
<1>5. \A q \in Process : process'[q].ref = Cardinality(Members(q)')
  BY <1>1, <1>3, <1>4
<1> QED
  BY <1>5 DEF RefCountsThreads, Members

\* A step that leaves the graveyards alone and changes the place of no thread
\* but one that somebody holds or that is being allocated
LEMMA GravesKept ==
    ASSUME TypeOK, GraveControl, PlacedInv,
           \A c \in CPU : list'[Graveyard(c)] = list[Graveyard(c)],
           \A t \in Thread : \/ thread'[t].at = thread[t].at
                             \/ \E h \in HandId : held[h] = t
                             \/ t \notin allocated
    PROVE  GraveControl'
<1> SUFFICES ASSUME NEW c \in CPU, NEW i \in 1 .. Len(list[Graveyard(c)])
             PROVE  thread'[list[Graveyard(c)][i]].at \in {"user", "exit", "returned"}
  BY DEF GraveControl, Graveyard
<1> DEFINE l == Graveyard(c)
           t == list[l][i]
<1>1. l \in ListId /\ list \in [ListId -> Seq(Thread)] /\ DOMAIN list = ListId
  BY ListNames DEF TypeOK
<1>2. t \in Thread
  BY <1>1
<1>3. t \in allocated /\ \A h \in HandId : held[h] # t
  BY <1>1, HandsNow DEF PlacedInv, WellPlaced, Placed, OnlyAllocated, HeldNotLinked, HandTable
<1>4. thread'[t].at = thread[t].at
  BY <1>2, <1>3
<1> QED
  BY <1>4 DEF GraveControl
-----------------------------------------------------------------------------
(* What the code of a running thread does *)

\* thread t changes its own record: it is neither allocated nor freed, and it
\* has no child in hand.
OwnRecord(t) ==
    /\ thread' \in [Thread -> ThreadRecord]
    /\ \A u \in Thread \ {t} : thread'[u] = thread[u]
    /\ thread[t].at \notin {"push", "free"}
    /\ thread'[t].at \notin {"push", "free"}
    /\ thread'[t].child = thread[t].child
    /\ thread'[t].process = thread[t].process
    /\ thread'[t].killed => thread'[t].at \in {"exit", "returned"}
    /\ thread'[t].at = "exit" => thread'[t].killed
    /\ thread'[t].at = "returned" => thread[t].at = "exit" /\ thread'[t].killed = thread[t].killed

\* CPU c leaves the code of its thread for the handler, or stays in it.
OwnCpu(c) ==
    /\ cpu' \in [CPU -> CpuRecord]
    /\ \A d \in CPU \ {c} : cpu'[d] = cpu[d]
    /\ cpu'[c].pc \in {"run", "tick", "graveyard"}
    /\ cpu'[c].runThread = cpu[c].runThread
    /\ cpu'[c].pushing = cpu[c].pushing

OwnRest ==
    /\ list' = list
    /\ process' \in [Process -> ProcessRecord]
    /\ \A p \in Process : process'[p].ref = process[p].ref
    /\ todo' \in SUBSET Blocker
    /\ uptime' \in 0 .. MaxTime
    /\ now' \in 0 .. MaxTime

\* Such a step keeps the invariant.
LEMMA OwnStep ==
    ASSUME IndInv, NEW c \in CPU, NEW t \in Thread, Running(c, t),
           OwnRecord(t), OwnCpu(c), OwnRest
    PROVE  IndInv'
<1>1. TypeOK /\ CpuControl /\ ThreadControl /\ GraveControl /\ PlacedInv /\ RefCountsThreads
  BY DEF IndInv
<1>2. TypeOK'
  BY <1>1 DEF TypeOK, OwnRecord, OwnCpu, OwnRest
<1>3. /\ cpu[c].pc = "run" /\ cpu[c].runThread = t /\ cpu[c].pushing = None
      /\ Owned(c) = t
  BY <1>1 DEF CpuControl, Running, Owned
<1>4. CpuControl'
  BY <1>1, <1>3 DEF CpuControl, OwnCpu
<1>5. ThreadControl'
  BY <1>1 DEF ThreadControl, OwnRecord
<1>6. held' = held
  <2>1. \A d \in CPU : Owned(d)' = Owned(d) /\ cpu'[d].pushing = cpu[d].pushing
    BY <1>3 DEF Owned, OwnCpu
  <2>2. \A u \in Thread : thread'[u].child = thread[u].child
    BY DEF OwnRecord
  <2> QED
    BY <1>1, <1>2, <2>1, <2>2, SameHands
<1>7. allocated' = allocated
  BY DEF allocated, OwnRecord
<1>8. PlacedInv'
  BY <1>1, <1>6, <1>7 DEF PlacedInv, OwnRest
<1>9. RefCountsThreads'
  BY <1>1, RefsKept DEF OwnRecord, OwnRest
<1>10. GraveControl'
  <2>1. RunHand(c) \in HandId /\ held[RunHand(c)] = t
    BY <1>1, <1>3, HandsNow, HandNames DEF HandTable
  <2>2. \A u \in Thread : thread'[u].at = thread[u].at \/ \E h \in HandId : held[h] = u
    BY <2>1 DEF OwnRecord
  <2> QED
    BY <1>1, <2>2, GravesKept DEF OwnRest
<1> QED
  BY <1>2, <1>4, <1>5, <1>8, <1>9, <1>10 DEF IndInv

\* Thread t moves on by itself, on CPU c.
OwnMove(c, t) ==
    /\ Running(c, t)
    /\ OwnRecord(t)
    /\ OwnCpu(c)
    /\ OwnRest
    /\ thread[t].at = "exit" => cpu'[c].pc # "run"

\* The steps of system calls, blocking, yielding and exiting are of this kind.
LEMMA CallIsOwnMove ==
    ASSUME IndInv, NEW c \in CPU, NEW t \in Thread,
           \/ SyscallEnter(c, t)
           \/ SyscallEnd(c, t)
           \/ JumpToUser(c, t)
           \/ \E b \in Blocker, d \in Deadlines : SchedBlock(c, t, b, d)
           \/ SchedYield(c, t)
           \/ SchedThreadExit(c, t)
           \/ SchedProcessExit(c, t)
           \/ SchedInvoke(c, t)
    PROVE  OwnMove(c, t)
<1>1. /\ thread \in [Thread -> ThreadRecord]
      /\ process \in [Process -> ProcessRecord]
      /\ cpu \in [CPU -> CpuRecord]
      /\ todo \in SUBSET Blocker /\ uptime \in 0 .. MaxTime /\ now \in 0 .. MaxTime
  BY DEF IndInv, TypeOK
<1>2. thread[t].killed => thread[t].at \in {"exit", "returned"}
  BY DEF IndInv, ThreadControl
<1>3. ASSUME UNCHANGED <<list, cpu, todo, uptime, now>>, Running(c, t) PROVE OwnCpu(c)
  BY <1>1, <1>3 DEF OwnCpu, Running
<1>4. ASSUME UNCHANGED <<list, process, todo, uptime, now>> PROVE OwnRest
  BY <1>1, <1>4 DEF OwnRest
<1>5. CASE SyscallEnter(c, t)
  <2>1. OwnRecord(t)
    BY <1>1, <1>2, <1>5 DEF SyscallEnter, OwnRecord, ThreadRecord, Place
  <2> QED
    BY <1>3, <1>4, <1>5, <2>1 DEF SyscallEnter, OwnMove
<1>6. CASE SyscallEnd(c, t)
  <2>1. OwnRecord(t)
    BY <1>1, <1>2, <1>6 DEF SyscallEnd, InSyscall, OwnRecord, ThreadRecord, Place
  <2> QED
    BY <1>3, <1>4, <1>6, <2>1 DEF SyscallEnd, InSyscall, OwnMove
<1>7. CASE JumpToUser(c, t)
  <2>1. OwnRecord(t)
    BY <1>1, <1>2, <1>7 DEF JumpToUser, OwnRecord, ThreadRecord, Place
  <2> QED
    BY <1>3, <1>4, <1>7, <2>1 DEF JumpToUser, OwnMove
<1>8. ASSUME NEW b \in Blocker, NEW d \in Deadlines, SchedBlock(c, t, b, d) PROVE OwnMove(c, t)
  <2>1. d \in 0 .. NEVER
    BY <1>1, TimeAssumption DEF Deadlines, NEVER
  <2>2. OwnRecord(t)
    <3> DEFINE r == [thread[t] EXCEPT !.at = "block", !.slice = "over", !.deadline = d, !.blocker = b]
    <3>1. thread' = [thread EXCEPT ![t] = r]
      BY <1>1, <1>8 DEF SchedBlock
    <3>2. /\ r \in ThreadRecord /\ r.at = "block" /\ r.child = thread[t].child
          /\ r.process = thread[t].process /\ r.killed = thread[t].killed
      BY <1>1, <2>1, ZenonT(30) DEF ThreadRecord, Place
    <3> HIDE DEF r
    <3>3. thread[t].at = "kernel" /\ ~r.killed
      BY <1>2, <1>8, <3>2 DEF SchedBlock
    <3>4. /\ thread' \in [Thread -> ThreadRecord] /\ thread'[t] = r
          /\ \A u \in Thread \ {t} : thread'[u] = thread[u]
      BY <1>1, <3>1, <3>2
    <3> QED
      BY <3>2, <3>3, <3>4 DEF OwnRecord
  <2> QED
    BY <1>3, <1>4, <1>8, <2>2 DEF SchedBlock, OwnMove
<1>9. CASE SchedYield(c, t)
  <2>1. OwnRecord(t)
    <3> DEFINE r == [thread[t] EXCEPT !.at = "yield", !.slice = "over"]
    <3>1. thread' = [thread EXCEPT ![t] = r]
      BY <1>1, <1>9 DEF SchedYield
    <3>2. /\ r \in ThreadRecord /\ r.at = "yield" /\ r.child = thread[t].child
          /\ r.process = thread[t].process /\ r.killed = thread[t].killed
      BY <1>1, ZenonT(30) DEF ThreadRecord, Place
    <3> HIDE DEF r
    <3> QED
      BY <1>1, <1>2, <1>9, <3>1, <3>2 DEF SchedYield, InSyscall, OwnRecord
  <2> QED
    BY <1>3, <1>4, <1>9, <2>1 DEF SchedYield, InSyscall, OwnMove
<1>10. CASE SchedThreadExit(c, t)
  <2>1. OwnRecord(t)
    <3> DEFINE r == [thread[t] EXCEPT !.at = "exit", !.killed = TRUE]
    <3>1. thread' = [thread EXCEPT ![t] = r]
      BY <1>1, <1>10 DEF SchedThreadExit
    <3>2. /\ r \in ThreadRecord /\ r.at = "exit" /\ r.child = thread[t].child
          /\ r.process = thread[t].process /\ r.killed
      BY <1>1, ZenonT(30) DEF ThreadRecord, Place
    <3> HIDE DEF r
    <3> QED
      BY <1>1, <1>2, <1>10, <3>1, <3>2 DEF SchedThreadExit, OwnRecord
  <2> QED
    BY <1>3, <1>4, <1>10, <2>1 DEF SchedThreadExit, OwnMove
<1>11. CASE SchedProcessExit(c, t)
  <2>1. OwnRecord(t)
    <3> DEFINE r == [thread[t] EXCEPT !.at = "exit", !.killed = TRUE]
    <3>1. thread' = [thread EXCEPT ![t] = r]
      BY <1>1, <1>11 DEF SchedProcessExit
    <3>2. /\ r \in ThreadRecord /\ r.at = "exit" /\ r.child = thread[t].child
          /\ r.process = thread[t].process /\ r.killed
      BY <1>1, ZenonT(30) DEF ThreadRecord, Place
    <3> HIDE DEF r
    <3> QED
      BY <1>1, <1>2, <1>11, <3>1, <3>2 DEF SchedProcessExit, InSyscall, OwnRecord
  <2>2. OwnRest
    BY <1>1, <1>11 DEF SchedProcessExit, OwnRest, ProcessRecord
  <2> QED
    BY <1>3, <1>11, <2>1, <2>2 DEF SchedProcessExit, InSyscall, OwnMove
<1>12. CASE SchedInvoke(c, t)
  <2>1. OwnRecord(t)
    BY <1>1, <1>2, <1>12 DEF SchedInvoke, AfterInvoke, OwnRecord, ThreadRecord, Place
  <2>2. OwnCpu(c) /\ OwnRest /\ cpu'[c].pc # "run"
    BY <1>1, <1>12 DEF SchedInvoke, EnterSchedule, OwnCpu, OwnRest, CpuRecord
  <2> QED
    BY <1>12, <2>1, <2>2 DEF SchedInvoke, OwnMove
<1> QED
  BY <1>5, <1>6, <1>7, <1>8, <1>9, <1>10, <1>11, <1>12

\* So they keep the invariant.
LEMMA CallSteps ==
    ASSUME IndInv, NEW c \in CPU, NEW t \in Thread,
           \/ SyscallEnter(c, t)
           \/ SyscallEnd(c, t)
           \/ JumpToUser(c, t)
           \/ \E b \in Blocker, d \in Deadlines : SchedBlock(c, t, b, d)
           \/ SchedYield(c, t)
           \/ SchedThreadExit(c, t)
           \/ SchedProcessExit(c, t)
           \/ SchedInvoke(c, t)
    PROVE  IndInv'
BY CallIsOwnMove, OwnStep DEF OwnMove
-----------------------------------------------------------------------------
(* Steps that only move the control of a CPU *)

ControlStep(c) ==
    /\ UNCHANGED <<list, thread, process>>
    /\ cpu' \in [CPU -> CpuRecord]
    /\ \A d \in CPU \ {c} : cpu'[d] = cpu[d]
    /\ cpu'[c].pushing = cpu[c].pushing
    /\ cpu'[c].pushing # None => cpu'[c].pc \in {"unblock", "tick"}
    /\ cpu'[c].pc = "unblock" => cpu'[c].lock # None
    /\ cpu'[c].pc = "find" => (cpu'[c].why = "idle" <=> cpu'[c].runThread = None)
    /\ Owned(c)' = Owned(c)
    /\ todo' \in SUBSET Blocker
    /\ uptime' \in 0 .. MaxTime
    /\ now' \in 0 .. MaxTime

\* Such a step keeps the invariant.
LEMMA ControlStepKeeps ==
    ASSUME IndInv, NEW c \in CPU, ControlStep(c)
    PROVE  IndInv'
<1>1. TypeOK /\ CpuControl /\ ThreadControl /\ GraveControl /\ PlacedInv /\ RefCountsThreads
  BY DEF IndInv
<1>2. TypeOK'
  BY <1>1 DEF TypeOK, ControlStep
<1>3. CpuControl'
  BY <1>1 DEF CpuControl, ControlStep
<1>4. ThreadControl' /\ GraveControl' /\ RefCountsThreads'
  BY <1>1 DEF ThreadControl, GraveControl, RefCountsThreads, ControlStep
<1>5. held' = held
  <2>1. \A d \in CPU : Owned(d)' = Owned(d) /\ cpu'[d].pushing = cpu[d].pushing
    BY DEF Owned, ControlStep
  <2>2. \A u \in Thread : thread'[u].child = thread[u].child
    BY DEF ControlStep
  <2> QED
    BY <1>1, <1>2, <2>1, <2>2, SameHands
<1>6. allocated' = allocated
  BY DEF allocated, ControlStep
<1>7. PlacedInv'
  BY <1>1, <1>5, <1>6 DEF PlacedInv, ControlStep
<1> QED
  BY <1>2, <1>3, <1>4, <1>7 DEF IndInv

\* Every step of this kind
LEMMA IsControlStep ==
    ASSUME IndInv, NEW c \in CPU,
           \/ \E b \in Blocker : SchedUnblock(c, b)
           \/ UnblockEnd(c)
           \/ SchedTimer(c)
           \/ UpdateBlockersEnd(c)
           \/ PickIdle(c)
           \/ PickPreempt(c)
           \/ FindEmpty(c)
           \/ FindNone(c)
    PROVE  ControlStep(c)
<1>1. /\ cpu \in [CPU -> CpuRecord] /\ cpu[c] \in CpuRecord /\ thread \in [Thread -> ThreadRecord]
      /\ todo \in SUBSET Blocker /\ uptime \in 0 .. MaxTime /\ now \in 0 .. MaxTime
      /\ 0 \in 0 .. MaxTime
  BY TimeAssumption DEF IndInv, TypeOK
<1>2. /\ cpu[c].pushing # None => cpu[c].pc \in {"unblock", "tick"}
      /\ cpu[c].pc = "find" => (cpu[c].why = "idle" <=> cpu[c].runThread = None)
  BY DEF IndInv, CpuControl
<1>3. PRIORITY_MAX \in -1 .. PRIORITY_MAX /\ -1 \in -1 .. PRIORITY_MAX
  BY PriorityAssumption
<1>4. ASSUME NEW b \in Blocker, SchedUnblock(c, b) PROVE ControlStep(c)
  BY <1>1, <1>2, <1>4, NoneAssumption DEF SchedUnblock, ControlStep, CpuRecord, Owned
<1>5. CASE UnblockEnd(c)
  BY <1>1, <1>2, <1>5 DEF UnblockEnd, ControlStep, CpuRecord, Owned
<1>6. CASE SchedTimer(c)
  BY <1>1, <1>2, <1>6 DEF SchedTimer, EnterSchedule, ControlStep, CpuRecord, Owned
<1>7. CASE UpdateBlockersEnd(c)
  BY <1>1, <1>2, <1>7 DEF UpdateBlockersEnd, ControlStep, CpuRecord, Owned
<1>8. CASE PickIdle(c)
  BY <1>1, <1>2, <1>3, <1>8 DEF PickIdle, StartFind, ControlStep, CpuRecord, Owned
<1>9. CASE PickPreempt(c)
  <2>1. PICK why \in {"any", "higher"} : cpu' = StartFind(c, why)
    BY <1>9 DEF PickPreempt
  <2> QED
    BY <1>1, <1>2, <1>3, <1>9, <2>1 DEF PickPreempt, StartFind, ControlStep, CpuRecord, Owned
<1>10. CASE FindEmpty(c)
  <2>1. Floor(c) \in Nat
    BY <1>1, <1>2, <1>10 DEF FindEmpty, Floor, CpuRecord, ThreadRecord, Priority
  <2>2. cpu[c].level - 1 \in -1 .. PRIORITY_MAX
    BY <1>1, <1>10, <2>1, PriorityAssumption DEF FindEmpty, CpuRecord
  <2> QED
    BY <1>1, <1>2, <1>10, <2>2 DEF FindEmpty, ControlStep, CpuRecord, Owned
<1>11. CASE FindNone(c)
  <2>1. CASE cpu[c].why \in {"any", "higher"}
    BY <1>1, <1>2, <1>3, <1>11, <2>1 DEF FindNone, Return, ControlStep, CpuRecord, Owned
  <2>2. CASE cpu[c].why \notin {"any", "higher"}
    BY <1>1, <1>2, <1>3, <1>11, <2>2 DEF FindNone, Return, ControlStep, CpuRecord, Owned
  <2> QED
    BY <2>1, <2>2
<1> QED
  BY <1>4, <1>5, <1>6, <1>7, <1>8, <1>9, <1>10, <1>11

\* So they keep the invariant.
LEMMA ControlSteps ==
    ASSUME IndInv, NEW c \in CPU,
           \/ \E b \in Blocker : SchedUnblock(c, b)
           \/ UnblockEnd(c)
           \/ SchedTimer(c)
           \/ UpdateBlockersEnd(c)
           \/ PickIdle(c)
           \/ PickPreempt(c)
           \/ FindEmpty(c)
           \/ FindNone(c)
    PROVE  IndInv'
BY IsControlStep, ControlStepKeeps
-----------------------------------------------------------------------------
(* Creating threads *)

\* Thread t allocates u as a thread of process p and has it in hand.
NewRecords(t, u, p) ==
    /\ thread[t].at = "kernel"
    /\ thread[u].at = "free"
    /\ thread' \in [Thread -> ThreadRecord]
    /\ thread'[t].at = "push" /\ thread'[t].child = u
    /\ thread'[t].process = thread[t].process /\ thread'[t].killed = thread[t].killed
    /\ thread'[u].at \in {"entry", "user", "kernel"} /\ thread'[u].child = None
    /\ thread'[u].process = p /\ ~thread'[u].killed
    /\ thread'[u].blocker = None
    /\ thread'[t].blocker = thread[t].blocker
    /\ \A w \in Thread \ {t, u} : thread'[w] = thread[w]

NewRef(p) ==
    /\ process' \in [Process -> ProcessRecord]
    /\ process'[p].ref = process[p].ref + 1
    /\ \A q \in Process \ {p} : process'[q].ref = process[q].ref

NewStep(t, u, p) ==
    /\ NewRecords(t, u, p)
    /\ NewRef(p)
    /\ UNCHANGED <<list, cpu, todo, uptime, now>>

\* Such a step keeps the invariant.
LEMMA NewStepKeeps ==
    ASSUME IndInv, NEW t \in Thread, NEW u \in Thread, NEW p \in Process, NewStep(t, u, p)
    PROVE  IndInv'
<1>1. TypeOK /\ CpuControl /\ ThreadControl /\ GraveControl /\ PlacedInv /\ RefCountsThreads
  BY DEF IndInv
<1>2. TypeOK'
  BY <1>1 DEF TypeOK, NewStep, NewRecords, NewRef
<1>3. CpuControl'
  BY <1>1 DEF CpuControl, NewStep, NewRecords, NewRef
<1>4. t # u /\ thread[t].child = None /\ thread[u].child = None /\ ~thread[t].killed
  BY <1>1 DEF ThreadControl, NewStep, NewRecords, NewRef
<1>5. ThreadControl'
  <2>1. u # None /\ p # None /\ thread[t].process # None
    BY <1>1, NoneAssumption DEF ThreadControl, NewStep, NewRecords, NewRef
  <2> QED
    BY <1>1, <1>4, <2>1 DEF ThreadControl, NewStep, NewRecords, NewRef
<1>6. held' = [held EXCEPT ![ChildHand(t)] = u]
  <2>1. \A d \in CPU : Owned(d)' = Owned(d) /\ cpu'[d].pushing = cpu[d].pushing
    BY DEF Owned, NewStep, NewRecords, NewRef
  <2>2. \A w \in Thread : w # t => thread'[w].child = thread[w].child
    BY <1>4 DEF NewStep, NewRecords, NewRef
  <2>3. thread'[t].child = u
    BY DEF NewStep, NewRecords, NewRef
  <2> QED
    BY <1>1, <1>2, <2>1, <2>2, <2>3, ChildHandChanges
<1>7. allocated' = allocated \cup {u} /\ u \notin allocated
  BY <1>4 DEF allocated, NewStep, NewRecords, NewRef
<1>8. PlacedInv'
  <2>1. ChildHand(t) \in HandId /\ held[ChildHand(t)] = None
    BY <1>1, <1>4, HandsNow, HandNames DEF HandTable
  <2>2. WellPlaced(Thread, None, ListId, HandId, list,
                   [held EXCEPT ![ChildHand(t)] = u], allocated \cup {u})
    BY <1>1, <1>7, <2>1, AllocateIntoHand DEF PlacedInv
  <2>3. list' = list
    BY DEF NewStep, NewRecords, NewRef
  <2> QED
    BY <1>6, <1>7, <2>2, <2>3 DEF PlacedInv
<1>9. RefCountsThreads'
  <2>1. \A w \in Thread \ {u} : /\ thread'[w].at = "free" <=> thread[w].at = "free"
                                /\ thread'[w].process = thread[w].process
    BY DEF NewStep, NewRecords, NewRef
  <2> QED
    BY <1>1, <2>1, RefsAfterNew DEF NewStep, NewRecords, NewRef
<1>10. GraveControl'
  <2> SUFFICES ASSUME NEW c \in CPU, NEW i \in 1 .. Len(list[Graveyard(c)])
               PROVE  thread'[list[Graveyard(c)][i]].at \in {"user", "exit", "returned"}
    BY DEF GraveControl, Graveyard, NewStep, NewRecords, NewRef
  <2>1. /\ list[Graveyard(c)][i] \in Thread
        /\ thread[list[Graveyard(c)][i]].at \in {"user", "exit", "returned"}
    BY <1>1, ListNames DEF TypeOK, GraveControl
  <2> QED
    BY <2>1 DEF NewStep, NewRecords, NewRef
<1> QED
  BY <1>2, <1>3, <1>5, <1>8, <1>9, <1>10 DEF IndInv

\* thread_new and thread_split are such steps.
LEMMA IsNewStep ==
    ASSUME IndInv, NEW c \in CPU, NEW t \in Thread, NEW u \in Thread, NEW i \in Priority,
           \/ \E p \in Process : ThreadNew(c, t, u, p, i)
           \/ ThreadSplit(c, t, u, i)
    PROVE  \E p \in Process : NewStep(t, u, p)
<1>1. /\ thread \in [Thread -> ThreadRecord] /\ thread[t] \in ThreadRecord
      /\ process \in [Process -> ProcessRecord]
      /\ NEVER \in Nat
  BY TimeAssumption DEF IndInv, TypeOK, NEVER
<1>2. ASSUME NEW p \in Process, NEW program \in BOOLEAN, NEW at \in {"entry", "user", "kernel"},
             thread[t].at = "kernel", thread[u].at = "free",
             thread' = [thread EXCEPT ![u] = NewThread(p, program, at, i),
                                      ![t].at = "push", ![t].child = u]
      PROVE  NewRecords(t, u, p)
  <2> DEFINE r == [thread[t] EXCEPT !.at = "push", !.child = u]
             n == NewThread(p, program, at, i)
  <2>1. t # u
    BY <1>2
  <2>2. /\ n \in ThreadRecord /\ n.at = at /\ n.child = None /\ n.process = p /\ ~n.killed
        /\ n.blocker = None
    BY <1>1 DEF NewThread, ThreadRecord, Place
  <2>3. /\ r \in ThreadRecord /\ r.at = "push" /\ r.child = u
        /\ r.process = thread[t].process /\ r.killed = thread[t].killed
        /\ r.blocker = thread[t].blocker
    BY <1>1 DEF ThreadRecord, Place
  <2>4. thread' = [thread EXCEPT ![u] = n, ![t] = r]
    BY <1>1, <1>2, <2>1
  <2> HIDE DEF r, n
  <2>5. /\ thread' \in [Thread -> ThreadRecord] /\ thread'[t] = r /\ thread'[u] = n
        /\ \A w \in Thread \ {t, u} : thread'[w] = thread[w]
    BY <1>1, <2>1, <2>2, <2>3, <2>4
  <2> QED
    BY <1>2, <2>2, <2>3, <2>5 DEF NewRecords
<1>3. ASSUME NEW p \in Process, ThreadNew(c, t, u, p, i) PROVE NewStep(t, u, p)
  <2> DEFINE fresh == [ref |-> 1, killed |-> FALSE]
  <2>1. fresh \in ProcessRecord /\ fresh.ref = 1
    BY DEF ProcessRecord
  <2>2. process' = [process EXCEPT ![p] = fresh] /\ process[p].ref = 0
    BY <1>3 DEF ThreadNew
  <2> HIDE DEF fresh
  <2>3. NewRef(p)
    BY <1>1, <2>1, <2>2 DEF NewRef
  <2>4. NewRecords(t, u, p)
    BY <1>2, <1>3 DEF ThreadNew
  <2> QED
    BY <1>3, <2>3, <2>4 DEF ThreadNew, NewStep
<1>4. CASE ThreadSplit(c, t, u, i)
  <2>1. PICK p \in Process : p = thread[t].process
    BY <1>1, <1>4 DEF IndInv, ThreadControl, ThreadSplit, ThreadRecord
  <2>2. PICK at \in {"user", "kernel"} :
            thread' = [thread EXCEPT ![u] = NewThread(p, thread[t].program, at, i),
                                     ![t].at = "push", ![t].child = u]
    <3>1. CASE thread[t].program
      BY <1>4, <2>1, <3>1 DEF ThreadSplit
    <3>2. CASE ~thread[t].program
      BY <1>4, <2>1, <3>2 DEF ThreadSplit
    <3> QED
      BY <3>1, <3>2
  <2>3. thread[t].program \in BOOLEAN
    BY <1>1 DEF ThreadRecord
  <2>4. NewRef(p)
    BY <1>1, <1>4, <2>1 DEF ThreadSplit, TakeRef, ProcessRecord, NewRef
  <2>5. NewRecords(t, u, p)
    BY <1>2, <1>4, <2>2, <2>3 DEF ThreadSplit
  <2>6. NewStep(t, u, p)
    BY <1>4, <2>4, <2>5 DEF ThreadSplit, NewStep
  <2> QED
    BY <2>6
<1> QED
  BY <1>3, <1>4

\* So they keep the invariant.
LEMMA CreateSteps ==
    ASSUME IndInv, NEW c \in CPU, NEW t \in Thread, NEW u \in Thread, NEW i \in Priority,
           \/ \E p \in Process : ThreadNew(c, t, u, p, i)
           \/ ThreadSplit(c, t, u, i)
    PROVE  IndInv'
BY IsNewStep, NewStepKeeps
-----------------------------------------------------------------------------
(* Threads taken off and put on lists *)

\* The first thread of a list that is not empty
LEMMA FirstThread ==
    ASSUME TypeOK, PlacedInv, NEW l \in ListId, list[l] # <<>>
    PROVE  /\ Head(list[l]) \in Thread
           /\ thread[Head(list[l])].at # "free"
           /\ Head(list[l]) # None
           /\ 1 \in 1 .. Len(list[l]) /\ Head(list[l]) = list[l][1]
           /\ \A h \in HandId : held[h] # Head(list[l])
<1>1. list \in [ListId -> Seq(Thread)] /\ DOMAIN list = ListId /\ DOMAIN held = HandId
  BY HandsNow DEF TypeOK, HandTable
<1>2. 1 \in 1 .. Len(list[l]) /\ Head(list[l]) = list[l][1] /\ list[l][1] \in Thread
  BY <1>1
<1>3. list[l][1] \in allocated /\ \A h \in HandId : held[h] # list[l][1]
  BY <1>1, <1>2 DEF PlacedInv, WellPlaced, Placed, OnlyAllocated, HeldNotLinked
<1> QED
  BY <1>2, <1>3, NoneAssumption DEF allocated

\* Tail and Append keep the lists well typed and touch one list.
LEMMA ListTypes ==
    ASSUME TypeOK, NEW l \in ListId
    PROVE  /\ list[l] # <<>> => ListPop(l) \in [ListId -> Seq(Thread)]
           /\ \A t \in Thread : ListPush(l, t) \in [ListId -> Seq(Thread)]
           /\ \A k \in ListId : k # l => /\ ListPop(l)[k] = list[k]
                                         /\ \A t \in Thread : ListPush(l, t)[k] = list[k]
BY DEF TypeOK, ListPop, ListPush

\* Every thread keeps its place, its process and its child.
SameThreads ==
    /\ thread' \in [Thread -> ThreadRecord]
    /\ \A t \in Thread : /\ thread'[t].at = thread[t].at
                         /\ thread'[t].process = thread[t].process
                         /\ thread'[t].child = thread[t].child
                         /\ thread'[t].killed = thread[t].killed

\* Such a step keeps what is known of threads.
LEMMA SameThreadsKeep ==
    ASSUME ThreadControl, RefCountsThreads, SameThreads, process' = process
    PROVE  ThreadControl' /\ RefCountsThreads' /\ allocated' = allocated
<1>1. ThreadControl'
  BY DEF ThreadControl, SameThreads
<1>2. RefCountsThreads'
  BY RefsKept DEF SameThreads
<1>3. allocated' = allocated
  BY DEF allocated, SameThreads
<1> QED
  BY <1>1, <1>2, <1>3

\* CPU c takes the first thread of a blocker list in order to push it.
WakeStep(c, b) ==
    /\ list[Waiters(b)] # <<>>
    /\ list' = ListPop(Waiters(b))
    /\ SameThreads
    /\ thread'[Head(list[Waiters(b)])].blocker = None
    /\ \A x \in Thread : x # Head(list[Waiters(b)]) => thread'[x] = thread[x]
    /\ cpu[c].pc \in {"unblock", "tick"}
    /\ cpu[c].pushing = None
    /\ cpu' \in [CPU -> CpuRecord]
    /\ \A d \in CPU \ {c} : cpu'[d] = cpu[d]
    /\ cpu'[c].pushing = Head(list[Waiters(b)])
    /\ cpu'[c].pc = cpu[c].pc /\ cpu'[c].why = cpu[c].why /\ cpu'[c].runThread = cpu[c].runThread
    /\ cpu'[c].pc = "unblock" => cpu'[c].lock # None
    /\ todo' \in SUBSET Blocker
    /\ UNCHANGED <<process, uptime, now>>

\* Such a step keeps the invariant.
LEMMA WakeStepKeeps ==
    ASSUME IndInv, NEW c \in CPU, NEW b \in Blocker, WakeStep(c, b)
    PROVE  IndInv'
<1>1. TypeOK /\ CpuControl /\ ThreadControl /\ GraveControl /\ PlacedInv /\ RefCountsThreads
  BY DEF IndInv
<1> DEFINE l == Waiters(b)
<1>2. l \in ListId /\ \A d \in CPU : l # Graveyard(d) /\ Graveyard(d) \in ListId
  BY ListNames
<1>3. TypeOK'
  BY <1>1, <1>2, ListTypes DEF TypeOK, WakeStep, SameThreads
<1>4. CpuControl'
  BY <1>1 DEF CpuControl, WakeStep
<1>5. ThreadControl' /\ RefCountsThreads' /\ allocated' = allocated
  BY <1>1, SameThreadsKeep DEF WakeStep
<1>6. GraveControl'
  <2>1. \A d \in CPU : list'[Graveyard(d)] = list[Graveyard(d)]
    BY <1>1, <1>2, ListTypes DEF WakeStep
  <2> QED
    BY <1>1, <2>1, GravesKept DEF WakeStep, SameThreads
<1>7. held' = [held EXCEPT ![PushHand(c)] = Head(list[l])]
  <2>1. \A d \in CPU : Owned(d)' = Owned(d)
    BY DEF Owned, WakeStep
  <2>2. \A d \in CPU : d # c => cpu'[d].pushing = cpu[d].pushing
    BY DEF WakeStep
  <2>3. \A t \in Thread : thread'[t].child = thread[t].child
    BY DEF WakeStep, SameThreads
  <2>4. cpu'[c].pushing = Head(list[l])
    BY DEF WakeStep
  <2> QED
    BY <1>1, <1>3, <2>1, <2>2, <2>3, <2>4, PushHandChanges
<1>8. PlacedInv'
  <2>1. PushHand(c) \in HandId /\ held[PushHand(c)] = None
    BY <1>1, HandsNow, HandNames DEF HandTable, WakeStep
  <2>2. WellPlaced(Thread, None, ListId, HandId, [list EXCEPT ![l] = Tail(@)],
                   [held EXCEPT ![PushHand(c)] = Head(list[l])], allocated)
    BY <1>1, <1>2, <2>1, PopIntoHand DEF PlacedInv, WakeStep
  <2>3. list' = [list EXCEPT ![l] = Tail(@)]
    BY DEF WakeStep, ListPop
  <2> QED
    BY <1>5, <1>7, <2>2, <2>3 DEF PlacedInv
<1> QED
  BY <1>3, <1>4, <1>5, <1>6, <1>8 DEF IndInv

\* Waking a thread, in sched_unblock or by its timeout, is such a step.
LEMMA IsWakeStep ==
    ASSUME IndInv, NEW c \in CPU, UnblockPop(c) \/ \E b \in Blocker : UpdateBlocker(c, b)
    PROVE  (\E b \in Blocker : WakeStep(c, b)) \/ (ControlStep(c) /\ cpu' = cpu)
<1>1. TypeOK /\ CpuControl /\ PlacedInv
  BY DEF IndInv
<1>2. /\ thread \in [Thread -> ThreadRecord] /\ cpu \in [CPU -> CpuRecord] /\ cpu[c] \in CpuRecord
      /\ todo \in SUBSET Blocker /\ uptime \in 0 .. MaxTime /\ now \in 0 .. MaxTime
      /\ 0 \in 0 .. NEVER
  BY <1>1, TimeAssumption DEF TypeOK, NEVER
<1>3. CASE UnblockPop(c)
  <2>1. PICK b \in Blocker : cpu[c].lock = b
    BY <1>1, <1>2, <1>3 DEF UnblockPop, CpuControl, CpuRecord
  <2> DEFINE t == Head(list[Waiters(b)])
  <2>2. t \in Thread
    BY <1>1, <1>3, <2>1, FirstThread, ListNames DEF UnblockPop
  <2>3. PICK d \in CPU : cpu' = [cpu EXCEPT ![c].pushing = t, ![c].target = d]
    BY <1>3, <2>1 DEF UnblockPop
  <2>4. thread' = [thread EXCEPT ![t] = [thread[t] EXCEPT !.deadline = 0, !.result = "BLOCK_NORM",
                                                          !.blocker = None]]
    BY <1>2, <1>3, <2>1, <2>2 DEF UnblockPop, Woken
  <2>5. list[Waiters(b)] # <<>> /\ list' = ListPop(Waiters(b))
    BY <1>3, <2>1 DEF UnblockPop
  <2> HIDE DEF t
  <2>6. /\ SameThreads /\ thread'[t].blocker = None
        /\ \A x \in Thread : x # t => thread'[x] = thread[x]
    <3> DEFINE r == [thread[t] EXCEPT !.deadline = 0, !.result = "BLOCK_NORM", !.blocker = None]
    <3>1. /\ r \in ThreadRecord /\ r.at = thread[t].at /\ r.process = thread[t].process
          /\ r.child = thread[t].child /\ r.killed = thread[t].killed /\ r.blocker = None
      BY <1>2, <2>2 DEF ThreadRecord
    <3>2. thread' = [thread EXCEPT ![t] = r]
      BY <2>4
    <3> HIDE DEF r
    <3> QED
      BY <1>2, <2>2, <3>1, <3>2 DEF SameThreads
  <2>7. /\ cpu' \in [CPU -> CpuRecord]
        /\ \A e \in CPU \ {c} : cpu'[e] = cpu[e]
        /\ cpu'[c].pushing = t
        /\ cpu'[c].pc = cpu[c].pc /\ cpu'[c].why = cpu[c].why /\ cpu'[c].runThread = cpu[c].runThread
        /\ cpu'[c].lock = cpu[c].lock
    BY <1>2, <2>2, <2>3 DEF CpuRecord
  <2>8. WakeStep(c, b)
    BY <1>2, <1>3, <2>1, <2>5, <2>6, <2>7, NoneAssumption DEF UnblockPop, WakeStep, t
  <2> QED
    BY <2>8
<1>4. ASSUME NEW b \in Blocker, UpdateBlocker(c, b)
      PROVE  WakeStep(c, b) \/ (ControlStep(c) /\ cpu' = cpu)
  <2> DEFINE t == Head(list[Waiters(b)])
  <2>1. CASE list[Waiters(b)] # <<>> /\ thread[t].deadline < uptime
    <3>1. t \in Thread
      BY <1>1, <2>1, FirstThread, ListNames
    <3>2. PICK d \in CPU : cpu' = [cpu EXCEPT ![c].pushing = t, ![c].target = d, ![c].lock = b]
      BY <1>4, <2>1 DEF UpdateBlocker
    <3>3. thread' = [thread EXCEPT ![t] = [thread[t] EXCEPT !.result = "BLOCK_TIMEOUT",
                                                            !.blocker = None]]
      BY <1>2, <1>4, <2>1, <3>1 DEF UpdateBlocker
    <3>4. list' = ListPop(Waiters(b))
      BY <1>4, <2>1 DEF UpdateBlocker
    <3> HIDE DEF t
    <3>5. /\ SameThreads /\ thread'[t].blocker = None
          /\ \A x \in Thread : x # t => thread'[x] = thread[x]
      <4> DEFINE r == [thread[t] EXCEPT !.result = "BLOCK_TIMEOUT", !.blocker = None]
      <4>1. /\ r \in ThreadRecord /\ r.at = thread[t].at /\ r.process = thread[t].process
            /\ r.child = thread[t].child /\ r.killed = thread[t].killed /\ r.blocker = None
        BY <1>2, <3>1 DEF ThreadRecord
      <4>2. thread' = [thread EXCEPT ![t] = r]
        BY <3>3
      <4> HIDE DEF r
      <4> QED
        BY <1>2, <3>1, <4>1, <4>2 DEF SameThreads
    <3>6. /\ cpu' \in [CPU -> CpuRecord]
          /\ \A e \in CPU \ {c} : cpu'[e] = cpu[e]
          /\ cpu'[c].pushing = t
          /\ cpu'[c].pc = cpu[c].pc /\ cpu'[c].why = cpu[c].why
          /\ cpu'[c].runThread = cpu[c].runThread
      BY <1>2, <3>1, <3>2 DEF CpuRecord
    <3>7. WakeStep(c, b)
      BY <1>2, <1>4, <2>1, <3>4, <3>5, <3>6 DEF UpdateBlocker, WakeStep, t
    <3> QED
      BY <3>7
  <2>2. CASE ~(list[Waiters(b)] # <<>> /\ thread[t].deadline < uptime)
    <3>1. ControlStep(c) /\ cpu' = cpu
      BY <1>1, <1>2, <1>4, <2>2 DEF UpdateBlocker, ControlStep, CpuControl, Owned
    <3> QED
      BY <3>1
  <2> QED
    BY <2>1, <2>2
<1> QED
  BY <1>3, <1>4

\* So it keeps the invariant.
LEMMA WakeSteps ==
    ASSUME IndInv, NEW c \in CPU, UnblockPop(c) \/ \E b \in Blocker : UpdateBlocker(c, b)
    PROVE  IndInv'
BY IsWakeStep, WakeStepKeeps, ControlStepKeeps

\* The creator t puts the new thread u into ready queue l.
ChildPushed(t, u, l) ==
    /\ thread[t].child = u
    /\ list' = ListPush(l, u)
    /\ thread' \in [Thread -> ThreadRecord]
    /\ thread'[t].at = "kernel" /\ thread[t].at = "push" /\ thread'[t].child = None
    /\ thread'[t].process = thread[t].process /\ thread'[t].killed = thread[t].killed
    /\ \A w \in Thread \ {t} : thread'[w] = thread[w]
    /\ UNCHANGED <<process, cpu, todo, uptime, now>>

\* sched_push of a new thread is such a step.
LEMMA IsChildPushed ==
    ASSUME IndInv, NEW c \in CPU, NEW t \in Thread, PushChild(c, t)
    PROVE  \E u \in Thread, l \in QueueId : ChildPushed(t, u, l)
<1>1. TypeOK /\ CpuControl /\ ThreadControl /\ GraveControl /\ PlacedInv /\ RefCountsThreads
  BY DEF IndInv
<1>2. thread \in [Thread -> ThreadRecord] /\ thread[t] \in ThreadRecord
  BY <1>1 DEF TypeOK
<1>3. PICK u \in Thread : thread[t].child = u
  BY <1>1, <1>2 DEF PushChild, ThreadControl, ThreadRecord
<1>4. thread[u].priority \in Priority
  BY <1>1 DEF TypeOK, ThreadRecord
<1>5. PICK l \in QueueId : list' = ListPush(l, u)
  BY <1>3, <1>4 DEF PushChild, QueueId
<1>7. /\ thread' \in [Thread -> ThreadRecord]
      /\ thread'[t].at = "kernel" /\ thread[t].at = "push" /\ thread'[t].child = None
      /\ thread'[t].process = thread[t].process /\ thread'[t].killed = thread[t].killed
      /\ \A w \in Thread \ {t} : thread'[w] = thread[w]
  <2> DEFINE r == [thread[t] EXCEPT !.at = "kernel", !.child = None]
  <2>1. /\ r \in ThreadRecord /\ r.at = "kernel" /\ r.child = None
        /\ r.process = thread[t].process /\ r.killed = thread[t].killed
    BY <1>2 DEF ThreadRecord, Place
  <2>2. thread' = [thread EXCEPT ![t] = r] /\ thread[t].at = "push"
    BY <1>2 DEF PushChild
  <2> HIDE DEF r
  <2> QED
    BY <1>2, <2>1, <2>2
<1>8. UNCHANGED <<process, cpu, todo, uptime, now>>
  BY DEF PushChild
<1> QED
  BY <1>3, <1>5, <1>7, <1>8 DEF ChildPushed

\* sched_push of a new thread keeps the invariant.
LEMMA PushChildStep ==
    ASSUME IndInv, NEW c \in CPU, NEW t \in Thread, PushChild(c, t)
    PROVE  IndInv'
<1>1. TypeOK /\ CpuControl /\ ThreadControl /\ GraveControl /\ PlacedInv /\ RefCountsThreads
  BY DEF IndInv
<1>2. PICK u \in Thread, l \in QueueId : ChildPushed(t, u, l)
  BY IsChildPushed
<1>3. thread[t].child = u
  BY <1>2 DEF ChildPushed
<1>5. list' = ListPush(l, u)
  BY <1>2 DEF ChildPushed
<1>6. l \in ListId /\ \A d \in CPU : l # Graveyard(d) /\ Graveyard(d) \in ListId
  BY ListNames DEF QueueId, ListId
<1>7. /\ thread' \in [Thread -> ThreadRecord]
      /\ thread'[t].at = "kernel" /\ thread[t].at = "push" /\ thread'[t].child = None
      /\ thread'[t].process = thread[t].process /\ thread'[t].killed = thread[t].killed
      /\ \A w \in Thread \ {t} : thread'[w] = thread[w]
  BY <1>2 DEF ChildPushed
<1>8. UNCHANGED <<process, cpu, todo, uptime, now>>
  BY <1>2 DEF ChildPushed
<1>9. TypeOK'
  BY <1>1, <1>5, <1>6, <1>7, <1>8, ListTypes DEF TypeOK
<1>10. CpuControl'
  BY <1>1, <1>8 DEF CpuControl
<1>11. ThreadControl'
  BY <1>1, <1>7 DEF ThreadControl
<1>12. RefCountsThreads'
  <2>1. \A w \in Thread : /\ thread'[w].at = "free" <=> thread[w].at = "free"
                          /\ thread'[w].process = thread[w].process
    BY <1>7
  <2> QED
    BY <1>1, <1>8, <2>1, RefsKept
<1>13. allocated' = allocated
  BY <1>7 DEF allocated
<1>14. held' = [held EXCEPT ![ChildHand(t)] = None]
  <2>1. \A d \in CPU : Owned(d)' = Owned(d) /\ cpu'[d].pushing = cpu[d].pushing
    BY <1>8 DEF Owned
  <2>2. \A w \in Thread : w # t => thread'[w].child = thread[w].child
    BY <1>7
  <2> QED
    BY <1>1, <1>7, <1>9, <2>1, <2>2, ChildHandChanges
<1>15. PlacedInv'
  <2>1. ChildHand(t) \in HandId /\ held[ChildHand(t)] = u /\ u # None
    BY <1>1, <1>3, HandsNow, HandNames, NoneAssumption DEF HandTable
  <2>2. WellPlaced(Thread, None, ListId, HandId, [list EXCEPT ![l] = Append(@, u)],
                   [held EXCEPT ![ChildHand(t)] = None], allocated)
    BY <1>1, <1>6, <2>1, AppendFromHand DEF PlacedInv
  <2>3. list' = [list EXCEPT ![l] = Append(@, u)]
    BY <1>5 DEF ListPush
  <2> QED
    BY <1>13, <1>14, <2>2, <2>3 DEF PlacedInv
<1>16. GraveControl'
  <2> SUFFICES ASSUME NEW d \in CPU, NEW i \in 1 .. Len(list[Graveyard(d)])
               PROVE  thread'[list[Graveyard(d)][i]].at \in {"user", "exit", "returned"}
    <3>1. \A d \in CPU : list'[Graveyard(d)] = list[Graveyard(d)]
      BY <1>1, <1>5, <1>6, ListTypes
    <3> QED
      BY <3>1 DEF GraveControl, Graveyard
  <2>1. /\ list[Graveyard(d)][i] \in Thread
        /\ thread[list[Graveyard(d)][i]].at \in {"user", "exit", "returned"}
    BY <1>1, ListNames DEF TypeOK, GraveControl
  <2> QED
    BY <1>7, <2>1
<1> QED
  BY <1>9, <1>10, <1>11, <1>12, <1>15, <1>16 DEF IndInv

\* CPU c puts the woken thread t into ready queue l.
WokenPushed(c, t, l) ==
    /\ cpu[c].pushing = t
    /\ list' = ListPush(l, t)
    /\ cpu' \in [CPU -> CpuRecord]
    /\ \A d \in CPU \ {c} : cpu'[d] = cpu[d]
    /\ cpu'[c].pushing = None
    /\ cpu'[c].pc = cpu[c].pc /\ cpu'[c].why = cpu[c].why /\ cpu'[c].runThread = cpu[c].runThread
    /\ cpu[c].pc # "tick" => cpu'[c].lock = cpu[c].lock
    /\ UNCHANGED <<thread, process, todo, uptime, now>>

\* The end of sched_push is such a step.
LEMMA IsWokenPushed ==
    ASSUME IndInv, NEW c \in CPU, SchedPush(c)
    PROVE  \E t \in Thread, l \in QueueId : WokenPushed(c, t, l)
<1>1. TypeOK /\ CpuControl /\ ThreadControl /\ GraveControl /\ PlacedInv /\ RefCountsThreads
  BY DEF IndInv
<1>2. cpu \in [CPU -> CpuRecord] /\ cpu[c] \in CpuRecord
  BY <1>1 DEF TypeOK
<1>3. PICK t \in Thread : cpu[c].pushing = t
  BY <1>1, <1>2 DEF SchedPush, CpuRecord
<1>4. thread[t].priority \in Priority /\ cpu[c].target \in CPU
  BY <1>1, <1>2 DEF TypeOK, ThreadRecord, CpuRecord
<1>5. PICK l \in QueueId : list' = ListPush(l, t)
  BY <1>3, <1>4 DEF SchedPush, QueueId
<1>7. /\ cpu' \in [CPU -> CpuRecord]
      /\ \A d \in CPU \ {c} : cpu'[d] = cpu[d]
      /\ cpu'[c].pushing = None
      /\ cpu'[c].pc = cpu[c].pc /\ cpu'[c].why = cpu[c].why /\ cpu'[c].runThread = cpu[c].runThread
      /\ cpu[c].pc # "tick" => cpu'[c].lock = cpu[c].lock
  <2> DEFINE lock == IF cpu[c].pc = "tick" THEN None ELSE cpu[c].lock
             r == [cpu[c] EXCEPT !.pushing = None, !.target = 0, !.lock = lock]
  <2>1. lock \in Blocker \cup {None} /\ (cpu[c].pc # "tick" => lock = cpu[c].lock)
    BY <1>2 DEF CpuRecord
  <2>2. cpu' = [cpu EXCEPT ![c] = r]
    BY <1>2 DEF SchedPush
  <2>3. 0 \in CPU
    BY CpuAssumption DEF CPU
  <2> HIDE DEF lock
  <2>4. /\ r \in CpuRecord /\ r.pushing = None /\ r.lock = lock
        /\ r.pc = cpu[c].pc /\ r.why = cpu[c].why /\ r.runThread = cpu[c].runThread
    BY <1>2, <2>1, <2>3 DEF CpuRecord
  <2> HIDE DEF r
  <2> QED
    BY <1>2, <2>1, <2>2, <2>4
<1>8. UNCHANGED <<thread, process, todo, uptime, now>>
  BY DEF SchedPush
<1> QED
  BY <1>3, <1>5, <1>7, <1>8 DEF WokenPushed

\* The end of sched_push for a woken thread keeps the invariant.
LEMMA SchedPushStep ==
    ASSUME IndInv, NEW c \in CPU, SchedPush(c)
    PROVE  IndInv'
<1>1. TypeOK /\ CpuControl /\ ThreadControl /\ GraveControl /\ PlacedInv /\ RefCountsThreads
  BY DEF IndInv
<1>2. PICK t \in Thread, l \in QueueId : WokenPushed(c, t, l)
  BY IsWokenPushed
<1>3. cpu[c].pushing = t
  BY <1>2 DEF WokenPushed
<1>5. list' = ListPush(l, t)
  BY <1>2 DEF WokenPushed
<1>6. l \in ListId /\ \A d \in CPU : l # Graveyard(d) /\ Graveyard(d) \in ListId
  BY ListNames DEF QueueId, ListId
<1>7. /\ cpu' \in [CPU -> CpuRecord]
      /\ \A d \in CPU \ {c} : cpu'[d] = cpu[d]
      /\ cpu'[c].pushing = None
      /\ cpu'[c].pc = cpu[c].pc /\ cpu'[c].why = cpu[c].why /\ cpu'[c].runThread = cpu[c].runThread
      /\ cpu[c].pc # "tick" => cpu'[c].lock = cpu[c].lock
  BY <1>2 DEF WokenPushed
<1>8. UNCHANGED <<thread, process, todo, uptime, now>>
  BY <1>2 DEF WokenPushed
<1>9. TypeOK'
  BY <1>1, <1>5, <1>6, <1>7, <1>8, ListTypes DEF TypeOK
<1>10. CpuControl'
  BY <1>1, <1>7 DEF CpuControl
<1>11. ThreadControl' /\ RefCountsThreads' /\ allocated' = allocated
  BY <1>1, <1>8 DEF ThreadControl, RefCountsThreads, allocated
<1>12. held' = [held EXCEPT ![PushHand(c)] = None]
  <2>1. \A d \in CPU : Owned(d)' = Owned(d)
    BY <1>7 DEF Owned
  <2>2. \A d \in CPU : d # c => cpu'[d].pushing = cpu[d].pushing
    BY <1>7
  <2>3. \A w \in Thread : thread'[w].child = thread[w].child
    BY <1>8
  <2> QED
    BY <1>1, <1>7, <1>9, <2>1, <2>2, <2>3, PushHandChanges
<1>13. PlacedInv'
  <2>1. PushHand(c) \in HandId /\ held[PushHand(c)] = t /\ t # None
    BY <1>1, <1>3, HandsNow, HandNames, NoneAssumption DEF HandTable
  <2>2. WellPlaced(Thread, None, ListId, HandId, [list EXCEPT ![l] = Append(@, t)],
                   [held EXCEPT ![PushHand(c)] = None], allocated)
    BY <1>1, <1>6, <2>1, AppendFromHand DEF PlacedInv
  <2>3. list' = [list EXCEPT ![l] = Append(@, t)]
    BY <1>5 DEF ListPush
  <2> QED
    BY <1>11, <1>12, <2>2, <2>3 DEF PlacedInv
<1>14. GraveControl'
  <2>1. \A d \in CPU : list'[Graveyard(d)] = list[Graveyard(d)]
    BY <1>1, <1>5, <1>6, ListTypes
  <2> QED
    BY <1>1, <1>8, <2>1, GravesKept
<1> QED
  BY <1>9, <1>10, <1>11, <1>13, <1>14 DEF IndInv

\* Where the search for a thread starts and ends
LEMMA TopLevel == PRIORITY_MAX \in -1 .. PRIORITY_MAX /\ -1 \in -1 .. PRIORITY_MAX
BY PriorityAssumption

\* CPU c buries the thread t it runs.
Buried(c, t) ==
    /\ cpu[c].runThread = t
    /\ list' = ListPush(Graveyard(c), t) /\ list[Graveyard(c)] = <<>>
    /\ MustDie(t) /\ cpu[c].pc = "graveyard"
    /\ thread[t].at \in {"user", "exit", "returned"}
    /\ cpu' \in [CPU -> CpuRecord]
    /\ \A d \in CPU \ {c} : cpu'[d] = cpu[d]
    /\ cpu'[c].pushing = cpu[c].pushing
    /\ cpu'[c].pc = "find" /\ cpu'[c].why = "idle" /\ cpu'[c].runThread = None
    /\ UNCHANGED <<thread, process, todo, uptime, now>>

\* sched_update_graveyard for the running thread is such a step.
LEMMA IsBuried ==
    ASSUME IndInv, NEW c \in CPU, GraveyardPush(c)
    PROVE  \E t \in Thread : Buried(c, t)
<1>1. TypeOK /\ CpuControl /\ ThreadControl /\ GraveControl /\ PlacedInv /\ RefCountsThreads
  BY DEF IndInv
<1>2. cpu \in [CPU -> CpuRecord] /\ cpu[c] \in CpuRecord
  BY <1>1 DEF TypeOK
<1>3. PICK t \in Thread : cpu[c].runThread = t
  BY <1>1, <1>2 DEF GraveyardPush, CpuRecord
<1> DEFINE l == Graveyard(c)
<1>4. l \in ListId /\ \A d \in CPU : Graveyard(d) \in ListId /\ (d # c => Graveyard(d) # l)
  BY ListNames
<1>5. list' = ListPush(l, t) /\ list[l] = <<>> /\ MustDie(t) /\ cpu[c].pc = "graveyard"
  BY <1>3 DEF GraveyardPush
<1>6. thread[t].at \in {"user", "exit", "returned"}
  BY <1>1, <1>5 DEF MustDie, InUserMode, ThreadControl
<1>7. /\ cpu' \in [CPU -> CpuRecord]
      /\ \A d \in CPU \ {c} : cpu'[d] = cpu[d]
      /\ cpu'[c].pushing = cpu[c].pushing
      /\ cpu'[c].pc = "find" /\ cpu'[c].why = "idle" /\ cpu'[c].runThread = None
  <2> DEFINE r == [cpu[c] EXCEPT !.pc = "find", !.why = "idle", !.level = PRIORITY_MAX,
                                 !.runThread = None]
  <2>1. cpu' = [cpu EXCEPT ![c] = r]
    BY <1>2 DEF GraveyardPush, GiveUp, StartFind
  <2>2. /\ r \in CpuRecord /\ r.pushing = cpu[c].pushing
        /\ r.pc = "find" /\ r.why = "idle" /\ r.runThread = None
    BY <1>2, TopLevel DEF CpuRecord
  <2> HIDE DEF r
  <2> QED
    BY <1>2, <2>1, <2>2
<1>8. UNCHANGED <<thread, process, todo, uptime, now>>
  BY DEF GraveyardPush
<1> QED
  BY <1>3, <1>5, <1>6, <1>7, <1>8 DEF Buried

\* sched_update_graveyard burying the running thread keeps the invariant.
LEMMA GraveyardPushStep ==
    ASSUME IndInv, NEW c \in CPU, GraveyardPush(c)
    PROVE  IndInv'
<1>1. TypeOK /\ CpuControl /\ ThreadControl /\ GraveControl /\ PlacedInv /\ RefCountsThreads
  BY DEF IndInv
<1>2. PICK t \in Thread : Buried(c, t)
  BY IsBuried
<1>3. cpu[c].runThread = t
  BY <1>2 DEF Buried
<1> DEFINE l == Graveyard(c)
<1>4. l \in ListId /\ \A d \in CPU : Graveyard(d) \in ListId /\ (d # c => Graveyard(d) # l)
  BY ListNames
<1>5. list' = ListPush(l, t) /\ list[l] = <<>> /\ cpu[c].pc = "graveyard"
  BY <1>2 DEF Buried
<1>6. thread[t].at \in {"user", "exit", "returned"}
  BY <1>2 DEF Buried
<1>7. /\ cpu' \in [CPU -> CpuRecord]
      /\ \A d \in CPU \ {c} : cpu'[d] = cpu[d]
      /\ cpu'[c].pushing = cpu[c].pushing
      /\ cpu'[c].pc = "find" /\ cpu'[c].why = "idle" /\ cpu'[c].runThread = None
  BY <1>2 DEF Buried
<1>8. UNCHANGED <<thread, process, todo, uptime, now>>
  BY <1>2 DEF Buried
<1>9. TypeOK'
  BY <1>1, <1>4, <1>5, <1>7, <1>8, ListTypes DEF TypeOK
<1>10. cpu[c].pushing = None
  BY <1>1, <1>5 DEF CpuControl
<1>11. CpuControl'
  BY <1>1, <1>7, <1>10 DEF CpuControl
<1>12. ThreadControl' /\ RefCountsThreads' /\ allocated' = allocated
  BY <1>1, <1>8 DEF ThreadControl, RefCountsThreads, allocated
<1>13. Owned(c) = t /\ Owned(c)' = None
  BY <1>3, <1>5, <1>7 DEF Owned
<1>14. held' = [held EXCEPT ![RunHand(c)] = None]
  <2>1. \A d \in CPU : d # c => Owned(d)' = Owned(d)
    BY <1>7 DEF Owned
  <2>2. \A d \in CPU : cpu'[d].pushing = cpu[d].pushing
    BY <1>7
  <2>3. \A w \in Thread : thread'[w].child = thread[w].child
    BY <1>8
  <2> QED
    BY <1>1, <1>9, <1>13, <2>1, <2>2, <2>3, RunHandChanges
<1>15. PlacedInv'
  <2>1. RunHand(c) \in HandId /\ held[RunHand(c)] = t /\ t # None
    BY <1>1, <1>13, HandsNow, HandNames, NoneAssumption DEF HandTable
  <2>2. WellPlaced(Thread, None, ListId, HandId, [list EXCEPT ![l] = Append(@, t)],
                   [held EXCEPT ![RunHand(c)] = None], allocated)
    BY <1>1, <1>4, <2>1, AppendFromHand DEF PlacedInv
  <2>3. list' = [list EXCEPT ![l] = Append(@, t)]
    BY <1>5 DEF ListPush
  <2> QED
    BY <1>12, <1>14, <2>2, <2>3 DEF PlacedInv
<1>16. GraveControl'
  <2>1. \A d \in CPU : d # c => list'[Graveyard(d)] = list[Graveyard(d)]
    BY <1>1, <1>4, <1>5, ListTypes
  <2>2. list'[l] = <<t>>
    BY <1>1, <1>4, <1>5 DEF ListPush, TypeOK
  <2>3. \A d \in CPU : \A i \in 1 .. Len(list'[Graveyard(d)]) :
            thread[list'[Graveyard(d)][i]].at \in {"user", "exit", "returned"}
    BY <1>1, <1>6, <2>1, <2>2 DEF GraveControl
  <2> QED
    BY <1>8, <2>3 DEF GraveControl, Graveyard
<1> QED
  BY <1>9, <1>11, <1>12, <1>15, <1>16 DEF IndInv

\* CPU c puts the thread t it runs into the list of blocker b, at place p.
Slept(c, t, b, p) ==
    /\ cpu[c].runThread = t
    /\ thread[t].blocker = b
    /\ ~thread[t].killed
    /\ p \in 1 .. Len(list[Waiters(b)]) + 1
    /\ IsInsertPosition(list[Waiters(b)], t, p)
    /\ Inserted(Thread, ListId, list, list', Waiters(b), p, t)
    /\ cpu[c].pc = "graveyard"
    /\ cpu' \in [CPU -> CpuRecord]
    /\ \A d \in CPU \ {c} : cpu'[d] = cpu[d]
    /\ cpu'[c].pushing = cpu[c].pushing
    /\ cpu'[c].pc = "find" /\ cpu'[c].why = "blocked" /\ cpu'[c].runThread = t
    /\ UNCHANGED <<thread, process, todo, uptime, now>>

\* blocker_push of the running thread is such a step.
LEMMA IsSlept ==
    ASSUME IndInv, NEW c \in CPU, PickBlock(c)
    PROVE  \E t \in Thread, b \in Blocker : \E p : Slept(c, t, b, p)
<1>1. TypeOK /\ CpuControl /\ ThreadControl /\ GraveControl /\ PlacedInv /\ RefCountsThreads
  BY DEF IndInv
<1>2. cpu \in [CPU -> CpuRecord] /\ cpu[c] \in CpuRecord
  BY <1>1 DEF TypeOK
<1>3. PICK t \in Thread : cpu[c].runThread = t
  BY <1>1, <1>2 DEF PickBlock, CpuRecord
<1>4. PICK b \in Blocker : thread[t].blocker = b
  BY <1>1, <1>3 DEF PickBlock, TypeOK, ThreadRecord
<1> DEFINE l == Waiters(b)
<1>5. l \in ListId /\ \A d \in CPU : l # Graveyard(d) /\ Graveyard(d) \in ListId
  BY ListNames
<1>6. PICK p \in 1 .. Len(list[l]) + 1 :
        /\ IsInsertPosition(list[l], t, p)
        /\ list' = [list EXCEPT ![l] = InsertAt(@, p, t)]
  BY <1>3, <1>4 DEF PickBlock, BlockerPush
<1>7. cpu[c].pc = "graveyard" /\ UNCHANGED <<thread, process, todo, uptime, now>>
  BY DEF PickBlock
<1>8. Inserted(Thread, ListId, list, list', l, p, t)
  <2>1. list \in [ListId -> Seq(Thread)] /\ list[l] \in Seq(Thread)
    BY <1>1, <1>5 DEF TypeOK
  <2>0. PICK q \in Seq(Thread) : q = list[l]
    BY <2>1
  <2> DEFINE s == InsertAt(q, p, t)
  <2>2. /\ s \in Seq(Thread) /\ Len(s) = Len(list[l]) + 1 /\ s[p] = t
        /\ \A i \in 1 .. p - 1 : s[i] = list[l][i]
        /\ \A i \in p + 1 .. Len(list[l]) + 1 : s[i] = list[l][i - 1]
    <3>1. p \in 1 .. Len(q) + 1
      BY <2>0
    <3>2. Widened(Thread, q, s, p, t)
      BY <3>1, InsertAtInserts
    <3> HIDE DEF s
    <3> QED
      BY <2>0, <3>2 DEF Widened
  <2>3. list' = [list EXCEPT ![l] = s]
    BY <1>6, <2>0
  <2> HIDE DEF s, l
  <2>4. list' \in [ListId -> Seq(Thread)] /\ list'[l] = s /\ \A k \in ListId : k # l => list'[k] = list[k]
    BY <1>5, <2>1, <2>2, <2>3
  <2> QED
    BY <2>2, <2>4 DEF Inserted
<1>9. /\ cpu' \in [CPU -> CpuRecord]
      /\ \A d \in CPU \ {c} : cpu'[d] = cpu[d]
      /\ cpu'[c].pushing = cpu[c].pushing
      /\ cpu'[c].pc = "find" /\ cpu'[c].why = "blocked" /\ cpu'[c].runThread = t
  <2> DEFINE r == [cpu[c] EXCEPT !.pc = "find", !.why = "blocked", !.level = PRIORITY_MAX]
  <2>1. cpu' = [cpu EXCEPT ![c] = r]
    BY <1>2 DEF PickBlock, StartFind
  <2>2. /\ r \in CpuRecord /\ r.pushing = cpu[c].pushing
        /\ r.pc = "find" /\ r.why = "blocked" /\ r.runThread = t
    BY <1>2, <1>3, TopLevel DEF CpuRecord
  <2> HIDE DEF r
  <2> QED
    BY <1>2, <2>1, <2>2
<1>10. ~thread[t].killed
  BY <1>3 DEF PickBlock, MustDie
<1>11. Slept(c, t, b, p)
  BY <1>3, <1>4, <1>6, <1>7, <1>8, <1>9, <1>10 DEF Slept
<1> QED
  BY <1>11

\* blocker_push of the running thread keeps the invariant.
LEMMA PickBlockStep ==
    ASSUME IndInv, NEW c \in CPU, PickBlock(c)
    PROVE  IndInv'
<1>1. TypeOK /\ CpuControl /\ ThreadControl /\ GraveControl /\ PlacedInv /\ RefCountsThreads
  BY DEF IndInv
<1>2. PICK t \in Thread, b \in Blocker : \E p : Slept(c, t, b, p)
  BY IsSlept
<1>3. cpu[c].runThread = t
  BY <1>2 DEF Slept
<1> DEFINE l == Waiters(b)
<1>5. l \in ListId /\ \A d \in CPU : l # Graveyard(d) /\ Graveyard(d) \in ListId
  BY ListNames
<1>6. PICK p : Inserted(Thread, ListId, list, list', l, p, t)
  BY <1>2 DEF Slept
<1>7. cpu[c].pc = "graveyard" /\ UNCHANGED <<thread, process, todo, uptime, now>>
  BY <1>2 DEF Slept
<1>8. Inserted(Thread, ListId, list, list', l, p, t)
  BY <1>6
<1>9. /\ cpu' \in [CPU -> CpuRecord]
      /\ \A d \in CPU \ {c} : cpu'[d] = cpu[d]
      /\ cpu'[c].pushing = cpu[c].pushing
      /\ cpu'[c].pc = "find" /\ cpu'[c].why = "blocked" /\ cpu'[c].runThread = t
  BY <1>2 DEF Slept
<1>10. TypeOK'
  BY <1>1, <1>7, <1>8, <1>9 DEF TypeOK, Inserted
<1>11. cpu[c].pushing = None /\ t # None
  BY <1>1, <1>7, NoneAssumption DEF CpuControl
<1>12. CpuControl'
  BY <1>1, <1>9, <1>11 DEF CpuControl
<1>13. ThreadControl' /\ RefCountsThreads' /\ allocated' = allocated
  BY <1>1, <1>7 DEF ThreadControl, RefCountsThreads, allocated
<1>14. Owned(c) = t /\ Owned(c)' = None
  BY <1>3, <1>7, <1>9 DEF Owned
<1>15. held' = [held EXCEPT ![RunHand(c)] = None]
  <2>1. \A d \in CPU : d # c => Owned(d)' = Owned(d)
    BY <1>9 DEF Owned
  <2>2. \A d \in CPU : cpu'[d].pushing = cpu[d].pushing
    BY <1>9
  <2>3. \A w \in Thread : thread'[w].child = thread[w].child
    BY <1>7
  <2> QED
    BY <1>1, <1>10, <1>14, <2>1, <2>2, <2>3, RunHandChanges
<1>16. PlacedInv'
  <2>1. RunHand(c) \in HandId /\ held[RunHand(c)] = t /\ t # None
    BY <1>1, <1>11, <1>14, HandsNow, HandNames DEF HandTable
  <2>2. WellPlaced(Thread, None, ListId, HandId, list',
                   [held EXCEPT ![RunHand(c)] = None], allocated)
    BY <1>1, <1>5, <1>8, <2>1, LinkFromHand DEF PlacedInv
  <2> QED
    BY <1>13, <1>15, <2>2 DEF PlacedInv
<1>17. GraveControl'
  <2>1. \A d \in CPU : list'[Graveyard(d)] = list[Graveyard(d)]
    BY <1>5, <1>8 DEF Inserted
  <2> QED
    BY <1>1, <1>7, <2>1, GravesKept
<1> QED
  BY <1>10, <1>12, <1>13, <1>16, <1>17 DEF IndInv

\* CPU c frees the first thread of a list.
FreeStep(c, l) ==
    /\ list[l] # <<>>
    /\ list' = ListPop(l)
    /\ thread[Head(list[l])].at # "push"
    /\ ThreadFree(Head(list[l]))
    /\ cpu[c].pc \in {"graveyard", "find"}
    /\ cpu' \in [CPU -> CpuRecord]
    /\ \A d \in CPU \ {c} : cpu'[d] = cpu[d]
    /\ cpu'[c].pushing = cpu[c].pushing
    /\ cpu'[c].pc = cpu[c].pc /\ cpu'[c].why = cpu[c].why /\ cpu'[c].runThread = cpu[c].runThread
    /\ UNCHANGED <<todo, uptime, now>>

\* Such a step keeps the invariant.
LEMMA FreeStepKeeps ==
    ASSUME IndInv, NEW c \in CPU, NEW l \in ListId, FreeStep(c, l)
    PROVE  IndInv'
<1>1. TypeOK /\ CpuControl /\ ThreadControl /\ GraveControl /\ PlacedInv /\ RefCountsThreads
  BY DEF IndInv
<1>2. list \in [ListId -> Seq(Thread)] /\ thread \in [Thread -> ThreadRecord] /\ list[l] # <<>>
  BY <1>1 DEF TypeOK, FreeStep
<1>3. PICK t \in Thread : t = Head(list[l])
  BY <1>1, <1>2, FirstThread
<1>4. thread[t].at # "free" /\ t = list[l][1] /\ 1 \in 1 .. Len(list[l])
  BY <1>1, <1>2, <1>3, FirstThread
<1>5. ThreadFree(t) /\ list' = ListPop(l) /\ thread[t].at # "push" /\ thread[t].child = None
  BY <1>1, <1>3 DEF FreeStep, ThreadControl
<1>6. FreeThread \in ThreadRecord
  BY TimeAssumption, PriorityAssumption
  DEF FreeThread, NewThread, ThreadRecord, Place, Priority, NEVER
<1>7. FreeThread.at = "free" /\ FreeThread.child = None /\ FreeThread.process = None /\ ~FreeThread.killed
  BY DEF FreeThread, NewThread
<1>8. thread' = [thread EXCEPT ![t] = FreeThread]
  BY <1>5 DEF ThreadFree
<1> HIDE DEF FreeThread
<1>9. /\ thread' \in [Thread -> ThreadRecord] /\ thread'[t] = FreeThread
      /\ \A w \in Thread \ {t} : thread'[w] = thread[w]
  BY <1>2, <1>6, <1>8
<1>10. process' \in [Process -> ProcessRecord] /\ RefCountsThreads'
  BY <1>1, <1>4, <1>5, RefsAfterFree
<1>11. TypeOK'
  BY <1>1, <1>2, <1>5, <1>9, <1>10, ListTypes DEF TypeOK, FreeStep
<1>12. CpuControl'
  BY <1>1 DEF CpuControl, FreeStep
<1>13. ThreadControl'
  BY <1>1, <1>7, <1>9 DEF ThreadControl
<1>14. held' = held
  <2>1. \A d \in CPU : Owned(d)' = Owned(d) /\ cpu'[d].pushing = cpu[d].pushing
    BY DEF Owned, FreeStep
  <2>2. \A w \in Thread : thread'[w].child = thread[w].child
    BY <1>5, <1>7, <1>9
  <2> QED
    BY <1>1, <1>11, <2>1, <2>2, SameHands
<1>15. allocated' = allocated \ {t}
  BY <1>7, <1>9 DEF allocated
<1>16. PlacedInv'
  <2> DEFINE h == PushHand(c)
             H == [held EXCEPT ![h] = t]
             L == [list EXCEPT ![l] = Tail(@)]
  <2>1. h \in HandId /\ held[h] = None /\ held \in [HandId -> Thread \cup {None}]
    BY <1>1, HandsNow, HandNames DEF HandTable, CpuControl, FreeStep
  <2>2. WellPlaced(Thread, None, ListId, HandId, L, H, allocated)
    BY <1>1, <1>2, <1>3, <2>1, PopIntoHand DEF PlacedInv
  <2>3. H[h] = t /\ t # None /\ [H EXCEPT ![h] = None] = held
    BY <2>1, NoneAssumption
  <2> HIDE DEF H, L, h
  <2>4. WellPlaced(Thread, None, ListId, HandId, L, [H EXCEPT ![h] = None], allocated \ {H[h]})
    BY <2>1, <2>2, <2>3, FreeFromHand
  <2>5. list' = L
    BY <1>5 DEF L, ListPop
  <2> QED
    BY <1>14, <1>15, <2>3, <2>4, <2>5 DEF PlacedInv
<1>17. GraveControl'
  <2> SUFFICES ASSUME NEW d \in CPU, NEW i \in 1 .. Len(list'[Graveyard(d)])
               PROVE  thread'[list'[Graveyard(d)][i]].at \in {"user", "exit", "returned"}
    BY DEF GraveControl, Graveyard
  <2> DEFINE k == Graveyard(d)
  <2>1. k \in ListId /\ DOMAIN list = ListId
    BY <1>2, ListNames
  <2>2. LinkedOnce(list)
    BY <1>1 DEF PlacedInv, WellPlaced, Placed
  <2>3. PICK j \in 1 .. Len(list[k]) : list'[k][i] = list[k][j] /\ (k = l => j # 1)
    <3>1. CASE k = l
      <4>1. i + 1 \in 1 .. Len(list[k]) /\ list'[k][i] = list[k][i + 1] /\ i + 1 # 1
        BY <1>2, <1>5, <2>1, <3>1 DEF ListPop
      <4> QED
        BY <4>1
    <3>2. CASE k # l
      BY <1>2, <1>5, <2>1, <3>2 DEF ListPop
    <3> QED
      BY <3>1, <3>2
  <2>4. list[k][j] # t
    BY <1>4, <2>1, <2>2, <2>3 DEF LinkedOnce
  <2>5. list[k][j] \in Thread
    BY <1>2, <2>1
  <2>6. thread[list[k][j]].at \in {"user", "exit", "returned"}
    BY <1>1 DEF GraveControl
  <2> QED
    BY <1>9, <2>3, <2>4, <2>5, <2>6
<1> QED
  BY <1>10, <1>11, <1>12, <1>13, <1>16, <1>17 DEF IndInv

\* Emptying the graveyard and dropping a ready thread of a killed process are
\* such steps.
LEMMA IsFreeStep ==
    ASSUME IndInv, NEW c \in CPU, GraveyardFree(c) \/ FindKilled(c)
    PROVE  \E l \in ListId : l \in GraveyardId \cup QueueId /\ FreeStep(c, l)
<1>1. TypeOK /\ CpuControl /\ GraveControl /\ PlacedInv
  BY DEF IndInv
<1>2. cpu \in [CPU -> CpuRecord] /\ cpu[c] \in CpuRecord /\ thread \in [Thread -> ThreadRecord]
  BY <1>1 DEF TypeOK
<1>3. CASE GraveyardFree(c)
  <2>1. Graveyard(c) \in ListId /\ list[Graveyard(c)] # <<>>
    BY <1>3, ListNames DEF GraveyardFree
  <2>2. thread[Head(list[Graveyard(c)])].at # "push"
    BY <1>1, <2>1, FirstThread DEF GraveControl
  <2>3. FreeStep(c, Graveyard(c))
    BY <1>2, <1>3, <2>2 DEF GraveyardFree, FreeStep
  <2> QED
    BY <2>1, <2>3 DEF GraveyardId
<1>4. CASE FindKilled(c)
  <2> DEFINE l == Queue(c, cpu[c].level)
  <2>1. cpu[c].level \in Priority
    BY <1>1, <1>2, <1>4 DEF FindKilled, Floor, CpuControl, CpuRecord, ThreadRecord, Priority
  <2>2. l \in ListId
    BY <2>1, ListNames
  <2>3. thread[Head(list[l])].at # "push"
    BY <1>4 DEF FindKilled, InUserMode
  <2>4. FreeStep(c, l)
    BY <1>2, <1>4, <2>3, TopLevel DEF FindKilled, FreeStep, CpuRecord
  <2> QED
    BY <2>1, <2>2, <2>4 DEF QueueId
<1> QED
  BY <1>3, <1>4

\* So they keep the invariant.
LEMMA FreeSteps ==
    ASSUME IndInv, NEW c \in CPU, GraveyardFree(c) \/ FindKilled(c)
    PROVE  IndInv'
BY IsFreeStep, FreeStepKeeps

\* CPU c takes the first thread u of its queue l, and the thread it ran goes
\* back to a queue or is no longer its own.
Dispatched(c, u, l) ==
    /\ cpu[c].pc = "find" /\ list[l] # <<>> /\ u = Head(list[l])
    /\ cpu[c].why \in {"any", "higher"} => list' = PutBack(ListPop(l), c, cpu[c].runThread)
    /\ cpu[c].why \notin {"any", "higher"} => list' = ListPop(l)
    /\ SameThreads
    /\ \A x \in Thread : /\ thread'[x].blocker = thread[x].blocker
                         /\ thread'[x].deadline = thread[x].deadline
    /\ cpu' \in [CPU -> CpuRecord]
    /\ \A d \in CPU \ {c} : cpu'[d] = cpu[d]
    /\ cpu'[c].pushing = cpu[c].pushing /\ cpu'[c].pc = "run" /\ cpu'[c].runThread = u
    /\ UNCHANGED <<process, todo, uptime, now>>

\* thread_load of the thread found is such a step.
LEMMA IsDispatched ==
    ASSUME IndInv, NEW c \in CPU, FindThread(c)
    PROVE  \E u \in Thread, l \in QueueId : Dispatched(c, u, l)
<1>1. TypeOK /\ CpuControl /\ ThreadControl /\ GraveControl /\ PlacedInv /\ RefCountsThreads
  BY DEF IndInv
<1>2. /\ cpu \in [CPU -> CpuRecord] /\ cpu[c] \in CpuRecord /\ thread \in [Thread -> ThreadRecord]
      /\ list \in [ListId -> Seq(Thread)]
  BY <1>1 DEF TypeOK
<1>3. cpu[c].level \in Priority
  BY <1>1, <1>2 DEF FindThread, Floor, CpuControl, CpuRecord, ThreadRecord, Priority
<1>4. PICK l \in ListId : l = Queue(c, cpu[c].level) /\ l \in QueueId
  BY <1>3, ListNames DEF QueueId
<1>5. cpu[c].pc = "find" /\ list[l] # <<>> /\ UNCHANGED <<process, todo, uptime, now>>
  BY <1>4 DEF FindThread
<1>6. PICK u \in Thread : u = Head(list[l])
  BY <1>1, <1>5, FirstThread
<1>7. /\ thread' = [thread EXCEPT ![u].slice = "open"]
      /\ cpu' = Return(c, u)
  BY <1>4, <1>6 DEF FindThread
<1>8. /\ cpu[c].why \in {"any", "higher"} => list' = PutBack(ListPop(l), c, cpu[c].runThread)
      /\ cpu[c].why \notin {"any", "higher"} => list' = ListPop(l)
  BY <1>4 DEF FindThread
<1>9. /\ SameThreads
      /\ \A x \in Thread : /\ thread'[x].blocker = thread[x].blocker
                           /\ thread'[x].deadline = thread[x].deadline
  <2> DEFINE r == [thread[u] EXCEPT !.slice = "open"]
  <2>1. /\ r \in ThreadRecord /\ r.at = thread[u].at /\ r.process = thread[u].process
        /\ r.child = thread[u].child /\ r.killed = thread[u].killed
        /\ r.blocker = thread[u].blocker /\ r.deadline = thread[u].deadline
    BY <1>2 DEF ThreadRecord
  <2>2. thread' = [thread EXCEPT ![u] = r]
    BY <1>7
  <2> HIDE DEF r
  <2> QED
    BY <1>2, <2>1, <2>2 DEF SameThreads
<1>10. /\ cpu' \in [CPU -> CpuRecord]
       /\ \A d \in CPU \ {c} : cpu'[d] = cpu[d]
       /\ cpu'[c].pushing = cpu[c].pushing /\ cpu'[c].pc = "run" /\ cpu'[c].runThread = u
  <2> DEFINE r == [cpu[c] EXCEPT !.pc = "run", !.runThread = u, !.why = "idle", !.level = -1]
  <2>1. cpu' = [cpu EXCEPT ![c] = r]
    BY <1>2, <1>7 DEF Return
  <2>2. r \in CpuRecord /\ r.pushing = cpu[c].pushing /\ r.pc = "run" /\ r.runThread = u
    BY <1>2, TopLevel DEF CpuRecord
  <2> HIDE DEF r
  <2> QED
    BY <1>2, <2>1, <2>2
<1>11. Dispatched(c, u, l)
  BY <1>5, <1>6, <1>8, <1>9, <1>10 DEF Dispatched
<1> QED
  BY <1>4, <1>11

\* Dispatching a thread, with or without a thread to put back, keeps the
\* invariant.
LEMMA FindThreadStep ==
    ASSUME IndInv, NEW c \in CPU, FindThread(c)
    PROVE  IndInv'
<1>1. TypeOK /\ CpuControl /\ ThreadControl /\ GraveControl /\ PlacedInv /\ RefCountsThreads
  BY DEF IndInv
<1>2. /\ cpu \in [CPU -> CpuRecord] /\ cpu[c] \in CpuRecord /\ thread \in [Thread -> ThreadRecord]
      /\ list \in [ListId -> Seq(Thread)]
  BY <1>1 DEF TypeOK
<1>3. PICK u \in Thread, l \in QueueId : Dispatched(c, u, l)
  BY IsDispatched
<1>4. l \in ListId /\ \A d \in CPU : l # Graveyard(d)
  BY ListNames DEF QueueId, ListId
<1>5. cpu[c].pc = "find" /\ list[l] # <<>> /\ UNCHANGED <<process, todo, uptime, now>>
  BY <1>3 DEF Dispatched
<1>6. u = Head(list[l])
  BY <1>3 DEF Dispatched
<1>8. /\ cpu[c].why \in {"any", "higher"} => list' = PutBack(ListPop(l), c, cpu[c].runThread)
      /\ cpu[c].why \notin {"any", "higher"} => list' = ListPop(l)
  BY <1>3 DEF Dispatched
<1>9. SameThreads
  BY <1>3 DEF Dispatched
<1>10. /\ cpu' \in [CPU -> CpuRecord]
       /\ \A d \in CPU \ {c} : cpu'[d] = cpu[d]
       /\ cpu'[c].pushing = cpu[c].pushing /\ cpu'[c].pc = "run" /\ cpu'[c].runThread = u
  BY <1>3 DEF Dispatched
<1>11. cpu[c].pushing = None
  BY <1>1, <1>5 DEF CpuControl
<1>12. CpuControl'
  BY <1>1, <1>10, <1>11 DEF CpuControl
<1>13. ThreadControl' /\ RefCountsThreads' /\ allocated' = allocated
  BY <1>1, <1>5, <1>9, SameThreadsKeep
<1> DEFINE newHeld == [held EXCEPT ![RunHand(c)] = u]
<1>14. /\ RunHand(c) \in HandId /\ PushHand(c) \in HandId /\ RunHand(c) # PushHand(c)
       /\ held \in [HandId -> Thread \cup {None}]
       /\ held[RunHand(c)] = Owned(c) /\ held[PushHand(c)] = None
  BY <1>1, <1>11, HandsNow, HandNames DEF HandTable
<1>15. /\ WellPlaced(Thread, None, ListId, HandId, list', newHeld, allocated)
       /\ \A d \in CPU : list'[Graveyard(d)] = list[Graveyard(d)]
  <2>1. CASE cpu[c].why \notin {"any", "higher"}
    <3>1. Owned(c) = None
      BY <1>1, <1>2, <1>5, <2>1 DEF CpuControl, Owned, CpuRecord
    <3>2. list' = [list EXCEPT ![l] = Tail(@)]
      BY <1>8, <2>1 DEF ListPop
    <3>3. WellPlaced(Thread, None, ListId, HandId, [list EXCEPT ![l] = Tail(@)], newHeld, allocated)
      BY <1>1, <1>4, <1>5, <1>6, <1>14, <3>1, PopIntoHand DEF PlacedInv
    <3> QED
      BY <1>2, <1>4, <3>2, <3>3, ListNames
  <2>2. CASE cpu[c].why \in {"any", "higher"}
    <3>1. PICK t \in Thread : t = cpu[c].runThread
      BY <1>1, <1>2, <1>5, <2>2 DEF CpuControl, CpuRecord
    <3>2. Owned(c) = t /\ t # None /\ u # None
      BY <2>2, <3>1, NoneAssumption DEF Owned
    <3>3. PICK q \in ListId : q = Queue(c, thread[t].priority) /\ \A d \in CPU : q # Graveyard(d)
      <4>1. thread[t].priority \in Priority
        BY <1>2 DEF ThreadRecord
      <4> QED
        BY <4>1, ListNames
    <3> DEFINE run == RunHand(c)
               push == PushHand(c)
               L1 == [list EXCEPT ![l] = Tail(@)]
               H1 == [held EXCEPT ![push] = u]
               L2 == [L1 EXCEPT ![q] = Append(@, H1[run])]
               H2 == [H1 EXCEPT ![run] = None]
               H3 == [H2 EXCEPT ![run] = H2[push], ![push] = None]
    <3>4. H1 \in [HandId -> Thread \cup {None}] /\ H1[run] = t /\ H1[push] = u
      BY <1>14, <3>2
    <3>5. H2[push] = u /\ H2[run] = None /\ H3 = newHeld
      BY <1>14, <3>4
    <3>6. WellPlaced(Thread, None, ListId, HandId, L1, H1, allocated)
      BY <1>1, <1>4, <1>5, <1>6, <1>14, PopIntoHand DEF PlacedInv
    <3>7. L1 \in [ListId -> Seq(Thread)] /\ list' = L2
      <4>1. L1 \in [ListId -> Seq(Thread)]
        BY <1>2, <1>4, <1>5
      <4>2. list' = [L1 EXCEPT ![q] = Append(@, t)]
        BY <1>8, <2>2, <3>1, <3>3 DEF PutBack, ListPop
      <4> QED
        BY <3>4, <4>1, <4>2
    <3>8. \A d \in CPU : L2[Graveyard(d)] = list[Graveyard(d)]
      BY <1>2, <1>4, <3>3, <3>7, ListNames
    <3> HIDE DEF L1, H1, newHeld, run, push
    <3>9. WellPlaced(Thread, None, ListId, HandId, L2, H2, allocated)
      BY <1>14, <3>2, <3>3, <3>4, <3>6, AppendFromHand DEF run
    <3> HIDE DEF L2, H2
    <3>10. WellPlaced(Thread, None, ListId, HandId, L2, H3, allocated)
      BY <1>14, <3>5, <3>9, PassOn DEF run, push
    <3> QED
      BY <3>5, <3>7, <3>8, <3>10
  <2> QED
    BY <2>1, <2>2
<1>16. TypeOK'
  BY <1>1, <1>5, <1>9, <1>10, <1>15 DEF TypeOK, WellPlaced, SameThreads
<1>17. held' = newHeld
  <2>1. \A d \in CPU : d # c => Owned(d)' = Owned(d)
    BY <1>10 DEF Owned
  <2>2. \A d \in CPU : cpu'[d].pushing = cpu[d].pushing
    BY <1>10
  <2>3. \A w \in Thread : thread'[w].child = thread[w].child
    BY <1>9 DEF SameThreads
  <2>4. Owned(c)' = u
    BY <1>10 DEF Owned
  <2> QED
    BY <1>1, <1>16, <2>1, <2>2, <2>3, <2>4, RunHandChanges
<1>18. PlacedInv'
  BY <1>13, <1>15, <1>17 DEF PlacedInv
<1>19. GraveControl'
  BY <1>1, <1>9, <1>15, GravesKept DEF SameThreads
<1> QED
  BY <1>12, <1>13, <1>16, <1>18, <1>19 DEF IndInv

-----------------------------------------------------------------------------
(* The invariant *)

\* sched_init establishes the invariant.
LEMMA InitInv == Init => IndInv
<1> SUFFICES ASSUME Init PROVE IndInv
  OBVIOUS
<1>1. PICK t \in Thread : \E p \in Process :
        /\ thread = [u \in Thread |->
              IF u = t THEN [NewThread(p, FALSE, "kernel", PRIORITY_MAX) EXCEPT !.slice = "endless"]
                       ELSE FreeThread]
        /\ process = [q \in Process |-> [ref |-> IF q = p THEN 1 ELSE 0, killed |-> FALSE]]
        /\ cpu = [c \in CPU |-> [
              pc |-> "run", runThread |-> IF c = 0 THEN t ELSE None, lock |-> None,
              pushing |-> None, target |-> 0, why |-> "idle", level |-> -1]]
  BY DEF Init
<1>2. PICK p \in Process :
        /\ thread = [u \in Thread |->
              IF u = t THEN [NewThread(p, FALSE, "kernel", PRIORITY_MAX) EXCEPT !.slice = "endless"]
                       ELSE FreeThread]
        /\ process = [q \in Process |-> [ref |-> IF q = p THEN 1 ELSE 0, killed |-> FALSE]]
        /\ cpu = [c \in CPU |-> [
              pc |-> "run", runThread |-> IF c = 0 THEN t ELSE None, lock |-> None,
              pushing |-> None, target |-> 0, why |-> "idle", level |-> -1]]
  BY <1>1
<1>3. list = [l \in ListId |-> <<>>] /\ todo = {} /\ uptime = 0 /\ now = 0
  BY DEF Init
<1> DEFINE first == [NewThread(p, FALSE, "kernel", PRIORITY_MAX) EXCEPT !.slice = "endless"]
<1>4. /\ first \in ThreadRecord /\ first.at = "kernel" /\ first.process = p
      /\ first.child = None /\ ~first.killed
  <2>1. PRIORITY_MAX \in Priority /\ 0 \in 0 .. NEVER
    BY TimeAssumption, PriorityAssumption DEF Priority, NEVER
  <2> DEFINE n == NewThread(p, FALSE, "kernel", PRIORITY_MAX)
  <2>2. /\ n \in ThreadRecord /\ n.at = "kernel" /\ n.process = p /\ n.child = None /\ ~n.killed
    BY <2>1 DEF NewThread, ThreadRecord, Place
  <2>3. first = [n EXCEPT !.slice = "endless"]
    OBVIOUS
  <2> HIDE DEF n, first
  <2> QED
    BY <2>2, <2>3 DEF ThreadRecord
<1>5. /\ FreeThread \in ThreadRecord /\ FreeThread.at = "free" /\ FreeThread.process = None
      /\ FreeThread.child = None /\ ~FreeThread.killed
  BY TimeAssumption, PriorityAssumption
  DEF FreeThread, NewThread, ThreadRecord, Place, Priority, NEVER
<1>6. 0 \in CPU
  BY CpuAssumption DEF CPU
<1>7. thread = [u \in Thread |-> IF u = t THEN first ELSE FreeThread]
  BY <1>2
<1> HIDE DEF first, FreeThread
<1>8. thread \in [Thread -> ThreadRecord] /\ thread[t] = first /\ \A u \in Thread \ {t} : thread[u] = FreeThread
  BY <1>4, <1>5, <1>7
<1>9. process \in [Process -> ProcessRecord]
  BY <1>2 DEF ProcessRecord
<1>10. cpu \in [CPU -> CpuRecord]
  BY <1>2, <1>6, TopLevel DEF CpuRecord
<1>11. TypeOK
  BY <1>3, <1>8, <1>9, <1>10, TimeAssumption DEF TypeOK
<1>12. \A c \in CPU : /\ cpu[c].pc = "run" /\ cpu[c].pushing = None
                      /\ cpu[c].runThread = IF c = 0 THEN t ELSE None
  BY <1>2
<1>13. CpuControl
  BY <1>12 DEF CpuControl
<1>14. ThreadControl
  BY <1>4, <1>5, <1>8, NoneAssumption DEF ThreadControl
<1>15. GraveControl
  BY <1>3, ListNames DEF GraveControl
<1>16. PlacedInv
  <2>1. /\ held \in [HandId -> Thread \cup {None}]
        /\ \A h \in HandId : held[h] = IF h = RunHand(0) THEN t ELSE None
    <3>1. HandTable
      BY <1>11, HandsNow
    <3>2. \A c \in CPU : Owned(c) = IF c = 0 THEN t ELSE None
      BY <1>12 DEF Owned
    <3>3. \A w \in Thread : thread[w].child = None
      BY <1>4, <1>5, <1>8
    <3>4. ASSUME NEW h \in HandId PROVE held[h] = IF h = RunHand(0) THEN t ELSE None
      <4>1. CASE \E c \in CPU : h = RunHand(c)
        BY <1>6, <3>1, <3>2, <4>1, HandNames DEF HandTable
      <4>2. CASE \E c \in CPU : h = PushHand(c)
        BY <1>6, <1>12, <3>1, <4>2, HandNames DEF HandTable
      <4>3. CASE \E w \in Thread : h = ChildHand(w)
        BY <1>6, <3>1, <3>3, <4>3, HandNames DEF HandTable
      <4> QED
        BY <4>1, <4>2, <4>3, HandNames
    <3> QED
      BY <3>1, <3>4 DEF HandTable
  <2>2. allocated = {t} /\ t # None
    BY <1>4, <1>5, <1>8, NoneAssumption DEF allocated
  <2>3. \A l \in ListId : Len(list[l]) = 0
    BY <1>3
  <2>4. DOMAIN list = ListId /\ DOMAIN held = HandId /\ RunHand(0) \in HandId
    BY <1>3, <1>6, <2>1, HandNames
  <2>5. LinkedOnce(list) /\ HeldNotLinked(list, held)
    BY <2>3, <2>4 DEF LinkedOnce, HeldNotLinked
  <2>6. HeldOnce(held, None)
    BY <2>1, <2>4 DEF HeldOnce
  <2>7. OnlyAllocated(list, held, allocated, None) /\ AllFound(list, held, allocated)
    BY <2>1, <2>2, <2>3, <2>4 DEF OnlyAllocated, AllFound
  <2> QED
    BY <1>11, <2>1, <2>2, <2>5, <2>6, <2>7, NoneAssumption DEF PlacedInv, WellPlaced, Placed, TypeOK
<1>17. RefCountsThreads
  <2>1. Members(p) = {t} /\ \A q \in Process : q # p => Members(q) = {}
    BY <1>4, <1>5, <1>8 DEF Members
  <2>2. process[p].ref = 1 /\ \A q \in Process : q # p => process[q].ref = 0
    BY <1>2
  <2>3. \A q \in Process : process[q].ref = Cardinality(Members(q))
    BY <2>1, <2>2, FS_EmptySet, FS_Singleton
  <2> QED
    BY <2>3 DEF RefCountsThreads, Members
<1> QED
  BY <1>11, <1>13, <1>14, <1>15, <1>16, <1>17 DEF IndInv

\* Every step, and every stuttering step, keeps the invariant.
LEMMA NextInv == IndInv /\ [Next]_vars => IndInv'
<1> SUFFICES ASSUME IndInv, [Next]_vars PROVE IndInv'
  OBVIOUS
<1>1. CASE UNCHANGED vars
  <2>1. ASSUME NEW c \in CPU PROVE ControlStep(c)
    BY <1>1 DEF IndInv, TypeOK, CpuControl, ControlStep, Owned, vars
  <2>2. 0 \in CPU
    BY CpuAssumption DEF CPU
  <2> QED
    BY <2>1, <2>2, ControlStepKeeps
<1>2. ASSUME NEW c \in CPU, NEW t \in Thread, ThreadStep(c, t) PROVE IndInv'
  BY <1>2, CallSteps, CreateSteps, PushChildStep DEF ThreadStep
<1>3. ASSUME NEW c \in CPU, NEW b \in Blocker, SchedUnblock(c, b) PROVE IndInv'
  BY <1>3, ControlSteps
<1>4. ASSUME NEW c \in CPU, SchedTimer(c) PROVE IndInv'
  BY <1>4, ControlSteps
<1>5. ASSUME NEW c \in CPU, UnblockStep(c) PROVE IndInv'
  BY <1>5, ControlSteps, WakeSteps, SchedPushStep DEF UnblockStep
<1>6. ASSUME NEW c \in CPU, ScheduleStep(c) PROVE IndInv'
  BY <1>6, ControlSteps, WakeSteps, FreeSteps, GraveyardPushStep, PickBlockStep, FindThreadStep
  DEF ScheduleStep
<1>7. CASE TimePasses
  <2>1. now' \in 0 .. MaxTime
    BY <1>7, TimeAssumption DEF TimePasses, IndInv, TypeOK
  <2>2. ASSUME NEW c \in CPU PROVE ControlStep(c)
    BY <1>7, <2>1 DEF TimePasses, IndInv, TypeOK, CpuControl, ControlStep, Owned
  <2>3. 0 \in CPU
    BY CpuAssumption DEF CPU
  <2> QED
    BY <2>2, <2>3, ControlStepKeeps
<1> QED
  BY <1>1, <1>2, <1>3, <1>4, <1>5, <1>6, <1>7 DEF Next

(***************************************************************************)
(* The inductive invariant holds in every reachable state.                 *)
(***************************************************************************)
THEOREM Invariance == Spec => []IndInv
BY InitInv, NextInv, PTL DEF Spec

(***************************************************************************)
(* Type correctness.  The reference count of a process never goes below    *)
(* zero, and no field of a thread_t or of a cpu_t holds garbage.           *)
(***************************************************************************)
THEOREM TypeCorrect == Spec => []TypeOK
<1>1. IndInv => TypeOK
  BY DEF IndInv
<1> QED
  BY <1>1, Invariance, PTL

(***************************************************************************)
(* The one list_entry_t of a thread is in one list at a time: the moves of *)
(* sched_unblock, sched_update_blockers, sched_push and sched_schedule on  *)
(* any number of CPUs never link a thread twice.                           *)
(***************************************************************************)
THEOREM LinkedAtMostOnce == Spec => []EntryLinkedOnce
<1>1. IndInv => EntryLinkedOnce
  BY DEF IndInv, PlacedInv, WellPlaced, Placed, EntryLinkedOnce
<1> QED
  BY <1>1, Invariance, PTL

(***************************************************************************)
(* Two CPUs never run one thread, and a thread that runs, is being pushed  *)
(* or is being created is in no list.                                      *)
(***************************************************************************)
THEOREM OneHolder == Spec => []HolderExclusive
<1>1. IndInv => HolderExclusive
  BY DEF IndInv, PlacedInv, WellPlaced, Placed, HolderExclusive
<1> QED
  BY <1>1, Invariance, PTL

(***************************************************************************)
(* No thread is lost and none is used after thread_free: every allocated   *)
(* thread can be found in a list or in somebody's hands, and what is found *)
(* there is allocated.                                                     *)
(***************************************************************************)
THEOREM NoThreadLost == Spec => []NothingLost
<1>1. IndInv => NothingLost
  BY DEF IndInv, PlacedInv, WellPlaced, Placed, NothingLost
<1> QED
  BY <1>1, Invariance, PTL

(***************************************************************************)
(* process->ref is the number of threads of the process.                   *)
(***************************************************************************)
THEOREM RefsCorrect == Spec => []RefCountsThreads
<1>1. IndInv => RefCountsThreads
  BY DEF IndInv
<1> QED
  BY <1>1, Invariance, PTL

-----------------------------------------------------------------------------
NoneFreed == \A x \in Thread : thread[x].at # "free" => thread'[x].at # "free"

\* What a running thread does frees no thread.
LEMMA ThreadStepFreesNone ==
    ASSUME TypeOK, NEW c \in CPU, NEW t \in Thread, ThreadStep(c, t)
    PROVE  NoneFreed
<1>0. thread \in [Thread -> ThreadRecord]
  BY DEF TypeOK
<1>1. CASE SyscallEnter(c, t)
  BY <1>0, <1>1 DEF NoneFreed, ThreadRecord, SyscallEnter
<1>2. CASE SyscallEnd(c, t)
  BY <1>0, <1>2 DEF NoneFreed, ThreadRecord, SyscallEnd
<1>3. CASE JumpToUser(c, t)
  BY <1>0, <1>3 DEF NoneFreed, ThreadRecord, JumpToUser
<1>4. ASSUME NEW b \in Blocker, NEW d \in Deadlines, SchedBlock(c, t, b, d) PROVE NoneFreed
  BY <1>0, <1>4 DEF NoneFreed, ThreadRecord, SchedBlock
<1>5. CASE SchedYield(c, t)
  BY <1>0, <1>5 DEF NoneFreed, ThreadRecord, SchedYield
<1>6. CASE SchedThreadExit(c, t)
  BY <1>0, <1>6 DEF NoneFreed, ThreadRecord, SchedThreadExit
<1>7. CASE SchedProcessExit(c, t)
  BY <1>0, <1>7 DEF NoneFreed, ThreadRecord, SchedProcessExit
<1>8. ASSUME NEW u \in Thread, NEW p \in Process, NEW i \in Priority, ThreadNew(c, t, u, p, i)
      PROVE  NoneFreed
  BY <1>0, <1>8 DEF NoneFreed, ThreadRecord, ThreadNew, NewThread
<1>9. ASSUME NEW u \in Thread, NEW i \in Priority, ThreadSplit(c, t, u, i) PROVE NoneFreed
  BY <1>0, <1>9 DEF NoneFreed, ThreadRecord, ThreadSplit, NewThread
<1>10. CASE PushChild(c, t)
  BY <1>0, <1>10 DEF NoneFreed, ThreadRecord, PushChild
<1>11. CASE SchedInvoke(c, t)
  BY <1>0, <1>11 DEF NoneFreed, ThreadRecord, SchedInvoke, AfterInvoke
<1> QED
  BY <1>1, <1>2, <1>3, <1>4, <1>5, <1>6, <1>7, <1>8, <1>9, <1>10, <1>11 DEF ThreadStep

\* Neither does a wake-up, and of the steps of sched_schedule only two do.
LEMMA CpuStepFreesNone ==
    ASSUME TypeOK, NEW c \in CPU,
           UnblockStep(c) \/ ScheduleStep(c),
           ~GraveyardFree(c), ~FindKilled(c)
    PROVE  NoneFreed
<1>0. thread \in [Thread -> ThreadRecord]
  BY DEF TypeOK
<1>1. CASE UnblockPop(c)
  <2>1. PICK x : thread' = Woken(x)
    BY <1>1 DEF UnblockPop
  <2> QED
    BY <1>0, <2>1 DEF NoneFreed, ThreadRecord, Woken
<1>2. CASE UnblockEnd(c) \/ SchedPush(c)
  BY <1>0, <1>2 DEF NoneFreed, ThreadRecord, UnblockEnd, SchedPush
<1>3. ASSUME NEW b \in Blocker, UpdateBlocker(c, b) PROVE NoneFreed
  <2>1. \/ \E x : thread' = [thread EXCEPT ![x].result = "BLOCK_TIMEOUT", ![x].blocker = None]
        \/ UNCHANGED thread
    BY <1>3, Zenon DEF UpdateBlocker
  <2>2. ASSUME NEW x, thread' = [thread EXCEPT ![x].result = "BLOCK_TIMEOUT", ![x].blocker = None]
        PROVE  NoneFreed
    BY <1>0, <2>2 DEF NoneFreed, ThreadRecord
  <2> QED
    BY <2>1, <2>2 DEF NoneFreed
<1>4. CASE UpdateBlockersEnd(c) \/ GraveyardPush(c) \/ PickIdle(c) \/ PickBlock(c)
  BY <1>0, <1>4 DEF NoneFreed, ThreadRecord, UpdateBlockersEnd, GraveyardPush, PickIdle, PickBlock
<1>5. CASE PickPreempt(c) \/ FindEmpty(c) \/ FindNone(c)
  BY <1>0, <1>5 DEF NoneFreed, ThreadRecord, PickPreempt, FindEmpty, FindNone
<1>6. CASE FindThread(c)
  <2>1. \E x : thread' = [thread EXCEPT ![x].slice = "open"]
    BY <1>6, Zenon DEF FindThread
  <2> QED
    BY <1>0, <2>1 DEF NoneFreed, ThreadRecord
<1> QED
  BY <1>1, <1>2, <1>3, <1>4, <1>5, <1>6 DEF UnblockStep, ScheduleStep

NotOnStack == \A t \in Thread : thread[t].at # "free" /\ thread'[t].at = "free"
                => \A c \in CPU : Owned(c) # t

\* The first thread of a list is in no CPU's hands.
LEMMA LinkedNotOwned ==
    ASSUME IndInv, NEW l \in ListId, list[l] # <<>>
    PROVE  Head(list[l]) \in Thread /\ \A c \in CPU : Owned(c) # Head(list[l])
<1>1. list[l] \in Seq(Thread) /\ Len(list[l]) >= 1 /\ Head(list[l]) = list[l][1]
  BY DEF IndInv, TypeOK
<1>2. ASSUME NEW c \in CPU PROVE Owned(c) # list[l][1]
  <2>1. RunHand(c) \in HandId /\ held[RunHand(c)] = Owned(c)
    BY HandsNow, HandNames DEF IndInv, HandTable
  <2>2. HeldNotLinked(list, held) /\ DOMAIN list = ListId /\ DOMAIN held = HandId
    BY DEF IndInv, PlacedInv, WellPlaced, Placed, held, TypeOK
  <2> QED
    BY <1>1, <2>1, <2>2 DEF HeldNotLinked
<1> QED
  BY <1>1, <1>2

LEMMA FreesOffStack == IndInv /\ [Next]_vars => NotOnStack
<1> SUFFICES ASSUME IndInv, [Next]_vars PROVE NotOnStack
  OBVIOUS
<1>1. TypeOK
  BY DEF IndInv
<1>2. NoneFreed => NotOnStack
  BY DEF NoneFreed, NotOnStack
<1>3. CASE UNCHANGED vars
  BY <1>3, <1>2 DEF vars, NoneFreed
<1>4. ASSUME NEW c \in CPU, NEW t \in Thread, ThreadStep(c, t) PROVE NotOnStack
  BY <1>1, <1>2, <1>4, ThreadStepFreesNone
<1>5. ASSUME NEW c \in CPU, NEW b \in Blocker, SchedUnblock(c, b) PROVE NotOnStack
  BY <1>2, <1>5 DEF SchedUnblock, NoneFreed
<1>6. ASSUME NEW c \in CPU, SchedTimer(c) PROVE NotOnStack
  BY <1>2, <1>6 DEF SchedTimer, NoneFreed
<1>7. ASSUME NEW c \in CPU, UnblockStep(c) \/ ScheduleStep(c) PROVE NotOnStack
  <2>1. CASE GraveyardFree(c)
    <3>1. Graveyard(c) \in ListId
      BY DEF ListId, GraveyardId
    <3>2. list[Graveyard(c)] # <<>> /\ thread' = [thread EXCEPT ![Head(list[Graveyard(c)])] = FreeThread]
      BY <2>1 DEF GraveyardFree, ThreadFree
    <3> QED
      BY <1>1, <3>1, <3>2, LinkedNotOwned DEF NotOnStack, TypeOK
  <2>2. CASE FindKilled(c)
    <3> DEFINE l == Queue(c, cpu[c].level)
    <3>1. l \in ListId
      <4>1. cpu[c].level \in Priority
        <5>1. cpu[c].level \in -1 .. PRIORITY_MAX /\ cpu[c].level >= Floor(c)
          BY <1>1, <2>2 DEF FindKilled, TypeOK, CpuRecord
        <5>2. Floor(c) \in Nat
          BY <1>1, <2>2 DEF Floor, FindKilled, IndInv, CpuControl, TypeOK, CpuRecord, ThreadRecord, Priority
        <5> QED
          BY <5>1, <5>2, PriorityAssumption DEF Priority
      <4> QED
        BY <4>1 DEF ListId, QueueId
    <3>2. list[l] # <<>> /\ thread' = [thread EXCEPT ![Head(list[l])] = FreeThread]
      BY <2>2 DEF FindKilled, ThreadFree
    <3> QED
      BY <1>1, <3>1, <3>2, LinkedNotOwned DEF NotOnStack, TypeOK
  <2> QED
    BY <1>1, <1>2, <1>7, <2>1, <2>2, CpuStepFreesNone
<1>8. CASE TimePasses
  BY <1>2, <1>8 DEF TimePasses, NoneFreed
<1> QED
  BY <1>3, <1>4, <1>5, <1>6, <1>7, <1>8 DEF Next

(***************************************************************************)
(* thread_free never takes the kernel stack away under a CPU that owns the *)
(* thread: the graveyard's and the killed threads are linked, and what is  *)
(* linked is not owned.                                                    *)
(***************************************************************************)
THEOREM StackSafe == Spec => StackOutlivesUse
<1>1. IndInv /\ [Next]_vars => [NotOnStack]_vars
  BY FreesOffStack
<1> QED
  BY <1>1, Invariance, PTL DEF Spec, StackOutlivesUse, NotOnStack

-----------------------------------------------------------------------------
(* The blocker lists *)

\* A thread in a blocker list names its blocker.
SleepersNamed ==
    \A b \in Blocker : \A i \in 1 .. Len(list[Waiters(b)]) :
        thread[list[Waiters(b)][i]].blocker = b

\* A thread in a ready queue names none.
QueuesAwake ==
    \A l \in QueueId : \A i \in 1 .. Len(list[l]) : thread[list[l][i]].blocker = None

\* Neither does one that is being pushed, one that gives way to another
\* (sched_schedule has looked at its block.blocker) or a new one.
HandsAwake ==
    /\ \A c \in CPU : cpu[c].pushing # None => thread[cpu[c].pushing].blocker = None
    /\ \A c \in CPU : cpu[c].pc = "find" /\ cpu[c].why \in {"any", "higher"}
                        => thread[cpu[c].runThread].blocker = None
    /\ \A t \in Thread : thread[t].child # None => thread[thread[t].child].blocker = None

BlockInv == SleepersNamed /\ QueuesAwake /\ HandsAwake /\ WaitersSorted

\* The kinds of lists are apart.
LEMMA ListKinds ==
    /\ QueueId \subseteq ListId
    /\ \A l \in QueueId, b \in Blocker : l # Waiters(b)
    /\ \A l \in QueueId, c \in CPU : l # Graveyard(c)
    /\ \A a, b \in Blocker : a # b => Waiters(a) # Waiters(b)
BY DEF ListId, QueueId, Queue, Graveyard, Waiters

\* What is in a list
LEMMA ListEntries ==
    ASSUME IndInv, NEW l \in ListId, NEW i \in 1 .. Len(list[l])
    PROVE  /\ list[l] \in Seq(Thread) /\ list[l][i] \in Thread /\ list[l][i] \in allocated
           /\ \A c \in CPU : Owned(c) # list[l][i] /\ cpu[c].pushing # list[l][i]
           /\ \A t \in Thread : thread[t].child # list[l][i]
           /\ \A k \in ListId : \A j \in 1 .. Len(list[k]) : list[l][i] = list[k][j] => k = l /\ j = i
<1>1. list \in [ListId -> Seq(Thread)] /\ DOMAIN list = ListId /\ DOMAIN held = HandId /\ HandTable
  BY HandsNow DEF IndInv, TypeOK, HandTable
<1>2. LinkedOnce(list) /\ HeldNotLinked(list, held) /\ OnlyAllocated(list, held, allocated, None)
  BY DEF IndInv, PlacedInv, WellPlaced, Placed
<1>3. list[l] \in Seq(Thread) /\ list[l][i] \in Thread /\ list[l][i] \in allocated
  BY <1>1, <1>2 DEF OnlyAllocated
<1>4. \A h \in HandId : held[h] # list[l][i]
  BY <1>1, <1>2 DEF HeldNotLinked
<1>5. /\ \A c \in CPU : Owned(c) # list[l][i] /\ cpu[c].pushing # list[l][i]
      /\ \A t \in Thread : thread[t].child # list[l][i]
  BY <1>1, <1>4, HandNames DEF HandTable
<1>6. \A k \in ListId : \A j \in 1 .. Len(list[k]) : list[l][i] = list[k][j] => k = l /\ j = i
  BY <1>1, <1>2 DEF LinkedOnce
<1> QED
  BY <1>3, <1>5, <1>6

\* What a hand holds
LEMMA HandEntries ==
    ASSUME IndInv
    PROVE  /\ \A c, d \in CPU : /\ Owned(c) # None => Owned(c) # cpu[d].pushing
                                /\ Owned(c) # None /\ Owned(c) = Owned(d) => c = d
                                /\ cpu[c].pushing # None /\ cpu[c].pushing = cpu[d].pushing => c = d
           /\ \A c \in CPU, t \in Thread : /\ Owned(c) # None => Owned(c) # thread[t].child
                                           /\ cpu[c].pushing # None => cpu[c].pushing # thread[t].child
           /\ \A c \in CPU : /\ Owned(c) # None => Owned(c) \in allocated
                             /\ cpu[c].pushing # None => cpu[c].pushing \in allocated
           /\ \A t \in Thread : thread[t].child # None => thread[t].child \in allocated
<1>1. DOMAIN held = HandId /\ HandTable
  BY HandsNow DEF IndInv, HandTable
<1>2. HeldOnce(held, None) /\ OnlyAllocated(list, held, allocated, None)
  BY DEF IndInv, PlacedInv, WellPlaced, Placed
<1>3. \A g, h \in HandId : held[g] # None /\ held[g] = held[h] => g = h
  BY <1>1, <1>2 DEF HeldOnce
<1>4. \A h \in HandId : held[h] # None => held[h] \in allocated
  BY <1>1, <1>2 DEF OnlyAllocated
<1> QED
  BY <1>1, <1>3, <1>4, HandNames DEF HandTable

\* Nobody puts a thread to sleep and the queues stay as they are.
LEMMA ListsStay ==
    ASSUME IndInv, BlockInv, list' = list,
           \A l \in ListId : \A i \in 1 .. Len(list[l]) : thread'[list[l][i]] = thread[list[l][i]]
    PROVE  SleepersNamed' /\ QueuesAwake' /\ WaitersSorted'
<1>1. SleepersNamed'
  BY ListNames DEF BlockInv, SleepersNamed, Waiters
<1>2. QueuesAwake'
  BY ListKinds DEF BlockInv, QueuesAwake
<1>3. WaitersSorted'
  BY ListNames DEF BlockInv, WaitersSorted, Waiters
<1> QED
  BY <1>1, <1>2, <1>3

\* What a thread does by itself
LEMMA OwnBlock ==
    ASSUME IndInv, BlockInv, NEW c \in CPU, NEW t \in Thread, OwnMove(c, t)
    PROVE  BlockInv'
<1>1. /\ Owned(c) = t /\ t # None /\ list' = list /\ thread'[t].child = thread[t].child
      /\ \A u \in Thread : u # t => thread'[u] = thread[u]
      /\ thread \in [Thread -> ThreadRecord] /\ cpu \in [CPU -> CpuRecord]
      /\ cpu[c].pc = "run"
  BY DEF OwnMove, OwnRecord, OwnRest, Running, Owned, IndInv, TypeOK
<1>2. SleepersNamed' /\ QueuesAwake' /\ WaitersSorted'
  <2>1. \A l \in ListId : \A i \in 1 .. Len(list[l]) : thread'[list[l][i]] = thread[list[l][i]]
    BY <1>1, ListEntries
  <2> QED
    BY <1>1, <2>1, ListsStay
<1>3. HandsAwake'
  <2>1. \A d \in CPU : cpu[d].pushing # t
    BY <1>1, HandEntries
  <2>2. \A u \in Thread : thread[u].child # t
    BY <1>1, HandEntries
  <2>3. \A d \in CPU : cpu[d].pc = "find" /\ cpu[d].why \in {"any", "higher"} =>
            cpu[d].runThread # t /\ cpu[d].runThread \in Thread
    <3> SUFFICES ASSUME NEW d \in CPU, cpu[d].pc = "find", cpu[d].why \in {"any", "higher"}
                 PROVE  cpu[d].runThread # t /\ cpu[d].runThread \in Thread
      OBVIOUS
    <3>1. Owned(d) = cpu[d].runThread
      BY DEF Owned
    <3>2. d # c
      BY <1>1
    <3>3. cpu[d].runThread \in Thread
      BY <1>1 DEF IndInv, CpuControl, CpuRecord
    <3> QED
      BY <1>1, <3>1, <3>2, <3>3, HandEntries
  <2>4. \A d \in CPU : cpu'[d].pushing = cpu[d].pushing /\ cpu[d].pushing \in Thread \cup {None}
    BY <1>1 DEF OwnMove, OwnCpu, CpuRecord
  <2>5. \A d \in CPU : cpu'[d].pc = "find" => d # c /\ cpu'[d] = cpu[d]
    BY DEF OwnMove, OwnCpu
  <2>6. \A u \in Thread : thread'[u].child = thread[u].child /\ thread[u].child \in Thread \cup {None}
    BY <1>1 DEF ThreadRecord
  <2>7. \A d \in CPU : cpu'[d].pushing # None => thread'[cpu'[d].pushing].blocker = None
    BY <1>1, <2>1, <2>4 DEF BlockInv, HandsAwake
  <2>8. \A d \in CPU : cpu'[d].pc = "find" /\ cpu'[d].why \in {"any", "higher"}
                        => thread'[cpu'[d].runThread].blocker = None
    BY <1>1, <2>3, <2>5 DEF BlockInv, HandsAwake
  <2>9. \A u \in Thread : thread'[u].child # None => thread'[thread'[u].child].blocker = None
    BY <1>1, <2>2, <2>6 DEF BlockInv, HandsAwake
  <2> QED
    BY <2>7, <2>8, <2>9 DEF HandsAwake
<1> QED
  BY <1>2, <1>3 DEF BlockInv

\* A step that only moves the control of a CPU, to a search for a thread to
\* give way to only when its thread is awake
LEMMA ControlBlock ==
    ASSUME IndInv, BlockInv, NEW c \in CPU, ControlStep(c),
           cpu'[c].pc = "find" /\ cpu'[c].why \in {"any", "higher"}
                => thread[cpu'[c].runThread].blocker = None
    PROVE  BlockInv'
<1>1. list' = list /\ thread' = thread
  BY DEF ControlStep
<1>2. SleepersNamed' /\ QueuesAwake' /\ WaitersSorted'
  BY <1>1, ListsStay
<1>3. HandsAwake'
  BY <1>1 DEF ControlStep, BlockInv, HandsAwake
<1> QED
  BY <1>2, <1>3 DEF BlockInv

\* The steps of this kind
LEMMA ControlBlocks ==
    ASSUME IndInv, BlockInv, NEW c \in CPU,
           \/ \E b \in Blocker : SchedUnblock(c, b)
           \/ UnblockEnd(c)
           \/ SchedTimer(c)
           \/ UpdateBlockersEnd(c)
           \/ PickIdle(c)
           \/ PickPreempt(c)
           \/ FindEmpty(c)
           \/ FindNone(c)
    PROVE  BlockInv'
<1>1. ControlStep(c)
  BY IsControlStep
<1>2. cpu \in [CPU -> CpuRecord] /\ cpu[c] \in CpuRecord
  BY DEF IndInv, TypeOK
<1> SUFFICES cpu'[c].pc = "find" /\ cpu'[c].why \in {"any", "higher"}
                => thread[cpu'[c].runThread].blocker = None
  BY <1>1, ControlBlock
<1>3. ASSUME NEW b \in Blocker, SchedUnblock(c, b) PROVE cpu'[c].pc # "find"
  BY <1>2, <1>3 DEF SchedUnblock, CpuRecord
<1>4. CASE UnblockEnd(c)
  BY <1>2, <1>4 DEF UnblockEnd, CpuRecord
<1>5. CASE SchedTimer(c)
  BY <1>2, <1>5 DEF SchedTimer, EnterSchedule, CpuRecord
<1>6. CASE UpdateBlockersEnd(c)
  BY <1>2, <1>6 DEF UpdateBlockersEnd, CpuRecord
<1>7. CASE PickIdle(c)
  BY <1>2, <1>7 DEF PickIdle, StartFind, CpuRecord
<1>8. CASE PickPreempt(c)
  <2>1. PICK why \in {"any", "higher"} : cpu' = StartFind(c, why)
    BY <1>8 DEF PickPreempt
  <2>2. cpu'[c].runThread = cpu[c].runThread
    BY <1>2, <2>1 DEF StartFind, CpuRecord
  <2> QED
    BY <1>8, <2>2 DEF PickPreempt
<1>9. CASE FindEmpty(c)
  <2>1. cpu'[c].pc = cpu[c].pc /\ cpu'[c].why = cpu[c].why /\ cpu'[c].runThread = cpu[c].runThread
    BY <1>2, <1>9 DEF FindEmpty, CpuRecord
  <2> QED
    BY <2>1 DEF BlockInv, HandsAwake
<1>10. CASE FindNone(c)
  BY <1>2, <1>10 DEF FindNone, Return, CpuRecord
<1> QED
  BY <1>3, <1>4, <1>5, <1>6, <1>7, <1>8, <1>9, <1>10

\* A thread in somebody's hands is the thread of a record.
LEMMA HandTypes ==
    ASSUME IndInv
    PROVE  /\ \A c \in CPU : cpu[c].pushing \in Thread \cup {None}
           /\ \A c \in CPU : cpu[c].pc = "find" /\ cpu[c].why \in {"any", "higher"}
                                => cpu[c].runThread \in Thread /\ Owned(c) = cpu[c].runThread
           /\ \A t \in Thread : thread[t].child \in Thread \cup {None}
BY DEF IndInv, TypeOK, CpuControl, CpuRecord, ThreadRecord, Owned

\* A new thread waits for nothing.
LEMMA NewBlock ==
    ASSUME IndInv, BlockInv, NEW t \in Thread, NEW u \in Thread, NEW p \in Process, NewStep(t, u, p),
           NEW c \in CPU, Owned(c) = t
    PROVE  BlockInv'
<1>1. /\ list' = list /\ cpu' = cpu /\ t # None /\ u # None
      /\ \A w \in Thread : w # t /\ w # u => thread'[w] = thread[w]
      /\ thread'[u].blocker = None /\ thread'[t].blocker = thread[t].blocker
      /\ thread'[t].child = u /\ thread'[u].child = None
      /\ u \notin allocated
  BY NoneAssumption DEF NewStep, NewRecords, allocated
<1>2. SleepersNamed' /\ QueuesAwake' /\ WaitersSorted'
  <2>1. \A l \in ListId : \A i \in 1 .. Len(list[l]) : thread'[list[l][i]] = thread[list[l][i]]
    BY <1>1, ListEntries
  <2> QED
    BY <1>1, <2>1, ListsStay
<1>3. \A w \in Thread : w # u => thread'[w].blocker = thread[w].blocker
  BY <1>1
<1>4. HandsAwake'
  BY <1>1, <1>3, HandTypes, HandEntries DEF BlockInv, HandsAwake
<1> QED
  BY <1>2, <1>4 DEF BlockInv

\* A thread t that waits for nothing goes to the back of ready queue l.
QueueGrows(l, t) ==
    /\ list' = ListPush(l, t)
    /\ thread'[t].blocker = None
    /\ \A k \in ListId : \A i \in 1 .. Len(list[k]) : thread'[list[k][i]] = thread[list[k][i]]

\* The lists stay in order.
LEMMA QueueGrowsKeeps ==
    ASSUME IndInv, BlockInv, NEW l \in QueueId, NEW t \in Thread, QueueGrows(l, t)
    PROVE  SleepersNamed' /\ QueuesAwake' /\ WaitersSorted'
<1>1. /\ list \in [ListId -> Seq(Thread)] /\ l \in ListId
      /\ \A k \in ListId : k # l => list'[k] = list[k]
      /\ list'[l] = Append(list[l], t)
  BY ListKinds, ListTypes DEF IndInv, TypeOK, QueueGrows, ListPush
<1>2. \A b \in Blocker : list'[Waiters(b)] = list[Waiters(b)] /\ Waiters(b) \in ListId
  BY <1>1, ListKinds, ListNames
<1>3. \A k \in ListId : \A i \in 1 .. Len(list[k]) : thread'[list[k][i]] = thread[list[k][i]]
  BY DEF QueueGrows
<1>4. SleepersNamed'
  <2> SUFFICES ASSUME NEW b \in Blocker, NEW i \in 1 .. Len(list'[Waiters(b)])
               PROVE  thread'[list'[Waiters(b)][i]].blocker = b
    BY DEF SleepersNamed, Waiters
  <2> QED
    BY <1>2, <1>3 DEF BlockInv, SleepersNamed
<1>5. WaitersSorted'
  BY <1>2, <1>3 DEF BlockInv, WaitersSorted, Waiters
<1>6. QueuesAwake'
  <2> SUFFICES ASSUME NEW k \in QueueId, NEW i \in 1 .. Len(list'[k])
               PROVE  thread'[list'[k][i]].blocker = None
    BY DEF QueuesAwake
  <2>1. CASE k # l
    BY <1>1, <1>3, <2>1, ListKinds DEF BlockInv, QueuesAwake
  <2>2. CASE k = l /\ i \in 1 .. Len(list[l])
    <3>1. list'[l][i] = list[l][i]
      BY <1>1, <2>2
    <3> QED
      BY <1>1, <1>3, <2>2, <3>1 DEF BlockInv, QueuesAwake
  <2>3. CASE k = l /\ i = Len(list[l]) + 1
    <3>1. list'[l][i] = t
      BY <1>1, <2>3
    <3> QED
      BY <2>3, <3>1 DEF QueueGrows
  <2>4. k = l => Len(list'[k]) = Len(list[l]) + 1 /\ Len(list[l]) \in Nat
    BY <1>1
  <2> QED
    BY <2>1, <2>2, <2>3, <2>4
<1> QED
  BY <1>4, <1>5, <1>6

\* The first push of a new thread
LEMMA ChildBlock ==
    ASSUME IndInv, BlockInv, NEW c \in CPU, NEW t \in Thread, Owned(c) = t, cpu[c].pc = "run",
           NEW u \in Thread, NEW l \in QueueId, ChildPushed(t, u, l)
    PROVE  BlockInv'
<1>1. /\ list' = ListPush(l, u) /\ thread[t].child = u /\ u # None /\ t # None
      /\ \A w \in Thread : w # t => thread'[w] = thread[w]
      /\ thread'[t].child = None /\ cpu' = cpu
  BY NoneAssumption DEF ChildPushed
<1>2. t # u
  BY <1>1, HandEntries
<1>3. SleepersNamed' /\ QueuesAwake' /\ WaitersSorted'
  <2>1. \A k \in ListId : \A i \in 1 .. Len(list[k]) : thread'[list[k][i]] = thread[list[k][i]]
    BY <1>1, ListEntries
  <2>2. thread'[u].blocker = None
    BY <1>1, <1>2 DEF BlockInv, HandsAwake
  <2> QED
    BY <1>1, <2>1, <2>2, QueueGrowsKeeps DEF QueueGrows
<1>5. HandsAwake'
  <2>1. \A d \in CPU : cpu[d].pushing # None => cpu[d].pushing \in Thread /\ cpu[d].pushing # t
    BY <1>1, HandTypes, HandEntries
  <2>2. \A d \in CPU : cpu[d].pc = "find" /\ cpu[d].why \in {"any", "higher"}
                        => cpu[d].runThread \in Thread /\ cpu[d].runThread # t
    BY <1>1, HandTypes, HandEntries
  <2>3. \A w \in Thread : /\ thread[w].child # None => thread[w].child \in Thread /\ thread[w].child # t
                          /\ thread'[w].child # None => thread'[w].child = thread[w].child
    BY <1>1, HandTypes, HandEntries
  <2>4. \A d \in CPU : cpu'[d].pushing # None => thread'[cpu'[d].pushing].blocker = None
    BY <1>1, <2>1 DEF BlockInv, HandsAwake
  <2>5. \A d \in CPU : cpu'[d].pc = "find" /\ cpu'[d].why \in {"any", "higher"}
                        => thread'[cpu'[d].runThread].blocker = None
    BY <1>1, <2>2 DEF BlockInv, HandsAwake
  <2>6. \A w \in Thread : thread'[w].child # None => thread'[thread'[w].child].blocker = None
    BY <1>1, <2>3 DEF BlockInv, HandsAwake
  <2> QED
    BY <2>4, <2>5, <2>6 DEF HandsAwake
<1> QED
  BY <1>3, <1>5 DEF BlockInv

\* The end of sched_push
LEMMA PushBlock ==
    ASSUME IndInv, BlockInv, NEW c \in CPU, NEW t \in Thread, NEW l \in QueueId, WokenPushed(c, t, l)
    PROVE  BlockInv'
<1>1. /\ list' = ListPush(l, t) /\ thread' = thread /\ cpu[c].pushing = t /\ t # None
      /\ cpu'[c].pushing = None /\ cpu'[c].pc = cpu[c].pc
      /\ cpu'[c].why = cpu[c].why /\ cpu'[c].runThread = cpu[c].runThread
      /\ \A d \in CPU : d # c => cpu'[d] = cpu[d]
  BY NoneAssumption DEF WokenPushed
<1>2. SleepersNamed' /\ QueuesAwake' /\ WaitersSorted'
  <2>1. thread'[t].blocker = None
    BY <1>1 DEF BlockInv, HandsAwake
  <2> QED
    BY <1>1, <2>1, QueueGrowsKeeps DEF QueueGrows
<1>3. HandsAwake'
  BY <1>1 DEF BlockInv, HandsAwake
<1> QED
  BY <1>2, <1>3 DEF BlockInv

\* The first thread of list l leaves it and waits for nothing; the other
\* threads stay as they are.
ListShrinks(l) ==
    /\ list[l] # <<>>
    /\ list' = ListPop(l)
    /\ thread'[Head(list[l])].blocker = None
    /\ \A x \in Thread : x # Head(list[l]) => thread'[x] = thread[x]

\* The lists stay in order.
LEMMA ListShrinksKeeps ==
    ASSUME IndInv, BlockInv, NEW l \in ListId, ListShrinks(l)
    PROVE  SleepersNamed' /\ QueuesAwake' /\ WaitersSorted'
<1>1. /\ list \in [ListId -> Seq(Thread)] /\ list[l] \in Seq(Thread) /\ list[l] # <<>>
      /\ list' = [list EXCEPT ![l] = Tail(list[l])]
  BY DEF IndInv, TypeOK, ListShrinks, ListPop
<1>2. /\ Len(list[l]) \in Nat /\ Len(list'[l]) = Len(list[l]) - 1 /\ Head(list[l]) = list[l][1]
      /\ \A i \in 1 .. Len(list[l]) - 1 : list'[l][i] = list[l][i + 1]
      /\ \A k \in ListId : k # l => list'[k] = list[k]
      /\ 1 \in 1 .. Len(list[l])
  BY <1>1
<1>3. ASSUME NEW k \in ListId, NEW i \in 1 .. Len(list'[k])
      PROVE  \E n \in {0, 1} : /\ i + n \in 1 .. Len(list[k]) /\ list'[k][i] = list[k][i + n]
                               /\ thread'[list'[k][i]] = thread[list[k][i + n]]
                               /\ n = IF k = l THEN 1 ELSE 0
  <2> DEFINE n == IF k = l THEN 1 ELSE 0
  <2>1. i + n \in 1 .. Len(list[k]) /\ list'[k][i] = list[k][i + n] /\ (k = l => i + n # 1)
    BY <1>2
  <2>2. list[k][i + n] \in Thread /\ list[k][i + n] # list[l][1]
    BY <1>2, <2>1, ListEntries
  <2>3. thread'[list[k][i + n]] = thread[list[k][i + n]]
    BY <1>2, <2>2 DEF ListShrinks
  <2> QED
    BY <2>1, <2>3
<1>4. SleepersNamed'
  <2> SUFFICES ASSUME NEW b \in Blocker, NEW i \in 1 .. Len(list'[Waiters(b)])
               PROVE  thread'[list'[Waiters(b)][i]].blocker = b
    BY DEF SleepersNamed, Waiters
  <2> QED
    BY <1>3, ListNames, SMTT(30) DEF BlockInv, SleepersNamed
<1>5. QueuesAwake'
  <2> SUFFICES ASSUME NEW k \in QueueId, NEW i \in 1 .. Len(list'[k])
               PROVE  thread'[list'[k][i]].blocker = None
    BY DEF QueuesAwake
  <2> QED
    BY <1>3, ListKinds, SMTT(30) DEF BlockInv, QueuesAwake
<1>6. WaitersSorted'
  <2> SUFFICES ASSUME NEW b \in Blocker, NEW i \in 1 .. Len(list'[Waiters(b)]),
                      NEW j \in 1 .. Len(list'[Waiters(b)]), i < j
               PROVE  thread'[list'[Waiters(b)][i]].deadline <= thread'[list'[Waiters(b)][j]].deadline
    BY DEF WaitersSorted, Waiters
  <2> DEFINE k == Waiters(b)
  <2>1. k \in ListId
    BY ListNames
  <2>2. PICK n \in {0, 1} : /\ i + n \in 1 .. Len(list[k])
                            /\ thread'[list'[k][i]] = thread[list[k][i + n]]
                            /\ n = IF k = l THEN 1 ELSE 0
    BY <1>3, <2>1
  <2>3. j + n \in 1 .. Len(list[k]) /\ thread'[list'[k][j]] = thread[list[k][j + n]]
    BY <1>3, <2>1, <2>2
  <2>4. i + n < j + n
    OBVIOUS
  <2> QED
    BY <2>2, <2>3, <2>4 DEF BlockInv, WaitersSorted
<1> QED
  BY <1>4, <1>5, <1>6

\* A thread is woken.
LEMMA WakeBlock ==
    ASSUME IndInv, BlockInv, NEW c \in CPU, NEW b \in Blocker, WakeStep(c, b)
    PROVE  BlockInv'
<1> DEFINE x == Head(list[Waiters(b)])
<1>1. SleepersNamed' /\ QueuesAwake' /\ WaitersSorted'
  BY ListNames, ListShrinksKeeps DEF WakeStep, ListShrinks
<1>2. /\ \A w \in Thread : w # x => thread'[w] = thread[w]
      /\ thread'[x].blocker = None
      /\ \A w \in Thread : thread'[w].child = thread[w].child
      /\ cpu'[c].pushing = x
      /\ \A d \in CPU : d # c => cpu'[d] = cpu[d]
      /\ cpu'[c].pc # "find"
  BY DEF WakeStep, SameThreads
<1> HIDE DEF x
<1>3. HandsAwake'
  <2>1. \A w \in Thread : thread[w].blocker = None => thread'[w].blocker = None
    BY <1>2
  <2>2. \A d \in CPU : cpu'[d].pushing # None => thread'[cpu'[d].pushing].blocker = None
    BY <1>2, <2>1, HandTypes DEF BlockInv, HandsAwake
  <2>3. \A d \in CPU : cpu'[d].pc = "find" /\ cpu'[d].why \in {"any", "higher"}
                        => thread'[cpu'[d].runThread].blocker = None
    BY <1>2, <2>1, HandTypes DEF BlockInv, HandsAwake
  <2>4. \A u \in Thread : thread'[u].child # None => thread'[thread'[u].child].blocker = None
    BY <1>2, <2>1, HandTypes DEF BlockInv, HandsAwake
  <2> QED
    BY <2>2, <2>3, <2>4 DEF HandsAwake
<1> QED
  BY <1>1, <1>3 DEF BlockInv

\* A thread is freed.
LEMMA FreeBlock ==
    ASSUME IndInv, BlockInv, NEW c \in CPU, NEW l \in ListId, FreeStep(c, l)
    PROVE  BlockInv'
<1> DEFINE x == Head(list[l])
<1>0. x \in Thread
  BY FirstThread DEF IndInv, FreeStep
<1>1. /\ list[l] # <<>> /\ list' = ListPop(l)
      /\ \A w \in Thread : w # x => thread'[w] = thread[w]
      /\ thread'[x].blocker = None /\ thread'[x].child = None
  BY <1>0 DEF FreeStep, ThreadFree, FreeThread, NewThread, IndInv, TypeOK
<1>2. SleepersNamed' /\ QueuesAwake' /\ WaitersSorted'
  BY <1>1, ListShrinksKeeps DEF ListShrinks
<1>3. /\ \A d \in CPU : d # c => cpu'[d] = cpu[d]
      /\ cpu'[c].pushing = cpu[c].pushing
      /\ cpu'[c].pc = cpu[c].pc /\ cpu'[c].why = cpu[c].why /\ cpu'[c].runThread = cpu[c].runThread
  BY DEF FreeStep
<1> HIDE DEF x
<1>4. HandsAwake'
  <2>1. \A w \in Thread : thread[w].blocker = None => thread'[w].blocker = None
    BY <1>1
  <2>2. \A d \in CPU : cpu'[d].pushing # None => thread'[cpu'[d].pushing].blocker = None
    BY <1>3, <2>1, HandTypes DEF BlockInv, HandsAwake
  <2>3. \A d \in CPU : cpu'[d].pc = "find" /\ cpu'[d].why \in {"any", "higher"}
                        => thread'[cpu'[d].runThread].blocker = None
    BY <1>3, <2>1, HandTypes DEF BlockInv, HandsAwake
  <2>4. \A u \in Thread : thread'[u].child # None => thread'[thread'[u].child].blocker = None
    BY <1>1, <2>1, HandTypes DEF BlockInv, HandsAwake
  <2> QED
    BY <2>2, <2>3, <2>4 DEF HandsAwake
<1> QED
  BY <1>2, <1>4 DEF BlockInv

\* The running thread dies.
LEMMA BuryBlock ==
    ASSUME IndInv, BlockInv, NEW c \in CPU, NEW t \in Thread, Buried(c, t)
    PROVE  BlockInv'
<1>1. /\ thread' = thread /\ list' = ListPush(Graveyard(c), t)
      /\ \A d \in CPU : d # c => cpu'[d] = cpu[d]
      /\ cpu'[c].pushing = cpu[c].pushing /\ cpu'[c].why = "idle"
  BY DEF Buried
<1>2. \A l \in ListId : l # Graveyard(c) => list'[l] = list[l]
  BY <1>1, ListNames, ListTypes DEF IndInv
<1>3. /\ \A l \in QueueId : list'[l] = list[l]
      /\ \A b \in Blocker : list'[Waiters(b)] = list[Waiters(b)]
  BY <1>2, ListNames, ListKinds
<1>4. SleepersNamed'
  <2> SUFFICES ASSUME NEW b \in Blocker, NEW i \in 1 .. Len(list'[Waiters(b)])
               PROVE  thread'[list'[Waiters(b)][i]].blocker = b
    BY DEF SleepersNamed, Waiters
  <2> QED
    BY <1>1, <1>3 DEF BlockInv, SleepersNamed
<1>5. QueuesAwake'
  BY <1>1, <1>3 DEF BlockInv, QueuesAwake
<1>6. WaitersSorted'
  BY <1>1, <1>3 DEF BlockInv, WaitersSorted, Waiters
<1>7. HandsAwake'
  BY <1>1 DEF BlockInv, HandsAwake
<1> QED
  BY <1>4, <1>5, <1>6, <1>7 DEF BlockInv

\* The running thread goes to sleep: blocker_push keeps the list sorted.
LEMMA SleepBlock ==
    ASSUME IndInv, BlockInv, NEW c \in CPU, NEW t \in Thread, NEW b \in Blocker, NEW p, Slept(c, t, b, p)
    PROVE  BlockInv'
<1> DEFINE l == Waiters(b)
<1>1. /\ thread' = thread /\ thread[t].blocker = b
      /\ \A d \in CPU : d # c => cpu'[d] = cpu[d]
      /\ cpu'[c].pushing = cpu[c].pushing /\ cpu'[c].why = "blocked"
  BY DEF Slept
<1>2. /\ l \in ListId /\ list[l] \in Seq(Thread) /\ Len(list[l]) \in Nat
      /\ thread \in [Thread -> ThreadRecord] /\ p \in 1 .. Len(list[l]) + 1
  BY ListNames DEF IndInv, TypeOK, Slept
<1>3. /\ Len(list'[l]) = Len(list[l]) + 1
      /\ list'[l][p] = t
      /\ \A i \in 1 .. p - 1 : list'[l][i] = list[l][i]
      /\ \A i \in p + 1 .. Len(list[l]) + 1 : list'[l][i] = list[l][i - 1]
      /\ \A k \in ListId : k # l => list'[k] = list[k]
  BY DEF Slept, Inserted
<1>4. SleepersNamed'
  <2> SUFFICES ASSUME NEW a \in Blocker, NEW i \in 1 .. Len(list'[Waiters(a)])
               PROVE  thread'[list'[Waiters(a)][i]].blocker = a
    BY DEF SleepersNamed, Waiters
  <2>1. CASE a # b
    BY <1>1, <1>3, <2>1, ListNames, ListKinds DEF BlockInv, SleepersNamed
  <2>2. CASE a = b /\ i < p
    BY <1>1, <1>2, <1>3, <2>2 DEF BlockInv, SleepersNamed
  <2>3. CASE a = b /\ i = p
    BY <1>1, <1>2, <1>3, <2>3
  <2>4. CASE a = b /\ i > p
    <3>1. i - 1 \in 1 .. Len(list[l]) /\ list'[l][i] = list[l][i - 1]
      BY <1>2, <1>3, <2>4
    <3> QED
      BY <1>1, <2>4, <3>1 DEF BlockInv, SleepersNamed
  <2> QED
    BY <1>2, <2>1, <2>2, <2>3, <2>4
<1>5. QueuesAwake'
  <2>1. \A k \in QueueId : list'[k] = list[k]
    BY <1>3, ListKinds
  <2> QED
    BY <1>1, <2>1 DEF BlockInv, QueuesAwake
<1>6. WaitersSorted'
  <2> SUFFICES ASSUME NEW a \in Blocker, NEW i \in 1 .. Len(list'[Waiters(a)]),
                      NEW j \in 1 .. Len(list'[Waiters(a)]), i < j
               PROVE  thread'[list'[Waiters(a)][i]].deadline <= thread'[list'[Waiters(a)][j]].deadline
    BY DEF WaitersSorted, Waiters
  <2>1. CASE a # b
    BY <1>1, <1>3, <2>1, ListNames, ListKinds DEF BlockInv, WaitersSorted
  <2>2. CASE a = b
    <3> DEFINE D(x) == thread[x].deadline
    <3>1. \A x \in Thread : D(x) \in Nat
      BY <1>2, TimeAssumption DEF ThreadRecord, NEVER
    <3>2. \A m \in 1 .. Len(list[l]) : list[l][m] \in Thread /\ D(list[l][m]) \in Nat
      BY <1>2, <3>1
    <3>3. \A m, n \in 1 .. Len(list[l]) : m < n => D(list[l][m]) <= D(list[l][n])
      BY DEF BlockInv, WaitersSorted
    <3>4. /\ \A m \in 1 .. p - 1 : D(list[l][m]) <= D(t)
          /\ p <= Len(list[l]) => D(list[l][p]) > D(t)
      BY DEF Slept, IsInsertPosition
    <3>5. D(t) \in Nat
      BY <3>1
    <3> HIDE DEF D
    <3>6. \A m \in 1 .. Len(list[l]) : m >= p => D(t) <= D(list[l][m])
      <4> TAKE m \in 1 .. Len(list[l])
      <4>1. CASE m = p
        BY <1>2, <3>2, <3>4, <3>5, <4>1
      <4>2. CASE m > p
        <5>1. p \in 1 .. Len(list[l]) /\ p <= Len(list[l])
          BY <1>2, <4>2
        <5>2. D(list[l][p]) > D(t) /\ D(list[l][p]) <= D(list[l][m])
          BY <3>3, <3>4, <4>2, <5>1
        <5> QED
          BY <3>2, <3>5, <5>1, <5>2
      <4> QED
        BY <1>2, <4>1, <4>2
    <3>7. D(list'[l][i]) <= D(list'[l][j])
      <4>1. i \in 1 .. Len(list[l]) + 1 /\ j \in 1 .. Len(list[l]) + 1
        BY <1>3, <2>2
      <4>2. CASE j < p
        <5>1. /\ i \in 1 .. Len(list[l]) /\ j \in 1 .. Len(list[l])
              /\ list'[l][i] = list[l][i] /\ list'[l][j] = list[l][j]
          BY <1>2, <1>3, <4>1, <4>2
        <5> QED
          BY <3>3, <5>1
      <4>3. CASE j = p
        BY <1>2, <1>3, <3>4, <4>1, <4>3
      <4>4. CASE j > p
        <5>1. j - 1 \in 1 .. Len(list[l]) /\ list'[l][j] = list[l][j - 1] /\ j - 1 >= p
          BY <1>2, <1>3, <4>1, <4>4
        <5>2. CASE i < p
          <6>1. i \in 1 .. Len(list[l]) /\ i < j - 1 /\ list'[l][i] = list[l][i]
            BY <1>2, <1>3, <4>1, <5>1, <5>2
          <6> QED
            BY <3>3, <5>1, <6>1
        <5>3. CASE i = p
          BY <1>3, <3>6, <5>1, <5>3
        <5>4. CASE i > p
          <6>1. i - 1 \in 1 .. Len(list[l]) /\ i - 1 < j - 1 /\ list'[l][i] = list[l][i - 1]
            BY <1>2, <1>3, <4>1, <5>4
          <6> QED
            BY <3>3, <5>1, <6>1
        <5> QED
          BY <1>2, <4>1, <5>2, <5>3, <5>4
      <4> QED
        BY <1>2, <4>1, <4>2, <4>3, <4>4
    <3> QED
      BY <1>1, <2>2, <3>7 DEF D
  <2> QED
    BY <2>1, <2>2
<1>7. HandsAwake'
  BY <1>1 DEF BlockInv, HandsAwake
<1> QED
  BY <1>4, <1>5, <1>6, <1>7 DEF BlockInv

\* A thread is dispatched, and the one that gives way is awake.
LEMMA DispatchBlock ==
    ASSUME IndInv, BlockInv, NEW c \in CPU, NEW u \in Thread, NEW l \in QueueId, Dispatched(c, u, l)
    PROVE  BlockInv'
<1>1. /\ list \in [ListId -> Seq(Thread)] /\ l \in ListId /\ list[l] # <<>> /\ list[l] \in Seq(Thread)
      /\ thread \in [Thread -> ThreadRecord] /\ cpu \in [CPU -> CpuRecord]
  BY ListKinds DEF IndInv, TypeOK, Dispatched
<1>2. \A x \in Thread : /\ thread'[x].blocker = thread[x].blocker
                        /\ thread'[x].deadline = thread[x].deadline
                        /\ thread'[x].child = thread[x].child
  BY DEF Dispatched, SameThreads
<1> DEFINE L == ListPop(l)
<1>3. /\ L \in [ListId -> Seq(Thread)]
      /\ \A k \in ListId : k # l => L[k] = list[k]
      /\ Len(L[l]) = Len(list[l]) - 1 /\ \A i \in 1 .. Len(L[l]) : L[l][i] = list[l][i + 1] /\ i + 1 \in 1 .. Len(list[l])
  BY <1>1 DEF ListPop
<1> HIDE DEF L
<1>4. \A k \in QueueId : \A i \in 1 .. Len(L[k]) : thread[L[k][i]].blocker = None /\ L[k][i] \in Thread
  <2> TAKE k \in QueueId
  <2> TAKE i \in 1 .. Len(L[k])
  <2>1. k \in ListId /\ \A j \in 1 .. Len(list[k]) : thread[list[k][j]].blocker = None
    BY ListKinds DEF BlockInv, QueuesAwake
  <2>2. \E j \in 1 .. Len(list[k]) : L[k][i] = list[k][j]
    <3>1. CASE k = l
      BY <1>3, <3>1
    <3>2. CASE k # l
      BY <1>3, <2>1, <3>2
    <3> QED
      BY <3>1, <3>2
  <2>3. L[k][i] \in Thread
    BY <1>3, <2>1
  <2> QED
    BY <2>1, <2>2, <2>3
<1>5. /\ \A k \in ListId : k \notin QueueId => list'[k] = list[k]
      /\ \A k \in QueueId : \A i \in 1 .. Len(list'[k]) : thread[list'[k][i]].blocker = None /\ list'[k][i] \in Thread
  <2>1. CASE cpu[c].why \notin {"any", "higher"}
    <3>1. list' = L
      BY <2>1 DEF Dispatched, L
    <3> QED
      BY <1>3, <1>4, <3>1
  <2>2. CASE cpu[c].why \in {"any", "higher"}
    <3>1. PICK t \in Thread : t = cpu[c].runThread
      BY <2>2, HandTypes DEF Dispatched
    <3>2. thread[t].blocker = None
      BY <2>2, <3>1 DEF Dispatched, BlockInv, HandsAwake
    <3>3. PICK q \in QueueId : q = Queue(c, thread[t].priority)
      BY <1>1 DEF QueueId, ThreadRecord
    <3>4. list' = [L EXCEPT ![q] = Append(L[q], t)] /\ q \in ListId
      BY <2>2, <3>1, <3>3, ListKinds DEF Dispatched, PutBack, L
    <3>5. \A k \in ListId : k # q => list'[k] = L[k]
      BY <1>3, <3>4
    <3>6. /\ Len(list'[q]) = Len(L[q]) + 1 /\ list'[q][Len(L[q]) + 1] = t
          /\ \A i \in 1 .. Len(L[q]) : list'[q][i] = L[q][i] /\ Len(L[q]) \in Nat
      BY <1>3, <3>4
    <3>7. ASSUME NEW i \in 1 .. Len(list'[q])
          PROVE  thread[list'[q][i]].blocker = None /\ list'[q][i] \in Thread
      <4>1. L[q] \in Seq(Thread) /\ Len(L[q]) \in Nat
        BY <1>3, <3>4
      <4>2. i \in 1 .. Len(L[q]) \/ i = Len(L[q]) + 1
        BY <3>6, <4>1
      <4>3. CASE i \in 1 .. Len(L[q])
        BY <1>4, <3>6, <4>3
      <4>4. CASE i = Len(L[q]) + 1
        BY <3>2, <3>6, <4>4
      <4> QED
        BY <4>2, <4>3, <4>4
    <3>8. \A k \in QueueId : k # q => list'[k] = L[k]
      BY <3>5, ListKinds
    <3> QED
      BY <1>3, <1>4, <3>5, <3>7, <3>8, SMTT(30)
  <2> QED
    BY <2>1, <2>2
<1>6. \A b \in Blocker : list'[Waiters(b)] = list[Waiters(b)] /\ Waiters(b) \in ListId
  BY <1>5, ListNames, ListKinds
<1>7. \A b \in Blocker : \A i \in 1 .. Len(list[Waiters(b)]) : list[Waiters(b)][i] \in Thread
  BY <1>1, <1>6
<1>8. SleepersNamed'
  <2> SUFFICES ASSUME NEW b \in Blocker, NEW i \in 1 .. Len(list'[Waiters(b)])
               PROVE  thread'[list'[Waiters(b)][i]].blocker = b
    BY DEF SleepersNamed, Waiters
  <2> QED
    BY <1>2, <1>6, <1>7 DEF BlockInv, SleepersNamed
<1>9. WaitersSorted'
  <2> SUFFICES ASSUME NEW a \in Blocker, NEW i \in 1 .. Len(list'[Waiters(a)]),
                      NEW j \in 1 .. Len(list'[Waiters(a)]), i < j
               PROVE  thread'[list'[Waiters(a)][i]].deadline <= thread'[list'[Waiters(a)][j]].deadline
    BY DEF WaitersSorted, Waiters
  <2> QED
    BY <1>2, <1>6, <1>7 DEF BlockInv, WaitersSorted
<1>10. QueuesAwake'
  BY <1>2, <1>5 DEF QueuesAwake
<1>11. HandsAwake'
  <2>1. /\ \A d \in CPU : d # c => cpu'[d] = cpu[d]
        /\ cpu'[c].pushing = cpu[c].pushing /\ cpu'[c].pc = "run"
    BY DEF Dispatched
  <2>2. \A d \in CPU : cpu'[d].pushing # None => thread'[cpu'[d].pushing].blocker = None
    BY <1>2, <2>1, HandTypes DEF BlockInv, HandsAwake
  <2>3. \A d \in CPU : cpu'[d].pc = "find" /\ cpu'[d].why \in {"any", "higher"}
                        => thread'[cpu'[d].runThread].blocker = None
    BY <1>2, <2>1, HandTypes DEF BlockInv, HandsAwake
  <2>4. \A w \in Thread : thread'[w].child # None => thread'[thread'[w].child].blocker = None
    BY <1>2, HandTypes DEF BlockInv, HandsAwake
  <2> QED
    BY <2>2, <2>3, <2>4 DEF HandsAwake
<1> QED
  BY <1>8, <1>9, <1>10, <1>11 DEF BlockInv

\* At the start nobody waits.
LEMMA InitBlock == Init => BlockInv
<1> SUFFICES ASSUME Init PROVE BlockInv
  OBVIOUS
<1>1. IndInv
  BY InitInv
<1>2. \A l \in ListId : list[l] = <<>> /\ Len(list[l]) = 0
  BY DEF Init
<1>3. SleepersNamed /\ QueuesAwake /\ WaitersSorted
  BY <1>2, ListNames, ListKinds DEF SleepersNamed, QueuesAwake, WaitersSorted
<1>4. \A c \in CPU : cpu[c].pushing = None /\ cpu[c].pc = "run"
  BY DEF Init
<1>5. \A t \in Thread : thread[t].child = None
  BY DEF Init, NewThread, FreeThread
<1> QED
  BY <1>3, <1>4, <1>5 DEF BlockInv, HandsAwake

\* Every step keeps the lists of sleepers right.
LEMMA NextBlock == IndInv /\ BlockInv /\ [Next]_vars => BlockInv'
<1> SUFFICES ASSUME IndInv, BlockInv, [Next]_vars PROVE BlockInv'
  OBVIOUS
<1>1. CASE UNCHANGED vars
  BY <1>1, ListsStay DEF vars, BlockInv, HandsAwake
<1>2. ASSUME NEW c \in CPU, NEW t \in Thread, ThreadStep(c, t) PROVE BlockInv'
  <2>1. ASSUME Running(c, t) PROVE Owned(c) = t /\ cpu[c].pc = "run"
    BY <2>1 DEF Running, Owned
  <2>2. ASSUME NEW u \in Thread, NEW i \in Priority,
               \/ \E p \in Process : ThreadNew(c, t, u, p, i)
               \/ ThreadSplit(c, t, u, i)
        PROVE  BlockInv'
    <3>1. PICK p \in Process : NewStep(t, u, p)
      BY <2>2, IsNewStep
    <3>2. Owned(c) = t
      BY <2>1, <2>2 DEF ThreadNew, ThreadSplit
    <3> QED
      BY <3>1, <3>2, NewBlock
  <2>3. CASE PushChild(c, t)
    <3>1. PICK u \in Thread, l \in QueueId : ChildPushed(t, u, l)
      BY <2>3, IsChildPushed
    <3> QED
      BY <2>1, <2>3, <3>1, ChildBlock DEF PushChild
  <2>4. ASSUME OwnMove(c, t) PROVE BlockInv'
    BY <2>4, OwnBlock
  <2> QED
    BY <1>2, <2>2, <2>3, <2>4, CallIsOwnMove DEF ThreadStep
<1>3. ASSUME NEW c \in CPU, NEW b \in Blocker, SchedUnblock(c, b) PROVE BlockInv'
  BY <1>3, ControlBlocks
<1>4. ASSUME NEW c \in CPU, SchedTimer(c) PROVE BlockInv'
  BY <1>4, ControlBlocks
<1>5. ASSUME NEW c \in CPU, UnblockStep(c) \/ ScheduleStep(c) PROVE BlockInv'
  <2>1. CASE UnblockPop(c) \/ \E b \in Blocker : UpdateBlocker(c, b)
    <3>1. ASSUME ControlStep(c), cpu' = cpu PROVE BlockInv'
      <4>1. cpu'[c].pc # "find"
        BY <2>1, <3>1 DEF UnblockPop, UpdateBlocker
      <4> QED
        BY <3>1, <4>1, ControlBlock
    <3> QED
      BY <2>1, <3>1, IsWakeStep, WakeBlock
  <2>2. CASE SchedPush(c)
    BY <2>2, IsWokenPushed, PushBlock
  <2>3. CASE GraveyardFree(c) \/ FindKilled(c)
    BY <2>3, IsFreeStep, FreeBlock
  <2>4. CASE GraveyardPush(c)
    BY <2>4, IsBuried, BuryBlock
  <2>5. CASE PickBlock(c)
    BY <2>5, IsSlept, SleepBlock
  <2>6. CASE FindThread(c)
    BY <2>6, IsDispatched, DispatchBlock
  <2> QED
    BY <1>5, <2>1, <2>2, <2>3, <2>4, <2>5, <2>6, ControlBlocks DEF UnblockStep, ScheduleStep
<1>6. CASE TimePasses
  BY <1>6, ListsStay DEF TimePasses, BlockInv, HandsAwake
<1> QED
  BY <1>1, <1>2, <1>3, <1>4, <1>5, <1>6 DEF Next

(***************************************************************************)
(* The lists of sleeping threads are right for both ways to wake up: a     *)
(* linked thread names the blocker it waits for, a thread that is ready,   *)
(* being woken or about to give way names none, and blocker_push keeps     *)
(* every list sorted by deadline, whatever sched_unblock and the timeout   *)
(* take off it on other CPUs.                                              *)
(***************************************************************************)
THEOREM BlockersRight == Spec => []BlockersConsistent
<1>1. BlockInv => BlockersConsistent
  BY DEF BlockInv, SleepersNamed, QueuesAwake, HandsAwake, BlockersConsistent, BlockerAgrees, Elements
<1>2. Spec => []BlockInv
  BY InitBlock, NextBlock, Invariance, PTL DEF Spec
<1> QED
  BY <1>1, <1>2, PTL

-----------------------------------------------------------------------------
(* The scheduler implements ThreadLife *)

In(L, l, t) == \E i \in 1 .. Len(L[l]) : L[l][i] = t

Sleeps(L, t) == \E b \in Blocker : In(L, Waiters(b), t)
LiesDead(L, t) == \E c \in CPU : In(L, Graveyard(c), t)
Queued(L, t) == \E l \in QueueId : In(L, l, t)
Runs(t) == \E c \in CPU : Owned(c) = t

\* The place of a thread tells the state of its life.
LifeTable ==
    \A t \in Thread :
        /\ Life(t) = "free" <=> t \notin allocated
        /\ Life(t) = "running" <=> Runs(t)
        /\ Life(t) = "blocked" <=> Sleeps(list, t)
        /\ Life(t) = "dead" <=> LiesDead(list, t)
        /\ Life(t) \in {"free", "running", "blocked", "dead", "ready"}
        /\ Queued(list, t) => Life(t) = "ready"
        /\ \A c \in CPU : cpu[c].pushing = t => Life(t) = "ready"
        /\ \A u \in Thread : thread[u].child = t => Life(t) = "ready"

LEMMA LifeNow == IndInv => LifeTable
<1> SUFFICES ASSUME IndInv, NEW t \in Thread
             PROVE  /\ Life(t) = "free" <=> t \notin allocated
                    /\ Life(t) = "running" <=> Runs(t)
                    /\ Life(t) = "blocked" <=> Sleeps(list, t)
                    /\ Life(t) = "dead" <=> LiesDead(list, t)
                    /\ Life(t) \in {"free", "running", "blocked", "dead", "ready"}
                    /\ Queued(list, t) => Life(t) = "ready"
                    /\ \A c \in CPU : cpu[c].pushing = t => Life(t) = "ready"
                    /\ \A u \in Thread : thread[u].child = t => Life(t) = "ready"
  BY DEF LifeTable
<1>0. t # None
  BY NoneAssumption
<1>1. Life(t) = CASE t \notin allocated -> "free"
                  [] Runs(t) -> "running"
                  [] Sleeps(list, t) -> "blocked"
                  [] LiesDead(list, t) -> "dead"
                  [] OTHER -> "ready"
  BY DEF Life, allocated, Runs, Sleeps, LiesDead, In, Elements
<1>2. Runs(t) => t \in allocated
  BY <1>0, HandEntries DEF Runs
<1>3. ASSUME NEW l \in ListId, In(list, l, t)
      PROVE  /\ t \in allocated /\ ~Runs(t)
             /\ \A k \in ListId : In(list, k, t) => k = l
             /\ \A c \in CPU : cpu[c].pushing # t
             /\ \A u \in Thread : thread[u].child # t
  BY <1>3, ListEntries DEF In, Runs
<1>4. Sleeps(list, t) => t \in allocated /\ ~Runs(t) /\ ~LiesDead(list, t) /\ ~Queued(list, t)
  BY <1>3, ListNames, ListKinds DEF Sleeps, LiesDead, Queued
<1>5. LiesDead(list, t) => t \in allocated /\ ~Runs(t) /\ ~Queued(list, t)
  BY <1>3, ListNames, ListKinds DEF LiesDead, Queued
<1>6. Queued(list, t) => t \in allocated /\ ~Runs(t)
  BY <1>3, ListKinds DEF Queued
<1>7. ASSUME NEW c \in CPU, cpu[c].pushing = t
      PROVE  t \in allocated /\ ~Runs(t) /\ ~Sleeps(list, t) /\ ~LiesDead(list, t)
  <2>1. t \in allocated /\ ~Runs(t)
    BY <1>0, <1>7, HandEntries DEF Runs
  <2>2. \A l \in ListId : ~In(list, l, t)
    BY <1>3, <1>7
  <2> QED
    BY <2>1, <2>2, ListNames DEF Sleeps, LiesDead
<1>8. ASSUME NEW u \in Thread, thread[u].child = t
      PROVE  t \in allocated /\ ~Runs(t) /\ ~Sleeps(list, t) /\ ~LiesDead(list, t)
  <2>1. t \in allocated /\ ~Runs(t)
    BY <1>0, <1>8, HandEntries DEF Runs
  <2>2. \A l \in ListId : ~In(list, l, t)
    BY <1>3, <1>8
  <2> QED
    BY <2>1, <2>2, ListNames DEF Sleeps, LiesDead
<1> QED
  BY <1>1, <1>2, <1>4, <1>5, <1>6, <1>7, <1>8

\* The same after a step
LEMMA LifeNext == IndInv' => LifeTable'
BY LifeNow, PTL

LifeMap == [t \in Thread |-> Life(t)]

\* Outside T nobody changes place.
Unmoved(T) ==
    \A x \in Thread \ T :
        /\ x \in allocated' <=> x \in allocated
        /\ Runs(x)' <=> Runs(x)
        /\ Sleeps(list', x) <=> Sleeps(list, x)
        /\ LiesDead(list', x) <=> LiesDead(list, x)

\* Who does not change place does not change the state of its life.
LEMMA UnmovedLives ==
    ASSUME IndInv, IndInv', NEW T, Unmoved(T)
    PROVE  \A x \in Thread \ T : LifeMap'[x] = LifeMap[x]
<1> SUFFICES ASSUME NEW x \in Thread, x \notin T PROVE LifeMap'[x] = LifeMap[x]
  OBVIOUS
<1>1. LifeMap[x] = Life(x) /\ LifeMap'[x] = Life(x)'
  BY DEF LifeMap
<1>2. LifeTable /\ LifeTable'
  BY LifeNow, LifeNext
<1> DEFINE a == Life(x)
           z == Life(x)'
<1>3. /\ a = "free" <=> x \notin allocated
      /\ a = "running" <=> Runs(x)
      /\ a = "blocked" <=> Sleeps(list, x)
      /\ a = "dead" <=> LiesDead(list, x)
      /\ a \in {"free", "running", "blocked", "dead", "ready"}
  BY <1>2 DEF LifeTable
<1>4. /\ z = "free" <=> x \notin allocated'
      /\ z = "running" <=> Runs(x)'
      /\ z = "blocked" <=> Sleeps(list', x)
      /\ z = "dead" <=> LiesDead(list', x)
      /\ z \in {"free", "running", "blocked", "dead", "ready"}
  BY <1>2 DEF LifeTable
<1> HIDE DEF a, z
<1>5. a = z
  BY <1>3, <1>4 DEF Unmoved
<1> QED
  BY <1>1, <1>5 DEF a, z

\* A step that moves nobody
LEMMA NoMove ==
    ASSUME IndInv, IndInv', Unmoved({})
    PROVE  LifeMap' = LifeMap
<1>1. \A x \in Thread : LifeMap'[x] = LifeMap[x]
  BY UnmovedLives
<1> QED
  BY <1>1 DEF LifeMap

\* A step that moves one thread
LEMMA OneMove ==
    ASSUME IndInv, IndInv', NEW x \in Thread, Unmoved({x}),
           <<Life(x), Life(x)'>> \in Abstract!Change
    PROVE  Abstract!Next
<1>1. \A y \in Thread \ {x} : LifeMap'[y] = LifeMap[y]
  BY UnmovedLives
<1>2. LifeMap[x] = Life(x) /\ LifeMap'[x] = Life(x)'
  BY DEF LifeMap
<1>3. Abstract!OnlyChanged({x})
  BY <1>1 DEF Abstract!OnlyChanged, LifeMap
<1>4. Abstract!Step(x)
  BY <1>2, <1>3 DEF Abstract!Step, LifeMap
<1> QED
  BY <1>4 DEF Abstract!Next

\* A CPU exchanges its thread.
LEMMA Exchange ==
    ASSUME IndInv, IndInv', NEW x \in Thread, NEW y \in Thread, Unmoved({x, y}),
           Life(x) = "running", Life(x)' = "ready", Life(y) = "ready", Life(y)' = "running"
    PROVE  Abstract!Next
<1>1. \A z \in Thread \ {x, y} : LifeMap'[z] = LifeMap[z]
  BY UnmovedLives
<1>2. Abstract!OnlyChanged({x, y})
  BY <1>1 DEF Abstract!OnlyChanged, LifeMap
<1>3. Abstract!Preempt(x, y)
  BY <1>2 DEF Abstract!Preempt
<1> QED
  BY <1>3 DEF Abstract!Next

\* Popping a list moves its first thread only.
LEMMA PopMoves ==
    ASSUME TypeOK, NEW l \in ListId, list[l] # <<>>, list' = ListPop(l)
    PROVE  \A k \in ListId, y \in Thread : y # Head(list[l]) => (In(list', k, y) <=> In(list, k, y))
<1>1. /\ list \in [ListId -> Seq(Thread)] /\ list[l] \in Seq(Thread)
      /\ list' = [list EXCEPT ![l] = Tail(list[l])]
  BY DEF TypeOK, ListPop
<1>2. /\ Len(list[l]) \in Nat /\ Len(list'[l]) = Len(list[l]) - 1 /\ Head(list[l]) = list[l][1]
      /\ \A i \in 1 .. Len(list[l]) - 1 : list'[l][i] = list[l][i + 1]
      /\ \A k \in ListId : k # l => list'[k] = list[k]
  BY <1>1
<1>3. ASSUME NEW y, y # list[l][1] PROVE In(list', l, y) <=> In(list, l, y)
  <2>1. ASSUME NEW i \in 1 .. Len(list[l]), list[l][i] = y
        PROVE  i - 1 \in 1 .. Len(list'[l]) /\ list'[l][i - 1] = y
    <3>1. i # 1 /\ i - 1 \in 1 .. Len(list[l]) - 1 /\ (i - 1) + 1 = i
      BY <1>2, <1>3, <2>1
    <3> QED
      BY <1>2, <2>1, <3>1
  <2>2. ASSUME NEW i \in 1 .. Len(list'[l]), list'[l][i] = y
        PROVE  i + 1 \in 1 .. Len(list[l]) /\ list[l][i + 1] = y
    BY <1>2, <2>2
  <2> QED
    BY <2>1, <2>2 DEF In
<1>4. ASSUME NEW k \in ListId, k # l, NEW y PROVE In(list', k, y) <=> In(list, k, y)
  BY <1>2, <1>4 DEF In
<1> QED
  BY <1>2, <1>3, <1>4

\* Pushing moves the thread pushed only, and that one into the list.
LEMMA PushMoves ==
    ASSUME NEW L \in [ListId -> Seq(Thread)], NEW M, NEW l \in ListId, NEW t \in Thread,
           M[l] = Append(L[l], t), \A k \in ListId : k # l => M[k] = L[k]
    PROVE  /\ \A k \in ListId, y \in Thread : y # t => (In(M, k, y) <=> In(L, k, y))
           /\ In(M, l, t)
<1>1. /\ L[l] \in Seq(Thread) /\ Len(L[l]) \in Nat /\ M[l] = Append(L[l], t)
      /\ \A k \in ListId : k # l => M[k] = L[k]
  OBVIOUS
<1>2. /\ Len(M[l]) = Len(L[l]) + 1 /\ M[l][Len(L[l]) + 1] = t
      /\ \A i \in 1 .. Len(L[l]) : M[l][i] = L[l][i]
  BY <1>1
<1>3. \A i \in 1 .. Len(M[l]) : i \in 1 .. Len(L[l]) \/ i = Len(L[l]) + 1
  BY <1>1, <1>2
<1>4. \A i \in 1 .. Len(L[l]) : i \in 1 .. Len(M[l])
  BY <1>1, <1>2
<1>5. Len(L[l]) + 1 \in 1 .. Len(M[l])
  BY <1>1, <1>2
<1>6. ASSUME NEW y \in Thread, y # t PROVE In(M, l, y) <=> In(L, l, y)
  BY <1>2, <1>3, <1>4, <1>6 DEF In
<1>7. In(M, l, t)
  BY <1>2, <1>5 DEF In
<1>8. ASSUME NEW k \in ListId, k # l, NEW y PROVE In(M, k, y) <=> In(L, k, y)
  BY <1>8 DEF In
<1> QED
  BY <1>6, <1>7, <1>8

\* So does blocker_push.
LEMMA InsertMoves ==
    ASSUME NEW L \in [ListId -> Seq(Thread)], NEW M, NEW l \in ListId, NEW t \in Thread,
           NEW p, Inserted(Thread, ListId, L, M, l, p, t)
    PROVE  /\ \A k \in ListId, y \in Thread : y # t => (In(M, k, y) <=> In(L, k, y))
           /\ In(M, l, t)
<1>1. /\ Len(L[l]) \in Nat /\ p \in 1 .. Len(L[l]) + 1 /\ Len(M[l]) = Len(L[l]) + 1
      /\ M[l][p] = t
      /\ \A i \in 1 .. p - 1 : M[l][i] = L[l][i]
      /\ \A i \in p + 1 .. Len(L[l]) + 1 : M[l][i] = L[l][i - 1]
      /\ \A k \in ListId : k # l => M[k] = L[k]
  BY DEF Inserted
<1>2. ASSUME NEW y \in Thread, y # t PROVE In(M, l, y) <=> In(L, l, y)
  <2>1. ASSUME NEW i \in 1 .. Len(L[l]), L[l][i] = y
        PROVE  \E j \in 1 .. Len(M[l]) : M[l][j] = y
    <3>1. CASE i < p
      <4>1. i \in 1 .. Len(M[l]) /\ M[l][i] = y
        BY <1>1, <2>1, <3>1
      <4> QED
        BY <4>1
    <3>2. CASE i >= p
      <4>1. i + 1 \in 1 .. Len(M[l]) /\ i + 1 \in p + 1 .. Len(L[l]) + 1 /\ (i + 1) - 1 = i
        BY <1>1, <3>2
      <4>2. M[l][i + 1] = y
        BY <1>1, <2>1, <4>1
      <4> QED
        BY <4>1, <4>2
    <3> QED
      BY <1>1, <3>1, <3>2
  <2>2. ASSUME NEW j \in 1 .. Len(M[l]), M[l][j] = y
        PROVE  \E i \in 1 .. Len(L[l]) : L[l][i] = y
    <3>1. j # p
      BY <1>1, <1>2, <2>2
    <3>2. CASE j < p
      <4>1. j \in 1 .. Len(L[l]) /\ L[l][j] = y
        BY <1>1, <2>2, <3>2
      <4> QED
        BY <4>1
    <3>3. CASE j > p
      <4>1. j - 1 \in 1 .. Len(L[l]) /\ j \in p + 1 .. Len(L[l]) + 1
        BY <1>1, <3>3
      <4>2. L[l][j - 1] = y
        BY <1>1, <2>2, <4>1
      <4> QED
        BY <4>1, <4>2
    <3> QED
      BY <1>1, <3>1, <3>2, <3>3
  <2> QED
    BY <2>1, <2>2 DEF In
<1>3. In(M, l, t)
  <2>1. p \in 1 .. Len(M[l])
    BY <1>1
  <2> QED
    BY <1>1, <2>1 DEF In
<1>4. ASSUME NEW k \in ListId, k # l, NEW y PROVE In(M, k, y) <=> In(L, k, y)
  BY <1>1, <1>4 DEF In
<1> QED
  BY <1>2, <1>3, <1>4

\* The lists where a thread sleeps or lies dead
LEMMA ListPlaces ==
    ASSUME NEW x, NEW L, NEW M,
           \A k \in ListId : In(M, k, x) <=> In(L, k, x)
    PROVE  (Sleeps(M, x) <=> Sleeps(L, x)) /\ (LiesDead(M, x) <=> LiesDead(L, x))
BY ListNames DEF Sleeps, LiesDead

\* Pushing to a ready queue puts nobody to sleep and buries nobody.
LEMMA QueuePlaces ==
    ASSUME NEW L, NEW M, \A k \in ListId : k \notin QueueId => M[k] = L[k], NEW x
    PROVE  (Sleeps(M, x) <=> Sleeps(L, x)) /\ (LiesDead(M, x) <=> LiesDead(L, x))
<1>1. \A b \in Blocker : M[Waiters(b)] = L[Waiters(b)]
  BY ListNames, ListKinds
<1>2. \A c \in CPU : M[Graveyard(c)] = L[Graveyard(c)]
  BY ListNames, ListKinds
<1> QED
  BY <1>1, <1>2 DEF Sleeps, LiesDead, In

Implements == Abstract!Next \/ LifeMap' = LifeMap

\* A step that moves nobody
LEMMA QuietMoves ==
    ASSUME IndInv, IndInv', list' = list, allocated' = allocated,
           \A c \in CPU : Owned(c)' = Owned(c)
    PROVE  Unmoved({})
<1>1. \A x : Runs(x)' <=> Runs(x)
  BY DEF Runs
<1> QED
  BY <1>1 DEF Unmoved

\* A new thread is ready.
LEMMA NewMoves ==
    ASSUME IndInv, IndInv', NEW t \in Thread, NEW u \in Thread, NEW p \in Process, NewStep(t, u, p)
    PROVE  Unmoved({u}) /\ Life(u) = "free" /\ Life(u)' = "ready"
<1>1. /\ u \notin allocated /\ thread'[t].child = u /\ list' = list /\ cpu' = cpu
      /\ \A x \in Thread : x # u => (x \in allocated' <=> x \in allocated)
  BY DEF NewStep, NewRecords, allocated
<1>2. Life(u) = "free"
  BY <1>1, LifeNow DEF LifeTable
<1>3. Life(u)' = "ready"
  BY <1>1, LifeNext DEF LifeTable
<1>4. \A x : Runs(x)' <=> Runs(x)
  BY <1>1 DEF Runs, Owned
<1>5. Unmoved({u})
  BY <1>1, <1>4 DEF Unmoved
<1> QED
  BY <1>2, <1>3, <1>5

\* A ready thread is queued.
LEMMA QueueMoves ==
    ASSUME IndInv, IndInv', NEW t \in Thread, NEW l \in QueueId, list' = ListPush(l, t),
           allocated' = allocated, \A c \in CPU : Owned(c)' = Owned(c)
    PROVE  Unmoved({})
<1>1. l \in ListId /\ list \in [ListId -> Seq(Thread)] /\ list' = [list EXCEPT ![l] = Append(list[l], t)]
  BY ListKinds DEF IndInv, TypeOK, ListPush
<1>2. \A k \in ListId : k \notin QueueId => list'[k] = list[k]
  BY <1>1
<1>3. \A x : Runs(x)' <=> Runs(x)
  BY DEF Runs
<1> QED
  BY <1>2, <1>3, QueuePlaces DEF Unmoved

\* A sleeping thread is woken.
LEMMA WakeMoves ==
    ASSUME IndInv, IndInv', NEW c \in CPU, NEW b \in Blocker, WakeStep(c, b)
    PROVE  \E x \in Thread : Unmoved({x}) /\ Life(x) = "blocked" /\ Life(x)' = "ready"
<1>1. Waiters(b) \in ListId /\ list[Waiters(b)] # <<>> /\ TypeOK /\ PlacedInv
  BY ListNames DEF IndInv, WakeStep
<1>2. PICK x \in Thread : x = Head(list[Waiters(b)])
  BY <1>1, FirstThread
<1>3. In(list, Waiters(b), x)
  BY <1>1, <1>2, FirstThread DEF In
<1>4. Life(x) = "blocked"
  BY <1>3, LifeNow DEF LifeTable, Sleeps
<1>5. Life(x)' = "ready"
  BY <1>2, LifeNext DEF LifeTable, WakeStep
<1>6. \A y \in Thread : y # x => \A k \in ListId : In(list', k, y) <=> In(list, k, y)
  BY <1>1, <1>2, PopMoves DEF WakeStep
<1>7. allocated' = allocated
  BY DEF allocated, WakeStep, SameThreads
<1>8. \A d \in CPU : Owned(d)' = Owned(d)
  BY DEF Owned, WakeStep
<1>9. Unmoved({x})
  BY <1>6, <1>7, <1>8, ListPlaces DEF Unmoved, Runs
<1> QED
  BY <1>4, <1>5, <1>9

\* The running thread dies.
LEMMA BuryMoves ==
    ASSUME IndInv, IndInv', NEW c \in CPU, NEW t \in Thread, Buried(c, t)
    PROVE  Unmoved({t}) /\ Life(t) = "running" /\ Life(t)' = "dead"
<1>1. /\ Graveyard(c) \in ListId /\ list \in [ListId -> Seq(Thread)]
      /\ list' = [list EXCEPT ![Graveyard(c)] = Append(list[Graveyard(c)], t)]
  BY ListNames DEF IndInv, TypeOK, Buried, ListPush
<1>2. /\ In(list', Graveyard(c), t)
      /\ \A y \in Thread : y # t => \A k \in ListId : In(list', k, y) <=> In(list, k, y)
  <2>0. list \in [ListId -> Seq(Thread)]
    BY <1>1
  <2>1. PICK g \in ListId : g = Graveyard(c)
    BY <1>1
  <2>2. list'[g] = Append(list[g], t) /\ \A k \in ListId : k # g => list'[k] = list[k]
    BY <1>1, <2>1
  <2>3. /\ In(list', g, t)
        /\ \A k \in ListId, y \in Thread : y # t => (In(list', k, y) <=> In(list, k, y))
    BY <2>0, <2>2, PushMoves
  <2> QED
    BY <2>1, <2>3
<1>3. Owned(c) = t /\ Owned(c)' = None /\ \A d \in CPU : d # c => Owned(d)' = Owned(d)
  BY DEF Buried, Owned
<1>4. Life(t) = "running"
  BY <1>3, LifeNow DEF LifeTable, Runs
<1>5. Life(t)' = "dead"
  BY <1>2, LifeNext DEF LifeTable, LiesDead
<1>6. \A y \in Thread : y # t => (Runs(y)' <=> Runs(y))
  BY <1>3, NoneAssumption DEF Runs
<1>7. allocated' = allocated
  BY DEF allocated, Buried
<1>8. Unmoved({t})
  BY <1>2, <1>6, <1>7, ListPlaces DEF Unmoved
<1> QED
  BY <1>4, <1>5, <1>8

\* The running thread goes to sleep.
LEMMA SleepMoves ==
    ASSUME IndInv, IndInv', NEW c \in CPU, NEW t \in Thread, NEW b \in Blocker, NEW p, Slept(c, t, b, p)
    PROVE  Unmoved({t}) /\ Life(t) = "running" /\ Life(t)' = "blocked"
<1>1. /\ Waiters(b) \in ListId /\ list \in [ListId -> Seq(Thread)]
      /\ Inserted(Thread, ListId, list, list', Waiters(b), p, t)
  BY ListNames DEF IndInv, TypeOK, Slept
<1>2. /\ In(list', Waiters(b), t)
      /\ \A y \in Thread : y # t => \A k \in ListId : In(list', k, y) <=> In(list, k, y)
  BY <1>1, InsertMoves
<1>3. Owned(c) = t /\ Owned(c)' = None /\ \A d \in CPU : d # c => Owned(d)' = Owned(d)
  BY DEF Slept, Owned
<1>4. Life(t) = "running"
  BY <1>3, LifeNow DEF LifeTable, Runs
<1>5. Life(t)' = "blocked"
  BY <1>2, LifeNext DEF LifeTable, Sleeps
<1>6. \A y \in Thread : y # t => (Runs(y)' <=> Runs(y))
  BY <1>3, NoneAssumption DEF Runs
<1>7. allocated' = allocated
  BY DEF allocated, Slept
<1>8. Unmoved({t})
  BY <1>2, <1>6, <1>7, ListPlaces DEF Unmoved
<1> QED
  BY <1>4, <1>5, <1>8

\* A dead thread, or a ready one of a killed process, is freed.
LEMMA FreeMoves ==
    ASSUME IndInv, IndInv', NEW c \in CPU, NEW l \in ListId, l \in GraveyardId \cup QueueId, FreeStep(c, l)
    PROVE  \E x \in Thread : /\ Unmoved({x}) /\ x = Head(list[l])
                            /\ Life(x) \in {"dead", "ready"} /\ Life(x)' = "free"
<1>1. list[l] # <<>> /\ TypeOK /\ PlacedInv
  BY DEF IndInv, FreeStep
<1>2. PICK x \in Thread : x = Head(list[l])
  BY <1>1, FirstThread
<1>3. In(list, l, x)
  BY <1>1, <1>2, FirstThread DEF In
<1>4. Life(x) \in {"dead", "ready"}
  <2>1. CASE l \in GraveyardId
    <3>1. LiesDead(list, x)
      BY <1>3, <2>1 DEF GraveyardId, LiesDead
    <3> QED
      BY <3>1, LifeNow DEF LifeTable
  <2>2. CASE l \in QueueId
    <3>1. Queued(list, x)
      BY <1>3, <2>2 DEF Queued
    <3> QED
      BY <3>1, LifeNow DEF LifeTable
  <2> QED
    BY <2>1, <2>2
<1>5. thread'[x].at = "free" /\ \A y \in Thread : y # x => thread'[y] = thread[y]
  BY <1>1, <1>2 DEF FreeStep, ThreadFree, FreeThread, NewThread, TypeOK
<1>6. x \notin allocated' /\ \A y \in Thread : y # x => (y \in allocated' <=> y \in allocated)
  BY <1>5 DEF allocated
<1>7. Life(x)' = "free"
  BY <1>6, LifeNext DEF LifeTable
<1>8. \A y \in Thread : y # x => \A k \in ListId : In(list', k, y) <=> In(list, k, y)
  BY <1>1, <1>2, PopMoves DEF FreeStep
<1>9. \A d \in CPU : Owned(d)' = Owned(d)
  BY DEF Owned, FreeStep
<1>10. Unmoved({x})
  BY <1>6, <1>8, <1>9, ListPlaces DEF Unmoved, Runs
<1> QED
  BY <1>2, <1>4, <1>7, <1>10

\* A ready thread runs, in the place of another or of none.
LEMMA DispatchMoves ==
    ASSUME IndInv, IndInv', NEW c \in CPU, NEW u \in Thread, NEW l \in QueueId, Dispatched(c, u, l)
    PROVE  /\ Life(u) = "ready" /\ Life(u)' = "running"
           /\ \/ cpu[c].why \notin {"any", "higher"} /\ Unmoved({u})
              \/ \E t \in Thread : /\ cpu[c].why \in {"any", "higher"} /\ t = cpu[c].runThread
                                  /\ Unmoved({t, u})
                                  /\ Life(t) = "running" /\ Life(t)' = "ready"
<1>1. /\ l \in ListId /\ list[l] # <<>> /\ TypeOK /\ PlacedInv /\ list \in [ListId -> Seq(Thread)]
      /\ u = Head(list[l])
  BY ListKinds DEF IndInv, TypeOK, Dispatched
<1>2. In(list, l, u)
  BY <1>1, FirstThread DEF In
<1>3. Queued(list, u)
  BY <1>2 DEF Queued
<1>4. Life(u) = "ready"
  BY <1>3, LifeNow DEF LifeTable
<1>5. Owned(c)' = u /\ \A d \in CPU : d # c => Owned(d)' = Owned(d)
  BY DEF Dispatched, Owned
<1>6. Life(u)' = "running"
  BY <1>5, LifeNext DEF LifeTable, Runs
<1>7. allocated' = allocated
  BY DEF allocated, Dispatched, SameThreads
<1> DEFINE L == ListPop(l)
<1>8. L \in [ListId -> Seq(Thread)] /\ \A k \in ListId : k \notin QueueId => L[k] = list[k]
  BY <1>1, ListTypes
<1> HIDE DEF L
<1>9. CASE cpu[c].why \notin {"any", "higher"}
  <2>1. list' = L
    BY <1>9 DEF Dispatched, L
  <2>2. Owned(c) = None
    BY <1>9 DEF Dispatched, Owned, IndInv, CpuControl, TypeOK, CpuRecord
  <2>3. \A y \in Thread : y # u => (Runs(y)' <=> Runs(y))
    BY <1>5, <2>2, NoneAssumption DEF Runs
  <2>4. Unmoved({u})
    BY <1>7, <1>8, <2>1, <2>3, QueuePlaces DEF Unmoved
  <2> QED
    BY <1>4, <1>6, <1>9, <2>4
<1>10. CASE cpu[c].why \in {"any", "higher"}
  <2>1. PICK t \in Thread : t = cpu[c].runThread
    BY <1>10, HandTypes DEF Dispatched
  <2>2. Owned(c) = t
    BY <1>10, <2>1 DEF Owned
  <2>3. PICK q \in QueueId : q = Queue(c, thread[t].priority)
    BY <1>1 DEF QueueId, TypeOK, ThreadRecord
  <2>4. list' = [L EXCEPT ![q] = Append(L[q], t)] /\ q \in ListId
    BY <1>10, <2>1, <2>3, ListKinds DEF Dispatched, PutBack, L
  <2>5. In(list', q, t) /\ \A k \in ListId : k # q => list'[k] = L[k]
    <3>1. /\ list'[q] = Append(L[q], t)
          /\ \A k \in ListId : k # q => list'[k] = L[k]
      BY <1>8, <2>4
    <3> QED
      BY <1>8, <2>4, <3>1, PushMoves, ZenonT(30)
  <2>6. \A k \in ListId : k \notin QueueId => list'[k] = list[k]
    BY <1>8, <2>5
  <2>7. Life(t) = "running"
    BY <2>2, LifeNow DEF LifeTable, Runs
  <2>8. Queued(list', t)
    BY <2>5 DEF Queued
  <2>9. Life(t)' = "ready"
    BY <2>8, LifeNext DEF LifeTable
  <2>10. \A y \in Thread : y # u /\ y # t => (Runs(y)' <=> Runs(y))
    BY <1>5, <2>2 DEF Runs
  <2>11. Unmoved({t, u})
    BY <1>7, <2>6, <2>10, QueuePlaces DEF Unmoved
  <2> QED
    BY <1>4, <1>6, <1>10, <2>1, <2>7, <2>9, <2>11
<1> QED
  BY <1>9, <1>10

\* One thread runs at the start.
LEMMA InitLife == Init => Abstract!Init
<1> SUFFICES ASSUME Init PROVE Abstract!Init
  OBVIOUS
<1>1. IndInv /\ LifeTable
  BY InitInv, LifeNow
<1>2. PICK t \in Thread : \E p \in Process :
        /\ thread = [u \in Thread |->
              IF u = t THEN [NewThread(p, FALSE, "kernel", PRIORITY_MAX) EXCEPT !.slice = "endless"]
                       ELSE FreeThread]
        /\ cpu = [c \in CPU |-> [
              pc |-> "run", runThread |-> IF c = 0 THEN t ELSE None, lock |-> None,
              pushing |-> None, target |-> 0, why |-> "idle", level |-> -1]]
  BY DEF Init
<1>3. \A u \in Thread : u # t => thread[u].at = "free"
  BY <1>2 DEF FreeThread, NewThread
<1>4. 0 \in CPU /\ Owned(0) = t
  BY <1>2, CpuAssumption DEF CPU, Owned
<1>5. Life(t) = "running"
  BY <1>1, <1>4 DEF LifeTable, Runs
<1>6. \A u \in Thread : u # t => Life(u) = "free"
  BY <1>1, <1>3 DEF LifeTable, allocated
<1>7. LifeMap = [u \in Thread |-> IF u = t THEN "running" ELSE "free"]
  BY <1>5, <1>6 DEF LifeMap
<1> QED
  BY <1>7 DEF Abstract!Init, LifeMap

\* Every step of the scheduler is a step of ThreadLife, or none.
LEMMA NextLife == IndInv /\ IndInv' /\ [Next]_vars => Implements
<1> SUFFICES ASSUME IndInv, IndInv', [Next]_vars PROVE Implements
  OBVIOUS
<1>0. /\ Unmoved({}) => Implements
      /\ \A x \in Thread : Unmoved({x}) /\ <<Life(x), Life(x)'>> \in Abstract!Change => Implements
  BY NoMove, OneMove DEF Implements
<1>8. /\ <<"free", "ready">> \in Abstract!Change /\ <<"blocked", "ready">> \in Abstract!Change
      /\ <<"running", "dead">> \in Abstract!Change /\ <<"running", "blocked">> \in Abstract!Change
      /\ <<"dead", "free">> \in Abstract!Change /\ <<"ready", "free">> \in Abstract!Change
      /\ <<"ready", "running">> \in Abstract!Change
  BY DEF Abstract!Change
<1>1. CASE UNCHANGED vars
  BY <1>0, <1>1, QuietMoves DEF vars, allocated, Owned
<1>2. ASSUME NEW c \in CPU, NEW t \in Thread, ThreadStep(c, t) PROVE Implements
  <2>1. ASSUME NEW u \in Thread, NEW i \in Priority,
               \/ \E p \in Process : ThreadNew(c, t, u, p, i)
               \/ ThreadSplit(c, t, u, i)
        PROVE  Implements
    BY <1>0, <1>8, <2>1, IsNewStep, NewMoves
  <2>2. CASE PushChild(c, t)
    <3>1. PICK u \in Thread, l \in QueueId : ChildPushed(t, u, l)
      BY <2>2, IsChildPushed
    <3>2. allocated' = allocated
      BY <3>1 DEF ChildPushed, allocated
    <3>3. list' = ListPush(l, u) /\ \A d \in CPU : Owned(d)' = Owned(d)
      BY <3>1 DEF ChildPushed, Owned
    <3> QED
      BY <1>0, <3>2, <3>3, QueueMoves
  <2>3. ASSUME OwnMove(c, t) PROVE Implements
    <3>1. list' = list /\ allocated' = allocated
      BY <2>3 DEF OwnMove, OwnRest, OwnRecord, allocated
    <3>2. \A d \in CPU : Owned(d)' = Owned(d)
      BY <2>3 DEF OwnMove, OwnCpu, Running, Owned
    <3> QED
      BY <1>0, <3>1, <3>2, QuietMoves
  <2> QED
    BY <1>2, <2>1, <2>2, <2>3, CallIsOwnMove DEF ThreadStep
<1>3. ASSUME NEW c \in CPU, ControlStep(c) PROVE Implements
  <2>1. list' = list /\ allocated' = allocated
    BY <1>3 DEF ControlStep, allocated
  <2>2. \A d \in CPU : Owned(d)' = Owned(d)
    BY <1>3 DEF ControlStep, Owned
  <2> QED
    BY <1>0, <2>1, <2>2, QuietMoves
<1>4. ASSUME NEW c \in CPU, NEW b \in Blocker, SchedUnblock(c, b) PROVE Implements
  BY <1>3, <1>4, IsControlStep
<1>5. ASSUME NEW c \in CPU, SchedTimer(c) PROVE Implements
  BY <1>3, <1>5, IsControlStep
<1>6. ASSUME NEW c \in CPU, UnblockStep(c) \/ ScheduleStep(c) PROVE Implements
  <2>1. CASE UnblockPop(c) \/ \E b \in Blocker : UpdateBlocker(c, b)
    BY <1>0, <1>3, <1>8, <2>1, IsWakeStep, WakeMoves
  <2>2. CASE SchedPush(c)
    <3>1. PICK t \in Thread, l \in QueueId : WokenPushed(c, t, l)
      BY <2>2, IsWokenPushed
    <3>2. list' = ListPush(l, t) /\ allocated' = allocated /\ \A d \in CPU : Owned(d)' = Owned(d)
      BY <3>1 DEF WokenPushed, allocated, Owned
    <3> QED
      BY <1>0, <3>2, QueueMoves
  <2>3. CASE GraveyardFree(c) \/ FindKilled(c)
    BY <1>0, <1>8, <2>3, IsFreeStep, FreeMoves
  <2>4. CASE GraveyardPush(c)
    BY <1>0, <1>8, <2>4, IsBuried, BuryMoves
  <2>5. CASE PickBlock(c)
    BY <1>0, <1>8, <2>5, IsSlept, SleepMoves
  <2>6. CASE FindThread(c)
    <3>1. PICK u \in Thread, l \in QueueId : Dispatched(c, u, l)
      BY <2>6, IsDispatched
    <3>2. /\ Life(u) = "ready" /\ Life(u)' = "running"
          /\ \/ Unmoved({u})
             \/ \E t \in Thread : Unmoved({t, u}) /\ Life(t) = "running" /\ Life(t)' = "ready"
      BY <3>1, DispatchMoves
    <3>3. ASSUME NEW t \in Thread, Unmoved({t, u}), Life(t) = "running", Life(t)' = "ready"
          PROVE  Implements
      BY <3>2, <3>3, Exchange DEF Implements
    <3> QED
      BY <1>0, <1>8, <3>2, <3>3
  <2> QED
    BY <1>3, <1>6, <2>1, <2>2, <2>3, <2>4, <2>5, <2>6, IsControlStep DEF UnblockStep, ScheduleStep
<1>7. CASE TimePasses
  BY <1>0, <1>7, QuietMoves DEF TimePasses, allocated, Owned
<1> QED
  BY <1>1, <1>2, <1>4, <1>5, <1>6, <1>7 DEF Next

(***************************************************************************)
(* The scheduler implements ThreadLife, whatever CPUs, queues and blockers *)
(* there are: only a ready thread is put on a CPU, a blocked thread        *)
(* becomes ready before it runs again and is never freed, and a thread     *)
(* that has exited does nothing but be reaped.                             *)
(***************************************************************************)
THEOREM SchedulerImplementsLife == Spec => ImplementsThreadLife
<1>1. IndInv /\ IndInv' /\ [Next]_vars => [Abstract!Next]_LifeMap
  BY NextLife DEF Implements
<1>2. Init => Abstract!Init
  BY InitLife
<1> QED
  BY <1>1, <1>2, Invariance, PTL DEF Spec, ImplementsThreadLife, Abstract!Spec, LifeMap

-----------------------------------------------------------------------------
(* Death is final *)

\* The exit functions set killed before their interrupt.
ExitKills ==
    \A t \in Thread : thread[t].at \in {"exit", "returned"} => thread[t].killed

\* A killed thread is still on its CPU or already in a graveyard: no queue, no
\* blocker list and no hand takes it further.
KilledStays ==
    \A t \in Thread : thread[t].killed => Runs(t) \/ LiesDead(list, t)

\* sched_schedule puts back only a thread it has found alive.
PutBackAlive ==
    \A c \in CPU : cpu[c].pc = "find" /\ cpu[c].why \in {"any", "higher"}
                    => ~thread[cpu[c].runThread].killed

\* What a CPU executes with interrupts enabled is not behind an exit.
NotBehindExit ==
    \A c \in CPU : cpu[c].pc \in {"run", "unblock"} /\ cpu[c].runThread # None
                    => thread[cpu[c].runThread].at # "returned"

DeathInv == ExitKills /\ KilledStays /\ PutBackAlive /\ NotBehindExit

\* Who stays in place and keeps its mark keeps the invariant about it.
LEMMA KilledMoves ==
    ASSUME KilledStays, NEW T, Unmoved(T),
           \A x \in Thread \ T : thread'[x].killed = thread[x].killed,
           \A x \in Thread : x \in T => ~thread'[x].killed \/ Runs(x)' \/ LiesDead(list', x)
    PROVE  KilledStays'
<1> SUFFICES ASSUME NEW x \in Thread, thread'[x].killed PROVE Runs(x)' \/ LiesDead(list', x)
  BY DEF KilledStays
<1>1. CASE x \in T
  BY <1>1
<1>2. CASE x \notin T
  BY <1>2 DEF KilledStays, Unmoved
<1> QED
  BY <1>1, <1>2

\* A thread that is ready or asleep is not killed.
LEMMA ReadyAlive ==
    ASSUME IndInv, KilledStays, NEW x \in Thread, Life(x) \in {"free", "ready", "blocked"}
    PROVE  ~thread[x].killed
BY LifeNow DEF LifeTable, KilledStays

\* The CPUs keep what they execute.
SameCpus(c) ==
    /\ \A d \in CPU \ {c} : cpu'[d] = cpu[d]
    /\ cpu'[c].pc = cpu[c].pc /\ cpu'[c].why = cpu[c].why /\ cpu'[c].runThread = cpu[c].runThread

\* Threads keep their place in the code and their mark, or are harmless.
Harmless ==
    \A x \in Thread : \/ thread'[x].at = thread[x].at /\ thread'[x].killed = thread[x].killed
                      \/ thread'[x].at \notin {"exit", "returned"} /\ ~thread'[x].killed

\* Such a step keeps the invariant if those who move are alive or dead.
LEMMA HarmlessKeeps ==
    ASSUME IndInv, DeathInv, NEW c \in CPU, SameCpus(c), Harmless, KilledStays'
    PROVE  DeathInv'
<1>1. cpu \in [CPU -> CpuRecord]
  BY DEF IndInv, TypeOK
<1>2. \A d \in CPU : /\ cpu'[d].pc = cpu[d].pc /\ cpu'[d].why = cpu[d].why
                     /\ cpu'[d].runThread = cpu[d].runThread
                     /\ cpu[d].runThread \in Thread \cup {None}
  BY <1>1 DEF SameCpus, CpuRecord
<1>3. ExitKills'
  BY DEF DeathInv, ExitKills, Harmless
<1>4. PutBackAlive'
  BY <1>2, HandTypes DEF DeathInv, PutBackAlive, Harmless
<1>5. NotBehindExit'
  BY <1>2 DEF DeathInv, NotBehindExit, Harmless
<1> QED
  BY <1>3, <1>4, <1>5 DEF DeathInv

\* A step that moves nobody but may change where a CPU is
LEMMA QuietDeath ==
    ASSUME IndInv, IndInv', DeathInv, NEW c \in CPU, ControlStep(c),
           cpu'[c].pc = "find" /\ cpu'[c].why \in {"any", "higher"}
                => ~thread[cpu'[c].runThread].killed,
           cpu'[c].pc \in {"run", "unblock"} /\ cpu'[c].runThread # None
                => thread[cpu'[c].runThread].at # "returned"
    PROVE  DeathInv'
<1>1. thread' = thread /\ list' = list /\ allocated' = allocated /\ \A d \in CPU : d # c => cpu'[d] = cpu[d]
  BY DEF ControlStep, allocated
<1>2. \A d \in CPU : Owned(d)' = Owned(d)
  BY DEF ControlStep, Owned
<1>3. KilledStays'
  BY <1>1, <1>2, QuietMoves, KilledMoves DEF DeathInv
<1>4. ExitKills'
  BY <1>1 DEF DeathInv, ExitKills
<1>5. PutBackAlive' /\ NotBehindExit'
  BY <1>1 DEF DeathInv, PutBackAlive, NotBehindExit
<1> QED
  BY <1>3, <1>4, <1>5 DEF DeathInv

\* The steps of this kind
LEMMA ControlDeaths ==
    ASSUME IndInv, IndInv', DeathInv, NEW c \in CPU,
           \/ \E b \in Blocker : SchedUnblock(c, b)
           \/ UnblockEnd(c)
           \/ SchedTimer(c)
           \/ UpdateBlockersEnd(c)
           \/ PickIdle(c)
           \/ PickPreempt(c)
           \/ FindEmpty(c)
           \/ FindNone(c)
    PROVE  DeathInv'
<1>1. ControlStep(c)
  BY IsControlStep
<1>2. cpu \in [CPU -> CpuRecord] /\ cpu[c] \in CpuRecord
  BY DEF IndInv, TypeOK
<1> DEFINE Finds == cpu'[c].pc = "find" /\ cpu'[c].why \in {"any", "higher"}
                        => ~thread[cpu'[c].runThread].killed
           Goes == cpu'[c].pc \in {"run", "unblock"} /\ cpu'[c].runThread # None
                        => thread[cpu'[c].runThread].at # "returned"
<1> SUFFICES Finds /\ Goes
  BY <1>1, QuietDeath
<1>3. CASE (\E b \in Blocker : SchedUnblock(c, b)) \/ UnblockEnd(c)
  <2>1. /\ cpu'[c].pc \in {"run", "unblock"} /\ cpu[c].pc \in {"run", "unblock"}
        /\ cpu'[c].runThread = cpu[c].runThread
    BY <1>2, <1>3 DEF SchedUnblock, UnblockEnd, CpuRecord
  <2> QED
    BY <2>1 DEF DeathInv, NotBehindExit
<1>4. CASE SchedTimer(c)
  <2>1. cpu'[c].pc \in {"tick", "graveyard"}
    BY <1>2, <1>4 DEF SchedTimer, EnterSchedule, CpuRecord
  <2> QED
    BY <2>1
<1>5. CASE UpdateBlockersEnd(c)
  <2>1. cpu'[c].pc = "graveyard"
    BY <1>2, <1>5 DEF UpdateBlockersEnd, CpuRecord
  <2> QED
    BY <2>1
<1>6. CASE PickIdle(c)
  <2>1. cpu'[c].pc = "find" /\ cpu'[c].why = "idle"
    BY <1>2, <1>6 DEF PickIdle, StartFind, CpuRecord
  <2> QED
    BY <2>1
<1>7. CASE PickPreempt(c)
  <2>1. PICK why \in {"any", "higher"} : cpu' = StartFind(c, why)
    BY <1>7 DEF PickPreempt
  <2>2. cpu'[c].runThread = cpu[c].runThread /\ cpu'[c].pc = "find"
    BY <1>2, <2>1 DEF StartFind, CpuRecord
  <2> QED
    BY <1>7, <2>2 DEF PickPreempt, MustDie
<1>8. CASE FindEmpty(c)
  <2>1. /\ cpu'[c].pc = "find" /\ cpu[c].pc = "find" /\ cpu'[c].why = cpu[c].why
        /\ cpu'[c].runThread = cpu[c].runThread
    BY <1>2, <1>8 DEF FindEmpty, CpuRecord
  <2> QED
    BY <2>1 DEF DeathInv, PutBackAlive
<1>9. CASE FindNone(c)
  <2>1. cpu'[c].pc = "run" /\ cpu[c].pc = "find"
    BY <1>2, <1>9 DEF FindNone, Return, CpuRecord
  <2>2. cpu'[c].runThread # None => /\ cpu[c].why \in {"any", "higher"}
                                    /\ cpu'[c].runThread = cpu[c].runThread
    BY <1>2, <1>9 DEF FindNone, Return, CpuRecord
  <2>3. cpu'[c].runThread # None => /\ cpu'[c].runThread \in Thread
                                    /\ ~thread[cpu'[c].runThread].killed
    BY <2>1, <2>2, HandTypes DEF DeathInv, PutBackAlive
  <2> QED
    BY <2>1, <2>3 DEF DeathInv, ExitKills
<1> QED
  BY <1>3, <1>4, <1>5, <1>6, <1>7, <1>8, <1>9

\* What a thread does by itself: only the interrupt of an exit leads behind it,
\* and that enters the handler.
LEMMA OwnDeath ==
    ASSUME IndInv, IndInv', DeathInv, NEW c \in CPU, NEW t \in Thread, OwnMove(c, t)
    PROVE  DeathInv'
<1>1. /\ Owned(c) = t /\ t # None /\ list' = list /\ cpu[c].pc = "run" /\ cpu[c].runThread = t
      /\ \A u \in Thread : u # t => thread'[u] = thread[u]
      /\ thread[t].at \notin {"push", "free"} /\ thread'[t].at \notin {"push", "free"}
      /\ \A d \in CPU : d # c => cpu'[d] = cpu[d]
      /\ cpu'[c].runThread = t /\ cpu'[c].pc \in {"run", "tick", "graveyard"}
      /\ cpu \in [CPU -> CpuRecord]
  BY DEF OwnMove, OwnRecord, OwnRest, OwnCpu, Running, Owned, IndInv, TypeOK
<1>2. allocated' = allocated
  BY <1>1 DEF allocated
<1>3. \A d \in CPU : Owned(d)' = Owned(d)
  BY <1>1 DEF Owned
<1>4. Unmoved({}) /\ Runs(t)'
  BY <1>1, <1>2, <1>3, QuietMoves DEF Runs
<1>5. KilledStays'
  <2>1. Unmoved({t})
    BY <1>4 DEF Unmoved
  <2> QED
    BY <1>1, <1>4, <2>1, KilledMoves DEF DeathInv
<1>6. ExitKills'
  BY <1>1 DEF DeathInv, ExitKills, OwnMove, OwnRecord
<1>7. PutBackAlive'
  <2> SUFFICES ASSUME NEW d \in CPU, cpu'[d].pc = "find", cpu'[d].why \in {"any", "higher"}
               PROVE  ~thread'[cpu'[d].runThread].killed
    BY DEF PutBackAlive
  <2>1. d # c /\ cpu'[d] = cpu[d]
    BY <1>1
  <2>2. cpu[d].runThread \in Thread /\ Owned(d) = cpu[d].runThread
    BY <2>1, HandTypes
  <2>3. cpu[d].runThread # t
    BY <1>1, <2>1, <2>2, HandEntries
  <2> QED
    BY <1>1, <2>1, <2>2, <2>3 DEF DeathInv, PutBackAlive
<1>8. NotBehindExit'
  <2> SUFFICES ASSUME NEW d \in CPU, cpu'[d].pc \in {"run", "unblock"}, cpu'[d].runThread # None
               PROVE  thread'[cpu'[d].runThread].at # "returned"
    BY DEF NotBehindExit
  <2>1. CASE d = c
    BY <1>1, <2>1 DEF OwnMove, OwnRecord
  <2>2. CASE d # c
    <3>1. cpu'[d] = cpu[d] /\ cpu[d].runThread \in Thread /\ Owned(d) = cpu[d].runThread
      BY <1>1, <2>2 DEF CpuRecord, Owned
    <3>2. cpu[d].runThread # t
      BY <1>1, <2>2, <3>1, HandEntries
    <3> QED
      BY <1>1, <3>1, <3>2 DEF DeathInv, NotBehindExit
  <2> QED
    BY <2>1, <2>2
<1> QED
  BY <1>5, <1>6, <1>7, <1>8 DEF DeathInv

\* A new thread is alive.
LEMMA NewDeath ==
    ASSUME IndInv, IndInv', DeathInv, NEW t \in Thread, NEW u \in Thread, NEW p \in Process, NewStep(t, u, p)
    PROVE  DeathInv'
<1>1. /\ cpu' = cpu /\ ~thread'[u].killed /\ thread'[u].at \in {"entry", "user", "kernel"}
      /\ thread'[t].killed = thread[t].killed /\ thread'[t].at = "push" /\ thread[t].at = "kernel"
      /\ \A w \in Thread : w # t /\ w # u => thread'[w] = thread[w]
  BY DEF NewStep, NewRecords
<1>2. ~thread[t].killed
  BY <1>1 DEF IndInv, ThreadControl
<1>3. KilledStays'
  BY <1>1, NewMoves, KilledMoves DEF DeathInv
<1>4. Harmless
  BY <1>1, <1>2 DEF Harmless
<1>5. PICK c \in CPU : SameCpus(c)
  <2>1. 0 \in CPU
    BY CpuAssumption DEF CPU
  <2> QED
    BY <1>1, <2>1 DEF SameCpus
<1> QED
  BY <1>3, <1>4, <1>5, HarmlessKeeps

\* So is one that is queued for the first time, and its creator.
LEMMA ChildDeath ==
    ASSUME IndInv, IndInv', DeathInv, NEW t \in Thread, NEW u \in Thread, NEW l \in QueueId,
           ChildPushed(t, u, l)
    PROVE  DeathInv'
<1>1. /\ cpu' = cpu /\ list' = ListPush(l, u)
      /\ thread'[t].killed = thread[t].killed /\ thread'[t].at = "kernel" /\ thread[t].at = "push"
      /\ \A w \in Thread : w # t => thread'[w] = thread[w]
  BY DEF ChildPushed
<1>2. ~thread[t].killed
  BY <1>1 DEF IndInv, ThreadControl
<1>3. allocated' = allocated /\ \A d \in CPU : Owned(d)' = Owned(d)
  BY <1>1 DEF allocated, Owned
<1>4. Unmoved({})
  BY <1>1, <1>3, QueueMoves
<1>5. \A x \in Thread : thread'[x].killed = thread[x].killed
  BY <1>1
<1>6. KilledStays'
  BY <1>4, <1>5, KilledMoves DEF DeathInv
<1>7. Harmless
  BY <1>1, <1>2 DEF Harmless
<1>8. PICK c \in CPU : SameCpus(c)
  <2>1. 0 \in CPU
    BY CpuAssumption DEF CPU
  <2> QED
    BY <1>1, <2>1 DEF SameCpus
<1> QED
  BY <1>6, <1>7, <1>8, HarmlessKeeps

\* A woken thread is alive.
LEMMA WakeDeath ==
    ASSUME IndInv, IndInv', DeathInv, NEW c \in CPU, NEW b \in Blocker, WakeStep(c, b)
    PROVE  DeathInv'
<1>1. \A x \in Thread : thread'[x].killed = thread[x].killed /\ thread'[x].at = thread[x].at
  BY DEF WakeStep, SameThreads
<1>2. PICK x \in Thread : Unmoved({x}) /\ Life(x) = "blocked"
  BY WakeMoves
<1>3. ~thread[x].killed
  BY <1>2, ReadyAlive DEF DeathInv
<1>4. KilledStays'
  BY <1>1, <1>2, <1>3, KilledMoves DEF DeathInv
<1>5. Harmless /\ SameCpus(c)
  BY <1>1 DEF Harmless, SameCpus, WakeStep
<1> QED
  BY <1>4, <1>5, HarmlessKeeps

\* The end of sched_push
LEMMA PushDeath ==
    ASSUME IndInv, IndInv', DeathInv, NEW c \in CPU, NEW t \in Thread, NEW l \in QueueId,
           WokenPushed(c, t, l)
    PROVE  DeathInv'
<1>1. thread' = thread /\ list' = ListPush(l, t) /\ SameCpus(c)
  BY DEF WokenPushed, SameCpus
<1>2. allocated' = allocated /\ \A d \in CPU : Owned(d)' = Owned(d)
  BY <1>1 DEF allocated, Owned, SameCpus
<1>3. Unmoved({})
  BY <1>1, <1>2, QueueMoves
<1>4. KilledStays'
  BY <1>1, <1>3, KilledMoves DEF DeathInv
<1>5. Harmless
  BY <1>1 DEF Harmless
<1> QED
  BY <1>1, <1>4, <1>5, HarmlessKeeps

\* A thread is freed.
LEMMA FreeDeath ==
    ASSUME IndInv, IndInv', DeathInv, NEW c \in CPU, NEW l \in ListId,
           l \in GraveyardId \cup QueueId, FreeStep(c, l)
    PROVE  DeathInv'
<1>1. PICK x \in Thread : Unmoved({x}) /\ x = Head(list[l])
  BY FreeMoves
<1>2. /\ thread'[x].at = "free" /\ ~thread'[x].killed
      /\ \A y \in Thread : y # x => thread'[y] = thread[y]
  BY <1>1 DEF FreeStep, ThreadFree, FreeThread, NewThread, IndInv, TypeOK
<1>3. KilledStays'
  BY <1>1, <1>2, KilledMoves DEF DeathInv
<1>4. Harmless
  BY <1>2 DEF Harmless
<1>5. SameCpus(c)
  BY DEF FreeStep, SameCpus
<1> QED
  BY <1>3, <1>4, <1>5, HarmlessKeeps

\* A step that leaves the records alone and ends in a search for any thread
LEMMA SearchDeath ==
    ASSUME IndInv, DeathInv, NEW c \in CPU, thread' = thread, KilledStays',
           \A d \in CPU \ {c} : cpu'[d] = cpu[d],
           cpu'[c].pc = "find", cpu'[c].why \notin {"any", "higher"}
    PROVE  DeathInv'
<1>1. ExitKills'
  BY DEF DeathInv, ExitKills
<1>2. PutBackAlive' /\ NotBehindExit'
  BY DEF DeathInv, PutBackAlive, NotBehindExit
<1> QED
  BY <1>1, <1>2 DEF DeathInv

\* A thread is dispatched: it was ready, so it is alive, and so is the thread
\* that gives way.
LEMMA DispatchDeath ==
    ASSUME IndInv, IndInv', DeathInv, NEW c \in CPU, NEW u \in Thread, NEW l \in QueueId, Dispatched(c, u, l)
    PROVE  DeathInv'
<1>1. /\ \A x \in Thread : thread'[x].killed = thread[x].killed /\ thread'[x].at = thread[x].at
      /\ \A d \in CPU : d # c => cpu'[d] = cpu[d]
      /\ cpu'[c].pc = "run" /\ cpu'[c].runThread = u /\ cpu[c].pc = "find"
  BY DEF Dispatched, SameThreads
<1>2. Life(u) = "ready"
  BY DispatchMoves
<1>3. ~thread[u].killed
  BY <1>2, ReadyAlive DEF DeathInv
<1>4. KilledStays'
  <2>1. CASE Unmoved({u})
    BY <1>1, <1>3, <2>1, KilledMoves DEF DeathInv
  <2>2. ASSUME NEW t \in Thread, cpu[c].why \in {"any", "higher"}, t = cpu[c].runThread, Unmoved({t, u})
        PROVE  KilledStays'
    <3>1. ~thread[t].killed
      BY <1>1, <2>2 DEF DeathInv, PutBackAlive
    <3> QED
      BY <1>1, <1>3, <2>2, <3>1, KilledMoves DEF DeathInv
  <2> QED
    BY <2>1, <2>2, DispatchMoves
<1>5. ExitKills'
  BY <1>1 DEF DeathInv, ExitKills
<1>6. \A d \in CPU : cpu[d].runThread \in Thread \cup {None}
  BY DEF IndInv, TypeOK, CpuRecord
<1>7. PutBackAlive'
  BY <1>1, HandTypes DEF DeathInv, PutBackAlive
<1>8. thread'[u].at # "returned"
  BY <1>1, <1>3 DEF DeathInv, ExitKills
<1>9. NotBehindExit'
  BY <1>1, <1>6, <1>8 DEF DeathInv, NotBehindExit
<1> QED
  BY <1>4, <1>5, <1>7, <1>9 DEF DeathInv

\* At the start nobody has exited.
LEMMA InitDeath == Init => DeathInv
<1> SUFFICES ASSUME Init PROVE DeathInv
  OBVIOUS
<1>1. \A t \in Thread : thread[t].at \in {"kernel", "free"} /\ ~thread[t].killed
  BY DEF Init, NewThread, FreeThread
<1>2. IndInv
  BY InitInv
<1>3. \A c \in CPU : cpu[c].runThread \in Thread \cup {None} /\ cpu[c].pc = "run"
  BY <1>2 DEF Init, IndInv, TypeOK, CpuRecord
<1> QED
  BY <1>1, <1>3 DEF DeathInv, ExitKills, KilledStays, PutBackAlive, NotBehindExit

\* Every step keeps the dead dead.
LEMMA NextDeath == IndInv /\ IndInv' /\ DeathInv /\ [Next]_vars => DeathInv'
<1> SUFFICES ASSUME IndInv, IndInv', DeathInv, [Next]_vars PROVE DeathInv'
  OBVIOUS
<1>1. ASSUME UNCHANGED <<list, thread, cpu>> PROVE DeathInv'
  <2>1. PICK c \in CPU : SameCpus(c)
    <3>1. 0 \in CPU
      BY CpuAssumption DEF CPU
    <3> QED
      BY <1>1, <3>1 DEF SameCpus
  <2>2. Harmless /\ allocated' = allocated /\ \A d \in CPU : Owned(d)' = Owned(d)
    BY <1>1 DEF Harmless, allocated, Owned
  <2>3. KilledStays'
    BY <1>1, <2>2, QuietMoves, KilledMoves DEF DeathInv
  <2> QED
    BY <2>1, <2>2, <2>3, HarmlessKeeps
<1>2. ASSUME NEW c \in CPU, NEW t \in Thread, ThreadStep(c, t) PROVE DeathInv'
  <2>1. ASSUME NEW u \in Thread, NEW i \in Priority,
               \/ \E p \in Process : ThreadNew(c, t, u, p, i)
               \/ ThreadSplit(c, t, u, i)
        PROVE  DeathInv'
    BY <2>1, IsNewStep, NewDeath
  <2>2. CASE PushChild(c, t)
    BY <2>2, IsChildPushed, ChildDeath
  <2>3. ASSUME OwnMove(c, t) PROVE DeathInv'
    BY <2>3, OwnDeath
  <2> QED
    BY <1>2, <2>1, <2>2, <2>3, CallIsOwnMove DEF ThreadStep
<1>3. ASSUME NEW c \in CPU, NEW b \in Blocker, SchedUnblock(c, b) PROVE DeathInv'
  BY <1>3, ControlDeaths
<1>4. ASSUME NEW c \in CPU, SchedTimer(c) PROVE DeathInv'
  BY <1>4, ControlDeaths
<1>5. ASSUME NEW c \in CPU, UnblockStep(c) \/ ScheduleStep(c) PROVE DeathInv'
  <2>1. CASE UnblockPop(c) \/ \E b \in Blocker : UpdateBlocker(c, b)
    <3>1. ASSUME ControlStep(c), cpu' = cpu PROVE DeathInv'
      BY <1>1, <3>1 DEF ControlStep
    <3> QED
      BY <2>1, <3>1, IsWakeStep, WakeDeath
  <2>2. CASE SchedPush(c)
    BY <2>2, IsWokenPushed, PushDeath
  <2>3. CASE GraveyardFree(c) \/ FindKilled(c)
    BY <2>3, IsFreeStep, FreeDeath
  <2>4. CASE GraveyardPush(c)
    <3>1. PICK t \in Thread : Buried(c, t)
      BY <2>4, IsBuried
    <3>2. Unmoved({t}) /\ LiesDead(list', t)
      BY <3>1, BuryMoves, LifeNext DEF LifeTable
    <3>3. thread' = thread
      BY <3>1 DEF Buried
    <3>4. KilledStays'
      BY <3>2, <3>3, KilledMoves DEF DeathInv
    <3> QED
      BY <3>1, <3>3, <3>4, SearchDeath DEF Buried
  <2>5. CASE PickBlock(c)
    <3>1. PICK t \in Thread, b \in Blocker : \E p : Slept(c, t, b, p)
      BY <2>5, IsSlept
    <3>2. Unmoved({t}) /\ thread' = thread /\ ~thread[t].killed
      BY <3>1, SleepMoves DEF Slept
    <3>3. KilledStays'
      BY <3>2, KilledMoves DEF DeathInv
    <3> QED
      BY <3>1, <3>2, <3>3, SearchDeath DEF Slept
  <2>6. CASE FindThread(c)
    BY <2>6, IsDispatched, DispatchDeath
  <2> QED
    BY <1>5, <2>1, <2>2, <2>3, <2>4, <2>5, <2>6, ControlDeaths DEF UnblockStep, ScheduleStep
<1>6. CASE TimePasses
  BY <1>1, <1>6 DEF TimePasses
<1>7. CASE UNCHANGED vars
  BY <1>1, <1>7 DEF vars
<1> QED
  BY <1>2, <1>3, <1>4, <1>5, <1>6, <1>7 DEF Next

(***************************************************************************)
(* The log_panic calls behind the interrupts of sched_process_exit and     *)
(* sched_thread_exit are never reached: a thread that has set killed is    *)
(* buried by the first sched_schedule that sees it, whether the timer or   *)
(* its own interrupt enters it, and nothing takes it out of the graveyard. *)
(***************************************************************************)
THEOREM ExitIsFinal == Spec => []ExitNeverReturns
<1>1. DeathInv => ExitNeverReturns
  BY DEF DeathInv, NotBehindExit, ExitNeverReturns
<1>2. Spec => []DeathInv
  BY InitDeath, NextDeath, Invariance, PTL DEF Spec
<1> QED
  BY <1>1, <1>2, PTL

=============================================================================
