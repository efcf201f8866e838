---------------------------- MODULE KernelProofs ----------------------------
(***************************************************************************)
(* Theorems about the spin lock and the masking of interrupts (Lock), for  *)
(* every number of CPUs, threads, locks and tickets, as long as there is a *)
(* ticket for every CPU; about the start and the halt of the CPUs (Smp),   *)
(* for any number of them; about physical and virtual memory (Vmm), for    *)
(* any memory map, number of spaces and size of tables and buffers; and    *)
(* about the bitmap search and RECT_SUBTRACT (Searches), for bitmaps and   *)
(* rectangles of any size.                                                 *)
(***************************************************************************)
EXTENDS Lock, Smp, Vmm, Searches, FiniteSetTheorems, SequenceTheorems, WellFoundedInduction, TLAPS

-----------------------------------------------------------------------------
(* The spin lock and interrupt masking *)

\* The calls of cli_push that the code of x has not popped yet
Pushed(x) ==
    Len(frame[x].held) + IF frame[x].pc \in {"ticket", "spin", "pop"} THEN 1 ELSE 0

\* A context holds each of its locks once, and takes one that it does not hold.
HeldOnce ==
    \A x \in Context :
        /\ \A i, j \in 1 .. Len(frame[x].held) : frame[x].held[i] = frame[x].held[j] => i = j
        /\ frame[x].pc \in {"cli", "ticket", "spin"} =>
            /\ frame[x].lock \in LockId
            /\ \A i \in 1 .. Len(frame[x].held) : frame[x].held[i] # frame[x].lock

\* No two CPUs run the same thread.
OneCpu == \A c, d \in CPU : cpu[c].thread = cpu[d].thread => c = d

\* The counter and the flag of a CPU belong to the code that it runs.
Counted ==
    \A c \in CPU :
        /\ cpu[c].cliAmount = Pushed(Active(c))
        /\ cpu[c].enabled <=> cpu[c].trapDepth = 0 /\ cpu[c].cliAmount = 0
        /\ cpu[c].trapDepth = 0 /\ cpu[c].cliAmount > 0 => cpu[c].prevFlags

\* Code that pushed is on a CPU; the flags a thread read outside were enabled.
PushedRuns ==
    /\ \A x \in Context : Pushed(x) > 0 => \E c \in CPU : Active(c) = x
    /\ \A t \in Thread : frame[t].pc = "cli" /\ frame[t].held = <<>> => frame[t].rflags

MaskInv == HeldOnce /\ OneCpu /\ Counted /\ PushedRuns

-----------------------------------------------------------------------------
(* Tickets *)

\* How far ticket a is ahead of ticket b, around the end of the counter
Ahead(a, b) == IF a >= b THEN a - b ELSE a - b + TicketSize

\* Who has drawn a ticket of lock l and has not released it
Users(l) == {x \in Context : Holds(x, l) \/ (frame[x].pc = "spin" /\ frame[x].lock = l)}

\* How many are served before x
Place(x, l) == IF Holds(x, l) THEN 0 ELSE Ahead(frame[x].ticket, nowServing[l])

\* The users of a lock are the tickets from nowServing up to nextTicket, one each.
QueueInv(l) ==
    /\ Cardinality(Users(l)) <= TicketSize
    /\ \A x \in Users(l) : Place(x, l) < Cardinality(Users(l))
    /\ \A x, y \in Users(l) : Place(x, l) = Place(y, l) => x = y
    /\ Ahead(nextTicket[l], nowServing[l]) =
        IF Cardinality(Users(l)) = TicketSize THEN 0 ELSE Cardinality(Users(l))

TicketInv == \A l \in LockId : QueueInv(l)

IndInv == TypeOK /\ MaskInv /\ TicketInv

\* The next ticket, without the modulus
LEMMA IncrementValue ==
    ASSUME NEW n \in Ticket
    PROVE  Increment(n) = IF n = TicketSize - 1 THEN 0 ELSE n + 1
BY TicketAssumption DEF Increment, Ticket

\* A context holds at most as many locks as there are.
LEMMA HeldBound ==
    ASSUME NEW s \in Seq(LockId), \A i, j \in 1 .. Len(s) : s[i] = s[j] => i = j
    PROVE  Len(s) \in Nat /\ Cardinality(LockId) \in Nat /\ Len(s) <= Cardinality(LockId)
<1>1. s \in Injection(1 .. Len(s), LockId)
  BY DEF Injection, IsInjective
<1>2. Cardinality(1 .. Len(s)) = Len(s)
  BY FS_Interval
<1>3. Cardinality(1 .. Len(s)) <= Cardinality(LockId)
  BY <1>1, FiniteAssumption, FS_Injection
<1> QED
  BY <1>2, <1>3, FiniteAssumption, FS_CardinalityType

-----------------------------------------------------------------------------
(* Masking *)

LEMMA PushedType ==
    ASSUME TypeOK, NEW x \in Context
    PROVE  Pushed(x) \in Nat
<1>1. frame[x].held \in Seq(LockId)
  BY DEF TypeOK, Frame
<1>2. Len(frame[x].held) \in Nat
  BY <1>1
<1>3. Pushed(x) = Len(frame[x].held) + 1 \/ Pushed(x) = Len(frame[x].held) + 0
  BY DEF Pushed
<1> QED
  BY <1>2, <1>3

\* CPUs run different code.
LEMMA ActiveOnce ==
    ASSUME TypeOK, OneCpu, NEW c \in CPU
    PROVE  /\ Active(c) \in Context
           /\ \A d \in CPU : Active(d) = Active(c) => d = c
BY ContextAssumption DEF TypeOK, OneCpu, Active, Context, CpuRecord

\* A step of the code x that CPU c runs: it writes its own frame, and it
\* counts its own pushes.
OwnStep(c, f, r) ==
    /\ f \in Frame /\ r \in CpuRecord
    /\ frame' = [frame EXCEPT ![Active(c)] = f]
    /\ cpu' = [cpu EXCEPT ![c] = r]
    /\ r.thread = cpu[c].thread /\ r.trapDepth = cpu[c].trapDepth

\* Such a step keeps the masking when it does so for its own frame.
LEMMA OwnMask ==
    ASSUME TypeOK, MaskInv, NEW c \in CPU, NEW f, NEW r, OwnStep(c, f, r),
           \A i, j \in 1 .. Len(f.held) : f.held[i] = f.held[j] => i = j,
           f.pc \in {"cli", "ticket", "spin"} =>
                f.lock \in LockId /\ \A i \in 1 .. Len(f.held) : f.held[i] # f.lock,
           r.cliAmount = Len(f.held) + (IF f.pc \in {"ticket", "spin", "pop"} THEN 1 ELSE 0),
           r.enabled <=> r.trapDepth = 0 /\ r.cliAmount = 0,
           r.trapDepth = 0 /\ r.cliAmount > 0 => r.prevFlags,
           r.trapDepth = 0 /\ f.pc = "cli" /\ f.held = <<>> => f.rflags
    PROVE  MaskInv'
<1> DEFINE x == Active(c)
<1>1. x \in Context /\ \A d \in CPU : Active(d) = x => d = c
  BY ActiveOnce DEF MaskInv
<1>2. /\ frame \in [Context -> Frame] /\ cpu \in [CPU -> CpuRecord]
      /\ frame' = [frame EXCEPT ![x] = f] /\ cpu' = [cpu EXCEPT ![c] = r]
  BY DEF TypeOK, OwnStep
<1>3. \A d \in CPU : Active(d)' = Active(d)
  BY <1>2 DEF Active, OwnStep
<1>4. frame'[x] = f /\ \A y \in Context : y # x => frame'[y] = frame[y]
  BY <1>1, <1>2
<1>5. cpu'[c] = r /\ \A d \in CPU : d # c => cpu'[d] = cpu[d]
  BY <1>2
<1>6. HeldOnce'
  BY <1>4 DEF MaskInv, HeldOnce
<1>7. OneCpu'
  BY <1>5 DEF MaskInv, OneCpu, OwnStep
<1>8. Counted'
  <2>2. Pushed(x)' = r.cliAmount
    BY <1>3, <1>4 DEF Pushed
  <2> SUFFICES ASSUME NEW d \in CPU
               PROVE  /\ cpu'[d].cliAmount = Pushed(Active(d))'
                      /\ cpu'[d].enabled <=> cpu'[d].trapDepth = 0 /\ cpu'[d].cliAmount = 0
                      /\ cpu'[d].trapDepth = 0 /\ cpu'[d].cliAmount > 0 => cpu'[d].prevFlags
    BY DEF Counted
  <2>3. CASE d = c
    <3>1. cpu'[d] = r /\ Pushed(Active(d))' = r.cliAmount
      BY <1>3, <1>5, <2>2, <2>3 DEF Pushed
    <3> QED
      BY <3>1
  <2>4. CASE d # c
    <3>1. Active(d) \in Context /\ Active(d) # x
      BY <1>1, <2>4, ActiveOnce DEF MaskInv
    <3>2. Pushed(Active(d))' = Pushed(Active(d))
      BY <1>3, <1>4, <3>1 DEF Pushed
    <3> QED
      BY <1>5, <2>4, <3>2 DEF MaskInv, Counted
  <2> QED
    BY <2>3, <2>4
<1>9. PushedRuns'
  <2>1. \A y \in Context : Pushed(y)' > 0 => \E d \in CPU : Active(d)' = y
    <3> SUFFICES ASSUME NEW y \in Context, Pushed(y)' > 0, y # x
                 PROVE  \E d \in CPU : Active(d)' = y
      BY <1>1, <1>3
    <3>1. Pushed(y) > 0
      BY <1>4 DEF Pushed
    <3> QED
      BY <1>3, <3>1 DEF MaskInv, PushedRuns
  <2>2. ASSUME NEW t \in Thread, frame'[t].pc = "cli", frame'[t].held = <<>>
        PROVE  frame'[t].rflags
    <3>1. t \in Context
      BY DEF Context
    <3>2. CASE t # x
      BY <1>4, <2>2, <3>1, <3>2 DEF MaskInv, PushedRuns
    <3>3. CASE t = x
      <4>1. r.trapDepth = 0
        BY <1>2, <3>3, ContextAssumption DEF OwnStep, Active, CpuRecord
      <4> QED
        BY <1>4, <2>2, <3>3, <4>1
    <3> QED
      BY <3>2, <3>3
  <2> QED
    BY <2>1, <2>2 DEF PushedRuns
<1> QED
  BY <1>6, <1>7, <1>8, <1>9 DEF MaskInv

\* What is known of the code x that CPU c runs
Own(c, x) ==
    /\ x \in Context
    /\ frame[x] \in Frame /\ cpu[c] \in CpuRecord
    /\ \A i, j \in 1 .. Len(frame[x].held) : frame[x].held[i] = frame[x].held[j] => i = j
    /\ frame[x].pc \in {"cli", "ticket", "spin"} =>
        /\ frame[x].lock \in LockId
        /\ \A i \in 1 .. Len(frame[x].held) : frame[x].held[i] # frame[x].lock
    /\ Len(frame[x].held) \in Nat /\ Cardinality(LockId) \in Nat
    /\ Len(frame[x].held) <= Cardinality(LockId)
    /\ cpu[c].cliAmount = Pushed(x)
    /\ cpu[c].enabled <=> cpu[c].trapDepth = 0 /\ cpu[c].cliAmount = 0
    /\ cpu[c].trapDepth = 0 /\ cpu[c].cliAmount > 0 => cpu[c].prevFlags
    /\ cpu[c].trapDepth = 0 /\ frame[x].pc = "cli" /\ frame[x].held = <<>> => frame[x].rflags

\* It follows from the invariant.
LEMMA OwnFrame ==
    ASSUME TypeOK, MaskInv, NEW c \in CPU
    PROVE  Own(c, Active(c))
<1> DEFINE x == Active(c)
<1>1. x \in Context
  BY ActiveOnce DEF MaskInv
<1>2. frame[x] \in Frame /\ cpu[c] \in CpuRecord
  BY <1>1 DEF TypeOK
<1>3. /\ \A i, j \in 1 .. Len(frame[x].held) : frame[x].held[i] = frame[x].held[j] => i = j
      /\ frame[x].pc \in {"cli", "ticket", "spin"} =>
            /\ frame[x].lock \in LockId
            /\ \A i \in 1 .. Len(frame[x].held) : frame[x].held[i] # frame[x].lock
  BY <1>1 DEF MaskInv, HeldOnce
<1>4. /\ Len(frame[x].held) \in Nat /\ Cardinality(LockId) \in Nat
      /\ Len(frame[x].held) <= Cardinality(LockId)
  <2>1. frame[x].held \in Seq(LockId)
    BY <1>2 DEF Frame
  <2> QED
    BY <1>3, <2>1, HeldBound
<1>5. /\ cpu[c].cliAmount = Pushed(x)
      /\ cpu[c].enabled <=> cpu[c].trapDepth = 0 /\ cpu[c].cliAmount = 0
      /\ cpu[c].trapDepth = 0 /\ cpu[c].cliAmount > 0 => cpu[c].prevFlags
  BY DEF MaskInv, Counted
<1>6. cpu[c].trapDepth = 0 /\ frame[x].pc = "cli" /\ frame[x].held = <<>> => frame[x].rflags
  <2>1. cpu[c].trapDepth = 0 => x \in Thread
    BY <1>2 DEF Active, CpuRecord
  <2> QED
    BY <2>1 DEF MaskInv, PushedRuns
<1> HIDE DEF x
<1> QED
  BY <1>1, <1>2, <1>3, <1>4, <1>5, <1>6 DEF Own, x

\* A step that leaves the tickets and writes one frame and one CPU record of
\* the right types keeps the types.
LEMMA OwnTypes ==
    ASSUME TypeOK, NEW c \in CPU, NEW f, NEW r, OwnStep(c, f, r),
           nextTicket' \in [LockId -> Ticket], nowServing' \in [LockId -> Ticket]
    PROVE  TypeOK'
BY DEF TypeOK, OwnStep

\* The steps of lock_acquire keep the masking.
LEMMA MaskReadFlags ==
    ASSUME TypeOK, MaskInv, NEW c \in CPU, NEW l \in LockId, ReadFlags(c, l)
    PROVE  TypeOK' /\ MaskInv'
<1> DEFINE x == Active(c)
           f == [frame[x] EXCEPT !.pc = "cli", !.lock = l, !.rflags = cpu[c].enabled]
           r == cpu[c]
<1>0. Own(c, x)
  BY OwnFrame
<1>1. f \in Frame /\ r \in CpuRecord
  BY <1>0 DEF Own, Frame, CpuRecord
<1>2. f.held = frame[x].held /\ f.pc = "cli" /\ f.lock = l /\ f.rflags = cpu[c].enabled
  BY <1>0 DEF Own, Frame
<1>3. OwnStep(c, f, r)
  BY <1>0, <1>1 DEF Own, OwnStep, ReadFlags, TypeOK
<1>4. \A i \in 1 .. Len(f.held) : f.held[i] # f.lock
  BY <1>2, NestedAssumption DEF ReadFlags, MayTake
<1>5. r.cliAmount = Len(f.held)
  BY <1>0, <1>2 DEF Own, ReadFlags, Pushed
<1>6. r.trapDepth = 0 /\ f.held = <<>> => f.rflags
  BY <1>0, <1>2, <1>5 DEF Own
<1>7. r.cliAmount = Len(f.held) + 0
  BY <1>0, <1>2, <1>5 DEF Own
<1>8. /\ \A i, j \in 1 .. Len(f.held) : f.held[i] = f.held[j] => i = j
      /\ r.enabled <=> r.trapDepth = 0 /\ r.cliAmount = 0
      /\ r.trapDepth = 0 /\ r.cliAmount > 0 => r.prevFlags
  BY <1>0, <1>2 DEF Own
<1> HIDE DEF f, r
<1>9. MaskInv'
  BY <1>2, <1>3, <1>4, <1>6, <1>7, <1>8, OwnMask
<1> QED
  BY <1>3, <1>9, OwnTypes DEF ReadFlags, TypeOK

LEMMA MaskCli ==
    ASSUME TypeOK, MaskInv, NEW c \in CPU, Cli(c)
    PROVE  TypeOK' /\ MaskInv'
<1> DEFINE x == Active(c)
           f == [frame[x] EXCEPT !.pc = "ticket", !.rflags = FALSE]
           r == [cpu[c] EXCEPT !.enabled = FALSE, !.cliAmount = cpu[c].cliAmount + 1,
                               !.prevFlags = IF cpu[c].cliAmount = 0 THEN frame[x].rflags
                                                                     ELSE cpu[c].prevFlags]
<1>0. Own(c, x) /\ frame[x].pc = "cli"
  BY OwnFrame DEF Cli
<1>1. /\ cpu[c].cliAmount = Len(frame[x].held)
      /\ cpu[c].cliAmount + 1 \in 0 .. Cardinality(LockId) + 1
  BY <1>0 DEF Own, Pushed
<1>2. f \in Frame /\ r \in CpuRecord
  BY <1>0, <1>1 DEF Own, Frame, CpuRecord
<1>3. /\ f.held = frame[x].held /\ f.pc = "ticket" /\ f.lock = frame[x].lock
      /\ r.cliAmount = Len(f.held) + 1 /\ r.enabled = FALSE
      /\ r.trapDepth = cpu[c].trapDepth /\ r.thread = cpu[c].thread
  BY <1>0, <1>1 DEF Own, Frame, CpuRecord
<1>4. OwnStep(c, f, r)
  BY <1>0, <1>2, <1>3 DEF Own, OwnStep, Cli, TypeOK
<1>5. r.trapDepth = 0 => r.prevFlags
  <2>1. CASE cpu[c].cliAmount = 0
    <3>0. frame[x].held \in Seq(LockId)
      BY <1>0 DEF Own, Frame
    <3>1. frame[x].held = <<>>
      BY <1>1, <2>1, <3>0, EmptySeq
    <3>2. r.prevFlags = frame[x].rflags
      BY <1>0, <2>1 DEF Own, CpuRecord
    <3> QED
      BY <1>0, <1>3, <3>1, <3>2 DEF Own
  <2>2. CASE cpu[c].cliAmount # 0
    <3>1. r.prevFlags = cpu[c].prevFlags
      BY <1>0, <2>2 DEF Own, CpuRecord
    <3>2. cpu[c].cliAmount > 0
      BY <1>0, <1>1, <2>2 DEF Own
    <3> QED
      BY <1>0, <1>3, <3>1, <3>2 DEF Own
  <2> QED
    BY <2>1, <2>2
<1>6. /\ \A i, j \in 1 .. Len(f.held) : f.held[i] = f.held[j] => i = j
      /\ f.lock \in LockId /\ \A i \in 1 .. Len(f.held) : f.held[i] # f.lock
      /\ r.enabled <=> r.trapDepth = 0 /\ r.cliAmount = 0
  BY <1>0, <1>3 DEF Own
<1> HIDE DEF f, r
<1>7. MaskInv'
  BY <1>3, <1>4, <1>5, <1>6, OwnMask
<1> QED
  BY <1>4, <1>7, OwnTypes DEF Cli, TypeOK

LEMMA MaskFetchTicket ==
    ASSUME TypeOK, MaskInv, NEW c \in CPU, FetchTicket(c)
    PROVE  TypeOK' /\ MaskInv'
<1> DEFINE x == Active(c)
           f == [frame[x] EXCEPT !.pc = "spin", !.ticket = nextTicket[frame[x].lock]]
           r == cpu[c]
<1>0. Own(c, x) /\ frame[x].pc = "ticket" /\ frame[x].lock \in LockId
  BY OwnFrame DEF FetchTicket, Own
<1>1. f \in Frame /\ r \in CpuRecord
  BY <1>0 DEF Own, Frame, TypeOK
<1>2. f.held = frame[x].held /\ f.pc = "spin" /\ f.lock = frame[x].lock
  BY <1>0 DEF Own, Frame
<1>3. OwnStep(c, f, r)
  BY <1>0, <1>1 DEF Own, OwnStep, FetchTicket, TypeOK
<1>4. r.cliAmount = Len(f.held) + 1
  BY <1>0, <1>2 DEF Own, Pushed
<1>5. /\ \A i, j \in 1 .. Len(f.held) : f.held[i] = f.held[j] => i = j
      /\ f.lock \in LockId /\ \A i \in 1 .. Len(f.held) : f.held[i] # f.lock
      /\ r.enabled <=> r.trapDepth = 0 /\ r.cliAmount = 0
      /\ r.trapDepth = 0 /\ r.cliAmount > 0 => r.prevFlags
  BY <1>0, <1>2 DEF Own
<1>6. nextTicket' \in [LockId -> Ticket]
  <2>1. Increment(nextTicket[frame[x].lock]) \in Ticket
    BY <1>0, IncrementValue, TicketAssumption DEF TypeOK, Ticket
  <2> QED
    BY <1>0, <2>1 DEF FetchTicket, TypeOK
<1> HIDE DEF f, r
<1>7. MaskInv'
  BY <1>2, <1>3, <1>4, <1>5, OwnMask
<1> QED
  BY <1>3, <1>6, <1>7, OwnTypes DEF FetchTicket, TypeOK

LEMMA MaskSpinEnd ==
    ASSUME TypeOK, MaskInv, NEW c \in CPU, SpinEnd(c)
    PROVE  TypeOK' /\ MaskInv'
<1> DEFINE x == Active(c)
           f == [frame[x] EXCEPT !.pc = "out", !.lock = None, !.ticket = 0,
                                 !.held = Append(frame[x].held, frame[x].lock)]
           r == cpu[c]
<1>0. Own(c, x) /\ frame[x].pc = "spin" /\ frame[x].lock \in LockId
  BY OwnFrame DEF SpinEnd, Own
<1>1. f \in Frame /\ r \in CpuRecord
  <2>1. 0 \in Ticket
    BY <1>0, TicketAssumption DEF Own, Frame, Ticket
  <2>2. Append(frame[x].held, frame[x].lock) \in Seq(LockId)
    BY <1>0 DEF Own, Frame
  <2> QED
    BY <1>0, <2>1, <2>2 DEF Own, Frame
<1>2. f.held = Append(frame[x].held, frame[x].lock) /\ f.pc = "out"
  BY <1>0 DEF Own, Frame
<1>3. OwnStep(c, f, r)
  BY <1>0, <1>1 DEF Own, OwnStep, SpinEnd, TypeOK
<1>4. frame[x].held \in Seq(LockId)
  BY <1>0 DEF Own, Frame
<1>5. /\ \A i, j \in 1 .. Len(f.held) : f.held[i] = f.held[j] => i = j
      /\ Len(f.held) = Len(frame[x].held) + 1
  BY <1>0, <1>2, <1>4, SMTT(30) DEF Own
<1>6. /\ r.cliAmount = Len(f.held) + 0
      /\ r.enabled <=> r.trapDepth = 0 /\ r.cliAmount = 0
      /\ r.trapDepth = 0 /\ r.cliAmount > 0 => r.prevFlags
  BY <1>0, <1>5 DEF Own, Pushed
<1> HIDE DEF f, r
<1>7. MaskInv'
  BY <1>2, <1>3, <1>5, <1>6, OwnMask
<1> QED
  BY <1>3, <1>7, OwnTypes DEF SpinEnd, TypeOK

\* The steps of lock_release keep the masking.
LEMMA MaskRelease ==
    ASSUME TypeOK, MaskInv, NEW c \in CPU, Release(c)
    PROVE  TypeOK' /\ MaskInv'
<1> DEFINE x == Active(c)
           f == [frame[x] EXCEPT !.pc = "pop", !.held = Front(frame[x].held)]
           r == cpu[c]
<1>0. Own(c, x) /\ frame[x].pc = "out" /\ frame[x].held # <<>>
  BY OwnFrame DEF Release
<1>1. frame[x].held \in Seq(LockId)
  BY <1>0 DEF Own, Frame
<1>2. /\ Front(frame[x].held) \in Seq(LockId)
      /\ Len(Front(frame[x].held)) = Len(frame[x].held) - 1
      /\ \A i \in 1 .. Len(frame[x].held) - 1 : Front(frame[x].held)[i] = frame[x].held[i]
      /\ Last(frame[x].held) \in LockId
  BY <1>0, <1>1 DEF Front, Last
<1>3. f \in Frame /\ r \in CpuRecord
  BY <1>0, <1>2 DEF Own, Frame
<1>4. f.held = Front(frame[x].held) /\ f.pc = "pop"
  BY <1>0 DEF Own, Frame
<1>5. OwnStep(c, f, r)
  BY <1>0, <1>3 DEF Own, OwnStep, Release, TypeOK
<1>6. \A i, j \in 1 .. Len(f.held) : f.held[i] = f.held[j] => i = j
  BY <1>0, <1>2, <1>4 DEF Own
<1>7. /\ r.cliAmount = Len(f.held) + 1
      /\ r.enabled <=> r.trapDepth = 0 /\ r.cliAmount = 0
      /\ r.trapDepth = 0 /\ r.cliAmount > 0 => r.prevFlags
  BY <1>0, <1>2, <1>4 DEF Own, Pushed
<1>8. nowServing' \in [LockId -> Ticket]
  <2>1. Increment(nowServing[Last(frame[x].held)]) \in Ticket
    <3>1. nowServing[Last(frame[x].held)] \in Ticket
      BY <1>2 DEF TypeOK
    <3> QED
      BY <3>1, IncrementValue, TicketAssumption DEF Ticket
  <2> QED
    BY <1>2, <2>1 DEF Release, TypeOK
<1> HIDE DEF f, r
<1>9. MaskInv'
  BY <1>4, <1>5, <1>6, <1>7, OwnMask
<1> QED
  BY <1>5, <1>8, <1>9, OwnTypes DEF Release, TypeOK

LEMMA MaskCliPop ==
    ASSUME TypeOK, MaskInv, NEW c \in CPU, CliPop(c)
    PROVE  TypeOK' /\ MaskInv'
<1> DEFINE x == Active(c)
           f == [frame[x] EXCEPT !.pc = "out"]
           on == cpu[c].enabled \/ (cpu[c].cliAmount = 1 /\ cpu[c].prevFlags /\ cpu[c].trapDepth = 0)
           r == [cpu[c] EXCEPT !.cliAmount = cpu[c].cliAmount - 1, !.enabled = on]
<1>0. Own(c, x) /\ frame[x].pc = "pop"
  BY OwnFrame DEF CliPop
<1>1. /\ cpu[c].cliAmount = Len(frame[x].held) + 1
      /\ cpu[c].cliAmount - 1 \in 0 .. Cardinality(LockId) + 1
  BY <1>0 DEF Own, Pushed
<1>2. on <=> cpu[c].trapDepth = 0 /\ cpu[c].cliAmount - 1 = 0
  BY <1>0, <1>1 DEF Own
<1>3. on \in BOOLEAN
  BY <1>0 DEF Own, CpuRecord
<1> HIDE DEF on
<1>4. f \in Frame /\ r \in CpuRecord
  BY <1>0, <1>1, <1>3 DEF Own, Frame, CpuRecord
<1>5. /\ f.held = frame[x].held /\ f.pc = "out"
      /\ r.cliAmount = Len(f.held) + 0 /\ r.enabled = on /\ r.prevFlags = cpu[c].prevFlags
      /\ r.trapDepth = cpu[c].trapDepth /\ r.thread = cpu[c].thread
      /\ cpu[c].cliAmount = r.cliAmount + 1
  BY <1>0, <1>1 DEF Own, Frame, CpuRecord
<1>6. OwnStep(c, f, r)
  BY <1>0, <1>4, <1>5 DEF Own, OwnStep, CliPop, TypeOK, on
<1>7. /\ \A i, j \in 1 .. Len(f.held) : f.held[i] = f.held[j] => i = j
      /\ r.enabled <=> r.trapDepth = 0 /\ r.cliAmount = 0
  BY <1>0, <1>1, <1>2, <1>5 DEF Own
<1>8. r.trapDepth = 0 /\ r.cliAmount > 0 => r.prevFlags
  <2>1. cpu[c].cliAmount > 0
    BY <1>0, <1>1 DEF Own
  <2> QED
    BY <1>0, <1>5, <2>1 DEF Own
<1> HIDE DEF f, r
<1>9. MaskInv'
  BY <1>5, <1>6, <1>7, <1>8, OwnMask
<1> QED
  BY <1>6, <1>9, OwnTypes DEF CliPop, TypeOK

\* A CPU that turns to other code, between two critical sections of each
LEMMA SwitchMask ==
    ASSUME TypeOK, MaskInv, NEW c \in CPU, NEW r \in CpuRecord,
           cpu' = [cpu EXCEPT ![c] = r], UNCHANGED <<nextTicket, nowServing, frame>>,
           cpu[c].cliAmount = 0, Pushed(Active(c)') = 0,
           \A d \in CPU : d # c => cpu[d].thread # r.thread,
           r.cliAmount = 0, r.enabled <=> r.trapDepth = 0
    PROVE  TypeOK' /\ MaskInv'
<1>1. TypeOK'
  BY DEF TypeOK
<1>2. cpu'[c] = r /\ \A d \in CPU : d # c => cpu'[d] = cpu[d] /\ Active(d)' = Active(d)
  BY DEF TypeOK, Active
<1>3. \A x : Pushed(x)' = Pushed(x)
  BY DEF Pushed
<1>4. HeldOnce'
  BY DEF MaskInv, HeldOnce
<1>5. OneCpu'
  BY <1>2 DEF MaskInv, OneCpu
<1>6. Counted'
  <2> SUFFICES ASSUME NEW d \in CPU
               PROVE  /\ cpu'[d].cliAmount = Pushed(Active(d)')
                      /\ cpu'[d].enabled <=> cpu'[d].trapDepth = 0 /\ cpu'[d].cliAmount = 0
                      /\ cpu'[d].trapDepth = 0 /\ cpu'[d].cliAmount > 0 => cpu'[d].prevFlags
    BY DEF Counted, Pushed
  <2>1. CASE d = c
    BY <1>2, <2>1
  <2>2. CASE d # c
    BY <1>2, <2>2 DEF MaskInv, Counted
  <2> QED
    BY <2>1, <2>2
<1>7. PushedRuns'
  <2>1. ASSUME NEW x \in Context, Pushed(x) > 0 PROVE \E d \in CPU : Active(d)' = x
    <3>1. PICK d \in CPU : Active(d) = x
      BY <2>1 DEF MaskInv, PushedRuns
    <3>2. Pushed(Active(c)) = 0
      BY DEF MaskInv, Counted
    <3> QED
      BY <1>2, <2>1, <3>1, <3>2
  <2> QED
    BY <1>3, <2>1 DEF MaskInv, PushedRuns
<1> QED
  BY <1>1, <1>4, <1>5, <1>6, <1>7 DEF MaskInv

\* An interrupt hits a CPU outside critical sections only.
LEMMA MaskTrapEnter ==
    ASSUME TypeOK, MaskInv, NEW c \in CPU, TrapEnter(c)
    PROVE  TypeOK' /\ MaskInv'
<1> DEFINE r == [cpu[c] EXCEPT !.enabled = FALSE, !.trapDepth = cpu[c].trapDepth + 1]
<1>1. cpu[c] \in CpuRecord
  BY DEF TypeOK
<1>2. cpu[c].trapDepth = 0 /\ cpu[c].cliAmount = 0
  BY DEF TrapEnter, MaskInv, Counted
<1>3. /\ r \in CpuRecord /\ cpu' = [cpu EXCEPT ![c] = r]
      /\ r.cliAmount = 0 /\ r.thread = cpu[c].thread /\ r.trapDepth = 1 /\ r.enabled = FALSE
  BY <1>1, <1>2 DEF CpuRecord, TrapEnter, TypeOK
<1>4. Active(c)' = c
  BY <1>3 DEF Active, TypeOK
<1>5. Pushed(c) = 0
  <2>1. c \in Context /\ Pushed(c) \in Nat
    BY PushedType DEF Context
  <2>2. ~ Pushed(c) > 0
    <3>1. \A d \in CPU : Active(d) # c
      BY <1>2, ContextAssumption DEF Active, TypeOK, CpuRecord
    <3> QED
      BY <2>1, <3>1 DEF MaskInv, PushedRuns
  <2> QED
    BY <2>1, <2>2
<1>6. \A d \in CPU : d # c => cpu[d].thread # r.thread
  BY <1>3 DEF MaskInv, OneCpu
<1> HIDE DEF r
<1>7. UNCHANGED <<nextTicket, nowServing, frame>>
  BY DEF TrapEnter
<1>8. (r.enabled <=> r.trapDepth = 0) /\ Pushed(Active(c)') = 0
  BY <1>3, <1>4, <1>5
<1> QED
  BY <1>2, <1>3, <1>6, <1>7, <1>8, SwitchMask

\* A trap returns to a thread that is outside critical sections.
LEMMA MaskTrapReturn ==
    ASSUME TypeOK, MaskInv, NEW c \in CPU, NEW t \in Thread, TrapReturn(c, t)
    PROVE  TypeOK' /\ MaskInv'
<1> DEFINE r == [cpu[c] EXCEPT !.enabled = TRUE, !.trapDepth = cpu[c].trapDepth - 1, !.thread = t]
<1>1. cpu[c] \in CpuRecord
  BY DEF TypeOK
<1>2. cpu[c].trapDepth = 1 /\ Active(c) = c
  BY DEF TrapReturn, Active
<1>3. cpu[c].cliAmount = 0
  <2>1. Pushed(c) = 0
    BY DEF TrapReturn, Pushed
  <2> QED
    BY <1>2, <2>1 DEF MaskInv, Counted
<1>4. /\ r \in CpuRecord /\ cpu' = [cpu EXCEPT ![c] = r]
      /\ r.cliAmount = 0 /\ r.thread = t /\ r.trapDepth = 0 /\ r.enabled = TRUE
  BY <1>1, <1>2, <1>3 DEF CpuRecord, TrapReturn, TypeOK
<1>5. Active(c)' = t
  BY <1>4 DEF Active, TypeOK
<1>6. \A d \in CPU : d # c => cpu[d].thread # t
  BY DEF TrapReturn, MaskInv, OneCpu
<1>7. Pushed(t) = 0
  <2>1. t \in Context /\ Pushed(t) \in Nat
    BY PushedType DEF Context
  <2>2. ~ Pushed(t) > 0
    <3>1. \A d \in CPU : Active(d) # t
      BY <1>2, <1>6, ContextAssumption DEF Active
    <3> QED
      BY <2>1, <3>1 DEF MaskInv, PushedRuns
  <2> QED
    BY <2>1, <2>2
<1> HIDE DEF r
<1>8. UNCHANGED <<nextTicket, nowServing, frame>>
  BY DEF TrapReturn
<1>9. (r.enabled <=> r.trapDepth = 0) /\ Pushed(Active(c)') = 0
  <2>1. r.enabled <=> r.trapDepth = 0
    BY <1>4
  <2>2. Pushed(Active(c)') = 0
    BY <1>5, <1>7
  <2> QED
    BY <2>1, <2>2
<1>10. \A d \in CPU : d # c => cpu[d].thread # r.thread
  BY <1>4, <1>6
<1>11. r \in CpuRecord /\ cpu' = [cpu EXCEPT ![c] = r] /\ r.cliAmount = 0
  BY <1>4
<1> QED
  BY <1>3, <1>8, <1>9, <1>10, <1>11, SwitchMask

-----------------------------------------------------------------------------
(* Tickets *)

\* Not more code than there are CPUs has pushed, and there is a ticket for each.
LEMMA PushedBound ==
    ASSUME TypeOK, MaskInv, NEW U, \A x \in U : x \in Context /\ Pushed(x) > 0
    PROVE  IsFiniteSet(U) /\ Cardinality(U) \in Nat /\ Cardinality(U) <= TicketSize
<1> DEFINE f == [c \in CPU |-> Active(c)]
           S == {f[c] : c \in CPU}
<1>1. f \in Surjection(CPU, S)
  BY DEF Surjection
<1>2. IsFiniteSet(S) /\ Cardinality(S) <= Cardinality(CPU)
  BY <1>1, FiniteAssumption, FS_Surjection
<1>3. U \subseteq S
  BY DEF MaskInv, PushedRuns
<1>4. IsFiniteSet(U) /\ Cardinality(U) <= Cardinality(S)
  BY <1>2, <1>3, FS_Subset
<1>5. Cardinality(U) \in Nat /\ Cardinality(S) \in Nat /\ Cardinality(CPU) \in Nat
  BY <1>2, <1>4, FiniteAssumption, FS_CardinalityType
<1> HIDE DEF S
<1> QED
  BY <1>2, <1>4, <1>5, TicketAssumption

\* The users of a lock have pushed.
LEMMA UsersPushed ==
    ASSUME TypeOK, NEW l \in LockId, NEW x \in Users(l)
    PROVE  x \in Context /\ Pushed(x) > 0
<1>1. x \in Context /\ frame[x].held \in Seq(LockId)
  BY DEF Users, TypeOK, Frame
<1>2. Len(frame[x].held) \in Nat
  BY <1>1
<1>3. frame[x].pc = "spin" \/ Len(frame[x].held) > 0
  BY <1>2 DEF Users, Holds
<1>4. /\ frame[x].pc = "spin" => Pushed(x) = Len(frame[x].held) + 1
      /\ Pushed(x) = Len(frame[x].held) + 1 \/ Pushed(x) = Len(frame[x].held) + 0
  BY DEF Pushed
<1> QED
  BY <1>1, <1>2, <1>3, <1>4

\* What a step does to no user and to no counter of a lock keeps its queue.
LEMMA QueueKept ==
    ASSUME NEW l \in LockId, QueueInv(l), Users(l)' = Users(l),
           \A x \in Users(l) : Place(x, l)' = Place(x, l),
           nextTicket'[l] = nextTicket[l], nowServing'[l] = nowServing[l]
    PROVE  QueueInv(l)'
BY DEF QueueInv, Ahead

\* A step outside the "spin" loop and outside of the lists of held locks
LEMMA TicketsKept ==
    ASSUME TicketInv, UNCHANGED <<nextTicket, nowServing>>,
           \A x \in Context :
                /\ frame'[x].held = frame[x].held
                /\ frame'[x].pc = "spin" <=> frame[x].pc = "spin"
                /\ frame[x].pc = "spin" =>
                    frame'[x].lock = frame[x].lock /\ frame'[x].ticket = frame[x].ticket
    PROVE  TicketInv'
<1> SUFFICES ASSUME NEW l \in LockId PROVE QueueInv(l)'
  BY DEF TicketInv
<1>1. \A x \in Context : Holds(x, l)' <=> Holds(x, l)
  BY DEF Holds
<1>2. Users(l)' = Users(l)
  BY <1>1 DEF Users
<1>3. \A x \in Users(l) : Place(x, l)' = Place(x, l)
  BY <1>1 DEF Users, Place, Ahead
<1> QED
  BY <1>2, <1>3, QueueKept DEF TicketInv

\* The one who fetches a ticket becomes the last user of the lock.
LEMMA TicketFetch ==
    ASSUME TypeOK, MaskInv, TicketInv, NEW c \in CPU, FetchTicket(c)
    PROVE  TicketInv'
<1> SUFFICES ASSUME NEW x, NEW k, x = Active(c), k = frame[x].lock PROVE TicketInv'
  OBVIOUS
<1>0. Own(c, x) /\ frame[x].pc = "ticket" /\ k \in LockId
  BY OwnFrame DEF FetchTicket, Own
<1>1. x \in Context /\ frame[x] \in Frame /\ frame \in [Context -> Frame]
  BY <1>0 DEF Own, TypeOK
<1>2. /\ frame'[x].held = frame[x].held /\ frame'[x].pc = "spin" /\ frame'[x].lock = k
      /\ frame'[x].ticket = nextTicket[k]
      /\ \A y \in Context : y # x => frame'[y] = frame[y]
  BY <1>1 DEF FetchTicket, Frame
<1>3. /\ nowServing' = nowServing /\ nextTicket'[k] = Increment(nextTicket[k])
      /\ \A l \in LockId : l # k => nextTicket'[l] = nextTicket[l]
  BY <1>0 DEF FetchTicket, TypeOK
<1>4. \A y \in Context, l \in LockId : Holds(y, l)' <=> Holds(y, l)
  BY <1>2 DEF Holds
<1>5. ~ Holds(x, k)
  BY <1>0 DEF Holds, Own
<1> SUFFICES ASSUME NEW l \in LockId PROVE QueueInv(l)'
  BY DEF TicketInv
<1>6. CASE l # k
  <2>1. Users(l)' = Users(l)
    BY <1>0, <1>2, <1>4, <1>6 DEF Users
  <2>2. \A y \in Users(l) : Place(y, l)' = Place(y, l)
    BY <1>0, <1>2, <1>3, <1>4, <1>6 DEF Users, Place, Ahead
  <2> QED
    BY <1>3, <1>6, <2>1, <2>2, QueueKept DEF TicketInv
<1>7. CASE l = k
  <2> DEFINE n == Cardinality(Users(k))
  <2>1. Users(k)' = Users(k) \cup {x} /\ x \notin Users(k)
    BY <1>0, <1>1, <1>2, <1>4, <1>5 DEF Users
  <2>2. Pushed(x) > 0
    <3>1. Pushed(x) = Len(frame[x].held) + 1
      BY <1>0 DEF Pushed
    <3> QED
      BY <1>0, <3>1 DEF Own
  <2>3. /\ IsFiniteSet(Users(k)) /\ n \in Nat
        /\ Cardinality(Users(k) \cup {x}) \in Nat /\ Cardinality(Users(k) \cup {x}) <= TicketSize
    BY <1>0, <1>1, <2>2, UsersPushed, PushedBound
  <2>4. Cardinality(Users(k)') = n + 1 /\ n + 1 <= TicketSize
    <3>1. Cardinality(Users(k) \cup {x}) = n + 1
      BY <2>1, <2>3, FS_AddElement
    <3> QED
      BY <2>1, <2>3, <3>1
  <2>5. /\ \A y \in Users(k) : Place(y, k) < n
        /\ \A y, z \in Users(k) : Place(y, k) = Place(z, k) => y = z
        /\ Ahead(nextTicket[k], nowServing[k]) = n
    BY <1>0, <2>3, <2>4, TicketAssumption DEF TicketInv, QueueInv
  <2>6. nextTicket[k] \in Ticket /\ nowServing[k] \in Ticket
    BY <1>0 DEF TypeOK
  <2>7. Ahead(nextTicket'[k], nowServing[k]) = IF n + 1 = TicketSize THEN 0 ELSE n + 1
    BY <1>3, <2>3, <2>4, <2>5, <2>6, IncrementValue, TicketAssumption DEF Ahead, Ticket
  <2>8. Place(x, k)' = n
    BY <1>1, <1>2, <1>3, <1>4, <1>5, <2>5, <1>0 DEF Place, Ahead
  <2>9. \A y \in Users(k) : Place(y, k)' = Place(y, k) /\ Place(y, k) \in Int
    <3> SUFFICES ASSUME NEW y \in Users(k)
                 PROVE  Place(y, k)' = Place(y, k) /\ Place(y, k) \in Int
      OBVIOUS
    <3>1. y \in Context /\ y # x
      BY <2>1 DEF Users
    <3>2. frame[y].ticket \in Ticket
      BY <3>1 DEF TypeOK, Frame
    <3> QED
      BY <1>0, <1>2, <1>3, <1>4, <2>6, <3>1, <3>2, TicketAssumption DEF Place, Ahead, Ticket
  <2> HIDE DEF n
  <2>10. \A y \in Users(k)' : Place(y, k)' < n + 1
    BY <2>1, <2>3, <2>5, <2>8, <2>9 DEF n
  <2>11. \A y, z \in Users(k)' : Place(y, k)' = Place(z, k)' => y = z
    BY <2>1, <2>3, <2>5, <2>8, <2>9 DEF n
  <2> QED
    BY <1>3, <1>7, <2>4, <2>7, <2>10, <2>11 DEF QueueInv, Ahead
<1> QED
  BY <1>6, <1>7

\* The one who stops spinning stays the first user of the lock.
LEMMA TicketSpinEnd ==
    ASSUME TypeOK, MaskInv, TicketInv, NEW c \in CPU, SpinEnd(c)
    PROVE  TicketInv'
<1> SUFFICES ASSUME NEW x, NEW k, x = Active(c), k = frame[x].lock PROVE TicketInv'
  OBVIOUS
<1>0. Own(c, x) /\ frame[x].pc = "spin" /\ k \in LockId
  BY OwnFrame DEF SpinEnd, Own
<1>1. x \in Context /\ frame[x] \in Frame /\ frame \in [Context -> Frame]
  BY <1>0 DEF Own, TypeOK
<1>2. /\ frame'[x].held = Append(frame[x].held, k) /\ frame'[x].pc = "out"
      /\ \A y \in Context : y # x => frame'[y] = frame[y]
      /\ UNCHANGED <<nextTicket, nowServing>> /\ nowServing[k] = frame[x].ticket
  BY <1>1 DEF SpinEnd, IsServed, Frame
<1>3. frame[x].held \in Seq(LockId)
  BY <1>1 DEF Frame
<1>4. \A l \in LockId : Holds(x, l)' <=> Holds(x, l) \/ l = k
  <2>1. /\ Len(frame'[x].held) = Len(frame[x].held) + 1 /\ Len(frame[x].held) \in Nat
        /\ \A i \in 1 .. Len(frame[x].held) : frame'[x].held[i] = frame[x].held[i]
        /\ frame'[x].held[Len(frame[x].held) + 1] = k
    BY <1>0, <1>2, <1>3
  <2> SUFFICES ASSUME NEW l \in LockId PROVE Holds(x, l)' <=> Holds(x, l) \/ l = k
    OBVIOUS
  <2>2. ASSUME NEW i \in 1 .. Len(frame[x].held), frame[x].held[i] = l PROVE Holds(x, l)'
    <3>1. i \in 1 .. Len(frame'[x].held) /\ frame'[x].held[i] = l
      BY <2>1, <2>2
    <3> QED
      BY <3>1 DEF Holds
  <2>3. Holds(x, k)'
    BY <2>1 DEF Holds
  <2>4. ASSUME NEW i \in 1 .. Len(frame[x].held) + 1, frame'[x].held[i] = l
        PROVE  Holds(x, l) \/ l = k
    <3>1. CASE i = Len(frame[x].held) + 1
      BY <2>1, <2>4, <3>1
    <3>2. CASE i \in 1 .. Len(frame[x].held)
      BY <2>1, <2>4, <3>2 DEF Holds
    <3> QED
      BY <2>1, <3>1, <3>2
  <2>5. Holds(x, l)' => Holds(x, l) \/ l = k
    BY <2>1, <2>4 DEF Holds
  <2>6. Holds(x, l) => Holds(x, l)'
    BY <2>2 DEF Holds
  <2> QED
    BY <2>3, <2>5, <2>6
<1>5. \A y \in Context, l \in LockId : y # x => (Holds(y, l)' <=> Holds(y, l))
  BY <1>2 DEF Holds
<1> SUFFICES ASSUME NEW l \in LockId PROVE QueueInv(l)'
  BY DEF TicketInv
<1>6. Users(l)' = Users(l)
  <2> SUFFICES ASSUME NEW y \in Context PROVE y \in Users(l)' <=> y \in Users(l)
    BY DEF Users
  <2>1. CASE y = x
    BY <1>0, <1>2, <1>4, <2>1 DEF Users
  <2>2. CASE y # x
    BY <1>2, <1>5, <2>2 DEF Users
  <2> QED
    BY <2>1, <2>2
<1>7. ASSUME NEW y \in Users(l) PROVE Place(y, l)' = Place(y, l)
  <2>1. y \in Context
    BY DEF Users
  <2>2. CASE y # x
    BY <1>2, <1>5, <2>1, <2>2 DEF Place, Ahead
  <2>3. CASE y = x /\ l # k
    BY <1>0, <1>4, <1>7, <2>3 DEF Place, Users
  <2>4. CASE y = x /\ l = k
    <3>1. nowServing[k] \in Ticket /\ Ahead(nowServing[k], nowServing[k]) = 0
      BY <1>0, TicketAssumption DEF TypeOK, Ahead, Ticket
    <3> QED
      BY <1>2, <1>4, <2>4, <3>1 DEF Place
  <2> QED
    BY <2>2, <2>3, <2>4
<1> QED
  BY <1>2, <1>6, <1>7, QueueKept DEF TicketInv

\* A release takes the first user out and moves every other one up.
LEMMA TicketRelease ==
    ASSUME TypeOK, MaskInv, TicketInv, NEW c \in CPU, Release(c)
    PROVE  TicketInv'
<1> SUFFICES ASSUME NEW x, NEW k, x = Active(c), k = Last(frame[x].held) PROVE TicketInv'
  OBVIOUS
<1>0. Own(c, x) /\ frame[x].pc = "out" /\ frame[x].held # <<>>
  BY OwnFrame DEF Release
<1>1. x \in Context /\ frame[x] \in Frame /\ frame \in [Context -> Frame]
  BY <1>0 DEF Own, TypeOK
<1>2. frame[x].held \in Seq(LockId)
  BY <1>1 DEF Frame
<1>3. /\ Len(frame[x].held) \in Nat /\ Len(frame[x].held) >= 1
      /\ k = frame[x].held[Len(frame[x].held)] /\ k \in LockId
  BY <1>0, <1>2 DEF Last
<1>4. /\ frame'[x].held = Front(frame[x].held) /\ frame'[x].pc = "pop"
      /\ \A y \in Context : y # x => frame'[y] = frame[y]
      /\ nextTicket' = nextTicket /\ nowServing'[k] = Increment(nowServing[k])
      /\ \A l \in LockId : l # k => nowServing'[l] = nowServing[l]
  BY <1>1, <1>3 DEF Release, Frame, TypeOK
<1>5. /\ Len(frame'[x].held) = Len(frame[x].held) - 1
      /\ \A i \in 1 .. Len(frame[x].held) - 1 : frame'[x].held[i] = frame[x].held[i]
  BY <1>0, <1>2, <1>4 DEF Front
<1>6. Holds(x, k) /\ ~ Holds(x, k)'
  <2>1. Holds(x, k)
    BY <1>3 DEF Holds
  <2>2. \A i \in 1 .. Len(frame[x].held) - 1 : frame[x].held[i] # k
    BY <1>0, <1>3 DEF Own
  <2> QED
    BY <1>3, <1>5, <2>1, <2>2 DEF Holds
<1>7. \A l \in LockId : l # k => (Holds(x, l)' <=> Holds(x, l))
  <2> SUFFICES ASSUME NEW l \in LockId, l # k PROVE Holds(x, l)' <=> Holds(x, l)
    OBVIOUS
  <2>1. ASSUME NEW i \in 1 .. Len(frame'[x].held), frame'[x].held[i] = l PROVE Holds(x, l)
    <3>1. i \in 1 .. Len(frame[x].held) /\ frame[x].held[i] = l
      BY <1>3, <1>5, <2>1
    <3> QED
      BY <3>1 DEF Holds
  <2>2. ASSUME NEW i \in 1 .. Len(frame[x].held), frame[x].held[i] = l PROVE Holds(x, l)'
    <3>1. i \in 1 .. Len(frame[x].held) - 1
      BY <1>3, <2>2
    <3>2. i \in 1 .. Len(frame'[x].held) /\ frame'[x].held[i] = l
      BY <1>5, <2>2, <3>1
    <3> QED
      BY <3>2 DEF Holds
  <2> QED
    BY <2>1, <2>2 DEF Holds
<1>8. \A y \in Context, l \in LockId : y # x => (Holds(y, l)' <=> Holds(y, l))
  BY <1>4 DEF Holds
<1> SUFFICES ASSUME NEW l \in LockId PROVE QueueInv(l)'
  BY DEF TicketInv
<1>9. CASE l # k
  <2>1. Users(l)' = Users(l)
    <3> SUFFICES ASSUME NEW y \in Context PROVE y \in Users(l)' <=> y \in Users(l)
      BY DEF Users
    <3>1. CASE y = x
      BY <1>0, <1>4, <1>7, <1>9, <3>1 DEF Users
    <3>2. CASE y # x
      BY <1>4, <1>8, <3>2 DEF Users
    <3> QED
      BY <3>1, <3>2
  <2>2. ASSUME NEW y \in Users(l) PROVE Place(y, l)' = Place(y, l)
    <3>1. y \in Context /\ nowServing'[l] = nowServing[l]
      BY <1>4, <1>9 DEF Users
    <3>2. CASE y = x
      <4>1. Holds(x, l)
        BY <1>0, <2>2, <3>2 DEF Users
      <4> QED
        BY <1>7, <1>9, <3>2, <4>1 DEF Place
    <3>3. CASE y # x
      BY <1>4, <1>8, <3>1, <3>3 DEF Place, Ahead
    <3> QED
      BY <3>2, <3>3
  <2> QED
    BY <1>4, <1>9, <2>1, <2>2, QueueKept DEF TicketInv
<1>10. CASE l = k
  <2> SUFFICES ASSUME NEW n, n = Cardinality(Users(k)) PROVE QueueInv(k)'
    BY <1>10
  <2>1. Users(k)' = Users(k) \ {x} /\ x \in Users(k)
    <3>1. x \in Users(k)
      BY <1>1, <1>6 DEF Users
    <3>2. ASSUME NEW y \in Context PROVE y \in Users(k)' <=> y \in Users(k) /\ y # x
      <4>1. CASE y = x
        BY <1>4, <1>6, <4>1 DEF Users
      <4>2. CASE y # x
        BY <1>3, <1>4, <1>8, <4>2 DEF Users
      <4> QED
        BY <4>1, <4>2
    <3>3. Users(k) \subseteq Context /\ Users(k)' \subseteq Context
      BY DEF Users
    <3> QED
      BY <3>1, <3>2, <3>3
  <2>2. IsFiniteSet(Users(k)) /\ n \in Nat /\ n <= TicketSize
    BY <1>3, UsersPushed, PushedBound
  <2>3. Cardinality(Users(k)') = n - 1 /\ n - 1 \in Nat
    <3>1. Cardinality(Users(k) \ {x}) = n - 1
      BY <2>1, <2>2, FS_RemoveElement
    <3>2. n # 0
      BY <2>1, <2>2, FS_EmptySet
    <3> QED
      BY <2>1, <2>2, <3>1, <3>2
  <2>4. /\ \A y \in Users(k) : Place(y, k) < n
        /\ \A y, z \in Users(k) : Place(y, k) = Place(z, k) => y = z
        /\ Ahead(nextTicket[k], nowServing[k]) = IF n = TicketSize THEN 0 ELSE n
    BY <1>3 DEF TicketInv, QueueInv
  <2>5. nextTicket[k] \in Ticket /\ nowServing[k] \in Ticket
    BY <1>3 DEF TypeOK
  <2>6. Ahead(nextTicket'[k], nowServing'[k]) = IF n - 1 = TicketSize THEN 0 ELSE n - 1
    BY <1>4, <2>2, <2>3, <2>4, <2>5, IncrementValue, TicketAssumption DEF Ahead, Ticket
  <2>7. Place(x, k) = 0
    BY <1>6 DEF Place
  <2>8. ASSUME NEW y \in Users(k)' PROVE Place(y, k)' = Place(y, k) - 1 /\ Place(y, k) \in Int
    <3>1. y \in Context /\ y # x /\ y \in Users(k)
      BY <2>1, <2>8 DEF Users
    <3>2. ~ Holds(y, k) /\ Place(y, k) # 0
      BY <2>1, <2>4, <2>7, <3>1 DEF Place
    <3>3. frame[y].ticket \in Ticket /\ frame'[y] = frame[y]
      BY <1>4, <3>1 DEF TypeOK, Frame
    <3>4. /\ Place(y, k) = Ahead(frame[y].ticket, nowServing[k])
          /\ Place(y, k)' = Ahead(frame[y].ticket, nowServing'[k])
      BY <1>3, <1>8, <3>1, <3>2, <3>3 DEF Place, Ahead
    <3> QED
      BY <1>4, <2>5, <3>2, <3>3, <3>4, IncrementValue, TicketAssumption DEF Ahead, Ticket
  <2>9. \A y \in Users(k)' : Place(y, k)' < n - 1
    BY <2>1, <2>2, <2>4, <2>8
  <2>10. \A y, z \in Users(k)' : Place(y, k)' = Place(z, k)' => y = z
    BY <2>1, <2>4, <2>8
  <2>11. n - 1 <= TicketSize
    BY <2>2, TicketAssumption
  <2> QED
    BY <2>3, <2>6, <2>9, <2>10, <2>11 DEF QueueInv, Ahead
<1> QED
  BY <1>9, <1>10

-----------------------------------------------------------------------------
(* The lock *)

\* The invariant holds when no code has called lock_acquire yet.
LEMMA IndInit == Init => IndInv
<1> SUFFICES ASSUME Init PROVE IndInv
  OBVIOUS
<1>1. PICK run \in [CPU -> Thread] :
        /\ \A c, d \in CPU : run[c] = run[d] => c = d
        /\ cpu = [c \in CPU |-> [enabled |-> TRUE, cliAmount |-> 0, prevFlags |-> FALSE,
                                 trapDepth |-> 0, thread |-> run[c]]]
  BY DEF Init
<1>2. \A x \in Context : frame[x] = [pc |-> "out", lock |-> None, rflags |-> FALSE,
                                     ticket |-> 0, held |-> <<>>]
  BY DEF Init
<1>3. Cardinality(CPU) \in Nat \ {0} /\ Cardinality(LockId) \in Nat
  BY FiniteAssumption, TicketAssumption, FS_CardinalityType, FS_EmptySet
<1>4. 0 \in Ticket
  BY <1>3, TicketAssumption DEF Ticket
<1>5. TypeOK
  <2>1. cpu \in [CPU -> CpuRecord]
    <3>1. 0 \in 0 .. Cardinality(LockId) + 1
      BY <1>3
    <3> QED
      BY <1>1, <3>1 DEF CpuRecord
  <2>2. frame \in [Context -> Frame]
    <3>1. [pc |-> "out", lock |-> None, rflags |-> FALSE, ticket |-> 0, held |-> <<>>] \in Frame
      BY <1>4 DEF Frame
    <3> QED
      BY <3>1 DEF Init
  <2> QED
    BY <1>4, <2>1, <2>2 DEF Init, TypeOK
<1>6. \A x \in Context : Len(frame[x].held) = 0 /\ Pushed(x) = 0
  <2>1. \A x \in Context : frame[x].held = <<>> /\ frame[x].pc = "out"
    BY <1>2
  <2>2. \A x \in Context : Len(frame[x].held) = 0
    BY <2>1
  <2>3. \A x \in Context : Pushed(x) = 0 + 0
    BY <2>1, <2>2 DEF Pushed
  <2> QED
    BY <2>2, <2>3
<1>7. MaskInv
  <2>1. HeldOnce
    BY <1>2, <1>6 DEF HeldOnce
  <2>2. OneCpu
    BY <1>1 DEF OneCpu
  <2>3. Counted
    <3> SUFFICES ASSUME NEW c \in CPU
                 PROVE  /\ cpu[c].cliAmount = Pushed(Active(c))
                        /\ cpu[c].enabled /\ cpu[c].trapDepth = 0 /\ cpu[c].cliAmount = 0
      BY DEF Counted
    <3>1. cpu[c].enabled /\ cpu[c].trapDepth = 0 /\ cpu[c].cliAmount = 0
      BY <1>1
    <3>2. Active(c) \in Context
      BY <1>5, <2>2, ActiveOnce
    <3> QED
      BY <1>6, <3>1, <3>2
  <2>4. PushedRuns
    BY <1>2, <1>6 DEF PushedRuns, Context
  <2> QED
    BY <2>1, <2>2, <2>3, <2>4 DEF MaskInv
<1>8. TicketInv
  <2> SUFFICES ASSUME NEW l \in LockId PROVE QueueInv(l)
    BY DEF TicketInv
  <2>1. Users(l) = {}
    BY <1>2, <1>6 DEF Users, Holds
  <2>2. Cardinality(Users(l)) = 0
    BY <2>1, FS_EmptySet
  <2>3. nextTicket[l] = 0 /\ nowServing[l] = 0
    BY DEF Init
  <2> QED
    BY <1>3, <2>1, <2>2, <2>3, TicketAssumption DEF QueueInv, Ahead
<1> QED
  BY <1>5, <1>7, <1>8 DEF IndInv

\* Every step of every CPU keeps it.
LEMMA IndNext == IndInv /\ [Next]_vars => IndInv'
<1> SUFFICES ASSUME IndInv, [Next]_vars PROVE IndInv'
  OBVIOUS
<1>0. TypeOK /\ MaskInv /\ TicketInv
  BY DEF IndInv
<1>1. ASSUME NEW c \in CPU, NEW l \in LockId, ReadFlags(c, l) PROVE IndInv'
  <2>1. TypeOK' /\ MaskInv'
    BY <1>0, <1>1, MaskReadFlags
  <2>2. Own(c, Active(c)) /\ frame[Active(c)].pc = "out"
    BY <1>0, <1>1, OwnFrame DEF ReadFlags
  <2>3. TicketInv'
    BY <1>0, <1>1, <2>2, TicketsKept DEF ReadFlags, Own, TypeOK, Frame
  <2> QED
    BY <2>1, <2>3 DEF IndInv
<1>2. ASSUME NEW c \in CPU, Cli(c) PROVE IndInv'
  <2>1. TypeOK' /\ MaskInv'
    BY <1>0, <1>2, MaskCli
  <2>2. Own(c, Active(c)) /\ frame[Active(c)].pc = "cli"
    BY <1>0, <1>2, OwnFrame DEF Cli
  <2>3. TicketInv'
    BY <1>0, <1>2, <2>2, TicketsKept DEF Cli, Own, TypeOK, Frame
  <2> QED
    BY <2>1, <2>3 DEF IndInv
<1>3. ASSUME NEW c \in CPU, FetchTicket(c) PROVE IndInv'
  BY <1>0, <1>3, MaskFetchTicket, TicketFetch DEF IndInv
<1>4. ASSUME NEW c \in CPU, SpinEnd(c) PROVE IndInv'
  BY <1>0, <1>4, MaskSpinEnd, TicketSpinEnd DEF IndInv
<1>5. ASSUME NEW c \in CPU, Release(c) PROVE IndInv'
  BY <1>0, <1>5, MaskRelease, TicketRelease DEF IndInv
<1>6. ASSUME NEW c \in CPU, CliPop(c) PROVE IndInv'
  <2>1. TypeOK' /\ MaskInv'
    BY <1>0, <1>6, MaskCliPop
  <2>2. Own(c, Active(c)) /\ frame[Active(c)].pc = "pop"
    BY <1>0, <1>6, OwnFrame DEF CliPop
  <2>3. TicketInv'
    BY <1>0, <1>6, <2>2, TicketsKept DEF CliPop, Own, TypeOK, Frame
  <2> QED
    BY <2>1, <2>3 DEF IndInv
<1>7. ASSUME NEW c \in CPU, TrapEnter(c) PROVE IndInv'
  <2>1. TicketInv'
    BY <1>0, <1>7, TicketsKept DEF TrapEnter
  <2> QED
    BY <1>0, <1>7, <2>1, MaskTrapEnter DEF IndInv
<1>8. ASSUME NEW c \in CPU, NEW t \in Thread, TrapReturn(c, t) PROVE IndInv'
  <2>1. TicketInv'
    BY <1>0, <1>8, TicketsKept DEF TrapReturn
  <2> QED
    BY <1>0, <1>8, <2>1, MaskTrapReturn DEF IndInv
<1>9. CASE UNCHANGED vars
  <2>1. TicketInv'
    BY <1>0, <1>9, TicketsKept DEF vars
  <2>2. TypeOK' /\ MaskInv'
    <3>1. TypeOK' /\ HeldOnce' /\ OneCpu'
      BY <1>0, <1>9 DEF vars, TypeOK, MaskInv, HeldOnce, OneCpu
    <3>2. Counted'
      BY <1>0, <1>9 DEF vars, MaskInv, Counted, Pushed, Active
    <3>3. PushedRuns'
      BY <1>0, <1>9 DEF vars, MaskInv, PushedRuns, Pushed, Active
    <3> QED
      BY <3>1, <3>2, <3>3 DEF MaskInv
  <2> QED
    BY <2>1, <2>2 DEF IndInv
<1> QED
  BY <1>1, <1>2, <1>3, <1>4, <1>5, <1>6, <1>7, <1>8, <1>9 DEF Next, Acquire

LEMMA Invariance == Spec => []IndInv
BY IndInit, IndNext, PTL DEF Spec

(***************************************************************************)
(* A lock is held by one context at a time, however often the tickets of   *)
(* lock_acquire wrap around, as long as there is a ticket for every CPU.   *)
(***************************************************************************)
THEOREM LockMutualExclusion == Spec => []MutualExclusion
<1>1. IndInv => MutualExclusion
  <2> SUFFICES ASSUME IndInv, NEW x \in Context, NEW y \in Context, NEW l \in LockId,
                      Holds(x, l), Holds(y, l)
               PROVE  x = y
    BY DEF MutualExclusion
  <2>1. x \in Users(l) /\ y \in Users(l) /\ Place(x, l) = 0 /\ Place(y, l) = 0
    BY DEF Users, Place
  <2> QED
    BY <2>1 DEF IndInv, TicketInv, QueueInv
<1> QED
  BY <1>1, Invariance, PTL

(***************************************************************************)
(* A critical section runs masked and on one CPU, and interrupts are back  *)
(* on when the last lock is released, wherever a trap or a change of CPUs  *)
(* hits cli_push.                                                          *)
(***************************************************************************)
THEOREM LockMaskingKept == Spec => []MaskingKept
<1>1. IndInv => MaskingKept
  <2> SUFFICES ASSUME IndInv PROVE LockedMeansMasked /\ FlagsRestored
    BY DEF IndInv, MaskingKept
  <2>0. TypeOK /\ MaskInv
    BY DEF IndInv
  <2>1. ASSUME NEW x \in Context, frame[x].pc \in {"ticket", "spin", "pop"} \/ frame[x].held # <<>>
        PROVE  \E c \in CPU : Active(c) = x /\ ~cpu[c].enabled
    <3>1. frame[x].held \in Seq(LockId)
      BY <2>0 DEF TypeOK, Frame
    <3>2. Len(frame[x].held) \in Nat /\ (frame[x].held # <<>> => Len(frame[x].held) > 0)
      BY <3>1, EmptySeq
    <3>3. /\ frame[x].pc \in {"ticket", "spin", "pop"} => Pushed(x) = Len(frame[x].held) + 1
          /\ Pushed(x) = Len(frame[x].held) + 1 \/ Pushed(x) = Len(frame[x].held) + 0
      BY DEF Pushed
    <3>4. Pushed(x) > 0
      BY <2>1, <3>2, <3>3
    <3>5. PICK c \in CPU : Active(c) = x
      BY <2>0, <3>4 DEF MaskInv, PushedRuns
    <3>6. cpu[c].cliAmount # 0
      BY <2>0, <3>4, <3>5 DEF MaskInv, Counted
    <3> QED
      BY <2>0, <3>5, <3>6 DEF MaskInv, Counted
  <2>2. ASSUME NEW c \in CPU, cpu[c].trapDepth = 0, frame[Active(c)].pc = "out",
               frame[Active(c)].held = <<>>
        PROVE  cpu[c].enabled /\ cpu[c].cliAmount = 0
    <3>1. Pushed(Active(c)) = 0
      BY <2>2 DEF Pushed
    <3> QED
      BY <2>0, <2>2, <3>1 DEF MaskInv, Counted
  <2> QED
    BY <2>1, <2>2 DEF LockedMeansMasked, FlagsRestored
<1> QED
  BY <1>1, Invariance, PTL

-----------------------------------------------------------------------------
(* Starting and halting the CPUs, for any number of them *)

\* An index into a ring of requests; opaque to the provers but for IpiMod
IpiAt(a) == a % IPI_QUEUE_MAX

\* How many requests wait in a ring
Waiting(q) == IpiAt(q.writeIndex - q.readIndex)

IpiRing == [ipis: [0 .. IPI_QUEUE_MAX - 1 -> Ipi],
            readIndex: 0 .. IPI_QUEUE_MAX - 1, writeIndex: 0 .. IPI_QUEUE_MAX - 1]

\* Before smp_init_others has ended: neither a lock nor an interrupt has done
\* anything to the CPU d, of the record r, that a counter could tell.
BootFits(d, r, own) ==
    /\ r.cliAmount = 0 /\ ~r.started
    /\ d = 0 => r.pc \in {"boot", "await", "panic", "write", "done"}
    /\ d # 0 => r.pc \in {"off", "entry", "logged", "ready", "run"} /\ r.index = 0
    /\ own <=> r.pc = "logged"

\* The first CPU starts one other at a time, and waits for it.
BootOrder(r0, ready) ==
    /\ r0.pc = "boot" =>
        /\ r0.index >= 1
        /\ \A d \in Core \ {0} : core[d].pc = IF d < r0.index THEN "run" ELSE "off"
    /\ r0.pc = "await" =>
        /\ r0.index >= 1 /\ r0.index < CpuAmount
        /\ \A d \in Core \ {0} : /\ d < r0.index => core[d].pc = "run"
                                 /\ d > r0.index => core[d].pc = "off"
        /\ ready => core[r0.index].pc = "run"

BootInv ==
    /\ ~boot.initialized
    /\ \A d \in Core : BootFits(d, core[d], owner = d)
    /\ BootOrder(core[0], boot.cpuReady)
    /\ pending = {} /\ haltedAmount = 0
    /\ \A d \in Core : Waiting(ring[d]) = 0
    /\ panicking => core[0].pc \in {"write", "done"}

\* After it: interrupts are off in a critical section and on the way into one,
\* and the handler runs in none.
RunFits(d, r, own) ==
    /\ r.pc \in {"send", "run", "spin", "ipi", "panic", "halt", "write", "done", "halted", "hung"}
    /\ r.pc = "send" => d = 0
    /\ r.cliAmount = IF own \/ r.pc = "spin" THEN 1 ELSE 0
    /\ r.cliAmount = 1 => ~r.enabled
    /\ r.pc \in {"send", "spin", "ipi", "halted"} => ~own
    /\ r.pc \in {"run", "spin", "ipi", "panic"} => r.index = 0

Halted == {d \in Core : core[d].pc = "halted"}

Panics(r) == r.pc \in {"halt", "write", "done"}

\* The first of the CPUs has still to ask d to start; a panic has still to ask
\* it to halt.
StartDue(d) == core[0].pc = "send" /\ (d = 0 \/ d >= core[0].index)
HaltDue(d) == \A c \in Core \ {d} : Panics(core[c]) => core[c].pc = "halt" /\ core[c].index <= d

\* So nothing is written over: two requests at most are ever made of a CPU.
RingFits(n, start, halt) ==
    /\ n <= 2
    /\ start \/ halt => n <= 1
    /\ start /\ halt => n = 0

\* One CPU panics, and the others have stopped before it goes on.
OnePanic ==
    /\ \A c \in Core : Panics(core[c]) => panicking
    /\ \A c, d \in Core : Panics(core[c]) /\ Panics(core[d]) => c = d
    /\ \A c, d \in Core : core[c].pc \in {"write", "done"} /\ c # d => core[d].pc = "halted"

RunInv ==
    /\ boot.initialized
    /\ \A d \in Core : RunFits(d, core[d], owner = d)
    /\ haltedAmount = Cardinality(Halted)
    /\ OnePanic
    /\ \A d \in Core : RingFits(Waiting(ring[d]), StartDue(d), HaltDue(d))
    /\ HaltNotLost

SmpInv == SmpTypeOK /\ (BootInv \/ RunInv)

-----------------------------------------------------------------------------
(* The ring of requests *)

\* An index that leaves the ring by at most one turn
LEMMA IpiMod ==
    ASSUME NEW a \in Int
    PROVE  /\ a \in 0 .. IPI_QUEUE_MAX - 1 => IpiAt(a) = a
           /\ a \in IPI_QUEUE_MAX .. 2 * IPI_QUEUE_MAX - 1 => IpiAt(a) = a - IPI_QUEUE_MAX
           /\ a \in (0 - IPI_QUEUE_MAX) .. 0 - 1 => IpiAt(a) = a + IPI_QUEUE_MAX
           /\ IpiAt(a) \in 0 .. IPI_QUEUE_MAX - 1
BY SmpAssumption DEF IpiAt

\* The request at the slot j waits in a ring that is read at r and written at w.
Waits(j, r, w) == IpiAt(j - r) < IpiAt(w - r)

Slots == 0 .. IPI_QUEUE_MAX - 1

\* Where the distance between two slots goes past the end of the ring
LEMMA IpiDistance ==
    ASSUME NEW a \in Slots, NEW b \in Slots
    PROVE  IpiAt(a - b) = (IF b <= a THEN a - b ELSE a - b + IPI_QUEUE_MAX) /\ IpiAt(a - b) \in Slots
<1>1. IPI_QUEUE_MAX \in Nat /\ IPI_QUEUE_MAX >= 3 BY SmpAssumption
<1>2. a - b \in Int /\ a \in Int /\ b \in Int BY <1>1 DEF Slots
<1>3. CASE b <= a
  <2>1. a - b \in 0 .. IPI_QUEUE_MAX - 1 BY <1>1, <1>3 DEF Slots
  <2> QED BY <1>2, <1>3, <2>1, IpiMod DEF Slots
<1>4. CASE ~(b <= a)
  <2>1. a - b \in (0 - IPI_QUEUE_MAX) .. 0 - 1 BY <1>1, <1>4 DEF Slots
  <2> QED BY <1>2, <1>4, <2>1, IpiMod DEF Slots
<1> QED BY <1>3, <1>4

\* The slot after another
LEMMA IpiNext ==
    ASSUME NEW a \in Slots
    PROVE  /\ IpiAt(a + 1) = (IF a + 1 = IPI_QUEUE_MAX THEN 0 ELSE a + 1)
           /\ IpiAt(a + 1) \in Slots
<1>1. IPI_QUEUE_MAX \in Nat /\ IPI_QUEUE_MAX >= 3 BY SmpAssumption
<1>2. a + 1 \in Int BY <1>1 DEF Slots
<1>3. a + 1 \in 0 .. IPI_QUEUE_MAX - 1 \/ (a + 1 = IPI_QUEUE_MAX /\ a + 1 \in IPI_QUEUE_MAX .. 2 * IPI_QUEUE_MAX - 1)
  BY <1>1 DEF Slots
<1> QED BY <1>1, <1>2, <1>3, IpiMod DEF Slots

LEMMA RequestsAre ==
    ASSUME NEW q \in IpiRing
    PROVE  /\ q.readIndex \in Slots /\ q.writeIndex \in Slots /\ q.ipis \in [Slots -> Ipi]
           /\ \A x : x \in Requests(q) <=> \E j \in Slots : Waits(j, q.readIndex, q.writeIndex) /\ q.ipis[j] = x
           /\ Waiting(q) \in Slots
           /\ IpiEmpty(q) <=> Waiting(q) = 0
<1>1. q.readIndex \in Slots /\ q.writeIndex \in Slots /\ q.ipis \in [Slots -> Ipi]
  BY DEF IpiRing, Slots
<1>2. Requests(q) = {q.ipis[i] : i \in {j \in Slots : Waits(j, q.readIndex, q.writeIndex)}}
  BY DEF Requests, Waits, IpiAt, Slots
<1>3. Waiting(q) \in Slots /\ (q.writeIndex = q.readIndex <=> Waiting(q) = 0)
  <2>1. PICK r \in Slots, w \in Slots : r = q.readIndex /\ w = q.writeIndex BY <1>1
  <2>2. IpiAt(w - r) = (IF r <= w THEN w - r ELSE w - r + IPI_QUEUE_MAX) /\ IpiAt(w - r) \in Slots
    BY IpiDistance
  <2>3. w = r <=> IpiAt(w - r) = 0 BY <2>2, SmpAssumption DEF Slots
  <2> QED BY <2>1, <2>2, <2>3 DEF Waiting
<1> QED BY <1>1, <1>2, <1>3 DEF IpiEmpty

\* What a request does to the ring: one more waits, and none is lost.
IsIpiPushed(p, q, ipi) ==
    /\ p \in IpiRing
    /\ Waiting(p) = Waiting(q) + 1
    /\ ipi \in Requests(p) /\ Requests(q) \subseteq Requests(p)

LEMMA IpiPushes ==
    ASSUME NEW q \in IpiRing, NEW ipi \in Ipi, Waiting(q) <= 1
    PROVE  IsIpiPushed(IpiPush(q, ipi), q, ipi)
<1> DEFINE p == IpiPush(q, ipi)
           r == q.readIndex
           w == q.writeIndex
           v == IpiAt(w + 1)
<1>1. /\ r \in Slots /\ w \in Slots /\ q.ipis \in [Slots -> Ipi]
      /\ \A x : x \in Requests(q) <=> \E j \in Slots : Waits(j, r, w) /\ q.ipis[j] = x
  BY RequestsAre
<1>2. v \in Slots /\ v = IF w + 1 = IPI_QUEUE_MAX THEN 0 ELSE w + 1
  BY <1>1, IpiNext
<1> HIDE DEF v
<1>3. p = [q EXCEPT !.ipis = [q.ipis EXCEPT ![w] = ipi], !.writeIndex = v]
  BY DEF IpiPush, v, IpiAt
<1>4. /\ p \in IpiRing /\ p.readIndex = r /\ p.writeIndex = v
      /\ p.ipis = [q.ipis EXCEPT ![w] = ipi]
  <2>1. [q.ipis EXCEPT ![w] = ipi] \in [Slots -> Ipi] BY <1>1
  <2>2. PICK s : s = [q.ipis EXCEPT ![w] = ipi] OBVIOUS
  <2>3. p = [q EXCEPT !.ipis = s, !.writeIndex = v] /\ s \in [Slots -> Ipi] BY <1>3, <2>1, <2>2
  <2> HIDE DEF p
  <2>4. p \in IpiRing /\ p.readIndex = r /\ p.writeIndex = v /\ p.ipis = s
    BY <1>1, <1>2, <2>3 DEF IpiRing, Slots
  <2> QED BY <2>2, <2>4
<1> HIDE DEF p, r, w
<1>5. \A x : x \in Requests(p) <=> \E j \in Slots : Waits(j, r, v) /\ p.ipis[j] = x
  BY <1>4, RequestsAre
<1>6. IPI_QUEUE_MAX \in Nat /\ IPI_QUEUE_MAX >= 3
  BY SmpAssumption
<1>7. IpiAt(w - r) <= 1 BY DEF Waiting, w, r
<1>8. IpiAt(v - r) = IpiAt(w - r) + 1
  <2>1. IpiAt(w - r) = (IF r <= w THEN w - r ELSE w - r + IPI_QUEUE_MAX) BY <1>1, IpiDistance
  <2>2. IpiAt(v - r) = (IF r <= v THEN v - r ELSE v - r + IPI_QUEUE_MAX) BY <1>1, <1>2, IpiDistance
  <2> QED BY <1>1, <1>2, <1>6, <1>7, <2>1, <2>2 DEF Slots
<1>9. \A j \in Slots : Waits(j, r, w) => Waits(j, r, v) /\ j # w
  <2> TAKE j \in Slots
  <2>1. IpiAt(j - r) \in Slots /\ IpiAt(w - r) \in Slots BY <1>1, IpiDistance
  <2> QED BY <1>8, <2>1 DEF Waits, Slots
<1>10. Waits(w, r, v)
  <2>1. IpiAt(w - r) \in Slots BY <1>1, IpiDistance
  <2> QED BY <1>8, <2>1 DEF Waits, Slots
<1>11. ipi \in Requests(p)
  BY <1>1, <1>4, <1>5, <1>10
<1>12. ASSUME NEW x \in Requests(q) PROVE x \in Requests(p)
  <2>1. PICK j \in Slots : Waits(j, r, w) /\ q.ipis[j] = x BY <1>1
  <2>2. Waits(j, r, v) /\ p.ipis[j] = x BY <1>1, <1>4, <1>9, <2>1
  <2> QED BY <1>5, <2>1, <2>2
<1>13. Waiting(p) = Waiting(q) + 1
  BY <1>4, <1>8 DEF Waiting, w, r
<1> QED BY <1>4, <1>11, <1>12, <1>13 DEF p, IsIpiPushed

\* What the handler does to it: one fewer waits, and only the first is gone.
IsIpiPopped(p, q) ==
    /\ p \in IpiRing
    /\ Waiting(p) + 1 = Waiting(q)
    /\ \A x \in Requests(q) : x # q.ipis[q.readIndex] => x \in Requests(p)

LEMMA IpiPops ==
    ASSUME NEW q \in IpiRing, ~IpiEmpty(q)
    PROVE  IsIpiPopped(IpiPop(q), q)
<1> DEFINE p == IpiPop(q)
           r == q.readIndex
           w == q.writeIndex
           v == IpiAt(r + 1)
<1>1. /\ r \in Slots /\ w \in Slots /\ q.ipis \in [Slots -> Ipi] /\ r # w
      /\ \A x : x \in Requests(q) <=> \E j \in Slots : Waits(j, r, w) /\ q.ipis[j] = x
  BY RequestsAre DEF IpiEmpty
<1>2. v \in Slots /\ v = IF r + 1 = IPI_QUEUE_MAX THEN 0 ELSE r + 1
  BY <1>1, IpiNext
<1> HIDE DEF v
<1>3. p = [q EXCEPT !.readIndex = v]
  BY DEF IpiPop, v, IpiAt
<1>4. p \in IpiRing /\ p.readIndex = v /\ p.writeIndex = w /\ p.ipis = q.ipis
  BY <1>1, <1>2, <1>3 DEF IpiRing, Slots
<1> HIDE DEF p, r, w
<1>5. \A x : x \in Requests(p) <=> \E j \in Slots : Waits(j, v, w) /\ p.ipis[j] = x
  BY <1>4, RequestsAre
<1>6. IPI_QUEUE_MAX \in Nat /\ IPI_QUEUE_MAX >= 3
  BY SmpAssumption
<1>7. ASSUME NEW j \in Slots, j # r
      PROVE  IpiAt(j - v) + 1 = IpiAt(j - r)
  <2>1. IpiAt(j - r) = (IF r <= j THEN j - r ELSE j - r + IPI_QUEUE_MAX) BY <1>1, IpiDistance
  <2>2. IpiAt(j - v) = (IF v <= j THEN j - v ELSE j - v + IPI_QUEUE_MAX) BY <1>2, IpiDistance
  <2> QED BY <1>1, <1>2, <1>6, <1>7, <2>1, <2>2 DEF Slots
<1>8. ASSUME NEW x \in Requests(q), x # q.ipis[r] PROVE x \in Requests(p)
  <2>1. PICK j \in Slots : Waits(j, r, w) /\ q.ipis[j] = x BY <1>1
  <2>2. j # r BY <1>8, <2>1
  <2>3. IpiAt(j - v) \in Slots /\ IpiAt(w - v) \in Slots BY <1>1, <1>2, <2>1, IpiDistance
  <2>4. IpiAt(j - v) + 1 = IpiAt(j - r) /\ IpiAt(w - v) + 1 = IpiAt(w - r) BY <1>1, <1>7, <2>1, <2>2
  <2>5. Waits(j, v, w) BY <2>1, <2>3, <2>4 DEF Waits, Slots
  <2> QED BY <1>4, <1>5, <2>1, <2>5
<1>9. Waiting(p) + 1 = Waiting(q)
  BY <1>1, <1>4, <1>7 DEF Waiting, r, w
<1> QED BY <1>4, <1>8, <1>9 DEF p, r, IsIpiPopped

-----------------------------------------------------------------------------
(* Steps of one CPU once all of them run *)

\* A step of c changes the record of c and, of the lock, whether c holds it.
StepOf(c, s) ==
    /\ core' = [core EXCEPT ![c] = s]
    /\ owner' \in Core \cup {NoCore}
    /\ \A d \in Core : d # c => (owner' = d <=> owner = d)
    /\ UNCHANGED boot

LEMMA CoreStep ==
    ASSUME SmpTypeOK, RunInv, NEW c \in Core, NEW s \in CoreRecord, StepOf(c, s),
           RunFits(c, s, owner' = c)
    PROVE  /\ core' \in [Core -> CoreRecord] /\ core'[c] = s
           /\ \A d \in Core : d # c => core'[d] = core[d]
           /\ \A d \in Core : RunFits(d, core'[d], owner' = d)
           /\ boot'.initialized /\ boot' \in [cpuReady: BOOLEAN, initialized: BOOLEAN]
<1>1. core \in [Core -> CoreRecord] BY DEF SmpTypeOK
<1>2. /\ core' \in [Core -> CoreRecord] /\ core'[c] = s
      /\ \A d \in Core : d # c => core'[d] = core[d]
  BY <1>1 DEF StepOf
<1>3. ASSUME NEW d \in Core, d # c PROVE RunFits(d, core'[d], owner' = d)
  <2>1. core'[d] = core[d] /\ (owner' = d <=> owner = d) BY <1>2, <1>3 DEF StepOf
  <2>2. RunFits(d, core[d], owner = d) BY DEF RunInv
  <2> QED BY <2>1, <2>2 DEF RunFits
<1>4. boot'.initialized /\ boot' \in [cpuReady: BOOLEAN, initialized: BOOLEAN] BY DEF StepOf, RunInv, SmpTypeOK
<1> QED BY <1>2, <1>3, <1>4

\* Where a CPU is neither sending nor stopped
Plain == {"run", "spin", "ipi", "panic", "hung"}

LEMMA ZeroIsCore == 0 \in Core
BY SmpAssumption DEF Core

\* A step between such places makes no request and loses none, unless it leaves
\* the handler with one in the ring.
LEMMA PlainStep ==
    ASSUME SmpTypeOK, RunInv, NEW c \in Core, NEW s \in CoreRecord, StepOf(c, s),
           RunFits(c, s, owner' = c), core[c].pc \in Plain, s.pc \in Plain,
           UNCHANGED <<ring, panicking, haltedAmount>>,
           pending' \subseteq Core, \A d \in Core : d # c => (d \in pending' <=> d \in pending),
           "halt" \in Requests(ring[c]) /\ (c \in pending \/ core[c].pc = "ipi")
               => c \in pending' \/ s.pc = "ipi"
    PROVE  SmpTypeOK' /\ RunInv'
<1>1. /\ core' \in [Core -> CoreRecord] /\ core'[c] = s
      /\ \A d \in Core : d # c => core'[d] = core[d]
      /\ \A d \in Core : RunFits(d, core'[d], owner' = d)
      /\ boot'.initialized /\ boot' \in [cpuReady: BOOLEAN, initialized: BOOLEAN]
  BY CoreStep
<1>2. SmpTypeOK' BY <1>1 DEF SmpTypeOK, StepOf
<1>3. \A d \in Core : /\ Panics(core'[d]) <=> Panics(core[d])
                      /\ core'[d].pc = "halted" <=> core[d].pc = "halted"
                      /\ Panics(core[d]) \/ core[d].pc = "halted" \/ core[d].pc = "send" => core'[d] = core[d]
                      /\ core'[d].pc = "send" <=> core[d].pc = "send"
  BY <1>1 DEF Panics, Plain
<1>4. Halted' = Halted BY <1>3 DEF Halted
<1>5. OnePanic' 
  BY <1>3 DEF RunInv, OnePanic, Panics
<1>6. \A d \in Core : StartDue(d)' <=> StartDue(d) BY <1>3, ZeroIsCore DEF StartDue
<1>7. \A d \in Core : HaltDue(d)' <=> HaltDue(d) BY <1>3 DEF HaltDue
<1>8. \A d \in Core : RingFits(Waiting(ring[d]), StartDue(d), HaltDue(d))' BY <1>6, <1>7 DEF RunInv, RingFits
<1>9. HaltNotLost'
  <2> SUFFICES ASSUME NEW a \in Core, NEW d \in Core, a # d, core'[a].pc = "halt", d < core'[a].index
               PROVE  core'[d].pc = "halted" \/ ("halt" \in Requests(ring[d]) /\ (d \in pending' \/ core'[d].pc = "ipi"))
    BY DEF HaltNotLost
  <2>1. Panics(core[a]) /\ core'[a] = core[a] BY <1>3 DEF Panics
  <2>2. core[d].pc = "halted" \/ ("halt" \in Requests(ring[d]) /\ (d \in pending \/ core[d].pc = "ipi"))
    BY <2>1 DEF RunInv, HaltNotLost
  <2> QED BY <1>1, <1>3, <2>2
<1> QED BY <1>1, <1>2, <1>4, <1>5, <1>8, <1>9 DEF RunInv

-----------------------------------------------------------------------------
(* One step per action *)

LEMMA AcquireStep ==
    ASSUME SmpTypeOK, RunInv, NEW c \in Core, SmpAcquire(c)
    PROVE  SmpTypeOK' /\ RunInv'
<1> DEFINE s == [core[c] EXCEPT !.pc = "spin", !.enabled = FALSE, !.cliAmount = 1, !.prevFlags = core[c].enabled]
<1>1. core[c] \in CoreRecord /\ RunFits(c, core[c], FALSE) /\ core[c].pc = "run" /\ owner # c
  BY DEF SmpTypeOK, RunInv, SmpAcquire
<1>2. core[c].cliAmount = 0 BY <1>1 DEF RunFits
<1>3. core' = [core EXCEPT ![c] = s]
  <2>1. CliPush(core[c]) = [core[c] EXCEPT !.enabled = FALSE, !.cliAmount = 1, !.prevFlags = core[c].enabled]
    <3>1. core[c].cliAmount + 1 = 1 BY <1>2
    <3>2. boot.initialized BY DEF RunInv
    <3> QED BY <1>2, <3>1, <3>2, Zenon DEF CliPush
  <2>2. [CliPush(core[c]) EXCEPT !.pc = "spin"] = s
    BY <1>1, <2>1 DEF CoreRecord
  <2>3. core' = [core EXCEPT ![c] = [CliPush(core[c]) EXCEPT !.pc = "spin"]]
    BY DEF SmpAcquire
  <2> QED BY <2>2, <2>3, Zenon
<1>4. s \in CoreRecord /\ s.pc = "spin" /\ s.cliAmount = 1 /\ ~s.enabled /\ s.index = core[c].index
  <2> DEFINE t == [core[c] EXCEPT !.cliAmount = 1]
  <2>1. t \in CoreRecord /\ t.cliAmount = 1 /\ t.enabled = core[c].enabled /\ t.index = core[c].index
    BY <1>1 DEF CoreRecord
  <2>2. s = [t EXCEPT !.pc = "spin", !.enabled = FALSE, !.prevFlags = t.enabled] BY <1>1 DEF CoreRecord
  <2> HIDE DEF s, t
  <2> QED BY <2>1, <2>2 DEF CoreRecord
<1> HIDE DEF s
<1>5. RunFits(c, s, FALSE) BY <1>1, <1>4 DEF RunFits
<1>6. StepOf(c, s) BY <1>3 DEF StepOf, SmpAcquire, SmpTypeOK
<1> QED BY <1>1, <1>4, <1>5, <1>6, PlainStep DEF SmpAcquire, Plain, SmpTypeOK

LEMMA SpinEndStep ==
    ASSUME SmpTypeOK, RunInv, NEW c \in Core, SmpSpinEnd(c)
    PROVE  SmpTypeOK' /\ RunInv'
<1> DEFINE s == [core[c] EXCEPT !.pc = "run"]
<1>1. core[c] \in CoreRecord /\ RunFits(c, core[c], FALSE) /\ core[c].pc = "spin" /\ owner' = c /\ owner = NoCore
  BY SmpAssumption DEF SmpTypeOK, RunInv, SmpSpinEnd, RunFits, Core
<1>3. core' = [core EXCEPT ![c] = s] BY DEF SmpSpinEnd
<1>4. /\ s \in CoreRecord /\ s.pc = "run" /\ s.cliAmount = core[c].cliAmount /\ s.enabled = core[c].enabled
      /\ s.index = core[c].index
  BY <1>1 DEF CoreRecord
<1> HIDE DEF s
<1>5. RunFits(c, s, TRUE) BY <1>1, <1>4 DEF RunFits
<1>n. NoCore \notin Core BY SmpAssumption DEF Core
<1>6. StepOf(c, s) BY <1>1, <1>3, <1>n DEF StepOf, SmpSpinEnd, SmpTypeOK
<1> QED BY <1>1, <1>4, <1>5, <1>6, PlainStep DEF SmpSpinEnd, Plain, SmpTypeOK

LEMMA ReleaseStep ==
    ASSUME SmpTypeOK, RunInv, NEW c \in Core, SmpRelease(c)
    PROVE  SmpTypeOK' /\ RunInv'
<1> DEFINE s == [core[c] EXCEPT !.pc = "run", !.cliAmount = 0, !.enabled = core[c].enabled \/ core[c].prevFlags]
<1>1. core[c] \in CoreRecord /\ RunFits(c, core[c], TRUE) /\ core[c].pc = "run" /\ owner' = NoCore /\ owner = c
  BY DEF SmpTypeOK, RunInv, SmpRelease
<1>2. core[c].cliAmount = 1 BY <1>1 DEF RunFits
<1>3. core' = [core EXCEPT ![c] = s] 
  BY <1>1, <1>2 DEF SmpRelease, CliPopTo, RunInv, CoreRecord
<1>4. s \in CoreRecord /\ s.pc = "run" /\ s.cliAmount = 0 /\ s.index = core[c].index
  <2> DEFINE t == [core[c] EXCEPT !.cliAmount = 0]
  <2>1. t \in CoreRecord /\ t.cliAmount = 0 /\ t.enabled = core[c].enabled /\ t.index = core[c].index
    BY <1>1 DEF CoreRecord
  <2>2. PICK b \in BOOLEAN : b = (core[c].enabled \/ core[c].prevFlags) OBVIOUS
  <2>3. s = [t EXCEPT !.pc = "run", !.enabled = b] BY <1>1, <2>2 DEF CoreRecord
  <2> HIDE DEF s, t
  <2>4. b = TRUE \/ b = FALSE BY <2>2
  <2> QED BY <2>1, <2>3, <2>4 DEF CoreRecord
<1> HIDE DEF s
<1>5. RunFits(c, s, FALSE) BY <1>1, <1>4 DEF RunFits
<1>n. NoCore \notin Core BY SmpAssumption DEF Core
<1>6. StepOf(c, s) BY <1>1, <1>3, <1>n DEF StepOf, SmpRelease, SmpTypeOK
<1> QED BY <1>1, <1>4, <1>5, <1>6, <1>n, PlainStep DEF SmpRelease, Plain, SmpTypeOK

LEMMA StiStep ==
    ASSUME SmpTypeOK, RunInv, NEW c \in Core, Sti(c)
    PROVE  SmpTypeOK' /\ RunInv'
<1> DEFINE s == [core[c] EXCEPT !.enabled = TRUE]
<1>1. core[c] \in CoreRecord /\ RunFits(c, core[c], owner = c) /\ core[c].pc = "run" /\ core[c].cliAmount = 0
  BY DEF SmpTypeOK, RunInv, Sti
<1>3. core' = [core EXCEPT ![c] = s] /\ owner' = owner BY DEF Sti
<1>4. /\ s \in CoreRecord /\ s.pc = "run" /\ s.cliAmount = 0 /\ s.index = core[c].index
  BY <1>1 DEF CoreRecord
<1> HIDE DEF s
<1>5. RunFits(c, s, owner' = c) BY <1>1, <1>3, <1>4 DEF RunFits
<1>6. StepOf(c, s) BY <1>3 DEF StepOf, Sti, SmpTypeOK
<1> QED BY <1>1, <1>4, <1>5, <1>6, PlainStep DEF Sti, Plain, SmpTypeOK

LEMMA IpiEnterStep ==
    ASSUME SmpTypeOK, RunInv, NEW c \in Core, IpiEnter(c)
    PROVE  SmpTypeOK' /\ RunInv'
<1> DEFINE s == [core[c] EXCEPT !.pc = "ipi", !.saved = TRUE, !.enabled = FALSE]
<1>1. /\ core[c] \in CoreRecord /\ RunFits(c, core[c], owner = c) /\ core[c].pc = "run" /\ core[c].enabled
      /\ pending' = pending \ {c} /\ owner' = owner
  BY DEF SmpTypeOK, RunInv, IpiEnter
<1>2. core[c].cliAmount = 0 /\ owner # c BY <1>1 DEF RunFits, CoreRecord
<1>3. core' = [core EXCEPT ![c] = s] BY DEF IpiEnter
<1>4. s \in CoreRecord /\ s.pc = "ipi" /\ s.cliAmount = 0 /\ s.index = core[c].index
  BY <1>1, <1>2 DEF CoreRecord
<1> HIDE DEF s
<1>5. RunFits(c, s, FALSE) BY <1>1, <1>4 DEF RunFits
<1>6. StepOf(c, s) BY <1>3 DEF StepOf, IpiEnter, SmpTypeOK
<1> QED BY <1>1, <1>2, <1>4, <1>5, <1>6, PlainStep DEF IpiEnter, Plain, SmpTypeOK

LEMMA IpiReturnStep ==
    ASSUME SmpTypeOK, RunInv, NEW c \in Core, IpiReturn(c)
    PROVE  SmpTypeOK' /\ RunInv'
<1> DEFINE s == [core[c] EXCEPT !.pc = "run", !.enabled = core[c].saved, !.saved = FALSE]
<1>1. /\ core[c] \in CoreRecord /\ RunFits(c, core[c], owner = c) /\ core[c].pc = "ipi"
      /\ pending' = pending /\ owner' = owner /\ IpiEmpty(ring[c]) /\ ring[c] \in IpiRing
  BY DEF SmpTypeOK, RunInv, IpiReturn, IpiRing
<1>2. core[c].cliAmount = 0 /\ owner # c BY <1>1 DEF RunFits, CoreRecord
<1>3. core' = [core EXCEPT ![c] = s] BY DEF IpiReturn
<1>4. s \in CoreRecord /\ s.pc = "run" /\ s.cliAmount = 0 /\ s.index = core[c].index
  BY <1>1, <1>2 DEF CoreRecord
<1> HIDE DEF s
<1>5. RunFits(c, s, FALSE) BY <1>1, <1>4 DEF RunFits
<1>6. StepOf(c, s) BY <1>3 DEF StepOf, IpiReturn, SmpTypeOK
<1>7. "halt" \notin Requests(ring[c])
  <2>1. Waiting(ring[c]) = 0 BY <1>1, RequestsAre
  <2>2. PICK r \in Slots, w \in Slots : r = ring[c].readIndex /\ w = ring[c].writeIndex BY <1>1, RequestsAre
  <2>3. \A j \in Slots : IpiAt(j - r) \in Slots BY IpiDistance
  <2>4. \A j \in Slots : ~Waits(j, r, w) BY <2>1, <2>2, <2>3 DEF Waits, Waiting, Slots
  <2> QED BY <1>1, <2>2, <2>4, RequestsAre
<1> QED BY <1>1, <1>2, <1>4, <1>5, <1>6, <1>7, PlainStep DEF IpiReturn, Plain, SmpTypeOK

LEMMA PanicStep ==
    ASSUME SmpTypeOK, RunInv, NEW c \in Core, Panic(c)
    PROVE  SmpTypeOK' /\ RunInv'
<1> DEFINE s == [core[c] EXCEPT !.pc = "panic", !.enabled = FALSE]
<1>1. core[c] \in CoreRecord /\ RunFits(c, core[c], owner = c) /\ core[c].pc = "run" /\ owner' = owner
  BY DEF SmpTypeOK, RunInv, Panic
<1>3. core' = [core EXCEPT ![c] = s] BY DEF Panic
<1>4. s \in CoreRecord /\ s.pc = "panic" /\ s.cliAmount = core[c].cliAmount /\ s.index = core[c].index /\ ~s.enabled
  BY <1>1 DEF CoreRecord
<1> HIDE DEF s
<1>5. RunFits(c, s, owner' = c) BY <1>1, <1>4 DEF RunFits
<1>6. StepOf(c, s) BY <1>3 DEF StepOf, Panic, SmpTypeOK
<1> QED BY <1>1, <1>4, <1>5, <1>6, PlainStep DEF Panic, Plain, SmpTypeOK

-----------------------------------------------------------------------------
(* Requests, and the CPUs that make them and serve them *)

Rings == [Core -> IpiRing]

\* d has stopped or will stop.
Asked(d) ==
    \/ core[d].pc = "halted"
    \/ "halt" \in Requests(ring[d]) /\ (d \in pending \/ core[d].pc = "ipi")

LEMMA NotLost == HaltNotLost <=> \A a, d \in Core : a # d /\ core[a].pc = "halt" /\ d < core[a].index => Asked(d)
BY DEF HaltNotLost, Asked

LEMMA RingsWait ==
    ASSUME NEW rs \in Rings
    PROVE  \A d \in Core : Waiting(rs[d]) \in Nat
<1>1. ASSUME NEW d \in Core PROVE Waiting(rs[d]) \in Slots BY RequestsAre DEF Rings
<1>2. Slots \subseteq Nat BY SmpAssumption DEF Slots
<1> QED BY <1>1, <1>2

LEMMA WaitingType == SmpTypeOK => ring \in Rings /\ \A d \in Core : Waiting(ring[d]) \in Nat
<1>1. SmpTypeOK => ring \in Rings BY DEF SmpTypeOK, Rings, IpiRing
<1> QED BY <1>1, RingsWait

\* The request ipi is made of d.
IsSent(d, ipi) ==
    /\ ring' \in Rings
    /\ \A e \in Core : e # d => ring'[e] = ring[e]
    /\ Waiting(ring'[d]) = Waiting(ring[d]) + 1
    /\ ipi \in Requests(ring'[d]) /\ Requests(ring[d]) \subseteq Requests(ring'[d])

LEMMA SendStep ==
    ASSUME SmpTypeOK, NEW d \in Core, NEW ipi \in Ipi, Waiting(ring[d]) <= 1,
           ring' = [ring EXCEPT ![d] = IpiPush(ring[d], ipi)]
    PROVE  IsSent(d, ipi)
<1>1. ring \in Rings /\ ring[d] \in IpiRing BY WaitingType DEF Rings
<1>2. IsIpiPushed(IpiPush(ring[d], ipi), ring[d], ipi) BY <1>1, IpiPushes
<1> QED BY <1>1, <1>2 DEF IsSent, IsIpiPushed, Rings

\* Nobody goes on after a panic has taken the machine over.
LEMMA NoneLeft ==
    ASSUME RunInv, NEW c \in Core, core[c].pc # "halted"
    PROVE  \A a \in Core : a # c => core[a].pc \notin {"write", "done"}
BY DEF RunInv, OnePanic

LEMMA StartOthersStep ==
    ASSUME SmpTypeOK, RunInv, NEW c \in Core, StartOthers(c)
    PROVE  SmpTypeOK' /\ RunInv'
<1>0. PICK d : d = core[c].index OBVIOUS
<1> DEFINE s == [core[c] EXCEPT !.index = d + 1]
<1>1. core[c] \in CoreRecord /\ RunFits(c, core[c], owner = c) /\ core[c].pc = "send" /\ c = 0
  BY DEF SmpTypeOK, RunInv, StartOthers, RunFits
<1>2. d \in Core /\ d + 1 \in 0 .. CpuAmount /\ d \in Int
  BY <1>0, <1>1, SmpAssumption DEF CoreRecord, Core, StartOthers
<1>3. core' = [core EXCEPT ![c] = s] /\ owner' = owner /\ UNCHANGED <<boot, panicking, haltedAmount>> BY <1>0 DEF StartOthers
<1>4. s \in CoreRecord /\ s.pc = "send" /\ s.cliAmount = core[c].cliAmount /\ s.enabled = core[c].enabled /\ s.index = d + 1
  BY <1>1, <1>2 DEF CoreRecord
<1> HIDE DEF s
<1>5. RunFits(c, s, owner' = c) BY <1>1, <1>3, <1>4 DEF RunFits
<1>6. StepOf(c, s) BY <1>3 DEF StepOf, SmpTypeOK
<1>7. /\ core' \in [Core -> CoreRecord] /\ core'[c] = s
      /\ \A e \in Core : e # c => core'[e] = core[e]
      /\ \A e \in Core : RunFits(e, core'[e], owner' = e)
      /\ boot'.initialized /\ boot' \in [cpuReady: BOOLEAN, initialized: BOOLEAN]
  BY <1>4, <1>5, <1>6, CoreStep
<1>8. \A e \in Core : /\ core'[e].pc = core[e].pc
                      /\ Panics(core'[e]) <=> Panics(core[e])
                      /\ Panics(core[e]) => core'[e] = core[e]
  BY <1>1, <1>4, <1>7 DEF Panics
<1>9. Halted' = Halted /\ OnePanic'
  BY <1>3, <1>8 DEF Halted, OnePanic, RunInv
<1>10. \A e \in Core : HaltDue(e)' <=> HaltDue(e)
  BY <1>8 DEF HaltDue
<1>11. /\ \A e \in Core : StartDue(e)' => StartDue(e)
       /\ d # c => StartDue(d) /\ ~StartDue(d)'
  <2>1. \A e \in Core : e \in Int BY DEF Core
  <2> QED BY <1>0, <1>1, <1>2, <1>4, <1>7, <2>1 DEF StartDue
<1>12. CASE d = c
  <2>1. UNCHANGED <<ring, pending>> BY <1>0, <1>12 DEF StartOthers
  <2>2. SmpTypeOK' BY <1>3, <1>7, <2>1 DEF SmpTypeOK
  <2>3. \A e \in Core : RingFits(Waiting(ring[e]), StartDue(e), HaltDue(e))'
    BY <1>10, <1>11, <2>1 DEF RunInv, RingFits
  <2>4. \A e \in Core : Asked(e) => Asked(e)' BY <1>8, <2>1 DEF Asked
  <2>5. HaltNotLost' BY <1>8, <2>4, NotLost DEF RunInv, HaltNotLost, Asked, Panics
  <2> QED BY <1>3, <1>7, <1>9, <2>2, <2>3, <2>5 DEF RunInv
<1>13. CASE d # c
  <2>1. ring' = [ring EXCEPT ![d] = IpiPush(ring[d], "start")] /\ pending' = pending \cup {d}
    BY <1>0, <1>13 DEF StartOthers, Send
  <2>2. \A e \in Core : Waiting(ring[e]) \in Nat BY WaitingType
  <2>3. Waiting(ring[d]) <= 1 BY <1>2, <1>11, <1>13 DEF RunInv, RingFits
  <2>4. IsSent(d, "start") BY <1>2, <2>1, <2>3, SendStep DEF Ipi
  <2>5. SmpTypeOK' BY <1>2, <1>3, <1>7, <2>1, <2>4 DEF SmpTypeOK, IsSent, Rings, IpiRing
  <2>6. ASSUME NEW e \in Core PROVE RingFits(Waiting(ring[e]), StartDue(e), HaltDue(e))'
    <3>1. RingFits(Waiting(ring[e]), StartDue(e), HaltDue(e)) BY DEF RunInv
    <3>2. CASE e = d BY <1>2, <1>10, <1>11, <1>13, <2>2, <2>4, <3>1, <3>2 DEF RingFits, IsSent
    <3>3. CASE e # d BY <1>10, <1>11, <2>4, <3>1, <3>3 DEF RingFits, IsSent
    <3> QED BY <3>2, <3>3
  <2>7. \A e \in Core : Asked(e) => Asked(e)' BY <1>8, <2>1, <2>4 DEF Asked, IsSent
  <2>8. HaltNotLost' BY <1>8, <2>7, NotLost DEF RunInv, HaltNotLost, Asked, Panics
  <2> QED BY <1>3, <1>7, <1>9, <2>5, <2>6, <2>8 DEF RunInv
<1> QED BY <1>12, <1>13

LEMMA StartSelfStep ==
    ASSUME SmpTypeOK, RunInv, NEW c \in Core, StartSelf(c)
    PROVE  SmpTypeOK' /\ RunInv'
<1> DEFINE s == [core[c] EXCEPT !.pc = "ipi", !.saved = core[c].enabled, !.index = 0]
<1>1. core[c] \in CoreRecord /\ RunFits(c, core[c], owner = c) /\ core[c].pc = "send" /\ c = 0
  BY DEF SmpTypeOK, RunInv, StartSelf, RunFits
<1>2. /\ core' = [core EXCEPT ![c] = s] /\ owner' = owner
      /\ UNCHANGED <<pending, boot, panicking, haltedAmount>>
      /\ ring' = [ring EXCEPT ![c] = IpiPush(ring[c], "start")]
  BY DEF StartSelf
<1>3. s \in CoreRecord /\ s.pc = "ipi" /\ s.cliAmount = core[c].cliAmount /\ s.enabled = core[c].enabled /\ s.index = 0
  <2> DEFINE t == [core[c] EXCEPT !.index = 0]
  <2>0. 0 \in 0 .. CpuAmount BY SmpAssumption
  <2>1. t \in CoreRecord /\ t.index = 0 /\ t.enabled = core[c].enabled /\ t.cliAmount = core[c].cliAmount
    BY <1>1, <2>0 DEF CoreRecord
  <2>2. s = [t EXCEPT !.pc = "ipi", !.saved = t.enabled] BY <1>1 DEF CoreRecord
  <2> HIDE DEF s, t
  <2> QED BY <2>1, <2>2 DEF CoreRecord
<1> HIDE DEF s
<1>4. RunFits(c, s, owner' = c) BY <1>1, <1>2, <1>3 DEF RunFits
<1>5. StepOf(c, s) BY <1>2 DEF StepOf, SmpTypeOK
<1>6. /\ core' \in [Core -> CoreRecord] /\ core'[c] = s
      /\ \A e \in Core : e # c => core'[e] = core[e]
      /\ \A e \in Core : RunFits(e, core'[e], owner' = e)
      /\ boot'.initialized /\ boot' \in [cpuReady: BOOLEAN, initialized: BOOLEAN]
  BY <1>3, <1>4, <1>5, CoreStep
<1>7. \A e \in Core : /\ core'[e].pc = "halted" <=> core[e].pc = "halted"
                      /\ Panics(core'[e]) <=> Panics(core[e])
                      /\ Panics(core[e]) => core'[e] = core[e]
                      /\ core[e].pc = "ipi" => core'[e].pc = "ipi"
  BY <1>1, <1>3, <1>6 DEF Panics
<1>8. Halted' = Halted /\ OnePanic'
  BY <1>2, <1>7 DEF Halted, OnePanic, RunInv, Panics
<1>9. \A e \in Core : HaltDue(e)' <=> HaltDue(e)
  BY <1>7 DEF HaltDue
<1>10. (\A e \in Core : ~StartDue(e)') /\ StartDue(c)
  BY <1>1, <1>3, <1>6 DEF StartDue
<1>11. Waiting(ring[c]) <= 1 /\ \A e \in Core : Waiting(ring[e]) \in Nat
  BY <1>10, WaitingType DEF RunInv, RingFits
<1>12. IsSent(c, "start") BY <1>2, <1>11, SendStep DEF Ipi
<1>13. SmpTypeOK' BY <1>2, <1>6, <1>12 DEF SmpTypeOK, IsSent, Rings, IpiRing
<1>14. ASSUME NEW e \in Core PROVE RingFits(Waiting(ring[e]), StartDue(e), HaltDue(e))'
  <2>1. RingFits(Waiting(ring[e]), StartDue(e), HaltDue(e)) BY DEF RunInv
  <2>2. CASE e = c BY <1>9, <1>10, <1>11, <1>12, <2>1, <2>2 DEF RingFits, IsSent
  <2>3. CASE e # c BY <1>9, <1>10, <1>12, <2>1, <2>3 DEF RingFits, IsSent
  <2> QED BY <2>2, <2>3
<1>15. \A e \in Core : Asked(e) => Asked(e)' BY <1>2, <1>7, <1>12 DEF Asked, IsSent
<1>16. HaltNotLost' BY <1>7, <1>15, NotLost DEF RunInv, HaltNotLost, Asked, Panics
<1> QED BY <1>2, <1>6, <1>8, <1>13, <1>14, <1>16 DEF RunInv

LEMMA HaltSendStep ==
    ASSUME SmpTypeOK, RunInv, NEW c \in Core, HaltSend(c)
    PROVE  SmpTypeOK' /\ RunInv'
<1>0. PICK d : d = core[c].index OBVIOUS
<1> DEFINE s == [core[c] EXCEPT !.index = d + 1]
<1>1. core[c] \in CoreRecord /\ RunFits(c, core[c], owner = c) /\ core[c].pc = "halt"
  BY DEF SmpTypeOK, RunInv, HaltSend
<1>2. d \in Core /\ d + 1 \in 0 .. CpuAmount /\ d \in Int
  BY <1>0, <1>1, SmpAssumption DEF CoreRecord, Core, HaltSend
<1>3. core' = [core EXCEPT ![c] = s] /\ owner' = owner /\ UNCHANGED <<boot, panicking, haltedAmount>> BY <1>0 DEF HaltSend
<1>4. s \in CoreRecord /\ s.pc = "halt" /\ s.cliAmount = core[c].cliAmount /\ s.enabled = core[c].enabled /\ s.index = d + 1
  BY <1>1, <1>2 DEF CoreRecord
<1> HIDE DEF s
<1>5. RunFits(c, s, owner' = c) BY <1>1, <1>3, <1>4 DEF RunFits
<1>6. StepOf(c, s) BY <1>3 DEF StepOf, SmpTypeOK
<1>7. /\ core' \in [Core -> CoreRecord] /\ core'[c] = s
      /\ \A e \in Core : e # c => core'[e] = core[e]
      /\ \A e \in Core : RunFits(e, core'[e], owner' = e)
      /\ boot'.initialized /\ boot' \in [cpuReady: BOOLEAN, initialized: BOOLEAN]
  BY <1>4, <1>5, <1>6, CoreStep
<1>8. \A e \in Core : core'[e].pc = core[e].pc /\ (Panics(core'[e]) <=> Panics(core[e]))
  BY <1>1, <1>4, <1>7 DEF Panics
<1>9. Halted' = Halted /\ OnePanic'
  BY <1>3, <1>8 DEF Halted, OnePanic, RunInv
<1>10. \A e \in Core : StartDue(e)' <=> StartDue(e)
  <2>1. core'[0].pc = core[0].pc /\ (core[0].pc = "send" => core'[0] = core[0])
    BY <1>1, <1>7, <1>8, ZeroIsCore
  <2> QED BY <2>1 DEF StartDue
<1>11. \A e \in Core : Panics(core[e]) => e = c
  BY <1>1 DEF RunInv, OnePanic, Panics
<1>12. /\ \A e \in Core : HaltDue(e)' => HaltDue(e)
       /\ d # c => HaltDue(d) /\ ~HaltDue(d)'
  <2>1. \A e \in Core : e \in Int BY DEF Core
  <2>2. Panics(core[c]) /\ Panics(core'[c]) BY <1>1, <1>8 DEF Panics
  <2>3. \A e \in Core : HaltDue(e) <=> (c # e => core[c].index <= e)
    BY <1>1, <1>11, <2>2 DEF HaltDue
  <2>4. \A e \in Core : HaltDue(e)' <=> (c # e => core'[c].index <= e)
    BY <1>1, <1>8, <1>11, <2>2 DEF HaltDue
  <2>5. core[c].index = d /\ core'[c].index = d + 1 BY <1>0, <1>4, <1>7
  <2>6. d \in Core /\ d \in Int /\ d <= d /\ ~(d + 1 <= d) /\ \A e \in Core : d + 1 <= e => d <= e
    BY <1>2, <2>1
  <2>7. ASSUME NEW e \in Core, HaltDue(e)' PROVE HaltDue(e)
    BY <2>3, <2>4, <2>5, <2>6, <2>7
  <2>8. d # c => HaltDue(d) /\ ~HaltDue(d)'
    BY <2>3, <2>4, <2>5, <2>6
  <2> QED BY <2>7, <2>8
<1>13. \A a, e \in Core : a # e /\ core'[a].pc = "halt" /\ e < core'[a].index
                            => a = c /\ (e = d \/ e < core[a].index)
  <2>1. \A e \in Core : e \in Int BY DEF Core
  <2> QED BY <1>0, <1>2, <1>4, <1>7, <1>8, <1>11, <2>1 DEF Panics
<1>14. CASE d = c
  <2>1. UNCHANGED <<ring, pending>> BY <1>0, <1>14 DEF HaltSend
  <2>2. SmpTypeOK' BY <1>3, <1>7, <2>1 DEF SmpTypeOK
  <2>3. \A e \in Core : RingFits(Waiting(ring[e]), StartDue(e), HaltDue(e))'
    BY <1>10, <1>12, <2>1 DEF RunInv, RingFits
  <2>4. \A e \in Core : Asked(e) => Asked(e)' BY <1>8, <2>1 DEF Asked
  <2>5. HaltNotLost'
    <3> SUFFICES ASSUME NEW a \in Core, NEW e \in Core, a # e, core'[a].pc = "halt", e < core'[a].index
                 PROVE  Asked(e)'
      BY DEF HaltNotLost, Asked
    <3>1. e < core[a].index /\ core[a].pc = "halt" BY <1>8, <1>13, <1>14
    <3> QED BY <2>4, <3>1, NotLost DEF RunInv
  <2> QED BY <1>3, <1>7, <1>9, <2>2, <2>3, <2>5 DEF RunInv
<1>15. CASE d # c
  <2>1. ring' = [ring EXCEPT ![d] = IpiPush(ring[d], "halt")] /\ pending' = pending \cup {d}
    BY <1>0, <1>15 DEF HaltSend, Send
  <2>2. \A e \in Core : Waiting(ring[e]) \in Nat BY WaitingType
  <2>3. Waiting(ring[d]) <= 1 BY <1>2, <1>12, <1>15 DEF RunInv, RingFits
  <2>4. IsSent(d, "halt") BY <1>2, <2>1, <2>3, SendStep DEF Ipi
  <2>5. SmpTypeOK' BY <1>2, <1>3, <1>7, <2>1, <2>4 DEF SmpTypeOK, IsSent, Rings, IpiRing
  <2>6. ASSUME NEW e \in Core PROVE RingFits(Waiting(ring[e]), StartDue(e), HaltDue(e))'
    <3>1. RingFits(Waiting(ring[e]), StartDue(e), HaltDue(e)) BY DEF RunInv
    <3>2. CASE e = d BY <1>2, <1>10, <1>12, <1>15, <2>2, <2>4, <3>1, <3>2 DEF RingFits, IsSent
    <3>3. CASE e # d BY <1>10, <1>12, <2>4, <3>1, <3>3 DEF RingFits, IsSent
    <3> QED BY <3>2, <3>3
  <2>7. \A e \in Core : Asked(e) => Asked(e)' BY <1>8, <2>1, <2>4 DEF Asked, IsSent
  <2>8. Asked(d)' BY <2>1, <2>4 DEF Asked, IsSent
  <2>9. HaltNotLost'
    <3> SUFFICES ASSUME NEW a \in Core, NEW e \in Core, a # e, core'[a].pc = "halt", e < core'[a].index
                 PROVE  Asked(e)'
      BY DEF HaltNotLost, Asked
    <3>1. e = d \/ (e < core[a].index /\ core[a].pc = "halt") BY <1>8, <1>13
    <3> QED BY <2>7, <2>8, <3>1, NotLost DEF RunInv
  <2> QED BY <1>3, <1>7, <1>9, <2>5, <2>6, <2>9 DEF RunInv
<1> QED BY <1>14, <1>15

\* What the handler takes out of the ring of c
CpuServed(c) ==
    /\ ring' \in Rings
    /\ \A e \in Core : e # c => ring'[e] = ring[e]
    /\ Waiting(ring'[c]) + 1 = Waiting(ring[c])
    /\ \A x \in Requests(ring[c]) : x # ring[c].ipis[ring[c].readIndex] => x \in Requests(ring'[c])

LEMMA ServeStep ==
    ASSUME SmpTypeOK, NEW c \in Core, ~IpiEmpty(ring[c]), ring' = [ring EXCEPT ![c] = IpiPop(ring[c])]
    PROVE  CpuServed(c)
<1>1. ring \in Rings /\ ring[c] \in IpiRing BY WaitingType DEF Rings
<1>2. IsIpiPopped(IpiPop(ring[c]), ring[c]) BY <1>1, IpiPops
<1> QED BY <1>1, <1>2 DEF CpuServed, IsIpiPopped, Rings

LEMMA IpiStartStep ==
    ASSUME SmpTypeOK, RunInv, NEW c \in Core, IpiStart(c)
    PROVE  SmpTypeOK' /\ RunInv'
<1> DEFINE s == [core[c] EXCEPT !.started = TRUE]
<1>1. core[c] \in CoreRecord /\ RunFits(c, core[c], owner = c) /\ core[c].pc = "ipi"
  BY DEF SmpTypeOK, RunInv, IpiStart
<1>2. /\ core' = [core EXCEPT ![c] = s] /\ owner' = owner
      /\ UNCHANGED <<pending, boot, panicking, haltedAmount>>
      /\ ring' = [ring EXCEPT ![c] = IpiPop(ring[c])] /\ ~IpiEmpty(ring[c])
      /\ ring[c].ipis[ring[c].readIndex] = "start"
  BY DEF IpiStart
<1>3. /\ s \in CoreRecord /\ s.pc = "ipi" /\ s.cliAmount = core[c].cliAmount /\ s.enabled = core[c].enabled
      /\ s.index = core[c].index
  BY <1>1 DEF CoreRecord
<1> HIDE DEF s
<1>4. RunFits(c, s, owner' = c) BY <1>1, <1>2, <1>3 DEF RunFits
<1>5. StepOf(c, s) BY <1>2 DEF StepOf, SmpTypeOK
<1>6. /\ core' \in [Core -> CoreRecord] /\ core'[c] = s
      /\ \A e \in Core : e # c => core'[e] = core[e]
      /\ \A e \in Core : RunFits(e, core'[e], owner' = e)
      /\ boot'.initialized /\ boot' \in [cpuReady: BOOLEAN, initialized: BOOLEAN]
  BY <1>3, <1>4, <1>5, CoreStep
<1>7. \A e \in Core : /\ core'[e].pc = core[e].pc /\ core'[e].index = core[e].index
                      /\ Panics(core'[e]) <=> Panics(core[e])
  BY <1>1, <1>3, <1>6 DEF Panics
<1>8. Halted' = Halted /\ OnePanic'
  BY <1>2, <1>7 DEF Halted, OnePanic, RunInv
<1>9. \A e \in Core : (HaltDue(e)' <=> HaltDue(e)) /\ (StartDue(e)' <=> StartDue(e))
  BY <1>7, ZeroIsCore DEF HaltDue, StartDue
<1>10. \A e \in Core : Waiting(ring[e]) \in Nat
  BY WaitingType
<1>11. CpuServed(c) BY <1>2, ServeStep
<1>12. SmpTypeOK' BY <1>2, <1>6, <1>11 DEF SmpTypeOK, CpuServed, Rings, IpiRing
<1>w. \A e \in Core : Waiting(ring'[e]) \in Nat
  BY <1>11, RingsWait DEF CpuServed
<1>13. ASSUME NEW e \in Core PROVE RingFits(Waiting(ring[e]), StartDue(e), HaltDue(e))'
  <2>1. RingFits(Waiting(ring[e]), StartDue(e), HaltDue(e)) BY DEF RunInv
  <2>2. CASE e = c BY <1>9, <1>10, <1>11, <1>w, <2>1, <2>2 DEF RingFits, CpuServed
  <2>3. CASE e # c BY <1>9, <1>11, <2>1, <2>3 DEF RingFits, CpuServed
  <2> QED BY <2>2, <2>3
<1>14. \A e \in Core : Asked(e) => Asked(e)' BY <1>1, <1>2, <1>7, <1>11 DEF Asked, CpuServed
<1>15. HaltNotLost' BY <1>7, <1>14, NotLost DEF RunInv, HaltNotLost, Asked, Panics
<1> QED BY <1>2, <1>6, <1>8, <1>12, <1>13, <1>15 DEF RunInv

LEMMA CoreFinite ==
    /\ IsFiniteSet(Core) /\ Cardinality(Core) = CpuAmount
    /\ IsFiniteSet(Halted) /\ Halted \subseteq Core
    /\ \A S \in SUBSET Core : IsFiniteSet(S) /\ Cardinality(S) \in Nat /\ Cardinality(S) <= CpuAmount
<1>1. IsFiniteSet(Core) /\ Cardinality(Core) = CpuAmount
  BY SmpAssumption, FS_Interval DEF Core
<1>2. \A S \in SUBSET Core : IsFiniteSet(S) /\ Cardinality(S) \in Nat /\ Cardinality(S) <= CpuAmount
  BY <1>1, FS_Subset, FS_CardinalityType
<1> QED BY <1>1, <1>2 DEF Halted

LEMMA IpiHaltStep ==
    ASSUME SmpTypeOK, RunInv, NEW c \in Core, IpiHalt(c)
    PROVE  SmpTypeOK' /\ RunInv'
<1> DEFINE s == [core[c] EXCEPT !.pc = "halted", !.saved = FALSE]
<1>1. core[c] \in CoreRecord /\ RunFits(c, core[c], owner = c) /\ core[c].pc = "ipi"
  BY DEF SmpTypeOK, RunInv, IpiHalt
<1>2. /\ core' = [core EXCEPT ![c] = s] /\ owner' = owner
      /\ UNCHANGED <<pending, boot, panicking>> /\ haltedAmount' = haltedAmount + 1
      /\ ring' = [ring EXCEPT ![c] = IpiPop(ring[c])] /\ ~IpiEmpty(ring[c])
  BY DEF IpiHalt
<1>3. /\ s \in CoreRecord /\ s.pc = "halted" /\ s.cliAmount = core[c].cliAmount /\ s.enabled = core[c].enabled
  BY <1>1 DEF CoreRecord
<1> HIDE DEF s
<1>4. RunFits(c, s, owner' = c) BY <1>1, <1>2, <1>3 DEF RunFits
<1>5. StepOf(c, s) BY <1>2 DEF StepOf, SmpTypeOK
<1>6. /\ core' \in [Core -> CoreRecord] /\ core'[c] = s
      /\ \A e \in Core : e # c => core'[e] = core[e]
      /\ \A e \in Core : RunFits(e, core'[e], owner' = e)
      /\ boot'.initialized /\ boot' \in [cpuReady: BOOLEAN, initialized: BOOLEAN]
  BY <1>3, <1>4, <1>5, CoreStep
<1>7. \A e \in Core : /\ Panics(core'[e]) <=> Panics(core[e])
                      /\ Panics(core[e]) => core'[e] = core[e]
                      /\ core[e].pc = "halted" => core'[e].pc = "halted"
                      /\ core'[e].pc = "send" <=> core[e].pc = "send"
                      /\ core[e].pc = "send" => core'[e] = core[e]
  BY <1>1, <1>3, <1>6 DEF Panics
<1>8. OnePanic'
  BY <1>2, <1>7 DEF OnePanic, RunInv, Panics
<1>9. \A e \in Core : (HaltDue(e)' <=> HaltDue(e)) /\ (StartDue(e)' <=> StartDue(e))
  BY <1>7, ZeroIsCore DEF HaltDue, StartDue
<1>10. \A e \in Core : Waiting(ring[e]) \in Nat
  BY WaitingType
<1>11. CpuServed(c) BY <1>2, ServeStep
<1>12. haltedAmount' = Cardinality(Halted') /\ haltedAmount' \in 0 .. CpuAmount
  <2>1. Halted' = Halted \cup {c} /\ c \notin Halted
    BY <1>1, <1>3, <1>6 DEF Halted
  <2>2. haltedAmount = Cardinality(Halted) BY DEF RunInv
  <2>3. Cardinality(Halted \cup {c}) = Cardinality(Halted) + 1
    BY <2>1, CoreFinite, FS_AddElement
  <2>4. Halted \cup {c} \in SUBSET Core BY CoreFinite
  <2>5. Cardinality(Halted \cup {c}) \in Nat /\ Cardinality(Halted \cup {c}) <= CpuAmount
    BY <2>4, CoreFinite
  <2> QED BY <1>2, <2>1, <2>2, <2>3, <2>5, SmpAssumption
<1>13. SmpTypeOK' BY <1>2, <1>6, <1>11, <1>12 DEF SmpTypeOK, CpuServed, Rings, IpiRing
<1>w. \A e \in Core : Waiting(ring'[e]) \in Nat
  BY <1>11, RingsWait DEF CpuServed
<1>14. ASSUME NEW e \in Core PROVE RingFits(Waiting(ring[e]), StartDue(e), HaltDue(e))'
  <2>1. RingFits(Waiting(ring[e]), StartDue(e), HaltDue(e)) BY DEF RunInv
  <2>2. CASE e = c BY <1>9, <1>10, <1>11, <1>w, <2>1, <2>2 DEF RingFits, CpuServed
  <2>3. CASE e # c BY <1>9, <1>11, <2>1, <2>3 DEF RingFits, CpuServed
  <2> QED BY <2>2, <2>3
<1>15. \A e \in Core : Asked(e) => Asked(e)' BY <1>2, <1>3, <1>6, <1>7, <1>11 DEF Asked, CpuServed
<1>16. HaltNotLost' BY <1>7, <1>15, NotLost DEF RunInv, HaltNotLost, Asked, Panics
<1> QED BY <1>2, <1>6, <1>8, <1>12, <1>13, <1>14, <1>16 DEF RunInv

LEMMA PanicEnterStep ==
    ASSUME SmpTypeOK, RunInv, NEW c \in Core, PanicEnter(c)
    PROVE  SmpTypeOK' /\ RunInv'
<1>1. core[c] \in CoreRecord /\ RunFits(c, core[c], owner = c) /\ core[c].pc = "panic" /\ boot.initialized
  BY DEF SmpTypeOK, RunInv, PanicEnter
<1>2. CASE panicking
  <2> DEFINE s == [core[c] EXCEPT !.pc = "hung"]
  <2>1. core' = [core EXCEPT ![c] = s] /\ owner' = owner /\ UNCHANGED <<ring, pending, boot, haltedAmount>>
    BY <1>2 DEF PanicEnter
  <2>2. panicking' = panicking BY <1>2 DEF PanicEnter, SmpTypeOK
  <2>3. s \in CoreRecord /\ s.pc = "hung" /\ s.cliAmount = core[c].cliAmount /\ s.enabled = core[c].enabled
    BY <1>1 DEF CoreRecord
  <2> HIDE DEF s
  <2>4. RunFits(c, s, owner' = c) BY <1>1, <2>1, <2>3 DEF RunFits
  <2>5. StepOf(c, s) BY <2>1 DEF StepOf, SmpTypeOK
  <2> QED BY <1>1, <2>1, <2>2, <2>3, <2>4, <2>5, PlainStep DEF Plain, SmpTypeOK
<1>3. CASE ~panicking
  <2> DEFINE s == [core[c] EXCEPT !.pc = "halt"]
  <2>1. /\ core' = [core EXCEPT ![c] = s] /\ owner' = owner /\ UNCHANGED <<ring, pending, boot, haltedAmount>>
        /\ panicking' = TRUE
    BY <1>1, <1>3 DEF PanicEnter
  <2>3. /\ s \in CoreRecord /\ s.pc = "halt" /\ s.cliAmount = core[c].cliAmount /\ s.enabled = core[c].enabled
        /\ s.index = core[c].index
    BY <1>1 DEF CoreRecord
  <2>i. core[c].index = 0 BY <1>1 DEF RunFits
  <2> HIDE DEF s
  <2>4. RunFits(c, s, owner' = c) BY <1>1, <2>1, <2>3 DEF RunFits
  <2>5. StepOf(c, s) BY <2>1 DEF StepOf, SmpTypeOK
  <2>6. /\ core' \in [Core -> CoreRecord] /\ core'[c] = s
        /\ \A e \in Core : e # c => core'[e] = core[e]
        /\ \A e \in Core : RunFits(e, core'[e], owner' = e)
        /\ boot'.initialized /\ boot' \in [cpuReady: BOOLEAN, initialized: BOOLEAN]
    BY <2>3, <2>4, <2>5, CoreStep
  <2>7. \A e \in Core : /\ ~Panics(core[e]) /\ (Panics(core'[e]) => e = c)
                        /\ core'[e].pc = "halted" <=> core[e].pc = "halted"
                        /\ core'[e].pc = "send" <=> core[e].pc = "send"
                        /\ core[e].pc = "send" => core'[e] = core[e]
    BY <1>1, <1>3, <2>3, <2>6 DEF RunInv, OnePanic, Panics
  <2>8. Halted' = Halted BY <2>7 DEF Halted
  <2>9. OnePanic' BY <2>1, <2>3, <2>6, <2>7 DEF OnePanic, Panics
  <2>10. \A e \in Core : StartDue(e)' <=> StartDue(e) BY <2>7, ZeroIsCore DEF StartDue
  <2>11. \A e \in Core : HaltDue(e) BY <2>7 DEF HaltDue
  <2>12. SmpTypeOK' BY <2>1, <2>6 DEF SmpTypeOK
  <2>13. \A e \in Core : RingFits(Waiting(ring[e]), StartDue(e), HaltDue(e))'
    BY <2>1, <2>10, <2>11 DEF RunInv, RingFits
  <2>14. HaltNotLost'
    <3>1. \A e \in Core : e \in Int /\ e >= 0 BY DEF Core
    <3>2. \A a, e \in Core : ~(core'[a].pc = "halt" /\ e < core'[a].index)
      BY <2>3, <2>6, <2>7, <2>i, <3>1 DEF Panics
    <3> QED BY <3>2 DEF HaltNotLost
  <2> QED BY <2>1, <2>6, <2>8, <2>9, <2>12, <2>13, <2>14 DEF RunInv
<1> QED BY <1>2, <1>3

LEMMA TakeoverStep ==
    ASSUME SmpTypeOK, RunInv, NEW c \in Core, HaltWait(c) \/ PanicWrite(c)
    PROVE  SmpTypeOK' /\ RunInv'
<1>0. PICK pc \in {"write", "done"} : core' = [core EXCEPT ![c] = [core[c] EXCEPT !.pc = pc]]
  BY DEF HaltWait, PanicWrite
<1> DEFINE s == [core[c] EXCEPT !.pc = pc]
<1>1. /\ core[c] \in CoreRecord /\ RunFits(c, core[c], owner = c) /\ core[c].pc \in {"halt", "write"}
      /\ owner' = owner /\ UNCHANGED <<ring, pending, boot, panicking, haltedAmount>>
  BY DEF SmpTypeOK, RunInv, HaltWait, PanicWrite
<1>3. /\ s \in CoreRecord /\ s.pc = pc /\ s.cliAmount = core[c].cliAmount /\ s.enabled = core[c].enabled
  BY <1>0, <1>1 DEF CoreRecord
<1> HIDE DEF s
<1>4. RunFits(c, s, owner' = c) BY <1>0, <1>1, <1>3 DEF RunFits
<1>5. StepOf(c, s) BY <1>0, <1>1 DEF StepOf, SmpTypeOK, s
<1>6. /\ core' \in [Core -> CoreRecord] /\ core'[c] = s
      /\ \A e \in Core : e # c => core'[e] = core[e]
      /\ \A e \in Core : RunFits(e, core'[e], owner' = e)
      /\ boot'.initialized /\ boot' \in [cpuReady: BOOLEAN, initialized: BOOLEAN]
  BY <1>3, <1>4, <1>5, CoreStep
<1>7. \A e \in Core : /\ Panics(core'[e]) <=> Panics(core[e])
                      /\ Panics(core[e]) => e = c
                      /\ core'[e].pc = "halted" <=> core[e].pc = "halted"
                      /\ core'[e].pc = "send" <=> core[e].pc = "send"
                      /\ core[e].pc = "send" => core'[e] = core[e]
  BY <1>0, <1>1, <1>3, <1>6 DEF RunInv, OnePanic, Panics
<1>8. Halted' = Halted BY <1>7 DEF Halted
<1>9. \A e \in Core : e # c => core[e].pc = "halted"
  <2>1. CASE core[c].pc = "write" BY <2>1 DEF RunInv, OnePanic
  <2>2. CASE core[c].pc = "halt"
    <3>1. haltedAmount >= CpuAmount - 1 BY <2>2 DEF HaltWait, PanicWrite
    <3>2. Halted \subseteq Core \ {c} BY <2>2 DEF Halted
    <3>3. IsFiniteSet(Core \ {c}) /\ Cardinality(Core \ {c}) = CpuAmount - 1
      BY CoreFinite, FS_RemoveElement
    <3>4. Cardinality(Halted) \in Nat /\ Cardinality(Halted) <= CpuAmount - 1
      BY <3>2, <3>3, FS_Subset, FS_CardinalityType, CoreFinite
    <3>5. Cardinality(Halted) = Cardinality(Core \ {c})
      BY <3>1, <3>3, <3>4, SmpAssumption DEF RunInv
    <3>6. Halted = Core \ {c} BY <3>2, <3>3, <3>5, FS_Subset
    <3> QED BY <3>6 DEF Halted
  <2> QED BY <1>1, <2>1, <2>2
<1>10. OnePanic' BY <1>1, <1>7, <1>9 DEF OnePanic, RunInv, Panics
<1>11. \A e \in Core : (StartDue(e)' <=> StartDue(e)) /\ (HaltDue(e)' => HaltDue(e))
  <2>1. \A e \in Core : StartDue(e)' <=> StartDue(e) BY <1>7, ZeroIsCore DEF StartDue
  <2>2. core'[c].pc # "halt" /\ Panics(core'[c]) BY <1>0, <1>3, <1>6 DEF Panics
  <2>3. ASSUME NEW e \in Core, HaltDue(e)' PROVE HaltDue(e)
    <3>1. e = c BY <2>2, <2>3 DEF HaltDue
    <3> QED BY <1>7, <3>1 DEF HaltDue
  <2> QED BY <2>1, <2>3
<1>12. SmpTypeOK' BY <1>1, <1>6 DEF SmpTypeOK
<1>13. \A e \in Core : RingFits(Waiting(ring[e]), StartDue(e), HaltDue(e))'
  BY <1>1, <1>11 DEF RunInv, RingFits
<1>14. HaltNotLost'
  <2>1. \A a \in Core : core'[a].pc # "halt" BY <1>0, <1>3, <1>6, <1>7 DEF Panics
  <2> QED BY <2>1 DEF HaltNotLost
<1> QED BY <1>1, <1>6, <1>8, <1>10, <1>12, <1>13, <1>14 DEF RunInv

-----------------------------------------------------------------------------
(* The start of the CPUs *)

\* Nothing of the rings, the interrupts and the halting changes before the end
\* of smp_init_others.
Quiet == UNCHANGED <<ring, pending, haltedAmount>> /\ boot'.initialized = boot.initialized

\* The first CPU is past the start of the others, which comes to an end with a
\* panic, or the order holds.
LEMMA BootStep ==
    ASSUME SmpTypeOK, BootInv, Quiet,
           core' \in [Core -> CoreRecord], owner' \in Core \cup {NoCore},
           \A d \in Core : BootFits(d, core'[d], owner' = d),
           boot' \in [cpuReady: BOOLEAN, initialized: BOOLEAN],
           BootOrder(core[0], boot.cpuReady)',
           panicking' \in BOOLEAN, panicking' => core'[0].pc \in {"write", "done"}
    PROVE  SmpTypeOK' /\ BootInv'
<1>1. SmpTypeOK' BY DEF SmpTypeOK, Quiet
<1>2. BootInv' BY DEF BootInv, Quiet
<1> QED BY <1>1, <1>2

LEMMA BootNext ==
    ASSUME SmpTypeOK, BootInv, NEW c \in Core,
           SmpAcquire(c) \/ StartTimeout(c) \/ IpiEnter(c) \/ Panic(c) \/ SmpStep(c)
    PROVE  SmpTypeOK' /\ (BootInv' \/ RunInv')
<1>n. NoCore \notin Core /\ 0 \in Core /\ CpuAmount \in Int /\ \A d \in Core : d \in Int /\ d >= 0 /\ d < CpuAmount
  BY SmpAssumption DEF Core
<1>t. /\ core \in [Core -> CoreRecord] /\ core[c] \in CoreRecord /\ core[0] \in CoreRecord
      /\ boot \in [cpuReady: BOOLEAN, initialized: BOOLEAN] /\ panicking \in BOOLEAN
      /\ owner \in Core \cup {NoCore} /\ ~boot.initialized
  BY <1>n DEF SmpTypeOK, BootInv
<1>f. /\ \A d \in Core : BootFits(d, core[d], owner = d)
      /\ BootOrder(core[0], boot.cpuReady)
      /\ panicking => core[0].pc \in {"write", "done"}
  BY DEF BootInv
<1>1. CASE Sti(c)
  <2> DEFINE s == [core[c] EXCEPT !.enabled = TRUE]
  <2>1. s \in CoreRecord /\ s.pc = core[c].pc /\ s.index = core[c].index /\ s.cliAmount = core[c].cliAmount /\ s.started = core[c].started
    BY <1>t DEF CoreRecord
  <2>2. core' = [core EXCEPT ![c] = s] /\ UNCHANGED <<ring, pending, owner, boot, panicking, haltedAmount>> BY <1>1 DEF Sti
  <2> HIDE DEF s
  <2>3. /\ core' \in [Core -> CoreRecord]
        /\ \A d \in Core : /\ core'[d].pc = core[d].pc /\ core'[d].index = core[d].index
                           /\ core'[d].cliAmount = core[d].cliAmount /\ core'[d].started = core[d].started
    BY <1>t, <2>1, <2>2
  <2>4. \A d \in Core : BootFits(d, core'[d], owner' = d) BY <1>f, <2>2, <2>3 DEF BootFits
  <2>5. BootOrder(core[0], boot.cpuReady)'
    <3>1. core'[0].pc = core[0].pc /\ core'[0].index = core[0].index BY <1>n, <2>3
    <3>2. core[0].pc = "await" => core[0].index \in Core BY <1>f, <1>n, <1>t DEF BootOrder, CoreRecord, Core
    <3> QED BY <1>f, <2>2, <2>3, <3>1, <3>2 DEF BootOrder
  <2> QED BY <1>f, <1>n, <1>t, <2>2, <2>3, <2>4, <2>5, BootStep DEF Quiet
<1>2. CASE CpuStart(c)
  <2>1. c = 0 /\ core[0].pc = "boot" BY <1>2, <1>f DEF CpuStart, BootFits
  <2>2. PICK d : d = core[0].index OBVIOUS
  <2>3. d \in Core /\ d # 0 /\ core[d].pc = "off"
    <3>1. d >= 1 /\ d < CpuAmount /\ d \in 0 .. CpuAmount
      BY <1>2, <1>f, <1>t, <2>1, <2>2 DEF CpuStart, BootOrder, CoreRecord
    <3>2. d \in Core \ {0} BY <1>n, <3>1 DEF Core
    <3>3. ~(d < d) BY <3>1
    <3> QED BY <1>f, <2>1, <2>2, <3>2, <3>3 DEF BootOrder
  <2>4. /\ core' = [core EXCEPT ![0].pc = "await", ![d].pc = "entry"]
        /\ boot' = [boot EXCEPT !.cpuReady = FALSE] /\ UNCHANGED <<ring, pending, owner, panicking, haltedAmount>>
    BY <1>2, <2>1, <2>2 DEF CpuStart
  <2>5. /\ core' \in [Core -> CoreRecord]
        /\ core'[0] = [core[0] EXCEPT !.pc = "await"] /\ core'[d] = [core[d] EXCEPT !.pc = "entry"]
        /\ \A e \in Core : e # 0 /\ e # d => core'[e] = core[e]
    BY <1>n, <1>t, <2>3, <2>4 DEF CoreRecord
  <2>6. /\ core'[0].pc = "await" /\ core'[0].index = d /\ core'[d].pc = "entry"
        /\ core'[0].cliAmount = core[0].cliAmount /\ core'[0].started = core[0].started
        /\ core'[d].cliAmount = core[d].cliAmount /\ core'[d].started = core[d].started
        /\ core'[d].index = core[d].index
    BY <1>n, <1>t, <2>2, <2>3, <2>5 DEF CoreRecord
  <2>7. boot' \in [cpuReady: BOOLEAN, initialized: BOOLEAN] /\ ~boot'.cpuReady /\ boot'.initialized = boot.initialized
    BY <1>t, <2>4
  <2>8. \A e \in Core : BootFits(e, core'[e], owner' = e)
    <3>1. BootFits(0, core'[0], owner' = 0) BY <1>f, <1>n, <2>1, <2>4, <2>6 DEF BootFits
    <3>2. BootFits(d, core'[d], owner' = d) BY <1>f, <2>3, <2>4, <2>6 DEF BootFits
    <3>3. ASSUME NEW e \in Core, e # 0, e # d PROVE BootFits(e, core'[e], owner' = e)
      BY <1>f, <2>4, <2>5, <3>3 DEF BootFits
    <3> QED BY <3>1, <3>2, <3>3
  <2>9. BootOrder(core[0], boot.cpuReady)'
    <3>1. d >= 1 /\ d < CpuAmount /\ \A e \in Core \ {0} : core[e].pc = IF e < d THEN "run" ELSE "off"
      BY <1>f, <1>n, <2>1, <2>2, <2>3 DEF BootOrder
    <3>2. \A e \in Core \ {0} : (e < d => core'[e].pc = "run") /\ (e > d => core'[e].pc = "off")
      BY <1>n, <2>3, <2>5, <3>1
    <3> QED BY <2>6, <2>7, <3>1, <3>2 DEF BootOrder
  <2>10. panicking' \in BOOLEAN /\ ~panicking' BY <1>f, <1>t, <2>1, <2>4
  <2> QED BY <1>t, <2>4, <2>5, <2>7, <2>8, <2>9, <2>10, BootStep DEF Quiet
<1>3. CASE CpuStarted(c)
  <2>1. c = 0 /\ core[0].pc = "await" /\ boot.cpuReady BY <1>3, <1>f DEF CpuStarted, BootFits
  <2>2. PICK d : d = core[0].index OBVIOUS
  <2>3. d \in Core /\ d >= 1 /\ d + 1 \in 0 .. CpuAmount /\ core[d].pc = "run"
    BY <1>f, <1>t, <2>1, <2>2, SmpAssumption DEF BootOrder, CoreRecord, Core
  <2> DEFINE s == [core[0] EXCEPT !.pc = "boot", !.index = d + 1]
  <2>4. core' = [core EXCEPT ![0] = s] /\ UNCHANGED <<ring, pending, owner, boot, panicking, haltedAmount>>
    <3>1. core' = [core EXCEPT ![0].pc = "boot", ![0].index = d + 1] BY <1>3, <2>1, <2>2 DEF CpuStarted
    <3>2. [core EXCEPT ![0].pc = "boot", ![0].index = d + 1] = [core EXCEPT ![0] = s] BY <1>n, <1>t DEF CoreRecord
    <3> QED BY <1>3, <3>1, <3>2, Zenon DEF CpuStarted
  <2>5. s \in CoreRecord /\ s.pc = "boot" /\ s.index = d + 1 /\ s.cliAmount = core[0].cliAmount /\ s.started = core[0].started
    BY <1>t, <2>3 DEF CoreRecord
  <2> HIDE DEF s
  <2>6. core' \in [Core -> CoreRecord] /\ core'[0] = s /\ \A e \in Core : e # 0 => core'[e] = core[e]
    BY <1>n, <1>t, <2>4, <2>5
  <2>7. \A e \in Core : BootFits(e, core'[e], owner' = e)
    <3>1. BootFits(0, core'[0], owner' = 0) BY <1>f, <1>n, <2>1, <2>4, <2>5, <2>6 DEF BootFits
    <3>2. ASSUME NEW e \in Core, e # 0 PROVE BootFits(e, core'[e], owner' = e)
      BY <1>f, <2>4, <2>6, <3>2 DEF BootFits
    <3> QED BY <3>1, <3>2
  <2>8. BootOrder(core[0], boot.cpuReady)'
    <3>1. \A e \in Core \ {0} : (e < d => core[e].pc = "run") /\ (e > d => core[e].pc = "off")
      BY <1>f, <2>1, <2>2 DEF BootOrder
    <3>2. \A e \in Core \ {0} : core'[e].pc = IF e < d + 1 THEN "run" ELSE "off"
      BY <1>n, <2>3, <2>6, <3>1
    <3>3. d + 1 >= 1 BY <1>n, <2>3
    <3> QED BY <2>5, <2>6, <3>2, <3>3 DEF BootOrder
  <2>9. panicking' \in BOOLEAN /\ ~panicking' BY <1>f, <1>t, <2>1, <2>4
  <2> QED BY <1>t, <2>4, <2>6, <2>7, <2>8, <2>9, BootStep DEF Quiet
<1>4. CASE StartTimeout(c)
  <2>1. c = 0 /\ core[0].pc = "await" BY <1>4, <1>f DEF StartTimeout, BootFits
  <2> DEFINE s == [core[0] EXCEPT !.pc = "panic", !.index = 0]
  <2>2. core' = [core EXCEPT ![0] = s] /\ UNCHANGED <<ring, pending, owner, boot, panicking, haltedAmount>>
    BY <1>4, <1>t, <2>1 DEF StartTimeout
  <2>z. 0 \in 0 .. CpuAmount BY SmpAssumption
  <2>3. s \in CoreRecord /\ s.pc = "panic" /\ s.cliAmount = core[0].cliAmount /\ s.started = core[0].started
    BY <1>t, <2>z DEF CoreRecord
  <2> HIDE DEF s
  <2>4. core' \in [Core -> CoreRecord] /\ core'[0] = s /\ \A e \in Core : e # 0 => core'[e] = core[e]
    BY <1>n, <1>t, <2>2, <2>3
  <2>5. \A e \in Core : BootFits(e, core'[e], owner' = e)
    <3>1. BootFits(0, core'[0], owner' = 0) BY <1>f, <1>n, <2>1, <2>2, <2>3, <2>4 DEF BootFits
    <3>2. ASSUME NEW e \in Core, e # 0 PROVE BootFits(e, core'[e], owner' = e)
      BY <1>f, <2>2, <2>4, <3>2 DEF BootFits
    <3> QED BY <3>1, <3>2
  <2>6. BootOrder(core[0], boot.cpuReady)' BY <2>3, <2>4 DEF BootOrder
  <2>7. panicking' \in BOOLEAN /\ ~panicking' BY <1>f, <1>t, <2>1, <2>2
  <2> QED BY <1>t, <2>2, <2>4, <2>5, <2>6, <2>7, BootStep DEF Quiet
<1>5. CASE PanicEnter(c) \/ PanicWrite(c)
  <2>1. PICK pc \in {"write", "done"} :
          /\ core' = [core EXCEPT ![c] = [core[c] EXCEPT !.pc = pc]]
          /\ UNCHANGED <<ring, pending, owner, boot, haltedAmount>>
          /\ panicking' \in BOOLEAN
    BY <1>5, <1>f, <1>t DEF PanicEnter, PanicWrite, BootFits
  <2>2. c = 0 /\ core[0].pc \in {"panic", "write"} BY <1>5, <1>f DEF PanicEnter, PanicWrite, BootFits
  <2> DEFINE s == [core[0] EXCEPT !.pc = pc]
  <2>3. core' = [core EXCEPT ![0] = s] BY <2>1, <2>2
  <2>4. s \in CoreRecord /\ s.pc = pc /\ s.cliAmount = core[0].cliAmount /\ s.started = core[0].started
    BY <1>t, <2>1 DEF CoreRecord
  <2> HIDE DEF s
  <2>5. core' \in [Core -> CoreRecord] /\ core'[0] = s /\ \A e \in Core : e # 0 => core'[e] = core[e]
    BY <1>n, <1>t, <2>3, <2>4
  <2>6. \A e \in Core : BootFits(e, core'[e], owner' = e)
    <3>1. BootFits(0, core'[0], owner' = 0) BY <1>f, <1>n, <2>1, <2>2, <2>4, <2>5 DEF BootFits
    <3>2. ASSUME NEW e \in Core, e # 0 PROVE BootFits(e, core'[e], owner' = e)
      BY <1>f, <2>1, <2>5, <3>2, ZenonT(60) DEF BootFits
    <3> QED BY <3>1, <3>2
  <2>7. BootOrder(core[0], boot.cpuReady)' BY <2>1, <2>4, <2>5 DEF BootOrder
  <2>8. core'[0].pc \in {"write", "done"} BY <2>1, <2>4, <2>5
  <2> QED BY <1>t, <2>1, <2>5, <2>6, <2>7, <2>8, BootStep DEF Quiet
<1>6. CASE EntryLock(c) \/ EntryUnlock(c) \/ EntryReady(c)
  <2>1. c # 0 /\ core[c].pc \in {"entry", "logged", "ready"} BY <1>6, <1>f DEF EntryLock, EntryUnlock, EntryReady, BootFits
  <2>2. PICK pc \in {"logged", "ready", "run"} :
          /\ core' = [core EXCEPT ![c] = [core[c] EXCEPT !.pc = pc]]
          /\ UNCHANGED <<ring, pending, panicking, haltedAmount>>
          /\ owner' \in Core \cup {NoCore}
          /\ (owner' = c <=> pc = "logged") /\ \A e \in Core : e # c => (owner' = e <=> owner = e)
          /\ boot' = [boot EXCEPT !.cpuReady = boot.cpuReady \/ pc = "run"]
    <3>1. CASE EntryLock(c) BY <1>n, <1>t, <3>1 DEF EntryLock, CliPush
    <3>2. CASE EntryUnlock(c)
      <4>1. owner = c BY <1>f, <3>2 DEF EntryUnlock, BootFits
      <4> QED BY <1>n, <1>t, <3>2, <4>1 DEF EntryUnlock, CliPopTo
    <3>3. CASE EntryReady(c)
      <4>1. owner # c BY <1>f, <3>3 DEF EntryReady, BootFits
      <4> QED BY <1>n, <1>t, <3>3, <4>1 DEF EntryReady
    <3> QED BY <1>6, <3>1, <3>2, <3>3
  <2> DEFINE s == [core[c] EXCEPT !.pc = pc]
  <2>4. s \in CoreRecord /\ s.pc = pc /\ s.cliAmount = core[c].cliAmount /\ s.started = core[c].started /\ s.index = core[c].index
    BY <1>t, <2>2 DEF CoreRecord
  <2>s. core' = [core EXCEPT ![c] = s] BY <2>2
  <2> HIDE DEF s
  <2>5. core' \in [Core -> CoreRecord] /\ core'[c] = s /\ \A e \in Core : e # c => core'[e] = core[e]
    BY <1>t, <2>s, <2>4
  <2>6. \A e \in Core : BootFits(e, core'[e], owner' = e)
    <3>1. BootFits(c, core'[c], owner' = c) BY <1>f, <2>1, <2>2, <2>4, <2>5 DEF BootFits
    <3>2. ASSUME NEW e \in Core, e # c PROVE BootFits(e, core'[e], owner' = e)
      BY <1>f, <2>2, <2>5, <3>2 DEF BootFits
    <3> QED BY <3>1, <3>2
  <2>7. boot' \in [cpuReady: BOOLEAN, initialized: BOOLEAN] /\ boot'.initialized = boot.initialized
        /\ (boot'.cpuReady <=> boot.cpuReady \/ pc = "run")
    BY <1>t, <2>2
  <2>8. core'[0] = core[0] BY <1>n, <2>1, <2>5
  <2>9. BootOrder(core[0], boot.cpuReady)'
    <3>1. CASE core[0].pc = "boot"
      <4>1. FALSE BY <1>f, <1>t, <2>1, <3>1 DEF BootOrder
      <4> QED BY <4>1
    <3>2. CASE core[0].pc = "await"
      <4>1. PICK d : d = core[0].index OBVIOUS
      <4>2. /\ d >= 1 /\ d < CpuAmount /\ d \in Core
            /\ \A e \in Core \ {0} : (e < d => core[e].pc = "run") /\ (e > d => core[e].pc = "off")
            /\ boot.cpuReady => core[d].pc = "run"
        BY <1>f, <1>n, <1>t, <3>2, <4>1 DEF BootOrder, CoreRecord, Core
      <4>3. c = d BY <1>n, <2>1, <4>2
      <4>4. ~boot.cpuReady BY <2>1, <4>2, <4>3
      <4>5. \A e \in Core \ {0} : (e < d => core'[e].pc = "run") /\ (e > d => core'[e].pc = "off")
        BY <1>n, <2>5, <4>2, <4>3
      <4>6. boot'.cpuReady => core'[d].pc = "run" BY <2>4, <2>5, <2>7, <4>3, <4>4
      <4> QED BY <2>8, <3>2, <4>1, <4>2, <4>5, <4>6 DEF BootOrder
    <3>3. CASE core[0].pc \notin {"boot", "await"} BY <2>8, <3>3 DEF BootOrder
    <3> QED BY <3>1, <3>2, <3>3
  <2>10. panicking' \in BOOLEAN /\ (panicking' => core'[0].pc \in {"write", "done"}) BY <1>f, <1>t, <2>2, <2>8
  <2> QED BY <2>2, <2>5, <2>6, <2>7, <2>9, <2>10, BootStep DEF Quiet
<1>7. CASE SmpInitialized(c)
  <2>1. c = 0 /\ core[0].pc = "boot" /\ core[0].index = CpuAmount BY <1>7, <1>f DEF SmpInitialized, BootFits
  <2> DEFINE s == [core[0] EXCEPT !.pc = "send", !.index = 0]
  <2>2. /\ core' = [core EXCEPT ![0] = s] /\ UNCHANGED <<ring, pending, owner, panicking, haltedAmount>>
        /\ boot' = [boot EXCEPT !.initialized = TRUE]
    BY <1>7, <1>t, <2>1 DEF SmpInitialized
  <2>z. 0 \in 0 .. CpuAmount BY SmpAssumption
  <2>3. s \in CoreRecord /\ s.pc = "send" /\ s.cliAmount = core[0].cliAmount /\ s.index = 0
    BY <1>t, <2>z DEF CoreRecord
  <2> HIDE DEF s
  <2>4. core' \in [Core -> CoreRecord] /\ core'[0] = s /\ \A e \in Core : e # 0 => core'[e] = core[e]
    BY <1>n, <1>t, <2>2, <2>3
  <2>5. boot' \in [cpuReady: BOOLEAN, initialized: BOOLEAN] /\ boot'.initialized BY <1>t, <2>2
  <2>6. SmpTypeOK' BY <2>2, <2>4, <2>5 DEF SmpTypeOK
  <2>7. \A e \in Core : e # 0 => core'[e].pc = "run" /\ core'[e] = core[e]
    BY <1>f, <1>n, <2>1, <2>4 DEF BootOrder
  <2>8. ASSUME NEW e \in Core PROVE RunFits(e, core'[e], owner' = e)
    <3>1. CASE e = 0 BY <1>f, <2>1, <2>2, <2>3, <2>4, <3>1 DEF BootFits, RunFits
    <3>2. CASE e # 0 BY <1>f, <2>2, <2>7, <3>2 DEF BootFits, RunFits
    <3> QED BY <3>1, <3>2
  <2>9. \A e \in Core : ~Panics(core'[e]) /\ core'[e].pc # "halted"
    BY <2>3, <2>4, <2>7 DEF Panics
  <2>10. haltedAmount' = Cardinality(Halted')
    <3>1. Halted' = {} BY <2>9 DEF Halted
    <3> QED BY <2>2, <3>1, FS_EmptySet DEF BootInv
  <2>11. OnePanic' BY <2>9 DEF OnePanic, Panics
  <2>12. HaltNotLost' BY <2>9 DEF HaltNotLost, Panics
  <2>13. \A e \in Core : RingFits(Waiting(ring[e]), StartDue(e), HaltDue(e))'
    <3>1. \A e \in Core : Waiting(ring'[e]) = 0 BY <2>2 DEF BootInv
    <3> QED BY <3>1 DEF RingFits
  <2> QED BY <2>5, <2>6, <2>8, <2>10, <2>11, <2>12, <2>13 DEF RunInv
<1>8. \/ Sti(c) \/ CpuStart(c) \/ CpuStarted(c) \/ StartTimeout(c) \/ SmpInitialized(c)
      \/ EntryLock(c) \/ EntryUnlock(c) \/ EntryReady(c) \/ PanicEnter(c) \/ PanicWrite(c)
  <2>1. core[c].pc \notin {"spin", "send", "ipi", "halt"} /\ ~core[c].started /\ c \notin pending
        /\ (owner = c => core[c].pc = "logged")
    BY <1>f DEF BootFits, BootInv
  <2> QED BY <2>1 DEF SmpStep, SmpAcquire, SmpSpinEnd, SmpRelease, StartOthers, StartSelf, IpiEnter,
                      IpiStart, IpiHalt, IpiReturn, Panic, HaltSend, HaltWait
<1> QED BY <1>1, <1>2, <1>3, <1>4, <1>5, <1>6, <1>7, <1>8

LEMMA RunNext ==
    ASSUME SmpTypeOK, RunInv, NEW c \in Core,
           SmpAcquire(c) \/ StartTimeout(c) \/ IpiEnter(c) \/ Panic(c) \/ SmpStep(c)
    PROVE  SmpTypeOK' /\ RunInv'
<1>1. core[c].pc \notin {"boot", "await", "entry", "logged", "ready"}
  BY DEF RunInv, RunFits
<1>2. /\ ~StartTimeout(c) /\ ~CpuStart(c) /\ ~CpuStarted(c) /\ ~SmpInitialized(c)
      /\ ~EntryLock(c) /\ ~EntryUnlock(c) /\ ~EntryReady(c)
  BY <1>1 DEF StartTimeout, CpuStart, CpuStarted, SmpInitialized, EntryLock, EntryUnlock, EntryReady
<1> QED
  BY <1>2, AcquireStep, SpinEndStep, ReleaseStep, StiStep, IpiEnterStep, IpiReturnStep, PanicStep,
     StartOthersStep, StartSelfStep, HaltSendStep, IpiStartStep, IpiHaltStep, PanicEnterStep, TakeoverStep
  DEF SmpStep

LEMMA SmpNextInv == SmpInv /\ [SmpNext]_smpVars => SmpInv'
<1> SUFFICES ASSUME SmpInv, [SmpNext]_smpVars PROVE SmpInv'
  OBVIOUS
<1>1. CASE SmpNext
  <2>1. PICK c \in Core : SmpAcquire(c) \/ StartTimeout(c) \/ IpiEnter(c) \/ Panic(c) \/ SmpStep(c)
    BY <1>1 DEF SmpNext
  <2>2. CASE BootInv BY <2>1, <2>2, BootNext DEF SmpInv
  <2>3. CASE RunInv BY <2>1, <2>3, RunNext DEF SmpInv
  <2> QED BY <2>2, <2>3 DEF SmpInv
<1>2. CASE UNCHANGED smpVars
  <2>1. SmpTypeOK' BY <1>2 DEF SmpInv, SmpTypeOK, smpVars
  <2>2. CASE BootInv
    <3>1. BootInv' BY <1>2, <2>2 DEF BootInv, BootFits, BootOrder, smpVars
    <3> QED BY <2>1, <3>1 DEF SmpInv
  <2>3. CASE RunInv
    <3>1. Halted' = Halted BY <1>2 DEF Halted, smpVars
    <3>2. OnePanic' BY <1>2, <2>3 DEF RunInv, OnePanic, smpVars
    <3>3. HaltNotLost' BY <1>2, <2>3 DEF RunInv, HaltNotLost, smpVars
    <3>4. \A d \in Core : RunFits(d, core'[d], owner' = d) BY <1>2, <2>3 DEF RunInv, smpVars
    <3>5. \A d \in Core : RingFits(Waiting(ring[d]), StartDue(d), HaltDue(d))'
      BY <1>2, <2>3 DEF RunInv, RingFits, StartDue, HaltDue, smpVars
    <3>6. RunInv' BY <1>2, <2>3, <3>1, <3>2, <3>3, <3>4, <3>5 DEF RunInv, smpVars
    <3> QED BY <2>1, <3>6 DEF SmpInv
  <2> QED BY <2>2, <2>3 DEF SmpInv
<1> QED BY <1>1, <1>2

LEMMA SmpInitInv == SmpInit => SmpInv
<1> SUFFICES ASSUME SmpInit PROVE SmpInv
  OBVIOUS
<1>n. NoCore \notin Core /\ 0 \in Core /\ CpuAmount \in Int /\ CpuAmount >= 1 /\ \A d \in Core : d \in Int /\ d >= 0
  BY SmpAssumption DEF Core
<1>1. /\ core \in [Core -> CoreRecord]
      /\ core[0].pc = "boot" /\ core[0].index = 1
      /\ \A d \in Core : d # 0 => core[d].pc = "off" /\ core[d].index = 0
      /\ \A d \in Core : core[d].cliAmount = 0 /\ ~core[d].started
  BY <1>n DEF SmpInit, CoreRecord
<1>2. ring \in [Core -> IpiRing] /\ \A d \in Core : ring[d].readIndex = 0 /\ ring[d].writeIndex = 0
  <2>1. 0 \in 0 .. IPI_QUEUE_MAX - 1 BY SmpAssumption
  <2> QED BY <2>1 DEF SmpInit, IpiRing, Ipi
<1>3. SmpTypeOK
  <2>1. boot \in [cpuReady: BOOLEAN, initialized: BOOLEAN] /\ panicking \in BOOLEAN BY DEF SmpInit
  <2>2. haltedAmount \in 0 .. CpuAmount BY <1>n DEF SmpInit
  <2>3. pending \subseteq Core /\ owner \in Core \cup {NoCore} BY DEF SmpInit
  <2> QED BY <1>1, <1>2, <2>1, <2>2, <2>3 DEF SmpTypeOK, IpiRing
<1>4. ASSUME NEW d \in Core PROVE Waiting(ring[d]) = 0
  <2>1. IpiEmpty(ring[d]) /\ ring[d] \in IpiRing BY <1>2 DEF IpiEmpty
  <2> QED BY <2>1, RequestsAre
<1>5. \A d \in Core : BootFits(d, core[d], owner = d)
  BY <1>1, <1>n DEF BootFits, SmpInit
<1>6. BootOrder(core[0], boot.cpuReady)
  BY <1>1, <1>n DEF BootOrder
<1>7. BootInv
  BY <1>4, <1>5, <1>6 DEF BootInv, SmpInit
<1> QED BY <1>3, <1>7 DEF SmpInv

LEMMA SmpInvSafe == SmpInv => HaltSafe
<1> SUFFICES ASSUME SmpInv PROVE HaltSafe
  OBVIOUS
<1>1. CASE BootInv
  <2>1. \A c \in Core : core[c].pc \notin {"halt", "underflow"} /\ ~boot.initialized
    BY <1>1 DEF BootInv, BootFits
  <2> QED BY <2>1 DEF SmpInv, HaltSafe, PanicAlone, HaltNotLost, CliBalanced
<1>2. CASE RunInv
  <2>1. PanicAlone
    <3>1. \A d \in Core : core[d].pc = "halted" => owner # d BY <1>2 DEF RunInv, RunFits
    <3> QED BY <1>2, <3>1 DEF RunInv, OnePanic, PanicAlone
  <2>2. CliBalanced
    <3>1. \A d \in Core : core[d].pc # "underflow" /\ (owner = d => core[d].cliAmount = 1)
      BY <1>2 DEF RunInv, RunFits
    <3> QED BY <3>1 DEF CliBalanced
  <2> QED BY <1>2, <2>1, <2>2 DEF SmpInv, RunInv, HaltSafe
<1> QED BY <1>1, <1>2 DEF SmpInv

(***************************************************************************)
(* For any number of CPUs and any ring that holds two requests: log_panic  *)
(* takes the machine over safely.  Every CPU it asks to halt has stopped   *)
(* or will find the request, whatever sched_start and other panics send in *)
(* between; it stops outside of critical sections; all have stopped before *)
(* the message is written; and cli_push and cli_pop, which count only from *)
(* the end of smp_init_others on, stay balanced.                           *)
(***************************************************************************)
THEOREM SmpHaltSafe == SmpSpec => []HaltSafe
BY SmpInitInv, SmpNextInv, SmpInvSafe, PTL DEF SmpSpec

-----------------------------------------------------------------------------
(* The page stack *)

\* Positions of the page stack: position 0 of a buffer is the page it is stored in.
StackHolds(s, i, j) == i \in 1 .. Len(s.buffers) /\ j \in 0 .. Len(s.buffers[i].pages)

StackAt(s, i, j) == IF j = 0 THEN s.buffers[i].page ELSE s.buffers[i].pages[j]

\* All buffers but the last are full, and the last ends at the index.
StackFits(s) ==
    \A i \in 1 .. Len(s.buffers) :
        Len(s.buffers[i].pages) = IF i = Len(s.buffers) THEN s.index ELSE PAGE_BUFFER_MAX

StackOnce(s) ==
    \A i, j, k, l :
        StackHolds(s, i, j) /\ StackHolds(s, k, l) /\ StackAt(s, i, j) = StackAt(s, k, l) => i = k /\ j = l

StackPages(s) == {p \in HighPage : \E i, j : StackHolds(s, i, j) /\ StackAt(s, i, j) = p}

StackGood(s) == s \in Stack /\ StackFits(s) /\ StackOnce(s)

\* What is at a position is a page.
LEMMA StackTypes ==
    ASSUME NEW s \in Stack
    PROVE  /\ s.buffers \in Seq(Buffer) /\ Len(s.buffers) \in Nat /\ s.index \in 0 .. PAGE_BUFFER_MAX
           /\ \A i \in 1 .. Len(s.buffers) :
                /\ s.buffers[i] \in Buffer /\ s.buffers[i].page \in HighPage
                /\ s.buffers[i].pages \in Seq(HighPage) /\ Len(s.buffers[i].pages) \in Nat
           /\ \A i, j : StackHolds(s, i, j) => StackAt(s, i, j) \in HighPage /\ i \in Nat /\ j \in Nat
<1>1. s.buffers \in Seq(Buffer) /\ s.index \in 0 .. PAGE_BUFFER_MAX
  BY DEF Stack
<1>2. Len(s.buffers) \in Nat /\ \A i \in 1 .. Len(s.buffers) : s.buffers[i] \in Buffer
  BY <1>1
<1>3. \A i \in 1 .. Len(s.buffers) : s.buffers[i].page \in HighPage /\ s.buffers[i].pages \in Seq(HighPage)
  BY <1>2 DEF Buffer
<1>4. \A i \in 1 .. Len(s.buffers) : Len(s.buffers[i].pages) \in Nat
  BY <1>3
<1>5. ASSUME NEW i, NEW j, StackHolds(s, i, j)
      PROVE  StackAt(s, i, j) \in HighPage /\ i \in Nat /\ j \in Nat
  <2>1. i \in 1 .. Len(s.buffers) /\ j \in 0 .. Len(s.buffers[i].pages)
    BY <1>5 DEF StackHolds
  <2>2. s.buffers[i].page \in HighPage /\ s.buffers[i].pages \in Seq(HighPage) /\ Len(s.buffers[i].pages) \in Nat
    BY <2>1, <1>3, <1>4
  <2>3. i \in Nat /\ j \in Nat
    BY <1>2, <2>1, <2>2
  <2>4. j # 0 => s.buffers[i].pages[j] \in HighPage
    BY <2>1, <2>2
  <2> QED
    BY <2>2, <2>3, <2>4 DEF StackAt
<1> QED
  BY <1>1, <1>2, <1>3, <1>4, <1>5

\* One position is given up, the one whose page is handed out.
ShrinksAt(s, n, a, b) ==
    /\ StackHolds(s, a, b) /\ ~StackHolds(n, a, b)
    /\ \A i, j : StackHolds(n, i, j) => StackHolds(s, i, j) /\ StackAt(n, i, j) = StackAt(s, i, j)

LEMMA StackShrinks ==
    ASSUME NEW s, NEW n, StackOnce(s), NEW a, NEW b, ShrinksAt(s, n, a, b)
    PROVE  /\ StackOnce(n) /\ StackPages(n) \subseteq StackPages(s)
           /\ StackAt(s, a, b) \notin StackPages(n)
<1>1. StackOnce(n)
  <2> SUFFICES ASSUME NEW i, NEW j, NEW k, NEW l, StackHolds(n, i, j), StackHolds(n, k, l),
                      StackAt(n, i, j) = StackAt(n, k, l)
               PROVE  i = k /\ j = l
    BY DEF StackOnce
  <2>1. /\ StackHolds(s, i, j) /\ StackAt(n, i, j) = StackAt(s, i, j)
        /\ StackHolds(s, k, l) /\ StackAt(n, k, l) = StackAt(s, k, l)
    BY DEF ShrinksAt
  <2> QED
    BY <2>1 DEF StackOnce
<1>2. StackPages(n) \subseteq StackPages(s)
  BY Zenon DEF StackPages, ShrinksAt
<1>3. ASSUME StackAt(s, a, b) \in StackPages(n) PROVE FALSE
  <2>1. PICK i, j : StackHolds(n, i, j) /\ StackAt(n, i, j) = StackAt(s, a, b)
    BY <1>3, Zenon DEF StackPages
  <2>2. StackHolds(s, i, j) /\ StackAt(s, i, j) = StackAt(s, a, b) /\ StackHolds(s, a, b)
    BY <2>1, Zenon DEF ShrinksAt
  <2>3. i = a /\ j = b
    BY <2>2, Zenon DEF StackOnce
  <2> QED
    BY <2>1, <2>3, Zenon DEF ShrinksAt
<1> QED
  BY <1>1, <1>2, <1>3

\* page_stack_free: one position more.
GrowsAt(s, n, a, b) ==
    /\ \A i, j : StackHolds(n, i, j) <=> StackHolds(s, i, j) \/ (i = a /\ j = b)
    /\ \A i, j : StackHolds(s, i, j) => StackAt(n, i, j) = StackAt(s, i, j)
    /\ ~StackHolds(s, a, b)

LEMMA StackGrows ==
    ASSUME NEW s, NEW n, StackOnce(s), NEW a, NEW b, NEW p \in HighPage, p \notin StackPages(s),
           GrowsAt(s, n, a, b), StackAt(n, a, b) = p
    PROVE  StackOnce(n) /\ StackPages(n) = StackPages(s) \cup {p}
<1>1. \A i, j : StackHolds(s, i, j) => StackAt(s, i, j) # p
  BY DEF StackPages
<1>2. StackOnce(n)
  BY <1>1 DEF StackOnce, GrowsAt
<1>3. StackPages(n) = StackPages(s) \cup {p}
  BY DEF StackPages, GrowsAt
<1> QED
  BY <1>2, <1>3

\* Entry j of a buffer is written, and is its last one.
LEMMA BufferAppends ==
    ASSUME NEW b \in Buffer, NEW p \in HighPage, NEW new, new = [b EXCEPT !.pages = Append(b.pages, p)]
    PROVE  /\ new \in Buffer /\ new.page = b.page /\ new.pages = Append(b.pages, p)
           /\ Len(new.pages) = Len(b.pages) + 1 /\ new.pages[Len(b.pages) + 1] = p
           /\ \A j \in 1 .. Len(b.pages) : new.pages[j] = b.pages[j]
<1>1. b.page \in HighPage /\ b.pages \in Seq(HighPage)
  BY DEF Buffer
<1>2. Append(b.pages, p) \in Seq(HighPage)
  BY <1>1
<1>3. new.page = b.page /\ new.pages = Append(b.pages, p) /\ new \in Buffer
  BY <1>1, <1>2 DEF Buffer
<1> QED
  BY <1>1, <1>3

LEMMA StackFreeGood ==
    ASSUME NEW s, StackGood(s), NEW p \in HighPage, p \notin StackPages(s)
    PROVE  StackGood(StackFree(s, p)) /\ StackPages(StackFree(s, p)) = StackPages(s) \cup {p}
<1> DEFINE n == StackFree(s, p)
           len == Len(s.buffers)
<1>t. s \in Stack
  BY DEF StackGood
<1>0. /\ s.buffers \in Seq(Buffer) /\ len \in Nat /\ s.index \in 0 .. PAGE_BUFFER_MAX
      /\ PAGE_BUFFER_MAX \in Nat
      /\ \A i \in 1 .. len : s.buffers[i] \in Buffer /\ s.buffers[i].pages \in Seq(HighPage)
  BY <1>t, StackTypes, BufferAssumption
<1>1. CASE s.buffers = <<>> \/ s.index = PAGE_BUFFER_MAX
  <2> DEFINE new == [page |-> p, pages |-> <<>>]
  <2>1. n = [buffers |-> Append(s.buffers, new), index |-> 0]
    BY <1>1 DEF StackFree
  <2>2. new \in Buffer /\ Len(new.pages) = 0
    BY DEF Buffer
  <2>3. /\ n.buffers = Append(s.buffers, new) /\ n.index = 0 /\ n.buffers \in Seq(Buffer)
        /\ Len(n.buffers) = len + 1 /\ n.buffers[len + 1] = new
        /\ \A i \in 1 .. len : n.buffers[i] = s.buffers[i]
    <3> HIDE DEF new
    <3> QED
      BY <1>0, <2>1, <2>2
  <2>4. n \in Stack
    BY <1>0, <2>1, <2>3 DEF Stack
  <2>5. StackFits(n)
    <3> SUFFICES ASSUME NEW i \in 1 .. len + 1
                 PROVE  Len(n.buffers[i].pages) = IF i = len + 1 THEN n.index ELSE PAGE_BUFFER_MAX
      BY <2>3 DEF StackFits
    <3>1. CASE i = len + 1
      BY <3>1, <2>2, <2>3
    <3>2. CASE i # len + 1
      <4>1. i \in 1 .. len /\ len # 0
        BY <1>0, <3>2
      <4>2. s.index = PAGE_BUFFER_MAX
        BY <4>1, <1>1
      <4> QED
        BY <3>2, <4>1, <4>2, <2>3 DEF StackGood, StackFits
    <3> QED
      BY <3>1, <3>2
  <2>6. \A i, j : StackHolds(n, i, j) <=> StackHolds(s, i, j) \/ (i = len + 1 /\ j = 0)
    <3> HIDE DEF n, new
    <3> TAKE i, j
    <3>1. CASE i \in 1 .. len
      BY <3>1, <1>0, <2>3 DEF StackHolds
    <3>2. CASE i = len + 1
      <4>1. StackHolds(n, i, j) <=> j = 0
        BY <3>2, <1>0, <2>2, <2>3 DEF StackHolds
      <4> QED
        BY <4>1, <3>2, <1>0 DEF StackHolds
    <3>3. CASE ~(i \in 1 .. len + 1)
      <4>1. ~(i \in 1 .. len) /\ i # len + 1
        BY <1>0, <3>3
      <4> QED
        BY <3>3, <4>1, <2>3 DEF StackHolds
    <3> QED
      BY <3>1, <3>2, <3>3, <1>0
  <2>7. \A i, j : StackHolds(s, i, j) => StackAt(n, i, j) = StackAt(s, i, j)
    BY <2>3 DEF StackHolds, StackAt
  <2>8. ~StackHolds(s, len + 1, 0) /\ StackAt(n, len + 1, 0) = p
    <3>1. ~StackHolds(s, len + 1, 0)
      BY <1>0 DEF StackHolds
    <3>2. StackAt(n, len + 1, 0) = p
      BY <2>3 DEF StackAt
    <3> QED
      BY <3>1, <3>2
  <2>9. StackOnce(n) /\ StackPages(n) = StackPages(s) \cup {p}
    <3> HIDE DEF n
    <3>1. StackOnce(s)
      BY DEF StackGood
    <3>2. \E a, c : GrowsAt(s, n, a, c) /\ StackAt(n, a, c) = p
      BY <2>6, <2>7, <2>8 DEF GrowsAt
    <3>3. PICK a, c : GrowsAt(s, n, a, c) /\ StackAt(n, a, c) = p
      BY <3>2
    <3> QED
      BY <3>1, <3>3, StackGrows
  <2> QED
    BY <2>4, <2>5, <2>9 DEF StackGood
<1>2. CASE s.buffers # <<>> /\ s.index # PAGE_BUFFER_MAX
  <2> DEFINE b == s.buffers[len]
             new == [b EXCEPT !.pages = Append(b.pages, p)]
  <2>0. len \in 1 .. len /\ len > 0
    BY <1>0, <1>2
  <2>b. b \in Buffer /\ b.pages \in Seq(HighPage) /\ Len(b.pages) = s.index /\ b.page \in HighPage
    BY <1>0, <2>0, <1>t, StackTypes DEF StackGood, StackFits
  <2>1. n = [buffers |-> [s.buffers EXCEPT ![len] = new], index |-> s.index + 1]
    BY <1>2 DEF StackFree
  <2>2. /\ new \in Buffer /\ new.page = b.page /\ new.pages = Append(b.pages, p)
        /\ Len(new.pages) = s.index + 1 /\ new.pages[s.index + 1] = p
        /\ \A j \in 1 .. s.index : new.pages[j] = b.pages[j]
    BY <2>b, BufferAppends
  <2>3. /\ n.buffers = [s.buffers EXCEPT ![len] = new] /\ n.index = s.index + 1 /\ n.buffers \in Seq(Buffer)
        /\ Len(n.buffers) = len /\ n.buffers[len] = new
        /\ \A i \in 1 .. len : i # len => n.buffers[i] = s.buffers[i]
    <3> HIDE DEF new
    <3>1. new \in Buffer
      BY <2>2
    <3> QED
      BY <1>0, <2>1, <2>0, <3>1
  <2>4. n \in Stack
    <3>1. s.index + 1 \in 0 .. PAGE_BUFFER_MAX
      BY <1>0, <1>2
    <3> QED
      BY <3>1, <2>1, <2>3 DEF Stack
  <2>5. StackFits(n)
    <3> SUFFICES ASSUME NEW i \in 1 .. len
                 PROVE  Len(n.buffers[i].pages) = IF i = len THEN n.index ELSE PAGE_BUFFER_MAX
      BY <2>3 DEF StackFits
    <3>1. CASE i = len
      BY <3>1, <2>2, <2>3
    <3>2. CASE i # len
      BY <3>2, <2>3 DEF StackGood, StackFits
    <3> QED
      BY <3>1, <3>2
  <2> HIDE DEF n, new
  <2>6. \A i, j : StackHolds(n, i, j) <=> StackHolds(s, i, j) \/ (i = len /\ j = s.index + 1)
    <3> TAKE i, j
    <3>1. CASE i = len
      <4>1. StackHolds(n, i, j) <=> j \in 0 .. s.index + 1
        BY <3>1, <2>0, <2>2, <2>3 DEF StackHolds
      <4>2. StackHolds(s, i, j) <=> j \in 0 .. s.index
        BY <3>1, <2>0, <2>b DEF StackHolds
      <4>3. j \in 0 .. s.index + 1 <=> j \in 0 .. s.index \/ j = s.index + 1
        BY <1>0
      <4> QED
        BY <4>1, <4>2, <4>3, <3>1
    <3>2. CASE i # len
      BY <3>2, <2>3 DEF StackHolds
    <3> QED
      BY <3>1, <3>2
  <2>7. \A i, j : StackHolds(s, i, j) => StackAt(n, i, j) = StackAt(s, i, j)
    <3> SUFFICES ASSUME NEW i, NEW j, StackHolds(s, i, j) PROVE StackAt(n, i, j) = StackAt(s, i, j)
      OBVIOUS
    <3>0. i \in 1 .. len /\ j \in 0 .. Len(s.buffers[i].pages)
      BY DEF StackHolds
    <3>1. CASE i = len
      <4>1. j \in 0 .. s.index
        BY <3>0, <3>1, <2>b
      <4>2. j = 0 \/ j \in 1 .. s.index
        BY <4>1, <1>0
      <4> QED
        BY <4>2, <3>1, <2>2, <2>3 DEF StackAt
    <3>2. CASE i # len
      BY <3>0, <3>2, <2>3 DEF StackAt
    <3> QED
      BY <3>1, <3>2
  <2>8. ~StackHolds(s, len, s.index + 1) /\ StackAt(n, len, s.index + 1) = p
    <3>1. ~StackHolds(s, len, s.index + 1)
      BY <1>0, <2>b DEF StackHolds
    <3>2. StackAt(n, len, s.index + 1) = p
      BY <1>0, <2>2, <2>3 DEF StackAt
    <3> QED
      BY <3>1, <3>2
  <2>9. StackOnce(n) /\ StackPages(n) = StackPages(s) \cup {p}
    <3>1. StackOnce(s)
      BY DEF StackGood
    <3>2. \E a, c : GrowsAt(s, n, a, c) /\ StackAt(n, a, c) = p
      BY <2>6, <2>7, <2>8 DEF GrowsAt
    <3>3. PICK a, c : GrowsAt(s, n, a, c) /\ StackAt(n, a, c) = p
      BY <3>2
    <3> QED
      BY <3>1, <3>3, StackGrows
  <2> QED
    BY <2>4, <2>5, <2>9 DEF StackGood, n
<1> QED
  BY <1>1, <1>2

\* page_stack_alloc hands out one position; when it steps back to the buffer before,
\* the last entry of that one is cut off.
Cut(s, n) ==
    IF Len(s.buffers) > 1 /\ Len(n.buffers) < Len(s.buffers)
    THEN {Last(s.buffers[Len(s.buffers) - 1].pages)} ELSE {}

LEMMA StackAllocGood ==
    ASSUME NEW s, StackGood(s), NEW n, NEW p, p = StackAlloc(s).page, n = StackAlloc(s).stack,
           p # NoPage, p # "fault"
    PROVE  /\ StackGood(n) /\ p \in HighPage /\ p \in StackPages(s) /\ p \notin StackPages(n)
           /\ StackPages(n) \subseteq StackPages(s)
           /\ StackPages(s) \subseteq StackPages(n) \cup {p} \cup Cut(s, n)
<1> DEFINE len == Len(s.buffers)
           b == s.buffers[len]
<1>t. s \in Stack /\ StackOnce(s)
  BY DEF StackGood
<1>0. /\ s.buffers \in Seq(Buffer) /\ len \in Nat /\ s.index \in 0 .. PAGE_BUFFER_MAX
      /\ PAGE_BUFFER_MAX \in Nat /\ PAGE_BUFFER_MAX > 1
      /\ \A i \in 1 .. len :
            /\ s.buffers[i] \in Buffer /\ s.buffers[i].page \in HighPage /\ s.buffers[i].pages \in Seq(HighPage)
            /\ Len(s.buffers[i].pages) = IF i = len THEN s.index ELSE PAGE_BUFFER_MAX
  BY <1>t, StackTypes, BufferAssumption DEF StackGood, StackFits
<1>1. s.buffers # <<>>
  BY DEF StackAlloc
<1>2. len \in 1 .. len /\ len > 0 /\ Last(s.buffers) = b
  BY <1>0, <1>1 DEF Last
<1> DEFINE front == Front(s.buffers)
<1>3. /\ front \in Seq(Buffer) /\ Len(front) = len - 1
      /\ \A i \in 1 .. len - 1 : front[i] = s.buffers[i]
  BY <1>0, <1>1, <1>2 DEF Front
<1>4. CASE s.index = 0
  <2>1. p = b.page
    BY <1>1, <1>2, <1>4 DEF StackAlloc
  <2>2. CASE len = 1
    <3>1. n = [buffers |-> <<>>, index |-> PAGE_BUFFER_MAX - 1]
      BY <1>1, <1>3, <1>4, <2>2 DEF StackAlloc
    <3>2. n \in Stack /\ StackFits(n) /\ \A i, j : ~StackHolds(n, i, j)
      BY <1>0, <3>1 DEF Stack, StackFits, StackHolds
    <3>3. \A i, j : StackHolds(s, i, j) <=> i = 1 /\ j = 0
      BY <1>0, <1>4, <2>2 DEF StackHolds
    <3>4. StackAt(s, 1, 0) = p
      BY <2>1, <2>2 DEF StackAt
    <3>5. StackPages(n) = {} /\ StackPages(s) = {p} /\ StackOnce(n) /\ p \in HighPage
      BY <1>0, <1>2, <2>1, <3>2, <3>3, <3>4 DEF StackPages, StackOnce
    <3> QED
      BY <3>2, <3>5 DEF StackGood
  <2>3. CASE len # 1
    <3> DEFINE k == len - 1
               c == s.buffers[k]
               new == [c EXCEPT !.pages = SubSeq(c.pages, 1, PAGE_BUFFER_MAX - 1)]
    <3>n. len \in Nat /\ len > 0
      BY <1>0, <1>2
    <3>0. k \in 1 .. len /\ k \in 1 .. k /\ k > 0 /\ k # len /\ k \in Nat
      <4> HIDE DEF len
      <4> QED
        BY <3>n, <2>3
    <3>c. c \in Buffer /\ c.page \in HighPage /\ c.pages \in Seq(HighPage) /\ Len(c.pages) = PAGE_BUFFER_MAX
      BY <1>0, <3>0
    <3>1. n = [buffers |-> [front EXCEPT ![k] = new], index |-> PAGE_BUFFER_MAX - 1]
      <4>1. front[k] = c /\ Len(front) = k /\ k # 0
        <5>1. \A i \in 1 .. k : front[i] = s.buffers[i]
          BY <1>3
        <5>2. Len(front) = k
          BY <1>3
        <5> HIDE DEF k
        <5> QED
          BY <5>1, <5>2, <3>0
      <4> HIDE DEF front, k
      <4> QED
        BY <1>1, <1>4, <4>1 DEF StackAlloc, front
    <3>2. /\ new \in Buffer /\ new.page = c.page /\ Len(new.pages) = PAGE_BUFFER_MAX - 1
          /\ \A j \in 1 .. PAGE_BUFFER_MAX - 1 : new.pages[j] = c.pages[j]
      <4> HIDE DEF c
      <4>1. /\ SubSeq(c.pages, 1, PAGE_BUFFER_MAX - 1) \in Seq(HighPage)
            /\ Len(SubSeq(c.pages, 1, PAGE_BUFFER_MAX - 1)) = PAGE_BUFFER_MAX - 1
            /\ \A j \in 1 .. PAGE_BUFFER_MAX - 1 : SubSeq(c.pages, 1, PAGE_BUFFER_MAX - 1)[j] = c.pages[j]
        BY <1>0, <3>c
      <4>2. new.page = c.page /\ new.pages = SubSeq(c.pages, 1, PAGE_BUFFER_MAX - 1) /\ new \in Buffer
        BY <3>c, <4>1 DEF Buffer
      <4> QED
        BY <4>1, <4>2
    <3> HIDE DEF new, front
    <3>3. /\ n.buffers = [front EXCEPT ![k] = new] /\ n.index = PAGE_BUFFER_MAX - 1
          /\ n.buffers \in Seq(Buffer) /\ Len(n.buffers) = k /\ n.buffers[k] = new
          /\ \A i \in 1 .. k : i # k => n.buffers[i] = s.buffers[i]
      BY <1>3, <3>0, <3>1, <3>2
    <3>4. n \in Stack
      BY <1>0, <3>1, <3>3 DEF Stack
    <3>5. StackFits(n)
      <4> SUFFICES ASSUME NEW i \in 1 .. k
                   PROVE  Len(n.buffers[i].pages) = IF i = k THEN n.index ELSE PAGE_BUFFER_MAX
        BY <3>3 DEF StackFits
      <4>1. CASE i = k
        BY <4>1, <3>2, <3>3
      <4>2. CASE i # k
        <5>1. i \in 1 .. len /\ i # len
          BY <1>0, <3>0
        <5> QED
          BY <4>2, <5>1, <1>0, <3>3
      <4> QED
        BY <4>1, <4>2
    <3>6. \A i, j : StackHolds(n, i, j) <=>
                StackHolds(s, i, j) /\ i # len /\ ~(i = k /\ j = PAGE_BUFFER_MAX)
      <4> TAKE i, j
      <4>1. CASE i = k
        <5>1. StackHolds(n, i, j) <=> j \in 0 .. PAGE_BUFFER_MAX - 1
          BY <4>1, <3>0, <3>2, <3>3 DEF StackHolds
        <5>2. StackHolds(s, i, j) <=> j \in 0 .. PAGE_BUFFER_MAX
          BY <4>1, <3>0, <3>c DEF StackHolds
        <5>3. j \in 0 .. PAGE_BUFFER_MAX - 1 <=> j \in 0 .. PAGE_BUFFER_MAX /\ j # PAGE_BUFFER_MAX
          BY <1>0
        <5> QED
          BY <5>1, <5>2, <5>3, <4>1, <3>0
      <4>2. CASE i \in 1 .. k /\ i # k
        <5>1. i \in 1 .. len /\ i # len /\ n.buffers[i] = s.buffers[i]
          <6>1. n.buffers[i] = s.buffers[i]
            BY <4>2, <3>3
          <6>2. i \in 1 .. len /\ i # len
            <7> HIDE DEF len
            <7> QED
              BY <4>2, <3>n
          <6> QED
            BY <6>1, <6>2
        <5> QED
          BY <4>2, <5>1, <3>3 DEF StackHolds
      <4>3. CASE ~(i \in 1 .. k)
        <5>1. ~StackHolds(n, i, j)
          BY <4>3, <3>3 DEF StackHolds
        <5>2. i \in 1 .. len => i = len
          BY <4>3, <1>0
        <5> QED
          BY <5>1, <5>2 DEF StackHolds
      <4> QED
        BY <4>1, <4>2, <4>3
    <3>7. \A i, j : StackHolds(n, i, j) => StackAt(n, i, j) = StackAt(s, i, j)
      <4> SUFFICES ASSUME NEW i, NEW j, StackHolds(n, i, j) PROVE StackAt(n, i, j) = StackAt(s, i, j)
        OBVIOUS
      <4>0. i \in 1 .. k /\ j \in 0 .. Len(n.buffers[i].pages)
        BY <3>3 DEF StackHolds
      <4>1. CASE i = k
        <5>1. j = 0 \/ j \in 1 .. PAGE_BUFFER_MAX - 1
          BY <4>0, <4>1, <3>2, <3>3, <1>0
        <5> QED
          BY <5>1, <4>1, <3>2, <3>3 DEF StackAt
      <4>2. CASE i # k
        BY <4>0, <4>2, <3>3 DEF StackAt
      <4> QED
        BY <4>1, <4>2
    <3>8. StackHolds(s, len, 0) /\ StackAt(s, len, 0) = p
      BY <1>0, <1>2, <1>4, <2>1 DEF StackHolds, StackAt
    <3>9. StackOnce(n) /\ StackPages(n) \subseteq StackPages(s) /\ p \notin StackPages(n)
      <4>1. ShrinksAt(s, n, len, 0)
        BY <3>6, <3>7, <3>8 DEF ShrinksAt
      <4> QED
        BY <4>1, <3>8, <1>t, StackShrinks
    <3>10. p \in HighPage /\ p \in StackPages(s)
      BY <1>0, <1>2, <2>1, <3>8 DEF StackPages
    <3>11. Cut(s, n) = {StackAt(s, k, PAGE_BUFFER_MAX)}
      <4>1. len > 1 /\ Len(n.buffers) < len
        BY <1>0, <3>0, <3>3
      <4>2. Last(c.pages) = c.pages[PAGE_BUFFER_MAX]
        BY <3>c DEF Last
      <4>3. StackAt(s, k, PAGE_BUFFER_MAX) = c.pages[PAGE_BUFFER_MAX]
        BY <1>0 DEF StackAt
      <4> QED
        BY <4>1, <4>2, <4>3 DEF Cut
    <3>12. ASSUME NEW q \in StackPages(s), q # p, q \notin Cut(s, n) PROVE q \in StackPages(n)
      <4>1. PICK i, j : StackHolds(s, i, j) /\ StackAt(s, i, j) = q /\ q \in HighPage
        BY DEF StackPages
      <4>2. ~(i = k /\ j = PAGE_BUFFER_MAX)
        BY <4>1, <3>11, <3>12
      <4>3. i # len
        <5>1. i = len => j = 0
          BY <4>1, <1>0, <1>2, <1>4 DEF StackHolds
        <5> QED
          BY <5>1, <4>1, <3>8, <3>12
      <4>4. StackHolds(n, i, j) /\ StackAt(n, i, j) = q
        BY <4>1, <4>2, <4>3, <3>6, <3>7
      <4> QED
        BY <4>1, <4>4 DEF StackPages
    <3> QED
      BY <3>4, <3>5, <3>9, <3>10, <3>12 DEF StackGood
  <2> QED
    BY <2>2, <2>3
<1>5. CASE s.index # 0
  <2> DEFINE x == s.index
             new == [b EXCEPT !.pages = Front(b.pages)]
  <2>b. /\ b \in Buffer /\ b.page \in HighPage /\ b.pages \in Seq(HighPage) /\ Len(b.pages) = x
        /\ x \in 1 .. x /\ x \in Nat /\ x > 0
    BY <1>0, <1>2, <1>5
  <2>1. p = b.pages[x] /\ n = [buffers |-> Append(front, new), index |-> x - 1]
    BY <1>1, <1>2, <1>5 DEF StackAlloc
  <2>2. /\ new \in Buffer /\ new.page = b.page /\ Len(new.pages) = x - 1
        /\ \A j \in 1 .. x - 1 : new.pages[j] = b.pages[j]
    <3> HIDE DEF b, x
    <3>1. /\ Front(b.pages) \in Seq(HighPage) /\ Len(Front(b.pages)) = x - 1
          /\ \A j \in 1 .. x - 1 : Front(b.pages)[j] = b.pages[j]
      BY <2>b DEF Front
    <3>2. new.page = b.page /\ new.pages = Front(b.pages) /\ new \in Buffer
      BY <2>b, <3>1 DEF Buffer
    <3> QED
      BY <3>1, <3>2
  <2> HIDE DEF new, front
  <2>3. /\ n.buffers = Append(front, new) /\ n.index = x - 1 /\ n.buffers \in Seq(Buffer)
        /\ Len(n.buffers) = len /\ n.buffers[len] = new
        /\ \A i \in 1 .. len : i # len => n.buffers[i] = s.buffers[i]
    <3>1. /\ Append(front, new) \in Seq(Buffer) /\ Len(Append(front, new)) = len
          /\ Append(front, new)[len] = new
          /\ \A i \in 1 .. len : i # len => Append(front, new)[i] = s.buffers[i]
      BY <1>0, <1>2, <1>3, <2>2
    <3> QED
      BY <3>1, <2>1
  <2>4. n \in Stack
    BY <1>0, <2>b, <2>1, <2>3 DEF Stack
  <2>5. StackFits(n)
    <3> SUFFICES ASSUME NEW i \in 1 .. len
                 PROVE  Len(n.buffers[i].pages) = IF i = len THEN n.index ELSE PAGE_BUFFER_MAX
      BY <2>3 DEF StackFits
    <3>1. CASE i = len
      BY <3>1, <2>2, <2>3
    <3>2. CASE i # len
      BY <3>2, <1>0, <2>3
    <3> QED
      BY <3>1, <3>2
  <2>6. \A i, j : StackHolds(n, i, j) <=> StackHolds(s, i, j) /\ ~(i = len /\ j = x)
    <3> TAKE i, j
    <3>1. CASE i = len
      <4>1. StackHolds(n, i, j) <=> j \in 0 .. x - 1
        BY <3>1, <1>2, <2>2, <2>3 DEF StackHolds
      <4>2. StackHolds(s, i, j) <=> j \in 0 .. x
        BY <3>1, <1>2, <2>b DEF StackHolds
      <4>3. j \in 0 .. x - 1 <=> j \in 0 .. x /\ j # x
        BY <2>b
      <4> QED
        BY <4>1, <4>2, <4>3, <3>1
    <3>2. CASE i # len
      BY <3>2, <2>3 DEF StackHolds
    <3> QED
      BY <3>1, <3>2
  <2>7. \A i, j : StackHolds(n, i, j) => StackAt(n, i, j) = StackAt(s, i, j)
    <3> SUFFICES ASSUME NEW i, NEW j, StackHolds(n, i, j) PROVE StackAt(n, i, j) = StackAt(s, i, j)
      OBVIOUS
    <3>0. i \in 1 .. len /\ j \in 0 .. Len(n.buffers[i].pages)
      BY <2>3 DEF StackHolds
    <3>1. CASE i = len
      <4>1. j = 0 \/ j \in 1 .. x - 1
        BY <3>0, <3>1, <2>2, <2>3, <2>b
      <4> QED
        BY <4>1, <3>1, <2>2, <2>3 DEF StackAt
    <3>2. CASE i # len
      BY <3>0, <3>2, <2>3 DEF StackAt
    <3> QED
      BY <3>1, <3>2
  <2>8. StackHolds(s, len, x) /\ StackAt(s, len, x) = p
    <3>1. StackHolds(s, len, x)
      BY <1>2, <2>b DEF StackHolds
    <3>2. StackAt(s, len, x) = p
      BY <2>b, <2>1 DEF StackAt
    <3> QED
      BY <3>1, <3>2
  <2>9. StackOnce(n) /\ StackPages(n) \subseteq StackPages(s) /\ p \notin StackPages(n)
    <3>1. ShrinksAt(s, n, len, x)
      BY <2>6, <2>7, <2>8 DEF ShrinksAt
    <3> QED
      BY <3>1, <2>8, <1>t, StackShrinks
  <2>10. p \in HighPage /\ p \in StackPages(s)
    <3>1. p \in HighPage
      BY <2>b, <2>1
    <3> QED
      BY <3>1, <2>8 DEF StackPages
  <2>11. ASSUME NEW q \in StackPages(s), q # p PROVE q \in StackPages(n)
    <3>1. PICK i, j : StackHolds(s, i, j) /\ StackAt(s, i, j) = q /\ q \in HighPage
      BY DEF StackPages
    <3>2. StackHolds(n, i, j) /\ StackAt(n, i, j) = q
      BY <3>1, <2>6, <2>7, <2>8, <2>11
    <3> QED
      BY <3>1, <3>2 DEF StackPages
  <2> QED
    BY <2>4, <2>5, <2>9, <2>10, <2>11 DEF StackGood
<1> QED
  BY <1>4, <1>5

-----------------------------------------------------------------------------
(* The inductive invariant *)

FreePages(m) == StackPages(m.stack) \cup (LowPage \ m.bitmap.reserved)

PmmGood(m) == m \in Pmm /\ StackGood(m.stack)

\* Everything but the sets of pages that holds a page
SlotsOf(s) == {<<"pml", s, 0>>, <<"hand", s, 0>>} \cup {<<"table", s, t>> : t \in Table}
              \cup {<<"entry of", s, v>> : v \in Virt}

RootSlots == {<<"kernelPml", 0, 0>>, <<"kernelPml", 0, 1>>}

Slot == RootSlots \cup UNION {SlotsOf(s) : s \in Space}

SlotPage(x) ==
    IF x[1] = "pml" THEN space[x[2]].pml
    ELSE IF x[1] = "hand" THEN space[x[2]].hand
    ELSE IF x[1] = "table" THEN space[x[2]].tables[x[3]]
    ELSE IF x[1] = "entry of" THEN space[x[2]].entries[x[3]].page
    ELSE IF x[3] = 0 THEN kernelPml.pml ELSE kernelPml.table

Use == [x \in Slot |-> SlotPage(x)]

\* No page is in two slots, or in two of the sets, or in a slot and a set.
Sole(use, free, own, map) ==
    /\ \A x, y \in Slot : use[x] = use[y] /\ use[x] \in Page => x = y
    /\ \A x \in Slot : use[x] \notin free \cup own \cup map
    /\ free \cap own = {} /\ free \cap map = {} /\ own \cap map = {}

SolePages == Sole(Use, FreePages(pmm), kernel, memoryMap)

SpaceControl(r) ==
    /\ r.op # "none" => r.pml # NoPage
    /\ r.op \in {"map", "unmap"} => r.at < r.end
    /\ r.hand # NoPage => r.op = "map" /\ r.owned
    /\ r.op = "cleanup" => r.upper = NoPage
    /\ \A v \in Virt : r.entries[v].owned <=> r.entries[v].page \in HighPage
    /\ \A v \in Virt : r.entries[v].page # NoPage => r.tables[TableOf(v)] # NoPage

VmmInv ==
    /\ VmmTypeOK
    /\ PmmGood(pmm)
    /\ SolePages
    /\ \A s \in Space : SpaceControl(space[s])
    /\ kernelPml.pml = NoPage => kernelPml.table = NoPage

-----------------------------------------------------------------------------
(* The allocator *)

LEMMA PmmTypes ==
    ASSUME NEW m, PmmGood(m)
    PROVE  /\ m = [stack |-> m.stack, bitmap |-> m.bitmap] /\ StackGood(m.stack) /\ m.stack \in Stack
           /\ m.bitmap \in Bitmap /\ FreePages(m) \subseteq Page
           /\ m.bitmap = [reserved |-> m.bitmap.reserved, firstFreeIndex |-> m.bitmap.firstFreeIndex]
           /\ m.bitmap.reserved \subseteq LowPage /\ m.bitmap.firstFreeIndex \in 0 .. LowAmount
  BY DEF PmmGood, Pmm, Bitmap, FreePages, StackPages, Page

\* The two kinds of pages are different.
LEMMA HighNotLow ==
    /\ \A p \in HighPage : p \notin LowPage
    /\ \A p \in LowPage : p \in Nat
    /\ LowAmount \in Nat
  BY PageAssumption DEF LowPage

\* pmm_free adds the page to the free ones.
LEMMA PmmFreeGood ==
    ASSUME NEW m, PmmGood(m), NEW p \in Page, p \notin FreePages(m)
    PROVE  PmmGood(PmmFree(m, p)) /\ FreePages(PmmFree(m, p)) = FreePages(m) \cup {p}
<1>0. /\ m = [stack |-> m.stack, bitmap |-> m.bitmap] /\ StackGood(m.stack) /\ m.stack \in Stack
      /\ m.bitmap \in Bitmap
      /\ m.bitmap = [reserved |-> m.bitmap.reserved, firstFreeIndex |-> m.bitmap.firstFreeIndex]
      /\ m.bitmap.reserved \subseteq LowPage /\ m.bitmap.firstFreeIndex \in 0 .. LowAmount
  BY PmmTypes
<1>1. CASE p \in HighPage
  <2> DEFINE n == StackFree(m.stack, p)
  <2>1. PmmFree(m, p) = [stack |-> n, bitmap |-> m.bitmap]
    BY <1>0, <1>1 DEF PmmFree
  <2>2. p \notin StackPages(m.stack)
    BY DEF FreePages
  <2>3. StackGood(n) /\ StackPages(n) = StackPages(m.stack) \cup {p}
    BY <1>0, <1>1, <2>2, StackFreeGood
  <2> HIDE DEF n
  <2> QED
    BY <1>0, <2>1, <2>3 DEF PmmGood, Pmm, FreePages, StackGood
<1>2. CASE p \notin HighPage
  <2> DEFINE n == BitmapFree(m.bitmap, p)
  <2>0. p \in LowPage /\ p \in 0 .. LowAmount
    BY <1>2, HighNotLow DEF Page, LowPage
  <2>1. PmmFree(m, p) = [stack |-> m.stack, bitmap |-> n]
    BY <1>0, <1>2 DEF PmmFree
  <2>2. n.reserved = m.bitmap.reserved \ {p} /\ n \in Bitmap
    BY <1>0, <2>0 DEF BitmapFree, Bitmap
  <2> HIDE DEF n
  <2> QED
    BY <1>0, <2>0, <2>1, <2>2 DEF PmmGood, Pmm, FreePages
<1> QED
  BY <1>1, <1>2

\* pmm_alloc takes one page from the free ones, and may lose another.
LEMMA PmmAllocGood ==
    ASSUME NEW m, PmmGood(m), NEW p, NEW n, p = PmmAlloc(m).page, n = PmmAlloc(m).pmm,
           p # NoPage, p # "fault"
    PROVE  /\ PmmGood(n) /\ p \in HighPage /\ p \in FreePages(m) /\ p \notin FreePages(n)
           /\ FreePages(n) \subseteq FreePages(m)
           /\ FreePages(m) \subseteq FreePages(n) \cup {p} \cup Cut(m.stack, n.stack)
<1> DEFINE st == StackAlloc(m.stack).stack
<1>0. m = [stack |-> m.stack, bitmap |-> m.bitmap] /\ StackGood(m.stack) /\ m.bitmap \in Bitmap
  BY PmmTypes
<1>1. p = StackAlloc(m.stack).page /\ n = [stack |-> st, bitmap |-> m.bitmap]
  BY <1>0 DEF PmmAlloc
<1>2. /\ StackGood(st) /\ p \in HighPage /\ p \in StackPages(m.stack) /\ p \notin StackPages(st)
      /\ StackPages(st) \subseteq StackPages(m.stack)
      /\ StackPages(m.stack) \subseteq StackPages(st) \cup {p} \cup Cut(m.stack, st)
  BY <1>0, <1>1, StackAllocGood
<1>3. n.stack = st /\ n.bitmap = m.bitmap
  BY <1>1
<1>4. PmmGood(n)
  BY <1>0, <1>1, <1>2 DEF PmmGood, Pmm, StackGood
<1> HIDE DEF st
<1> QED
  BY <1>2, <1>3, <1>4, HighNotLow DEF FreePages

\* A caller of pmm_alloc gets a page.
LEMMA TakesGood ==
    ASSUME NEW m, PmmGood(m), NEW p, TakesFrom(m, p)
    PROVE  /\ PmmGood(pmm') /\ p \in HighPage /\ p \in FreePages(m) /\ p \notin FreePages(pmm')
           /\ FreePages(pmm') \subseteq FreePages(m)
           /\ FreePages(m) \subseteq FreePages(pmm') \cup {p} \cup Cut(m.stack, pmm'.stack)
           /\ panic = "none" /\ panic' = panic
<1>1. p = PmmAlloc(m).page /\ pmm' = PmmAlloc(m).pmm /\ AllocPanic(p) = "none" /\ panic = "none" /\ panic' = panic
  BY DEF TakesFrom
<1>2. p # NoPage /\ p # "fault"
  BY <1>1 DEF AllocPanic
<1> QED
  BY <1>1, <1>2, PmmAllocGood

-----------------------------------------------------------------------------
(* Steps of an alignment, and least elements *)

\* Page i is "a" pages times a whole number away from page k, upwards.
Steps(k, i, a) == \E q \in Nat : i = k + q * a

\* Division with remainder
LEMMA DivFacts ==
    ASSUME NEW n \in Nat, NEW a \in Nat \ {0}
    PROVE  /\ n \div a \in Nat /\ n % a \in 0 .. a - 1
           /\ n = a * (n \div a) + (n % a)
  OBVIOUS

\* Products with an alignment
LEMMA Products ==
    ASSUME NEW a \in Nat \ {0}, NEW q \in Int, NEW r \in Int
    PROVE  /\ q * a \in Int /\ a * q = q * a
           /\ (q + 1) * a = q * a + a
           /\ (q - 1) * a = q * a - a
           /\ q <= r => q * a <= r * a
           /\ q * a < r * a => q < r
           /\ 0 <= q => 0 <= q * a
<1>1. q * a \in Int /\ a * q = q * a /\ (q + 1) * a = q * a + a /\ (q - 1) * a = q * a - a
  OBVIOUS
<1>2. ASSUME q <= r PROVE q * a <= r * a
  BY <1>2
<1>3. ASSUME q * a < r * a PROVE q < r
  BY <1>3
<1>4. 0 <= q => 0 <= q * a
  OBVIOUS
<1> QED
  BY <1>1, <1>2, <1>3, <1>4

\* RoundUp gives the lowest multiple that is not below its argument.
LEMMA RoundUpFacts ==
    ASSUME NEW n \in Nat, NEW a \in Nat \ {0}
    PROVE  /\ RoundUp(n, a) \in Nat /\ n <= RoundUp(n, a) /\ RoundUp(n, a) < n + a
           /\ Steps(0, RoundUp(n, a), a)
           /\ \A j \in Nat : Steps(0, j, a) /\ n <= j => RoundUp(n, a) <= j
<1> DEFINE k == n + a - 1
<1>1. PICK r \in Nat, s \in 0 .. a - 1 : r = k \div a /\ k = a * r + s
  <2>1. k \in Nat
    OBVIOUS
  <2> HIDE DEF k
  <2> QED
    BY <2>1, DivFacts
<1>2. RoundUp(n, a) = r * a
  BY <1>1 DEF RoundUp
<1>3. r * a \in Nat /\ n <= r * a /\ r * a < n + a
  <2>1. r * a \in Nat /\ a * r = r * a
    BY Products
  <2>2. n + a - 1 = r * a + s
    BY <1>1, <2>1
  <2> HIDE DEF k
  <2> QED
    BY <2>1, <2>2
<1>4. ASSUME NEW j \in Nat, Steps(0, j, a), n <= j PROVE r * a <= j
  <2>1. PICK q \in Nat : j = 0 + q * a
    BY <1>4 DEF Steps
  <2>2. (r - 1) * a = r * a - a /\ r * a \in Int /\ q * a \in Int /\ j = q * a
    BY <2>1, Products
  <2>3. (r - 1) * a < q * a
    BY <1>3, <1>4, <2>2
  <2>4. r - 1 < q
    BY <2>3, Products
  <2>5. r <= q
    BY <2>4
  <2> QED
    BY <2>2, <2>5, Products
<1>5. Steps(0, r * a, a)
  BY <1>3 DEF Steps
<1> QED
  BY <1>2, <1>3, <1>4, <1>5

\* A multiple leaves no remainder.
LEMMA AlignedSteps ==
    ASSUME NEW i \in Nat, NEW a \in Nat \ {0}
    PROVE  i % a = 0 <=> Steps(0, i, a)
<1>1. ASSUME i % a = 0 PROVE Steps(0, i, a)
  <2>1. i \div a \in Nat /\ i = a * (i \div a) + 0
    BY <1>1, DivFacts
  <2>2. PICK q \in Nat : i = a * q + 0
    BY <2>1
  <2> QED
    BY <2>2, Products DEF Steps
<1>2. ASSUME Steps(0, i, a) PROVE i % a = 0
  <2>1. PICK q \in Nat : i = 0 + q * a
    BY <1>2 DEF Steps
  <2>2. PICK r \in Nat, s \in 0 .. a - 1 : s = i % a /\ i = a * r + s
    BY DivFacts
  <2>3. q * a = r * a + s /\ q * a \in Int /\ r * a \in Int /\ (r + 1) * a = r * a + a
    BY <2>1, <2>2, Products
  <2>4. r * a <= q * a /\ q * a < (r + 1) * a
    BY <2>3
  <2>5. q < r + 1
    BY <2>4, Products
  <2>6. CASE q < r
    <3>1. q + 1 <= r
      BY <2>6
    <3>2. (q + 1) * a <= r * a /\ (q + 1) * a = q * a + a
      BY <3>1, Products
    <3> QED
      BY <2>3, <2>4, <3>2
  <2>7. CASE q = r
    BY <2>3, <2>7, <2>2
  <2> QED
    BY <2>5, <2>6, <2>7
<1> QED
  BY <1>1, <1>2

\* A set of natural numbers has a smallest element.
LEMMA LeastOf ==
    ASSUME NEW S \in SUBSET Nat, S # {}
    PROVE  \E n \in S : \A k \in S : n <= k
<1>1. PICK n \in S : \A k \in S : ~(<<k, n>> \in OpToRel(<, Nat))
  BY NatLessThanWellFounded, WFMin, Zenon
<1>2. ASSUME NEW k \in S PROVE n <= k
  <2>1. n \in Nat /\ k \in Nat
    OBVIOUS
  <2>2. ~(k < n)
    BY <1>1, <2>1 DEF OpToRel
  <2> QED
    BY <2>1, <2>2
<1> QED
  BY <1>2

LeastIn(S) == CHOOSE j \in S : \A k \in S : j <= k

\* The least element of a set of natural numbers is one of it.
LEMMA LeastInFacts ==
    ASSUME NEW S \in SUBSET Nat, S # {}
    PROVE  LeastIn(S) \in S /\ \A k \in S : LeastIn(S) <= k
  BY LeastOf DEF LeastIn

\* There is no other.
LEMMA LeastInIs ==
    ASSUME NEW S \in SUBSET Nat, NEW n \in S, \A k \in S : n <= k
    PROVE  LeastIn(S) = n
<1>1. LeastIn(S) \in S /\ LeastIn(S) <= n
  BY LeastInFacts
<1>2. n <= LeastIn(S) /\ n \in Nat /\ LeastIn(S) \in Nat
  BY <1>1
<1> QED
  BY <1>1, <1>2

-----------------------------------------------------------------------------
(* The search of page_bitmap_alloc *)

\* The arguments of a search
SearchArgs(m, count, max, a) ==
    m \in Bitmap /\ count \in Nat \ {0} /\ max \in 0 .. LowAmount /\ a \in Nat \ {0}

\* Where the inner loop may end, and where it does
Halts(m, count, max, i) == {j \in i + 1 .. max : j = max \/ j - i = count \/ j \in m.reserved}
Halt(m, count, max, i) == CHOOSE j \in Halts(m, count, max, i) : \A k \in Halts(m, count, max, i) : j <= k
Hit(m, count, max, i) == Halt(m, count, max, i) < max /\ Halt(m, count, max, i) - i = count

\* One round of the outer loop, when f does the rest
Round(m, count, max, a, f, i) ==
    IF i >= max THEN NoPage
    ELSE IF i \in m.reserved THEN f[i + a]
    ELSE IF Halt(m, count, max, i) < max /\ Halt(m, count, max, i) - i = count THEN i
    ELSE f[RoundUp(Halt(m, count, max, i), a)]

SearchDomain(max, a) == 0 .. max + a
IsSearch(m, count, max, a, f) == f = [i \in SearchDomain(max, a) |-> Round(m, count, max, a, f, i)]

\* Where the inner loop of page_bitmap_alloc ends: at the limit, behind the pages
\* asked for or at a reserved page, and no page on the way is reserved.
LEMMA HaltFacts ==
    ASSUME NEW m, NEW count, NEW max, NEW a, SearchArgs(m, count, max, a), NEW i \in 0 .. max - 1
    PROVE  LET s == Halt(m, count, max, i)
           IN  /\ s \in i + 1 .. max
               /\ s = max \/ s = i + count \/ s \in m.reserved
               /\ s <= i + count
               /\ \A j \in i + 1 .. s - 1 : j \notin m.reserved
<1> DEFINE S == Halts(m, count, max, i)
           s == Halt(m, count, max, i)
<1>1. count \in Nat \ {0} /\ max \in Nat
  BY PageAssumption DEF SearchArgs
<1>2. S \in SUBSET Nat /\ max \in S
  BY <1>1 DEF Halts
<1>3. s = LeastIn(S)
  BY DEF Halt, LeastIn
<1> HIDE DEF s
<1>4. s \in S /\ \A k \in S : s <= k
  <2> HIDE DEF S
  <2> QED
    BY <1>2, <1>3, LeastInFacts
<1>5. s \in i + 1 .. max /\ (s = max \/ s - i = count \/ s \in m.reserved)
  BY <1>4 DEF Halts
<1>6. s <= i + count
  <2>1. CASE i + count <= max
    <3>1. i + count \in S
      BY <1>1, <2>1 DEF Halts
    <3> HIDE DEF S
    <3> QED
      BY <1>4, <3>1
  <2>2. CASE i + count > max
    BY <1>1, <1>5, <2>2
  <2> QED
    BY <1>1, <2>1, <2>2
<1>7. ASSUME NEW j \in i + 1 .. s - 1, j \in m.reserved PROVE FALSE
  <2>1. j \in S
    BY <1>1, <1>5, <1>7 DEF Halts
  <2>2. s <= j
    BY <1>4, <2>1
  <2> QED
    BY <1>1, <1>5, <2>2
<1> QED
  BY <1>1, <1>5, <1>6, <1>7 DEF s

\* Blocks that would do, from page i on, and what a search from there should return
Block(m, count, max, a, j) ==
    Steps(0, j, a) /\ j + count < max /\ \A k \in j .. j + count - 1 : k \notin m.reserved
Blocks(m, count, max, a, i) == {j \in Nat : i <= j /\ Block(m, count, max, a, j)}
LowestBlock(m, count, max, a, i) ==
    IF Blocks(m, count, max, a, i) = {} THEN NoPage ELSE LeastIn(Blocks(m, count, max, a, i))

\* The pages the loop reaches from page i on as long as pages are reserved, and the
\* first that is not
Opens(m, max, a, i) == {j \in Nat : Steps(i, j, a) /\ (j >= max \/ j \notin m.reserved)}
FirstOpen(m, max, a, i) == LeastIn(Opens(m, max, a, i))

\* There is such a page: stepping up ends at the limit.
LEMMA FirstOpenFacts ==
    ASSUME NEW m, NEW count, NEW max, NEW a, SearchArgs(m, count, max, a), NEW i \in Nat
    PROVE  LET k == FirstOpen(m, max, a, i)
           IN  /\ k \in Nat /\ Steps(i, k, a) /\ (k >= max \/ k \notin m.reserved)
               /\ \A j \in Nat : Steps(i, j, a) /\ (j >= max \/ j \notin m.reserved) => k <= j
<1> DEFINE S == Opens(m, max, a, i)
<1>1. max \in Nat /\ a \in Nat \ {0}
  BY PageAssumption DEF SearchArgs
<1>2. S \in SUBSET Nat
  BY DEF Opens
<1>3. i + max * a \in S
  <2>1. 1 <= a
    BY <1>1
  <2>2. max * a \in Nat /\ max <= max * a
    BY <1>1
  <2>3. i + max * a \in Nat /\ i + max * a >= max
    BY <2>2, <1>1
  <2>4. Steps(i, i + max * a, a)
    BY <1>1 DEF Steps
  <2> QED
    BY <2>3, <2>4 DEF Opens
<1> HIDE DEF S
<1>4. LeastIn(S) \in S /\ \A k \in S : LeastIn(S) <= k
  BY <1>2, <1>3, LeastInFacts
<1> QED
  BY <1>4 DEF FirstOpen, S, Opens

\* The place itself, when it is not reserved
LEMMA FirstOpenHere ==
    ASSUME NEW m, NEW count, NEW max, NEW a, SearchArgs(m, count, max, a), NEW i \in Nat,
           i >= max \/ i \notin m.reserved
    PROVE  FirstOpen(m, max, a, i) = i
<1> DEFINE k == FirstOpen(m, max, a, i)
<1>1. a \in Nat \ {0}
  BY DEF SearchArgs
<1>2. Steps(i, i, a)
  <2>1. i = i + 0 * a /\ 0 \in Nat
    BY <1>1
  <2> QED
    BY <2>1 DEF Steps
<1>3. k \in Nat /\ Steps(i, k, a) /\ k <= i
  BY <1>2, FirstOpenFacts
<1> HIDE DEF k
<1>4. PICK q \in Nat : k = i + q * a
  BY <1>3 DEF Steps
<1>5. 0 <= q * a /\ q * a \in Int
  BY <1>1, Products
<1>6. k = i
  BY <1>3, <1>4, <1>5
<1> QED
  BY <1>6 DEF k

\* The next one, when it is
LEMMA FirstOpenNext ==
    ASSUME NEW m, NEW count, NEW max, NEW a, SearchArgs(m, count, max, a), NEW i \in Nat,
           i < max, i \in m.reserved
    PROVE  FirstOpen(m, max, a, i) = FirstOpen(m, max, a, i + a)
<1>1. max \in Nat /\ a \in Nat \ {0}
  BY PageAssumption DEF SearchArgs
<1>2. ASSUME NEW j \in Nat, Steps(i + a, j, a) PROVE Steps(i, j, a)
  <2>1. PICK q \in Nat : j = i + a + q * a
    BY <1>2 DEF Steps
  <2>2. (q + 1) * a = q * a + a /\ q * a \in Int
    BY <1>1, Products
  <2>3. j = i + (q + 1) * a /\ q + 1 \in Nat
    BY <2>1, <2>2, <1>1
  <2> QED
    BY <2>3 DEF Steps
<1>3. ASSUME NEW j \in Nat, Steps(i, j, a), j # i PROVE Steps(i + a, j, a)
  <2>1. PICK q \in Nat : j = i + q * a
    BY <1>3 DEF Steps
  <2>2. q # 0
    BY <2>1, <1>1, <1>3
  <2>3. (q - 1) * a = q * a - a /\ q * a \in Int /\ q - 1 \in Nat
    BY <1>1, <2>2, Products
  <2>4. j = i + a + (q - 1) * a
    BY <2>1, <2>3, <1>1
  <2> QED
    BY <2>3, <2>4 DEF Steps
<1>4. Opens(m, max, a, i) = Opens(m, max, a, i + a)
  <2>1. ASSUME NEW j \in Opens(m, max, a, i) PROVE j \in Opens(m, max, a, i + a)
    <3>1. j \in Nat /\ Steps(i, j, a) /\ (j >= max \/ j \notin m.reserved)
      BY DEF Opens
    <3>2. j # i
      BY <3>1, <1>1
    <3> QED
      BY <3>1, <3>2, <1>3 DEF Opens
  <2>2. ASSUME NEW j \in Opens(m, max, a, i + a) PROVE j \in Opens(m, max, a, i)
    BY <1>2 DEF Opens
  <2> QED
    BY <2>1, <2>2
<1> QED
  BY <1>4 DEF FirstOpen

\* What the search returns from a page on that is not reserved
Ends(m, count, max, a, k) ==
    IF k >= max THEN NoPage
    ELSE IF Hit(m, count, max, k) THEN k
    ELSE LowestBlock(m, count, max, a, RoundUp(Halt(m, count, max, k), a))

\* Multiples of the alignment are a multiple of it apart.
LEMMA StepsBetween ==
    ASSUME NEW a \in Nat \ {0}, NEW x \in Nat, NEW j \in Nat, Steps(0, x, a), Steps(0, j, a), x <= j
    PROVE  Steps(x, j, a)
<1>1. PICK q \in Nat : x = 0 + q * a
  BY DEF Steps
<1>2. PICK r \in Nat : j = 0 + r * a
  BY DEF Steps
<1>3. q * a \in Int /\ r * a \in Int /\ q * a <= r * a
  BY <1>1, <1>2, Products
<1>4. CASE q <= r
  <2>1. (r - q) * a = r * a - q * a /\ r - q \in Nat
    BY <1>4
  <2>2. j = x + (r - q) * a
    BY <1>1, <1>2, <1>3, <2>1
  <2> QED
    BY <2>1, <2>2 DEF Steps
<1>5. CASE r < q
  <2>1. r * a <= q * a
    BY <1>5, Products
  <2>2. j = x + 0 * a
    BY <1>1, <1>2, <1>3, <2>1
  <2> QED
    BY <2>2 DEF Steps
<1> QED
  BY <1>4, <1>5

\* And what is a multiple of it above a multiple is one.
LEMMA StepsFurther ==
    ASSUME NEW a \in Nat \ {0}, NEW x \in Nat, NEW j \in Nat, Steps(0, x, a), Steps(x, j, a)
    PROVE  Steps(0, j, a) /\ x <= j
<1>1. PICK q \in Nat : x = 0 + q * a
  BY DEF Steps
<1>2. PICK r \in Nat : j = x + r * a
  BY DEF Steps
<1>3. q * a \in Int /\ r * a \in Int /\ 0 <= r * a
  BY Products
<1>4. (q + r) * a = q * a + r * a /\ q + r \in Nat
  OBVIOUS
<1>5. j = 0 + (q + r) * a
  BY <1>1, <1>2, <1>3, <1>4
<1>6. Steps(0, j, a)
  BY <1>4, <1>5 DEF Steps
<1>7. x <= j
  BY <1>2, <1>3
<1> QED
  BY <1>6, <1>7

\* From an aligned page on the search returns the lowest block: what it steps over
\* is reserved, too short or too close to the limit, or not aligned.
LEMMA AlignedLowest ==
    ASSUME NEW m, NEW count, NEW max, NEW a, SearchArgs(m, count, max, a), NEW x \in Nat, Steps(0, x, a)
    PROVE  Ends(m, count, max, a, FirstOpen(m, max, a, x)) = LowestBlock(m, count, max, a, x)
<1> DEFINE k == FirstOpen(m, max, a, x)
           B(i) == Blocks(m, count, max, a, i)
           s == Halt(m, count, max, k)
<1>1. max \in Nat /\ a \in Nat \ {0} /\ count \in Nat \ {0}
  BY PageAssumption DEF SearchArgs
<1>2. k \in Nat /\ Steps(x, k, a) /\ (k >= max \/ k \notin m.reserved)
      /\ \A j \in Nat : Steps(x, j, a) /\ (j >= max \/ j \notin m.reserved) => k <= j
  BY FirstOpenFacts
<1>3. Steps(0, k, a) /\ x <= k
  BY <1>1, <1>2, StepsFurther
<1> HIDE DEF k
<1>4. ASSUME NEW j \in B(x)
      PROVE  j \in Nat /\ x <= j /\ Steps(0, j, a) /\ j + count < max /\ k <= j
             /\ \A l \in j .. j + count - 1 : l \notin m.reserved
  <2>1. j \in Nat /\ x <= j /\ Steps(0, j, a) /\ j + count < max
        /\ \A l \in j .. j + count - 1 : l \notin m.reserved
    BY DEF Blocks, Block
  <2>2. j \in j .. j + count - 1
    BY <2>1, <1>1
  <2>3. Steps(x, j, a)
    BY <2>1, <1>1, StepsBetween
  <2> QED
    BY <1>2, <2>1, <2>2, <2>3
<1>5. CASE k >= max
  <2>1. B(x) = {}
    <3> SUFFICES ASSUME NEW j \in B(x) PROVE FALSE
      OBVIOUS
    <3> QED
      BY <1>1, <1>2, <1>4, <1>5
  <2> QED
    BY <1>5, <2>1 DEF Ends, LowestBlock, k
<1>6. CASE k < max
  <2>1. k \in 0 .. max - 1
    BY <1>1, <1>2, <1>6
  <2>2. /\ s \in k + 1 .. max
        /\ s = max \/ s = k + count \/ s \in m.reserved
        /\ s <= k + count
        /\ \A j \in k + 1 .. s - 1 : j \notin m.reserved
    BY <2>1, HaltFacts
  <2>3. k \notin m.reserved
    BY <1>1, <1>2, <1>6
  <2>4. Hit(m, count, max, k) <=> s < max /\ s - k = count
    BY DEF Hit
  <2> DEFINE up == RoundUp(s, a)
  <2>5. Ends(m, count, max, a, k) = IF Hit(m, count, max, k) THEN k ELSE LowestBlock(m, count, max, a, up)
    BY <1>1, <1>2, <1>6 DEF Ends
  <2> HIDE DEF s
  <2>6. CASE Hit(m, count, max, k)
    <3>1. s < max /\ s = k + count
      BY <2>2, <2>4, <2>6, <1>1, <1>2
    <3>2. \A l \in k .. k + count - 1 : l \notin m.reserved
      BY <2>2, <2>3, <3>1, <1>1, <1>2
    <3>3. k \in B(x)
      BY <1>2, <1>3, <3>1, <3>2 DEF Blocks, Block
    <3>4. B(x) \in SUBSET Nat /\ \A j \in B(x) : k <= j
      BY <1>4
    <3> HIDE DEF B
    <3>5. LeastIn(B(x)) = k
      BY <3>3, <3>4, LeastInIs
    <3>6. LowestBlock(m, count, max, a, x) = k
      BY <3>3, <3>5 DEF B, LowestBlock
    <3> QED
      BY <2>5, <2>6, <3>6 DEF k
  <2>7. CASE ~Hit(m, count, max, k)
    <3>1. s = max \/ (s \in m.reserved /\ s < k + count)
      BY <2>2, <2>4, <2>7, <1>1, <1>2
    <3>2. s \in Nat /\ up \in Nat /\ s <= up /\ \A j \in Nat : Steps(0, j, a) /\ s <= j => up <= j
      <4>1. s \in Nat
        BY <1>1, <1>2, <2>2
      <4> QED
        BY <1>1, <4>1, RoundUpFacts
    <3> HIDE DEF up
    <3>3. ASSUME NEW j \in B(x) PROVE up <= j
      <4>1. j \in Nat /\ k <= j /\ j + count < max /\ \A l \in j .. j + count - 1 : l \notin m.reserved
        BY <1>4
      <4>2. s <= j
        <5> SUFFICES ASSUME j < s PROVE FALSE
          BY <3>2, <4>1
        <5>1. CASE s = max
          BY <1>1, <1>2, <2>2, <4>1, <5>1
        <5>2. CASE s \in m.reserved /\ s < k + count
          <6>1. s \in j .. j + count - 1
            BY <1>1, <1>2, <3>2, <4>1, <5>2
          <6> QED
            BY <4>1, <5>2, <6>1
        <5> QED
          BY <3>1, <5>1, <5>2
      <4> QED
        BY <1>4, <3>2, <4>2
    <3>4. x <= up
      BY <1>2, <1>3, <2>2, <3>2, <1>1
    <3>5. B(x) = B(up)
      <4>1. ASSUME NEW j \in B(x) PROVE j \in B(up)
        BY <3>3 DEF Blocks
      <4>2. ASSUME NEW j \in B(up) PROVE j \in B(x)
        <5>1. j \in Nat /\ up <= j /\ Block(m, count, max, a, j)
          BY DEF Blocks
        <5>2. x <= j
          BY <3>2, <3>4, <5>1
        <5> QED
          BY <5>1, <5>2 DEF Blocks
      <4> QED
        BY <4>1, <4>2
    <3>6. LowestBlock(m, count, max, a, x) = LowestBlock(m, count, max, a, up)
      BY <3>5 DEF LowestBlock
    <3> QED
      BY <2>5, <2>7, <3>6 DEF k
  <2> QED
    BY <2>6, <2>7
<1> QED
  BY <1>1, <1>2, <1>5, <1>6

\* The function that solves the equation of the search
Solution(m, count, max, a) ==
    [i \in SearchDomain(max, a) |-> Ends(m, count, max, a, FirstOpen(m, max, a, i))]

\* It does: one round gives the same as the rounds after it.
LEMMA SolutionSolves ==
    ASSUME NEW m, NEW count, NEW max, NEW a, SearchArgs(m, count, max, a)
    PROVE  \A i \in SearchDomain(max, a) :
              Solution(m, count, max, a)[i] = Round(m, count, max, a, Solution(m, count, max, a), i)
<1> DEFINE L == Solution(m, count, max, a)
           D == SearchDomain(max, a)
<1>1. max \in Nat /\ a \in Nat \ {0} /\ count \in Nat \ {0}
  BY PageAssumption DEF SearchArgs
<1>2. \A j \in D : j \in Nat /\ L[j] = Ends(m, count, max, a, FirstOpen(m, max, a, j))
  BY <1>1 DEF SearchDomain, Solution
<1> HIDE DEF L
<1>3. ASSUME NEW i \in D PROVE L[i] = Round(m, count, max, a, L, i)
  <2>1. i \in Nat
    BY <1>2
  <2>2. CASE i >= max
    <3>1. FirstOpen(m, max, a, i) = i
      BY <2>1, <2>2, FirstOpenHere
    <3> QED
      BY <1>2, <2>2, <3>1 DEF Ends, Round
  <2>3. CASE i < max /\ i \in m.reserved
    <3>1. FirstOpen(m, max, a, i) = FirstOpen(m, max, a, i + a)
      BY <2>1, <2>3, FirstOpenNext
    <3>2. i + a \in D
      BY <1>1, <2>1, <2>3 DEF SearchDomain
    <3>3. L[i] = L[i + a]
      BY <1>2, <3>1, <3>2
    <3> QED
      BY <2>1, <2>3, <3>3, <1>1 DEF Round
  <2>4. CASE i < max /\ i \notin m.reserved
    <3> DEFINE s == Halt(m, count, max, i)
               up == RoundUp(s, a)
    <3>1. FirstOpen(m, max, a, i) = i
      BY <2>1, <2>4, FirstOpenHere
    <3>2. L[i] = IF Hit(m, count, max, i) THEN i ELSE LowestBlock(m, count, max, a, up)
      BY <1>1, <1>2, <2>1, <2>4, <3>1 DEF Ends
    <3>3. Round(m, count, max, a, L, i) = IF Hit(m, count, max, i) THEN i ELSE L[up]
      BY <1>1, <2>1, <2>4 DEF Round, Hit
    <3>4. s \in Nat /\ s <= max
      <4>1. i \in 0 .. max - 1
        BY <1>1, <2>1, <2>4
      <4>2. s \in i + 1 .. max
        BY <4>1, HaltFacts
      <4> QED
        BY <1>1, <2>1, <4>2
    <3> HIDE DEF s
    <3>5. up \in Nat /\ up < s + a /\ Steps(0, up, a)
      BY <1>1, <3>4, RoundUpFacts
    <3>6. up \in D
      BY <1>1, <3>4, <3>5 DEF SearchDomain
    <3>7. L[up] = LowestBlock(m, count, max, a, up)
      BY <1>2, <3>5, <3>6, AlignedLowest
    <3> QED
      BY <3>2, <3>3, <3>7
  <2> QED
    BY <1>1, <2>1, <2>2, <2>3, <2>4
<1> QED
  BY <1>3 DEF L

\* The equation of the search has one solution, since every round looks further up.
LEMMA SearchUnique ==
    ASSUME NEW m, NEW count, NEW max, NEW a, SearchArgs(m, count, max, a),
           NEW f, NEW g,
           \A i \in SearchDomain(max, a) : f[i] = Round(m, count, max, a, f, i),
           \A i \in SearchDomain(max, a) : g[i] = Round(m, count, max, a, g, i)
    PROVE  \A i \in SearchDomain(max, a) : f[i] = g[i]
<1> DEFINE D == SearchDomain(max, a)
           Wrong == {d \in Nat : d <= max + a /\ f[max + a - d] # g[max + a - d]}
<1>1. max \in Nat /\ a \in Nat \ {0} /\ count \in Nat \ {0} /\ max + a \in Nat
  BY PageAssumption DEF SearchArgs
<1>2. ASSUME NEW i \in D, \A j \in D : i < j => f[j] = g[j] PROVE f[i] = g[i]
  <2>0. i \in Nat
    BY <1>1 DEF SearchDomain
  <2>1. f[i] = Round(m, count, max, a, f, i) /\ g[i] = Round(m, count, max, a, g, i)
    OBVIOUS
  <2>2. CASE i >= max
    BY <2>1, <2>2 DEF Round
  <2>3. CASE i < max
    <3> DEFINE s == Halt(m, count, max, i)
               up == RoundUp(s, a)
    <3>1. i + a \in D /\ i < i + a
      BY <1>1, <2>0, <2>3 DEF SearchDomain
    <3>2. s \in Nat /\ i < s /\ s <= max
      <4>1. i \in 0 .. max - 1
        BY <1>1, <2>0, <2>3
      <4>2. s \in i + 1 .. max
        BY <4>1, HaltFacts
      <4> QED
        BY <1>1, <2>0, <4>2
    <3> HIDE DEF s
    <3>3. up \in Nat /\ s <= up /\ up < s + a
      BY <1>1, <3>2, RoundUpFacts
    <3>4. up \in D /\ i < up
      BY <1>1, <2>0, <3>2, <3>3 DEF SearchDomain
    <3>5. f[i + a] = g[i + a] /\ f[up] = g[up]
      BY <1>2, <3>1, <3>4
    <3>6. Round(m, count, max, a, f, i) = Round(m, count, max, a, g, i)
      BY <3>5 DEF Round, s
    <3> QED
      BY <2>1, <3>6
  <2> QED
    BY <1>1, <2>0, <2>2, <2>3
<1>3. Wrong = {}
  <2> SUFFICES ASSUME Wrong # {} PROVE FALSE
    OBVIOUS
  <2>1. PICK d \in Wrong : \A e \in Wrong : d <= e
    BY LeastOf
  <2>2. d \in Nat /\ d <= max + a /\ f[max + a - d] # g[max + a - d]
    OBVIOUS
  <2>3. max + a - d \in D
    BY <1>1, <2>2 DEF SearchDomain
  <2>4. PICK j \in D : max + a - d < j /\ f[j] # g[j]
    BY <1>2, <2>2, <2>3
  <2>5. j \in Nat /\ j <= max + a
    BY <1>1, <2>4 DEF SearchDomain
  <2> DEFINE e == max + a - j
  <2>6. e \in Nat /\ e <= max + a /\ max + a - e = j /\ e < d
    BY <1>1, <2>2, <2>4, <2>5
  <2>7. e \in Wrong
    <3> HIDE DEF e
    <3> QED
      BY <2>4, <2>6
  <2> HIDE DEF Wrong, e
  <2> QED
    BY <2>1, <2>2, <2>6, <2>7
<1>4. ASSUME NEW i \in D PROVE f[i] = g[i]
  <2> DEFINE d == max + a - i
  <2>1. d \in Nat /\ d <= max + a /\ max + a - d = i
    BY <1>1 DEF SearchDomain
  <2> HIDE DEF d
  <2> QED
    BY <1>3, <2>1
<1> QED
  BY <1>4

\* The search, solved
LEMMA BitmapFindSolved ==
    ASSUME NEW m, NEW count, NEW max, NEW a, SearchArgs(m, count, max, a), m.firstFreeIndex <= max
    PROVE  BitmapFind(m, count, max, a) = Ends(m, count, max, a, FirstOpen(m, max, a, m.firstFreeIndex))
<1> DEFINE search == CHOOSE f : IsSearch(m, count, max, a, f)
           L == Solution(m, count, max, a)
           D == SearchDomain(max, a)
<1>1. BitmapFind(m, count, max, a) = search[m.firstFreeIndex]
  BY DEF BitmapFind, IsSearch, SearchDomain, Round, Halt, Halts
<1>2. IsSearch(m, count, max, a, L)
  <2>1. L = [i \in D |-> L[i]]
    BY DEF Solution
  <2> HIDE DEF L
  <2>2. [i \in D |-> L[i]] = [i \in D |-> Round(m, count, max, a, L, i)]
    BY SolutionSolves DEF L
  <2> QED
    BY <2>1, <2>2 DEF IsSearch
<1>3. IsSearch(m, count, max, a, search)
  BY <1>2
<1> HIDE DEF search
<1>4. \A i \in D : search[i] = Round(m, count, max, a, search, i)
  BY <1>3 DEF IsSearch
<1>5. m.firstFreeIndex \in D
  BY PageAssumption DEF SearchArgs, Bitmap, SearchDomain
<1>6. search[m.firstFreeIndex] = L[m.firstFreeIndex]
  BY <1>4, <1>5, SolutionSolves, SearchUnique
<1>7. L[m.firstFreeIndex] = Ends(m, count, max, a, FirstOpen(m, max, a, m.firstFreeIndex))
  BY <1>5 DEF Solution
<1> QED
  BY <1>1, <1>6, <1>7

\* page_bitmap_alloc of one page finds one that is not reserved.
LEMMA BitmapFindsFree ==
    ASSUME NEW m \in Bitmap, NEW root \in LowPage, root = BitmapFind(m, 1, LowAmount, 1)
    PROVE  root \notin m.reserved
<1> DEFINE i == m.firstFreeIndex
           B == Blocks(m, 1, LowAmount, 1, i)
<1>1. SearchArgs(m, 1, LowAmount, 1) /\ i \in Nat /\ i <= LowAmount
  BY PageAssumption DEF SearchArgs, Bitmap
<1>2. Steps(0, i, 1)
  <2> HIDE DEF i
  <2>1. i = 0 + i * 1
    BY <1>1
  <2> QED
    BY <1>1, <2>1 DEF Steps
<1>3. root = LowestBlock(m, 1, LowAmount, 1, i)
  BY <1>1, <1>2, BitmapFindSolved, AlignedLowest
<1>4. root # NoPage
  BY PmmNoneAssumption DEF Page
<1>5. root \in B
  <2>1. B \in SUBSET Nat
    BY DEF Blocks
  <2> QED
    BY <1>3, <1>4, <2>1, LeastInFacts DEF LowestBlock
<1>6. \A k \in root .. root + 1 - 1 : k \notin m.reserved
  BY <1>5 DEF Blocks, Block
<1>7. root \in root .. root + 1 - 1
  BY PageAssumption DEF LowPage
<1> QED
  BY <1>6, <1>7

-----------------------------------------------------------------------------
(* Slots *)

\* Page p moves, to one place at most, and nothing else arrives anywhere.
Moves(use, free, own, map, use2, free2, own2, map2, p) ==
    /\ \A x \in Slot : use2[x] = use[x] \/ use2[x] \notin Page \/ use2[x] = p
    /\ free2 \subseteq free \cup {p} /\ own2 \subseteq own \cup {p} /\ map2 \subseteq map \cup {p}
    /\ \A x, y \in Slot : use2[x] = p /\ use2[y] = p => x = y
    /\ \A x \in Slot : use2[x] = p => p \notin free2 \cup own2 \cup map2
    /\ ~(p \in free2 /\ p \in own2) /\ ~(p \in free2 /\ p \in map2) /\ ~(p \in own2 /\ p \in map2)

LEMMA SoleMoves ==
    ASSUME NEW use, NEW free \in SUBSET Page, NEW own \in SUBSET Page, NEW map \in SUBSET Page,
           NEW use2, NEW free2 \in SUBSET Page, NEW own2 \in SUBSET Page, NEW map2 \in SUBSET Page,
           NEW p, Sole(use, free, own, map), Moves(use, free, own, map, use2, free2, own2, map2, p)
    PROVE  Sole(use2, free2, own2, map2)
<1>1. \A x, y \in Slot : use2[x] = use2[y] /\ use2[x] \in Page => x = y
  <2> SUFFICES ASSUME NEW x \in Slot, NEW y \in Slot, use2[x] = use2[y], use2[x] \in Page PROVE x = y
    OBVIOUS
  <2>1. CASE use2[x] = p
    BY <2>1 DEF Moves
  <2>2. CASE use2[x] # p
    <3>1. use2[x] = use[x] /\ use2[y] = use[y]
      BY <2>2 DEF Moves
    <3> QED
      BY <3>1 DEF Sole
  <2> QED
    BY <2>1, <2>2
<1>2. \A x \in Slot : use2[x] \notin free2 \cup own2 \cup map2
  <2> SUFFICES ASSUME NEW x \in Slot, use2[x] \in free2 \cup own2 \cup map2 PROVE FALSE
    OBVIOUS
  <2>1. use2[x] \in Page /\ use2[x] # p
    BY DEF Moves
  <2>2. use2[x] = use[x] /\ use[x] \in free \cup own \cup map
    BY <2>1 DEF Moves
  <2> QED
    BY <2>2 DEF Sole
<1>3. free2 \cap own2 = {} /\ free2 \cap map2 = {} /\ own2 \cap map2 = {}
  BY DEF Sole, Moves
<1> QED
  BY <1>1, <1>2, <1>3 DEF Sole

SlotsRead ==
    /\ \A s \in Space : /\ <<"pml", s, 0>> \in Slot /\ Use[<<"pml", s, 0>>] = space[s].pml
                        /\ <<"hand", s, 0>> \in Slot /\ Use[<<"hand", s, 0>>] = space[s].hand
    /\ \A s \in Space, t \in Table :
        <<"table", s, t>> \in Slot /\ Use[<<"table", s, t>>] = space[s].tables[t]
    /\ \A s \in Space, v \in Virt :
        <<"entry of", s, v>> \in Slot /\ Use[<<"entry of", s, v>>] = space[s].entries[v].page
    /\ <<"kernelPml", 0, 0>> \in Slot /\ Use[<<"kernelPml", 0, 0>>] = kernelPml.pml
    /\ <<"kernelPml", 0, 1>> \in Slot /\ Use[<<"kernelPml", 0, 1>>] = kernelPml.table

LEMMA SlotRead == SlotsRead
<1>1. \A x \in Slot : Use[x] = SlotPage(x)
  BY Zenon DEF Use
<1>2. \A s \in Space : <<"pml", s, 0>> \in Slot /\ <<"hand", s, 0>> \in Slot
  BY DEF Slot, SlotsOf
<1>3. \A s \in Space, t \in Table : <<"table", s, t>> \in Slot
  BY DEF Slot, SlotsOf
<1>4. \A s \in Space, v \in Virt : <<"entry of", s, v>> \in Slot
  <2>1. \A s \in Space, v \in Virt : <<"entry of", s, v>> \in SlotsOf(s)
    BY DEF SlotsOf
  <2> QED
    BY <2>1 DEF Slot
<1>5. <<"kernelPml", 0, 0>> \in Slot /\ <<"kernelPml", 0, 1>> \in Slot
  BY DEF Slot, RootSlots
<1>6. \A s \in Space : SlotPage(<<"pml", s, 0>>) = space[s].pml /\ SlotPage(<<"hand", s, 0>>) = space[s].hand
  BY DEF SlotPage
<1>7. \A s \in Space, t \in Table : SlotPage(<<"table", s, t>>) = space[s].tables[t]
  BY DEF SlotPage
<1>8. \A s \in Space, v \in Virt : SlotPage(<<"entry of", s, v>>) = space[s].entries[v].page
  BY DEF SlotPage
<1>9. SlotPage(<<"kernelPml", 0, 0>>) = kernelPml.pml /\ SlotPage(<<"kernelPml", 0, 1>>) = kernelPml.table
  BY DEF SlotPage
<1> QED
  BY <1>1, <1>2, <1>3, <1>4, <1>5, <1>6, <1>7, <1>8, <1>9 DEF SlotsRead

LEMMA SlotCases ==
    /\ \A x \in Slot : x \in RootSlots \/ \E s \in Space : x \in SlotsOf(s)
    /\ \A s \in Space : SlotsOf(s) \subseteq Slot
  BY DEF Slot

LEMMA SlotReadNext == SlotsRead'
  BY SlotRead, PTL

\* A space that a step leaves alone keeps its slots.
LEMMA SpaceKeeps ==
    ASSUME NEW u \in Space, space'[u] = space[u], NEW x \in SlotsOf(u)
    PROVE  Use'[x] = Use[x]
<1>1. CASE x = <<"pml", u, 0>>
  <2>1. Use'[<<"pml", u, 0>>] = space'[u].pml /\ Use[<<"pml", u, 0>>] = space[u].pml
    BY SlotRead, SlotReadNext DEF SlotsRead
  <2> QED
    BY <1>1, <2>1
<1>2. CASE x = <<"hand", u, 0>>
  <2>1. Use'[<<"hand", u, 0>>] = space'[u].hand /\ Use[<<"hand", u, 0>>] = space[u].hand
    BY SlotRead, SlotReadNext DEF SlotsRead
  <2> QED
    BY <1>2, <2>1
<1>3. ASSUME NEW t \in Table, x = <<"table", u, t>> PROVE Use'[x] = Use[x]
  <2>1. Use'[<<"table", u, t>>] = space'[u].tables[t] /\ Use[<<"table", u, t>>] = space[u].tables[t]
    BY SlotRead, SlotReadNext DEF SlotsRead
  <2> QED
    BY <1>3, <2>1
<1>4. ASSUME NEW v \in Virt, x = <<"entry of", u, v>> PROVE Use'[x] = Use[x]
  <2>1. /\ Use'[<<"entry of", u, v>>] = space'[u].entries[v].page
        /\ Use[<<"entry of", u, v>>] = space[u].entries[v].page
    BY SlotRead, SlotReadNext DEF SlotsRead
  <2> QED
    BY <1>4, <2>1
<1> QED
  BY <1>1, <1>2, <1>3, <1>4 DEF SlotsOf

\* Spaces that a step leaves alone keep their slots.
LEMMA OtherSlots ==
    ASSUME NEW s \in Space, kernelPml' = kernelPml, \A u \in Space : u # s => space'[u] = space[u]
    PROVE  \A x \in Slot : x \notin SlotsOf(s) => Use'[x] = Use[x]
<1> SUFFICES ASSUME NEW x \in Slot, x \notin SlotsOf(s) PROVE Use'[x] = Use[x]
  OBVIOUS
<1>1. CASE x \in RootSlots
  <2>1. x = <<"kernelPml", 0, 0>> \/ x = <<"kernelPml", 0, 1>>
    BY <1>1 DEF RootSlots
  <2>2. /\ Use'[<<"kernelPml", 0, 0>>] = kernelPml'.pml /\ Use[<<"kernelPml", 0, 0>>] = kernelPml.pml
        /\ Use'[<<"kernelPml", 0, 1>>] = kernelPml'.table /\ Use[<<"kernelPml", 0, 1>>] = kernelPml.table
    BY SlotRead, SlotReadNext DEF SlotsRead
  <2> QED
    BY <2>1, <2>2
<1>2. ASSUME NEW u \in Space, x \in SlotsOf(u) PROVE Use'[x] = Use[x]
  <2>1. space'[u] = space[u]
    BY <1>2
  <2> QED
    BY <1>2, <2>1, SpaceKeeps
<1> QED
  BY <1>1, <1>2, SlotCases

\* Slot k gets q; elsewhere nothing changes, or what was no page is still none.
SlotStep(k, q) ==
    /\ k \in Slot /\ Use'[k] = q
    /\ \A x \in Slot : x # k => Use'[x] = Use[x] \/ (Use'[x] \notin Page /\ Use[x] \notin Page)

SameOrNone(a, b) == a = b \/ (a \notin Page /\ b \notin Page)

\* The parts of one space: all slots but those of K keep their page, or have none.
LEMMA SpaceSlots ==
    ASSUME NEW s \in Space, kernelPml' = kernelPml, \A u \in Space : u # s => space'[u] = space[u], NEW K,
           <<"pml", s, 0>> \notin K => SameOrNone(space'[s].pml, space[s].pml),
           <<"hand", s, 0>> \notin K => SameOrNone(space'[s].hand, space[s].hand),
           \A t \in Table : <<"table", s, t>> \notin K => SameOrNone(space'[s].tables[t], space[s].tables[t]),
           \A v \in Virt : <<"entry of", s, v>> \notin K =>
                SameOrNone(space'[s].entries[v].page, space[s].entries[v].page)
    PROVE  \A x \in Slot : x \notin K => SameOrNone(Use'[x], Use[x])
<1> SUFFICES ASSUME NEW x \in Slot, x \notin K PROVE SameOrNone(Use'[x], Use[x])
  OBVIOUS
<1>1. CASE x \notin SlotsOf(s)
  BY <1>1, OtherSlots DEF SameOrNone
<1>2. CASE x = <<"pml", s, 0>>
  BY <1>2, SlotRead, SlotReadNext DEF SlotsRead
<1>3. CASE x = <<"hand", s, 0>>
  BY <1>3, SlotRead, SlotReadNext DEF SlotsRead
<1>4. ASSUME NEW t \in Table, x = <<"table", s, t>> PROVE SameOrNone(Use'[x], Use[x])
  <2>1. Use'[<<"table", s, t>>] = space'[s].tables[t] /\ Use[<<"table", s, t>>] = space[s].tables[t]
    BY SlotRead, SlotReadNext DEF SlotsRead
  <2> QED
    BY <1>4, <2>1
<1>5. ASSUME NEW v \in Virt, x = <<"entry of", s, v>> PROVE SameOrNone(Use'[x], Use[x])
  <2>1. /\ Use'[<<"entry of", s, v>>] = space'[s].entries[v].page
        /\ Use[<<"entry of", s, v>>] = space[s].entries[v].page
    BY SlotRead, SlotReadNext DEF SlotsRead
  <2> QED
    BY <1>5, <2>1
<1> QED
  BY <1>1, <1>2, <1>3, <1>4, <1>5 DEF SlotsOf

\* The same with one slot in K
LEMMA SpaceSlotStep ==
    ASSUME NEW s \in Space, kernelPml' = kernelPml, \A u \in Space : u # s => space'[u] = space[u],
           NEW k \in SlotsOf(s), k \in Slot, NEW q, Use'[k] = q,
           k # <<"pml", s, 0>> => SameOrNone(space'[s].pml, space[s].pml),
           k # <<"hand", s, 0>> => SameOrNone(space'[s].hand, space[s].hand),
           \A t \in Table : k # <<"table", s, t>> => SameOrNone(space'[s].tables[t], space[s].tables[t]),
           \A v \in Virt : k # <<"entry of", s, v>> =>
                SameOrNone(space'[s].entries[v].page, space[s].entries[v].page)
    PROVE  SlotStep(k, q)
<1>1. \A x : x \notin {k} <=> k # x
  OBVIOUS
<1>2. /\ <<"pml", s, 0>> \notin {k} => SameOrNone(space'[s].pml, space[s].pml)
      /\ <<"hand", s, 0>> \notin {k} => SameOrNone(space'[s].hand, space[s].hand)
  BY <1>1
<1>3. \A t \in Table : <<"table", s, t>> \notin {k} => SameOrNone(space'[s].tables[t], space[s].tables[t])
  BY <1>1
<1>4. \A v \in Virt : <<"entry of", s, v>> \notin {k} =>
                SameOrNone(space'[s].entries[v].page, space[s].entries[v].page)
  BY <1>1
<1>5. \A x \in Slot : x \notin {k} => SameOrNone(Use'[x], Use[x])
  BY <1>2, <1>3, <1>4, SpaceSlots
<1> QED
  BY <1>1, <1>5 DEF SlotStep, SameOrNone

UsedPages == FreePages(pmm) \cup kernel \cup memoryMap \cup {p \in Page : \E x \in Slot : Use[x] = p}

\* What every action keeps; lost are the pages it may lose.
PagesStep(lost) == PmmGood(pmm') /\ SolePages' /\ UsedPages \subseteq UsedPages' \cup lost

PagesNow == PmmGood(pmm) /\ SolePages /\ kernel \subseteq Page /\ memoryMap \subseteq Page

\* The steps that move no page
LEMMA StillStep ==
    ASSUME PagesNow, pmm' = pmm, kernel' = kernel, memoryMap' = memoryMap,
           \A x \in Slot : SameOrNone(Use'[x], Use[x])
    PROVE  PagesStep({})
<1>0. /\ FreePages(pmm) \subseteq Page /\ FreePages(pmm') = FreePages(pmm) /\ PmmGood(pmm')
      /\ kernel \subseteq Page /\ memoryMap \subseteq Page
  BY PmmTypes DEF PagesNow
<1>1. \A x, y \in Slot : Use'[x] = Use'[y] /\ Use'[x] \in Page => x = y
  BY DEF PagesNow, SolePages, Sole, SameOrNone
<1>2. SolePages'
  <2>1. \A x \in Slot : Use'[x] \notin FreePages(pmm) \cup kernel \cup memoryMap
    BY <1>0 DEF PagesNow, SolePages, Sole, SameOrNone
  <2> QED
    BY <1>0, <1>1, <2>1 DEF PagesNow, SolePages, Sole
<1>3. UsedPages \subseteq UsedPages'
  BY <1>0 DEF UsedPages, SameOrNone
<1> QED
  BY <1>0, <1>2, <1>3 DEF PagesStep

\* A page is taken from the allocator into a slot.
LEMMA TakeStep ==
    ASSUME PagesNow, NEW p, Takes(p), kernel' = kernel, memoryMap' = memoryMap, NEW k, SlotStep(k, p),
           Use[k] \notin Page
    PROVE  PagesStep(Cut(pmm.stack, pmm'.stack))
<1> DEFINE cut == Cut(pmm.stack, pmm'.stack)
<1>0. /\ FreePages(pmm) \subseteq Page /\ kernel \subseteq Page /\ memoryMap \subseteq Page
      /\ PmmGood(pmm') /\ p \in HighPage /\ p \in FreePages(pmm) /\ p \notin FreePages(pmm')
      /\ FreePages(pmm') \subseteq FreePages(pmm)
      /\ FreePages(pmm) \subseteq FreePages(pmm') \cup {p} \cup cut
  BY PmmTypes, TakesGood DEF PagesNow, Takes
<1> HIDE DEF cut
<1>1. p \in Page /\ p \notin kernel /\ p \notin memoryMap /\ \A x \in Slot : Use[x] # p
  BY <1>0 DEF PagesNow, SolePages, Sole
<1>2. \A x \in Slot : Use'[x] = p => x = k
  BY <1>1 DEF SlotStep
<1>3. Moves(Use, FreePages(pmm), kernel, memoryMap, Use', FreePages(pmm'), kernel', memoryMap', p)
  <2>1. \A x \in Slot : Use'[x] = Use[x] \/ Use'[x] \notin Page \/ Use'[x] = p
    BY DEF SlotStep
  <2> QED
    BY <1>0, <1>1, <1>2, <2>1 DEF Moves
<1>4. SolePages'
  <2>1. FreePages(pmm') \subseteq Page /\ kernel' \subseteq Page /\ memoryMap' \subseteq Page
    BY <1>0
  <2>2. Sole(Use', FreePages(pmm'), kernel', memoryMap')
    BY <1>0, <1>3, <2>1, SoleMoves DEF PagesNow, SolePages
  <2> QED
    BY <2>2 DEF SolePages
<1>5. UsedPages \subseteq UsedPages' \cup cut
  <2> SUFFICES ASSUME NEW q \in UsedPages, q \notin cut PROVE q \in UsedPages'
    OBVIOUS
  <2>1. CASE q \in FreePages(pmm)
    <3>1. CASE q = p
      BY <3>1, <1>1 DEF SlotStep, UsedPages
    <3>2. CASE q # p
      BY <3>2, <2>1, <1>0 DEF UsedPages
    <3> QED
      BY <3>1, <3>2
  <2>2. CASE q \in kernel \cup memoryMap
    BY <2>2 DEF UsedPages
  <2>3. CASE q \in Page /\ \E x \in Slot : Use[x] = q
    <3>1. PICK x \in Slot : Use[x] = q
      BY <2>3
    <3>2. Use'[x] = q
      BY <3>1, <2>3 DEF SlotStep
    <3> QED
      BY <2>3, <3>2 DEF UsedPages
  <2> QED
    BY <2>1, <2>2, <2>3 DEF UsedPages
<1> QED
  BY <1>0, <1>4, <1>5 DEF PagesStep, cut

\* The page of a slot is given back to the allocator.
LEMMA GiveStep ==
    ASSUME PagesNow, NEW k, SlotStep(k, NoPage), Use[k] \in Page, pmm' = PmmFree(pmm, Use[k]),
           kernel' = kernel, memoryMap' = memoryMap
    PROVE  PagesStep({})
<1> DEFINE p == Use[k]
<1>0. FreePages(pmm) \subseteq Page /\ kernel \subseteq Page /\ memoryMap \subseteq Page
  BY PmmTypes DEF PagesNow
<1>1. k \in Slot /\ p \notin FreePages(pmm) /\ p \notin kernel /\ p \notin memoryMap /\ \A x \in Slot : Use[x] = p => x = k
  BY DEF PagesNow, SolePages, Sole, SlotStep
<1>2. PmmGood(pmm') /\ FreePages(pmm') = FreePages(pmm) \cup {p}
  BY <1>1, PmmFreeGood DEF PagesNow
<1> HIDE DEF p
<1>3. \A x \in Slot : Use'[x] # p
  <2>1. Use'[k] # p
    BY PmmNoneAssumption DEF SlotStep, p
  <2>2. \A x \in Slot : x # k => Use'[x] # p
    BY <1>1 DEF SlotStep, p
  <2> QED
    BY <2>1, <2>2
<1>4. Moves(Use, FreePages(pmm), kernel, memoryMap, Use', FreePages(pmm'), kernel', memoryMap', p)
  <2>1. \A x \in Slot : Use'[x] = Use[x] \/ Use'[x] \notin Page \/ Use'[x] = p
    BY PmmNoneAssumption DEF SlotStep
  <2> QED
    BY <1>1, <1>2, <1>3, <2>1 DEF Moves
<1>5. SolePages'
  <2>1. FreePages(pmm') \subseteq Page /\ kernel' \subseteq Page /\ memoryMap' \subseteq Page
    BY <1>0, <1>2 DEF p
  <2>2. Sole(Use', FreePages(pmm'), kernel', memoryMap')
    BY <1>0, <1>4, <2>1, SoleMoves DEF PagesNow, SolePages
  <2> QED
    BY <2>2 DEF SolePages
<1>6. UsedPages \subseteq UsedPages'
  <2> SUFFICES ASSUME NEW q \in UsedPages PROVE q \in UsedPages'
    OBVIOUS
  <2>1. CASE q \in FreePages(pmm) \/ q = p
    BY <2>1, <1>2 DEF UsedPages
  <2>2. CASE q \in kernel \cup memoryMap
    BY <2>2 DEF UsedPages
  <2>3. CASE q # p /\ q \in Page /\ \E x \in Slot : Use[x] = q
    <3>1. PICK x \in Slot : Use[x] = q
      BY <2>3
    <3>2. Use'[x] = q
      BY <3>1, <2>3 DEF SlotStep, p
    <3> QED
      BY <2>3, <3>2 DEF UsedPages
  <2> QED
    BY <2>1, <2>2, <2>3 DEF UsedPages
<1> QED
  BY <1>2, <1>5, <1>6 DEF PagesStep

\* A page moves from one slot to another and replaces what was there.
LEMMA MoveStep ==
    ASSUME PagesNow, NEW h \in Slot, NEW k \in Slot, h # k, Use[h] \in Page, Use'[h] = NoPage, Use'[k] = Use[h],
           \A x \in Slot : x # h /\ x # k => SameOrNone(Use'[x], Use[x]),
           pmm' = pmm, kernel' = kernel, memoryMap' = memoryMap
    PROVE  PagesStep({Use[k]})
<1> DEFINE p == Use[h]
<1>0. /\ FreePages(pmm) \subseteq Page /\ FreePages(pmm') = FreePages(pmm) /\ PmmGood(pmm')
      /\ kernel \subseteq Page /\ memoryMap \subseteq Page
  BY PmmTypes DEF PagesNow
<1>1. p \notin FreePages(pmm) /\ p \notin kernel /\ p \notin memoryMap /\ \A x \in Slot : Use[x] = p => x = h
  BY DEF PagesNow, SolePages, Sole
<1>2. \A x \in Slot : Use'[x] = p => x = k
  BY <1>1, PmmNoneAssumption DEF SameOrNone
<1> HIDE DEF p
<1>3. Moves(Use, FreePages(pmm), kernel, memoryMap, Use', FreePages(pmm'), kernel', memoryMap', p)
  <2>1. \A x \in Slot : Use'[x] = Use[x] \/ Use'[x] \notin Page \/ Use'[x] = p
    BY PmmNoneAssumption DEF p, SameOrNone
  <2> QED
    BY <1>0, <1>1, <1>2, <2>1 DEF Moves
<1>4. SolePages'
  BY <1>0, <1>3, SoleMoves DEF PagesNow, SolePages
<1>5. UsedPages \subseteq UsedPages' \cup {Use[k]}
  <2> SUFFICES ASSUME NEW q \in UsedPages, q # Use[k] PROVE q \in UsedPages'
    OBVIOUS
  <2>1. CASE q \in FreePages(pmm) \cup kernel \cup memoryMap
    BY <2>1, <1>0 DEF UsedPages
  <2>2. CASE q \in Page /\ \E x \in Slot : Use[x] = q
    <3>1. PICK x \in Slot : Use[x] = q
      BY <2>2
    <3>2. \E y \in Slot : Use'[y] = q
      BY <2>2, <3>1 DEF SameOrNone
    <3> QED
      BY <2>2, <3>2 DEF UsedPages
  <2> QED
    BY <2>1, <2>2 DEF UsedPages
<1> QED
  BY <1>0, <1>4, <1>5 DEF PagesStep

\* What pmm_free gets from one of the two sets: the kernel's pages, the memory map.
LEMMA SetGiveStep ==
    ASSUME PagesNow, NEW p, pmm' = PmmFree(pmm, p),
           \/ p \in kernel /\ kernel' = kernel \ {p} /\ memoryMap' = memoryMap
           \/ p \in memoryMap /\ memoryMap' = memoryMap \ {p} /\ kernel' = kernel,
           \A x \in Slot : Use'[x] = Use[x]
    PROVE  PagesStep({})
<1>0. FreePages(pmm) \subseteq Page /\ kernel \subseteq Page /\ memoryMap \subseteq Page /\ p \in Page
  BY PmmTypes DEF PagesNow
<1>1. p \notin FreePages(pmm) /\ ~(p \in kernel /\ p \in memoryMap) /\ \A x \in Slot : Use[x] # p
  BY DEF PagesNow, SolePages, Sole
<1>2. PmmGood(pmm') /\ FreePages(pmm') = FreePages(pmm) \cup {p}
  BY <1>0, <1>1, PmmFreeGood DEF PagesNow
<1>3. Moves(Use, FreePages(pmm), kernel, memoryMap, Use', FreePages(pmm'), kernel', memoryMap', p)
  BY <1>0, <1>1, <1>2 DEF Moves
<1>4. SolePages'
  <2>1. FreePages(pmm') \subseteq Page /\ kernel' \subseteq Page /\ memoryMap' \subseteq Page
    BY <1>0, <1>2
  <2>2. Sole(Use', FreePages(pmm'), kernel', memoryMap')
    BY <1>0, <1>3, <2>1, SoleMoves DEF PagesNow, SolePages
  <2> QED
    BY <2>2 DEF SolePages
<1>5. UsedPages \subseteq UsedPages'
  BY <1>2 DEF UsedPages
<1> QED
  BY <1>2, <1>4, <1>5 DEF PagesStep

\* The kernel takes a page for itself.
LEMMA SetTakeStep ==
    ASSUME PagesNow, NEW p, Takes(p), kernel' = kernel \cup {p}, memoryMap' = memoryMap,
           \A x \in Slot : Use'[x] = Use[x]
    PROVE  PagesStep(Cut(pmm.stack, pmm'.stack))
<1> DEFINE cut == Cut(pmm.stack, pmm'.stack)
<1>0. /\ FreePages(pmm) \subseteq Page /\ kernel \subseteq Page /\ memoryMap \subseteq Page
      /\ PmmGood(pmm') /\ p \in HighPage /\ p \in FreePages(pmm) /\ p \notin FreePages(pmm')
      /\ FreePages(pmm') \subseteq FreePages(pmm)
      /\ FreePages(pmm) \subseteq FreePages(pmm') \cup {p} \cup cut
  BY PmmTypes, TakesGood DEF PagesNow, Takes
<1> HIDE DEF cut
<1>1. p \in Page /\ p \notin memoryMap /\ \A x \in Slot : Use[x] # p
  BY <1>0 DEF PagesNow, SolePages, Sole
<1>2. Moves(Use, FreePages(pmm), kernel, memoryMap, Use', FreePages(pmm'), kernel', memoryMap', p)
  BY <1>0, <1>1 DEF Moves
<1>3. SolePages'
  <2>1. FreePages(pmm') \subseteq Page /\ kernel' \subseteq Page /\ memoryMap' \subseteq Page
    BY <1>0, <1>1
  <2>2. Sole(Use', FreePages(pmm'), kernel', memoryMap')
    BY <1>0, <1>2, <2>1, SoleMoves DEF PagesNow, SolePages
  <2> QED
    BY <2>2 DEF SolePages
<1>4. UsedPages \subseteq UsedPages' \cup cut
  BY <1>0 DEF UsedPages
<1> QED
  BY <1>0, <1>3, <1>4 DEF PagesStep, cut

\* What was in a slot is forgotten.
LEMMA DropStep ==
    ASSUME PagesNow, NEW k, NEW q, SlotStep(k, q), q \notin Page,
           pmm' = pmm, kernel' = kernel, memoryMap' = memoryMap
    PROVE  PagesStep({Use[k]})
<1>0. /\ FreePages(pmm) \subseteq Page /\ FreePages(pmm') = FreePages(pmm) /\ PmmGood(pmm')
      /\ kernel \subseteq Page /\ memoryMap \subseteq Page
  BY PmmTypes DEF PagesNow
<1>1. \A x \in Slot : Use'[x] \in Page => Use'[x] = Use[x]
  BY DEF SlotStep
<1>2. SolePages'
  <2>1. \A x, y \in Slot : Use'[x] = Use'[y] /\ Use'[x] \in Page => x = y
    BY <1>1 DEF PagesNow, SolePages, Sole
  <2>2. \A x \in Slot : Use'[x] \notin FreePages(pmm) \cup kernel \cup memoryMap
    BY <1>0, <1>1 DEF PagesNow, SolePages, Sole
  <2> QED
    BY <1>0, <2>1, <2>2 DEF PagesNow, SolePages, Sole
<1>3. UsedPages \subseteq UsedPages' \cup {Use[k]}
  <2> SUFFICES ASSUME NEW u \in UsedPages, u # Use[k] PROVE u \in UsedPages'
    OBVIOUS
  <2>1. CASE u \in FreePages(pmm) \cup kernel \cup memoryMap
    BY <2>1, <1>0 DEF UsedPages
  <2>2. CASE u \in Page /\ \E x \in Slot : Use[x] = u
    <3>1. PICK x \in Slot : Use[x] = u
      BY <2>2
    <3>2. Use'[x] = u
      BY <3>1, <2>2 DEF SlotStep
    <3> QED
      BY <2>2, <3>2 DEF UsedPages
  <2> QED
    BY <2>1, <2>2 DEF UsedPages
<1> QED
  BY <1>0, <1>2, <1>3 DEF PagesStep

-----------------------------------------------------------------------------
(* The actions *)

StepGood == VmmInv' /\ UsedPages \subseteq UsedPages' \cup CutOff \cup Overwritten

LEMMA CutIsCutOff == Cut(pmm.stack, pmm'.stack) = CutOff
  BY DEF Cut, CutOff

LEMMA InvPages ==
    ASSUME VmmInv
    PROVE  PagesNow /\ \A s \in Space : space[s] \in SpaceRecord /\ SpaceControl(space[s])
<1>1. kernel \subseteq Page /\ memoryMap \subseteq Page
  BY DEF VmmInv, VmmTypeOK, Page
<1>2. \A s \in Space : space[s] \in SpaceRecord
  BY DEF VmmInv, VmmTypeOK
<1> QED
  BY <1>1, <1>2 DEF VmmInv, PagesNow

\* A step of one space keeps the invariant when its new record is good.
LEMMA SpaceStepGood ==
    ASSUME VmmInv, NEW s \in Space, NEW r \in SpaceRecord, SpaceControl(r),
           space' = [space EXCEPT ![s] = r], UNCHANGED <<kernel, kernelPml, memoryMap, panic>>,
           NEW lost, PagesStep(lost), lost \subseteq CutOff \cup Overwritten
    PROVE  StepGood
<1>1. space' \in [Space -> SpaceRecord] /\ \A u \in Space : space'[u] = IF u = s THEN r ELSE space[u]
  BY DEF VmmInv, VmmTypeOK
<1>2. pmm' \in Pmm
  BY DEF PagesStep, PmmGood
<1>3. VmmTypeOK'
  BY <1>1, <1>2 DEF VmmInv, VmmTypeOK
<1>4. \A u \in Space : SpaceControl(space'[u])
  BY <1>1 DEF VmmInv
<1>5. VmmInv'
  BY <1>3, <1>4 DEF VmmInv, PagesStep
<1>6. UsedPages \subseteq UsedPages' \cup CutOff \cup Overwritten
  BY DEF PagesStep
<1> QED
  BY <1>5, <1>6 DEF StepGood

\* The parts of a space before and after
LEMMA SpaceFields ==
    ASSUME NEW r \in SpaceRecord
    PROVE  /\ r.pml \in HighPage \cup {NoPage} /\ r.upper \in HighPage \cup {NoPage}
           /\ r.tables \in [Table -> HighPage \cup {NoPage}] /\ r.entries \in [Virt -> Entry]
           /\ r.freeAddress \in 0 .. VirtAmount /\ r.op \in {"none", "map", "unmap", "cleanup"}
           /\ r.hand \in HighPage \cup {NoPage} /\ r.owned \in BOOLEAN
           /\ r.at \in 0 .. VirtAmount /\ r.end \in 0 .. VirtAmount
           /\ \A v \in Virt : /\ r.entries[v] \in Entry
                              /\ r.entries[v].page \in HighPage \cup {NoPage, Device}
                              /\ r.entries[v].owned \in BOOLEAN
<1>1. /\ r.pml \in HighPage \cup {NoPage} /\ r.upper \in HighPage \cup {NoPage}
      /\ r.tables \in [Table -> HighPage \cup {NoPage}] /\ r.entries \in [Virt -> Entry]
      /\ r.freeAddress \in 0 .. VirtAmount /\ r.op \in {"none", "map", "unmap", "cleanup"}
      /\ r.hand \in HighPage \cup {NoPage} /\ r.owned \in BOOLEAN
      /\ r.at \in 0 .. VirtAmount /\ r.end \in 0 .. VirtAmount
  BY DEF SpaceRecord
<1>2. ASSUME NEW v \in Virt
      PROVE  /\ r.entries[v] \in Entry
             /\ r.entries[v].page \in HighPage \cup {NoPage, Device} /\ r.entries[v].owned \in BOOLEAN
  BY <1>1 DEF Entry
<1> QED
  BY <1>1, <1>2

LEMMA PageFacts ==
    /\ HighPage \subseteq Page /\ NoPage \notin Page /\ Device \notin Page /\ Device # NoPage
    /\ NoPage \notin HighPage /\ Device \notin HighPage /\ NoPage \notin LowPage /\ LowPage \subseteq Page
  BY PmmNoneAssumption, DeviceAssumption DEF Page

\* space_init
LEMMA SpaceInitGood ==
    ASSUME VmmInv, NEW s \in Space, NEW p \in HighPage, SpaceInit(s, p)
    PROVE  StepGood
<1> DEFINE r0 == space[s]
           r == [r0 EXCEPT !.pml = p, !.upper = kernelPml.table, !.freeAddress = FirstFree]
           k == <<"pml", s, 0>>
<1>0. PagesNow /\ r0 \in SpaceRecord /\ SpaceControl(r0) /\ space \in [Space -> SpaceRecord]
  BY InvPages DEF VmmInv, VmmTypeOK
<1>1. /\ Takes(p) /\ r0.pml = NoPage /\ space' = [space EXCEPT ![s] = r]
      /\ UNCHANGED <<kernel, kernelPml, memoryMap, panic>>
  BY <1>0 DEF SpaceInit, Takes, TakesFrom
<1>2. /\ r \in SpaceRecord /\ r.pml = p /\ r.hand = r0.hand /\ r.tables = r0.tables /\ r.entries = r0.entries
      /\ r.op = r0.op /\ r.upper = kernelPml.table
      /\ r.at = r0.at /\ r.end = r0.end /\ r.owned = r0.owned
  <2>1. kernelPml.table \in HighPage \cup {NoPage} /\ FirstFree \in 0 .. VirtAmount
    BY VirtAssumption DEF VmmInv, VmmTypeOK
  <2> HIDE DEF r0
  <2> QED
    BY <1>0, <2>1 DEF SpaceRecord
<1>3. SpaceControl(r)
  <2>1. r0.op = "none"
    BY <1>0, <1>1 DEF SpaceControl
  <2> HIDE DEF r, r0
  <2> QED
    BY <1>0, <1>2, <2>1, PageFacts DEF SpaceControl
<1>4. space'[s] = r /\ \A u \in Space : u # s => space'[u] = space[u]
  BY <1>0, <1>1
<1> HIDE DEF r
<1>5. SlotStep(k, p) /\ Use[k] \notin Page
  <2>a. k \in SlotsOf(s)
    BY DEF SlotsOf
  <2>b. k \in Slot /\ Use[k] = space[s].pml /\ Use'[k] = space'[s].pml
    BY SlotRead, SlotReadNext DEF SlotsRead
  <2>1. k \in SlotsOf(s) /\ k \in Slot /\ Use[k] = NoPage /\ Use'[k] = p
    <3> HIDE DEF k
    <3> QED
      BY <1>1, <1>2, <1>4, <2>a, <2>b
  <2>2. \A t \in Table : k # <<"table", s, t>> => SameOrNone(space'[s].tables[t], space[s].tables[t])
    BY <1>2, <1>4 DEF SameOrNone
  <2>3. \A v \in Virt : k # <<"entry of", s, v>> =>
                SameOrNone(space'[s].entries[v].page, space[s].entries[v].page)
    BY <1>2, <1>4 DEF SameOrNone
  <2>4. k # <<"hand", s, 0>> => SameOrNone(space'[s].hand, space[s].hand)
    BY <1>2, <1>4 DEF SameOrNone
  <2>5. k # <<"pml", s, 0>> => SameOrNone(space'[s].pml, space[s].pml)
    OBVIOUS
  <2>6. kernelPml' = kernelPml
    BY <1>1
  <2> HIDE DEF k
  <2> QED
    BY <1>4, <2>1, <2>2, <2>3, <2>4, <2>5, <2>6, PageFacts, SpaceSlotStep
<1>6. PagesStep(CutOff)
  BY <1>0, <1>1, <1>5, TakeStep, CutIsCutOff
<1> QED
  BY <1>1, <1>2, <1>3, <1>6, SpaceStepGood

\* An operation that loops over a region is at a page of it.
LEMMA LoopAt ==
    ASSUME NEW r \in SpaceRecord, SpaceControl(r), r.op \in {"map", "unmap"}
    PROVE  /\ r.at \in Virt /\ TableOf(r.at) \in Table /\ r.at + 1 \in 0 .. VirtAmount /\ r.at + 1 <= r.end
           /\ r.pml # NoPage
<1>1. r.at \in 0 .. VirtAmount /\ r.end \in 0 .. VirtAmount /\ r.at < r.end
  BY SpaceFields DEF SpaceControl
<1>2. r.at \in Virt /\ r.at + 1 \in 0 .. VirtAmount /\ r.at + 1 <= r.end
  BY <1>1, VirtAssumption DEF Virt
<1> QED
  BY <1>2 DEF Table, SpaceControl

\* vmm_alloc: pmm_alloc for the next entry
LEMMA MapTakePageGood ==
    ASSUME VmmInv, NEW s \in Space, NEW p \in HighPage, MapTakePage(s, p)
    PROVE  StepGood
<1> DEFINE r0 == space[s]
           r == [r0 EXCEPT !.hand = p]
           k == <<"hand", s, 0>>
<1>0. PagesNow /\ r0 \in SpaceRecord /\ SpaceControl(r0) /\ space \in [Space -> SpaceRecord]
  BY InvPages DEF VmmInv, VmmTypeOK
<1>1. /\ Takes(p) /\ r0.op = "map" /\ r0.owned /\ r0.hand = NoPage /\ space' = [space EXCEPT ![s] = r]
      /\ UNCHANGED <<kernel, kernelPml, memoryMap, panic>>
  BY <1>0 DEF MapTakePage, NeedsPage, Takes, TakesFrom
<1>2. /\ r \in SpaceRecord /\ r.hand = p /\ r.pml = r0.pml /\ r.tables = r0.tables /\ r.entries = r0.entries
      /\ r.op = r0.op /\ r.upper = r0.upper /\ r.at = r0.at /\ r.end = r0.end /\ r.owned = r0.owned
  <2> HIDE DEF r0
  <2> QED
    BY <1>0 DEF SpaceRecord
<1>3. SpaceControl(r)
  <2> HIDE DEF r, r0
  <2> QED
    BY <1>0, <1>1, <1>2 DEF SpaceControl
<1>4. space'[s] = r /\ \A u \in Space : u # s => space'[u] = space[u]
  BY <1>0, <1>1
<1> HIDE DEF r
<1>5. SlotStep(k, p) /\ Use[k] \notin Page
  <2>a. k \in SlotsOf(s)
    BY DEF SlotsOf
  <2>b. k \in Slot /\ Use[k] = space[s].hand /\ Use'[k] = space'[s].hand
    BY SlotRead, SlotReadNext DEF SlotsRead
  <2>1. k \in SlotsOf(s) /\ k \in Slot /\ Use[k] = NoPage /\ Use'[k] = p
    <3> HIDE DEF k
    <3> QED
      BY <1>1, <1>2, <1>4, <2>a, <2>b
  <2>2. \A t \in Table : k # <<"table", s, t>> => SameOrNone(space'[s].tables[t], space[s].tables[t])
    BY <1>2, <1>4 DEF SameOrNone
  <2>3. \A v \in Virt : k # <<"entry of", s, v>> =>
                SameOrNone(space'[s].entries[v].page, space[s].entries[v].page)
    BY <1>2, <1>4 DEF SameOrNone
  <2>4. k # <<"hand", s, 0>> => SameOrNone(space'[s].hand, space[s].hand)
    OBVIOUS
  <2>5. k # <<"pml", s, 0>> => SameOrNone(space'[s].pml, space[s].pml)
    BY <1>2, <1>4 DEF SameOrNone
  <2>6. kernelPml' = kernelPml
    BY <1>1
  <2> HIDE DEF k
  <2> QED
    BY <1>4, <2>1, <2>2, <2>3, <2>4, <2>5, <2>6, PageFacts, SpaceSlotStep
<1>6. PagesStep(CutOff)
  BY <1>0, <1>1, <1>5, TakeStep, CutIsCutOff
<1> QED
  BY <1>1, <1>2, <1>3, <1>6, SpaceStepGood

\* pml_get_or_allocate
LEMMA MapTakeTableGood ==
    ASSUME VmmInv, NEW s \in Space, NEW p \in HighPage, MapTakeTable(s, p)
    PROVE  StepGood
<1> DEFINE r0 == space[s]
           n == TableOf(r0.at)
           r == [r0 EXCEPT !.tables[n] = p]
           k == <<"table", s, n>>
<1>0. PagesNow /\ r0 \in SpaceRecord /\ SpaceControl(r0) /\ space \in [Space -> SpaceRecord]
  BY InvPages DEF VmmInv, VmmTypeOK
<1>1. /\ Takes(p) /\ r0.op = "map" /\ r0.tables[n] = NoPage /\ space' = [space EXCEPT ![s] = r]
      /\ UNCHANGED <<kernel, kernelPml, memoryMap, panic>>
  BY <1>0 DEF MapTakeTable, NeedsPage, Takes, TakesFrom
<1>n. n \in Table
  BY <1>0, <1>1, LoopAt
<1>f. r0.tables \in [Table -> HighPage \cup {NoPage}]
  BY <1>0, SpaceFields
<1>2. /\ r \in SpaceRecord /\ r.hand = r0.hand /\ r.pml = r0.pml /\ r.tables = [r0.tables EXCEPT ![n] = p]
      /\ r.entries = r0.entries
      /\ r.op = r0.op /\ r.upper = r0.upper /\ r.at = r0.at /\ r.end = r0.end /\ r.owned = r0.owned
  <2>1. [r0.tables EXCEPT ![n] = p] \in [Table -> HighPage \cup {NoPage}]
    BY <1>f
  <2> HIDE DEF r0, n
  <2> QED
    BY <1>0, <2>1 DEF SpaceRecord
<1>t. r.tables[n] = p /\ \A t \in Table : t # n => r.tables[t] = r0.tables[t]
  <2> HIDE DEF r0, r, n
  <2> QED
    BY <1>2, <1>f, <1>n
<1>3. SpaceControl(r)
  <2> HIDE DEF r, r0, n
  <2>1. \A t \in Table : r0.tables[t] # NoPage => r.tables[t] # NoPage
    BY <1>t, PageFacts
  <2>2. \A v \in Virt : TableOf(v) \in Table
    BY DEF Table
  <2> QED
    BY <1>0, <1>1, <1>2, <2>1, <2>2 DEF SpaceControl
<1>4. space'[s] = r /\ \A u \in Space : u # s => space'[u] = space[u]
  BY <1>0, <1>1
<1> HIDE DEF r
<1>5. SlotStep(k, p) /\ Use[k] \notin Page
  <2>1. k \in SlotsOf(s) /\ k \in Slot /\ Use[k] = NoPage /\ Use'[k] = p
    <3> HIDE DEF n
    <3>1. k \in SlotsOf(s)
      BY <1>n DEF SlotsOf
    <3>2. k \in Slot /\ Use[k] = r0.tables[n] /\ Use'[k] = space'[s].tables[n]
      BY <1>n, SlotRead, SlotReadNext DEF SlotsRead
    <3>3. r0.tables[n] = NoPage
      BY <1>1
    <3>4. space'[s].tables[n] = p
      <4> HIDE DEF r0
      <4> QED
        BY <1>t, <1>4
    <3> HIDE DEF k, r0
    <3>5. Use[k] = NoPage
      BY <3>2, <3>3
    <3>6. Use'[k] = p
      BY <3>2, <3>4
    <3> QED
      BY <3>1, <3>2, <3>5, <3>6
  <2>2. \A t \in Table : k # <<"table", s, t>> => SameOrNone(space'[s].tables[t], space[s].tables[t])
    BY <1>t, <1>4 DEF SameOrNone
  <2>3. \A v \in Virt : k # <<"entry of", s, v>> =>
                SameOrNone(space'[s].entries[v].page, space[s].entries[v].page)
    BY <1>2, <1>4 DEF SameOrNone
  <2>4. k # <<"hand", s, 0>> => SameOrNone(space'[s].hand, space[s].hand)
    BY <1>2, <1>4 DEF SameOrNone
  <2>5. k # <<"pml", s, 0>> => SameOrNone(space'[s].pml, space[s].pml)
    BY <1>2, <1>4 DEF SameOrNone
  <2>6. kernelPml' = kernelPml
    BY <1>1
  <2> HIDE DEF k
  <2> QED
    BY <1>4, <2>1, <2>2, <2>3, <2>4, <2>5, <2>6, PageFacts, SpaceSlotStep
<1> HIDE DEF k
<1>6. PagesStep(CutOff)
  BY <1>0, <1>1, <1>5, TakeStep, CutIsCutOff
<1> QED
  BY <1>1, <1>2, <1>3, <1>6, SpaceStepGood

\* Steps of a space that change no slot
LEMMA SpaceStillGood ==
    ASSUME VmmInv, NEW s \in Space, NEW r \in SpaceRecord, SpaceControl(r),
           space' = [space EXCEPT ![s] = r], UNCHANGED <<pmm, kernel, kernelPml, memoryMap, panic>>,
           r.pml = space[s].pml, r.hand = space[s].hand, r.tables = space[s].tables,
           \A v \in Virt : SameOrNone(r.entries[v].page, space[s].entries[v].page)
    PROVE  StepGood
<1>0. PagesNow /\ space \in [Space -> SpaceRecord]
  BY InvPages DEF VmmInv, VmmTypeOK
<1>1. space'[s] = r /\ \A u \in Space : u # s => space'[u] = space[u]
  BY <1>0
<1> DEFINE k == <<"pml", s, 0>>
<1>2. k \in SlotsOf(s) /\ k \in Slot /\ Use'[k] = Use[k]
  BY <1>1, SlotRead, SlotReadNext, ZenonT(60) DEF SlotsRead, SlotsOf
<1>3. SlotStep(k, Use[k])
  <2>1. \A t \in Table : k # <<"table", s, t>> => SameOrNone(space'[s].tables[t], space[s].tables[t])
    BY <1>1 DEF SameOrNone
  <2>2. \A v \in Virt : k # <<"entry of", s, v>> =>
                SameOrNone(space'[s].entries[v].page, space[s].entries[v].page)
    BY <1>1
  <2>3. k # <<"hand", s, 0>> => SameOrNone(space'[s].hand, space[s].hand)
    BY <1>1 DEF SameOrNone
  <2>4. k # <<"pml", s, 0>> => SameOrNone(space'[s].pml, space[s].pml)
    OBVIOUS
  <2>5. kernelPml' = kernelPml
    OBVIOUS
  <2> HIDE DEF k
  <2> QED
    BY <1>1, <1>2, <2>1, <2>2, <2>3, <2>4, <2>5, SpaceSlotStep
<1>4. \A x \in Slot : SameOrNone(Use'[x], Use[x])
  BY <1>3 DEF SlotStep, SameOrNone
<1>5. PagesStep({})
  BY <1>0, <1>4, StillStep
<1>6. PagesStep({}) /\ {} \subseteq CutOff \cup Overwritten
  BY <1>5
<1> QED
  BY <1>6, SpaceStepGood

\* vmm_alloc and vmm_map, up to their loop
LEMMA VmmAllocGood ==
    ASSUME VmmInv, NEW s \in Space, NEW v \in Virt, NEW n \in Lengths, NEW owned \in BOOLEAN,
           VmmAllocAt(s, v, n, owned) \/ VmmAllocAnywhere(s, v, n, owned)
    PROVE  StepGood
<1> DEFINE r0 == space[s]
<1>a. n \in Nat /\ n > 0 /\ v \in Nat /\ VirtAmount \in Nat
  BY VirtAssumption DEF Virt
<1>b. PagesNow /\ r0 \in SpaceRecord /\ SpaceControl(r0) /\ space \in [Space -> SpaceRecord]
  BY InvPages DEF VmmInv, VmmTypeOK
<1>0. /\ PagesNow /\ r0 \in SpaceRecord /\ SpaceControl(r0) /\ space \in [Space -> SpaceRecord]
      /\ n \in Nat /\ n > 0 /\ v \in Nat /\ VirtAmount \in Nat
  BY <1>a, <1>b
<1>1. \E f \in 0 .. VirtAmount :
        /\ r0.op = "none" /\ r0.pml # NoPage /\ v + n \in 0 .. VirtAmount
        /\ space' = [space EXCEPT ![s] = [r0 EXCEPT !.op = "map", !.owned = owned, !.at = v, !.end = v + n,
                                                    !.freeAddress = f]]
        /\ UNCHANGED <<pmm, kernel, kernelPml, memoryMap, panic>>
  <2>1. CASE VmmAllocAt(s, v, n, owned)
    <3>1. r0.freeAddress \in 0 .. VirtAmount /\ v + n \in 0 .. VirtAmount
      BY <1>0, <2>1, SpaceFields DEF VmmAllocAt
    <3>2. BeginMap(s, v, n, owned) = [r0 EXCEPT !.op = "map", !.owned = owned, !.at = v, !.end = v + n,
                                                !.freeAddress = r0.freeAddress]
      BY <1>0 DEF BeginMap, SpaceRecord
    <3> QED
      BY <2>1, <3>1, <3>2 DEF VmmAllocAt, Idle
  <2>2. CASE VmmAllocAnywhere(s, v, n, owned)
    <3>1. v + n \in 0 .. VirtAmount
      BY <1>0, <2>2 DEF VmmAllocAnywhere, IsFreeRegion
    <3> QED
      BY <2>2, <3>1 DEF VmmAllocAnywhere, Idle, BeginMap
  <2> QED
    BY <2>1, <2>2
<1>2. PICK f \in 0 .. VirtAmount :
        /\ r0.op = "none" /\ r0.pml # NoPage /\ v + n \in 0 .. VirtAmount
        /\ space' = [space EXCEPT ![s] = [r0 EXCEPT !.op = "map", !.owned = owned, !.at = v, !.end = v + n,
                                                    !.freeAddress = f]]
        /\ UNCHANGED <<pmm, kernel, kernelPml, memoryMap, panic>>
  BY <1>1
<1> DEFINE r == [r0 EXCEPT !.op = "map", !.owned = owned, !.at = v, !.end = v + n, !.freeAddress = f]
<1>3. /\ r \in SpaceRecord /\ r.hand = r0.hand /\ r.pml = r0.pml /\ r.tables = r0.tables
      /\ r.entries = r0.entries /\ r.op = "map" /\ r.at = v /\ r.end = v + n
  <2>1. v \in 0 .. VirtAmount /\ v + n \in 0 .. VirtAmount
    BY <1>0, <1>2 DEF Virt
  <2> HIDE DEF r0
  <2> QED
    BY <1>0, <2>1 DEF SpaceRecord
<1>4. SpaceControl(r)
  <2>1. r0.hand = NoPage
    BY <1>0, <1>2 DEF SpaceControl
  <2>2. v < v + n
    BY <1>0
  <2> HIDE DEF r, r0
  <2> QED
    BY <1>0, <1>2, <1>3, <2>1, <2>2 DEF SpaceControl
<1>5. \A w \in Virt : SameOrNone(r.entries[w].page, space[s].entries[w].page)
  <2> HIDE DEF r
  <2> QED
    BY <1>3 DEF SameOrNone
<1>6. space' = [space EXCEPT ![s] = r] /\ UNCHANGED <<pmm, kernel, kernelPml, memoryMap, panic>>
  BY <1>2
<1> HIDE DEF r
<1> QED
  BY <1>3, <1>4, <1>5, <1>6, SpaceStillGood

\* A step of a space that gives the page of one slot back
LEMMA SpaceGiveGood ==
    ASSUME VmmInv, NEW s \in Space, NEW r \in SpaceRecord, SpaceControl(r),
           space' = [space EXCEPT ![s] = r], UNCHANGED <<kernel, kernelPml, memoryMap, panic>>,
           NEW k \in SlotsOf(s), Use[k] \in Page, Use'[k] = NoPage, pmm' = PmmFree(pmm, Use[k]),
           k # <<"pml", s, 0>> => SameOrNone(r.pml, space[s].pml),
           k # <<"hand", s, 0>> => SameOrNone(r.hand, space[s].hand),
           \A t \in Table : k # <<"table", s, t>> => SameOrNone(r.tables[t], space[s].tables[t]),
           \A v \in Virt : k # <<"entry of", s, v>> => SameOrNone(r.entries[v].page, space[s].entries[v].page)
    PROVE  StepGood
<1>0. PagesNow /\ space \in [Space -> SpaceRecord] /\ k \in Slot /\ kernelPml' = kernelPml
  BY InvPages, SlotCases DEF VmmInv, VmmTypeOK
<1>1. space'[s] = r /\ \A u \in Space : u # s => space'[u] = space[u]
  BY <1>0
<1>2. /\ k # <<"pml", s, 0>> => SameOrNone(space'[s].pml, space[s].pml)
      /\ k # <<"hand", s, 0>> => SameOrNone(space'[s].hand, space[s].hand)
  BY <1>1
<1>3. \A t \in Table : k # <<"table", s, t>> => SameOrNone(space'[s].tables[t], space[s].tables[t])
  BY <1>1
<1>4. \A v \in Virt : k # <<"entry of", s, v>> => SameOrNone(space'[s].entries[v].page, space[s].entries[v].page)
  BY <1>1
<1>5. SlotStep(k, NoPage)
  BY <1>0, <1>1, <1>2, <1>3, <1>4, SpaceSlotStep
<1>6. PagesStep({}) /\ {} \subseteq CutOff \cup Overwritten
  BY <1>0, <1>5, GiveStep
<1> QED
  BY <1>6, SpaceStepGood

\* The end of a loop over a region changes only the control.
LEMMA ContinueFields ==
    ASSUME NEW r \in SpaceRecord, NEW c, c = Continue(r)
    PROVE  /\ c \in SpaceRecord /\ c.pml = r.pml /\ c.upper = r.upper /\ c.hand = r.hand
           /\ c.tables = r.tables /\ c.entries = r.entries
           /\ \/ c.op = r.op /\ c.owned = r.owned /\ c.at < c.end
              \/ c.op = "none"
<1>1. CASE r.at < r.end
  BY <1>1 DEF Continue
<1>2. CASE ~(r.at < r.end)
  <2>1. c = [r EXCEPT !.op = "none", !.owned = FALSE, !.at = 0, !.end = 0] /\ 0 \in 0 .. VirtAmount
    BY <1>2, VirtAssumption DEF Continue
  <2> QED
    BY <2>1 DEF SpaceRecord
<1> QED
  BY <1>1, <1>2

\* One entry of a space changes.
SetsEntry(r0, v, e, h, a, r) == r = [r0 EXCEPT !.entries[v] = e, !.hand = h, !.at = a]

LEMMA EntryFields ==
    ASSUME NEW r0 \in SpaceRecord, NEW v \in Virt, NEW e \in Entry, NEW h \in HighPage \cup {NoPage},
           NEW a \in 0 .. VirtAmount, NEW r, SetsEntry(r0, v, e, h, a, r)
    PROVE  /\ r \in SpaceRecord /\ r.pml = r0.pml /\ r.upper = r0.upper /\ r.tables = r0.tables
           /\ r.op = r0.op /\ r.owned = r0.owned /\ r.end = r0.end /\ r.hand = h /\ r.at = a
           /\ r.entries[v] = e /\ \A w \in Virt : w # v => r.entries[w] = r0.entries[w]
<1>1. r0.entries \in [Virt -> Entry]
  BY SpaceFields
<1>2. [r0.entries EXCEPT ![v] = e] \in [Virt -> Entry]
  BY <1>1
<1>3. /\ r \in SpaceRecord /\ r.pml = r0.pml /\ r.upper = r0.upper /\ r.tables = r0.tables
      /\ r.op = r0.op /\ r.owned = r0.owned /\ r.end = r0.end /\ r.hand = h /\ r.at = a
      /\ r.entries = [r0.entries EXCEPT ![v] = e]
  BY <1>2 DEF SpaceRecord, SetsEntry
<1> QED
  BY <1>1, <1>3

\* What SpaceControl says of the entries
EntriesControl(r) ==
    /\ \A v \in Virt : r.entries[v].owned <=> r.entries[v].page \in HighPage
    /\ \A v \in Virt : r.entries[v].page # NoPage => r.tables[TableOf(v)] # NoPage

\* pml_map of one page
LEMMA MapEntryGood ==
    ASSUME VmmInv, NEW s \in Space, MapEntry(s)
    PROVE  StepGood
<1> DEFINE r0 == space[s]
           v == r0.at
           e == IF r0.owned THEN [page |-> r0.hand, owned |-> TRUE] ELSE [page |-> Device, owned |-> FALSE]
           r == [r0 EXCEPT !.entries[v] = e, !.hand = NoPage, !.at = v + 1]
           c == Continue(r)
           h == <<"hand", s, 0>>
           k == <<"entry of", s, v>>
<1>0. PagesNow /\ r0 \in SpaceRecord /\ SpaceControl(r0) /\ space \in [Space -> SpaceRecord]
  BY InvPages DEF VmmInv, VmmTypeOK
<1>1. /\ r0.op = "map" /\ ~NeedsPage(s) /\ space' = [space EXCEPT ![s] = c]
      /\ UNCHANGED <<pmm, kernel, kernelPml, memoryMap, panic>>
  BY DEF MapEntry
<1>2. v \in Virt /\ v + 1 \in 0 .. VirtAmount /\ r0.at < r0.end /\ r0.pml # NoPage
  BY <1>0, <1>1, LoopAt DEF SpaceControl
<1>3. (r0.owned => r0.hand # NoPage) /\ r0.tables[TableOf(v)] # NoPage
  BY <1>1, <1>2 DEF NeedsPage
<1>4. r0.hand \in HighPage \cup {NoPage} /\ r0.owned \in BOOLEAN
  BY <1>0, SpaceFields
<1>5. e \in Entry /\ (e.owned <=> e.page \in HighPage) /\ (e.owned <=> r0.owned)
      /\ e.page = IF r0.owned THEN r0.hand ELSE Device
  <2>1. CASE r0.owned
    BY <2>1, <1>3, <1>4 DEF Entry
  <2>2. CASE ~r0.owned
    BY <2>2, PageFacts DEF Entry
  <2> QED
    BY <2>1, <2>2
<1>6. /\ r \in SpaceRecord /\ r.pml = r0.pml /\ r.upper = r0.upper /\ r.tables = r0.tables
      /\ r.op = r0.op /\ r.owned = r0.owned /\ r.hand = NoPage
      /\ r.entries[v] = e /\ \A w \in Virt : w # v => r.entries[w] = r0.entries[w]
  <2> HIDE DEF r0, v, e
  <2>1. NoPage \in HighPage \cup {NoPage}
    OBVIOUS
  <2>2. SetsEntry(r0, v, e, NoPage, v + 1, r)
    BY DEF SetsEntry
  <2>3. r0 \in SpaceRecord /\ v \in Virt /\ e \in Entry /\ v + 1 \in 0 .. VirtAmount
    BY <1>0, <1>2, <1>5
  <2> HIDE DEF r
  <2> QED
    BY <2>1, <2>2, <2>3, EntryFields
<1> HIDE DEF r
<1>7. /\ c \in SpaceRecord /\ c.pml = r0.pml /\ c.upper = r0.upper /\ c.hand = NoPage
      /\ c.tables = r0.tables /\ c.entries = r.entries
      /\ \/ c.op = "map" /\ c.owned = r0.owned /\ c.at < c.end
         \/ c.op = "none"
  BY <1>1, <1>6, ContinueFields
<1>8. c.entries[v] = e /\ \A w \in Virt : w # v => c.entries[w] = r0.entries[w]
  BY <1>6, <1>7
<1> HIDE DEF c, e
<1>9. EntriesControl(c)
  <2> SUFFICES ASSUME NEW w \in Virt
               PROVE  /\ c.entries[w].owned <=> c.entries[w].page \in HighPage
                      /\ c.entries[w].page # NoPage => c.tables[TableOf(w)] # NoPage
    BY DEF EntriesControl
  <2>1. CASE w = v
    BY <2>1, <1>3, <1>5, <1>7, <1>8
  <2>2. CASE w # v
    BY <2>2, <1>0, <1>7, <1>8 DEF SpaceControl
  <2> QED
    BY <2>1, <2>2
<1>10. SpaceControl(c)
  <2> HIDE DEF r0
  <2> QED
    BY <1>2, <1>7, <1>9 DEF SpaceControl, EntriesControl
<1>11. space'[s] = c /\ \A u \in Space : u # s => space'[u] = space[u]
  BY <1>0, <1>1
<1>12. r0.entries[v].page \in Overwritten
  BY DEF Overwritten
<1>13. /\ h \in Slot /\ k \in Slot /\ h \in SlotsOf(s) /\ k \in SlotsOf(s) /\ h # k
       /\ Use[h] = r0.hand /\ Use'[h] = space'[s].hand
       /\ Use[k] = r0.entries[v].page /\ Use'[k] = space'[s].entries[v].page
  <2> HIDE DEF v
  <2>1. h \in Slot /\ Use[h] = r0.hand /\ Use'[h] = space'[s].hand
    BY SlotRead, SlotReadNext DEF SlotsRead
  <2>2. k \in Slot /\ Use[k] = r0.entries[v].page /\ Use'[k] = space'[s].entries[v].page
    BY <1>2, SlotRead, SlotReadNext DEF SlotsRead
  <2>3. h \in SlotsOf(s) /\ k \in SlotsOf(s) /\ h # k
    BY <1>2 DEF SlotsOf
  <2> QED
    BY <2>1, <2>2, <2>3
<1>14. \A x \in Slot : x \notin {h, k} => SameOrNone(Use'[x], Use[x])
  <2>1. <<"pml", s, 0>> \notin {h, k} => SameOrNone(space'[s].pml, space[s].pml)
    BY <1>7, <1>11 DEF SameOrNone
  <2>2. <<"hand", s, 0>> \notin {h, k} => SameOrNone(space'[s].hand, space[s].hand)
    OBVIOUS
  <2>3. \A t \in Table : <<"table", s, t>> \notin {h, k} => SameOrNone(space'[s].tables[t], space[s].tables[t])
    BY <1>7, <1>11 DEF SameOrNone
  <2>4. ASSUME NEW w \in Virt, <<"entry of", s, w>> \notin {h, k}
        PROVE  SameOrNone(space'[s].entries[w].page, space[s].entries[w].page)
    <3>1. w # v
      BY <2>4
    <3> QED
      BY <3>1, <1>8, <1>11 DEF SameOrNone
  <2>5. kernelPml' = kernelPml
    BY <1>1
  <2> HIDE DEF h, k
  <2> QED
    BY <1>11, <2>1, <2>2, <2>3, <2>4, <2>5, SpaceSlots
<1> HIDE DEF h, k, v
<1>15. PagesStep({r0.entries[v].page})
  <2>1. CASE r0.owned
    <3>1. Use[h] \in Page /\ Use'[h] = NoPage /\ Use'[k] = Use[h]
      BY <2>1, <1>3, <1>4, <1>5, <1>7, <1>8, <1>11, <1>13, PageFacts
    <3>2. \A x \in Slot : x # h /\ x # k => SameOrNone(Use'[x], Use[x])
      BY <1>14
    <3> QED
      BY <1>0, <1>1, <1>13, <3>1, <3>2, MoveStep
  <2>2. CASE ~r0.owned
    <3>1. Use[h] = NoPage /\ Use'[h] = NoPage /\ Use'[k] = Device
      BY <2>2, <1>0, <1>5, <1>7, <1>8, <1>11, <1>13 DEF SpaceControl
    <3>2. SlotStep(k, Device) /\ Device \notin Page
      BY <1>13, <1>14, <3>1, PageFacts DEF SlotStep, SameOrNone
    <3> QED
      BY <1>0, <1>1, <1>13, <3>2, DropStep
  <2> QED
    BY <2>1, <2>2
<1> HIDE DEF r0
<1>16. {r0.entries[v].page} \subseteq CutOff \cup Overwritten
  BY <1>12
<1> QED
  BY <1>1, <1>7, <1>10, <1>15, <1>16, SpaceStepGood

\* vmm_unmap, up to pml_unmap
LEMMA VmmUnmapGood ==
    ASSUME VmmInv, NEW s \in Space, NEW v \in Virt, NEW n \in Lengths, VmmUnmap(s, v, n)
    PROVE  StepGood
<1> DEFINE r0 == space[s]
           r == [r0 EXCEPT !.op = "unmap", !.at = v, !.end = v + n]
<1>0. PagesNow /\ r0 \in SpaceRecord /\ SpaceControl(r0) /\ space \in [Space -> SpaceRecord]
  BY InvPages DEF VmmInv, VmmTypeOK
<1>1. /\ r0.op = "none" /\ r0.pml # NoPage /\ v + n <= VirtAmount /\ space' = [space EXCEPT ![s] = r]
      /\ UNCHANGED <<pmm, kernel, kernelPml, memoryMap, panic>>
  BY <1>0 DEF VmmUnmap, Idle
<1>2. n \in Nat /\ n > 0 /\ v \in 0 .. VirtAmount /\ VirtAmount \in Nat
  BY VirtAssumption DEF Virt
<1>3. v + n \in 0 .. VirtAmount /\ v < v + n
  BY <1>1, <1>2
<1>4. /\ r \in SpaceRecord /\ r.hand = r0.hand /\ r.pml = r0.pml /\ r.tables = r0.tables
      /\ r.entries = r0.entries /\ r.op = "unmap" /\ r.at = v /\ r.end = v + n
  <2> HIDE DEF r0
  <2> QED
    BY <1>0, <1>2, <1>3 DEF SpaceRecord
<1> HIDE DEF r
<1>5. SpaceControl(r)
  <2>1. r0.hand = NoPage
    BY <1>0, <1>1 DEF SpaceControl
  <2> HIDE DEF r0
  <2> QED
    BY <1>0, <1>1, <1>3, <1>4, <2>1 DEF SpaceControl
<1>6. \A w \in Virt : SameOrNone(r.entries[w].page, space[s].entries[w].page)
  BY <1>4 DEF SameOrNone
<1> QED
  BY <1>1, <1>4, <1>5, <1>6, SpaceStillGood

\* pml_unmap of one page
LEMMA UnmapEntryGood ==
    ASSUME VmmInv, NEW s \in Space, UnmapEntry(s)
    PROVE  StepGood
<1> DEFINE r0 == space[s]
           v == r0.at
           r == [r0 EXCEPT !.entries[v] = NoEntry, !.at = v + 1]
           c == Continue(r)
           k == <<"entry of", s, v>>
<1>0. PagesNow /\ r0 \in SpaceRecord /\ SpaceControl(r0) /\ space \in [Space -> SpaceRecord]
  BY InvPages DEF VmmInv, VmmTypeOK
<1>1. /\ r0.op = "unmap" /\ pmm' = FreeIfOwned(r0.entries[v]) /\ space' = [space EXCEPT ![s] = c]
      /\ UNCHANGED <<kernel, kernelPml, memoryMap, panic>>
  BY DEF UnmapEntry
<1>2. v \in Virt /\ v + 1 \in 0 .. VirtAmount /\ r0.pml # NoPage
  BY <1>0, <1>1, LoopAt
<1>3. r0.hand = NoPage
  BY <1>0, <1>1 DEF SpaceControl
<1>4. /\ r0.entries[v].page \in HighPage \cup {NoPage, Device}
      /\ r0.entries[v].owned <=> r0.entries[v].page \in HighPage
  BY <1>0, <1>2, SpaceFields DEF SpaceControl
<1>5. NoEntry \in Entry /\ NoEntry.page = NoPage /\ ~NoEntry.owned
  BY DEF NoEntry, Entry
<1>6. /\ r \in SpaceRecord /\ r.pml = r0.pml /\ r.upper = r0.upper /\ r.tables = r0.tables
      /\ r.op = r0.op /\ r.owned = r0.owned /\ r.hand = NoPage
      /\ r.entries[v] = NoEntry /\ \A w \in Virt : w # v => r.entries[w] = r0.entries[w]
  <2> HIDE DEF r0, v
  <2>1. NoPage \in HighPage \cup {NoPage}
    OBVIOUS
  <2>2. SetsEntry(r0, v, NoEntry, NoPage, v + 1, r)
    BY <1>0, <1>3 DEF SetsEntry, SpaceRecord
  <2>3. r0 \in SpaceRecord /\ v \in Virt /\ NoEntry \in Entry /\ v + 1 \in 0 .. VirtAmount
    BY <1>0, <1>2, <1>5
  <2> HIDE DEF r
  <2> QED
    BY <2>1, <2>2, <2>3, EntryFields
<1> HIDE DEF r
<1>7. /\ c \in SpaceRecord /\ c.pml = r0.pml /\ c.upper = r0.upper /\ c.hand = NoPage
      /\ c.tables = r0.tables /\ c.entries = r.entries
      /\ \/ c.op = "unmap" /\ c.at < c.end
         \/ c.op = "none"
  BY <1>1, <1>6, ContinueFields
<1>8. c.entries[v] = NoEntry /\ \A w \in Virt : w # v => c.entries[w] = r0.entries[w]
  BY <1>6, <1>7
<1> HIDE DEF c
<1>9. EntriesControl(c)
  <2> SUFFICES ASSUME NEW w \in Virt
               PROVE  /\ c.entries[w].owned <=> c.entries[w].page \in HighPage
                      /\ c.entries[w].page # NoPage => c.tables[TableOf(w)] # NoPage
    BY DEF EntriesControl
  <2>1. CASE w = v
    BY <2>1, <1>5, <1>8, PageFacts
  <2>2. CASE w # v
    BY <2>2, <1>0, <1>7, <1>8 DEF SpaceControl
  <2> QED
    BY <2>1, <2>2
<1>10. SpaceControl(c)
  <2> HIDE DEF r0
  <2> QED
    BY <1>2, <1>7, <1>9 DEF SpaceControl, EntriesControl
<1>11. space'[s] = c /\ \A u \in Space : u # s => space'[u] = space[u]
  BY <1>0, <1>1
<1>12. CASE r0.entries[v].owned
  <2>1. pmm' = PmmFree(pmm, r0.entries[v].page) /\ r0.entries[v].page \in Page
    BY <1>1, <1>4, <1>12, PageFacts DEF FreeIfOwned
  <2>2. k \in SlotsOf(s) /\ Use[k] = r0.entries[v].page /\ Use'[k] = NoPage
    <3> HIDE DEF v
    <3>1. k \in SlotsOf(s)
      BY <1>2 DEF SlotsOf
    <3>2. Use[k] = r0.entries[v].page /\ Use'[k] = space'[s].entries[v].page
      BY <1>2, SlotRead, SlotReadNext DEF SlotsRead
    <3> HIDE DEF k
    <3> QED
      BY <3>1, <3>2, <1>5, <1>8, <1>11
  <2>3. /\ k # <<"pml", s, 0>> => SameOrNone(c.pml, space[s].pml)
        /\ k # <<"hand", s, 0>> => SameOrNone(c.hand, space[s].hand)
    BY <1>3, <1>7 DEF SameOrNone
  <2>4. \A t \in Table : k # <<"table", s, t>> => SameOrNone(c.tables[t], space[s].tables[t])
    BY <1>7 DEF SameOrNone
  <2>5. \A w \in Virt : k # <<"entry of", s, w>> => SameOrNone(c.entries[w].page, space[s].entries[w].page)
    BY <1>8 DEF SameOrNone
  <2> HIDE DEF k, r0, v
  <2>6. Use[k] \in Page /\ pmm' = PmmFree(pmm, Use[k])
    BY <2>1, <2>2
  <2> QED
    BY <1>1, <1>7, <1>10, <2>2, <2>3, <2>4, <2>5, <2>6, SpaceGiveGood
<1>13. CASE ~r0.entries[v].owned
  <2>1. pmm' = pmm
    BY <1>1, <1>13 DEF FreeIfOwned
  <2>2. \A w \in Virt : SameOrNone(c.entries[w].page, space[s].entries[w].page)
    BY <1>4, <1>5, <1>8, <1>13, PageFacts DEF SameOrNone
  <2>3. c.pml = space[s].pml /\ c.hand = space[s].hand /\ c.tables = space[s].tables
    BY <1>3, <1>7
  <2> QED
    BY <1>1, <1>7, <1>10, <2>1, <2>2, <2>3, SpaceStillGood
<1> QED
  BY <1>12, <1>13

\* vmm_protect changes no entry as far as pages are concerned.
LEMMA VmmProtectGood ==
    ASSUME VmmInv, NEW s \in Space, NEW v \in Virt, NEW n \in Lengths, VmmProtect(s, v, n)
    PROVE  StepGood
<1> DEFINE r0 == space[s]
           es == [i \in Virt |-> IF i \in v .. v + n - 1 THEN ChangeFlags(r0.entries[i]) ELSE r0.entries[i]]
<1>0. r0 \in SpaceRecord /\ SpaceControl(r0) /\ space \in [Space -> SpaceRecord]
  BY InvPages DEF VmmInv, VmmTypeOK
<1>1. space' = [space EXCEPT ![s] = [r0 EXCEPT !.entries = es]] /\ UNCHANGED <<pmm, kernel, kernelPml, memoryMap, panic>>
  BY <1>0 DEF VmmProtect
<1>2. \A i \in Virt : ChangeFlags(r0.entries[i]) = r0.entries[i]
  <2>1. \A i \in Virt : r0.entries[i] \in Entry
    BY <1>0, SpaceFields
  <2> HIDE DEF r0
  <2> QED
    BY <2>1 DEF ChangeFlags, Entry
<1>3. es = r0.entries
  <2>1. r0.entries = [i \in Virt |-> r0.entries[i]]
    BY <1>0, SpaceFields
  <2>2. es = [i \in Virt |-> r0.entries[i]]
    <3> HIDE DEF r0
    <3> QED
      BY <1>2
  <2> QED
    BY <2>1, <2>2
<1>4. [r0 EXCEPT !.entries = es] = r0
  <2> HIDE DEF es, r0
  <2> QED
    BY <1>0, <1>3 DEF SpaceRecord
<1>5. space' = [space EXCEPT ![s] = r0]
  <2> HIDE DEF es, r0
  <2> QED
    BY <1>1, <1>4
<1>6. \A w \in Virt : SameOrNone(r0.entries[w].page, space[s].entries[w].page)
  BY DEF SameOrNone
<1> HIDE DEF es
<1> QED
  BY <1>0, <1>1, <1>5, <1>6, SpaceStillGood

\* process_free: space_cleanup
LEMMA SpaceCleanupGood ==
    ASSUME VmmInv, NEW s \in Space, SpaceCleanup(s)
    PROVE  StepGood
<1> DEFINE r0 == space[s]
           r == [r0 EXCEPT !.op = "cleanup", !.upper = NoPage]
<1>0. r0 \in SpaceRecord /\ SpaceControl(r0) /\ space \in [Space -> SpaceRecord]
  BY InvPages DEF VmmInv, VmmTypeOK
<1>1. /\ r0.op = "none" /\ r0.pml # NoPage /\ space' = [space EXCEPT ![s] = r]
      /\ UNCHANGED <<pmm, kernel, kernelPml, memoryMap, panic>>
  BY <1>0 DEF SpaceCleanup, Idle
<1>2. /\ r \in SpaceRecord /\ r.hand = r0.hand /\ r.pml = r0.pml /\ r.tables = r0.tables
      /\ r.entries = r0.entries /\ r.op = "cleanup" /\ r.upper = NoPage
  <2> HIDE DEF r0
  <2> QED
    BY <1>0 DEF SpaceRecord
<1> HIDE DEF r
<1>3. SpaceControl(r)
  <2>1. r0.hand = NoPage
    BY <1>0, <1>1 DEF SpaceControl
  <2> HIDE DEF r0
  <2> QED
    BY <1>0, <1>1, <1>2, <2>1 DEF SpaceControl
<1>4. \A w \in Virt : SameOrNone(r.entries[w].page, space[s].entries[w].page)
  BY <1>2 DEF SameOrNone
<1> QED
  BY <1>1, <1>2, <1>3, <1>4, SpaceStillGood

\* pml_free_level: a page of the table
LEMMA FreePageGood ==
    ASSUME VmmInv, NEW s \in Space, NEW v \in Virt, FreePage(s, v)
    PROVE  StepGood
<1> DEFINE r0 == space[s]
           r == [r0 EXCEPT !.entries[v] = NoEntry]
           k == <<"entry of", s, v>>
<1>0. r0 \in SpaceRecord /\ SpaceControl(r0) /\ space \in [Space -> SpaceRecord]
  BY InvPages DEF VmmInv, VmmTypeOK
<1>1. /\ r0.op = "cleanup" /\ r0.entries[v].owned /\ pmm' = PmmFree(pmm, r0.entries[v].page)
      /\ space' = [space EXCEPT ![s] = r] /\ UNCHANGED <<kernel, kernelPml, memoryMap, panic>>
  BY <1>0 DEF FreePage, Lowest, OwnedIn
<1>2. r0.entries[v].page \in HighPage /\ r0.hand = NoPage
  BY <1>0, <1>1 DEF SpaceControl
<1>3. NoEntry \in Entry /\ NoEntry.page = NoPage /\ ~NoEntry.owned
  BY DEF NoEntry, Entry
<1>4. /\ r \in SpaceRecord /\ r.pml = r0.pml /\ r.upper = r0.upper /\ r.tables = r0.tables
      /\ r.op = r0.op /\ r.owned = r0.owned /\ r.hand = NoPage
      /\ r.entries[v] = NoEntry /\ \A w \in Virt : w # v => r.entries[w] = r0.entries[w]
  <2> DEFINE a == r0.at
  <2>1. a \in 0 .. VirtAmount /\ v \in Virt
    BY <1>0, SpaceFields
  <2> HIDE DEF r0
  <2>2. SetsEntry(r0, v, NoEntry, NoPage, a, r)
    BY <1>0, <1>2 DEF SetsEntry, SpaceRecord
  <2>3. r0 \in SpaceRecord /\ NoEntry \in Entry /\ NoPage \in HighPage \cup {NoPage}
    BY <1>0, <1>3
  <2> HIDE DEF r, a
  <2> QED
    BY <2>1, <2>2, <2>3, EntryFields
<1> HIDE DEF r
<1>5. EntriesControl(r)
  <2> SUFFICES ASSUME NEW w \in Virt
               PROVE  /\ r.entries[w].owned <=> r.entries[w].page \in HighPage
                      /\ r.entries[w].page # NoPage => r.tables[TableOf(w)] # NoPage
    BY DEF EntriesControl
  <2>1. CASE w = v
    BY <2>1, <1>3, <1>4, PageFacts
  <2>2. CASE w # v
    BY <2>2, <1>0, <1>4 DEF SpaceControl
  <2> QED
    BY <2>1, <2>2
<1>6. SpaceControl(r)
  <2>1. r0.pml # NoPage /\ r0.upper = NoPage
    BY <1>0, <1>1 DEF SpaceControl
  <2> HIDE DEF r0
  <2> QED
    BY <1>1, <1>4, <1>5, <2>1 DEF SpaceControl, EntriesControl
<1>7. space'[s] = r
  BY <1>0, <1>1
<1>8. k \in SlotsOf(s) /\ Use[k] = r0.entries[v].page /\ Use'[k] = NoPage
  <2>1. k \in SlotsOf(s)
    BY DEF SlotsOf
  <2>2. Use[k] = r0.entries[v].page /\ Use'[k] = space'[s].entries[v].page
    BY SlotRead, SlotReadNext DEF SlotsRead
  <2> HIDE DEF k
  <2> QED
    BY <2>1, <2>2, <1>3, <1>4, <1>7
<1>9. /\ k # <<"pml", s, 0>> => SameOrNone(r.pml, space[s].pml)
      /\ k # <<"hand", s, 0>> => SameOrNone(r.hand, space[s].hand)
  BY <1>2, <1>4 DEF SameOrNone
<1>10. \A t \in Table : k # <<"table", s, t>> => SameOrNone(r.tables[t], space[s].tables[t])
  BY <1>4 DEF SameOrNone
<1>11. \A w \in Virt : k # <<"entry of", s, w>> => SameOrNone(r.entries[w].page, space[s].entries[w].page)
  BY <1>4 DEF SameOrNone
<1>12. Use[k] \in Page /\ pmm' = PmmFree(pmm, Use[k])
  <2> HIDE DEF k
  <2> QED
    BY <1>1, <1>2, <1>8, PageFacts
<1> HIDE DEF k, r0
<1> QED
  BY <1>1, <1>4, <1>6, <1>8, <1>9, <1>10, <1>11, <1>12, SpaceGiveGood

\* pml_free_level: the table, after its pages
LEMMA FreeTableGood ==
    ASSUME VmmInv, NEW s \in Space, NEW t \in Table, FreeTable(s, t)
    PROVE  StepGood
<1> DEFINE r0 == space[s]
           es == [v \in Virt |-> IF TableOf(v) = t THEN NoEntry ELSE r0.entries[v]]
           ts == [r0.tables EXCEPT ![t] = NoPage]
           r == [r0 EXCEPT !.tables = ts, !.entries = es]
           k == <<"table", s, t>>
<1>0. r0 \in SpaceRecord /\ SpaceControl(r0) /\ space \in [Space -> SpaceRecord]
  BY InvPages DEF VmmInv, VmmTypeOK
<1>1. /\ r0.op = "cleanup" /\ t \in TablesLeft(s) /\ OwnedIn(s, t) = {} /\ pmm' = PmmFree(pmm, r0.tables[t])
      /\ UNCHANGED <<kernel, kernelPml, memoryMap, panic>>
  BY DEF FreeTable, Lowest
<1>s. space' = [space EXCEPT ![s] = r]
  BY <1>0 DEF FreeTable
<1>2. r0.tables \in [Table -> HighPage \cup {NoPage}] /\ r0.entries \in [Virt -> Entry]
  BY <1>0, SpaceFields
<1>3. r0.tables[t] \in HighPage
  BY <1>1, <1>2 DEF TablesLeft
<1>4. NoEntry \in Entry /\ NoEntry.page = NoPage /\ ~NoEntry.owned
  BY DEF NoEntry, Entry
<1>5. es \in [Virt -> Entry] /\ ts \in [Table -> HighPage \cup {NoPage}]
  <2> HIDE DEF r0
  <2> QED
    BY <1>2, <1>4
<1>6. ts[t] = NoPage /\ \A u \in Table : u # t => ts[u] = r0.tables[u]
  BY <1>2
<1>7. \A v \in Virt : es[v] = IF TableOf(v) = t THEN NoEntry ELSE r0.entries[v]
  OBVIOUS
<1> HIDE DEF es, ts
<1>8. /\ r \in SpaceRecord /\ r.pml = r0.pml /\ r.upper = r0.upper /\ r.tables = ts /\ r.entries = es
      /\ r.op = r0.op /\ r.owned = r0.owned /\ r.hand = r0.hand
  <2> HIDE DEF r0
  <2> QED
    BY <1>0, <1>5 DEF SpaceRecord
<1> HIDE DEF r
<1>9. EntriesControl(r)
  <2> SUFFICES ASSUME NEW w \in Virt
               PROVE  /\ r.entries[w].owned <=> r.entries[w].page \in HighPage
                      /\ r.entries[w].page # NoPage => r.tables[TableOf(w)] # NoPage
    BY DEF EntriesControl
  <2>0. TableOf(w) \in Table
    BY DEF Table
  <2>1. CASE TableOf(w) = t
    BY <2>1, <1>4, <1>7, <1>8, PageFacts
  <2>2. CASE TableOf(w) # t
    BY <2>0, <2>2, <1>0, <1>6, <1>7, <1>8 DEF SpaceControl
  <2> QED
    BY <2>1, <2>2
<1>10. SpaceControl(r)
  <2>1. r0.pml # NoPage /\ r0.upper = NoPage /\ r0.hand = NoPage
    BY <1>0, <1>1 DEF SpaceControl
  <2> HIDE DEF r0
  <2> QED
    BY <1>1, <1>8, <1>9, <2>1 DEF SpaceControl, EntriesControl
<1>11. space'[s] = r
  BY <1>0, <1>s
<1>12. k \in SlotsOf(s) /\ Use[k] = r0.tables[t] /\ Use'[k] = NoPage
  <2>1. k \in SlotsOf(s)
    BY DEF SlotsOf
  <2>2. Use[k] = r0.tables[t] /\ Use'[k] = space'[s].tables[t]
    BY SlotRead, SlotReadNext DEF SlotsRead
  <2> HIDE DEF k, r0
  <2> QED
    BY <2>1, <2>2, <1>6, <1>8, <1>11
<1>13. /\ k # <<"pml", s, 0>> => SameOrNone(r.pml, space[s].pml)
       /\ k # <<"hand", s, 0>> => SameOrNone(r.hand, space[s].hand)
  BY <1>8 DEF SameOrNone
<1>14. \A u \in Table : k # <<"table", s, u>> => SameOrNone(r.tables[u], space[s].tables[u])
  BY <1>6, <1>8 DEF SameOrNone
<1>15. ASSUME NEW w \in Virt PROVE SameOrNone(r.entries[w].page, space[s].entries[w].page)
  <2>1. CASE TableOf(w) = t
    <3>1. ~r0.entries[w].owned
      BY <1>1, <2>1 DEF OwnedIn
    <3>2. r0.entries[w].page \notin HighPage /\ r0.entries[w].page \in HighPage \cup {NoPage, Device}
      BY <3>1, <1>0, SpaceFields DEF SpaceControl
    <3> QED
      BY <3>2, <2>1, <1>4, <1>7, <1>8, PageFacts DEF SameOrNone
  <2>2. CASE TableOf(w) # t
    BY <2>2, <1>7, <1>8 DEF SameOrNone
  <2> QED
    BY <2>1, <2>2
<1>16. Use[k] \in Page /\ pmm' = PmmFree(pmm, Use[k])
  <2> HIDE DEF k
  <2> QED
    BY <1>1, <1>3, <1>12, PageFacts
<1>17. \A w \in Virt : k # <<"entry of", s, w>> => SameOrNone(r.entries[w].page, space[s].entries[w].page)
  BY <1>15
<1> HIDE DEF k, r0
<1> QED
  BY <1>1, <1>s, <1>8, <1>10, <1>12, <1>13, <1>14, <1>16, <1>17, SpaceGiveGood

\* pml_free: the root, last
LEMMA FreeRootGood ==
    ASSUME VmmInv, NEW s \in Space, FreeRoot(s)
    PROVE  StepGood
<1> DEFINE r0 == space[s]
           r == NoSpace
           k == <<"pml", s, 0>>
<1>0. r0 \in SpaceRecord /\ SpaceControl(r0) /\ space \in [Space -> SpaceRecord]
  BY InvPages DEF VmmInv, VmmTypeOK
<1>1. r0.op = "cleanup" /\ TablesLeft(s) = {} /\ space' = [space EXCEPT ![s] = r]
      /\ UNCHANGED <<kernel, kernelPml, memoryMap, panic>>
  BY DEF FreeRoot
<1>2. r0.pml # NoPage /\ r0.upper = NoPage /\ r0.hand = NoPage
  BY <1>0, <1>1 DEF SpaceControl
<1>3. pmm' = PmmFree(pmm, r0.pml) /\ r0.pml \in HighPage
  BY <1>0, <1>2, SpaceFields DEF FreeRoot
<1>4. \A t \in Table : r0.tables[t] = NoPage
  BY <1>1 DEF TablesLeft
<1>5. \A v \in Virt : r0.entries[v].page = NoPage
  <2>1. \A v \in Virt : TableOf(v) \in Table
    BY DEF Table
  <2> QED
    BY <2>1, <1>0, <1>4 DEF SpaceControl
<1>6. NoEntry \in Entry /\ NoEntry.page = NoPage /\ ~NoEntry.owned
  BY DEF NoEntry, Entry
<1>7. /\ r \in SpaceRecord /\ r.pml = NoPage /\ r.hand = NoPage /\ r.op = "none"
      /\ r.tables = [t \in Table |-> NoPage] /\ r.entries = [v \in Virt |-> NoEntry]
  <2>1. 0 \in 0 .. VirtAmount
    BY VirtAssumption
  <2>2. [t \in Table |-> NoPage] \in [Table -> HighPage \cup {NoPage}] /\ [v \in Virt |-> NoEntry] \in [Virt -> Entry]
    BY <1>6
  <2> QED
    BY <2>1, <2>2 DEF NoSpace, SpaceRecord
<1> HIDE DEF r
<1>8. SpaceControl(r)
  <2>1. \A v \in Virt : r.entries[v] = NoEntry
    BY <1>7
  <2> QED
    BY <1>6, <1>7, <2>1, PageFacts DEF SpaceControl
<1>9. space'[s] = r
  BY <1>0, <1>1
<1>10. k \in SlotsOf(s) /\ Use[k] = r0.pml /\ Use'[k] = NoPage
  <2>1. k \in SlotsOf(s)
    BY DEF SlotsOf
  <2>2. Use[k] = r0.pml /\ Use'[k] = space'[s].pml
    BY SlotRead, SlotReadNext DEF SlotsRead
  <2> HIDE DEF k, r0
  <2> QED
    BY <2>1, <2>2, <1>7, <1>9
<1>11. /\ k # <<"pml", s, 0>> => SameOrNone(r.pml, space[s].pml)
       /\ k # <<"hand", s, 0>> => SameOrNone(r.hand, space[s].hand)
  BY <1>2, <1>7 DEF SameOrNone
<1>12. \A t \in Table : k # <<"table", s, t>> => SameOrNone(r.tables[t], space[s].tables[t])
  BY <1>4, <1>7 DEF SameOrNone
<1>13. \A v \in Virt : k # <<"entry of", s, v>> => SameOrNone(r.entries[v].page, space[s].entries[v].page)
  BY <1>5, <1>6, <1>7 DEF SameOrNone
<1>14. Use[k] \in Page /\ pmm' = PmmFree(pmm, Use[k])
  <2> HIDE DEF k
  <2> QED
    BY <1>3, <1>10, PageFacts
<1> HIDE DEF k, r0
<1> QED
  BY <1>1, <1>7, <1>8, <1>10, <1>11, <1>12, <1>13, <1>14, SpaceGiveGood

\* Steps that change no space
LEMMA KernelStepGood ==
    ASSUME VmmInv, UNCHANGED <<space, kernelPml>>, panic' \in {"none", "no more memory", "fault"},
           kernel' \subseteq HighPage, memoryMap' \subseteq Page,
           NEW lost, PagesStep(lost), lost \subseteq CutOff \cup Overwritten
    PROVE  StepGood
<1>1. pmm' \in Pmm
  BY DEF PagesStep, PmmGood
<1>2. VmmTypeOK'
  BY <1>1 DEF VmmInv, VmmTypeOK
<1>3. VmmInv'
  BY <1>2 DEF VmmInv, PagesStep
<1>4. UsedPages \subseteq UsedPages' \cup CutOff \cup Overwritten
  BY DEF PagesStep
<1> QED
  BY <1>3, <1>4 DEF StepGood

LEMMA SameUse ==
    ASSUME UNCHANGED <<space, kernelPml>>
    PROVE  Use' = Use
  BY DEF Use, SlotPage

\* simd_context_init, ring_init, the kernel's heap
LEMMA KernelAllocGood ==
    ASSUME VmmInv, NEW p \in HighPage, KernelAlloc(p)
    PROVE  StepGood
<1>1. /\ Takes(p) /\ kernel' = kernel \cup {p} /\ memoryMap' = memoryMap /\ UNCHANGED <<space, kernelPml>> /\ panic' = panic
  BY DEF KernelAlloc, Takes, TakesFrom
<1>2. PagesNow /\ kernel' \subseteq HighPage /\ memoryMap' \subseteq Page /\ panic' \in {"none", "no more memory", "fault"}
  BY <1>1, InvPages DEF VmmInv, VmmTypeOK
<1>3. \A x \in Slot : Use'[x] = Use[x]
  BY <1>1, SameUse
<1>4. PagesStep(CutOff) /\ CutOff \subseteq CutOff \cup Overwritten
  BY <1>1, <1>2, <1>3, SetTakeStep, CutIsCutOff
<1> QED
  BY <1>1, <1>2, <1>4, KernelStepGood

\* simd_context_cleanup, ring_cleanup; pmm_load_memory and kernel_free_boot_data
LEMMA KernelFreeGood ==
    ASSUME VmmInv, NEW p, KernelFree(p) \/ PmmLoadMemory(p) \/ FreeBootData(p)
    PROVE  StepGood
<1>1. /\ pmm' = PmmFree(pmm, p) /\ UNCHANGED <<space, kernelPml>> /\ panic' = panic
      /\ \/ p \in kernel /\ kernel' = kernel \ {p} /\ memoryMap' = memoryMap
         \/ p \in memoryMap /\ memoryMap' = memoryMap \ {p} /\ kernel' = kernel
  BY DEF KernelFree, PmmLoadMemory, FreeBootData
<1>2. PagesNow /\ kernel' \subseteq HighPage /\ memoryMap' \subseteq Page /\ panic' \in {"none", "no more memory", "fault"}
  BY <1>1, InvPages DEF VmmInv, VmmTypeOK
<1>3. \A x \in Slot : Use'[x] = Use[x]
  BY <1>1, SameUse
<1>4. PagesStep({}) /\ {} \subseteq CutOff \cup Overwritten
  BY <1>1, <1>2, <1>3, SetGiveStep
<1> QED
  BY <1>1, <1>2, <1>4, KernelStepGood

\* A panic, or no step of the memory at all
LEMMA PanicGood ==
    ASSUME VmmInv, OutOfMemory \/ UNCHANGED vmmVars
    PROVE  StepGood
<1>1. /\ UNCHANGED <<pmm, space, kernel, kernelPml, memoryMap>> /\ panic' \in {"none", "no more memory", "fault"}
  BY DEF OutOfMemory, AllocPanic, vmmVars, VmmInv, VmmTypeOK
<1>2. PagesNow /\ kernel' \subseteq HighPage /\ memoryMap' \subseteq Page
  BY <1>1, InvPages DEF VmmInv, VmmTypeOK
<1>3. \A x \in Slot : SameOrNone(Use'[x], Use[x])
  BY <1>1, SameUse DEF SameOrNone
<1>4. PagesStep({}) /\ {} \subseteq CutOff \cup Overwritten
  BY <1>1, <1>2, <1>3, StillStep
<1> QED
  BY <1>1, <1>2, <1>4, KernelStepGood

\* vmm_load_memory_map: the root of the kernel's space comes from the bitmap, its first
\* table from the page stack.
LEMMA LoadGood ==
    ASSUME VmmInv, NEW root \in LowPage, NEW p \in HighPage, VmmLoadMemoryMap(root, p)
    PROVE  StepGood
<1> DEFINE m == [pmm EXCEPT !.bitmap = BitmapReserve(pmm.bitmap, root, root + 1)]
           k0 == <<"kernelPml", 0, 0>>
           k1 == <<"kernelPml", 0, 1>>
           mid == [Use EXCEPT ![k0] = root]
<1>0. PagesNow /\ PmmGood(pmm) /\ Sole(Use, FreePages(pmm), kernel, memoryMap)
  BY InvPages DEF VmmInv, SolePages
<1>1. /\ kernelPml.pml = NoPage /\ kernelPml.table = NoPage /\ root = BitmapFind(pmm.bitmap, 1, LowAmount, 1)
      /\ TakesFrom(m, p) /\ kernelPml' = [pml |-> root, table |-> p] /\ UNCHANGED <<space, kernel, memoryMap>>
  BY DEF VmmLoadMemoryMap, VmmInv
<1>2. /\ pmm = [stack |-> pmm.stack, bitmap |-> pmm.bitmap] /\ StackGood(pmm.stack)
      /\ pmm.stack \in Stack /\ pmm.bitmap \in Bitmap /\ FreePages(pmm) \subseteq Page
      /\ pmm.bitmap = [reserved |-> pmm.bitmap.reserved, firstFreeIndex |-> pmm.bitmap.firstFreeIndex]
      /\ pmm.bitmap.reserved \subseteq LowPage /\ pmm.bitmap.firstFreeIndex \in 0 .. LowAmount
  BY <1>0, PmmTypes
<1>3. root \notin pmm.bitmap.reserved /\ root \in FreePages(pmm) /\ root \in Page
  <2>1. root \notin pmm.bitmap.reserved
    BY <1>1, <1>2, BitmapFindsFree
  <2> QED
    BY <2>1, PageFacts DEF FreePages
<1>4. root .. (root + 1) - 1 = {root}
  BY HighNotLow
<1>5. /\ m.stack = pmm.stack /\ m.bitmap.reserved = pmm.bitmap.reserved \cup {root}
      /\ PmmGood(m) /\ FreePages(m) = FreePages(pmm) \ {root}
  <2> DEFINE b == BitmapReserve(pmm.bitmap, root, root + 1)
  <2>1. b.reserved = pmm.bitmap.reserved \cup {root} /\ b \in Bitmap
    BY <1>2, <1>4 DEF BitmapReserve, Bitmap
  <2>m. m = [pmm EXCEPT !.bitmap = b]
    OBVIOUS
  <2> HIDE DEF b, m
  <2>2. m.stack = pmm.stack /\ m.bitmap = b /\ m \in Pmm
    BY <1>2, <2>1, <2>m DEF Pmm
  <2>3. root \notin StackPages(pmm.stack)
    BY HighNotLow DEF StackPages
  <2>4. FreePages(m) = FreePages(pmm) \ {root}
    BY <2>1, <2>2, <2>3 DEF FreePages
  <2> QED
    BY <1>2, <2>1, <2>2, <2>4 DEF PmmGood
<1> HIDE DEF m
<1>6. /\ PmmGood(pmm') /\ p \in FreePages(m) /\ p \notin FreePages(pmm')
      /\ FreePages(pmm') \subseteq FreePages(m)
      /\ FreePages(m) \subseteq FreePages(pmm') \cup {p} \cup CutOff
      /\ panic' = panic
  BY <1>1, <1>5, TakesGood, CutIsCutOff
<1>7. k0 \in Slot /\ k1 \in Slot /\ k0 # k1 /\ Use[k0] = NoPage /\ Use[k1] = NoPage /\ Use'[k0] = root /\ Use'[k1] = p
  <2>1. /\ k0 \in Slot /\ Use[k0] = kernelPml.pml /\ Use'[k0] = kernelPml'.pml
        /\ k1 \in Slot /\ Use[k1] = kernelPml.table /\ Use'[k1] = kernelPml'.table
    BY SlotRead, SlotReadNext DEF SlotsRead
  <2> QED
    BY <1>1, <2>1
<1>8. \A x \in Slot : x # k0 /\ x # k1 => Use'[x] = Use[x]
  <2> SUFFICES ASSUME NEW x \in Slot, x # k0, x # k1 PROVE Use'[x] = Use[x]
    OBVIOUS
  <2>1. PICK s \in Space : x \in SlotsOf(s)
    BY SlotCases DEF RootSlots
  <2> QED
    BY <1>1, <2>1, SpaceKeeps
<1>9. /\ \A x \in Slot : mid[x] = IF x = k0 THEN root ELSE Use[x]
  <2> HIDE DEF k0
  <2> QED
    BY <1>7 DEF Use
<1> HIDE DEF k0, k1, mid
<1>10. root \notin kernel /\ root \notin memoryMap /\ \A x \in Slot : Use[x] # root
  BY <1>0, <1>3 DEF Sole
<1>11. Sole(mid, FreePages(m), kernel, memoryMap)
  <2>1. Moves(Use, FreePages(pmm), kernel, memoryMap, mid, FreePages(m), kernel, memoryMap, root)
    BY <1>5, <1>7, <1>9, <1>10 DEF Moves
  <2>2. FreePages(m) \subseteq Page /\ kernel \subseteq Page /\ memoryMap \subseteq Page
    BY <1>0, <1>2, <1>5 DEF PagesNow
  <2> QED
    BY <1>0, <1>2, <2>1, <2>2, SoleMoves
<1>12. p \in Page /\ p \notin kernel /\ p \notin memoryMap /\ (\A x \in Slot : mid[x] # p) /\ p # root
  BY <1>6, <1>7, <1>9, <1>11, PageFacts DEF Sole
<1>13. \A x \in Slot : Use'[x] = IF x = k1 THEN p ELSE mid[x]
  BY <1>7, <1>8, <1>9
<1>14. SolePages'
  <2>1. Moves(mid, FreePages(m), kernel, memoryMap, Use', FreePages(pmm'), kernel', memoryMap', p)
    BY <1>1, <1>6, <1>12, <1>13 DEF Moves
  <2>2. /\ FreePages(m) \subseteq Page /\ kernel \subseteq Page /\ memoryMap \subseteq Page
        /\ FreePages(pmm') \subseteq Page /\ kernel' \subseteq Page /\ memoryMap' \subseteq Page
    BY <1>0, <1>1, <1>2, <1>5, <1>6 DEF PagesNow
  <2>3. Sole(Use', FreePages(pmm'), kernel', memoryMap')
    BY <1>11, <2>1, <2>2, SoleMoves
  <2> QED
    BY <2>3 DEF SolePages
<1>15. UsedPages \subseteq UsedPages' \cup CutOff
  <2> SUFFICES ASSUME NEW q \in UsedPages, q \notin CutOff PROVE q \in UsedPages'
    OBVIOUS
  <2>1. CASE q = root \/ q = p
    BY <2>1, <1>3, <1>7, <1>12 DEF UsedPages
  <2>2. CASE q # root /\ q # p /\ q \in FreePages(pmm)
    BY <2>2, <1>5, <1>6 DEF UsedPages
  <2>3. CASE q \in kernel \cup memoryMap
    BY <2>3, <1>1 DEF UsedPages
  <2>4. CASE q \in Page /\ \E x \in Slot : Use[x] = q
    <3>1. PICK x \in Slot : Use[x] = q
      BY <2>4
    <3>2. Use'[x] = q
      BY <3>1, <2>4, <1>7, <1>8, PageFacts
    <3> QED
      BY <2>4, <3>2 DEF UsedPages
  <2> QED
    BY <2>1, <2>2, <2>3, <2>4 DEF UsedPages
<1>16. VmmTypeOK'
  <2>1. pmm' \in Pmm
    BY <1>6 DEF PmmGood
  <2>2. kernelPml' \in [pml: LowPage \cup {NoPage}, table: HighPage \cup {NoPage}] /\ kernelPml'.pml # NoPage
    BY <1>1, PageFacts
  <2> QED
    BY <1>1, <1>6, <2>1, <2>2 DEF VmmInv, VmmTypeOK
<1>17. kernelPml'.pml # NoPage
  BY <1>1, PageFacts
<1>18. \A s \in Space : SpaceControl(space'[s])
  BY <1>1 DEF VmmInv
<1> QED
  BY <1>6, <1>14, <1>15, <1>16, <1>17, <1>18 DEF StepGood, VmmInv

\* Every step of the system
LEMMA VmmStepGood ==
    ASSUME VmmInv, [VmmNext]_vmmVars
    PROVE  StepGood
<1>1. CASE \E p \in Page : PmmLoadMemory(p) \/ FreeBootData(p)
  BY <1>1, KernelFreeGood
<1>2. CASE \E root \in LowPage, p \in HighPage : VmmLoadMemoryMap(root, p)
  BY <1>2, LoadGood
<1>3. ASSUME NEW s \in Space, Operation(s) PROVE StepGood
  <2>1. CASE \E p \in HighPage : SpaceInit(s, p) \/ MapTakePage(s, p) \/ MapTakeTable(s, p)
    BY <2>1, SpaceInitGood, MapTakePageGood, MapTakeTableGood
  <2>2. ASSUME NEW v \in Virt, NEW n \in Lengths, NEW owned \in BOOLEAN,
               VmmAllocAt(s, v, n, owned) \/ VmmAllocAnywhere(s, v, n, owned)
        PROVE  StepGood
    BY <2>2, VmmAllocGood
  <2>3. ASSUME NEW v \in Virt, NEW n \in Lengths, VmmUnmap(s, v, n) \/ VmmProtect(s, v, n) PROVE StepGood
    BY <2>3, VmmUnmapGood, VmmProtectGood
  <2>4. CASE MapEntry(s)
    BY <2>4, MapEntryGood
  <2>5. CASE UnmapEntry(s)
    BY <2>5, UnmapEntryGood
  <2>6. CASE SpaceCleanup(s)
    BY <2>6, SpaceCleanupGood
  <2>7. CASE \E v \in Virt : FreePage(s, v)
    BY <2>7, FreePageGood
  <2>8. CASE \E t \in Table : FreeTable(s, t)
    BY <2>8, FreeTableGood
  <2>9. CASE FreeRoot(s)
    BY <2>9, FreeRootGood
  <2> QED
    BY <1>3, <2>1, <2>2, <2>3, <2>4, <2>5, <2>6, <2>7, <2>8, <2>9 DEF Operation
<1>4. CASE \E p \in HighPage : KernelAlloc(p) \/ KernelFree(p)
  BY <1>4, KernelAllocGood, KernelFreeGood
<1>5. CASE OutOfMemory \/ UNCHANGED vmmVars
  BY <1>5, PanicGood
<1> QED
  BY <1>1, <1>2, <1>3, <1>4, <1>5 DEF VmmNext

\* Before pmm_init no page is free or in a slot, and all are in the memory map.
LEMMA VmmInitGood ==
    ASSUME VmmInit
    PROVE  VmmInv
<1>1. EmptyStack \in Stack /\ EmptyStack.buffers = <<>> /\ Len(EmptyStack.buffers) = 0
  BY BufferAssumption DEF EmptyStack, Stack
<1>2. \A i, j : ~StackHolds(EmptyStack, i, j)
  BY <1>1 DEF StackHolds
<1>3. StackGood(EmptyStack) /\ StackPages(EmptyStack) = {}
  BY <1>1, <1>2 DEF StackGood, StackFits, StackOnce, StackPages
<1>4. FullBitmap \in Bitmap /\ FullBitmap.reserved = LowPage
  BY PageAssumption DEF FullBitmap, Bitmap
<1>5. PmmGood(pmm) /\ FreePages(pmm) = {}
  <2>1. pmm \in Pmm /\ pmm.stack = EmptyStack /\ pmm.bitmap = FullBitmap
    BY <1>1, <1>4 DEF VmmInit, Pmm
  <2> QED
    BY <1>3, <1>4, <2>1 DEF PmmGood, FreePages
<1>6. NoEntry \in Entry /\ NoEntry.page = NoPage /\ ~NoEntry.owned
  BY DEF NoEntry, Entry
<1>7. /\ NoSpace \in SpaceRecord /\ NoSpace.pml = NoPage /\ NoSpace.hand = NoPage /\ NoSpace.op = "none"
      /\ NoSpace.tables = [t \in Table |-> NoPage] /\ NoSpace.entries = [v \in Virt |-> NoEntry]
  <2>1. 0 \in 0 .. VirtAmount
    BY VirtAssumption
  <2>2. [t \in Table |-> NoPage] \in [Table -> HighPage \cup {NoPage}] /\ [v \in Virt |-> NoEntry] \in [Virt -> Entry]
    BY <1>6
  <2> QED
    BY <2>1, <2>2 DEF NoSpace, SpaceRecord
<1>8. SpaceControl(NoSpace)
  <2>1. \A v \in Virt : NoSpace.entries[v] = NoEntry
    BY <1>7
  <2> QED
    BY <1>6, <1>7, <2>1, PageFacts DEF SpaceControl
<1>9. \A s \in Space : space[s] = NoSpace
  BY DEF VmmInit
<1>10. VmmTypeOK
  <2>1. space \in [Space -> SpaceRecord]
    BY <1>7 DEF VmmInit
  <2>2. kernelPml \in [pml: LowPage \cup {NoPage}, table: HighPage \cup {NoPage}]
    BY DEF VmmInit
  <2>3. memoryMap \subseteq Page /\ kernel \subseteq HighPage /\ panic \in {"none", "no more memory", "fault"}
    BY MemoryMapAssumption, PageFacts DEF VmmInit
  <2> QED
    BY <1>5, <2>1, <2>2, <2>3 DEF VmmTypeOK, PmmGood
<1>11. \A x \in Slot : Use[x] = NoPage
  <2>1. ASSUME NEW x \in RootSlots PROVE Use[x] = NoPage
    BY SlotRead DEF RootSlots, SlotsRead, VmmInit
  <2>2. ASSUME NEW s \in Space, NEW x \in SlotsOf(s) PROVE Use[x] = NoPage
    <3>1. CASE x = <<"pml", s, 0>> \/ x = <<"hand", s, 0>>
      BY <3>1, <1>7, <1>9, SlotRead DEF SlotsRead
    <3>2. ASSUME NEW t \in Table, x = <<"table", s, t>> PROVE Use[x] = NoPage
      <4>1. Use[<<"table", s, t>>] = space[s].tables[t]
        BY SlotRead DEF SlotsRead
      <4> QED
        BY <3>2, <4>1, <1>7, <1>9
    <3>3. ASSUME NEW v \in Virt, x = <<"entry of", s, v>> PROVE Use[x] = NoPage
      <4>1. Use[<<"entry of", s, v>>] = space[s].entries[v].page
        BY SlotRead DEF SlotsRead
      <4>2. space[s].entries[v] = NoEntry
        BY <1>7, <1>9
      <4> QED
        BY <3>3, <4>1, <4>2, <1>6
    <3> QED
      BY <3>1, <3>2, <3>3 DEF SlotsOf
  <2> QED
    BY <2>1, <2>2, SlotCases
<1>12. SolePages
  <2>1. kernel = {} /\ memoryMap \subseteq Page
    BY <1>10 DEF VmmInit, VmmTypeOK
  <2> QED
    BY <1>5, <1>11, <2>1, PageFacts DEF SolePages, Sole
<1>13. kernelPml.table = NoPage
  BY DEF VmmInit
<1> QED
  BY <1>5, <1>8, <1>9, <1>10, <1>12, <1>13 DEF VmmInv

-----------------------------------------------------------------------------
(* Places *)

InStack(x) ==
    \E i, j : /\ StackHolds(pmm.stack, i, j)
              /\ x = <<IF j = 0 THEN "buffer" ELSE "entry", i, j, StackAt(pmm.stack, i, j)>>

InBitmap(x) == \E q \in LowPage \ pmm.bitmap.reserved : x = <<"bitmap", 0, 0, q>>

InSlot(x) == \E k \in Slot : x = <<k[1], k[2], k[3], Use[k]>> /\ Use[k] \in Page

InKernel(x) == \E q \in kernel : x = <<"kernel", 0, 0, q>>

InMemoryMap(x) == \E q \in memoryMap : x = <<"memoryMap", 0, 0, q>>

\* Places where the allocator has a page
LEMMA FreePlacesAre ==
    ASSUME PmmGood(pmm), NEW x
    PROVE  x \in FreePlaces(pmm) <=> InStack(x) \/ InBitmap(x)
<1> DEFINE st == pmm.stack
           bs == st.buffers
<1>0. /\ Len(bs) \in Nat /\ \A i \in 1 .. Len(bs) : Len(bs[i].pages) \in Nat
  BY PmmTypes, StackTypes
<1>1. ASSUME NEW i \in 1 .. Len(bs), x = <<"buffer", i, 0, bs[i].page>> PROVE InStack(x)
  <2>1. StackHolds(st, i, 0) /\ StackAt(st, i, 0) = bs[i].page
    BY <1>0 DEF StackHolds, StackAt
  <2> QED
    BY <1>1, <2>1 DEF InStack
<1>2. ASSUME NEW i \in 1 .. Len(bs), NEW j \in 1 .. Len(bs[i].pages), x = <<"entry", i, j, bs[i].pages[j]>>
      PROVE  InStack(x)
  <2>1. j # 0 /\ j \in 0 .. Len(bs[i].pages)
    BY <1>0
  <2>2. StackHolds(st, i, j) /\ StackAt(st, i, j) = bs[i].pages[j]
    BY <2>1 DEF StackHolds, StackAt
  <2> QED
    BY <1>2, <2>1, <2>2 DEF InStack
<1>3. ASSUME InStack(x)
      PROVE  \/ \E i \in 1 .. Len(bs) : x = <<"buffer", i, 0, bs[i].page>>
             \/ \E i \in 1 .. Len(bs) : \E j \in 1 .. Len(bs[i].pages) : x = <<"entry", i, j, bs[i].pages[j]>>
  <2>1. PICK i, j : /\ StackHolds(st, i, j)
                    /\ x = <<IF j = 0 THEN "buffer" ELSE "entry", i, j, StackAt(st, i, j)>>
    BY <1>3 DEF InStack
  <2>2. i \in 1 .. Len(bs) /\ j \in 0 .. Len(bs[i].pages)
    BY <2>1 DEF StackHolds
  <2>3. CASE j = 0
    BY <2>1, <2>2, <2>3 DEF StackAt
  <2>4. CASE j # 0
    <3>1. j \in 1 .. Len(bs[i].pages)
      BY <1>0, <2>2, <2>4
    <3>2. x = <<"entry", i, j, bs[i].pages[j]>>
      BY <2>1, <2>4 DEF StackAt
    <3> QED
      BY <2>2, <3>1, <3>2
  <2> QED
    BY <2>3, <2>4
<1>4. x \in FreePlaces(pmm) <=>
        \/ \E i \in 1 .. Len(bs) : x = <<"buffer", i, 0, bs[i].page>>
        \/ \E i \in 1 .. Len(bs) : \E j \in 1 .. Len(bs[i].pages) : x = <<"entry", i, j, bs[i].pages[j]>>
        \/ InBitmap(x)
  <2> DEFINE P == {<<"buffer", i, 0, bs[i].page>> : i \in 1 .. Len(bs)}
             Q(i) == {<<"entry", i, j, bs[i].pages[j]>> : j \in 1 .. Len(bs[i].pages)}
             R == {<<"bitmap", 0, 0, i>> : i \in LowPage \ pmm.bitmap.reserved}
             V == UNION {Q(i) : i \in 1 .. Len(bs)}
  <2>1. x \in FreePlaces(pmm) <=> x \in P \cup V \cup R
    BY Zenon DEF FreePlaces
  <2>2. x \in P <=> \E i \in 1 .. Len(bs) : x = <<"buffer", i, 0, bs[i].page>>
    BY Zenon
  <2>3. \A i \in 1 .. Len(bs) :
            x \in Q(i) <=> \E j \in 1 .. Len(bs[i].pages) : x = <<"entry", i, j, bs[i].pages[j]>>
    BY Zenon
  <2>4. x \in R <=> InBitmap(x)
    BY Zenon DEF InBitmap
  <2> HIDE DEF P, Q, R
  <2>5. x \in V <=> \E i \in 1 .. Len(bs) : x \in Q(i)
    BY Zenon
  <2> HIDE DEF V
  <2>6. x \in FreePlaces(pmm) <=> x \in P \/ x \in V \/ x \in R
    BY <2>1, Zenon
  <2>7. x \in V <=> \E i \in 1 .. Len(bs) : \E j \in 1 .. Len(bs[i].pages) : x = <<"entry", i, j, bs[i].pages[j]>>
    <3> HIDE DEF bs
    <3> QED
      BY <2>3, <2>5, Zenon
  <2> HIDE DEF bs
  <2> QED
    BY <2>2, <2>4, <2>6, <2>7, Zenon
<1> QED
  BY <1>1, <1>2, <1>3, <1>4

\* What a slot holds
LEMMA SlotTypes ==
    ASSUME VmmInv, NEW k \in Slot
    PROVE  Use[k] \in Page \cup {NoPage, Device}
<1>1. CASE k \in RootSlots
  <2>1. kernelPml.pml \in LowPage \cup {NoPage} /\ kernelPml.table \in HighPage \cup {NoPage}
    BY DEF VmmInv, VmmTypeOK
  <2> QED
    BY <1>1, <2>1, SlotRead, PageFacts DEF RootSlots, SlotsRead
<1>2. ASSUME NEW s \in Space, k \in SlotsOf(s) PROVE Use[k] \in Page \cup {NoPage, Device}
  <2>0. /\ space[s].pml \in HighPage \cup {NoPage} /\ space[s].hand \in HighPage \cup {NoPage}
        /\ \A t \in Table : space[s].tables[t] \in HighPage \cup {NoPage}
        /\ \A v \in Virt : space[s].entries[v].page \in HighPage \cup {NoPage, Device}
    <3>1. space[s] \in SpaceRecord
      BY InvPages
    <3> QED
      BY <3>1, SpaceFields
  <2>1. CASE k = <<"pml", s, 0>> \/ k = <<"hand", s, 0>>
    BY <2>0, <2>1, SlotRead, PageFacts, ZenonT(60) DEF SlotsRead
  <2>2. ASSUME NEW t \in Table, k = <<"table", s, t>> PROVE Use[k] \in Page \cup {NoPage, Device}
    <3>1. Use[<<"table", s, t>>] = space[s].tables[t]
      BY SlotRead DEF SlotsRead
    <3> QED
      BY <2>0, <2>2, <3>1, PageFacts
  <2>3. ASSUME NEW v \in Virt, k = <<"entry of", s, v>> PROVE Use[k] \in Page \cup {NoPage, Device}
    <3>1. Use[<<"entry of", s, v>>] = space[s].entries[v].page
      BY SlotRead DEF SlotsRead
    <3> QED
      BY <2>0, <2>3, <3>1, PageFacts
  <2> QED
    BY <1>2, <2>1, <2>2, <2>3 DEF SlotsOf
<1> QED
  BY <1>1, <1>2, SlotCases

\* The place of a slot
SlotPlace(k) == <<k[1], k[2], k[3], Use[k]>>

LEMMA SpacePlacesAre ==
    ASSUME NEW s \in Space, NEW x
    PROVE  x \in SpacePlaces(s) <=> \E k \in SlotsOf(s) : x = SlotPlace(k)
<1>1. /\ SlotPlace(<<"pml", s, 0>>) = <<"pml", s, 0, space[s].pml>>
      /\ SlotPlace(<<"hand", s, 0>>) = <<"hand", s, 0, space[s].hand>>
  BY SlotRead DEF SlotsRead, SlotPlace
<1>2. \A t \in Table : SlotPlace(<<"table", s, t>>) = <<"table", s, t, space[s].tables[t]>>
  BY SlotRead DEF SlotsRead, SlotPlace
<1>3. \A v \in Virt : SlotPlace(<<"entry of", s, v>>) = <<"entry of", s, v, space[s].entries[v].page>>
  BY SlotRead DEF SlotsRead, SlotPlace
<1>4. x \in SpacePlaces(s) <=>
        \/ x = <<"pml", s, 0, space[s].pml>> \/ x = <<"hand", s, 0, space[s].hand>>
        \/ \E t \in Table : x = <<"table", s, t, space[s].tables[t]>>
        \/ \E v \in Virt : x = <<"entry of", s, v, space[s].entries[v].page>>
  BY Zenon DEF SpacePlaces
<1>5. \A k : k \in SlotsOf(s) <=>
        \/ k = <<"pml", s, 0>> \/ k = <<"hand", s, 0>>
        \/ \E t \in Table : k = <<"table", s, t>>
        \/ \E v \in Virt : k = <<"entry of", s, v>>
  BY Zenon DEF SlotsOf
<1>6. x \in SpacePlaces(s) <=>
        \/ x = SlotPlace(<<"pml", s, 0>>) \/ x = SlotPlace(<<"hand", s, 0>>)
        \/ \E t \in Table : x = SlotPlace(<<"table", s, t>>)
        \/ \E v \in Virt : x = SlotPlace(<<"entry of", s, v>>)
  BY <1>1, <1>2, <1>3, <1>4, Zenon
<1> QED
  BY <1>5, <1>6, Zenon

LEMMA PlacesAre ==
    ASSUME VmmInv, NEW x
    PROVE  x \in Places <=> InStack(x) \/ InBitmap(x) \/ InSlot(x) \/ InKernel(x) \/ InMemoryMap(x)
<1>0. PmmGood(pmm) /\ FreePages(pmm) \subseteq Page /\ kernel \subseteq Page /\ memoryMap \subseteq Page
  BY InvPages, PmmTypes DEF PagesNow
<1>1. x \in FreePlaces(pmm) <=> InStack(x) \/ InBitmap(x)
  BY <1>0, FreePlacesAre
<1>2. x \in UNION {SpacePlaces(s) : s \in Space} <=> \E s \in Space : \E k \in SlotsOf(s) : x = SlotPlace(k)
  BY SpacePlacesAre, Zenon
<1>3. /\ SlotPlace(<<"kernelPml", 0, 0>>) = <<"kernelPml", 0, 0, kernelPml.pml>>
      /\ SlotPlace(<<"kernelPml", 0, 1>>) = <<"kernelPml", 0, 1, kernelPml.table>>
  BY SlotRead DEF SlotsRead, SlotPlace
<1>4. x \in {<<"kernelPml", 0, 0, kernelPml.pml>>, <<"kernelPml", 0, 1, kernelPml.table>>} <=>
        \E k \in RootSlots : x = SlotPlace(k)
  BY <1>3, Zenon DEF RootSlots
<1>5. (\E k \in Slot : x = SlotPlace(k)) <=>
        (\E s \in Space : \E k \in SlotsOf(s) : x = SlotPlace(k)) \/ (\E k \in RootSlots : x = SlotPlace(k))
  BY Zenon DEF Slot
<1>6. x \in Places <=>
        /\ InStack(x) \/ InBitmap(x) \/ (\E k \in Slot : x = SlotPlace(k)) \/ InKernel(x) \/ InMemoryMap(x)
        /\ x[4] \notin {NoPage, Device}
  <2> DEFINE U == UNION {SpacePlaces(s) : s \in Space}
             K == {<<"kernel", 0, 0, p>> : p \in kernel}
             R == {<<"kernelPml", 0, 0, kernelPml.pml>>, <<"kernelPml", 0, 1, kernelPml.table>>}
             B == {<<"memoryMap", 0, 0, p>> : p \in memoryMap}
  <2>1. x \in K <=> InKernel(x)
    BY Zenon DEF InKernel
  <2>2. x \in B <=> InMemoryMap(x)
    BY Zenon DEF InMemoryMap
  <2>3. x \in Places <=> x \in FreePlaces(pmm) \cup U \cup K \cup R \cup B /\ x[4] \notin {NoPage, Device}
    BY Zenon DEF Places
  <2>4. (\E k \in Slot : x = SlotPlace(k)) <=> x \in U \/ x \in R
    BY <1>2, <1>4, <1>5
  <2> HIDE DEF U, K, R, B
  <2> QED
    BY <1>1, <2>1, <2>2, <2>3, <2>4
<1>7. InStack(x) => x[4] \notin {NoPage, Device}
  <2> SUFFICES ASSUME NEW i, NEW j, StackHolds(pmm.stack, i, j), x[4] = StackAt(pmm.stack, i, j)
               PROVE  x[4] \notin {NoPage, Device}
    BY DEF InStack
  <2>1. pmm.stack \in Stack
    BY <1>0, PmmTypes
  <2>2. x[4] \in HighPage
    BY <2>1, StackTypes
  <2> QED
    BY <2>2, PageFacts
<1>8. InBitmap(x) => x[4] \notin {NoPage, Device}
  BY PageFacts DEF InBitmap
<1>9. InKernel(x) \/ InMemoryMap(x) => x[4] \notin {NoPage, Device}
  BY <1>0, PageFacts DEF InKernel, InMemoryMap
<1>10. (\E k \in Slot : x = SlotPlace(k)) /\ x[4] \notin {NoPage, Device} <=> InSlot(x)
  <2>1. ASSUME NEW k \in Slot, x = SlotPlace(k) PROVE x[4] \notin {NoPage, Device} <=> Use[k] \in Page
    <3>1. x[4] = Use[k]
      BY <2>1 DEF SlotPlace
    <3> QED
      BY <3>1, SlotTypes, PageFacts
  <2> QED
    BY <2>1 DEF InSlot, SlotPlace
<1> QED
  BY <1>6, <1>7, <1>8, <1>9, <1>10

\* Each place has a page of its own.
LEMMA PlacesApart ==
    ASSUME VmmInv, NEW x \in Places, NEW y \in Places, x[4] = y[4]
    PROVE  x = y
<1> DEFINE A == StackPages(pmm.stack)
           B == LowPage \ pmm.bitmap.reserved
           C == {p \in Page : \E k \in Slot : Use[k] = p}
<1>0. PmmGood(pmm) /\ pmm.stack \in Stack /\ StackOnce(pmm.stack) /\ Sole(Use, A \cup B, kernel, memoryMap)
  BY InvPages, PmmTypes DEF PagesNow, SolePages, FreePages, PmmGood, StackGood
<1>1. /\ A \cap B = {} /\ A \cap C = {} /\ A \cap kernel = {} /\ A \cap memoryMap = {} /\ B \cap C = {}
      /\ B \cap kernel = {} /\ B \cap memoryMap = {} /\ C \cap kernel = {} /\ C \cap memoryMap = {} /\ kernel \cap memoryMap = {}
  <2>1. A \cap B = {}
    BY HighNotLow DEF StackPages
  <2> HIDE DEF A, B
  <2> QED
    BY <1>0, <2>1 DEF Sole
<1>2. ASSUME NEW z, InStack(z) PROVE z[4] \in A
  <2>1. PICK i, j : StackHolds(pmm.stack, i, j) /\ z[4] = StackAt(pmm.stack, i, j)
    BY <1>2 DEF InStack
  <2>2. z[4] \in HighPage
    BY <1>0, <2>1, StackTypes
  <2> QED
    BY <2>1, <2>2 DEF StackPages
<1>3. \A z : InBitmap(z) => z[4] \in B
  BY DEF InBitmap
<1>4. \A z : InSlot(z) => z[4] \in C
  BY DEF InSlot
<1>5. \A z : (InKernel(z) => z[4] \in kernel) /\ (InMemoryMap(z) => z[4] \in memoryMap)
  BY DEF InKernel, InMemoryMap
<1>6. InStack(x) /\ InStack(y) => x = y
  <2> SUFFICES ASSUME InStack(x), InStack(y) PROVE x = y
    OBVIOUS
  <2>1. PICK i, j : /\ StackHolds(pmm.stack, i, j)
                    /\ x = <<IF j = 0 THEN "buffer" ELSE "entry", i, j, StackAt(pmm.stack, i, j)>>
    BY DEF InStack
  <2>2. PICK k, l : /\ StackHolds(pmm.stack, k, l)
                    /\ y = <<IF l = 0 THEN "buffer" ELSE "entry", k, l, StackAt(pmm.stack, k, l)>>
    BY DEF InStack
  <2>3. StackAt(pmm.stack, i, j) = StackAt(pmm.stack, k, l)
    BY <2>1, <2>2
  <2>4. i = k /\ j = l
    BY <1>0, <2>1, <2>2, <2>3 DEF StackOnce
  <2> QED
    BY <2>1, <2>2, <2>4
<1>7. (InBitmap(x) /\ InBitmap(y)) \/ (InKernel(x) /\ InKernel(y)) \/ (InMemoryMap(x) /\ InMemoryMap(y)) => x = y
  BY DEF InBitmap, InKernel, InMemoryMap
<1>8. InSlot(x) /\ InSlot(y) => x = y
  <2> SUFFICES ASSUME InSlot(x), InSlot(y) PROVE x = y
    OBVIOUS
  <2>1. PICK k \in Slot : x = <<k[1], k[2], k[3], Use[k]>> /\ Use[k] \in Page
    BY DEF InSlot
  <2>2. PICK l \in Slot : y = <<l[1], l[2], l[3], Use[l]>> /\ Use[l] \in Page
    BY DEF InSlot
  <2>3. Use[k] = Use[l]
    BY <2>1, <2>2
  <2>4. k = l
    BY <1>0, <2>1, <2>3 DEF Sole
  <2> QED
    BY <2>1, <2>2, <2>4
<1>9. /\ InStack(x) \/ InBitmap(x) \/ InSlot(x) \/ InKernel(x) \/ InMemoryMap(x)
      /\ InStack(y) \/ InBitmap(y) \/ InSlot(y) \/ InKernel(y) \/ InMemoryMap(y)
  BY PlacesAre
<1> HIDE DEF A, B, C
<1> QED
  BY <1>1, <1>2, <1>3, <1>4, <1>5, <1>6, <1>7, <1>8, <1>9

\* Used, place by place
LEMMA UsedIs ==
    ASSUME VmmInv
    PROVE  Used = UsedPages
<1>0. PmmGood(pmm) /\ pmm.stack \in Stack
  BY InvPages, PmmTypes DEF PagesNow
<1>1. ASSUME NEW x \in Places PROVE x[4] \in UsedPages
  <2>1. InStack(x) \/ InBitmap(x) \/ InSlot(x) \/ InKernel(x) \/ InMemoryMap(x)
    BY PlacesAre
  <2>2. CASE InStack(x)
    <3>1. PICK i, j : StackHolds(pmm.stack, i, j) /\ x[4] = StackAt(pmm.stack, i, j)
      BY <2>2 DEF InStack
    <3>2. x[4] \in HighPage
      BY <1>0, <3>1, StackTypes
    <3>3. x[4] \in StackPages(pmm.stack)
      BY <3>1, <3>2 DEF StackPages
    <3> QED
      BY <3>3 DEF UsedPages, FreePages
  <2>3. CASE InBitmap(x)
    BY <2>3 DEF InBitmap, UsedPages, FreePages
  <2>4. CASE InSlot(x)
    BY <2>4 DEF InSlot, UsedPages
  <2>5. CASE InKernel(x) \/ InMemoryMap(x)
    BY <2>5 DEF InKernel, InMemoryMap, UsedPages
  <2> QED
    BY <2>1, <2>2, <2>3, <2>4, <2>5
<1>2. ASSUME NEW p \in UsedPages PROVE \E x \in Places : x[4] = p
  <2>1. CASE p \in StackPages(pmm.stack)
    <3>1. PICK i, j : StackHolds(pmm.stack, i, j) /\ StackAt(pmm.stack, i, j) = p
      BY <2>1 DEF StackPages
    <3> DEFINE x == <<IF j = 0 THEN "buffer" ELSE "entry", i, j, StackAt(pmm.stack, i, j)>>
    <3>2. InStack(x) /\ x[4] = p
      BY <3>1 DEF InStack
    <3> QED
      BY <3>2, PlacesAre
  <2>2. CASE p \in LowPage \ pmm.bitmap.reserved
    <3>1. InBitmap(<<"bitmap", 0, 0, p>>)
      BY <2>2 DEF InBitmap
    <3> QED
      BY <3>1, PlacesAre
  <2>3. CASE p \in Page /\ \E k \in Slot : Use[k] = p
    <3>1. PICK k \in Slot : Use[k] = p
      BY <2>3
    <3> DEFINE x == <<k[1], k[2], k[3], Use[k]>>
    <3>2. InSlot(x) /\ x[4] = p
      BY <2>3, <3>1 DEF InSlot
    <3> QED
      BY <3>2, PlacesAre
  <2>4. CASE p \in kernel
    <3>1. InKernel(<<"kernel", 0, 0, p>>)
      BY <2>4 DEF InKernel
    <3> QED
      BY <3>1, PlacesAre
  <2>5. CASE p \in memoryMap
    <3>1. InMemoryMap(<<"memoryMap", 0, 0, p>>)
      BY <2>5 DEF InMemoryMap
    <3> QED
      BY <3>1, PlacesAre
  <2> QED
    BY <2>1, <2>2, <2>3, <2>4, <2>5 DEF UsedPages, FreePages
<1> QED
  BY <1>1, <1>2 DEF Used

UsedExact == VmmInv => Used = UsedPages

LEMMA UsedIsExact == UsedExact
  BY UsedIs DEF UsedExact

LEMMA UsedIsExactNext == UsedExact'
  BY UsedIsExact, PTL

\* The invariant says what PagesConsistent says.
LEMMA InvConsistent ==
    ASSUME VmmInv
    PROVE  PagesConsistent
<1>1. IsFiniteSet(Used)
  <2>1. IsFiniteSet(LowPage) /\ IsFiniteSet(HighPage)
    BY PageAssumption, FS_Interval DEF LowPage
  <2>2. IsFiniteSet(Page)
    BY <2>1, FS_Union DEF Page
  <2>3. Used \subseteq Page
    <3>1. FreePages(pmm) \subseteq Page /\ kernel \subseteq Page /\ memoryMap \subseteq Page
      BY InvPages, PmmTypes DEF PagesNow
    <3> QED
      BY <3>1, UsedIs DEF UsedPages
  <2> QED
    BY <2>2, <2>3, FS_Subset
<1> DEFINE f == [x \in Places |-> x[4]]
<1>2. f \in [Places -> Used]
  BY DEF Used
<1>3. \A x, y \in Places : f[x] = f[y] => x = y
  BY PlacesApart
<1>4. \A p \in Used : \E x \in Places : f[x] = p
  BY DEF Used
<1>5. f \in Injection(Places, Used) /\ f \in Surjection(Places, Used)
  <2> HIDE DEF f
  <2> QED
    BY <1>2, <1>3, <1>4 DEF Injection, Surjection, IsInjective
<1> HIDE DEF f
<1>6. Cardinality(Places) = Cardinality(Used)
  BY <1>1, <1>5, FS_Injection
<1> QED
  BY <1>6 DEF PagesConsistent, PageUsedOnce, VmmInv

LEMMA VmmInvHolds == VmmSpec => []VmmInv
<1>1. VmmInit => VmmInv
  BY VmmInitGood
<1>2. VmmInv /\ [VmmNext]_vmmVars => VmmInv'
  BY VmmStepGood DEF StepGood
<1> QED
  BY <1>1, <1>2, PTL DEF VmmSpec

(***************************************************************************)
(* Memory stays consistent, for any number of pages, spaces and operations *)
(* in progress: every page has one use, through pmm_init, vmm_alloc,       *)
(* vmm_unmap, space_cleanup and the pages the kernel takes for itself.     *)
(***************************************************************************)
THEOREM VmmPagesConsistent == VmmSpec => []PagesConsistent
<1>1. VmmInv => PagesConsistent
  BY InvConsistent
<1> QED
  BY <1>1, VmmInvHolds, PTL

(***************************************************************************)
(* No step loses a page but page_stack_alloc when it steps back to the     *)
(* buffer before, and pml_map when it writes over an entry.                *)
(***************************************************************************)
THEOREM VmmPagesKept == VmmSpec => PagesKept
<1>1. VmmInv /\ VmmInv' /\ [VmmNext]_vmmVars => [Lost' \subseteq Lost \cup CutOff \cup Overwritten]_vmmVars
  <2> SUFFICES ASSUME VmmInv, VmmInv', [VmmNext]_vmmVars
               PROVE  Lost' \subseteq Lost \cup CutOff \cup Overwritten
    OBVIOUS
  <2>1. UsedPages \subseteq UsedPages' \cup CutOff \cup Overwritten
    BY VmmStepGood DEF StepGood
  <2>2. Used = UsedPages /\ Used' = UsedPages'
    BY UsedIsExact, UsedIsExactNext DEF UsedExact
  <2> QED
    BY <2>1, <2>2 DEF Lost
<1> QED
  BY <1>1, VmmInvHolds, PTL DEF VmmSpec, PagesKept

-----------------------------------------------------------------------------
(* Searches *)

\* A search from page 0 on returns the lowest block.
LEMMA BitmapFindLowest ==
    ASSUME NEW R \in SUBSET LowPage, NEW count \in Count, NEW max \in 0 .. LowAmount, NEW align \in Align,
           NEW m \in Bitmap, m.reserved = R, m.firstFreeIndex = 0,
           NEW c, c.bitmap = m, c.count = count, c.max = max, c.align = align
    PROVE  LET found == {i \in LowPage : Fits(i, c)}
           IN  IF found = {} THEN BitmapFind(m, count, max, align) = NoPage
               ELSE /\ BitmapFind(m, count, max, align) \in found
                    /\ \A i \in found : BitmapFind(m, count, max, align) <= i
<1> DEFINE B == Blocks(m, count, max, align, 0)
           found == {i \in LowPage : Fits(i, c)}
<1>1. m.reserved = R /\ m.firstFreeIndex = 0 /\ m \in Bitmap
  OBVIOUS
<1>2. count \in Nat \ {0} /\ align \in Nat \ {0} /\ max \in Nat /\ LowAmount \in Nat /\ max <= LowAmount
  BY SearchesAssumption, PageAssumption
<1>3. SearchArgs(m, count, max, align)
  BY <1>1, <1>2 DEF SearchArgs
<1>4. Steps(0, 0, align)
  <2>1. 0 = 0 + 0 * align
    BY <1>2
  <2> QED
    BY <2>1 DEF Steps
<1>5. BitmapFind(m, count, max, align) = LowestBlock(m, count, max, align, 0)
  <2>1. m.firstFreeIndex <= max /\ 0 \in Nat
    BY <1>1, <1>2
  <2>2. BitmapFind(m, count, max, align) = Ends(m, count, max, align, FirstOpen(m, max, align, m.firstFreeIndex))
    BY <1>3, <2>1, BitmapFindSolved
  <2>3. Ends(m, count, max, align, FirstOpen(m, max, align, 0)) = LowestBlock(m, count, max, align, 0)
    BY <1>3, <1>4, <2>1, AlignedLowest
  <2> QED
    BY <1>1, <2>2, <2>3
<1>6. ASSUME NEW i \in Nat PROVE i \in LowPage /\ Fits(i, c) <=> Block(m, count, max, align, i)
  <2>1. i % align = 0 <=> Steps(0, i, align)
    BY <1>2, AlignedSteps
  <2>2. Fits(i, c) <=> /\ i % align = 0 /\ i + count < max
                       /\ (i .. i + count - 1) \cap R = {}
    BY <1>1 DEF Fits
  <2>3. (i .. i + count - 1) \cap R = {} <=> \A k \in i .. i + count - 1 : k \notin R
    OBVIOUS
  <2>4. i + count < max => i \in LowPage
    BY <1>2 DEF LowPage
  <2> QED
    BY <1>1, <2>1, <2>2, <2>3, <2>4 DEF Block
<1>7. found = B
  <2>1. \A i \in LowPage : i \in Nat
    BY PageAssumption DEF LowPage
  <2>2. \A i \in Nat : 0 <= i
    OBVIOUS
  <2> QED
    BY <1>6, <2>1, <2>2 DEF Blocks
<1>8. B \in SUBSET Nat
  BY DEF Blocks
<1> HIDE DEF B, found
<1>9. LowestBlock(m, count, max, align, 0) = IF B = {} THEN NoPage ELSE LeastIn(B)
  BY DEF LowestBlock, B
<1>10. IF found = {} THEN BitmapFind(m, count, max, align) = NoPage
       ELSE /\ BitmapFind(m, count, max, align) \in found
            /\ \A i \in found : BitmapFind(m, count, max, align) <= i
  BY <1>5, <1>7, <1>8, <1>9, LeastInFacts
<1> QED
  BY <1>10 DEF found

-----------------------------------------------------------------------------
(* RECT_SUBTRACT *)

\* A sequence with at most one entry added
Extended(s, u, c) ==
    /\ Len(s) = Len(u) + Len(c)
    /\ \A i \in 1 .. Len(u) : s[i] = u[i]
    /\ Len(c) = 1 => s[Len(u) + 1] = c[1]

\* Concatenation, spelled out
LEMMA OnePart ==
    ASSUME NEW S, NEW u \in Seq(S), NEW c \in Seq(S)
    PROVE  u \o c \in Seq(S) /\ Extended(u \o c, u, c)
  BY ConcatProperties DEF Extended

\* The entries of four sequences of at most one entry, in their concatenation
Listed(s, a, b, c, d, i) ==
    \/ Len(a) = 1 /\ i = 1 /\ s[i] = a[1]
    \/ Len(b) = 1 /\ i = Len(a) + 1 /\ s[i] = b[1]
    \/ Len(c) = 1 /\ i = Len(a) + Len(b) + 1 /\ s[i] = c[1]
    \/ Len(d) = 1 /\ i = Len(a) + Len(b) + Len(c) + 1 /\ s[i] = d[1]

Together(s, a, b, c, d) ==
    /\ Len(s) = Len(a) + Len(b) + Len(c) + Len(d)
    /\ \A i \in 1 .. Len(s) : Listed(s, a, b, c, d, i)
    /\ Len(a) = 1 => s[1] = a[1]
    /\ Len(b) = 1 => s[Len(a) + 1] = b[1]
    /\ Len(c) = 1 => s[Len(a) + Len(b) + 1] = c[1]
    /\ Len(d) = 1 => s[Len(a) + Len(b) + Len(c) + 1] = d[1]

\* Every entry of the four is in the concatenation at its place, and nothing else.
LEMMA FourParts ==
    ASSUME NEW S, NEW a \in Seq(S), NEW b \in Seq(S), NEW c \in Seq(S), NEW d \in Seq(S),
           Len(a) \in {0, 1}, Len(b) \in {0, 1}, Len(c) \in {0, 1}, Len(d) \in {0, 1}
    PROVE  a \o b \o c \o d \in Seq(S) /\ Together(a \o b \o c \o d, a, b, c, d)
<1> DEFINE s == a \o b \o c \o d
<1> SUFFICES s \in Seq(S) /\ Together(s, a, b, c, d)
  OBVIOUS
<1> DEFINE la == Len(a)
           lb == Len(b)
           lc == Len(c)
           ld == Len(d)
           u == a \o b
           v == u \o c
<1>1. u \in Seq(S) /\ Extended(u, a, b)
  BY OnePart, Zenon
<1>2. v \in Seq(S) /\ Extended(v, u, c)
  <2> HIDE DEF u
  <2> QED
    BY <1>1, OnePart, Zenon
<1>3. s \in Seq(S) /\ Extended(s, v, d)
  <2> HIDE DEF v
  <2>1. s = v \o d
    BY DEF v
  <2> HIDE DEF s
  <2> QED
    BY <1>2, <2>1, OnePart, Zenon
<1> HIDE DEF u, v, s
<1>4. /\ Len(u) = la + lb /\ (\A i \in 1 .. la : u[i] = a[i]) /\ (lb = 1 => u[la + 1] = b[1])
      /\ Len(v) = Len(u) + lc /\ (\A i \in 1 .. Len(u) : v[i] = u[i]) /\ (lc = 1 => v[Len(u) + 1] = c[1])
      /\ Len(s) = Len(v) + ld /\ (\A i \in 1 .. Len(v) : s[i] = v[i]) /\ (ld = 1 => s[Len(v) + 1] = d[1])
  BY <1>1, <1>2, <1>3, Zenon DEF Extended
<1>5. la \in {0, 1} /\ lb \in {0, 1} /\ lc \in {0, 1} /\ ld \in {0, 1}
  OBVIOUS
<1>t. PICK len \in Int, lu \in Int, lv \in Int : len = Len(s) /\ lu = Len(u) /\ lv = Len(v)
  BY <1>1, <1>2, <1>3
<1> HIDE DEF la, lb, lc, ld
<1>6. len = la + lb + lc + ld /\ lu = la + lb /\ lv = la + lb + lc
  BY <1>4, <1>5, <1>t
<1>7. la = 1 => s[1] = a[1]
  <2> SUFFICES ASSUME la = 1 PROVE s[1] = a[1]
    OBVIOUS
  <2>1. 1 \in 1 .. la /\ 1 \in 1 .. lu /\ 1 \in 1 .. lv
    BY <1>5, <1>6
  <2> QED
    BY <2>1, <1>4, <1>t
<1>8. lb = 1 => s[la + 1] = b[1]
  <2> SUFFICES ASSUME lb = 1 PROVE s[la + 1] = b[1]
    OBVIOUS
  <2>1. la + 1 \in 1 .. lu /\ la + 1 \in 1 .. lv
    BY <1>5, <1>6
  <2> QED
    BY <2>1, <1>4, <1>t
<1>9. lc = 1 => s[la + lb + 1] = c[1]
  <2> SUFFICES ASSUME lc = 1 PROVE s[la + lb + 1] = c[1]
    OBVIOUS
  <2>1. lu + 1 \in 1 .. lv /\ lu + 1 = la + lb + 1
    BY <1>5, <1>6
  <2> QED
    BY <2>1, <1>4, <1>t
<1>10. ld = 1 => s[la + lb + lc + 1] = d[1]
  BY <1>4, <1>6, <1>t
<1>11. ASSUME NEW i \in 1 .. len
       PROVE  \/ la = 1 /\ i = 1
              \/ lb = 1 /\ i = la + 1
              \/ lc = 1 /\ i = la + lb + 1
              \/ ld = 1 /\ i = la + lb + lc + 1
  BY <1>5, <1>6
<1>12. ASSUME NEW i \in 1 .. len PROVE Listed(s, a, b, c, d, i)
  BY <1>11, <1>7, <1>8, <1>9, <1>10 DEF Listed, la, lb, lc, ld
<1> QED
  BY <1>3, <1>6, <1>7, <1>8, <1>9, <1>10, <1>12, <1>t DEF Together, la, lb, lc, ld

-----------------------------------------------------------------------------
\* What RECT_SUBTRACT has to return
Subtracted(rect, other, parts) ==
    LET left == In(rect) \ In(other)
    IN  /\ left \subseteq UNION {In(parts[i]) : i \in DOMAIN parts}
        /\ \A i \in DOMAIN parts :
            /\ In(parts[i]) \cap In(other) = {}
            /\ \A j \in DOMAIN parts : i # j => In(parts[i]) \cap In(parts[j]) = {}
        /\ parts = <<>> <=> left = {}

Corner(rect) == [x |-> rect.left, y |-> rect.top]

\* Rectangles of the plane have whole coordinates, and their corner lies in them.
LEMMA RectFacts ==
    ASSUME NEW r \in RectArg, Solid(r)
    PROVE  /\ r.left \in 0 .. Side - 1 /\ r.top \in 0 .. Side - 1 /\ r.right \in 1 .. Side /\ r.bottom \in 1 .. Side
           /\ r.left < r.right /\ r.top < r.bottom
<1>1. PICK l \in 0 .. Side, t \in 0 .. Side, x \in 0 .. Side, b \in 0 .. Side : r = RectInit(l, t, x, b)
  BY DEF RectArg
<1>2. r.left = l /\ r.top = t /\ r.right = x /\ r.bottom = b
  BY <1>1 DEF RectInit
<1>3. l < x /\ t < b
  BY <1>2 DEF Solid
<1> QED
  BY <1>2, <1>3, SearchesAssumption

\* The points of a rectangle
LEMMA InPlane ==
    ASSUME NEW rect, NEW p
    PROVE  p \in In(rect) <=> p \in Plane /\ ContainsPoint(rect, p)
  BY DEF In

\* Points have whole coordinates.
LEMMA PlanePoint ==
    ASSUME NEW p \in Plane
    PROVE  p.x \in Int /\ p.y \in Int
  BY SearchesAssumption DEF Plane

\* RECT_SUBTRACT is exact when the rectangles do not overlap.
LEMMA SubtractApart ==
    ASSUME NEW rect \in RectArg, NEW other \in RectArg, Solid(rect), Solid(other), ~Overlap(rect, other)
    PROVE  Subtracted(rect, other, Subtract(rect, other))
<1> DEFINE parts == <<rect>>
           left == In(rect) \ In(other)
<1>1. Subtract(rect, other) = parts
  BY DEF Subtract
<1>2. \A p \in Plane : ~(ContainsPoint(rect, p) /\ ContainsPoint(other, p))
  BY RectFacts, PlanePoint DEF ContainsPoint, Overlap
<1>3. In(rect) \cap In(other) = {}
  BY <1>2, InPlane
<1>4. Corner(rect) \in Plane /\ ContainsPoint(rect, Corner(rect))
  BY RectFacts DEF Corner, Plane, ContainsPoint
<1>5. Corner(rect) \in left
  BY <1>3, <1>4, InPlane
<1>6. DOMAIN parts = {1} /\ parts[1] = rect /\ parts # <<>>
  OBVIOUS
<1>7. left \subseteq UNION {In(parts[i]) : i \in DOMAIN parts}
  BY <1>6
<1> HIDE DEF parts
<1> QED
  BY <1>1, <1>3, <1>5, <1>6, <1>7 DEF Subtracted

\* RECT_SUBTRACT is exact when they do.
LEMMA SubtractOverlapping ==
    ASSUME NEW rect \in RectArg, NEW other \in RectArg, Solid(rect), Solid(other), Overlap(rect, other)
    PROVE  Subtracted(rect, other, Subtract(rect, other))
<1> DEFINE A == RectInit(rect.left, rect.top, rect.right, other.top)
           B == RectInit(rect.left, other.bottom, rect.right, rect.bottom)
           C == RectInit(rect.left, other.top, other.left, other.bottom)
           D == RectInit(other.right, other.top, rect.right, other.bottom)
           hasA == other.top > rect.top
           hasB == other.bottom < rect.bottom
           hasC == other.left > rect.left
           hasD == other.right < rect.right
           a == IF hasA THEN <<A>> ELSE <<>>
           b == IF hasB THEN <<B>> ELSE <<>>
           c == IF hasC THEN <<C>> ELSE <<>>
           d == IF hasD THEN <<D>> ELSE <<>>
           parts == a \o b \o c \o d
           left == In(rect) \ In(other)
           S == {A, B, C, D}
<1>1. Subtract(rect, other) = parts
  BY DEF Subtract
<1>2. /\ hasA => In(A) \cap In(other) = {}
      /\ hasB => In(B) \cap In(other) = {}
      /\ hasC => In(C) \cap In(other) = {}
      /\ hasD => In(D) \cap In(other) = {}
      /\ hasA /\ hasB => In(A) \cap In(B) = {}
      /\ hasA /\ hasC => In(A) \cap In(C) = {}
      /\ hasA /\ hasD => In(A) \cap In(D) = {}
      /\ hasB /\ hasC => In(B) \cap In(C) = {}
      /\ hasB /\ hasD => In(B) \cap In(D) = {}
      /\ hasC /\ hasD => In(C) \cap In(D) = {}
  <2>1. ASSUME NEW p \in Plane
        PROVE  /\ hasA => ~(ContainsPoint(A, p) /\ ContainsPoint(other, p))
               /\ hasB => ~(ContainsPoint(B, p) /\ ContainsPoint(other, p))
               /\ hasC => ~(ContainsPoint(C, p) /\ ContainsPoint(other, p))
               /\ hasD => ~(ContainsPoint(D, p) /\ ContainsPoint(other, p))
               /\ hasA /\ hasB => ~(ContainsPoint(A, p) /\ ContainsPoint(B, p))
               /\ hasA /\ hasC => ~(ContainsPoint(A, p) /\ ContainsPoint(C, p))
               /\ hasA /\ hasD => ~(ContainsPoint(A, p) /\ ContainsPoint(D, p))
               /\ hasB /\ hasC => ~(ContainsPoint(B, p) /\ ContainsPoint(C, p))
               /\ hasB /\ hasD => ~(ContainsPoint(B, p) /\ ContainsPoint(D, p))
               /\ hasC /\ hasD => ~(ContainsPoint(C, p) /\ ContainsPoint(D, p))
    BY RectFacts, PlanePoint DEF ContainsPoint, RectInit
  <2> HIDE DEF A, B, C, D, hasA, hasB, hasC, hasD
  <2> QED
    BY <2>1, InPlane
<1>3. ASSUME NEW p \in Plane, ContainsPoint(rect, p), ~ContainsPoint(other, p)
      PROVE  \/ hasA /\ ContainsPoint(A, p)
             \/ hasB /\ ContainsPoint(B, p)
             \/ hasC /\ ContainsPoint(C, p)
             \/ hasD /\ ContainsPoint(D, p)
  BY <1>3, RectFacts, PlanePoint DEF ContainsPoint, RectInit
\* A corner of the rectangle that the other one does not cover
<1>4. ASSUME hasA \/ hasB \/ hasC \/ hasD
      PROVE  \E p \in Plane : ContainsPoint(rect, p) /\ ~ContainsPoint(other, p)
  <2> DEFINE q == [x |-> rect.right - 1, y |-> rect.bottom - 1]
  <2>1. Corner(rect) \in Plane /\ ContainsPoint(rect, Corner(rect)) /\ q \in Plane /\ ContainsPoint(rect, q)
    BY RectFacts, SearchesAssumption DEF Corner, Plane, ContainsPoint
  <2>2. hasA \/ hasC => ~ContainsPoint(other, Corner(rect))
    BY RectFacts DEF Corner, ContainsPoint
  <2>3. hasB \/ hasD => ~ContainsPoint(other, q)
    BY RectFacts DEF ContainsPoint
  <2> HIDE DEF hasA, hasB, hasC, hasD, q
  <2> QED
    BY <1>4, <2>1, <2>2, <2>3
<1>5. a \in Seq(S) /\ b \in Seq(S) /\ c \in Seq(S) /\ d \in Seq(S)
  <2>1. A \in S /\ B \in S /\ C \in S /\ D \in S
    OBVIOUS
  <2> HIDE DEF A, B, C, D, hasA, hasB, hasC, hasD, S
  <2>2. \A r \in S : <<r>> \in Seq(S)
    OBVIOUS
  <2>3. <<>> \in Seq(S)
    OBVIOUS
  <2> QED
    BY <2>1, <2>2, <2>3
<1>6. /\ Len(a) = (IF hasA THEN 1 ELSE 0) /\ (hasA => a[1] = A)
      /\ Len(b) = (IF hasB THEN 1 ELSE 0) /\ (hasB => b[1] = B)
      /\ Len(c) = (IF hasC THEN 1 ELSE 0) /\ (hasC => c[1] = C)
      /\ Len(d) = (IF hasD THEN 1 ELSE 0) /\ (hasD => d[1] = D)
  <2> HIDE DEF A, B, C, D, hasA, hasB, hasC, hasD
  <2> QED
    OBVIOUS
<1>7. Len(a) \in {0, 1} /\ Len(b) \in {0, 1} /\ Len(c) \in {0, 1} /\ Len(d) \in {0, 1}
  BY <1>6
<1> HIDE DEF A, B, C, D, hasA, hasB, hasC, hasD, a, b, c, d, S
<1>8. parts \in Seq(S) /\ Together(parts, a, b, c, d)
  BY <1>5, <1>7, FourParts, Zenon
<1> HIDE DEF parts
<1> DEFINE la == Len(a)
           lb == Len(b)
           lc == Len(c)
           ld == Len(d)
<1>9. /\ la = (IF hasA THEN 1 ELSE 0) /\ lb = (IF hasB THEN 1 ELSE 0)
      /\ lc = (IF hasC THEN 1 ELSE 0) /\ ld = (IF hasD THEN 1 ELSE 0)
  BY <1>6
<1>10. DOMAIN parts = 1 .. la + lb + lc + ld
  BY <1>8 DEF Together
<1>11. ASSUME NEW i \in DOMAIN parts
       PROVE  \/ hasA /\ i = 1 /\ parts[i] = A
              \/ hasB /\ i = la + 1 /\ parts[i] = B
              \/ hasC /\ i = la + lb + 1 /\ parts[i] = C
              \/ hasD /\ i = la + lb + lc + 1 /\ parts[i] = D
  <2>1. Listed(parts, a, b, c, d, i)
    BY <1>8, <1>10 DEF Together
  <2> QED
    BY <2>1, <1>6 DEF Listed
<1>12. /\ hasA => 1 \in DOMAIN parts /\ parts[1] = A
       /\ hasB => la + 1 \in DOMAIN parts /\ parts[la + 1] = B
       /\ hasC => la + lb + 1 \in DOMAIN parts /\ parts[la + lb + 1] = C
       /\ hasD => la + lb + lc + 1 \in DOMAIN parts /\ parts[la + lb + lc + 1] = D
  <2>1. /\ hasA => parts[1] = A
        /\ hasB => parts[la + 1] = B
        /\ hasC => parts[la + lb + 1] = C
        /\ hasD => parts[la + lb + lc + 1] = D
    BY <1>6, <1>8 DEF Together
  <2> HIDE DEF la, lb, lc, ld
  <2>2. /\ hasA => 1 \in DOMAIN parts
        /\ hasB => la + 1 \in DOMAIN parts
        /\ hasC => la + lb + 1 \in DOMAIN parts
        /\ hasD => la + lb + lc + 1 \in DOMAIN parts
    BY <1>9, <1>10
  <2> QED
    BY <2>1, <2>2
<1>13. ASSUME NEW i \in DOMAIN parts PROVE In(parts[i]) \cap In(other) = {}
  BY <1>2, <1>11
<1>14. ASSUME NEW i \in DOMAIN parts, NEW j \in DOMAIN parts, i # j
       PROVE  In(parts[i]) \cap In(parts[j]) = {}
  BY <1>2, <1>11, <1>14
<1>15. ASSUME NEW p \in left PROVE p \in UNION {In(parts[i]) : i \in DOMAIN parts}
  <2>1. p \in Plane /\ ContainsPoint(rect, p) /\ ~ContainsPoint(other, p)
    BY InPlane
  <2>2. \/ hasA /\ p \in In(A)
        \/ hasB /\ p \in In(B)
        \/ hasC /\ p \in In(C)
        \/ hasD /\ p \in In(D)
    BY <1>3, <2>1, InPlane
  <2>3. \E i \in DOMAIN parts : p \in In(parts[i])
    BY <1>12, <2>2
  <2> QED
    BY <2>3
<1>16. parts = <<>> <=> left = {}
  <2>1. CASE hasA \/ hasB \/ hasC \/ hasD
    <3>1. parts # <<>>
      BY <1>12, <2>1
    <3>2. left # {}
      BY <1>4, <2>1, InPlane
    <3> QED
      BY <3>1, <3>2
  <2>2. CASE ~(hasA \/ hasB \/ hasC \/ hasD)
    <3>1. left = {}
      BY <1>3, <2>2, InPlane
    <3>2. Len(parts) = 0
      BY <1>8, <1>9, <2>2 DEF Together
    <3> QED
      BY <1>8, <3>1, <3>2, EmptySeq
  <2> QED
    BY <2>1, <2>2
<1> QED
  BY <1>1, <1>13, <1>14, <1>15, <1>16 DEF Subtracted

-----------------------------------------------------------------------------
\* RECT_SUBTRACT and the search of page_bitmap_alloc return what their reference
\* definitions say, for a plane and a bitmap of any size and every argument.
THEOREM SearchesResultsExact == SearchesSpec => []ResultsExact
<1>1. SearchesInit => ResultsExact
  BY DEF SearchesInit, NoCall, ResultsExact, SearchesTypeOK, SubtractExact, BitmapFindsLowest
<1>2. ASSUME ResultsExact, [SearchesNext]_call PROVE ResultsExact'
  <2>1. CASE SearchReturn
    BY <2>1 DEF SearchReturn, NoCall, ResultsExact, SearchesTypeOK, SubtractExact, BitmapFindsLowest
  <2>2. ASSUME NEW rect \in RectArg, NEW other \in RectArg, Solid(rect), Solid(other), RectSubtract(rect, other)
        PROVE  ResultsExact'
    <3>1. call'.of = "RECT_SUBTRACT" /\ call'.rect = rect /\ call'.other = other
          /\ call'.result = Subtract(rect, other)
      BY <2>2 DEF RectSubtract
    <3>2. Subtracted(rect, other, Subtract(rect, other))
      BY <2>2, SubtractApart, SubtractOverlapping
    <3>3. SubtractExact'
      BY <3>1, <3>2 DEF SubtractExact, Subtracted
    <3> QED
      BY <3>1, <3>3 DEF ResultsExact, SearchesTypeOK, BitmapFindsLowest
  <2>3. ASSUME NEW reserved \in SUBSET LowPage, NEW count \in Count, NEW max \in 0 .. LowAmount,
               NEW align \in Align, PageBitmapAlloc(reserved, count, max, align)
        PROVE  ResultsExact'
    <3> DEFINE m == [FullBitmap EXCEPT !.reserved = reserved]
    <3>1. call'.of = "page_bitmap_alloc" /\ call'.bitmap = m /\ call'.count = count /\ call'.max = max
          /\ call'.align = align /\ call'.result = BitmapFind(m, count, max, align)
      BY <2>3 DEF PageBitmapAlloc
    <3>m. m \in Bitmap /\ m.reserved = reserved /\ m.firstFreeIndex = 0
      BY PageAssumption DEF FullBitmap, Bitmap
    <3> HIDE DEF m
    <3>2. BitmapFindsLowest'
      <4> DEFINE c == call'
                 found == {i \in LowPage : Fits(i, c)}
      <4>1. IF found = {} THEN BitmapFind(m, count, max, align) = NoPage
            ELSE /\ BitmapFind(m, count, max, align) \in found
                 /\ \A i \in found : BitmapFind(m, count, max, align) <= i
        BY <3>1, <3>m, BitmapFindLowest
      <4> QED
        BY <3>1, <4>1 DEF BitmapFindsLowest
    <3> QED
      BY <3>1, <3>2 DEF ResultsExact, SearchesTypeOK, SubtractExact
  <2>4. CASE UNCHANGED call
    BY <1>2, <2>4 DEF ResultsExact, SearchesTypeOK, SubtractExact, BitmapFindsLowest, Fits
  <2> QED
    BY <1>2, <2>1, <2>2, <2>3, <2>4 DEF SearchesNext
<1> QED
  BY <1>1, <1>2, PTL DEF SearchesSpec
=============================================================================
