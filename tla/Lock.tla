-------------------------------- MODULE Lock --------------------------------
(***************************************************************************)
(* The kernel's spin lock: the ticket lock of src/kernel/lock.h on top of  *)
(* the interrupt masking of src/kernel/trap.c (cli_push, cli_pop and the   *)
(* trap depth kept by trap_handler).                                       *)
(*                                                                         *)
(* The lock is taken by threads and by trap handlers.  A trap can hit a    *)
(* CPU between any two instructions while its interrupt flag is set, and a *)
(* trap of the scheduler may return to another thread than the one it      *)
(* interrupted, so a thread can change CPUs in the middle of lock_acquire. *)
(***************************************************************************)
EXTENDS Integers, Sequences, FiniteSets, SequencesExt

CONSTANTS
    None,           \* no lock
    CPU,            \* CPUs
    Thread,         \* threads of the kernel
    LockId,         \* lock_t objects
    Nested,         \* <<k, l>>: some code acquires l while it holds k
    TicketSize      \* number of tickets: 2^32 for an atomic_uint32_t

\* Every CPU can wait for a lock at the same time: 256 CPUs, 2^32 tickets.
ASSUME TicketAssumption == TicketSize \in Nat /\ TicketSize >= Cardinality(CPU) /\ CPU # {}
ASSUME FiniteAssumption == IsFiniteSet(CPU) /\ IsFiniteSet(LockId)

\* The lock is not recursive: no code takes a lock that it holds.
ASSUME NestedAssumption ==
    /\ Nested \subseteq LockId \X LockId
    /\ \A l \in LockId : <<l, l>> \notin Nested

\* A CPU stands for its trap handler and is not a thread.
ASSUME ContextAssumption == Thread \cap CPU = {}
ASSUME NoneAssumption == None \notin LockId

VARIABLES
    nextTicket,
    nowServing,
    cpu,            \* interrupt flag, cliAmount, prevFlags, trapDepth, current thread
    frame           \* locals of the code in lock_acquire and lock_release

vars == <<nextTicket, nowServing, cpu, frame>>

Ticket == 0 .. TicketSize - 1

\* Code that takes locks: every thread, and the trap handler of every CPU
Context == Thread \cup CPU

CpuRecord == [
    enabled: BOOLEAN,           \* RFLAGS_INTERRUPT_ENABLE
    cliAmount: 0 .. Cardinality(LockId) + 1,
    prevFlags: BOOLEAN,         \* its RFLAGS_INTERRUPT_ENABLE bit
    trapDepth: 0 .. 1,
    thread: Thread]

\* pc: "out" of both functions; in lock_acquire before "cli", before the
\* "ticket" or in the "spin" loop; in lock_release before cli_pop ("pop")
Frame == [
    pc: {"out", "cli", "ticket", "spin", "pop"},
    lock: LockId \cup {None},   \* the argument of lock_acquire
    rflags: BOOLEAN,
    ticket: Ticket,
    held: Seq(LockId)]

TypeOK ==
    /\ nextTicket \in [LockId -> Ticket]
    /\ nowServing \in [LockId -> Ticket]
    /\ cpu \in [CPU -> CpuRecord]
    /\ frame \in [Context -> Frame]

\* What CPU c executes
Active(c) == IF cpu[c].trapDepth = 0 THEN cpu[c].thread ELSE c

\* Which lock may be taken next is up to the callers: k before l on all paths.
MayTake(x, l) == \A i \in 1 .. Len(frame[x].held) : <<frame[x].held[i], l>> \in Nested

Increment(counter) == (counter + 1) % TicketSize

-----------------------------------------------------------------------------
\* lock_acquire, cli_push: the flags are read before they are cleared
ReadFlags(c, l) ==
    LET x == Active(c)
    IN  /\ frame[x].pc = "out"
        /\ MayTake(x, l)
        /\ frame' = [frame EXCEPT ![x].pc = "cli", ![x].lock = l, ![x].rflags = cpu[c].enabled]
        /\ UNCHANGED <<nextTicket, nowServing, cpu>>

\* The rest of cli_push, on the CPU the code is on by now
Cli(c) ==
    LET x == Active(c)
    IN  /\ frame[x].pc = "cli"
        /\ cpu' = [cpu EXCEPT ![c].enabled = FALSE, ![c].cliAmount = @ + 1,
                              ![c].prevFlags = IF cpu[c].cliAmount = 0 THEN frame[x].rflags ELSE @]
        /\ frame' = [frame EXCEPT ![x].pc = "ticket", ![x].rflags = FALSE]
        /\ UNCHANGED <<nextTicket, nowServing>>

FetchTicket(c) ==
    LET x == Active(c)
        l == frame[x].lock
    IN  /\ frame[x].pc = "ticket"
        /\ frame' = [frame EXCEPT ![x].pc = "spin", ![x].ticket = nextTicket[l]]
        /\ nextTicket' = [nextTicket EXCEPT ![l] = Increment(@)]
        /\ UNCHANGED <<nowServing, cpu>>

\* Mutant: the counters are compared by size.
IsServedOrLater(x) == nowServing[frame[x].lock] >= frame[x].ticket

\* Mutant: whoever finds the lock free takes it.
IsServedWhenFree(x) ==
    \A y \in Context : \A i \in 1 .. Len(frame[y].held) : frame[y].held[i] # frame[x].lock

IsServed(x) == nowServing[frame[x].lock] = frame[x].ticket

SpinEnd(c) ==
    LET x == Active(c)
    IN  /\ frame[x].pc = "spin"
        /\ IsServed(x)
        /\ frame' = [frame EXCEPT ![x].pc = "out", ![x].lock = None, ![x].ticket = 0,
                                  ![x].held = Append(@, frame[x].lock)]
        /\ UNCHANGED <<nextTicket, nowServing, cpu>>

\* lock_release of the lock taken last, as the LOCK_GUARDs do
Release(c) ==
    LET x == Active(c)
        l == Last(frame[x].held)
    IN  /\ frame[x].pc = "out"
        /\ frame[x].held # <<>>
        /\ nowServing' = [nowServing EXCEPT ![l] = Increment(@)]
        /\ frame' = [frame EXCEPT ![x].pc = "pop", ![x].held = Front(@)]
        /\ UNCHANGED <<nextTicket, cpu>>

\* Mutant: interrupts are enabled by every call, not by the last one.
CliPopAlwaysEnables(c) ==
    LET x == Active(c)
    IN  /\ frame[x].pc = "pop"
        /\ cpu' = [cpu EXCEPT ![c].cliAmount = @ - 1,
                              ![c].enabled = @ \/ (cpu[c].prevFlags /\ cpu[c].trapDepth = 0)]
        /\ frame' = [frame EXCEPT ![x].pc = "out"]
        /\ UNCHANGED <<nextTicket, nowServing>>

CliPop(c) ==
    LET x == Active(c)
    IN  /\ frame[x].pc = "pop"
        /\ cpu' = [cpu EXCEPT ![c].cliAmount = @ - 1,
                              ![c].enabled = @ \/ (/\ cpu[c].cliAmount = 1
                                              /\ cpu[c].prevFlags
                                              /\ cpu[c].trapDepth = 0)]
        /\ frame' = [frame EXCEPT ![x].pc = "out"]
        /\ UNCHANGED <<nextTicket, nowServing>>

\* A device, IPI or scheduler interrupt: the gate clears the flag.
TrapEnter(c) ==
    /\ cpu[c].enabled
    /\ cpu' = [cpu EXCEPT ![c].enabled = FALSE, ![c].trapDepth = @ + 1]
    /\ UNCHANGED <<nextTicket, nowServing, frame>>

\* The end of trap_handler and the iret: to the thread it interrupted or, in
\* sched_schedule, to any thread that no CPU runs.  Interrupts were enabled.
TrapReturn(c, t) ==
    /\ cpu[c].trapDepth = 1
    /\ frame[c].pc = "out" /\ frame[c].held = <<>>
    /\ t = cpu[c].thread \/ \A d \in CPU : cpu[d].thread # t
    /\ cpu' = [cpu EXCEPT ![c].enabled = TRUE, ![c].trapDepth = @ - 1, ![c].thread = t]
    /\ UNCHANGED <<nextTicket, nowServing, frame>>

-----------------------------------------------------------------------------
Init ==
    /\ nextTicket = [l \in LockId |-> 0]
    /\ nowServing = [l \in LockId |-> 0]
    /\ \E run \in [CPU -> Thread] :
        /\ \A c, d \in CPU : run[c] = run[d] => c = d
        /\ cpu = [c \in CPU |-> [enabled |-> TRUE, cliAmount |-> 0, prevFlags |-> FALSE,
                                 trapDepth |-> 0, thread |-> run[c]]]
    /\ frame = [x \in Context |-> [pc |-> "out", lock |-> None, rflags |-> FALSE,
                                   ticket |-> 0, held |-> <<>>]]

Acquire(c) ==
    \/ Cli(c)
    \/ FetchTicket(c)
    \/ SpinEnd(c)

Next ==
    \E c \in CPU :
        \/ \E l \in LockId : ReadFlags(c, l)
        \/ Acquire(c)
        \/ Release(c)
        \/ CliPop(c)
        \/ TrapEnter(c)
        \/ \E t \in Thread : TrapReturn(c, t)

Spec == Init /\ [][Next]_vars

\* A CPU goes on, and code that holds a lock releases it: it takes finitely
\* many further locks and waits for nothing else.
Outermost(c) == Release(c) /\ Len(frame[Active(c)].held) = 1

FairSpec ==
    Spec /\ \A c \in CPU : WF_vars(Acquire(c) \/ Release(c) \/ CliPop(c)) /\ SF_vars(Outermost(c))

-----------------------------------------------------------------------------
(* Properties *)

Holds(x, l) == \E i \in 1 .. Len(frame[x].held) : frame[x].held[i] = l

(***************************************************************************)
(* A lock is held by one context at a time, after any number of tickets:   *)
(* "Overflow does not matter" in lock_acquire.                             *)
(***************************************************************************)
MutualExclusion ==
    \A x, y \in Context, l \in LockId : Holds(x, l) /\ Holds(y, l) => x = y

(***************************************************************************)
(* Code between the cli of lock_acquire and the end of lock_release runs   *)
(* with interrupts off and stays on its CPU.  Otherwise a handler on the   *)
(* same CPU could spin for a lock that the interrupted code holds, or a    *)
(* thread be scheduled away with a lock held.                              *)
(***************************************************************************)
LockedMeansMasked ==
    \A x \in Context :
        frame[x].pc \in {"ticket", "spin", "pop"} \/ frame[x].held # <<>>
            => \E c \in CPU : Active(c) = x /\ ~cpu[c].enabled

(***************************************************************************)
(* When a thread has released its last lock, interrupts are enabled again, *)
(* on the CPU it is on and at whatever point of cli_push a trap or a       *)
(* change of CPUs hit it: "Race condition does not matter".                *)
(***************************************************************************)
FlagsRestored ==
    \A c \in CPU :
        cpu[c].trapDepth = 0 /\ frame[Active(c)].pc = "out" /\ frame[Active(c)].held = <<>>
            => cpu[c].enabled /\ cpu[c].cliAmount = 0

(***************************************************************************)
(* The lock is fair: whoever has drawn a ticket is served, although other  *)
(* CPUs keep taking the lock.                                              *)
(***************************************************************************)
Served ==
    \A x \in Context : frame[x].pc = "spin" ~> frame[x].pc # "spin"

(***************************************************************************)
(* Interrupts are off exactly as long as they have to be: throughout a     *)
(* critical section, nested ones included, and not after the last one.     *)
(* Counters and tickets stay in their ranges.                              *)
(***************************************************************************)
MaskingKept == TypeOK /\ LockedMeansMasked /\ FlagsRestored
=============================================================================
