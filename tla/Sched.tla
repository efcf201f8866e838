------------------------------- MODULE Sched -------------------------------
(***************************************************************************)
(* The thread scheduler of the kernel: src/kernel/sched.c, with the thread *)
(* and process lifetime of thread.c and the queues of queue.h.             *)
(*                                                                         *)
(* Each CPU owns one ready queue per priority, a graveyard and the thread  *)
(* it runs.  Each blocker owns a list of waiting threads sorted by         *)
(* deadline.  A thread_t holds ONE list_entry_t, so the queues, the        *)
(* graveyards and the blocker lists compete for it.                        *)
(*                                                                         *)
(* A step is what one CPU does between two points where another CPU can    *)
(* observe it: a critical section of a queue or blocker lock, or one       *)
(* access to shared thread or process state.  Inside the trap handler a    *)
(* CPU has interrupts off and runs to the end; outside it (pc = "run") the *)
(* timer may interrupt it anywhere.                                        *)
(***************************************************************************)
EXTENDS Integers, Sequences, FiniteSets, FiniteSetsExt, SequencesExt, Placement

CONSTANTS
    Thread,         \* thread_t slots the allocator hands out and takes back
    Process,        \* process_t slots
    Blocker,        \* blocker_t objects on the global list of blockers
    CpuAmount,      \* smp_cpu_amount()
    PRIORITY_MAX,   \* highest priority; PRIORITY_MIN is 0
    Timeout,        \* finite timeouts passed to sched_block
    MaxTime,        \* bound on uptime
    None            \* NULL

ASSUME CpuAssumption == CpuAmount \in Nat \ {0}
ASSUME PriorityAssumption == PRIORITY_MAX \in Nat
ASSUME TimeAssumption == MaxTime \in Nat /\ Timeout \subseteq Nat
ASSUME NoneAssumption == None \notin Thread \cup Process \cup Blocker
ASSUME SlotAssumption == Thread # {} /\ IsFiniteSet(Thread) /\ Process # {}

VARIABLES
    list,       \* the intrusive lists: ready queues, graveyards, blocker lists
    thread,     \* thread_t
    process,    \* process_t
    cpu,        \* cpu_t with its sched_context_t and the locals of its handler
    todo,       \* blockers sched_update_blockers has still to visit (CPU 0)
    uptime,     \* the time sched_update_blockers read when it started (CPU 0)
    now         \* time_uptime()

vars == <<list, thread, process, cpu, todo, uptime, now>>

CPU == 0 .. CpuAmount - 1
Priority == 0 .. PRIORITY_MAX
NEVER == MaxTime + 1

Queue(c, p) == <<"queue", c, p>>
Graveyard(c) == <<"graveyard", c, 0>>
Waiters(b) == <<"waiters", b, 0>>

QueueId == {Queue(c, p) : c \in CPU, p \in Priority}
GraveyardId == {Graveyard(c) : c \in CPU}
WaitersId == {Waiters(b) : b \in Blocker}
ListId == QueueId \cup GraveyardId \cup WaitersId

(***************************************************************************)
(* Where a thread's own code is.  "user" is the only place with a user     *)
(* code segment; "entry" is loader_spawn_entry, where a program starts;    *)
(* "kernel" is a system call, or the body of a kernel thread.  "block",    *)
(* "yield", "leave" and "exit" are the points of sched_block, sched_yield, *)
(* syscall_handler_end and the two exit functions just before their        *)
(* software interrupt; "push" is the call of sched_push for a new thread;  *)
(* "returned" is the log_panic behind the interrupt of an exit.  "free" is *)
(* an unallocated slot.                                                    *)
(***************************************************************************)
Place == {"free", "entry", "user", "kernel", "push", "block", "yield", "leave", "exit", "returned"}

ThreadRecord == [
    at: Place,
    program: BOOLEAN,                       \* runs a program; FALSE for the init and dwm threads
    process: Process \cup {None},
    priority: Priority,
    killed: BOOLEAN,
    slice: {"open", "over", "endless"},     \* timeEnd against time_uptime()
    deadline: 0 .. NEVER,
    result: {"BLOCK_NORM", "BLOCK_TIMEOUT"},
    blocker: Blocker \cup {None},
    child: Thread \cup {None}]              \* the new thread a "push" still has to queue

ProcessRecord == [ref: Nat, killed: BOOLEAN]

CpuRecord == [
    pc: {"run", "unblock", "tick", "graveyard", "find"},
    runThread: Thread \cup {None},
    lock: Blocker \cup {None},              \* the blocker lock this CPU holds
    pushing: Thread \cup {None},            \* argument of a sched_push under that lock
    target: CPU,                            \* "best" of that sched_push
    why: {"idle", "blocked", "any", "higher"},  \* which branch of sched_schedule
    level: -1 .. PRIORITY_MAX]              \* loop index of sched_context_find_*

TypeOK ==
    /\ list \in [ListId -> Seq(Thread)]
    /\ thread \in [Thread -> ThreadRecord]
    /\ process \in [Process -> ProcessRecord]
    /\ cpu \in [CPU -> CpuRecord]
    /\ todo \in SUBSET Blocker
    /\ uptime \in 0 .. MaxTime
    /\ now \in 0 .. MaxTime

-----------------------------------------------------------------------------
(* Helpers shared by the actions *)

\* trapFrame.cs != GDT_KERNEL_CODE
InUserMode(t) == thread[t].at = "user"

ProcessKilled(t) == process[thread[t].process].killed

\* process_thread_new: every field of a fresh thread_t
NewThread(p, program, at, priority) == [
    at |-> at, program |-> program, process |-> p, priority |-> priority, killed |-> FALSE,
    slice |-> "over", deadline |-> 0, result |-> "BLOCK_NORM",
    blocker |-> None, child |-> None]

\* The content of an unallocated slot is never read.
FreeThread == NewThread(None, FALSE, "free", 0)

\* Mutant: the reference is dropped twice.
ThreadFreeTwice(t) ==
    /\ thread' = [thread EXCEPT ![t] = FreeThread]
    /\ process' = [process EXCEPT ![thread[t].process].ref = @ - 2]

\* Mutant: the new thread takes no reference.
TakeNoRef(p) == process

TakeRef(p) == [process EXCEPT ![p].ref = @ + 1]

\* thread_free: drop the process reference; the last one frees the process
ThreadFree(t) ==
    /\ thread' = [thread EXCEPT ![t] = FreeThread]
    /\ process' = [process EXCEPT ![thread[t].process].ref = @ - 1]

\* queue_push, list_push
ListPush(l, t) == [list EXCEPT ![l] = Append(@, t)]

\* queue_pop, list_pop
ListPop(l) == [list EXCEPT ![l] = Tail(@)]

\* Mutant: a blocker list in order of arrival.
IsInsertPositionLast(s, t, i) == i = Len(s) + 1

\* blocker_push: before the first thread with a later deadline, else at the end
IsInsertPosition(s, t, i) ==
    /\ \A j \in 1 .. i - 1 : thread[s[j]].deadline <= thread[t].deadline
    /\ i <= Len(s) => thread[s[i]].deadline > thread[t].deadline

BlockerPush(l, t) ==
    \E i \in 1 .. Len(list[l]) + 1 :
        /\ IsInsertPosition(list[l], t, i)
        /\ list' = [list EXCEPT ![l] = InsertAt(@, i, t)]

\* sched_context_thread_amount
ThreadAmount(c) ==
    (IF cpu[c].runThread = None THEN 0 ELSE 1)
    + MapThenSumSet(LAMBDA p : Len(list[Queue(c, p)]), Priority)

\* sched_push: the first CPU among the least loaded ones
IsBestCpu(c) ==
    \A d \in CPU :
        \/ ThreadAmount(c) < ThreadAmount(d)
        \/ ThreadAmount(c) = ThreadAmount(d) /\ c <= d

\* LOCK_GUARD(&blocker->lock)
LockFree(b) == \A c \in CPU : cpu[c].lock # b

\* CPU c executes the code of its thread, with interrupts enabled.
Running(c, t) == cpu[c].pc = "run" /\ cpu[c].runThread = t /\ t # None

InSyscall(c, t) == Running(c, t) /\ thread[t].at = "kernel" /\ thread[t].program

-----------------------------------------------------------------------------
(* What the code of a running thread does *)

\* The syscall gate: a trap gate, interrupts stay enabled
SyscallEnter(c, t) ==
    /\ Running(c, t)
    /\ thread[t].at = "user"
    /\ thread' = [thread EXCEPT ![t].at = "kernel"]
    /\ UNCHANGED <<list, process, cpu, todo, uptime, now>>

\* syscall_handler_end: a killed process does not get back to user mode here
SyscallEnd(c, t) ==
    /\ InSyscall(c, t)
    /\ thread' = IF ProcessKilled(t)
                 THEN [thread EXCEPT ![t].at = "exit", ![t].killed = TRUE]
                 ELSE [thread EXCEPT ![t].at = "leave"]
    /\ UNCHANGED <<list, process, cpu, todo, uptime, now>>

\* loader_spawn_entry ends in user mode without passing syscall_handler_end.
JumpToUser(c, t) ==
    /\ Running(c, t)
    /\ thread[t].at = "entry"
    /\ thread' = [thread EXCEPT ![t].at = "user"]
    /\ UNCHANGED <<list, process, cpu, todo, uptime, now>>

SchedBlock(c, t, b, deadline) ==
    /\ Running(c, t)
    /\ thread[t].at = "kernel"
    /\ thread' = [thread EXCEPT ![t].at = "block", ![t].slice = "over",
                                ![t].deadline = deadline, ![t].blocker = b]
    /\ UNCHANGED <<list, process, cpu, todo, uptime, now>>

SchedYield(c, t) ==
    /\ InSyscall(c, t)
    /\ thread' = [thread EXCEPT ![t].at = "yield", ![t].slice = "over"]
    /\ UNCHANGED <<list, process, cpu, todo, uptime, now>>

SchedThreadExit(c, t) ==
    /\ Running(c, t)
    /\ thread[t].at = "kernel"
    /\ thread' = [thread EXCEPT ![t].at = "exit", ![t].killed = TRUE]
    /\ UNCHANGED <<list, process, cpu, todo, uptime, now>>

\* syscall_process_exit, and loader_spawn_entry when the program cannot be loaded
SchedProcessExit(c, t) ==
    /\ InSyscall(c, t) \/ (Running(c, t) /\ thread[t].at = "entry")
    /\ thread' = [thread EXCEPT ![t].at = "exit", ![t].killed = TRUE]
    /\ process' = [process EXCEPT ![thread[t].process].killed = TRUE]
    /\ UNCHANGED <<list, cpu, todo, uptime, now>>

\* thread_new: a process with one thread, which starts in loader_spawn_entry
ThreadNew(c, t, u, p, priority) ==
    /\ Running(c, t)
    /\ thread[t].at = "kernel"
    /\ thread[u].at = "free"
    /\ process[p].ref = 0
    /\ thread' = [thread EXCEPT ![u] = NewThread(p, TRUE, "entry", priority),
                                ![t].at = "push", ![t].child = u]
    /\ process' = [process EXCEPT ![p] = [ref |-> 1, killed |-> FALSE]]
    /\ UNCHANGED <<list, cpu, todo, uptime, now>>

\* thread_split: one more thread of the same process, in user mode for a
\* program (loader_split), in the kernel for the init thread (dwm_start)
ThreadSplit(c, t, u, priority) ==
    /\ Running(c, t)
    /\ thread[t].at = "kernel"
    /\ thread[u].at = "free"
    /\ LET at == IF thread[t].program THEN "user" ELSE "kernel"
       IN  thread' = [thread EXCEPT
                ![u] = NewThread(thread[t].process, thread[t].program, at, priority),
                ![t].at = "push", ![t].child = u]
    /\ process' = TakeRef(thread[t].process)
    /\ UNCHANGED <<list, cpu, todo, uptime, now>>

\* sched_push of the new thread, outside any lock
PushChild(c, t) ==
    /\ Running(c, t)
    /\ thread[t].at = "push"
    /\ \E d \in CPU :
        /\ IsBestCpu(d)
        /\ list' = ListPush(Queue(d, thread[thread[t].child].priority), thread[t].child)
    /\ thread' = [thread EXCEPT ![t].at = "kernel", ![t].child = None]
    /\ UNCHANGED <<process, cpu, todo, uptime, now>>

-----------------------------------------------------------------------------
(* sched_unblock, called by a thread in the kernel or by a device interrupt *)

SchedUnblock(c, b) ==
    /\ cpu[c].pc = "run"
    /\ LockFree(b)
    /\ cpu' = [cpu EXCEPT ![c].pc = "unblock", ![c].lock = b]
    /\ UNCHANGED <<list, thread, process, todo, uptime, now>>

\* Mutant: block.blocker is not reset.
WokenStillBlocked(t) ==
    [thread EXCEPT ![t].deadline = 0, ![t].result = "BLOCK_NORM"]

Woken(t) ==
    [thread EXCEPT ![t].deadline = 0, ![t].result = "BLOCK_NORM", ![t].blocker = None]

UnblockPop(c) ==
    LET l == Waiters(cpu[c].lock)
        t == Head(list[l])
    IN  /\ cpu[c].pc = "unblock"
        /\ cpu[c].pushing = None
        /\ list[l] # <<>>
        /\ list' = ListPop(l)
        /\ thread' = Woken(t)
        /\ \E d \in CPU :
            /\ IsBestCpu(d)
            /\ cpu' = [cpu EXCEPT ![c].pushing = t, ![c].target = d]
        /\ UNCHANGED <<process, todo, uptime, now>>

UnblockEnd(c) ==
    /\ cpu[c].pc = "unblock"
    /\ cpu[c].pushing = None
    /\ list[Waiters(cpu[c].lock)] = <<>>
    /\ cpu' = [cpu EXCEPT ![c].pc = "run", ![c].lock = None]
    /\ UNCHANGED <<list, thread, process, todo, uptime, now>>

\* sched_context_push, the end of sched_push.  In sched_update_blockers the
\* guard of the blocker's lock ends with the loop body.
SchedPush(c) ==
    LET t == cpu[c].pushing
    IN  /\ t # None
        /\ list' = ListPush(Queue(cpu[c].target, thread[t].priority), t)
        /\ cpu' = [cpu EXCEPT ![c].pushing = None, ![c].target = 0,
                              ![c].lock = IF cpu[c].pc = "tick" THEN None ELSE @]
        /\ UNCHANGED <<thread, process, todo, uptime, now>>

-----------------------------------------------------------------------------
(* sched_schedule, entered from the timer or from the software interrupt *)

EnterSchedule(c) ==
    IF c = 0
    THEN /\ cpu' = [cpu EXCEPT ![c].pc = "tick"]
         /\ todo' = Blocker
         /\ uptime' = now
    ELSE /\ cpu' = [cpu EXCEPT ![c].pc = "graveyard"]
         /\ UNCHANGED <<todo, uptime>>

\* VECTOR_SCHED_TIMER: between any two instructions with interrupts enabled,
\* in the idle loop too
SchedTimer(c) ==
    /\ cpu[c].pc = "run"
    /\ EnterSchedule(c)
    /\ UNCHANGED <<list, thread, process, now>>

AfterInvoke(at) ==
    CASE at = "leave" -> "user"
      [] at = "exit" -> "returned"
      [] OTHER -> "kernel"

\* VECTOR_SCHED_INVOKE: the saved rip is behind the interrupt
SchedInvoke(c, t) ==
    /\ Running(c, t)
    /\ thread[t].at \in {"block", "yield", "leave", "exit"}
    /\ thread' = [thread EXCEPT ![t].at = AfterInvoke(@)]
    /\ EnterSchedule(c)
    /\ UNCHANGED <<list, process, now>>

\* sched_update_blockers, one blocker: at most its first thread times out
UpdateBlocker(c, b) ==
    LET l == Waiters(b)
        t == Head(list[l])
    IN  /\ cpu[c].pc = "tick"
        /\ cpu[c].pushing = None
        /\ b \in todo
        /\ LockFree(b)
        /\ todo' = todo \ {b}
        /\ IF list[l] # <<>> /\ thread[t].deadline < uptime
           THEN /\ list' = ListPop(l)
                /\ thread' = [thread EXCEPT ![t].result = "BLOCK_TIMEOUT",
                                            ![t].blocker = None]
                /\ \E d \in CPU :
                    /\ IsBestCpu(d)
                    /\ cpu' = [cpu EXCEPT ![c].pushing = t, ![c].target = d,
                                          ![c].lock = b]
           ELSE UNCHANGED <<list, thread, cpu>>
        /\ UNCHANGED <<process, uptime, now>>

UpdateBlockersEnd(c) ==
    /\ cpu[c].pc = "tick"
    /\ cpu[c].pushing = None
    /\ todo = {}
    /\ cpu' = [cpu EXCEPT ![c].pc = "graveyard"]
    /\ uptime' = 0      \* dead after the loop
    /\ UNCHANGED <<list, thread, process, todo, now>>

\* sched_update_graveyard, its loop
GraveyardFree(c) ==
    /\ cpu[c].pc = "graveyard"
    /\ list[Graveyard(c)] # <<>>
    /\ ThreadFree(Head(list[Graveyard(c)]))
    /\ list' = ListPop(Graveyard(c))
    /\ UNCHANGED <<cpu, todo, uptime, now>>

\* Mutant: only the thread is tested.
MustDieAlone(t) == thread[t].killed

MustDie(t) == thread[t].killed \/ (ProcessKilled(t) /\ InUserMode(t))

StartFind(c, why) ==
    [cpu EXCEPT ![c].pc = "find", ![c].why = why, ![c].level = PRIORITY_MAX]

\* Mutant: context->runThread is not reset.
GiveUpNothing(c) == StartFind(c, "idle")

GiveUp(c) == [StartFind(c, "idle") EXCEPT ![c].runThread = None]

\* Mutant: the thread is freed at once.
GraveyardPushFrees(c) ==
    LET t == cpu[c].runThread
    IN  /\ cpu[c].pc = "graveyard"
        /\ list[Graveyard(c)] = <<>>
        /\ t # None
        /\ MustDie(t)
        /\ ThreadFree(t)
        /\ cpu' = GiveUp(c)
        /\ UNCHANGED <<list, todo, uptime, now>>

\* sched_update_graveyard, the running thread: it still stands on its kernel
\* stack, so it is freed by the next sched_schedule of this CPU
GraveyardPush(c) ==
    LET t == cpu[c].runThread
    IN  /\ cpu[c].pc = "graveyard"
        /\ list[Graveyard(c)] = <<>>
        /\ t # None
        /\ MustDie(t)
        /\ list' = ListPush(Graveyard(c), t)
        /\ cpu' = GiveUp(c)
        /\ UNCHANGED <<thread, process, todo, uptime, now>>

PickIdle(c) ==
    /\ cpu[c].pc = "graveyard"
    /\ list[Graveyard(c)] = <<>>
    /\ cpu[c].runThread = None
    /\ cpu' = StartFind(c, "idle")
    /\ UNCHANGED <<list, thread, process, todo, uptime, now>>

\* Mutant: the blocked thread is treated like a preempted one afterwards.
PickBlockFallsThrough(c) ==
    LET t == cpu[c].runThread
        b == thread[t].blocker
    IN  /\ cpu[c].pc = "graveyard"
        /\ list[Graveyard(c)] = <<>>
        /\ t # None
        /\ ~MustDie(t)
        /\ b # None
        /\ LockFree(b)
        /\ BlockerPush(Waiters(b), t)
        /\ cpu' = StartFind(c, "any")
        /\ UNCHANGED <<thread, process, todo, uptime, now>>

\* thread_save and blocker_push: from here on another CPU may wake the
\* thread, while this one still stands on its kernel stack
PickBlock(c) ==
    LET t == cpu[c].runThread
        b == thread[t].blocker
    IN  /\ cpu[c].pc = "graveyard"
        /\ list[Graveyard(c)] = <<>>
        /\ t # None
        /\ ~MustDie(t)
        /\ b # None
        /\ LockFree(b)
        /\ BlockerPush(Waiters(b), t)
        /\ cpu' = StartFind(c, "blocked")
        /\ UNCHANGED <<thread, process, todo, uptime, now>>

\* The test timeEnd < time_uptime(): true for 0, false for UINT64_MAX, and
\* either for the slice thread_load opened, by the time that has passed.
SliceOver(t) ==
    CASE thread[t].slice = "over" -> {TRUE}
      [] thread[t].slice = "endless" -> {FALSE}
      [] OTHER -> BOOLEAN

PickPreempt(c) ==
    LET t == cpu[c].runThread
    IN  /\ cpu[c].pc = "graveyard"
        /\ list[Graveyard(c)] = <<>>
        /\ t # None
        /\ ~MustDie(t)
        /\ thread[t].blocker = None
        /\ \E over \in SliceOver(t) : cpu' = StartFind(c, IF over THEN "any" ELSE "higher")
        /\ UNCHANGED <<list, thread, process, todo, uptime, now>>

\* The last queue sched_context_find_any and sched_context_find_higher look at
Floor(c) == IF cpu[c].why = "higher" THEN thread[cpu[c].runThread].priority + 1 ELSE 0

\* One iteration of the loop of sched_context_find_any / _find_higher
FindEmpty(c) ==
    /\ cpu[c].pc = "find"
    /\ cpu[c].level >= Floor(c)
    /\ list[Queue(c, cpu[c].level)] = <<>>
    /\ cpu' = [cpu EXCEPT ![c].level = @ - 1]
    /\ UNCHANGED <<list, thread, process, todo, uptime, now>>

\* A thread of a killed process that waits in user mode is freed and the
\* search restarts.
FindKilled(c) ==
    LET l == Queue(c, cpu[c].level)
        t == Head(list[l])
    IN  /\ cpu[c].pc = "find"
        /\ cpu[c].level >= Floor(c)
        /\ list[l] # <<>>
        /\ ProcessKilled(t) /\ InUserMode(t)
        /\ ThreadFree(t)
        /\ list' = ListPop(l)
        /\ cpu' = [cpu EXCEPT ![c].level = PRIORITY_MAX]
        /\ UNCHANGED <<todo, uptime, now>>

\* The trap returns to thread u, or to the idle loop.
Return(c, u) ==
    [cpu EXCEPT ![c].pc = "run", ![c].runThread = u, ![c].why = "idle", ![c].level = -1]

\* Mutant: the preempted thread is not queued.
PutBackNowhere(lists, c, t) == lists

\* Mutant: the preempted thread goes to the front of its queue.
PutBackFirst(lists, c, t) ==
    [lists EXCEPT ![Queue(c, thread[t].priority)] = <<t>> \o @]

PutBack(lists, c, t) ==
    [lists EXCEPT ![Queue(c, thread[t].priority)] = Append(@, t)]

\* thread_load of the thread found.  A thread that is preempted goes to the
\* back of its own CPU's queue first.
FindThread(c) ==
    LET l == Queue(c, cpu[c].level)
        u == Head(list[l])
        t == cpu[c].runThread
    IN  /\ cpu[c].pc = "find"
        /\ cpu[c].level >= Floor(c)
        /\ list[l] # <<>>
        /\ ~(ProcessKilled(u) /\ InUserMode(u))
        /\ list' = IF cpu[c].why \in {"any", "higher"}
                   THEN PutBack(ListPop(l), c, t)
                   ELSE ListPop(l)
        /\ thread' = [thread EXCEPT ![u].slice = "open"]
        /\ cpu' = Return(c, u)
        /\ UNCHANGED <<process, todo, uptime, now>>

\* Nothing to run: a CPU that gave up its thread idles, the others go on.
FindNone(c) ==
    /\ cpu[c].pc = "find"
    /\ cpu[c].level < Floor(c)
    /\ cpu' = Return(c, IF cpu[c].why \in {"any", "higher"} THEN cpu[c].runThread ELSE None)
    /\ UNCHANGED <<list, thread, process, todo, uptime, now>>

-----------------------------------------------------------------------------
(* Time *)

TimePasses ==
    /\ now < MaxTime
    /\ now' = now + 1
    /\ UNCHANGED <<list, thread, process, cpu, todo, uptime>>

-----------------------------------------------------------------------------
\* sched_context_init and sched_spawn_init_thread: CPU 0 runs the init
\* thread, whose slice never ends; the other CPUs are idle.
Init ==
    /\ list = [l \in ListId |-> <<>>]
    /\ \E t \in Thread, p \in Process :
        /\ thread = [u \in Thread |->
              IF u = t THEN [NewThread(p, FALSE, "kernel", PRIORITY_MAX) EXCEPT !.slice = "endless"]
                       ELSE FreeThread]
        /\ process = [q \in Process |-> [ref |-> IF q = p THEN 1 ELSE 0, killed |-> FALSE]]
        /\ cpu = [c \in CPU |-> [
              pc |-> "run", runThread |-> IF c = 0 THEN t ELSE None, lock |-> None,
              pushing |-> None, target |-> 0, why |-> "idle", level |-> -1]]
    /\ todo = {}
    /\ uptime = 0
    /\ now = 0

\* The deadline of a sched_block: NEVER, or uptime plus the timeout.
Deadlines == {NEVER} \cup {now + d : d \in {d \in Timeout : now + d < MaxTime}}

ThreadStep(c, t) ==
    \/ SyscallEnter(c, t)
    \/ SyscallEnd(c, t)
    \/ JumpToUser(c, t)
    \/ \E b \in Blocker, d \in Deadlines : SchedBlock(c, t, b, d)
    \/ SchedYield(c, t)
    \/ SchedThreadExit(c, t)
    \/ SchedProcessExit(c, t)
    \/ \E u \in Thread, p \in Process, i \in Priority : ThreadNew(c, t, u, p, i)
    \/ \E u \in Thread, i \in Priority : ThreadSplit(c, t, u, i)
    \/ PushChild(c, t)
    \/ SchedInvoke(c, t)

UnblockStep(c) ==
    \/ UnblockPop(c)
    \/ UnblockEnd(c)
    \/ SchedPush(c)

ScheduleStep(c) ==
    \/ \E b \in Blocker : UpdateBlocker(c, b)
    \/ UpdateBlockersEnd(c)
    \/ GraveyardFree(c)
    \/ GraveyardPush(c)
    \/ PickIdle(c)
    \/ PickBlock(c)
    \/ PickPreempt(c)
    \/ FindEmpty(c)
    \/ FindKilled(c)
    \/ FindThread(c)
    \/ FindNone(c)

Next ==
    \/ \E c \in CPU, t \in Thread : ThreadStep(c, t)
    \/ \E c \in CPU, b \in Blocker : SchedUnblock(c, b)
    \/ \E c \in CPU : SchedTimer(c) \/ UnblockStep(c) \/ ScheduleStep(c)
    \/ TimePasses

Spec == Init /\ [][Next]_vars

\* A pending timer interrupt is delivered when interrupts are enabled again,
\* and a CPU in the handler or in sched_unblock goes on: it only ever waits
\* for a ticket lock, which is served in order.
CpuFairness ==
    \A c \in CPU : /\ SF_vars(SchedTimer(c))
                   /\ SF_vars(UnblockStep(c) \/ ScheduleStep(c))

\* The same without blockers: there is no lock to wait for, and nothing but
\* the timer or a thread's own step leads out of "run".
CpuFairnessWithoutBlockers ==
    \A c \in CPU : WF_vars(SchedTimer(c) \/ ScheduleStep(c))

\* Every slice that thread_load opens runs out.
SliceFairness ==
    \A c \in CPU : SF_vars(PickPreempt(c) /\ cpu'[c].why = "any")

\* A program that gets to run again and again finishes its system call.
SyscallFairness ==
    \A t \in Thread : /\ SF_vars(\E c \in CPU : SyscallEnd(c, t))
                      /\ SF_vars(\E c \in CPU : JumpToUser(c, t) \/ PushChild(c, t) \/ SchedInvoke(c, t))

TimedSpec == Spec /\ CpuFairness /\ SliceFairness /\ WF_vars(TimePasses)
SyscallSpec == Spec /\ CpuFairnessWithoutBlockers /\ SyscallFairness

-----------------------------------------------------------------------------
(* Properties *)

Elements(l) == {list[l][i] : i \in 1 .. Len(list[l])}

\* The thread a CPU is entitled to run.  After blocker_push the thread belongs
\* to the blocker, although context->runThread still points to it.
Owned(c) ==
    IF cpu[c].pc = "find" /\ cpu[c].why = "blocked" THEN None ELSE cpu[c].runThread

\* The pointers that hold a thread which is in no list
RunHand(c) == <<"run", c>>
PushHand(c) == <<"push", c>>
ChildHand(t) == <<"child", t>>

HandId == {RunHand(c) : c \in CPU} \cup {PushHand(c) : c \in CPU} \cup {ChildHand(t) : t \in Thread}

Hold(h) ==
    CASE h[1] = "run" -> Owned(h[2])
      [] h[1] = "push" -> cpu[h[2]].pushing
      [] h[1] = "child" -> thread[h[2]].child

held == [h \in HandId |-> Hold(h)]

allocated == {t \in Thread : thread[t].at # "free"}

(***************************************************************************)
(* thread_t has a single list_entry_t: a thread is linked at most once, in *)
(* at most one ready queue, graveyard or blocker list.  sched_unblock,     *)
(* the timeout in sched_update_blockers, sched_push and the two exchanges  *)
(* in sched_schedule each move it without holding a lock common to all.    *)
(***************************************************************************)
EntryLinkedOnce == LinkedOnce(list)

(***************************************************************************)
(* A thread that a CPU runs, that a sched_push carries or that a creator   *)
(* has not queued yet is in no list and in nobody else's hands: two CPUs   *)
(* never run one thread.                                                   *)
(***************************************************************************)
HolderExclusive == HeldOnce(held, None) /\ HeldNotLinked(list, held)

(***************************************************************************)
(* No thread is lost and none is used after thread_free: the allocated     *)
(* threads are exactly those that are linked or in somebody's hands.       *)
(***************************************************************************)
NothingLost ==
    OnlyAllocated(list, held, allocated, None) /\ AllFound(list, held, allocated)

(***************************************************************************)
(* process->ref counts the process's threads, so process_free runs exactly *)
(* when thread_free releases the last one, whichever CPU that is.          *)
(***************************************************************************)
RefCountsThreads ==
    \A p \in Process :
        process[p].ref = Cardinality({t \in Thread :
                            thread[t].at # "free" /\ thread[t].process = p})

(***************************************************************************)
(* A blocker list is sorted by deadline: sched_update_blockers looks only  *)
(* at its first thread.                                                    *)
(***************************************************************************)
WaitersSorted ==
    \A b \in Blocker : \A i, j \in 1 .. Len(list[Waiters(b)]) :
        i < j => thread[list[Waiters(b)][i]].deadline <= thread[list[Waiters(b)][j]].deadline

(***************************************************************************)
(* block.blocker and the blocker lists agree: a linked thread names the    *)
(* blocker it waits for, and a thread that is ready or being woken names   *)
(* none, or sched_schedule would put it back to sleep.                     *)
(***************************************************************************)
BlockerAgrees ==
    /\ \A b \in Blocker : \A t \in Elements(Waiters(b)) : thread[t].blocker = b
    /\ \A l \in QueueId : \A t \in Elements(l) : thread[t].blocker = None
    /\ \A c \in CPU : cpu[c].pushing # None => thread[cpu[c].pushing].blocker = None

(***************************************************************************)
(* The log_panic calls behind sched_invoke in sched_process_exit and       *)
(* sched_thread_exit are never reached: no CPU resumes an exited thread.   *)
(***************************************************************************)
ExitNeverReturns ==
    \A c \in CPU : cpu[c].pc = "run" /\ cpu[c].runThread # None
                    => thread[cpu[c].runThread].at # "returned"

(***************************************************************************)
(* A thread_t, with the kernel stack inside it, is freed only when no CPU  *)
(* stands on that stack.  The graveyard delays the free for this reason.   *)
(* The one exception the code has is a CPU between blocker_push and        *)
(* thread_load, which no longer owns the thread.                           *)
(***************************************************************************)
StackOutlivesUse ==
    [][\A t \in Thread : thread[t].at # "free" /\ thread'[t].at = "free"
            => \A c \in CPU : Owned(c) # t]_vars

\* The state of ThreadLife a state of the scheduler stands for
Life(t) ==
    CASE thread[t].at = "free" -> "free"
      [] \E c \in CPU : Owned(c) = t -> "running"
      [] \E b \in Blocker : t \in Elements(Waiters(b)) -> "blocked"
      [] \E c \in CPU : t \in Elements(Graveyard(c)) -> "dead"
      [] OTHER -> "ready"

Abstract == INSTANCE ThreadLife WITH life <- [t \in Thread |-> Life(t)]

(***************************************************************************)
(* The scheduler implements ThreadLife.                                    *)
(***************************************************************************)
ImplementsThreadLife == Abstract!Spec

(***************************************************************************)
(* "timeout will be reached even if sched_unblock is never called": a      *)
(* thread linked in a blocker list with a finite deadline gets off it,     *)
(* although sched_update_blockers times out one thread per call and looks  *)
(* only at the first.                                                      *)
(***************************************************************************)
TimeoutReached ==
    \A t \in Thread, b \in Blocker :
        (t \in Elements(Waiters(b)) /\ thread[t].deadline # NEVER)
            ~> t \notin Elements(Waiters(b))

(***************************************************************************)
(* A thread that exits is freed: its CPU schedules again and empties its   *)
(* graveyard.                                                              *)
(***************************************************************************)
ExitedIsFreed ==
    \A t \in Thread : thread[t].killed ~> thread[t].at = "free"

(***************************************************************************)
(* Killing a process empties it: every thread of it disappears, unless it  *)
(* sits on a blocker list, where nothing looks for killed threads.         *)
(***************************************************************************)
KilledProcessDrains ==
    \A p \in Process :
        process[p].killed ~>
            \/ ~process[p].killed
            \/ \A t \in Thread : thread[t].at # "free" /\ thread[t].process = p
                    => \E b \in Blocker : t \in Elements(Waiters(b))

(***************************************************************************)
(* With one priority, a ready thread is not left in its queue forever: the *)
(* slice of the running thread ends and the queue is served in order.  The *)
(* init thread is the exception until it first blocks, yields or exits: it *)
(* runs on a slice without end (sched_spawn_init_thread).                  *)
(***************************************************************************)
ReadyRuns ==
    \A t \in Thread :
        /\ \E l \in QueueId : t \in Elements(l)
        /\ \A u \in Thread : thread[u].slice # "endless"
        ~> \A l \in QueueId : t \notin Elements(l)

(***************************************************************************)
(* The lists of sleeping threads are what both ways to wake up rely on:    *)
(* sched_unblock and the timeout that races it find a thread on the list   *)
(* of its blocker or wake it no more, and the next deadline comes first.   *)
(***************************************************************************)
BlockersConsistent == BlockerAgrees /\ WaitersSorted

(***************************************************************************)
(* A thread that exits, or whose process is killed, is gone for good:      *)
(* whichever of the three places that look for it is the first, it never   *)
(* returns from its exit and its memory is given back.                     *)
(***************************************************************************)
DeathIsFinal == []ExitNeverReturns /\ ExitedIsFreed /\ KilledProcessDrains
=============================================================================
