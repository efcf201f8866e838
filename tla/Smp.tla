-------------------------------- MODULE Smp ---------------------------------
(***************************************************************************)
(* Starting the other CPUs, inter-processor interrupts and panics:         *)
(* src/kernel/smp.c, the panic of src/kernel/log.c, ipi_handler of         *)
(* src/kernel/trap.c and sched_start.                                      *)
(*                                                                         *)
(* Locks are taken in one step here (module Lock has the steps): what      *)
(* matters is that cli_push comes before the wait for the lock, and that   *)
(* it does nothing until smp_init_others has ended.                        *)
(***************************************************************************)
EXTENDS Integers

CONSTANTS
    CpuAmount,
    IPI_QUEUE_MAX,
    NoCore

\* A ring must hold two requests and the slot that tells full from empty:
\* nothing in smp_send looks whether it is full.
ASSUME SmpAssumption ==
    /\ CpuAmount \in 1 .. 255
    /\ IPI_QUEUE_MAX \in Nat /\ IPI_QUEUE_MAX >= 3
    /\ NoCore \notin Int

VARIABLES
    core,           \* the CPUs: cpu_t, the interrupt flag and what they execute
    ring,           \* ipi_queue_t of each CPU
    pending,        \* CPUs whose local APIC has a VECTOR_IPI to deliver
    owner,          \* who holds the lock of log.c, which any code may take
    boot,           \* cpuReady and initialized
    panicking,
    haltedAmount

smpVars == <<core, ring, pending, owner, boot, panicking, haltedAmount>>

Core == 0 .. CpuAmount - 1
Ipi == {"start", "halt"}

\* "off", "entry", "logged", "ready": smp_entry; "boot", "await": smp_start_others;
\* "send": sched_start; "run": anything else, "spin": in lock_acquire; "ipi":
\* in ipi_handler; "panic", "halt", "wait", "write", "done": log_panic;
\* "hung": panicked as the second one; "underflow": the assertion of cli_pop
CoreRecord == [
    pc: {"off", "entry", "logged", "ready", "boot", "await", "send", "run", "spin", "ipi", "panic",
         "halt", "wait", "write", "done", "halted", "hung", "underflow"},
    index: 0 .. CpuAmount,      \* loop over the CPUs
    enabled: BOOLEAN,           \* RFLAGS_INTERRUPT_ENABLE
    saved: BOOLEAN,             \* the flag the iret of ipi_handler restores
    cliAmount: 0 .. 1,
    prevFlags: BOOLEAN,
    started: BOOLEAN]           \* sched_start_ipi has run: threads and traps from now on

SmpTypeOK ==
    /\ core \in [Core -> CoreRecord]
    /\ ring \in [Core -> [ipis: [0 .. IPI_QUEUE_MAX - 1 -> Ipi],
                          readIndex: 0 .. IPI_QUEUE_MAX - 1, writeIndex: 0 .. IPI_QUEUE_MAX - 1]]
    /\ pending \subseteq Core
    /\ owner \in Core \cup {NoCore}
    /\ boot \in [cpuReady: BOOLEAN, initialized: BOOLEAN]
    /\ panicking \in BOOLEAN
    /\ haltedAmount \in 0 .. CpuAmount

-----------------------------------------------------------------------------
(* The ring of requests *)

IpiPush(q, ipi) ==
    [q EXCEPT !.ipis[q.writeIndex] = ipi, !.writeIndex = (q.writeIndex + 1) % IPI_QUEUE_MAX]

IpiEmpty(q) == q.writeIndex = q.readIndex

IpiPop(q) == [q EXCEPT !.readIndex = (q.readIndex + 1) % IPI_QUEUE_MAX]

\* The requests in the ring
Requests(q) ==
    {q.ipis[i] : i \in {j \in 0 .. IPI_QUEUE_MAX - 1 :
        (j - q.readIndex) % IPI_QUEUE_MAX < (q.writeIndex - q.readIndex) % IPI_QUEUE_MAX}}

\* smp_send: the request, then the interrupt
Send(d, ipi) ==
    /\ ring' = [ring EXCEPT ![d] = IpiPush(ring[d], ipi)]
    /\ pending' = pending \cup {d}

-----------------------------------------------------------------------------
(* Interrupt masking around locks *)

\* Neither function does anything before smp_init_others has ended.  The code
\* goes on at pc after cli_pop.
CliPush(r) ==
    IF ~boot.initialized THEN r
    ELSE [r EXCEPT !.enabled = FALSE, !.cliAmount = r.cliAmount + 1,
                   !.prevFlags = IF r.cliAmount = 0 THEN r.enabled ELSE r.prevFlags]

CliPopTo(r, pc) ==
    IF ~boot.initialized THEN [r EXCEPT !.pc = pc]
    ELSE IF r.cliAmount = 0 THEN [r EXCEPT !.pc = "underflow"]
    ELSE [r EXCEPT !.pc = pc, !.cliAmount = r.cliAmount - 1,
                   !.enabled = r.enabled \/ (r.cliAmount = 1 /\ r.prevFlags)]

\* Code of the kernel takes the lock of the log.
SmpAcquire(c) ==
    /\ core[c].pc = "run" /\ core[c].started
    /\ owner # c
    /\ core' = [core EXCEPT ![c] = [CliPush(core[c]) EXCEPT !.pc = "spin"]]
    /\ UNCHANGED <<ring, pending, owner, boot, panicking, haltedAmount>>

SmpSpinEnd(c) ==
    /\ core[c].pc = "spin"
    /\ owner = NoCore
    /\ owner' = c
    /\ core' = [core EXCEPT ![c].pc = "run"]
    /\ UNCHANGED <<ring, pending, boot, panicking, haltedAmount>>

SmpRelease(c) ==
    /\ core[c].pc = "run"
    /\ owner = c
    /\ owner' = NoCore
    /\ core' = [core EXCEPT ![c] = CliPopTo(core[c], "run")]
    /\ UNCHANGED <<ring, pending, boot, panicking, haltedAmount>>

\* A thread or the idle loop runs with interrupts on.
Sti(c) ==
    /\ core[c].pc = "run" /\ core[c].cliAmount = 0 /\ ~core[c].enabled
    /\ core' = [core EXCEPT ![c].enabled = TRUE]
    /\ UNCHANGED <<ring, pending, owner, boot, panicking, haltedAmount>>

-----------------------------------------------------------------------------
(* smp_start_others, cpu_start and smp_entry *)

CpuStart(c) ==
    LET d == core[c].index
    IN  /\ core[c].pc = "boot"
        /\ d < CpuAmount
        /\ boot' = [boot EXCEPT !.cpuReady = FALSE]
        /\ core' = [core EXCEPT ![c].pc = "await", ![d].pc = "entry"]
        /\ UNCHANGED <<ring, pending, owner, panicking, haltedAmount>>

CpuStarted(c) ==
    /\ core[c].pc = "await"
    /\ boot.cpuReady
    /\ core' = [core EXCEPT ![c].pc = "boot", ![c].index = @ + 1]
    /\ UNCHANGED <<ring, pending, owner, boot, panicking, haltedAmount>>

\* LOG_ASSERT "startup fail" after a thousand milliseconds
StartTimeout(c) ==
    /\ core[c].pc = "await"
    /\ ~boot.cpuReady
    /\ core' = [core EXCEPT ![c].pc = "panic", ![c].index = 0]
    /\ UNCHANGED <<ring, pending, owner, boot, panicking, haltedAmount>>

SmpInitialized(c) ==
    /\ core[c].pc = "boot" /\ core[c].index = CpuAmount
    /\ boot' = [boot EXCEPT !.initialized = TRUE]
    /\ core' = [core EXCEPT ![c].pc = "send", ![c].index = 0]
    /\ UNCHANGED <<ring, pending, owner, panicking, haltedAmount>>

\* smp_entry: log_print takes and releases the lock of the log
EntryLock(c) ==
    /\ core[c].pc = "entry"
    /\ owner = NoCore
    /\ owner' = c
    /\ core' = [core EXCEPT ![c] = [CliPush(core[c]) EXCEPT !.pc = "logged"]]
    /\ UNCHANGED <<ring, pending, boot, panicking, haltedAmount>>

EntryUnlock(c) ==
    /\ core[c].pc = "logged"
    /\ owner' = NoCore
    /\ core' = [core EXCEPT ![c] = CliPopTo(core[c], "ready")]
    /\ UNCHANGED <<ring, pending, boot, panicking, haltedAmount>>

EntryReady(c) ==
    /\ core[c].pc = "ready"
    /\ boot' = [boot EXCEPT !.cpuReady = TRUE]
    /\ core' = [core EXCEPT ![c].pc = "run"]
    /\ UNCHANGED <<ring, pending, owner, panicking, haltedAmount>>

-----------------------------------------------------------------------------
(* sched_start and ipi_handler *)

\* smp_send_others, one CPU after the other
StartOthers(c) ==
    LET d == core[c].index
    IN  /\ core[c].pc = "send"
        /\ d < CpuAmount
        /\ IF d = c THEN UNCHANGED <<ring, pending>> ELSE Send(d, "start")
        /\ core' = [core EXCEPT ![c].index = d + 1]
        /\ UNCHANGED <<owner, boot, panicking, haltedAmount>>

\* smp_send_self: the int instruction enters the handler at once.
StartSelf(c) ==
    /\ core[c].pc = "send"
    /\ core[c].index = CpuAmount
    /\ ring' = [ring EXCEPT ![c] = IpiPush(ring[c], "start")]
    /\ core' = [core EXCEPT ![c].pc = "ipi", ![c].saved = core[c].enabled, ![c].index = 0]
    /\ UNCHANGED <<pending, owner, boot, panicking, haltedAmount>>

IpiEnter(c) ==
    /\ c \in pending
    /\ core[c].pc = "run" /\ core[c].enabled
    /\ pending' = pending \ {c}
    /\ core' = [core EXCEPT ![c].pc = "ipi", ![c].saved = TRUE, ![c].enabled = FALSE]
    /\ UNCHANGED <<ring, owner, boot, panicking, haltedAmount>>

\* Mutant: one request per interrupt.
IpiStartOnce(c) ==
    /\ core[c].pc = "ipi"
    /\ ~IpiEmpty(ring[c])
    /\ ring[c].ipis[ring[c].readIndex] = "start"
    /\ ring' = [ring EXCEPT ![c] = IpiPop(ring[c])]
    /\ core' = [core EXCEPT ![c].pc = "run", ![c].enabled = core[c].saved, ![c].saved = FALSE,
                            ![c].started = TRUE]
    /\ UNCHANGED <<pending, owner, boot, panicking, haltedAmount>>

\* sched_start_ipi sets up the timer and returns into the loop.
IpiStart(c) ==
    /\ core[c].pc = "ipi"
    /\ ~IpiEmpty(ring[c])
    /\ ring[c].ipis[ring[c].readIndex] = "start"
    /\ ring' = [ring EXCEPT ![c] = IpiPop(ring[c])]
    /\ core' = [core EXCEPT ![c].started = TRUE]
    /\ UNCHANGED <<pending, owner, boot, panicking, haltedAmount>>

\* Mutant: the CPU stops without counting itself.
IpiHaltUncounted(c) ==
    /\ core[c].pc = "ipi"
    /\ ~IpiEmpty(ring[c])
    /\ ring[c].ipis[ring[c].readIndex] = "halt"
    /\ ring' = [ring EXCEPT ![c] = IpiPop(ring[c])]
    /\ core' = [core EXCEPT ![c].pc = "halted", ![c].saved = FALSE]
    /\ UNCHANGED <<pending, owner, boot, panicking, haltedAmount>>

\* smp_halt_ipi does not return.
IpiHalt(c) ==
    /\ core[c].pc = "ipi"
    /\ ~IpiEmpty(ring[c])
    /\ ring[c].ipis[ring[c].readIndex] = "halt"
    /\ ring' = [ring EXCEPT ![c] = IpiPop(ring[c])]
    /\ haltedAmount' = haltedAmount + 1
    /\ core' = [core EXCEPT ![c].pc = "halted", ![c].saved = FALSE]
    /\ UNCHANGED <<pending, owner, boot, panicking>>

IpiReturn(c) ==
    /\ core[c].pc = "ipi"
    /\ IpiEmpty(ring[c])
    /\ core' = [core EXCEPT ![c].pc = "run", ![c].enabled = core[c].saved, ![c].saved = FALSE]
    /\ UNCHANGED <<ring, pending, owner, boot, panicking, haltedAmount>>

-----------------------------------------------------------------------------
(* log_panic *)

\* An exception or a failed assertion, with or without locks held
Panic(c) ==
    /\ core[c].pc = "run" /\ core[c].started
    /\ core' = [core EXCEPT ![c].pc = "panic", ![c].enabled = FALSE]
    /\ UNCHANGED <<ring, pending, owner, boot, panicking, haltedAmount>>

PanicEnter(c) ==
    /\ core[c].pc = "panic"
    /\ panicking' = TRUE
    /\ core' = [core EXCEPT ![c].pc = IF panicking THEN "hung"
                                      ELSE IF boot.initialized THEN "halt" ELSE "write"]
    /\ UNCHANGED <<ring, pending, owner, boot, haltedAmount>>

HaltSend(c) ==
    LET d == core[c].index
    IN  /\ core[c].pc = "halt"
        /\ d < CpuAmount
        /\ IF d = c THEN UNCHANGED <<ring, pending>> ELSE Send(d, "halt")
        /\ core' = [core EXCEPT ![c].index = d + 1]
        /\ UNCHANGED <<owner, boot, panicking, haltedAmount>>

HaltWait(c) ==
    /\ core[c].pc = "halt" /\ core[c].index = CpuAmount
    /\ haltedAmount >= CpuAmount - 1
    /\ core' = [core EXCEPT ![c].pc = "write"]
    /\ UNCHANGED <<ring, pending, owner, boot, panicking, haltedAmount>>

\* log_enable_screen and the log_prints take the lock of the log each.
PanicWrite(c) ==
    /\ core[c].pc = "write"
    /\ owner = NoCore
    /\ core' = [core EXCEPT ![c].pc = "done"]
    /\ UNCHANGED <<ring, pending, owner, boot, panicking, haltedAmount>>

-----------------------------------------------------------------------------
\* The first CPU after smp_init; the others wait for their SIPI.
SmpInit ==
    /\ core = [c \in Core |->
        [pc |-> IF c = 0 THEN "boot" ELSE "off", index |-> IF c = 0 THEN 1 ELSE 0,
         enabled |-> FALSE, saved |-> FALSE,
         cliAmount |-> 0, prevFlags |-> FALSE, started |-> FALSE]]
    /\ ring = [c \in Core |-> [ipis |-> [i \in 0 .. IPI_QUEUE_MAX - 1 |-> "start"],
                               readIndex |-> 0, writeIndex |-> 0]]
    /\ pending = {}
    /\ owner = NoCore
    /\ boot = [cpuReady |-> FALSE, initialized |-> FALSE]
    /\ panicking = FALSE
    /\ haltedAmount = 0

\* What a CPU does without being asked to
SmpStep(c) ==
    \/ SmpSpinEnd(c) \/ SmpRelease(c) \/ Sti(c)
    \/ CpuStart(c) \/ CpuStarted(c) \/ SmpInitialized(c)
    \/ EntryLock(c) \/ EntryUnlock(c) \/ EntryReady(c)
    \/ StartOthers(c) \/ StartSelf(c)
    \/ IpiStart(c) \/ IpiHalt(c) \/ IpiReturn(c)
    \/ PanicEnter(c) \/ HaltSend(c) \/ HaltWait(c) \/ PanicWrite(c)

SmpNext ==
    \E c \in Core :
        \/ SmpAcquire(c)
        \/ StartTimeout(c)
        \/ IpiEnter(c)
        \/ Panic(c)
        \/ SmpStep(c)

SmpSpec == SmpInit /\ [][SmpNext]_smpVars

-----------------------------------------------------------------------------
(* Properties *)

(***************************************************************************)
(* When a panic writes its message, every other CPU has been stopped, and  *)
(* was stopped outside of every critical section: interrupts are off in    *)
(* those.  So the screen and the lock of the log belong to the panic.      *)
(***************************************************************************)
PanicAlone ==
    \A c \in Core :
        core[c].pc \in {"write", "done"} /\ boot.initialized
            => \A d \in Core \ {c} : core[d].pc = "halted" /\ owner # d

(***************************************************************************)
(* A request to halt is not lost: not at the limit of the ring, not        *)
(* behind a pending sched_start_ipi, and not when it comes in while the    *)
(* handler is about to return.                                             *)
(***************************************************************************)
HaltNotLost ==
    \A c, d \in Core :
        c # d /\ core[c].pc = "halt" /\ d < core[c].index =>
            \/ core[d].pc = "halted"
            \/ "halt" \in Requests(ring[d]) /\ (d \in pending \/ core[d].pc = "ipi")

(***************************************************************************)
(* cli_push and cli_pop stay balanced although both begin to count only    *)
(* when smp_init_others has ended: no CPU is inside a critical section at  *)
(* that moment (the assertion "cli amount underflow").                     *)
(***************************************************************************)
CliBalanced ==
    /\ \A c \in Core : core[c].pc # "underflow"
    /\ boot.initialized => \A c \in Core : owner = c => core[c].cliAmount > 0

(***************************************************************************)
(* A panic outside of a critical section gets its message out, whatever    *)
(* the other CPUs hold or wait for, unless one of them panics too:         *)
(* the second one never answers.                                           *)
(***************************************************************************)
PanicReported ==
    \A c \in Core :
        core[c].pc = "halt" /\ owner # c
            ~> core[c].pc = "done" \/ \E d \in Core : core[d].pc = "hung"

(***************************************************************************)
(* A panic takes the machine over safely: every CPU gets its request to    *)
(* halt, stops outside of critical sections, which stay balanced from the  *)
(* start of the CPUs on, and has stopped before the message is written.    *)
(***************************************************************************)
HaltSafe == SmpTypeOK /\ PanicAlone /\ HaltNotLost /\ CliBalanced
=============================================================================
