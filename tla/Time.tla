------------------------------- MODULE Time ---------------------------------
(***************************************************************************)
(* The clock: src/kernel/time.c and the counter of src/kernel/hpet.c.      *)
(*                                                                         *)
(* The RTC interrupt of CPU 0 moves the counter into the accumulator, one  *)
(* register access at a time; the other CPUs read the clock meanwhile.     *)
(* Time is counted in ticks of the counter.                                *)
(***************************************************************************)
EXTENDS Integers

CONSTANTS
    Caller,         \* CPUs that call time_uptime and hpet_sleep
    SleepTicks,     \* ticks they sleep for
    CounterSize,    \* 2^32 for a 32 bit counter
    CounterMax,     \* bound: the highest count before a reset; the RTC sees to it
    NowMax          \* bound on the time

ASSUME TimeAssumption ==
    /\ CounterMax \in Nat
    /\ CounterSize \in Nat /\ CounterSize > CounterMax
    /\ NowMax \in Nat
    /\ SleepTicks \subseteq Nat

VARIABLES
    now,            \* ticks since the counter was started, whatever the code knows
    counter,        \* HPET_MAIN_COUNTER_VALUE
    enabled,        \* HPET_GENERAL_CONFIG
    accumulator,
    spent,          \* ticks that passed while the handler ran
    irq,            \* time_irq_handler
    reader,
    sleeper

timeVars == <<now, counter, enabled, accumulator, spent, irq, reader, sleeper>>

Tick == 0 .. NowMax

\* What a reader has loaded; -1: not yet.  begin: when it began; alone: no
\* handler ran meanwhile.
ReaderRecord == [accumulator: Tick \cup {-1}, counter: Tick \cup {-1}, begin: Tick \cup {-1},
                 alone: BOOLEAN]

TimeTypeOK ==
    /\ now \in Tick /\ counter \in 0 .. CounterMax /\ enabled \in BOOLEAN
    /\ accumulator \in Tick /\ spent \in Tick
    /\ irq \in [pc: {"idle", "add", "disable", "zero", "enable"}, read: 0 .. CounterMax]
    /\ reader \in [Caller -> ReaderRecord]
    /\ sleeper \in [Caller -> [target: Nat \cup {-1}, begin: Tick, ticks: {0} \cup SleepTicks]]

-----------------------------------------------------------------------------
\* External: the counter
HpetTick ==
    /\ now < NowMax
    /\ enabled => counter < CounterMax
    /\ now' = now + 1
    /\ counter' = IF enabled THEN (counter + 1) % CounterSize ELSE counter
    /\ spent' = IF irq.pc = "idle" THEN spent ELSE spent + 1
    /\ UNCHANGED <<enabled, accumulator, irq, reader, sleeper>>

-----------------------------------------------------------------------------
(* time_accumulate, hpet_reset_counter *)

\* Mutant: the handler leaves what it has read out of the sum.
TimeIrqForget ==
    /\ irq.pc = "add"
    /\ irq' = [irq EXCEPT !.pc = "disable"]
    /\ UNCHANGED <<now, spent, counter, enabled, accumulator, reader, sleeper>>

\* The handler's first access, which ends every reader's time alone
TimeIrq ==
    /\ irq.pc = "idle"
    /\ irq' = [pc |-> "add", read |-> counter]
    /\ reader' = [r \in Caller |-> [reader[r] EXCEPT !.alone = FALSE]]
    /\ UNCHANGED <<now, spent, counter, enabled, accumulator, sleeper>>

TimeIrqAdd ==
    /\ irq.pc = "add"
    /\ accumulator' = accumulator + irq.read
    /\ irq' = [irq EXCEPT !.pc = "disable"]
    /\ UNCHANGED <<now, spent, counter, enabled, reader, sleeper>>

HpetDisable ==
    /\ irq.pc = "disable"
    /\ enabled' = FALSE
    /\ irq' = [irq EXCEPT !.pc = "zero"]
    /\ UNCHANGED <<now, spent, counter, accumulator, reader, sleeper>>

HpetZero ==
    /\ irq.pc = "zero"
    /\ counter' = 0
    /\ irq' = [irq EXCEPT !.pc = "enable"]
    /\ UNCHANGED <<now, spent, enabled, accumulator, reader, sleeper>>

HpetEnable ==
    /\ irq.pc = "enable"
    /\ enabled' = TRUE
    /\ irq' = [pc |-> "idle", read |-> 0]
    /\ UNCHANGED <<now, spent, counter, accumulator, reader, sleeper>>

-----------------------------------------------------------------------------
(* time_uptime: C does not say which of the two operands is read first. *)

NoReading == [accumulator |-> -1, counter |-> -1, begin |-> -1, alone |-> FALSE]

UptimeCall(r) ==
    /\ reader[r].begin = -1 /\ sleeper[r].target = -1
    /\ reader' = [reader EXCEPT ![r] = [NoReading EXCEPT !.begin = now, !.alone = irq.pc = "idle"]]
    /\ UNCHANGED <<now, spent, counter, enabled, accumulator, irq, sleeper>>

UptimeAccumulator(r) ==
    /\ reader[r].begin # -1 /\ reader[r].accumulator = -1
    /\ reader' = [reader EXCEPT ![r].accumulator = accumulator]
    /\ UNCHANGED <<now, spent, counter, enabled, accumulator, irq, sleeper>>

UptimeCounter(r) ==
    /\ reader[r].begin # -1 /\ reader[r].counter = -1
    /\ reader' = [reader EXCEPT ![r].counter = counter]
    /\ UNCHANGED <<now, spent, counter, enabled, accumulator, irq, sleeper>>

UptimeReturn(r) ==
    /\ reader[r].accumulator # -1 /\ reader[r].counter # -1
    /\ reader' = [reader EXCEPT ![r] = NoReading]
    /\ UNCHANGED <<now, spent, counter, enabled, accumulator, irq, sleeper>>
-----------------------------------------------------------------------------
(* hpet_sleep *)

SleepCall(s, t) ==
    /\ sleeper[s].target = -1 /\ reader[s].begin = -1
    /\ sleeper' = [sleeper EXCEPT ![s] = [target |-> counter + t, begin |-> now, ticks |-> t]]
    /\ UNCHANGED <<now, spent, counter, enabled, accumulator, irq, reader>>

SleepReturn(s) ==
    /\ sleeper[s].target # -1
    /\ counter >= sleeper[s].target
    /\ sleeper' = [sleeper EXCEPT ![s] = [target |-> -1, begin |-> 0, ticks |-> 0]]
    /\ UNCHANGED <<now, spent, counter, enabled, accumulator, irq, reader>>

-----------------------------------------------------------------------------
\* After hpet_init
TimeInit ==
    /\ now = 0 /\ counter = 0 /\ enabled = TRUE
    /\ accumulator = 0 /\ spent = 0
    /\ irq = [pc |-> "idle", read |-> 0]
    /\ reader = [r \in Caller |-> NoReading]
    /\ sleeper = [s \in Caller |-> [target |-> -1, begin |-> 0, ticks |-> 0]]

TimeNext ==
    \/ HpetTick
    \/ TimeIrq \/ TimeIrqAdd \/ HpetDisable \/ HpetZero \/ HpetEnable
    \/ \E r \in Caller :
        UptimeCall(r) \/ UptimeAccumulator(r) \/ UptimeCounter(r) \/ UptimeReturn(r)
    \/ \E s \in Caller : (\E t \in SleepTicks : SleepCall(s, t)) \/ SleepReturn(s)

TimeSpec == TimeInit /\ [][TimeNext]_timeVars

-----------------------------------------------------------------------------
(* Properties *)

Complete(r) == reader[r].accumulator # -1 /\ reader[r].counter # -1

Uptime(r) == reader[r].accumulator + reader[r].counter

(***************************************************************************)
(* A time_uptime that no RTC interrupt overlaps returns a time of its      *)
(* call, short of at most what passed inside earlier interrupts: the two   *)
(* loads need no lock, whichever comes first.  One that an interrupt does  *)
(* overlap counts the ticks of one period twice (between the add and the   *)
(* reset) or not at all (the loads on both sides of them), no more.        *)
(***************************************************************************)
UptimeClose ==
    \A r \in Caller : Complete(r) =>
        LET slack == IF reader[r].alone THEN 0 ELSE CounterMax
        IN  Uptime(r) \in reader[r].begin - spent - slack .. now + slack

(***************************************************************************)
(* hpet_sleep does not return early, although the counter it compares with *)
(* may be reset meanwhile: a reset makes it late.                          *)
(***************************************************************************)
HpetSleepsEnough ==
    \A s \in Caller : sleeper[s].target # -1 /\ counter >= sleeper[s].target =>
        now >= sleeper[s].begin + sleeper[s].ticks

(***************************************************************************)
(* The clock can be read while the interrupt moves the counter into the    *)
(* accumulator: time is off by one period at most, and no sleep is short.  *)
(***************************************************************************)
ClockRight == TimeTypeOK /\ UptimeClose /\ HpetSleepsEnough
=============================================================================
