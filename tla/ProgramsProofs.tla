--------------------------- MODULE ProgramsProofs ---------------------------
(***************************************************************************)
(* Proofs about what programs run on: the clock, the messages a window is  *)
(* sent, the loop of the window library, and the heap.                     *)
(***************************************************************************)
EXTENDS Focus, Win, Time, Heap, PlacementProofs, WellFoundedInduction

-----------------------------------------------------------------------------
(* The clock, for any size of the counter and any number of callers *)

\* What the handler has done to the sum of accumulator and counter: the sum is
\* never ahead of the time, and behind it by no more than what passed while
\* handlers ran; between the add and the reset the counter's old value is in
\* both.
Accounted ==
    \/ /\ irq.pc = "idle" /\ enabled
       /\ accumulator + counter <= now /\ now <= accumulator + counter + spent
    \/ /\ irq.pc = "add" /\ enabled /\ irq.read <= counter
       /\ accumulator + counter <= now /\ now <= accumulator + irq.read + spent
    \/ /\ irq.pc \in {"disable", "zero"} /\ (irq.pc = "disable" <=> enabled)
       /\ irq.read <= counter /\ irq.read <= accumulator
       /\ accumulator + counter - irq.read <= now /\ now <= accumulator + spent
    \/ /\ irq.pc = "enable" /\ ~enabled /\ counter = 0
       /\ accumulator <= now /\ now <= accumulator + spent

\* What a reader has loaded.  Alone, it has loaded what is still there, the
\* counter included but for the ticks since.
ReaderFits(r) ==
    /\ r.begin = -1 => r.accumulator = -1 /\ r.counter = -1
    /\ r.begin <= now
    /\ r.accumulator # -1 =>
        r.accumulator <= now /\ r.begin - spent - CounterMax <= r.accumulator
    /\ r.counter <= CounterMax
    /\ r.begin # -1 /\ r.alone =>
        /\ irq.pc = "idle"
        /\ r.accumulator # -1 => r.accumulator = accumulator
        /\ r.counter # -1 => r.counter <= counter /\ counter - (now - r.begin) <= r.counter

\* The counter gains on the target no faster than time passes.
SleeperFits(s) == s.target # -1 => counter - s.target <= now - s.begin - s.ticks

TimeInv ==
    /\ TimeTypeOK /\ spent <= now /\ Accounted
    /\ \A r \in Caller : ReaderFits(reader[r])
    /\ \A s \in Caller : SleeperFits(sleeper[s])

LEMMA TimeNumbers ==
    ASSUME TimeTypeOK
    PROVE  /\ CounterMax \in Nat /\ NowMax \in Nat /\ CounterSize \in Nat
           /\ now \in Nat /\ now <= NowMax /\ counter \in Nat /\ counter <= CounterMax
           /\ accumulator \in Nat /\ accumulator <= NowMax /\ spent \in Nat /\ spent <= NowMax
           /\ irq.pc \in {"idle", "add", "disable", "zero", "enable"}
           /\ irq.read \in Nat /\ irq.read <= CounterMax
           /\ irq \in [pc: {"idle", "add", "disable", "zero", "enable"}, read: 0 .. CounterMax]
BY TimeAssumption DEF TimeTypeOK, Tick

LEMMA ReaderNumbers ==
    ASSUME TimeTypeOK, NEW r \in Caller
    PROVE  /\ reader[r] \in ReaderRecord
           /\ reader[r].accumulator \in Int /\ reader[r].counter \in Int /\ reader[r].begin \in Int
           /\ reader[r].accumulator >= -1 /\ reader[r].counter >= -1 /\ reader[r].begin >= -1
           /\ reader[r].alone \in BOOLEAN
<1>1. reader[r] \in ReaderRecord
  BY DEF TimeTypeOK
<1> QED
  BY <1>1, TimeAssumption DEF ReaderRecord, Tick

LEMMA SleeperNumbers ==
    ASSUME TimeTypeOK, NEW s \in Caller
    PROVE  /\ sleeper[s].target \in Int /\ sleeper[s].begin \in Int /\ sleeper[s].ticks \in Int
<1>1. sleeper[s] \in [target: Nat \cup {-1}, begin: Tick, ticks: {0} \cup SleepTicks]
  BY DEF TimeTypeOK
<1>2. \A t \in {0} \cup SleepTicks : t \in Int
  BY TimeAssumption
<1>3. \A t \in Nat \cup {-1} : t \in Int
  OBVIOUS
<1>4. \A t \in Tick : t \in Int
  BY TimeAssumption DEF Tick
<1> QED
  BY <1>1, <1>2, <1>3, <1>4

\* The counter never runs ahead of the time.
LEMMA CounterBehind ==
    ASSUME TimeTypeOK, Accounted
    PROVE  counter <= now /\ accumulator <= now /\ now - spent - CounterMax <= accumulator
BY TimeNumbers DEF Accounted

\* A step of one reader
LEMMA ReaderStep ==
    ASSUME TimeInv, NEW c \in Caller, NEW x \in ReaderRecord, ReaderFits(x),
           reader' = [reader EXCEPT ![c] = x],
           UNCHANGED <<now, spent, counter, enabled, accumulator, irq, sleeper>>
    PROVE  TimeInv'
<1>1. reader'[c] = x /\ \A r \in Caller : r # c => reader'[r] = reader[r]
  BY DEF TimeInv, TimeTypeOK
<1>2. TimeTypeOK' /\ (spent <= now)' /\ Accounted'
  BY DEF TimeInv, TimeTypeOK, Accounted
<1>3. \A r \in Caller : ReaderFits(reader[r])'
  BY <1>1 DEF TimeInv, ReaderFits
<1>4. \A s \in Caller : SleeperFits(sleeper[s])'
  BY DEF TimeInv, SleeperFits
<1> QED
  BY <1>2, <1>3, <1>4 DEF TimeInv

LEMMA UptimeCallStep ==
    ASSUME TimeInv, NEW c \in Caller, UptimeCall(c)
    PROVE  TimeInv'
<1> DEFINE x == [NoReading EXCEPT !.begin = now, !.alone = irq.pc = "idle"]
<1>1. /\ reader' = [reader EXCEPT ![c] = x]
      /\ UNCHANGED <<now, spent, counter, enabled, accumulator, irq, sleeper>>
  BY DEF UptimeCall
<1>2. /\ x.accumulator = -1 /\ x.counter = -1 /\ x.begin = now
      /\ x.alone = (irq.pc = "idle")
  BY DEF NoReading
<1>3. x \in ReaderRecord
  <2>1. NoReading \in ReaderRecord /\ now \in Tick
    BY DEF NoReading, ReaderRecord, TimeInv, TimeTypeOK
  <2> QED
    BY <2>1 DEF ReaderRecord
<1>4. now \in Nat /\ CounterMax \in Nat
  BY TimeNumbers DEF TimeInv
<1> HIDE DEF x
<1>5. x.begin <= now /\ x.counter <= CounterMax /\ x.begin # -1
  BY <1>2, <1>4
<1>6. x.alone => irq.pc = "idle"
  BY <1>2
<1>7. ReaderFits(x)
  BY <1>2, <1>5, <1>6 DEF ReaderFits
<1> QED
  BY <1>1, <1>3, <1>7, ReaderStep

LEMMA UptimeAccumulatorStep ==
    ASSUME TimeInv, NEW c \in Caller, UptimeAccumulator(c)
    PROVE  TimeInv'
<1> DEFINE x == [reader[c] EXCEPT !.accumulator = accumulator]
<1>1. /\ reader' = [reader EXCEPT ![c] = x] /\ reader[c].begin # -1
      /\ UNCHANGED <<now, spent, counter, enabled, accumulator, irq, sleeper>>
  BY DEF UptimeAccumulator
<1>2. reader[c] \in ReaderRecord /\ accumulator \in Tick
  BY DEF TimeInv, TimeTypeOK
<1>3. /\ x \in ReaderRecord /\ x.accumulator = accumulator /\ x.counter = reader[c].counter
      /\ x.begin = reader[c].begin /\ x.alone = reader[c].alone
  BY <1>2 DEF ReaderRecord
<1>4. ReaderFits(reader[c])
  BY DEF TimeInv
<1> HIDE DEF x
<1>5. now - spent - CounterMax <= accumulator /\ accumulator <= now
  BY CounterBehind DEF TimeInv
<1>6. x.begin - spent - CounterMax <= accumulator
  BY <1>3, <1>4, <1>5, TimeNumbers, ReaderNumbers DEF TimeInv, ReaderFits
<1>7. ReaderFits(x)
  BY <1>1, <1>3, <1>4, <1>5, <1>6 DEF ReaderFits
<1> QED
  BY <1>1, <1>3, <1>7, ReaderStep

LEMMA UptimeCounterStep ==
    ASSUME TimeInv, NEW c \in Caller, UptimeCounter(c)
    PROVE  TimeInv'
<1> DEFINE x == [reader[c] EXCEPT !.counter = counter]
<1>1. /\ reader' = [reader EXCEPT ![c] = x] /\ reader[c].begin # -1
      /\ UNCHANGED <<now, spent, counter, enabled, accumulator, irq, sleeper>>
  BY DEF UptimeCounter
<1>2. reader[c] \in ReaderRecord /\ counter \in Tick
  <2>1. counter <= now
    BY CounterBehind DEF TimeInv
  <2>2. counter \in Nat /\ now \in Nat /\ now <= NowMax /\ NowMax \in Nat
    BY TimeNumbers DEF TimeInv
  <2> QED
    BY <2>1, <2>2, ReaderNumbers DEF TimeInv, Tick
<1>3. /\ x \in ReaderRecord /\ x.accumulator = reader[c].accumulator /\ x.counter = counter
      /\ x.begin = reader[c].begin /\ x.alone = reader[c].alone
  BY <1>2 DEF ReaderRecord
<1>4. ReaderFits(reader[c])
  BY DEF TimeInv
<1> HIDE DEF x
<1>5. counter <= CounterMax /\ counter <= counter /\ counter - (now - x.begin) <= counter
  BY <1>3, <1>4, TimeNumbers, ReaderNumbers DEF TimeInv, ReaderFits
<1>7. ReaderFits(x)
  BY <1>1, <1>3, <1>4, <1>5 DEF ReaderFits
<1> QED
  BY <1>1, <1>3, <1>7, ReaderStep

LEMMA UptimeReturnStep ==
    ASSUME TimeInv, NEW c \in Caller, UptimeReturn(c)
    PROVE  TimeInv'
<1>1. NoReading \in ReaderRecord
  BY DEF NoReading, ReaderRecord
<1>2. ReaderFits(NoReading)
  BY TimeNumbers DEF TimeInv, NoReading, ReaderFits
<1> QED
  BY <1>1, <1>2, ReaderStep DEF UptimeReturn

LEMMA SleepStep ==
    ASSUME TimeInv, NEW c \in Caller, (\E t \in SleepTicks : SleepCall(c, t)) \/ SleepReturn(c)
    PROVE  TimeInv'
<1>0. UNCHANGED <<now, spent, counter, enabled, accumulator, irq, reader>>
  BY DEF SleepCall, SleepReturn
<1>1. PICK x \in [target: Nat \cup {-1}, begin: Tick, ticks: {0} \cup SleepTicks] :
        sleeper' = [sleeper EXCEPT ![c] = x] /\ SleeperFits(x)
  <2>1. CASE \E t \in SleepTicks : SleepCall(c, t)
    <3>1. PICK t \in SleepTicks : SleepCall(c, t)
      BY <2>1
    <3> DEFINE x == [target |-> counter + t, begin |-> now, ticks |-> t]
    <3>2. t \in Nat /\ counter \in Nat /\ now \in Nat /\ now \in Tick
      BY TimeNumbers, TimeAssumption DEF TimeInv, TimeTypeOK
    <3>3. x \in [target: Nat \cup {-1}, begin: Tick, ticks: {0} \cup SleepTicks]
      BY <3>2
    <3>4. SleeperFits(x)
      BY <3>2 DEF SleeperFits
    <3> QED
      BY <3>1, <3>3, <3>4 DEF SleepCall
  <2>2. CASE SleepReturn(c)
    <3> DEFINE x == [target |-> -1, begin |-> 0, ticks |-> 0]
    <3>3. x \in [target: Nat \cup {-1}, begin: Tick, ticks: {0} \cup SleepTicks]
      BY TimeAssumption DEF Tick
    <3>4. SleeperFits(x)
      BY DEF SleeperFits
    <3> QED
      BY <2>2, <3>3, <3>4 DEF SleepReturn
  <2> QED
    BY <2>1, <2>2
<1>2. sleeper'[c] = x /\ \A s \in Caller : s # c => sleeper'[s] = sleeper[s]
  BY <1>1 DEF TimeInv, TimeTypeOK
<1>3. TimeTypeOK' /\ (spent <= now)' /\ Accounted'
  BY <1>0, <1>1 DEF TimeInv, TimeTypeOK, Accounted
<1>4. \A r \in Caller : ReaderFits(reader[r])'
  BY <1>0 DEF TimeInv, ReaderFits
<1>5. \A s \in Caller : SleeperFits(sleeper[s])'
  BY <1>0, <1>1, <1>2 DEF TimeInv, SleeperFits
<1> QED
  BY <1>3, <1>4, <1>5 DEF TimeInv

LEMMA HpetTickStep ==
    ASSUME TimeInv, HpetTick
    PROVE  TimeInv'
<1>0. UNCHANGED <<enabled, accumulator, irq, reader, sleeper>> /\ now' = now + 1 /\ now < NowMax
  BY DEF HpetTick
<1>1. \/ enabled /\ counter' = counter + 1 /\ counter < CounterMax
      \/ ~enabled /\ counter' = counter
  <2>1. enabled \in BOOLEAN
    BY DEF TimeInv, TimeTypeOK
  <2>2. ASSUME enabled PROVE counter' = counter + 1 /\ counter < CounterMax
    <3>1. counter < CounterMax /\ counter' = (counter + 1) % CounterSize
      BY <2>2 DEF HpetTick
    <3>2. counter + 1 < CounterSize /\ counter + 1 \in Nat /\ CounterSize \in Nat
      BY <3>1, TimeNumbers, TimeAssumption DEF TimeInv
    <3> QED
      BY <3>1, <3>2
  <2> QED
    BY <2>1, <2>2 DEF HpetTick
<1>2. \/ irq.pc = "idle" /\ spent' = spent
      \/ irq.pc # "idle" /\ spent' = spent + 1
  BY DEF HpetTick
<1>n. /\ now \in Nat /\ counter \in Nat /\ accumulator \in Nat /\ spent \in Nat
      /\ CounterMax \in Nat /\ NowMax \in Nat /\ irq.read \in Nat
      /\ counter <= CounterMax /\ spent <= now
  BY TimeNumbers DEF TimeInv
<1>3. Accounted'
  BY <1>0, <1>1, <1>2, <1>n DEF TimeInv, Accounted
<1>4. (spent <= now)'
  BY <1>0, <1>2, <1>n
<1>5. TimeTypeOK'
  <2>1. counter' \in 0 .. CounterMax /\ now' \in Tick /\ spent' \in Tick
    BY <1>0, <1>1, <1>2, <1>n DEF Tick
  <2> QED
    BY <1>0, <2>1 DEF TimeInv, TimeTypeOK
<1>6. ASSUME NEW r \in Caller PROVE ReaderFits(reader[r])'
  <2>1. ReaderFits(reader[r])
    BY DEF TimeInv
  <2>2. /\ reader[r].accumulator \in Int /\ reader[r].counter \in Int /\ reader[r].begin \in Int
    BY ReaderNumbers DEF TimeInv
  <2>3. irq.pc = "idle" => enabled
    BY DEF TimeInv, Accounted
  <2> QED
    BY <1>0, <1>1, <1>2, <1>n, <2>1, <2>2, <2>3 DEF ReaderFits
<1>7. ASSUME NEW s \in Caller PROVE SleeperFits(sleeper[s])'
  <2>1. SleeperFits(sleeper[s])
    BY DEF TimeInv
  <2> QED
    BY <1>0, <1>1, <1>n, <2>1, SleeperNumbers DEF SleeperFits, TimeInv
<1> QED
  BY <1>3, <1>4, <1>5, <1>6, <1>7 DEF TimeInv

\* What the handler does to the readers and the sleepers once it has begun
LEMMA HandlerStep ==
    ASSUME TimeInv, irq.pc # "idle",
           UNCHANGED <<now, spent, reader, sleeper>>, counter' \in 0 .. counter,
           enabled' \in BOOLEAN, accumulator' \in Tick, Accounted',
           irq' \in [pc: {"idle", "add", "disable", "zero", "enable"}, read: 0 .. CounterMax]
    PROVE  TimeInv'
<1>1. counter' \in 0 .. CounterMax /\ counter' <= counter /\ counter' \in Int /\ counter \in Int
  BY TimeNumbers DEF TimeInv
<1>2. TimeTypeOK' /\ (spent <= now)'
  BY <1>1 DEF TimeInv, TimeTypeOK
<1>3. ASSUME NEW r \in Caller PROVE ReaderFits(reader[r])'
  <2>1. ReaderFits(reader[r])
    BY DEF TimeInv
  <2> QED
    BY <2>1 DEF ReaderFits
<1>4. ASSUME NEW s \in Caller PROVE SleeperFits(sleeper[s])'
  <2>1. SleeperFits(sleeper[s])
    BY DEF TimeInv
  <2>2. now \in Int
    BY TimeNumbers DEF TimeInv
  <2> QED
    BY <1>1, <2>1, <2>2, SleeperNumbers DEF SleeperFits, TimeInv
<1> QED
  BY <1>2, <1>3, <1>4 DEF TimeInv

LEMMA TimeIrqStep ==
    ASSUME TimeInv, TimeIrq
    PROVE  TimeInv'
<1>0. /\ UNCHANGED <<now, spent, counter, enabled, accumulator, sleeper>>
      /\ irq.pc = "idle" /\ irq' = [pc |-> "add", read |-> counter]
      /\ reader' = [r \in Caller |-> [reader[r] EXCEPT !.alone = FALSE]]
  BY DEF TimeIrq
<1>n. /\ now \in Nat /\ counter \in Nat /\ accumulator \in Nat /\ spent \in Nat
      /\ counter <= CounterMax /\ CounterMax \in Nat
  BY TimeNumbers DEF TimeInv
<1>1. ASSUME NEW r \in Caller
      PROVE  /\ reader'[r] \in ReaderRecord /\ ReaderFits(reader[r])'
  <2>1. reader[r] \in ReaderRecord /\ ReaderFits(reader[r])
    BY DEF TimeInv, TimeTypeOK
  <2>2. reader'[r] = [reader[r] EXCEPT !.alone = FALSE]
    BY <1>0
  <2>3. /\ reader'[r] \in ReaderRecord /\ reader'[r].accumulator = reader[r].accumulator
        /\ reader'[r].counter = reader[r].counter /\ reader'[r].begin = reader[r].begin
        /\ reader'[r].alone = FALSE
    BY <2>1, <2>2 DEF ReaderRecord
  <2> QED
    BY <1>0, <2>1, <2>3 DEF ReaderFits
<1>2. reader' \in [Caller -> ReaderRecord]
  BY <1>0, <1>1
<1>3. TimeTypeOK' /\ (spent <= now)'
  BY <1>0, <1>2, <1>n DEF TimeInv, TimeTypeOK
<1>4. Accounted'
  BY <1>0, <1>n DEF TimeInv, Accounted
<1>5. \A s \in Caller : SleeperFits(sleeper[s])'
  BY <1>0 DEF TimeInv, SleeperFits
<1> QED
  BY <1>1, <1>3, <1>4, <1>5 DEF TimeInv

LEMMA TimeIrqAddStep ==
    ASSUME TimeInv, TimeIrqAdd
    PROVE  TimeInv'
<1>0. /\ UNCHANGED <<now, spent, counter, enabled, reader, sleeper>>
      /\ irq.pc = "add" /\ accumulator' = accumulator + irq.read
      /\ irq' = [irq EXCEPT !.pc = "disable"]
  BY DEF TimeIrqAdd
<1>n. /\ now \in Nat /\ counter \in Nat /\ accumulator \in Nat /\ spent \in Nat
      /\ irq.read \in Nat /\ now <= NowMax /\ NowMax \in Nat
  BY TimeNumbers DEF TimeInv
<1>1. irq'.pc = "disable" /\ irq'.read = irq.read
  BY <1>0 DEF TimeInv, TimeTypeOK
<1>2. Accounted'
  BY <1>0, <1>1, <1>n DEF TimeInv, Accounted
<1>3. irq.read <= counter /\ accumulator + counter <= now
  BY <1>0 DEF TimeInv, Accounted
<1>4. accumulator' \in Tick
  BY <1>0, <1>3, <1>n DEF Tick
<1>5. /\ irq' \in [pc: {"idle", "add", "disable", "zero", "enable"}, read: 0 .. CounterMax]
      /\ enabled' \in BOOLEAN /\ counter' \in 0 .. counter
  BY <1>0, <1>n DEF TimeInv, TimeTypeOK
<1> QED
  BY <1>0, <1>2, <1>4, <1>5, HandlerStep

LEMMA HpetResetStep ==
    ASSUME TimeInv, HpetDisable \/ HpetZero \/ HpetEnable
    PROVE  TimeInv'
<1>0. UNCHANGED <<now, spent, accumulator, reader, sleeper>>
  BY DEF HpetDisable, HpetZero, HpetEnable
<1>n. /\ now \in Nat /\ counter \in Nat /\ accumulator \in Nat /\ spent \in Nat
      /\ irq.read \in Nat /\ CounterMax \in Nat
      /\ irq \in [pc: {"idle", "add", "disable", "zero", "enable"}, read: 0 .. CounterMax]
      /\ accumulator' \in Tick /\ enabled \in BOOLEAN
  BY <1>0, TimeNumbers DEF TimeInv, TimeTypeOK
<1>1. CASE HpetDisable
  <2>1. /\ irq.pc = "disable" /\ irq'.pc = "zero" /\ irq'.read = irq.read /\ ~enabled'
        /\ counter' = counter
        /\ irq' \in [pc: {"idle", "add", "disable", "zero", "enable"}, read: 0 .. CounterMax]
    BY <1>1, <1>n DEF HpetDisable
  <2>2. /\ irq.read <= counter /\ irq.read <= accumulator
        /\ accumulator + counter - irq.read <= now /\ now <= accumulator + spent
    BY <2>1 DEF TimeInv, Accounted
  <2>3. Accounted'
    BY <1>0, <2>1, <2>2 DEF Accounted
  <2>4. counter' \in 0 .. counter /\ enabled' \in BOOLEAN
    <3>1. enabled' = FALSE
      BY <1>1 DEF HpetDisable
    <3>2. counter' \in 0 .. counter
      BY <1>n, <2>1
    <3> QED
      BY <3>1, <3>2
  <2> QED
    BY <1>0, <1>n, <2>1, <2>3, <2>4, HandlerStep
<1>2. CASE HpetZero
  <2>1. /\ irq.pc = "zero" /\ irq'.pc = "enable" /\ irq'.read = irq.read /\ enabled' = enabled
        /\ counter' = 0
        /\ irq' \in [pc: {"idle", "add", "disable", "zero", "enable"}, read: 0 .. CounterMax]
    BY <1>2, <1>n DEF HpetZero
  <2>2. /\ ~enabled /\ irq.read <= counter /\ irq.read <= accumulator
        /\ accumulator + counter - irq.read <= now /\ now <= accumulator + spent
    BY <2>1 DEF TimeInv, Accounted
  <2>3. accumulator <= now
    BY <1>n, <2>2
  <2>4. Accounted'
    BY <1>0, <2>1, <2>2, <2>3 DEF Accounted
  <2>5. counter' \in 0 .. counter /\ enabled' \in BOOLEAN
    BY <1>n, <2>1
  <2> QED
    BY <1>0, <1>n, <2>1, <2>4, <2>5, HandlerStep
<1>3. CASE HpetEnable
  <2>1. /\ irq.pc = "enable" /\ irq' = [pc |-> "idle", read |-> 0] /\ enabled'
        /\ counter' = counter
        /\ irq' \in [pc: {"idle", "add", "disable", "zero", "enable"}, read: 0 .. CounterMax]
    BY <1>3, <1>n DEF HpetEnable
  <2>2. counter = 0 /\ accumulator <= now /\ now <= accumulator + spent
    BY <2>1 DEF TimeInv, Accounted
  <2>3. accumulator + counter <= now /\ now <= accumulator + counter + spent
    BY <1>n, <2>2
  <2>4. irq'.pc = "idle"
    BY <2>1
  <2>5. Accounted'
    BY <1>0, <2>1, <2>3, <2>4 DEF Accounted
  <2>6. counter' \in 0 .. counter /\ enabled' \in BOOLEAN
    BY <1>n, <1>3, <2>1 DEF HpetEnable
  <2> QED
    BY <1>0, <1>n, <2>1, <2>5, <2>6, HandlerStep
<1> QED
  BY <1>1, <1>2, <1>3

LEMMA TimeInitInv == TimeInit => TimeInv
<1> SUFFICES ASSUME TimeInit PROVE TimeInv
  OBVIOUS
<1> USE TimeAssumption DEF TimeInit
<1>1. TimeTypeOK
  BY DEF TimeTypeOK, Tick, ReaderRecord, NoReading
<1>2. Accounted
  BY DEF Accounted
<1>3. ASSUME NEW r \in Caller PROVE ReaderFits(reader[r])
  <2>1. /\ reader[r].begin = -1 /\ reader[r].accumulator = -1 /\ reader[r].counter = -1
    BY DEF NoReading
  <2>2. -1 <= now /\ -1 <= CounterMax
    OBVIOUS
  <2> QED
    BY <2>1, <2>2 DEF ReaderFits
<1>4. \A s \in Caller : SleeperFits(sleeper[s])
  BY DEF SleeperFits
<1> QED
  BY <1>1, <1>2, <1>3, <1>4 DEF TimeInv

LEMMA TimeNextInv == TimeInv /\ [TimeNext]_timeVars => TimeInv'
<1> SUFFICES ASSUME TimeInv, [TimeNext]_timeVars PROVE TimeInv'
  OBVIOUS
<1>1. CASE UNCHANGED timeVars
  BY <1>1 DEF TimeInv, TimeTypeOK, Accounted, ReaderFits, SleeperFits, timeVars
<1>2. CASE HpetTick \/ TimeIrq \/ TimeIrqAdd \/ HpetDisable \/ HpetZero \/ HpetEnable
  BY <1>2, HpetTickStep, TimeIrqStep, TimeIrqAddStep, HpetResetStep
<1>3. ASSUME NEW r \in Caller,
             UptimeCall(r) \/ UptimeAccumulator(r) \/ UptimeCounter(r) \/ UptimeReturn(r)
      PROVE  TimeInv'
  BY <1>3, UptimeCallStep, UptimeAccumulatorStep, UptimeCounterStep, UptimeReturnStep
<1>4. ASSUME NEW s \in Caller, (\E t \in SleepTicks : SleepCall(s, t)) \/ SleepReturn(s)
      PROVE  TimeInv'
  BY <1>4, SleepStep
<1> QED
  BY <1>1, <1>2, <1>3, <1>4 DEF TimeNext

LEMMA TimeInvRight == TimeInv => ClockRight
<1> SUFFICES ASSUME TimeInv PROVE ClockRight
  OBVIOUS
<1>n. /\ now \in Nat /\ counter \in Nat /\ accumulator \in Nat /\ spent \in Nat
      /\ CounterMax \in Nat
  BY TimeNumbers DEF TimeInv
<1>1. ASSUME NEW r \in Caller, Complete(r)
      PROVE  Uptime(r) \in reader[r].begin - spent - (IF reader[r].alone THEN 0 ELSE CounterMax)
                           .. now + (IF reader[r].alone THEN 0 ELSE CounterMax)
  <2>1. /\ ReaderFits(reader[r]) /\ reader[r].accumulator # -1 /\ reader[r].counter # -1
        /\ reader[r].begin # -1
    BY <1>1 DEF TimeInv, Complete, ReaderFits
  <2>2. /\ reader[r].accumulator \in Nat /\ reader[r].counter \in Nat /\ reader[r].begin \in Nat
    BY <2>1, ReaderNumbers DEF TimeInv
  <2>3. CASE reader[r].alone
    <3>1. accumulator + counter <= now /\ now <= accumulator + counter + spent
      BY <2>1, <2>3 DEF ReaderFits, TimeInv, Accounted
    <3>2. /\ reader[r].accumulator + reader[r].counter <= now
          /\ reader[r].begin - spent <= reader[r].accumulator + reader[r].counter
      BY <1>n, <2>1, <2>2, <2>3, <3>1 DEF ReaderFits
    <3> QED
      BY <1>n, <2>2, <2>3, <3>2 DEF Uptime
  <2>4. CASE ~reader[r].alone
    <3>1. /\ reader[r].accumulator + reader[r].counter <= now + CounterMax
          /\ reader[r].begin - spent - CounterMax <= reader[r].accumulator + reader[r].counter
      BY <1>n, <2>1, <2>2 DEF ReaderFits
    <3> QED
      BY <1>n, <2>2, <2>4, <3>1 DEF Uptime
  <2> QED
    BY <2>3, <2>4
<1>2. UptimeClose
  BY <1>1 DEF UptimeClose
<1>3. HpetSleepsEnough
  <2>1. ASSUME NEW s \in Caller, sleeper[s].target # -1, counter >= sleeper[s].target
        PROVE  now >= sleeper[s].begin + sleeper[s].ticks
    <3>1. SleeperFits(sleeper[s])
      BY DEF TimeInv
    <3> QED
      BY <1>n, <2>1, <3>1, SleeperNumbers DEF SleeperFits, TimeInv
  <2> QED
    BY <2>1 DEF HpetSleepsEnough
<1> QED
  BY <1>2, <1>3 DEF ClockRight, TimeInv

(***************************************************************************)
(* time_uptime and hpet_sleep are right while the RTC interrupt moves the  *)
(* counter into the accumulator: an uptime that no interrupt overlaps is a *)
(* time of the call, short of what passed inside earlier interrupts at     *)
(* most; any other is off by one period at most; and no sleep returns      *)
(* early.  For any width of the counter, any period of the RTC below it    *)
(* and any number of callers.                                              *)
(***************************************************************************)
THEOREM TimeClockRight == TimeSpec => []ClockRight
<1>1. TimeInit => TimeInv
  BY TimeInitInv
<1>2. TimeInv /\ [TimeNext]_timeVars => TimeInv'
  BY TimeNextInv
<1>3. TimeInv => ClockRight
  BY TimeInvRight
<1> QED
  BY <1>1, <1>2, <1>3, PTL DEF TimeSpec

-----------------------------------------------------------------------------
(* Selection and dragging, for any number of windows and any size of queue *)

IsTold(m) == m.type \in {"SELECT", "DESELECT"}

\* The last message about the selection that a client of w has still to read, or
\* else what it has read, is right when f is selected.
KnowsFocus(r, w, f) ==
    /\ \A i \in 1 .. Len(r.queue) :
        IsTold(r.queue[i]) /\ (\A j \in i + 1 .. Len(r.queue) : ~IsTold(r.queue[j])) =>
            (r.queue[i].type = "SELECT" <=> f = w)
    /\ (\A i \in 1 .. Len(r.queue) : ~IsTold(r.queue[i])) => (r.selected <=> f = w)

\* The last mouse message, or else what the client has made of the earlier ones,
\* agrees with the buttons that the manager knows.
FollowsMouse(r, buttons) ==
    /\ \A i \in 1 .. Len(r.queue) :
        r.queue[i].type = "MOUSE" /\ (\A j \in i + 1 .. Len(r.queue) : r.queue[j].type # "MOUSE") =>
            (r.queue[i].held => buttons)
    /\ (\A i \in 1 .. Len(r.queue) : r.queue[i].type # "MOUSE") /\ r.moving => buttons

\* A button is held in the message that says it was pressed.
PressHolds(r) ==
    \A i \in 1 .. Len(r.queue) :
        r.queue[i].type = "MOUSE" /\ r.queue[i].pressed => r.queue[i].held

FocusInv ==
    /\ FocusTypeOK
    /\ focus # None => client[focus].open
    /\ batch.any /\ button => batch.down
    /\ HeldIsSeen
    /\ \A w \in Window :
        /\ PressHolds(client[w])
        /\ client[w].open /\ ~client[w].lapped => KnowsFocus(client[w], w, focus)
        /\ focus = w /\ ~client[w].lapped => FollowsMouse(client[w], oldButtons)

Queues == UNION {[1 .. n -> Message] : n \in 0 .. MSG_QUEUE_MAX - 1}

LEMMA QueueType ==
    ASSUME NEW q
    PROVE  q \in Queues <=> q \in Seq(Message) /\ Len(q) \in Nat /\ Len(q) < MSG_QUEUE_MAX
<1>1. ASSUME q \in Queues
      PROVE  q \in Seq(Message) /\ Len(q) \in Nat /\ Len(q) < MSG_QUEUE_MAX
  <2>1. PICK n \in 0 .. MSG_QUEUE_MAX - 1 : q \in [1 .. n -> Message]
    BY <1>1 DEF Queues
  <2>2. n \in Nat /\ n < MSG_QUEUE_MAX
    BY <2>1, FocusAssumption
  <2>3. q \in Seq(Message) /\ Len(q) = n
    BY <2>1, <2>2
  <2> QED
    BY <2>2, <2>3
<1>2. ASSUME q \in Seq(Message), Len(q) \in Nat, Len(q) < MSG_QUEUE_MAX
      PROVE  q \in Queues
  <2>1. q \in [1 .. Len(q) -> Message] /\ Len(q) \in 0 .. MSG_QUEUE_MAX - 1
    BY <1>2, FocusAssumption
  <2> QED
    BY <2>1 DEF Queues
<1> QED
  BY <1>1, <1>2

\* What msg_queue_push does
LEMMA Push ==
    ASSUME NEW r \in ClientRecord, NEW m \in Message
    PROVE  LET p == QueuePush(r, m)
           IN  /\ p \in ClientRecord
               /\ p.open = r.open /\ p.selected = r.selected /\ p.moving = r.moving
               /\ p.closeButtonPressed = r.closeButtonPressed
               /\ \/ p.lapped /\ p.queue = <<>>
                  \/ p.lapped = r.lapped /\ p.queue = Append(r.queue, m)
<1> DEFINE p == QueuePush(r, m)
<1>0. r.queue \in Queues
  BY DEF ClientRecord, Queues
<1>1. r.queue \in Seq(Message) /\ Len(r.queue) \in Nat /\ Len(r.queue) < MSG_QUEUE_MAX
  BY <1>0, QueueType
<1>2. CASE Len(r.queue) + 1 = MSG_QUEUE_MAX
  <2>1. p = [r EXCEPT !.queue = <<>>, !.lapped = TRUE]
    BY <1>2 DEF QueuePush
  <2>2. <<>> \in Queues
    <3>1. <<>> \in Seq(Message) /\ Len(<<>>) = 0
      OBVIOUS
    <3>2. Len(<<>>) \in Nat /\ Len(<<>>) < MSG_QUEUE_MAX
      BY <3>1, FocusAssumption
    <3> QED
      BY <3>1, <3>2, QueueType, Zenon
  <2> HIDE DEF p
  <2>3. /\ p \in ClientRecord /\ p.queue = <<>> /\ p.lapped
        /\ p.open = r.open /\ p.selected = r.selected /\ p.moving = r.moving
        /\ p.closeButtonPressed = r.closeButtonPressed
    BY <2>1, <2>2 DEF ClientRecord, Queues
  <2> QED
    BY <2>3 DEF p
<1>3. CASE Len(r.queue) + 1 # MSG_QUEUE_MAX
  <2>1. p = [r EXCEPT !.queue = Append(r.queue, m)]
    BY <1>3 DEF QueuePush
  <2>2. Append(r.queue, m) \in Queues
    <3>1. Append(r.queue, m) \in Seq(Message) /\ Len(Append(r.queue, m)) = Len(r.queue) + 1
      BY <1>1
    <3>2. Len(Append(r.queue, m)) < MSG_QUEUE_MAX /\ Len(Append(r.queue, m)) \in Nat
      BY <1>1, <1>3, <3>1, FocusAssumption
    <3> QED
      BY <3>1, <3>2, QueueType, Zenon
  <2> HIDE DEF p
  <2>3. /\ p \in ClientRecord /\ p.queue = Append(r.queue, m) /\ p.lapped = r.lapped
        /\ p.open = r.open /\ p.selected = r.selected /\ p.moving = r.moving
        /\ p.closeButtonPressed = r.closeButtonPressed
    BY <2>1, <2>2 DEF ClientRecord, Queues
  <2> QED
    BY <2>3 DEF p
<1> QED
  BY <1>2, <1>3

\* What has to hold of a client of w when f is selected
ClientFits(r, w, f, buttons) ==
    /\ PressHolds(r)
    /\ r.open /\ ~r.lapped => KnowsFocus(r, w, f)
    /\ f = w /\ ~r.lapped => FollowsMouse(r, buttons)

\* A message pushed to a client
LEMMA PushFits ==
    ASSUME NEW r \in ClientRecord, NEW m \in Message, NEW w, NEW f, NEW g, NEW old, NEW new,
           PressHolds(r), m.type = "MOUSE" /\ m.pressed => m.held,
           IF IsTold(m) THEN m.type = "SELECT" <=> g = w
           ELSE (f = w <=> g = w) /\ (r.open /\ ~r.lapped => KnowsFocus(r, w, f)),
           g = w => IF m.type = "MOUSE" THEN m.held => new
                    ELSE new = old /\ (~r.lapped => FollowsMouse(r, old))
    PROVE  ClientFits(QueuePush(r, m), w, g, new)
<1> SUFFICES ASSUME NEW p, p = QueuePush(r, m) PROVE ClientFits(p, w, g, new)
  OBVIOUS
<1>1. /\ p.open = r.open /\ p.selected = r.selected /\ p.moving = r.moving
      /\ \/ p.lapped /\ p.queue = <<>>
         \/ p.lapped = r.lapped /\ p.queue = Append(r.queue, m)
  BY Push
<1>2. r.queue \in Seq(Message) /\ Len(r.queue) \in Nat
  BY QueueType DEF ClientRecord, Queues
<1>3. CASE p.lapped /\ p.queue = <<>>
  <2>1. Len(p.queue) = 0
    BY <1>3
  <2> QED
    BY <1>3, <2>1 DEF ClientFits, PressHolds
<1>4. CASE p.lapped = r.lapped /\ p.queue = Append(r.queue, m)
  <2> DEFINE n == Len(r.queue)
  <2>1. /\ Len(p.queue) = n + 1 /\ p.queue[n + 1] = m /\ n \in Nat
        /\ \A i \in 1 .. n : p.queue[i] = r.queue[i]
    BY <1>2, <1>4
  <2> HIDE DEF n
  <2>2. \A i \in 1 .. n + 1 : i = n + 1 \/ (i \in 1 .. n /\ n + 1 \in i + 1 .. n + 1)
    BY <2>1
  <2>3. \A i \in 1 .. n : \A k \in i + 1 .. n : k \in 1 .. n /\ k \in i + 1 .. n + 1
    BY <2>1
  <2>4. n + 1 \in 1 .. n + 1 /\ \A i \in 1 .. n : i \in 1 .. n + 1
    BY <2>1
  <2>5. PressHolds(p)
    BY <2>1, <2>2 DEF PressHolds, n
  <2>6. ASSUME p.open /\ ~p.lapped PROVE KnowsFocus(p, w, g)
    <3>1. CASE IsTold(m)
      BY <2>1, <2>2, <2>4, <3>1 DEF KnowsFocus
    <3>2. CASE ~IsTold(m)
      <4>1. KnowsFocus(r, w, f) /\ (f = w <=> g = w)
        BY <1>1, <1>4, <2>6, <3>2
      <4>2. ASSUME NEW i \in 1 .. n + 1, IsTold(p.queue[i]),
                   \A k \in i + 1 .. n + 1 : ~IsTold(p.queue[k])
            PROVE  p.queue[i].type = "SELECT" <=> g = w
        <5>1. i \in 1 .. n /\ p.queue[i] = r.queue[i]
          BY <2>1, <2>2, <3>2, <4>2
        <5>2. \A k \in i + 1 .. n : ~IsTold(r.queue[k])
          BY <2>1, <2>3, <4>2, <5>1
        <5> QED
          BY <4>1, <4>2, <5>1, <5>2 DEF KnowsFocus, n
      <4>3. ASSUME \A i \in 1 .. n + 1 : ~IsTold(p.queue[i]) PROVE p.selected <=> g = w
        <5>1. \A i \in 1 .. n : ~IsTold(r.queue[i])
          BY <2>1, <2>4, <4>3
        <5> QED
          BY <1>1, <4>1, <5>1 DEF KnowsFocus, n
      <4> QED
        BY <2>1, <4>2, <4>3 DEF KnowsFocus
    <3> QED
      BY <3>1, <3>2
  <2>7. ASSUME g = w /\ ~p.lapped PROVE FollowsMouse(p, new)
    <3>1. CASE m.type = "MOUSE"
      BY <2>1, <2>2, <2>4, <2>7, <3>1 DEF FollowsMouse
    <3>2. CASE m.type # "MOUSE"
      <4>1. FollowsMouse(r, old) /\ new = old
        BY <1>4, <2>7, <3>2
      <4>2. ASSUME NEW i \in 1 .. n + 1, p.queue[i].type = "MOUSE", p.queue[i].held,
                   \A k \in i + 1 .. n + 1 : p.queue[k].type # "MOUSE"
            PROVE  new
        <5>1. i \in 1 .. n /\ p.queue[i] = r.queue[i]
          BY <2>1, <2>2, <3>2, <4>2
        <5>2. \A k \in i + 1 .. n : r.queue[k].type # "MOUSE"
          BY <2>1, <2>3, <4>2, <5>1
        <5> QED
          BY <4>1, <4>2, <5>1, <5>2 DEF FollowsMouse, n
      <4>3. ASSUME \A i \in 1 .. n + 1 : p.queue[i].type # "MOUSE", p.moving PROVE new
        <5>1. \A i \in 1 .. n : r.queue[i].type # "MOUSE"
          BY <2>1, <2>4, <4>3
        <5> QED
          BY <1>1, <4>1, <4>3, <5>1 DEF FollowsMouse, n
      <4> QED
        BY <2>1, <4>2, <4>3 DEF FollowsMouse
    <3> QED
      BY <3>1, <3>2
  <2> QED
    BY <2>5, <2>6, <2>7 DEF ClientFits
<1> QED
  BY <1>1, <1>3, <1>4

\* A message read by a client: the others stay true.
LEMMA TailFits ==
    ASSUME NEW r \in ClientRecord, r.queue # <<>>, NEW w, NEW f, NEW buttons,
           ClientFits(r, w, f, buttons),
           NEW t \in ClientRecord, t.queue = Tail(r.queue), t.open = r.open, t.lapped = r.lapped,
           NEW m, m = Head(r.queue),
           m.type = "SELECT" => t.selected, m.type = "DESELECT" => ~t.selected,
           ~IsTold(m) => t.selected = r.selected,
           m.type = "MOUSE" => (t.moving => m.held), m.type # "MOUSE" => t.moving = r.moving
    PROVE  ClientFits(t, w, f, buttons)
<1>1. r.queue \in Seq(Message) /\ Len(r.queue) \in Nat
  BY QueueType DEF ClientRecord, Queues
<1>2. PICK n \in Nat : n + 1 = Len(r.queue)
  <2>1. Len(r.queue) # 0
    BY <1>1, EmptySeq
  <2>2. Len(r.queue) - 1 \in Nat /\ (Len(r.queue) - 1) + 1 = Len(r.queue)
    BY <1>1, <2>1
  <2> QED
    BY <2>2
<1>3. /\ Len(t.queue) = n /\ m = r.queue[1]
      /\ \A i \in 1 .. n : t.queue[i] = r.queue[i + 1]
  BY <1>1, <1>2
<1>4. /\ \A i \in 1 .. n : i + 1 \in 1 .. n + 1 /\ i + 1 \in 1 + 1 .. n + 1
      /\ 1 \in 1 .. n + 1
      /\ \A i \in 1 .. n + 1 : i = 1 \/ (i - 1 \in 1 .. n /\ (i - 1) + 1 = i)
      /\ \A i \in 1 .. n : \A k \in i + 1 + 1 .. n + 1 :
            k - 1 \in i + 1 .. n /\ k - 1 \in 1 .. n /\ (k - 1) + 1 = k
      /\ \A k \in 1 + 1 .. n + 1 : k - 1 \in 1 .. n /\ (k - 1) + 1 = k
  BY <1>2
<1>5. PressHolds(t)
  BY <1>2, <1>3, <1>4 DEF ClientFits, PressHolds
<1>6. ASSUME t.open /\ ~t.lapped PROVE KnowsFocus(t, w, f)
  <2>1. KnowsFocus(r, w, f)
    BY <1>6 DEF ClientFits
  <2>2. ASSUME NEW i \in 1 .. n, IsTold(t.queue[i]), \A k \in i + 1 .. n : ~IsTold(t.queue[k])
        PROVE  t.queue[i].type = "SELECT" <=> f = w
    <3>1. ASSUME NEW k \in i + 1 + 1 .. n + 1 PROVE ~IsTold(r.queue[k])
      <4>1. k - 1 \in i + 1 .. n /\ k - 1 \in 1 .. n /\ (k - 1) + 1 = k
        BY <1>4
      <4>2. t.queue[k - 1] = r.queue[k]
        BY <1>3, <4>1
      <4> QED
        BY <2>2, <4>1, <4>2
    <3> QED
      BY <1>2, <1>3, <1>4, <2>1, <2>2, <3>1 DEF KnowsFocus
  <2>3. ASSUME \A i \in 1 .. n : ~IsTold(t.queue[i]) PROVE t.selected <=> f = w
    <3>1. ASSUME NEW k \in 1 + 1 .. n + 1 PROVE ~IsTold(r.queue[k])
      <4>1. k - 1 \in 1 .. n /\ (k - 1) + 1 = k
        BY <1>4
      <4>2. t.queue[k - 1] = r.queue[k]
        BY <1>3, <4>1
      <4> QED
        BY <2>3, <4>1, <4>2
    <3>2. CASE IsTold(m)
      <4>1. m.type = "SELECT" <=> f = w
        BY <1>2, <1>3, <1>4, <2>1, <3>1, <3>2 DEF KnowsFocus
      <4> QED
        BY <3>2, <4>1 DEF IsTold
    <3>3. CASE ~IsTold(m)
      <4>1. \A k \in 1 .. n + 1 : ~IsTold(r.queue[k])
        <5>1. \A k \in 1 .. n + 1 : k = 1 \/ k \in 1 + 1 .. n + 1
          OBVIOUS
        <5> QED
          BY <1>3, <3>1, <3>3, <5>1
      <4> QED
        BY <1>2, <2>1, <3>3, <4>1 DEF KnowsFocus
    <3> QED
      BY <3>2, <3>3
  <2> QED
    BY <1>3, <2>2, <2>3 DEF KnowsFocus
<1>7. ASSUME f = w /\ ~t.lapped PROVE FollowsMouse(t, buttons)
  <2>1. FollowsMouse(r, buttons)
    BY <1>7 DEF ClientFits
  <2>2. ASSUME NEW i \in 1 .. n, t.queue[i].type = "MOUSE", t.queue[i].held,
               \A k \in i + 1 .. n : t.queue[k].type # "MOUSE"
        PROVE  buttons
    <3>1. ASSUME NEW k \in i + 1 + 1 .. n + 1 PROVE r.queue[k].type # "MOUSE"
      <4>1. k - 1 \in i + 1 .. n /\ k - 1 \in 1 .. n /\ (k - 1) + 1 = k
        BY <1>4
      <4>2. t.queue[k - 1] = r.queue[k]
        BY <1>3, <4>1
      <4> QED
        BY <2>2, <4>1, <4>2
    <3> QED
      BY <1>2, <1>3, <1>4, <2>1, <2>2, <3>1 DEF FollowsMouse
  <2>3. ASSUME \A i \in 1 .. n : t.queue[i].type # "MOUSE", t.moving PROVE buttons
    <3>1. ASSUME NEW k \in 1 + 1 .. n + 1 PROVE r.queue[k].type # "MOUSE"
      <4>1. k - 1 \in 1 .. n /\ (k - 1) + 1 = k
        BY <1>4
      <4>2. t.queue[k - 1] = r.queue[k]
        BY <1>3, <4>1
      <4> QED
        BY <2>3, <4>1, <4>2
    <3>2. CASE m.type = "MOUSE"
      BY <1>2, <1>3, <1>4, <2>1, <2>3, <3>1, <3>2 DEF FollowsMouse
    <3>3. CASE m.type # "MOUSE"
      <4>1. \A k \in 1 .. n + 1 : r.queue[k].type # "MOUSE"
        <5>1. \A k \in 1 .. n + 1 : k = 1 \/ k \in 1 + 1 .. n + 1
          OBVIOUS
        <5> QED
          BY <1>3, <3>1, <3>3, <5>1
      <4> QED
        BY <1>2, <2>1, <2>3, <3>3, <4>1 DEF FollowsMouse
    <3> QED
      BY <3>2, <3>3
  <2> QED
    BY <1>3, <2>2, <2>3 DEF FollowsMouse
<1> QED
  BY <1>5, <1>6, <1>7 DEF ClientFits

LEMMA MessageTypes ==
    /\ \A type \in {"SELECT", "DESELECT", "QUIT", "OTHER"} :
        Msg(type) \in Message /\ Msg(type).type = type
    /\ \A m \in Message : m.type = "MOUSE" =>
        m \in [type: {"MOUSE"}, held: BOOLEAN, pressed: BOOLEAN, released: BOOLEAN, place: Place]
BY DEF Msg, Message

\* What has to hold of the clients before the selection moves to w, with buttons
Selectable(cs, w, buttons) ==
    /\ cs \in [Window -> ClientRecord]
    /\ \A x \in Window : /\ PressHolds(cs[x])
                         /\ cs[x].open /\ ~cs[x].lapped => KnowsFocus(cs[x], x, focus)
    /\ w \in Window => (~cs[w].lapped => FollowsMouse(cs[w], buttons))

LEMMA SelectFits ==
    ASSUME focus \in Window \cup {None}, NEW cs, NEW w \in Window \cup {None}, NEW buttons,
           Selectable(cs, w, buttons)
    PROVE  /\ DwmSelect(cs, w) \in [Window -> ClientRecord]
           /\ \A x \in Window : /\ ClientFits(DwmSelect(cs, w)[x], x, w, buttons)
                                /\ DwmSelect(cs, w)[x].open = cs[x].open
<1>1. CASE w = focus
  BY <1>1 DEF DwmSelect, Selectable, ClientFits
<1>2. CASE w # focus
  <2> DEFINE ds == DwmSelect(cs, w)
  <2>1. ds = [x \in Window |-> CASE x = focus -> QueuePush(cs[x], Msg("DESELECT"))
                                 [] x = w -> QueuePush(cs[x], Msg("SELECT"))
                                 [] OTHER -> cs[x]]
    BY <1>2 DEF DwmSelect
  <2> HIDE DEF ds
  <2>2. /\ Msg("SELECT") \in Message /\ Msg("SELECT").type = "SELECT"
        /\ Msg("DESELECT") \in Message /\ Msg("DESELECT").type = "DESELECT"
    BY MessageTypes
  <2>3. ASSUME NEW x \in Window
        PROVE  /\ ds[x] \in ClientRecord /\ ClientFits(ds[x], x, w, buttons)
               /\ ds[x].open = cs[x].open
    <3>0. cs[x] \in ClientRecord /\ PressHolds(cs[x])
      BY DEF Selectable
    <3>1. CASE x = focus
      <4>1. ds[x] = QueuePush(cs[x], Msg("DESELECT")) /\ x # w
        BY <1>2, <2>1, <3>1
      <4>2. IsTold(Msg("DESELECT"))
        BY <2>2 DEF IsTold
      <4>3. ClientFits(QueuePush(cs[x], Msg("DESELECT")), x, w, buttons)
        BY <2>2, <3>0, <4>1, <4>2, PushFits
      <4>4. /\ QueuePush(cs[x], Msg("DESELECT")) \in ClientRecord
            /\ QueuePush(cs[x], Msg("DESELECT")).open = cs[x].open
        BY <2>2, <3>0, Push
      <4> QED
        BY <4>1, <4>3, <4>4
    <3>2. CASE x = w
      <4>1. ds[x] = QueuePush(cs[x], Msg("SELECT"))
        BY <1>2, <2>1, <3>2
      <4>2. IsTold(Msg("SELECT"))
        BY <2>2 DEF IsTold
      <4>5. ~cs[x].lapped => FollowsMouse(cs[x], buttons)
        BY <3>2 DEF Selectable
      <4>3. ClientFits(QueuePush(cs[x], Msg("SELECT")), x, w, buttons)
        BY <2>2, <3>0, <3>2, <4>1, <4>2, <4>5, PushFits
      <4>4. /\ QueuePush(cs[x], Msg("SELECT")) \in ClientRecord
            /\ QueuePush(cs[x], Msg("SELECT")).open = cs[x].open
        BY <2>2, <3>0, Push
      <4> QED
        BY <4>1, <4>3, <4>4
    <3>3. CASE x # focus /\ x # w
      <4>1. ds[x] = cs[x]
        BY <2>1, <3>3
      <4>2. cs[x].open /\ ~cs[x].lapped => KnowsFocus(cs[x], x, w)
        BY <3>3 DEF Selectable, KnowsFocus
      <4> QED
        BY <3>0, <3>3, <4>1, <4>2 DEF ClientFits
    <3> QED
      BY <3>1, <3>2, <3>3
  <2>4. ds \in [Window -> ClientRecord]
    BY <2>1, <2>3
  <2> QED
    BY <2>3, <2>4 DEF ds
<1> QED
  BY <1>1, <1>2

-----------------------------------------------------------------------------
(* One step per action *)

LEMMA InvFits ==
    ASSUME FocusInv, NEW w \in Window
    PROVE  client[w] \in ClientRecord /\ ClientFits(client[w], w, focus, oldButtons)
BY DEF FocusInv, FocusTypeOK, ClientFits

\* A step of one client
LEMMA ClientStep ==
    ASSUME FocusInv, NEW w \in Window, NEW d \in ClientRecord, d.open = client[w].open,
           ClientFits(d, w, focus, oldButtons), client' = [client EXCEPT ![w] = d],
           UNCHANGED <<focus, button, batch, oldButtons>>
    PROVE  FocusInv'
<1>1. client'[w] = d /\ \A x \in Window : x # w => client'[x] = client[x]
  BY DEF FocusInv, FocusTypeOK
<1>2. FocusTypeOK' /\ (batch.any /\ button => batch.down)' /\ HeldIsSeen'
  BY DEF FocusInv, FocusTypeOK, HeldIsSeen
<1>3. (focus # None => client[focus].open)'
  BY <1>1 DEF FocusInv, FocusTypeOK
<1>4. ASSUME NEW x \in Window
      PROVE  /\ PressHolds(client'[x])
             /\ client'[x].open /\ ~client'[x].lapped => KnowsFocus(client'[x], x, focus)
             /\ focus = x /\ ~client'[x].lapped => FollowsMouse(client'[x], oldButtons)
  <2>1. CASE x = w
    BY <1>1, <2>1 DEF ClientFits
  <2>2. CASE x # w
    BY <1>1, <2>2 DEF FocusInv
  <2> QED
    BY <2>1, <2>2
<1>5. ASSUME NEW x \in Window
      PROVE  (/\ PressHolds(client[x])
              /\ client[x].open /\ ~client[x].lapped => KnowsFocus(client[x], x, focus)
              /\ focus = x /\ ~client[x].lapped => FollowsMouse(client[x], oldButtons))'
  BY <1>4 DEF PressHolds, KnowsFocus, FollowsMouse, IsTold
<1> QED
  BY <1>2, <1>3, <1>5 DEF FocusInv

\* A message for the client itself, which says nothing of the selection or the mouse
LEMMA OtherStep ==
    ASSUME FocusInv, NEW w \in Window, client' = [client EXCEPT ![w] = QueuePush(@, Msg("OTHER"))],
           UNCHANGED <<focus, button, batch, oldButtons>>
    PROVE  FocusInv'
<1> DEFINE d == QueuePush(client[w], Msg("OTHER"))
<1>1. client[w] \in ClientRecord /\ ClientFits(client[w], w, focus, oldButtons)
  BY InvFits
<1>2. Msg("OTHER") \in Message /\ Msg("OTHER").type = "OTHER"
  BY MessageTypes
<1>3. d \in ClientRecord /\ d.open = client[w].open
  BY <1>1, <1>2, Push
<1>4. ~IsTold(Msg("OTHER"))
  BY <1>2 DEF IsTold
<1>5. ClientFits(d, w, focus, oldButtons)
  BY <1>1, <1>2, <1>4, PushFits DEF ClientFits
<1>6. client' = [client EXCEPT ![w] = d]
  OBVIOUS
<1> HIDE DEF d
<1> QED
  BY <1>3, <1>5, <1>6, ClientStep

LEMMA HandleKeyboardStep == ASSUME FocusInv, HandleKeyboard PROVE FocusInv'
<1>1. focus \in Window
  BY DEF HandleKeyboard, FocusInv, FocusTypeOK
<1> SUFFICES ASSUME NEW w \in Window, w = focus PROVE FocusInv'
  BY <1>1
<1> QED
  BY OtherStep DEF HandleKeyboard

LEMMA WindowSendStep == ASSUME FocusInv, NEW w \in Window, WindowSend(w) PROVE FocusInv'
BY OtherStep DEF WindowSend

LEMMA WindowReceiveStep == ASSUME FocusInv, NEW w \in Window, WindowReceive(w) PROVE FocusInv'
<1> SUFFICES ASSUME NEW r, r = client[w], NEW m, m = Head(r.queue) PROVE FocusInv'
  OBVIOUS
<1>1. /\ r \in ClientRecord /\ ClientFits(r, w, focus, oldButtons) /\ r.queue # <<>>
      /\ client' = [client EXCEPT ![w] = Dispatch([r EXCEPT !.queue = Tail(@)], m)]
      /\ UNCHANGED <<focus, button, batch, oldButtons>>
  <2>1. r \in ClientRecord /\ ClientFits(r, w, focus, oldButtons)
    BY InvFits
  <2>2. /\ r.queue # <<>> /\ UNCHANGED <<focus, button, batch, oldButtons>>
        /\ client' = [client EXCEPT
                        ![w] = Dispatch([client[w] EXCEPT !.queue = Tail(client[w].queue)],
                                        Head(client[w].queue))]
    BY DEF WindowReceive
  <2> QED
    BY <2>1, <2>2
<1>2. /\ r.queue \in Seq(Message) /\ Len(r.queue) \in Nat /\ Len(r.queue) < MSG_QUEUE_MAX
      /\ Len(r.queue) # 0
  BY <1>1, QueueType, EmptySeq DEF ClientRecord, Queues
<1>3. m \in Message /\ m = r.queue[1] /\ 1 \in 1 .. Len(r.queue)
  BY <1>2
<1>4. m.type = "MOUSE" /\ m.pressed => m.held
  BY <1>1, <1>3 DEF ClientFits, PressHolds
<1> DEFINE t == [r EXCEPT !.queue = Tail(@)]
<1>5. /\ t \in ClientRecord /\ t.queue = Tail(r.queue) /\ t.open = r.open /\ t.lapped = r.lapped
      /\ t.selected = r.selected /\ t.moving = r.moving
      /\ t.closeButtonPressed = r.closeButtonPressed
      /\ t.selected \in BOOLEAN /\ t.moving \in BOOLEAN /\ t.closeButtonPressed \in BOOLEAN
  <2>1. Tail(r.queue) \in Seq(Message) /\ Len(Tail(r.queue)) = Len(r.queue) - 1
    BY <1>1, <1>2
  <2>2. Len(Tail(r.queue)) \in Nat /\ Len(Tail(r.queue)) < MSG_QUEUE_MAX
    BY <1>2, <2>1, FocusAssumption
  <2>3. Tail(r.queue) \in Queues
    BY <2>1, <2>2, QueueType, Zenon
  <2> QED
    BY <1>1, <2>3 DEF ClientRecord, Queues
<1>6. client' = [client EXCEPT ![w] = Dispatch(t, m)]
  BY <1>1
<1> HIDE DEF t
\* Without the message that asks the program to quit
<1>7. ASSUME NEW d \in ClientRecord, client' = [client EXCEPT ![w] = d],
             d.queue = t.queue, d.open = t.open, d.lapped = t.lapped,
             m.type = "SELECT" => d.selected, m.type = "DESELECT" => ~d.selected,
             ~IsTold(m) => d.selected = t.selected,
             m.type = "MOUSE" => (d.moving => m.held), m.type # "MOUSE" => d.moving = t.moving
      PROVE  FocusInv'
  <2>1. ClientFits(d, w, focus, oldButtons)
    BY <1>1, <1>5, <1>7, TailFits
  <2> QED
    BY <1>1, <1>5, <1>7, <2>1, ClientStep
<1>8. CASE m.type = "SELECT"
  <2> DEFINE d == [t EXCEPT !.selected = TRUE]
  <2>1. Dispatch(t, m) = d
    BY <1>8 DEF Dispatch
  <2>2. /\ d \in ClientRecord /\ d.queue = t.queue /\ d.open = t.open /\ d.lapped = t.lapped
        /\ d.selected /\ d.moving = t.moving
    BY <1>5 DEF ClientRecord
  <2> HIDE DEF d
  <2> QED
    BY <1>6, <1>7, <1>8, <2>1, <2>2 DEF IsTold
<1>9. CASE m.type = "DESELECT"
  <2> DEFINE d == [t EXCEPT !.selected = FALSE]
  <2>1. Dispatch(t, m) = d
    BY <1>9 DEF Dispatch
  <2>2. /\ d \in ClientRecord /\ d.queue = t.queue /\ d.open = t.open /\ d.lapped = t.lapped
        /\ ~d.selected /\ d.moving = t.moving
    BY <1>5 DEF ClientRecord
  <2> HIDE DEF d
  <2> QED
    BY <1>6, <1>7, <1>9, <2>1, <2>2 DEF IsTold
<1>10. CASE m.type \notin {"SELECT", "DESELECT", "MOUSE"}
  <2>1. Dispatch(t, m) = t
    BY <1>10 DEF Dispatch
  <2> QED
    BY <1>5, <1>6, <1>7, <1>10, <2>1 DEF IsTold
<1>11. CASE m.type = "MOUSE"
  <2>0. /\ m \in [type: {"MOUSE"}, held: BOOLEAN, pressed: BOOLEAN, released: BOOLEAN, place: Place]
        /\ ~IsTold(m)
    BY <1>3, <1>11, MessageTypes DEF IsTold
  <2>1. Dispatch(t, m) = Drag(t, m)
    BY <1>11 DEF Dispatch
  <2>2. CASE t.moving
    <3> DEFINE d == [t EXCEPT !.moving = m.held]
    <3>1. Drag(t, m) = d
      BY <2>2 DEF Drag
    <3>2. /\ d \in ClientRecord /\ d.queue = t.queue /\ d.open = t.open /\ d.lapped = t.lapped
          /\ d.selected = t.selected /\ d.moving = m.held
      BY <1>5, <2>0 DEF ClientRecord
    <3> HIDE DEF d
    <3> QED
      BY <1>6, <1>7, <1>11, <2>0, <2>1, <3>1, <3>2
  <2>3. CASE ~t.moving /\ t.closeButtonPressed
    <3>1. CASE m.place # "close"
      <4> DEFINE d == [t EXCEPT !.closeButtonPressed = FALSE]
      <4>1. Drag(t, m) = d
        BY <2>3, <3>1 DEF Drag
      <4>2. /\ d \in ClientRecord /\ d.queue = t.queue /\ d.open = t.open /\ d.lapped = t.lapped
            /\ d.selected = t.selected /\ d.moving = t.moving
        BY <1>5 DEF ClientRecord
      <4> HIDE DEF d
      <4> QED
        BY <1>6, <1>7, <1>11, <2>0, <2>1, <2>3, <4>1, <4>2
    <3>2. CASE m.place = "close" /\ m.released
      <4> DEFINE d == QueuePush(t, Msg("QUIT"))
      <4>1. Drag(t, m) = d
        BY <2>3, <3>2 DEF Drag
      <4>2. ClientFits(t, w, focus, oldButtons)
        BY <1>1, <1>5, <1>11, <2>0, <2>3, TailFits
      <4>3. Msg("QUIT") \in Message /\ Msg("QUIT").type = "QUIT"
        BY MessageTypes
      <4>4. ~IsTold(Msg("QUIT"))
        BY <4>3 DEF IsTold
      <4>5. ClientFits(d, w, focus, oldButtons)
        BY <1>5, <4>2, <4>3, <4>4, PushFits DEF ClientFits
      <4>6. d \in ClientRecord /\ d.open = t.open
        BY <1>5, <4>3, Push
      <4> HIDE DEF d
      <4> QED
        BY <1>1, <1>5, <1>6, <2>1, <4>1, <4>5, <4>6, ClientStep
    <3>3. CASE m.place = "close" /\ ~m.released
      <4>1. Drag(t, m) = t
        BY <2>3, <3>3 DEF Drag
      <4> QED
        BY <1>5, <1>6, <1>7, <1>11, <2>0, <2>1, <2>3, <4>1
    <3> QED
      BY <3>1, <3>2, <3>3
  <2>4. CASE ~t.moving /\ ~t.closeButtonPressed /\ m.pressed
    <3> DEFINE d == [t EXCEPT !.moving = m.place = "topbar", !.closeButtonPressed = m.place = "close"]
    <3>1. Drag(t, m) = d
      BY <2>4 DEF Drag
    <3>2. /\ d \in ClientRecord /\ d.queue = t.queue /\ d.open = t.open /\ d.lapped = t.lapped
          /\ d.selected = t.selected
      BY <1>5 DEF ClientRecord
    <3>3. m.held
      BY <1>4, <1>11, <2>4
    <3> HIDE DEF d
    <3> QED
      BY <1>6, <1>7, <1>11, <2>0, <2>1, <3>1, <3>2, <3>3
  <2>5. CASE ~t.moving /\ ~t.closeButtonPressed /\ ~m.pressed
    <3>1. Drag(t, m) = t
      BY <2>5 DEF Drag
    <3> QED
      BY <1>5, <1>6, <1>7, <1>11, <2>0, <2>1, <2>5, <3>1
  <2> QED
    BY <2>2, <2>3, <2>4, <2>5
<1> QED
  BY <1>8, <1>9, <1>10, <1>11

\* FocusInv in the next state, from what the clients and the selection become
LEMMA FocusInvNext ==
    ASSUME FocusTypeOK', focus' # None => client'[focus'].open,
           batch'.any /\ button' => batch'.down, button' /\ ~batch'.any => oldButtons',
           \A x \in Window : ClientFits(client'[x], x, focus', oldButtons')
    PROVE  FocusInv'
BY DEF FocusInv, HeldIsSeen, ClientFits, PressHolds, KnowsFocus, FollowsMouse, IsTold

LEMMA FreshClient ==
    ASSUME NEW r, r = NoClient \/ r = [NoClient EXCEPT !.open = TRUE]
    PROVE  /\ r \in ClientRecord /\ PressHolds(r) /\ ~r.lapped
           /\ \A w, f : f # w => KnowsFocus(r, w, f)
           /\ \A buttons : FollowsMouse(r, buttons)
<1>1. /\ r.queue = <<>> /\ ~r.lapped /\ ~r.selected /\ ~r.moving
  BY DEF NoClient
<1>2. Len(r.queue) = 0
  BY <1>1
<1>3. <<>> \in Queues
  <2>1. <<>> \in Seq(Message) /\ Len(<<>>) = 0
    OBVIOUS
  <2>2. Len(<<>>) \in Nat /\ Len(<<>>) < MSG_QUEUE_MAX
    BY <2>1, FocusAssumption
  <2> QED
    BY <2>1, <2>2, QueueType, Zenon
<1>4. r \in ClientRecord
  <2>1. NoClient \in ClientRecord
    BY <1>3 DEF NoClient, ClientRecord, Queues
  <2>2. [NoClient EXCEPT !.open = TRUE] \in ClientRecord
    BY <2>1 DEF ClientRecord
  <2> QED
    BY <2>1, <2>2
<1> QED
  BY <1>1, <1>2, <1>4 DEF PressHolds, KnowsFocus, FollowsMouse

LEMMA WindowCreateStep == ASSUME FocusInv, NEW w \in Window, WindowCreate(w) PROVE FocusInv'
<1> DEFINE new == [NoClient EXCEPT !.open = TRUE]
           cs == [client EXCEPT ![w] = new]
<1>1. /\ ~client[w].open /\ client' = DwmSelect(cs, w) /\ focus' = w
      /\ UNCHANGED <<button, batch, oldButtons>>
  BY DEF WindowCreate
<1>2. /\ new \in ClientRecord /\ PressHolds(new) /\ ~new.lapped
      /\ \A x, f : f # x => KnowsFocus(new, x, f)
      /\ \A buttons : FollowsMouse(new, buttons)
  BY FreshClient
<1>3. new.open
  BY DEF NoClient
<1> HIDE DEF new
<1>4. focus # w /\ focus \in Window \cup {None} /\ w # None
  BY <1>1, FocusAssumption DEF FocusInv, FocusTypeOK
<1>5. /\ cs \in [Window -> ClientRecord] /\ cs[w] = new
      /\ \A x \in Window : x # w => cs[x] = client[x]
  BY <1>2 DEF FocusInv, FocusTypeOK
<1> HIDE DEF cs
<1>6. Selectable(cs, w, oldButtons)
  BY <1>2, <1>4, <1>5 DEF Selectable, FocusInv
<1>7. /\ DwmSelect(cs, w) \in [Window -> ClientRecord]
      /\ \A x \in Window : /\ ClientFits(DwmSelect(cs, w)[x], x, w, oldButtons)
                           /\ DwmSelect(cs, w)[x].open = cs[x].open
  BY <1>4, <1>6, SelectFits
<1>8. client'[w].open
  BY <1>1, <1>3, <1>5, <1>7
<1>9. FocusTypeOK'
  BY <1>1, <1>7 DEF FocusInv, FocusTypeOK
<1>10. /\ batch'.any /\ button' => batch'.down
       /\ button' /\ ~batch'.any => oldButtons'
  BY <1>1 DEF FocusInv, HeldIsSeen
<1>11. \A x \in Window : ClientFits(client'[x], x, focus', oldButtons')
  BY <1>1, <1>7
<1> QED
  BY <1>1, <1>8, <1>9, <1>10, <1>11, FocusInvNext

LEMMA WindowCloseStep == ASSUME FocusInv, NEW w \in Window, WindowClose(w) PROVE FocusInv'
<1>1. /\ client' = [client EXCEPT ![w] = NoClient]
      /\ focus' = IF focus = w THEN None ELSE focus
      /\ UNCHANGED <<button, batch, oldButtons>>
  BY DEF WindowClose
<1>2. /\ NoClient \in ClientRecord /\ PressHolds(NoClient) /\ ~NoClient.open
      /\ \A buttons : FollowsMouse(NoClient, buttons)
  <2>1. ~NoClient.open
    BY DEF NoClient
  <2> QED
    BY <2>1, FreshClient
<1>3. /\ client' \in [Window -> ClientRecord] /\ client'[w] = NoClient
      /\ \A x \in Window : x # w => client'[x] = client[x]
  BY <1>1, <1>2 DEF FocusInv, FocusTypeOK
<1>4. focus' \in Window \cup {None} /\ focus' # w /\ w # None
  BY <1>1, FocusAssumption DEF FocusInv, FocusTypeOK
<1>5. FocusTypeOK'
  BY <1>1, <1>3, <1>4 DEF FocusInv, FocusTypeOK
<1>6. focus' # None => client'[focus'].open
  BY <1>1, <1>3, <1>4 DEF FocusInv
<1>7. /\ batch'.any /\ button' => batch'.down
      /\ button' /\ ~batch'.any => oldButtons'
  BY <1>1 DEF FocusInv, HeldIsSeen
<1>8. ASSUME NEW x \in Window PROVE ClientFits(client'[x], x, focus', oldButtons')
  <2>1. CASE x = w
    BY <1>2, <1>3, <2>1 DEF ClientFits
  <2>2. CASE x # w
    <3>1. client'[x] = client[x] /\ ClientFits(client[x], x, focus, oldButtons)
      BY <1>3, <2>2, InvFits
    <3>2. focus = x <=> focus' = x
      BY <1>1, <1>4, <2>2, FocusAssumption
    <3>3. KnowsFocus(client[x], x, focus) => KnowsFocus(client[x], x, focus')
      BY <3>2 DEF KnowsFocus
    <3>4. oldButtons' = oldButtons
      BY <1>1
    <3> QED
      BY <3>1, <3>2, <3>3, <3>4 DEF ClientFits
  <2> QED
    BY <2>1, <2>2
<1> QED
  BY <1>5, <1>6, <1>7, <1>8, FocusInvNext

LEMMA MouseEventStep == ASSUME FocusInv, NEW down \in BOOLEAN, MouseEvent(down) PROVE FocusInv'
<1>1. /\ UNCHANGED <<focus, client, oldButtons>> /\ button' = down
      /\ batch' = [any |-> TRUE, down |-> batch.down \/ down]
  BY DEF MouseEvent
<1>2. FocusTypeOK'
  BY <1>1 DEF FocusInv, FocusTypeOK
<1>3. /\ batch'.any = TRUE /\ (button' => batch'.down)
  BY <1>1
<1>4. focus' # None => client'[focus'].open
  BY <1>1 DEF FocusInv
<1>5. \A x \in Window : ClientFits(client'[x], x, focus', oldButtons')
  BY <1>1, InvFits
<1> QED
  BY <1>2, <1>3, <1>4, <1>5, FocusInvNext

LEMMA HandleMouseStep ==
    ASSUME FocusInv, NEW w \in {x \in Window : client[x].open} \cup {None}, NEW place \in Place,
           HandleMouse(w, place)
    PROVE  FocusInv'
<1> DEFINE press == batch.down /\ ~oldButtons
           target == IF press THEN w ELSE focus
           told == IF press THEN DwmSelect(client, w) ELSE client
           mouse == [type |-> "MOUSE", held |-> batch.down, pressed |-> press,
                     released |-> oldButtons /\ ~batch.down, place |-> place]
<1>0. focus \in Window \cup {None} /\ client \in [Window -> ClientRecord] /\ None \notin Window
  BY FocusAssumption DEF FocusInv, FocusTypeOK
<1>1. /\ focus' = target
      /\ client' = IF target = None THEN told
                   ELSE [told EXCEPT ![target] = QueuePush(@, mouse)]
      /\ oldButtons' = batch.down /\ batch' = [any |-> FALSE, down |-> FALSE] /\ button' = button
      /\ batch.any
  BY DEF HandleMouse
<1>2. /\ mouse \in Message /\ mouse.type = "MOUSE" /\ mouse.held = batch.down
      /\ mouse.pressed = press
  BY DEF Message, FocusInv, FocusTypeOK
<1>3. mouse.pressed => mouse.held
  BY <1>2
\* What the clients know, with the new selection and before the mouse message
<1>4. /\ target \in Window \cup {None} /\ told \in [Window -> ClientRecord]
      /\ \A x \in Window : /\ PressHolds(told[x]) /\ told[x].open = client[x].open
                           /\ told[x].open /\ ~told[x].lapped => KnowsFocus(told[x], x, target)
      /\ target # None => client[target].open
  <2>1. CASE press
    <3>0. PICK yes \in BOOLEAN : yes
      OBVIOUS
    <3>1. Selectable(client, w, yes)
      BY <1>0, <3>0 DEF FocusInv, Selectable, FollowsMouse
    <3>2. /\ DwmSelect(client, w) \in [Window -> ClientRecord]
          /\ \A x \in Window : /\ ClientFits(DwmSelect(client, w)[x], x, w, yes)
                               /\ DwmSelect(client, w)[x].open = client[x].open
      BY <1>0, <3>1, SelectFits
    <3> QED
      BY <2>1, <3>2 DEF ClientFits
  <2>2. CASE ~press
    BY <1>0, <2>2 DEF FocusInv
  <2> QED
    BY <2>1, <2>2
<1> HIDE DEF target, told, mouse
<1>5. ASSUME NEW x \in Window
      PROVE  /\ client'[x] \in ClientRecord /\ client'[x].open = client[x].open
             /\ ClientFits(client'[x], x, focus', oldButtons')
  <2>1. CASE x = target
    <3>1. client'[x] = QueuePush(told[x], mouse) /\ focus' = x
      BY <1>0, <1>1, <1>4, <2>1
    <3>2. ~IsTold(mouse)
      BY <1>2 DEF IsTold
    <3>3. told[x] \in ClientRecord /\ PressHolds(told[x])
          /\ (told[x].open /\ ~told[x].lapped => KnowsFocus(told[x], x, target))
      BY <1>4
    <3>4. ClientFits(QueuePush(told[x], mouse), x, target, oldButtons')
      BY <1>1, <1>2, <1>3, <3>2, <3>3, PushFits
    <3>5. /\ QueuePush(told[x], mouse) \in ClientRecord
          /\ QueuePush(told[x], mouse).open = told[x].open
      BY <1>2, <3>3, Push
    <3> QED
      BY <1>1, <1>4, <3>1, <3>4, <3>5
  <2>2. CASE x # target
    <3>1. client'[x] = told[x] /\ focus' # x
      BY <1>1, <1>4, <2>2
    <3> QED
      BY <1>1, <1>4, <3>1 DEF ClientFits
  <2> QED
    BY <2>1, <2>2
<1>6. client' \in [Window -> ClientRecord]
  BY <1>1, <1>4, <1>5
<1>7. FocusTypeOK'
  <2>1. batch' \in [any: BOOLEAN, down: BOOLEAN]
    BY <1>1
  <2> QED
    BY <1>1, <1>4, <1>6, <2>1 DEF FocusInv, FocusTypeOK
<1>8. focus' # None => client'[focus'].open
  BY <1>1, <1>4, <1>5
<1>9. ~batch'.any /\ (button' => oldButtons')
  BY <1>1 DEF FocusInv
<1> QED
  BY <1>5, <1>7, <1>8, <1>9, FocusInvNext

LEMMA FocusInitInv == FocusInit => FocusInv
<1> SUFFICES ASSUME FocusInit PROVE FocusInv
  OBVIOUS
<1> USE DEF FocusInit
<1>1. /\ NoClient \in ClientRecord /\ PressHolds(NoClient) /\ ~NoClient.open
      /\ \A buttons : FollowsMouse(NoClient, buttons)
  <2>1. ~NoClient.open
    BY DEF NoClient
  <2> QED
    BY <2>1, FreshClient
<1>2. FocusTypeOK
  BY <1>1 DEF FocusTypeOK
<1> QED
  BY <1>1, <1>2 DEF FocusInv, HeldIsSeen

LEMMA FocusNextInv == FocusInv /\ [FocusNext]_focusVars => FocusInv'
<1> SUFFICES ASSUME FocusInv, [FocusNext]_focusVars PROVE FocusInv'
  OBVIOUS
<1>1. CASE UNCHANGED focusVars
  BY <1>1 DEF FocusInv, FocusTypeOK, HeldIsSeen, PressHolds, KnowsFocus, FollowsMouse, IsTold,
              focusVars
<1>2. ASSUME NEW down \in BOOLEAN, MouseEvent(down) PROVE FocusInv'
  BY <1>2, MouseEventStep
<1>3. ASSUME NEW w \in {x \in Window : client[x].open} \cup {None}, NEW place \in Place,
             HandleMouse(w, place)
      PROVE  FocusInv'
  BY <1>3, HandleMouseStep
<1>4. CASE HandleKeyboard
  BY <1>4, HandleKeyboardStep
<1>5. ASSUME NEW w \in Window,
             WindowCreate(w) \/ WindowClose(w) \/ WindowSend(w) \/ WindowReceive(w)
      PROVE  FocusInv'
  BY <1>5, WindowCreateStep, WindowCloseStep, WindowSendStep, WindowReceiveStep
<1> QED
  BY <1>1, <1>2, <1>3, <1>4, <1>5 DEF FocusNext

LEMMA FocusInvRight == FocusInv => FocusKnown /\ DragsFollow
<1> SUFFICES ASSUME FocusInv PROVE FocusKnown /\ DragsFollow
  OBVIOUS
<1>1. \A w \in Window : client[w].queue = <<>> => Len(client[w].queue) = 0
  OBVIOUS
<1>2. FocusKnown
  BY <1>1 DEF FocusInv, FocusKnown, KnowsFocus
<1>3. DragEnds
  BY <1>1 DEF FocusInv, DragEnds, FollowsMouse
<1> QED
  BY <1>2, <1>3 DEF FocusInv, DragsFollow

(***************************************************************************)
(* A client that has read its messages, and never fell behind by a whole   *)
(* queue, knows whether dwm.c has it selected.  For any number of windows  *)
(* and any size of the message queues.                                     *)
(***************************************************************************)
THEOREM FocusIsKnown == FocusSpec => []FocusKnown
<1>1. FocusInit => FocusInv
  BY FocusInitInv
<1>2. FocusInv /\ [FocusNext]_focusVars => FocusInv'
  BY FocusNextInv
<1>3. FocusInv => FocusKnown
  BY FocusInvRight
<1> QED
  BY <1>1, <1>2, <1>3, PTL DEF FocusSpec

(***************************************************************************)
(* A drag lasts as long as the button is held: the manager never takes a   *)
(* button that is held to be up, and the selected window lets go once it   *)
(* has read that the button is.                                            *)
(***************************************************************************)
THEOREM FocusDragsFollow == FocusSpec => []DragsFollow
<1>1. FocusInit => FocusInv
  BY FocusInitInv
<1>2. FocusInv /\ [FocusNext]_focusVars => FocusInv'
  BY FocusNextInv
<1>3. FocusInv => DragsFollow
  BY FocusInvRight
<1> QED
  BY <1>1, <1>2, <1>3, PTL DEF FocusSpec

-----------------------------------------------------------------------------
(* The loop of a window's program, for any clock and any list of widgets *)

\* A sum or a difference that leaves the range by at most one turn
LEMMA ModOnce ==
    ASSUME NEW n \in Nat, n > 0, NEW a \in Int
    PROVE  /\ a \in 0 .. n - 1 => a % n = a
           /\ a \in n .. 2 * n - 1 => a % n = a - n
           /\ a \in (0 - n) .. 0 - 1 => a % n = a + n
           /\ a % n \in 0 .. n - 1
  OBVIOUS

Asleep == loop.pc \in {"ioctl", "blocked", "back"}

\* What win_receive computed from the deadlines is still what they say: only the
\* program changes them, and it is in win_receive.
LoopFits ==
    /\ Asleep => /\ loop.upTime <= clock
                 /\ loop.remaining = Remaining(loop.deadline, loop.upTime)
    /\ loop.pc = "blocked" =>
        /\ loop.upTime <= loop.entered
        /\ loop.wake = IF loop.remaining = NEVER THEN NEVER
                       ELSE (loop.remaining + loop.entered) % NsecSize

\* The ring holds what is due, as long as that fits.
RingFits(w) ==
    w.due < WIN_WIDGET_MAX_MSG => (w.write - w.read) % WIN_WIDGET_MAX_MSG = w.due

\* The list is in the order of the identifiers.
InOrderOfId(list) == \A i, j \in 1 .. Len(list) : i < j => list[i].id < list[j].id

WidgetsFit(list) ==
    /\ list \in Seq(Widget)
    /\ InOrderOfId(list)
    /\ \A i \in 1 .. Len(list) : RingFits(list[i])

WinInv == WinTypeOK /\ LoopFits /\ WidgetsFit(widgets)

-----------------------------------------------------------------------------
(* The widgets *)

LEMMA SentFits ==
    ASSUME NEW w \in Widget, RingFits(w)
    PROVE  /\ WidgetSent(w) \in Widget /\ WidgetSent(w).id = w.id
           /\ RingFits(WidgetSent(w))
<1> DEFINE m == WIN_WIDGET_MAX_MSG
<1>1. m \in Nat /\ m > 1
  BY WinAssumption
<1>2. w.write \in 0 .. m - 1 /\ w.read \in 0 .. m - 1 /\ w.due \in 0 .. m /\ w.id \in WidgetId
  BY DEF Widget
<1> DEFINE z == (w.write + 1) % m
           d == IF w.due < m THEN w.due + 1 ELSE w.due
<1>3. WidgetSent(w) = [w EXCEPT !.write = z, !.due = d]
  BY DEF WidgetSent
<1>4. z \in 0 .. m - 1 /\ z = (IF w.write + 1 = m THEN 0 ELSE w.write + 1)
  BY <1>1, <1>2, ModOnce
<1>5. d \in 0 .. m
  BY <1>1, <1>2
<1>6. d < m => (z - w.read) % m = d
  <2> SUFFICES ASSUME d < m PROVE (z - w.read) % m = d
    OBVIOUS
  <2>1. d = w.due + 1 /\ w.due < m
    BY <1>1, <1>2
  <2>2. (w.write - w.read) % m = w.due
    BY <2>1 DEF RingFits
  <2>3. w.due = IF w.write >= w.read THEN w.write - w.read ELSE w.write - w.read + m
    BY <1>1, <1>2, <2>2, ModOnce
  <2>4. (z - w.read) % m = IF z >= w.read THEN z - w.read ELSE z - w.read + m
    BY <1>1, <1>2, <1>4, ModOnce
  <2> QED
    BY <1>1, <1>2, <1>4, <2>1, <2>3, <2>4
<1> HIDE DEF z, d
<1>7. /\ WidgetSent(w) \in Widget /\ WidgetSent(w).id = w.id
      /\ WidgetSent(w).write = z /\ WidgetSent(w).due = d /\ WidgetSent(w).read = w.read
  BY <1>3, <1>4, <1>5 DEF Widget
<1> QED
  BY <1>6, <1>7 DEF RingFits

LEMMA ServedFits ==
    ASSUME NEW w \in Widget
    PROVE  /\ WidgetServed(w) \in Widget /\ WidgetServed(w).id = w.id
           /\ RingFits(WidgetServed(w))
<1>1. WIN_WIDGET_MAX_MSG \in Nat /\ WIN_WIDGET_MAX_MSG > 1
  BY WinAssumption
<1>2. /\ WidgetServed(w) \in Widget /\ WidgetServed(w).id = w.id
      /\ WidgetServed(w).read = w.write /\ WidgetServed(w).write = w.write
      /\ WidgetServed(w).due = 0
  <2>1. 0 \in 0 .. WIN_WIDGET_MAX_MSG /\ w \in Widget
    BY <1>1
  <2> QED
    BY <2>1 DEF WidgetServed, Widget
<1>3. w.write - w.write = 0 /\ 0 % WIN_WIDGET_MAX_MSG = 0
  BY <1>1, ModOnce DEF Widget
<1> QED
  BY <1>2, <1>3 DEF RingFits

\* A list changed at each place without changing an identifier
LEMMA SameIds ==
    ASSUME NEW list, WidgetsFit(list), NEW new, DOMAIN new = DOMAIN list,
           new = [i \in DOMAIN new |-> new[i]],
           \A i \in 1 .. Len(list) :
               new[i] \in Widget /\ new[i].id = list[i].id /\ RingFits(new[i])
    PROVE  WidgetsFit(new)
<1>1. list \in Seq(Widget) /\ DOMAIN list = 1 .. Len(list) /\ Len(list) \in Nat
  BY DEF WidgetsFit
<1>2. new \in [1 .. Len(list) -> Widget]
  BY <1>1
<1>3. new \in Seq(Widget) /\ Len(new) = Len(list)
  BY <1>1, <1>2
<1> QED
  BY <1>3 DEF WidgetsFit, InOrderOfId

LEMMA RemoveFits ==
    ASSUME NEW list, WidgetsFit(list), NEW p \in 1 .. Len(list)
    PROVE  WidgetsFit(RemoveAt(list, p))
<1> DEFINE new == RemoveAt(list, p)
           at(i) == IF i < p THEN i ELSE i + 1
<1>1. list \in Seq(Widget) /\ Len(list) \in Nat
  BY DEF WidgetsFit
<1>2. /\ new \in Seq(Widget) /\ Len(new) = Len(list) - 1
      /\ \A i \in 1 .. Len(list) - 1 : new[i] = list[at(i)]
  BY <1>1, RemoveAtRemoves
<1> HIDE DEF new
<1>3. \A i \in 1 .. Len(list) - 1 : at(i) \in 1 .. Len(list)
  BY <1>1
<1>4. \A i, j \in 1 .. Len(list) - 1 : i < j => at(i) < at(j)
  BY <1>1
<1> HIDE DEF at
<1>5. WidgetsFit(new)
  BY <1>2, <1>3, <1>4 DEF WidgetsFit, InOrderOfId
<1> QED
  BY <1>5 DEF new

\* A widget put in front of the first larger identifier
LEMMA InsertFits ==
    ASSUME NEW list, WidgetsFit(list), NEW w \in Widget, RingFits(w),
           ~WidgetFind(list, w.id)
    PROVE  WidgetsFit(WidgetInsert(list, w))
<1> DEFINE larger == {i \in DOMAIN list : list[i].id > w.id}
<1>1. /\ list \in Seq(Widget) /\ Len(list) \in Nat /\ DOMAIN list = 1 .. Len(list)
      /\ \A i \in 1 .. Len(list) : list[i] \in Widget /\ list[i].id \in Nat
      /\ w.id \in Nat
  <2>1. list \in Seq(Widget)
    BY DEF WidgetsFit
  <2>2. \A v \in Widget : v.id \in Nat
    BY WinAssumption DEF Widget
  <2> QED
    BY <2>1, <2>2
<1>2. ASSUME NEW i \in 1 .. Len(list) PROVE list[i].id # w.id
  <2>1. \A j \in 1 .. i - 1 : j \in 1 .. Len(list) /\ j < i
    BY <1>1
  <2>2. \A j \in 1 .. i - 1 : list[j].id < list[i].id
    BY <2>1 DEF WidgetsFit, InOrderOfId
  <2> QED
    BY <1>1, <2>2 DEF WidgetFind
<1>3. PICK p \in 1 .. Len(list) + 1 :
          /\ \/ WidgetInsert(list, w) = InsertAt(list, p, w)
             \/ WidgetInsert(list, w) = Append(list, w) /\ p = Len(list) + 1
          /\ \A i \in 1 .. p - 1 : list[i].id < w.id
          /\ \A i \in p .. Len(list) : list[i].id > w.id
  <2>1. CASE larger = {}
    <3>1. \A i \in 1 .. Len(list) : list[i].id < w.id
      BY <1>1, <1>2, <2>1
    <3>2. WidgetInsert(list, w) = Append(list, w)
      BY <2>1 DEF WidgetInsert
    <3>3. /\ Len(list) + 1 \in 1 .. Len(list) + 1
          /\ \A i \in 1 .. (Len(list) + 1) - 1 : i \in 1 .. Len(list)
          /\ \A i \in Len(list) + 1 .. Len(list) : FALSE
      BY <1>1
    <3> QED
      BY <3>1, <3>2, <3>3
  <2>2. CASE larger # {}
    <3>1. larger \subseteq Nat
      BY <1>1
    <3>2. PICK p \in larger : \A e \in larger : ~(<<e, p>> \in OpToRel(<, Nat))
      BY <2>2, <3>1, NatLessThanWellFounded, WFMin, Zenon
    <3>3. ASSUME NEW e \in larger PROVE p <= e
      <4>1. p \in Nat /\ e \in Nat
        BY <3>1
      <4>2. ~(e < p)
        BY <3>2, <4>1, Zenon DEF OpToRel
      <4> QED
        BY <4>1, <4>2
    <3>4. \E q \in larger : \A j \in larger : q <= j
      BY <3>3
    <3> DEFINE q == CHOOSE i \in larger : \A j \in larger : i <= j
    <3>5. q \in larger /\ \A j \in larger : q <= j
      BY <3>4
    <3>6. WidgetInsert(list, w) = InsertAt(list, q, w)
      BY <2>2 DEF WidgetInsert
    <3> HIDE DEF q
    <3>7. q \in 1 .. Len(list) /\ q \in 1 .. Len(list) + 1 /\ list[q].id > w.id
      BY <1>1, <3>5
    <3>8. ASSUME NEW i \in 1 .. q - 1 PROVE list[i].id < w.id
      <4>1. i \in 1 .. Len(list) /\ ~(q <= i)
        BY <1>1, <3>7
      <4>2. i \notin larger
        BY <3>5, <4>1
      <4> QED
        BY <1>1, <1>2, <4>1, <4>2
    <3>9. ASSUME NEW i \in q .. Len(list) PROVE list[i].id > w.id
      <4>1. i \in 1 .. Len(list) /\ (i = q \/ q < i)
        BY <1>1, <3>7
      <4>2. list[q].id <= list[i].id
        BY <1>1, <3>7, <4>1 DEF WidgetsFit, InOrderOfId
      <4> QED
        BY <1>1, <3>7, <4>1, <4>2
    <3> QED
      BY <3>6, <3>7, <3>8, <3>9
  <2> QED
    BY <2>1, <2>2
<1> DEFINE new == WidgetInsert(list, w)
<1>4. /\ new \in Seq(Widget) /\ Len(new) = Len(list) + 1 /\ new[p] = w
      /\ \A i \in 1 .. p - 1 : new[i] = list[i]
      /\ \A i \in p + 1 .. Len(list) + 1 : new[i] = list[i - 1]
  <2>1. CASE new = InsertAt(list, p, w)
    <3>1. list \in Seq(Widget) /\ w \in Widget /\ p \in 1 .. Len(list) + 1
      BY <1>1
    <3> DEFINE s == InsertAt(list, p, w)
    <3>2. Widened(Widget, list, s, p, w)
      BY <3>1, InsertAtInserts
    <3>3. new = s
      BY <2>1
    <3> HIDE DEF new, s
    <3> QED
      BY <3>2, <3>3 DEF Widened
  <2>2. CASE new = Append(list, w) /\ p = Len(list) + 1
    <3>1. /\ new \in Seq(Widget) /\ Len(new) = Len(list) + 1 /\ new[Len(list) + 1] = w
          /\ \A i \in 1 .. Len(list) : new[i] = list[i]
      BY <1>1, <2>2, AppendProperties
    <3>2. p - 1 = Len(list) /\ \A i \in p + 1 .. Len(list) + 1 : FALSE
      BY <1>1, <2>2
    <3> QED
      BY <2>2, <3>1, <3>2
  <2> QED
    BY <1>3, <2>1, <2>2
<1> HIDE DEF new
<1>5. ASSUME NEW i \in 1 .. Len(list) + 1
      PROVE  \/ i = p
             \/ i < p /\ i \in 1 .. p - 1 /\ i \in 1 .. Len(list)
             \/ p < i /\ i \in p + 1 .. Len(list) + 1 /\ i - 1 \in p .. Len(list) /\ i - 1 \in 1 .. Len(list)
  BY <1>1
<1>6. ASSUME NEW i \in 1 .. Len(list) + 1 PROVE RingFits(new[i])
  BY <1>4, <1>5 DEF WidgetsFit
<1>7. ASSUME NEW i \in 1 .. Len(list) + 1, NEW j \in 1 .. Len(list) + 1, i < j
      PROVE  new[i].id < new[j].id
  <2>1. CASE i = p
    <3>1. p < j /\ j \in p + 1 .. Len(list) + 1 /\ j - 1 \in p .. Len(list) /\ j - 1 \in 1 .. Len(list)
      BY <1>1, <1>7, <2>1
    <3>2. new[i] = w /\ new[j] = list[j - 1] /\ list[j - 1].id > w.id
      BY <1>3, <1>4, <2>1, <3>1
    <3> QED
      BY <1>1, <3>1, <3>2
  <2>2. CASE i < p
    <3>1. new[i] = list[i] /\ list[i].id < w.id /\ i \in 1 .. Len(list) /\ list[i].id \in Nat
      BY <1>1, <1>3, <1>4, <1>5, <2>2
    <3>2. CASE j < p
      BY <1>4, <1>5, <1>7, <3>1, <3>2 DEF WidgetsFit, InOrderOfId
    <3>3. CASE j = p
      BY <1>4, <3>1, <3>3
    <3>4. CASE p < j
      <4>1. new[j] = list[j - 1] /\ list[j - 1].id > w.id /\ list[j - 1].id \in Nat
        BY <1>1, <1>3, <1>4, <1>5, <3>4
      <4> QED
        BY <1>1, <3>1, <4>1
    <3> QED
      BY <3>2, <3>3, <3>4
  <2>3. CASE p < i
    <3>1. /\ new[i] = list[i - 1] /\ i - 1 \in 1 .. Len(list)
          /\ new[j] = list[j - 1] /\ j - 1 \in 1 .. Len(list) /\ i - 1 < j - 1
      BY <1>1, <1>4, <1>5, <1>7, <2>3
    <3> QED
      BY <3>1 DEF WidgetsFit, InOrderOfId
  <2> QED
    BY <2>1, <2>2, <2>3
<1>8. WidgetsFit(new)
  BY <1>4, <1>6, <1>7 DEF WidgetsFit, InOrderOfId
<1> QED
  BY <1>8 DEF new

-----------------------------------------------------------------------------
(* One step per action *)

LEMMA WinNumbers ==
    /\ ClockMax \in Nat /\ NsecSize \in Nat /\ NsecSize > ClockMax
    /\ NEVER \in Nsec /\ 0 .. ClockMax \subseteq Nsec /\ NsecSize > 0
    /\ 0 \in 0 .. ClockMax
BY WinAssumption DEF NEVER, Nsec

LEMMA WidgetsType ==
    ASSUME NEW list, WidgetsFit(list)
    PROVE  /\ DOMAIN list = 1 .. Len(list) /\ Len(list) \in Nat
           /\ \A i \in DOMAIN list : list[i] \in Widget
BY DEF WidgetsFit

\* A step of the program on its list alone
LEMMA ListStep ==
    ASSUME WinInv, UNCHANGED <<clock, loop, queued, timerDeadline>>, WidgetsFit(widgets')
    PROVE  WinInv'
<1>1. WinTypeOK'
  BY WidgetsType DEF WinInv, WinTypeOK
<1>2. LoopFits'
  BY DEF WinInv, LoopFits, Asleep, Remaining
<1> QED
  BY <1>1, <1>2 DEF WinInv

LEMMA WidgetNewStep == ASSUME WinInv, NEW id \in WidgetId, WidgetNew(id) PROVE WinInv'
<1> DEFINE w == [id |-> id, read |-> 0, write |-> 0, due |-> 0]
<1>1. WIN_WIDGET_MAX_MSG \in Nat /\ WIN_WIDGET_MAX_MSG > 1
  BY WinAssumption
<1>2. 0 \in 0 .. WIN_WIDGET_MAX_MSG - 1 /\ 0 \in 0 .. WIN_WIDGET_MAX_MSG
  BY <1>1
<1>3. w \in Widget /\ w.id = id /\ w.read = 0 /\ w.write = 0 /\ w.due = 0
  BY <1>2 DEF Widget
<1>4. RingFits(w)
  <2>1. 0 - 0 = 0 /\ 0 % WIN_WIDGET_MAX_MSG = 0
    BY <1>1, ModOnce
  <2> QED
    BY <1>3, <2>1 DEF RingFits
<1>5. widgets' = WidgetInsert(widgets, WidgetSent(w)) /\ ~WidgetFind(widgets, id)
  BY DEF WidgetNew
<1> HIDE DEF w
<1>6. PICK v \in Widget : v = WidgetSent(w) /\ v.id = id /\ RingFits(v)
  BY <1>3, <1>4, SentFits
<1>7. WidgetsFit(WidgetInsert(widgets, v))
  BY <1>5, <1>6, InsertFits DEF WinInv
<1> QED
  BY <1>5, <1>6, <1>7, ListStep DEF WidgetNew

LEMMA WidgetFreeStep == ASSUME WinInv, NEW i \in DOMAIN widgets, WidgetFree(i) PROVE WinInv'
<1>1. WidgetsFit(widgets)
  BY DEF WinInv
<1>2. i \in 1 .. Len(widgets)
  BY <1>1, WidgetsType
<1>3. WidgetsFit(RemoveAt(widgets, i))
  BY <1>1, <1>2, RemoveFits
<1> QED
  BY <1>3, ListStep DEF WidgetFree

LEMMA WidgetSendStep == ASSUME WinInv, NEW i \in DOMAIN widgets, WidgetSend(i) PROVE WinInv'
<1>1. WidgetsFit(widgets)
  BY DEF WinInv
<1>2. /\ DOMAIN widgets = 1 .. Len(widgets)
      /\ \A j \in 1 .. Len(widgets) : widgets[j] \in Widget /\ RingFits(widgets[j])
  BY <1>1, WidgetsType DEF WidgetsFit
<1>3. widgets' = [j \in DOMAIN widgets |-> IF j = i THEN WidgetSent(widgets[i]) ELSE widgets[j]]
  BY DEF WidgetSend
<1>4. WidgetSent(widgets[i]) \in Widget /\ WidgetSent(widgets[i]).id = widgets[i].id /\ RingFits(WidgetSent(widgets[i]))
  BY <1>2, SentFits
<1>5. /\ DOMAIN widgets' = DOMAIN widgets /\ widgets' = [j \in DOMAIN widgets' |-> widgets'[j]]
      /\ \A j \in 1 .. Len(widgets) :
            widgets'[j] = IF j = i THEN WidgetSent(widgets[i]) ELSE widgets[j]
  BY <1>2, <1>3
<1>6. \A j \in 1 .. Len(widgets) :
          widgets'[j] \in Widget /\ widgets'[j].id = widgets[j].id /\ RingFits(widgets'[j])
  BY <1>2, <1>4, <1>5
<1>7. WidgetsFit(widgets')
  BY <1>1, <1>5, <1>6, SameIds
<1> QED
  BY <1>7, ListStep DEF WidgetSend

\* The loop's locals change; the list may be served or sent to.
LEMMA LoopStep ==
    ASSUME WinInv, WidgetsFit(widgets'),
           loop' \in [pc: {"run", "ioctl", "blocked", "back", "proc"},
                      deadline: Nsec, upTime: 0 .. ClockMax, remaining: Nsec, entered: 0 .. ClockMax,
                      wake: Nsec],
           clock' \in 0 .. ClockMax, queued' \in 0 .. QueueMax, timerDeadline' \in Nsec
    PROVE  WinTypeOK'
BY WidgetsType DEF WinInv, WinTypeOK

LEMMA RemainingType ==
    ASSUME NEW d \in Nsec, NEW u \in 0 .. ClockMax, timerDeadline \in Nsec
    PROVE  Remaining(d, u) \in Nsec
<1> DEFINE next == IF d < timerDeadline THEN d ELSE timerDeadline
<1>1. next \in Int /\ u \in Int /\ next - u \in Int
  BY WinNumbers DEF Nsec
<1>2. (next - u) % NsecSize \in Nsec
  BY <1>1, WinNumbers, ModOnce DEF Nsec
<1> QED
  BY <1>2, WinNumbers DEF Remaining

\* The deadline of a timeout
LEMMA DeadlineType ==
    ASSUME NEW t \in Timeout \cup {NEVER}, NEW c \in 0 .. ClockMax
    PROVE  (IF t = NEVER THEN NEVER ELSE (t + c) % NsecSize) \in Nsec
<1>1. t # NEVER => t \in Nat
  BY WinAssumption
<1>2. t # NEVER => (t + c) % NsecSize \in Nsec
  BY <1>1, WinNumbers, ModOnce DEF Nsec
<1> QED
  BY <1>2, WinNumbers

LEMMA TimerSetStep ==
    ASSUME WinInv, NEW t \in Timeout \cup {NEVER}, TimerSet(t) PROVE WinInv'
<1>1. timerDeadline' \in Nsec
  BY DeadlineType DEF TimerSet, WinInv, WinTypeOK
<1>2. WinTypeOK'
  BY <1>1, LoopStep DEF WinInv, WinTypeOK, TimerSet
<1>3. LoopFits'
  BY DEF TimerSet, InProgram, LoopFits, Asleep
<1> QED
  BY <1>2, <1>3 DEF WinInv, TimerSet

LEMMA ReceiveStep ==
    ASSUME WinInv, NEW t \in Timeout \cup {NEVER}, Receive(t) PROVE WinInv'
<1> DEFINE deadline == IF t = NEVER THEN NEVER ELSE (t + clock) % NsecSize
<1>1. deadline \in Nsec /\ clock \in 0 .. ClockMax /\ timerDeadline \in Nsec
  BY DeadlineType DEF WinInv, WinTypeOK
<1>2. /\ loop' = [loop EXCEPT !.pc = "ioctl", !.deadline = deadline, !.upTime = clock,
                              !.remaining = Remaining(deadline, clock)]
      /\ UNCHANGED <<clock, queued, timerDeadline, widgets>>
  BY DEF Receive
<1> HIDE DEF deadline
<1>3. Remaining(deadline, clock) \in Nsec
  BY <1>1, RemainingType
<1> DEFINE remaining == Remaining(deadline, clock)
<1>4. /\ loop' = [loop EXCEPT !.pc = "ioctl", !.deadline = deadline, !.upTime = clock,
                              !.remaining = remaining]
      /\ remaining \in Nsec /\ remaining = Remaining(deadline, clock)
  BY <1>2, <1>3
<1> HIDE DEF remaining
<1>5. WinTypeOK'
  BY <1>1, <1>2, <1>4, LoopStep DEF WinInv, WinTypeOK
<1>6. /\ loop'.pc = "ioctl" /\ loop'.upTime = clock
      /\ loop'.deadline = deadline /\ loop'.remaining = remaining
  BY <1>4 DEF WinInv, WinTypeOK
<1>7. loop'.remaining = Remaining(loop.deadline, loop.upTime)'
  BY <1>2, <1>4, <1>6 DEF Remaining
<1>8. LoopFits'
  <2>1. clock <= clock
    BY <1>1, WinNumbers
  <2> QED
    BY <1>2, <1>6, <1>7, <2>1 DEF LoopFits, Asleep
<1> QED
  BY <1>2, <1>5, <1>8 DEF WinInv

LEMMA ReceiveEnterStep == ASSUME WinInv, ReceiveEnter PROVE WinInv'
<1>1. /\ loop.remaining \in Nsec /\ clock \in 0 .. ClockMax /\ loop.pc = "ioctl"
      /\ loop.upTime <= clock /\ loop.remaining = Remaining(loop.deadline, loop.upTime)
  BY DEF WinInv, WinTypeOK, LoopFits, Asleep, ReceiveEnter
<1> DEFINE wake == IF loop.remaining = NEVER THEN NEVER ELSE (loop.remaining + clock) % NsecSize
<1>2. wake \in Nsec
  <2>1. (loop.remaining + clock) % NsecSize \in Nsec
    BY <1>1, WinNumbers, ModOnce DEF Nsec
  <2> QED
    BY <2>1, WinNumbers
<1>3. /\ loop' = [loop EXCEPT !.pc = "blocked", !.entered = clock, !.wake = wake]
      /\ UNCHANGED <<clock, queued, timerDeadline, widgets>>
  BY DEF ReceiveEnter
<1>4. /\ loop'.pc = "blocked" /\ loop'.upTime = loop.upTime /\ loop'.deadline = loop.deadline
      /\ loop'.remaining = loop.remaining /\ loop'.entered = clock
      /\ loop'.wake = IF loop'.remaining = NEVER THEN NEVER
                      ELSE (loop'.remaining + loop'.entered) % NsecSize
  BY <1>3 DEF WinInv, WinTypeOK
<1> HIDE DEF wake
<1>5. WinTypeOK'
  BY <1>1, <1>2, <1>3, LoopStep DEF WinInv, WinTypeOK
<1>6. Remaining(loop.deadline, loop.upTime)' = Remaining(loop.deadline, loop.upTime)
  BY <1>3, <1>4 DEF Remaining
<1>7. LoopFits'
  BY <1>1, <1>3, <1>4, <1>6 DEF LoopFits, Asleep, NEVER
<1> QED
  BY <1>3, <1>5, <1>7 DEF WinInv

\* Back in the program
LEMMA OutStep ==
    ASSUME WinInv, loop' = InLoop("run"), queued' \in 0 .. QueueMax, timerDeadline' \in Nsec,
           UNCHANGED <<clock, widgets>>
    PROVE  WinInv'
<1>1. InLoop("run") \in [pc: {"run", "ioctl", "blocked", "back", "proc"},
                         deadline: Nsec, upTime: 0 .. ClockMax, remaining: Nsec,
                         entered: 0 .. ClockMax, wake: Nsec]
  BY WinNumbers DEF InLoop
<1>2. WinTypeOK'
  BY <1>1, LoopStep DEF WinInv, WinTypeOK
<1>3. loop'.pc = "run"
  BY DEF InLoop
<1>4. LoopFits'
  BY <1>3 DEF LoopFits, Asleep
<1> QED
  BY <1>2, <1>4 DEF WinInv

LEMMA ReceiveMessageStep == ASSUME WinInv, ReceiveMessage PROVE WinInv'
<1>1. queued' \in 0 .. QueueMax
  BY WinAssumption DEF ReceiveMessage, WinInv, WinTypeOK
<1> QED
  BY <1>1, OutStep DEF ReceiveMessage, WinInv, WinTypeOK

LEMMA ReceiveNoneStep == ASSUME WinInv, ReceiveNone PROVE WinInv'
<1>1. loop' = [loop EXCEPT !.pc = "back"] /\ UNCHANGED <<clock, queued, timerDeadline, widgets>>
  BY DEF ReceiveNone
<1>2. WinTypeOK'
  BY <1>1, LoopStep DEF WinInv, WinTypeOK
<1>3. /\ loop'.pc = "back" /\ loop'.upTime = loop.upTime /\ loop'.deadline = loop.deadline
      /\ loop'.remaining = loop.remaining
  BY <1>1 DEF WinInv, WinTypeOK
<1>4. Remaining(loop.deadline, loop.upTime)' = Remaining(loop.deadline, loop.upTime)
  BY <1>1, <1>3 DEF Remaining
<1>5. LoopFits'
  BY <1>1, <1>3, <1>4 DEF WinInv, LoopFits, Asleep, ReceiveNone
<1> QED
  BY <1>1, <1>2, <1>5 DEF WinInv

LEMMA ReceiveBackStep == ASSUME WinInv, ReceiveBack PROVE WinInv'
<1>1. /\ clock \in 0 .. ClockMax /\ timerDeadline \in Nsec /\ loop.deadline \in Nsec
      /\ queued \in 0 .. QueueMax
  BY DEF WinInv, WinTypeOK
<1>2. CASE timerDeadline <= clock
  BY <1>1, <1>2, OutStep, WinNumbers DEF ReceiveBack
<1>3. CASE timerDeadline > clock /\ loop.deadline < clock
  <2>1. ~(timerDeadline <= clock)
    BY <1>1, <1>3, WinNumbers DEF Nsec
  <2> QED
    BY <1>1, <1>3, <2>1, OutStep DEF ReceiveBack
<1>4. CASE ~(timerDeadline <= clock) /\ ~(timerDeadline > clock /\ loop.deadline < clock)
  <2> DEFINE remaining == Remaining(loop.deadline, clock)
  <2>1. /\ loop' = [loop EXCEPT !.pc = "ioctl", !.upTime = clock, !.remaining = remaining]
        /\ UNCHANGED <<clock, queued, timerDeadline, widgets>>
    BY <1>4 DEF ReceiveBack
  <2>2. remaining \in Nsec
    BY <1>1, RemainingType
  <2>3. loop'.deadline = loop.deadline /\ loop'.upTime = clock /\ loop'.pc = "ioctl"
        /\ loop'.remaining = remaining
    BY <2>1 DEF WinInv, WinTypeOK
  <2>4. loop'.remaining = Remaining(loop.deadline, loop.upTime)'
    BY <2>1, <2>3 DEF Remaining
  <2> HIDE DEF remaining
  <2>5. WinTypeOK'
    BY <1>1, <2>1, <2>2, LoopStep DEF WinInv, WinTypeOK
  <2>6. clock <= clock
    BY <1>1, WinNumbers
  <2>7. LoopFits'
    BY <2>1, <2>3, <2>4, <2>6 DEF LoopFits, Asleep
  <2> QED
    BY <2>1, <2>5, <2>7 DEF WinInv
<1> QED
  BY <1>2, <1>3, <1>4

LEMMA WinDispatchStep == ASSUME WinInv, NEW all \in BOOLEAN, WinDispatch(all) PROVE WinInv'
<1>1. WidgetsFit(widgets)
  BY DEF WinInv
<1>2. /\ DOMAIN widgets = 1 .. Len(widgets)
      /\ \A j \in 1 .. Len(widgets) : widgets[j] \in Widget /\ RingFits(widgets[j])
  BY <1>1, WidgetsType DEF WidgetsFit
<1>3. WidgetsFit(widgets')
  <2>1. CASE all
    <3>1. widgets' = [i \in DOMAIN widgets |-> WidgetSent(widgets[i])]
      BY <2>1 DEF WinDispatch
    <3>2. /\ DOMAIN widgets' = DOMAIN widgets /\ widgets' = [j \in DOMAIN widgets' |-> widgets'[j]]
          /\ \A j \in 1 .. Len(widgets) : widgets'[j] = WidgetSent(widgets[j])
      BY <1>2, <3>1
    <3>3. \A j \in 1 .. Len(widgets) :
              widgets'[j] \in Widget /\ widgets'[j].id = widgets[j].id /\ RingFits(widgets'[j])
      BY <1>2, <3>2, SentFits
    <3> QED
      BY <1>1, <3>2, <3>3, SameIds
  <2>2. CASE ~all
    BY <1>1, <2>2 DEF WinDispatch
  <2> QED
    BY <2>1, <2>2
<1>4. loop' = [loop EXCEPT !.pc = "proc"] /\ UNCHANGED <<clock, queued, timerDeadline>>
  BY DEF WinDispatch
<1>5. WinTypeOK'
  BY <1>3, <1>4, LoopStep DEF WinInv, WinTypeOK
<1>6. loop'.pc = "proc"
  BY <1>4 DEF WinInv, WinTypeOK
<1>7. LoopFits'
  BY <1>6 DEF LoopFits, Asleep
<1> QED
  BY <1>3, <1>5, <1>7 DEF WinInv

LEMMA DispatchWidgetsStep == ASSUME WinInv, DispatchWidgets PROVE WinInv'
<1>1. WidgetsFit(widgets)
  BY DEF WinInv
<1>2. /\ DOMAIN widgets = 1 .. Len(widgets)
      /\ \A j \in 1 .. Len(widgets) : widgets[j] \in Widget
  BY <1>1, WidgetsType
<1>3. widgets' = [i \in DOMAIN widgets |-> WidgetServed(widgets[i])]
  BY DEF DispatchWidgets
<1>4. /\ DOMAIN widgets' = DOMAIN widgets /\ widgets' = [j \in DOMAIN widgets' |-> widgets'[j]]
      /\ \A j \in 1 .. Len(widgets) : widgets'[j] = WidgetServed(widgets[j])
  BY <1>2, <1>3
<1>5. \A j \in 1 .. Len(widgets) :
          widgets'[j] \in Widget /\ widgets'[j].id = widgets[j].id /\ RingFits(widgets'[j])
  BY <1>2, <1>4, ServedFits
<1>6. WidgetsFit(widgets')
  BY <1>1, <1>4, <1>5, SameIds
<1>7. loop' = [loop EXCEPT !.pc = "run"] /\ UNCHANGED <<clock, queued, timerDeadline>>
  BY DEF DispatchWidgets
<1>8. WinTypeOK'
  BY <1>6, <1>7, LoopStep DEF WinInv, WinTypeOK
<1>9. loop'.pc = "run"
  BY <1>7 DEF WinInv, WinTypeOK
<1>10. LoopFits'
  BY <1>9 DEF LoopFits, Asleep
<1> QED
  BY <1>6, <1>8, <1>10 DEF WinInv

\* Time passes, or a message arrives.
LEMMA OutsideStep == ASSUME WinInv, ClockTick \/ MessageArrives PROVE WinInv'
<1>1. /\ clock' \in 0 .. ClockMax /\ clock <= clock' /\ queued' \in 0 .. QueueMax
      /\ UNCHANGED <<loop, timerDeadline, widgets>>
  BY WinAssumption DEF ClockTick, MessageArrives, WinInv, WinTypeOK
<1>2. WinTypeOK'
  BY <1>1, LoopStep DEF WinInv, WinTypeOK
<1>3. Remaining(loop.deadline, loop.upTime)' = Remaining(loop.deadline, loop.upTime)
  BY <1>1 DEF Remaining
<1>4. Asleep => loop.upTime <= clock'
  <2>1. loop.upTime \in Int /\ clock \in Int /\ clock' \in Int
    BY <1>1, WinNumbers DEF WinInv, WinTypeOK
  <2> QED
    BY <1>1, <2>1 DEF WinInv, LoopFits
<1>5. LoopFits'
  BY <1>1, <1>3, <1>4 DEF WinInv, LoopFits, Asleep
<1> QED
  BY <1>1, <1>2, <1>5 DEF WinInv

LEMMA WinInitInv == WinInit => WinInv
<1> SUFFICES ASSUME WinInit PROVE WinInv
  OBVIOUS
<1>1. loop.pc = "run" /\ clock = 0 /\ queued = 0 /\ timerDeadline = NEVER /\ widgets = <<>>
  BY DEF WinInit, InLoop
<1>2. loop \in [pc: {"run", "ioctl", "blocked", "back", "proc"},
                deadline: Nsec, upTime: 0 .. ClockMax, remaining: Nsec,
                entered: 0 .. ClockMax, wake: Nsec]
  BY WinNumbers DEF WinInit, InLoop
<1>3. 0 \in 0 .. QueueMax
  BY WinAssumption
<1>4. WidgetsFit(widgets)
  <2>1. <<>> \in Seq(Widget) /\ Len(<<>>) = 0 /\ \A i \in 1 .. 0 : FALSE
    OBVIOUS
  <2> QED
    BY <1>1, <2>1 DEF WidgetsFit, InOrderOfId
<1>5. WinTypeOK
  BY <1>1, <1>2, <1>3, <1>4, WinNumbers, WidgetsType DEF WinTypeOK
<1> QED
  BY <1>1, <1>4, <1>5 DEF WinInv, LoopFits, Asleep

LEMMA WinNextInv == WinInv /\ [WinNext]_winVars => WinInv'
<1> SUFFICES ASSUME WinInv, [WinNext]_winVars PROVE WinInv'
  OBVIOUS
<1>1. ASSUME UNCHANGED winVars PROVE WinInv'
  BY <1>1, ListStep DEF winVars, WinInv
<1>2. ASSUME NEW t \in Timeout \cup {NEVER}, TimerSet(t) \/ Receive(t) PROVE WinInv'
  BY <1>2, TimerSetStep, ReceiveStep
<1>3. ASSUME NEW id \in WidgetId, WidgetNew(id) PROVE WinInv'
  BY <1>3, WidgetNewStep
<1>4. ASSUME NEW i \in DOMAIN widgets, WidgetFree(i) \/ WidgetSend(i) PROVE WinInv'
  BY <1>4, WidgetFreeStep, WidgetSendStep
<1>5. ASSUME NEW all \in BOOLEAN, WinDispatch(all) PROVE WinInv'
  BY <1>5, WinDispatchStep
<1>6. ASSUME \/ ReceiveEnter \/ ReceiveMessage \/ ReceiveNone \/ ReceiveBack
             \/ DispatchWidgets \/ ClockTick \/ MessageArrives
      PROVE WinInv'
  BY <1>6, ReceiveEnterStep, ReceiveMessageStep, ReceiveNoneStep, ReceiveBackStep,
     DispatchWidgetsStep, OutsideStep
<1> QED
  BY <1>1, <1>2, <1>3, <1>4, <1>5, <1>6 DEF WinNext

-----------------------------------------------------------------------------
(* What the invariant says *)

LEMMA WinInvWakes == WinInv => TimerWakes
<1> SUFFICES ASSUME WinInv, loop.pc = "blocked", ~OneLate,
                    NEW d \in {loop.deadline, timerDeadline}, d # NEVER
             PROVE  loop.wake <= (IF d > loop.upTime THEN d ELSE loop.upTime) + loop.entered - loop.upTime
  BY DEF TimerWakes
<1> DEFINE next == IF loop.deadline < timerDeadline THEN loop.deadline ELSE timerDeadline
           up == loop.upTime
           entered == loop.entered
           n == NsecSize
           left == loop.remaining
<1>1. n \in Nat /\ n > ClockMax /\ ClockMax \in Nat /\ NEVER = n - 1
  BY WinNumbers DEF NEVER
<1>2. loop.deadline \in 0 .. n - 1 /\ timerDeadline \in 0 .. n - 1
  BY DEF WinInv, WinTypeOK, Nsec
<1>3. up \in 0 .. ClockMax /\ entered \in 0 .. ClockMax /\ up <= entered /\ left \in 0 .. n - 1
  BY DEF WinInv, WinTypeOK, LoopFits, Nsec
<1>4. next \in 0 .. n - 1 /\ next <= d /\ d \in 0 .. n - 1 /\ next # NEVER
  BY <1>1, <1>2
<1>5. left = (next - up) % n /\ next \in {loop.deadline, timerDeadline}
  BY <1>4 DEF WinInv, LoopFits, Asleep, Remaining
<1>6. up # next + 1
  BY <1>4, <1>5 DEF OneLate
<1>7. loop.wake = IF left = NEVER THEN NEVER ELSE (left + entered) % n
  BY DEF WinInv, LoopFits
<1> HIDE DEF next
<1>8. CASE up <= next
  <2>1. left = next - up /\ left # NEVER
    BY <1>1, <1>3, <1>4, <1>5, <1>8, ModOnce
  <2>2. loop.wake \in Int /\ loop.wake <= left + entered
    <3>1. left \in Int /\ entered \in Int /\ left + entered \in 0 .. 2 * n - 1
      BY <1>1, <1>3
    <3>2. loop.wake = (left + entered) % n
      BY <1>7, <2>1
    <3> HIDE DEF n, left, entered
    <3>3. (left + entered) % n \in Int /\ (left + entered) % n <= left + entered
      BY <1>1, <3>1, ModOnce
    <3> QED
      BY <3>2, <3>3
  <2> HIDE DEF up, entered, n, left
  <2>3. loop.wake <= d + entered - up /\ (d > up \/ d = up)
    BY <1>1, <1>3, <1>4, <1>8, <2>1, <2>2
  <2> QED
    BY <1>1, <1>3, <1>4, <2>3 DEF up, entered
<1>9. CASE next < up
  <2>1. left = (next - up) + n /\ left # NEVER
    BY <1>1, <1>3, <1>4, <1>5, <1>6, <1>9, ModOnce
  <2>2. loop.wake = (next - up) + entered
    <3>1. left + entered \in n .. 2 * n - 1
      BY <1>1, <1>3, <1>4, <1>9, <2>1
    <3>2. loop.wake = (left + entered) % n
      BY <1>7, <2>1
    <3>3. left + entered \in Int /\ (left + entered) - n = (next - up) + entered
      BY <1>1, <1>3, <1>4, <2>1
    <3> HIDE DEF n, left, entered, up
    <3>4. (left + entered) % n = (left + entered) - n
      BY <1>1, <3>1, <3>3, ModOnce
    <3> QED
      BY <3>2, <3>3, <3>4
  <2> QED
    BY <1>1, <1>3, <1>4, <1>9, <2>2
<1> QED
  BY <1>1, <1>3, <1>4, <1>8, <1>9

LEMMA WinInvServed == WinInv => WidgetsServed
<1> SUFFICES ASSUME WinInv PROVE WidgetsServed
  OBVIOUS
<1>1. /\ DOMAIN widgets = 1 .. Len(widgets) /\ Len(widgets) \in Nat
      /\ \A i \in 1 .. Len(widgets) : widgets[i] \in Widget /\ widgets[i].id \in Nat
  BY WidgetsType, WinAssumption DEF WinInv, Widget
<1>2. ASSUME NEW i \in 1 .. Len(widgets), NEW j \in 1 .. Len(widgets), i < j
      PROVE widgets[i].id < widgets[j].id
  BY <1>2 DEF WinInv, WidgetsFit, InOrderOfId
<1>3. WidgetsFound
  <2> SUFFICES ASSUME NEW i \in 1 .. Len(widgets), NEW j \in 1 .. Len(widgets)
               PROVE  /\ WidgetFind(widgets, widgets[i].id)
                      /\ widgets[i].id = widgets[j].id => i = j
    BY <1>1 DEF WidgetsFound
  <2>1. \A k \in 1 .. i - 1 : k \in 1 .. Len(widgets) /\ k < i
    BY <1>1
  <2>2. WidgetFind(widgets, widgets[i].id)
    BY <1>1, <1>2, <2>1 DEF WidgetFind
  <2>3. i = j \/ i < j \/ j < i
    BY <1>1
  <2> QED
    BY <1>1, <1>2, <2>2, <2>3
<1>4. WidgetRingWhole
  BY <1>1 DEF WinInv, WidgetsFit, RingFits, WidgetRingWhole
<1> QED
  BY <1>3, <1>4 DEF WidgetsServed, WinInv

\* A program asleep in win_receive wakes in time for its timer and its timeout,
\* whatever the clock, the timeouts and the size of nsec_t: the value that
\* win_receive passed to the kernel stays the one that the deadlines ask for.
THEOREM WinTimerWakes == WinSpec => []TimerWakes
<1>1. WinInit => WinInv
  BY WinInitInv
<1>2. WinInv /\ [WinNext]_winVars => WinInv'
  BY WinNextInv
<1>3. WinInv => TimerWakes
  BY WinInvWakes
<1> QED
  BY <1>1, <1>2, <1>3, PTL DEF WinSpec

\* The list that win_widget_new keeps in order lets win_widget find every widget,
\* for any number of them, and a ring that was not overrun since win_dispatch
\* holds everything sent to its widget.
THEOREM WinWidgetsServed == WinSpec => []WidgetsServed
<1>1. WinInit => WinInv
  BY WinInitInv
<1>2. WinInv /\ [WinNext]_winVars => WinInv'
  BY WinNextInv
<1>3. WinInv => WidgetsServed
  BY WinInvServed
<1> QED
  BY <1>1, <1>2, <1>3, PTL DEF WinSpec

-----------------------------------------------------------------------------
(* The heap *)

HeapBlock == [at: Nat, size: Nat, reserved: BOOLEAN]

BlockEnd(b) == b.at + 1 + b.size

\* The units a pointer to block b may be used for
Interior(b) == b.at + 1 .. b.at + b.size

\* The blocks of a list follow each other and fill what is mapped up to top.
Tiled(list, top) ==
    /\ list \in Seq(HeapBlock) /\ Len(list) >= 1 /\ list[1].at = 0
    /\ \A i \in 1 .. Len(list) - 1 : list[i + 1].at = BlockEnd(list[i])
    /\ \A i, j \in 1 .. Len(list) : i < j => BlockEnd(list[i]) <= list[j].at
    /\ BlockEnd(list[Len(list)]) = top
    /\ \A i \in 1 .. Len(list) : BlockEnd(list[i]) <= top

\* Block b is what o points to.
Belongs(b, o) == b.at + 1 = o.ptr /\ b.reserved /\ o.size <= b.size

\* The clients of D point to blocks of the list other than k.
OwnersIn(list, k, own, D) ==
    \A d \in D : own[d].ptr # NULL =>
        \E m \in 1 .. Len(list) : m # k /\ Belongs(list[m], own[d])

\* No two clients have the same pointer.
Pointers(own) ==
    /\ \A c, d \in Client : own[c].ptr = own[d].ptr /\ own[c].ptr # NULL => c = d
    /\ \A c \in Client : own[c].ptr = NULL => own[c].size = 0

\* The memory of the clients of D is as they wrote it; headers are headers.
HoldsData(mem, own, D) ==
    \A d \in D : \A u \in own[d].ptr .. own[d].ptr + own[d].size - 1 : mem[u] = d

\* The pointers of D are addresses, and NULL is nobody's memory.
Typed(own, D) ==
    \A d \in D : own[d].ptr \in Int /\ own[d].size \in Nat /\ (own[d].ptr = NULL => own[d].size = 0)

HoldsHeaders(mem, list) == \A m \in 1 .. Len(list) : mem[list[m].at] = "header"

HeapUnits == 0 .. HeapMax - 1
Memory == [HeapUnits -> Client \cup {"header", "none"}]

\* Outside of block b, new is what mem was.
OnlyInside(b, mem, new) == \A u \in HeapUnits : u \notin Interior(b) => new[u] = mem[u]

\* Nobody else's pointer is o's, and all o points to is c's.
Gets(c, o, mem) ==
    /\ \A d \in Client \ {c} : owned[d].ptr # o.ptr
    /\ \A u \in o.ptr .. o.ptr + o.size - 1 : mem[u] = c

HeapInv ==
    /\ newAddress \in 0 .. HeapMax
    /\ memory \in Memory
    /\ owned \in [Client -> [ptr: {NULL} \cup 0 .. HeapMax, size: {0} \cup MallocSize]]
    /\ Tiled(heapBlocks, newAddress)
    /\ OwnersIn(heapBlocks, 0, owned, Client)
    /\ Pointers(owned)
    /\ HoldsData(memory, owned, Client)
    /\ HoldsHeaders(memory, heapBlocks)

\* The types of a block of a tiled list
LEMMA BlockFields ==
    ASSUME NEW top, NEW list, Tiled(list, top), NEW i \in 1 .. Len(list)
    PROVE  /\ list[i] \in HeapBlock /\ list[i].at \in Nat /\ list[i].size \in Nat
           /\ list[i].reserved \in BOOLEAN /\ Len(list) \in Nat
           /\ list \in Seq(HeapBlock)
<1>1. list \in Seq(HeapBlock)
  BY DEF Tiled
<1>2. list[i] \in HeapBlock
  BY <1>1
<1> QED
  BY <1>1, <1>2 DEF HeapBlock

\* No unit belongs to two blocks.
LEMMA BlocksApart ==
    ASSUME NEW top, NEW list, Tiled(list, top),
           NEW i \in 1 .. Len(list), NEW j \in 1 .. Len(list),
           NEW u \in Interior(list[i]), u \in Interior(list[j]) \/ u = list[j].at
    PROVE  i = j /\ u # list[j].at
<1>1. /\ list[i].at \in Nat /\ list[i].size \in Nat
      /\ list[j].at \in Nat /\ list[j].size \in Nat /\ Len(list) \in Nat
  BY BlockFields
<1>2. u \in list[i].at + 1 .. BlockEnd(list[i]) - 1 /\ u \in list[j].at .. BlockEnd(list[j]) - 1
  <2>1. u \in list[i].at + 1 .. list[i].at + list[i].size
    BY DEF Interior
  <2>2. u \in list[j].at .. list[j].at + list[j].size
    BY <1>1 DEF Interior
  <2> QED
    BY <1>1, <2>1, <2>2 DEF BlockEnd
<1>3. CASE i < j
  <2>1. BlockEnd(list[i]) <= list[j].at
    BY <1>3 DEF Tiled
  <2> QED
    BY <1>1, <1>2, <2>1 DEF BlockEnd
<1>4. CASE j < i
  <2>1. BlockEnd(list[j]) <= list[i].at
    BY <1>4 DEF Tiled
  <2> QED
    BY <1>1, <1>2, <2>1 DEF BlockEnd
<1>5. CASE i = j
  BY <1>1, <1>2, <1>5 DEF BlockEnd
<1> QED
  BY <1>1, <1>3, <1>4, <1>5

\* Blocks that are only reserved or freed lie where they lay.
LEMMA SameShape ==
    ASSUME NEW top, NEW list, Tiled(list, top), NEW new \in Seq(HeapBlock), Len(new) = Len(list),
           \A i \in 1 .. Len(list) : new[i].at = list[i].at /\ new[i].size = list[i].size
    PROVE  Tiled(new, top)
<1>1. Len(list) \in Nat /\ Len(list) >= 1
  BY DEF Tiled
<1>2. \A i \in 1 .. Len(list) : BlockEnd(new[i]) = BlockEnd(list[i]) /\ new[i].at = list[i].at
  BY DEF BlockEnd
<1> HIDE DEF BlockEnd
<1>3. new[1].at = 0 /\ BlockEnd(new[Len(new)]) = top
  BY <1>1, <1>2 DEF Tiled
<1>4. ASSUME NEW i \in 1 .. Len(new) - 1 PROVE new[i + 1].at = BlockEnd(new[i])
  <2>1. i \in 1 .. Len(list) /\ i + 1 \in 1 .. Len(list)
    BY <1>1
  <2>2. list[i + 1].at = BlockEnd(list[i])
    BY DEF Tiled
  <2> QED
    BY <1>2, <2>1, <2>2
<1>5. \A i, j \in 1 .. Len(new) : i < j => BlockEnd(new[i]) <= new[j].at
  BY <1>2 DEF Tiled
<1>6. \A i \in 1 .. Len(new) : BlockEnd(new[i]) <= top
  BY <1>2 DEF Tiled
<1> QED
  BY <1>1, <1>3, <1>4, <1>5, <1>6 DEF Tiled

\* _HeapBlockSplit keeps the list tiled: the new block begins where the old
\* one now ends and ends where it ended.
IsSplit(list, k, size, new) ==
    /\ new \in Seq(HeapBlock) /\ Len(new) = Len(list) + 1
    /\ \A j \in 1 .. Len(list) : j < k => new[j] = list[j]
    /\ new[k] = [at |-> list[k].at, size |-> size, reserved |-> list[k].reserved]
    /\ new[k + 1] = [at |-> list[k].at + 1 + size, size |-> list[k].size - 1 - size, reserved |-> FALSE]
    /\ \A j \in 1 .. Len(list) : j > k => new[j + 1] = list[j]

\* What InsertAt makes of the list
LEMMA SplitIs ==
    ASSUME NEW top, NEW list, Tiled(list, top), NEW k \in 1 .. Len(list),
           NEW size \in Nat, list[k].size > size
    PROVE  IsSplit(list, k, size, BlockSplit(list, k, size))
<1>1. /\ list \in Seq(HeapBlock) /\ list[k] \in HeapBlock
      /\ list[k].at \in Nat /\ list[k].size \in Nat /\ list[k].reserved \in BOOLEAN
  BY BlockFields
<1> SUFFICES ASSUME NEW e, e = [at |-> list[k].at + 1 + size, size |-> list[k].size - 1 - size,
                                 reserved |-> FALSE],
                    NEW s, s = [list EXCEPT ![k].size = size]
             PROVE  IsSplit(list, k, size, InsertAt(s, k + 1, e))
  BY DEF BlockSplit
<1>2. e \in HeapBlock
  BY <1>1 DEF HeapBlock
<1>3. s[k] = [at |-> list[k].at, size |-> size, reserved |-> list[k].reserved]
  <2>1. s[k] = [list[k] EXCEPT !.size = size]
    BY <1>1
  <2> QED
    BY <1>1, <2>1 DEF HeapBlock
<1>4. s[k] \in HeapBlock
  BY <1>1, <1>3 DEF HeapBlock
<1>5. s \in Seq(HeapBlock) /\ Len(s) = Len(list) /\ \A j \in 1 .. Len(list) : j # k => s[j] = list[j]
  <2>1. DOMAIN s = 1 .. Len(list) /\ \A j \in 1 .. Len(list) : j # k => s[j] = list[j]
    BY <1>1
  <2>2. \A j \in 1 .. Len(list) : s[j] \in HeapBlock
    BY <1>1, <1>4, <2>1
  <2>3. s \in [1 .. Len(list) -> HeapBlock]
    BY <1>1, <2>1, <2>2
  <2> QED
    BY <1>1, <2>1, <2>3
<1>6. PICK new : new = InsertAt(s, k + 1, e)
  OBVIOUS
<1>7. k \in Nat /\ Len(list) \in Nat /\ k + 1 \in 1 .. Len(s) + 1
  BY <1>1, <1>5
<1>8. Widened(HeapBlock, s, new, k + 1, e)
  BY <1>2, <1>5, <1>6, <1>7, InsertAtInserts
<1>9. new \in Seq(HeapBlock) /\ Len(new) = Len(list) + 1 /\ new[k + 1] = e /\ new[k] = s[k]
  <2>1. k \in 1 .. (k + 1) - 1
    BY <1>7
  <2> QED
    BY <1>5, <1>8, <2>1 DEF Widened
<1>10. \A j \in 1 .. Len(list) : j < k => new[j] = list[j]
  BY <1>5, <1>7, <1>8 DEF Widened
<1>11. ASSUME NEW j \in 1 .. Len(list), j > k PROVE new[j + 1] = list[j]
  <2>1. j + 1 \in k + 1 + 1 .. Len(s) + 1 /\ j + 1 - 1 = j /\ s[j] = list[j]
    BY <1>5, <1>7, <1>11
  <2> QED
    BY <1>8, <2>1 DEF Widened
<1>12. IsSplit(list, k, size, new)
  BY <1>3, <1>9, <1>10, <1>11 DEF IsSplit
<1> QED
  BY <1>6, <1>12

\* The halves of a split block fill what it filled.
LEMMA SplitTiled ==
    ASSUME NEW top, NEW list, Tiled(list, top), NEW k \in 1 .. Len(list),
           NEW size \in Nat, list[k].size > size, NEW new, IsSplit(list, k, size, new)
    PROVE  Tiled(new, top)
<1>1. /\ list[k].at \in Nat /\ list[k].size \in Nat /\ Len(list) \in Nat /\ k \in Nat
  BY BlockFields
<1>2. /\ new[k].at = list[k].at /\ BlockEnd(new[k]) = new[k + 1].at
      /\ new[k + 1].at = list[k].at + 1 + size /\ BlockEnd(new[k + 1]) = BlockEnd(list[k])
      /\ new[k + 1].at < BlockEnd(list[k]) /\ BlockEnd(list[k]) \in Nat
  <2>1. new[k].at = list[k].at /\ new[k].size = size
    BY DEF IsSplit
  <2>2. new[k + 1].at = list[k].at + 1 + size /\ new[k + 1].size = list[k].size - 1 - size
    BY DEF IsSplit
  <2> QED
    BY <1>1, <2>1, <2>2, SMTT(30) DEF BlockEnd
\* where a block of the new list comes from
<1> DEFINE src(j) == IF j <= k THEN j ELSE j - 1
<1>3. ASSUME NEW j \in 1 .. Len(new)
      PROVE  /\ src(j) \in 1 .. Len(list) /\ new[j].at \in Nat /\ BlockEnd(new[j]) \in Nat
             /\ list[src(j)].at <= new[j].at /\ BlockEnd(new[j]) <= BlockEnd(list[src(j)])
             /\ (j # k + 1 => new[j].at = list[src(j)].at)
             /\ (j # k => BlockEnd(new[j]) = BlockEnd(list[src(j)]))
             /\ list[src(j)].at \in Nat /\ BlockEnd(list[src(j)]) \in Nat
  <2>1. src(j) \in 1 .. Len(list) /\ Len(new) = Len(list) + 1
    BY <1>1 DEF IsSplit
  <2>2. list[src(j)].at \in Nat /\ list[src(j)].size \in Nat
    BY <2>1, BlockFields
  <2>3. CASE j < k
    <3>1. new[j] = list[j] /\ src(j) = j
      BY <1>1, <2>1, <2>3 DEF IsSplit
    <3> QED
      BY <1>1, <2>1, <2>2, <2>3, <3>1, SMTT(30) DEF BlockEnd
  <2>4. CASE j > k + 1
    <3>1. src(j) = j - 1 /\ j - 1 > k /\ j - 1 \in 1 .. Len(list) /\ (j - 1) + 1 = j
      BY <1>1, <2>1, <2>4
    <3>2. new[j] = list[j - 1]
      BY <3>1 DEF IsSplit
    <3> QED
      BY <1>1, <2>1, <2>2, <2>4, <3>1, <3>2, SMTT(30) DEF BlockEnd
  <2>5. CASE j = k
    BY <1>1, <1>2, <2>1, <2>2, <2>5
  <2>6. CASE j = k + 1
    BY <1>1, <1>2, <2>1, <2>2, <2>6
  <2> QED
    BY <1>1, <2>3, <2>4, <2>5, <2>6
<1> HIDE DEF src
<1>4. new \in Seq(HeapBlock) /\ Len(new) = Len(list) + 1 /\ Len(new) \in Nat /\ Len(new) >= 1
  BY <1>1 DEF IsSplit
<1>5. new[1].at = 0
  <2>1. src(1) = 1 /\ 1 \in 1 .. Len(new) /\ 1 # k + 1
    BY <1>1, <1>4 DEF src
  <2> QED
    BY <1>3, <2>1 DEF Tiled
<1>6. ASSUME NEW i \in 1 .. Len(new), NEW j \in 1 .. Len(new), i < j
      PROVE  BlockEnd(new[i]) <= new[j].at
  <2>1. CASE src(i) < src(j)
    <3>1. BlockEnd(list[src(i)]) <= list[src(j)].at
      BY <1>3, <2>1 DEF Tiled
    <3> QED
      BY <1>3, <3>1, SMTT(30)
  <2>2. CASE ~(src(i) < src(j))
    <3>1. i = k /\ j = k + 1
      BY <1>1, <1>4, <1>6, <2>2 DEF src
    <3>2. BlockEnd(new[i]) \in Nat /\ BlockEnd(new[i]) = new[j].at
      BY <1>2, <1>3, <3>1
    <3> QED
      BY <3>2
  <2> QED
    BY <2>1, <2>2
<1>7. ASSUME NEW i \in 1 .. Len(new) - 1 PROVE new[i + 1].at = BlockEnd(new[i])
  <2>1. CASE i = k
    BY <1>2, <2>1
  <2>2. CASE i # k
    <3>1. /\ i \in 1 .. Len(new) /\ i + 1 \in 1 .. Len(new) /\ i + 1 # k + 1
          /\ src(i) \in 1 .. Len(list) - 1 /\ src(i + 1) = src(i) + 1
      BY <1>1, <1>4, <2>2 DEF src
    <3>2. list[src(i) + 1].at = BlockEnd(list[src(i)])
      BY <3>1 DEF Tiled
    <3>3. new[i + 1].at = list[src(i + 1)].at
      BY <1>3, <3>1
    <3>4. BlockEnd(new[i]) = BlockEnd(list[src(i)])
      BY <1>3, <2>2, <3>1
    <3> QED
      BY <3>1, <3>2, <3>3, <3>4
  <2> QED
    BY <2>1, <2>2
<1>8. ASSUME NEW i \in 1 .. Len(new) PROVE BlockEnd(new[i]) <= top
  <2>1. BlockEnd(list[src(i)]) <= top
    BY <1>3 DEF Tiled
  <2>2. top = BlockEnd(list[Len(list)]) /\ Len(list) \in 1 .. Len(list)
    BY <1>1 DEF Tiled
  <2>3. top \in Nat
    BY <2>2, BlockFields, SMTT(30) DEF BlockEnd
  <2> QED
    BY <1>3, <2>1, <2>3
<1>9. BlockEnd(new[Len(new)]) = top
  <2>1. Len(new) \in 1 .. Len(new) /\ Len(new) # k /\ src(Len(new)) = Len(list)
    BY <1>1, <1>4 DEF src
  <2> QED
    BY <1>3, <2>1 DEF Tiled
<1> QED
  BY <1>4, <1>5, <1>6, <1>7, <1>8, <1>9 DEF Tiled

\* Block k is reserved, and large enough; the others are where they were.
Reserved(list, k, size, top, new) ==
    /\ Tiled(new, top)
    /\ k \in 1 .. Len(new) /\ new[k].reserved /\ new[k].size >= size
    /\ \A j \in 1 .. Len(list) : j # k => \E m \in 1 .. Len(new) : m # k /\ new[m] = list[j]

\* A block is taken as it is or cut in two.
LEMMA ReserveTiled ==
    ASSUME NEW top, NEW list, Tiled(list, top), NEW k \in 1 .. Len(list),
           NEW size \in Nat, list[k].size >= size
    PROVE  Reserved(list, k, size, top, BlockReserve(list, k, size))
<1>1. /\ list[k].at \in Nat /\ list[k].size \in Nat /\ Len(list) \in Nat /\ k \in Nat
      /\ list \in Seq(HeapBlock)
  BY BlockFields
<1>2. PICK cut : cut = IF SplitRoom(list[k], size) THEN BlockSplit(list, k, size) ELSE list
  OBVIOUS
<1>3. /\ Tiled(cut, top) /\ k \in 1 .. Len(cut) /\ cut[k].size >= size
      /\ \A j \in 1 .. Len(list) : j # k => \E m \in 1 .. Len(cut) : m # k /\ cut[m] = list[j]
  <2>1. CASE SplitRoom(list[k], size)
    <3>1. list[k].size > size
      BY <1>1, <2>1 DEF SplitRoom
    <3>2. IsSplit(list, k, size, cut)
      BY <1>2, <2>1, <3>1, SplitIs
    <3>3. Tiled(cut, top)
      BY <3>1, <3>2, SplitTiled
    <3>4. Len(cut) = Len(list) + 1 /\ cut[k].size = size
      BY <3>2 DEF IsSplit
    <3>5. ASSUME NEW j \in 1 .. Len(list), j # k PROVE \E m \in 1 .. Len(cut) : m # k /\ cut[m] = list[j]
      <4>1. CASE j < k
        <5>1. j \in 1 .. Len(cut) /\ j # k /\ cut[j] = list[j]
          BY <1>1, <3>2, <3>4, <4>1 DEF IsSplit
        <5> QED
          BY <5>1
      <4>2. CASE j > k
        <5>1. j + 1 \in 1 .. Len(cut) /\ j + 1 # k /\ cut[j + 1] = list[j]
          BY <1>1, <3>2, <3>4, <4>2 DEF IsSplit
        <5> QED
          BY <5>1
      <4> QED
        BY <1>1, <3>5, <4>1, <4>2
    <3> QED
      BY <1>1, <3>3, <3>4, <3>5
  <2>2. CASE ~ SplitRoom(list[k], size)
    BY <1>1, <1>2, <2>2
  <2> QED
    BY <2>1, <2>2
<1>4. PICK new : new = [cut EXCEPT ![k].reserved = TRUE]
  OBVIOUS
<1>5. new = BlockReserve(list, k, size)
  BY <1>2, <1>4 DEF BlockReserve
<1>6. cut \in Seq(HeapBlock) /\ cut[k] \in HeapBlock /\ Len(cut) \in Nat
  BY <1>3, BlockFields
<1>7. new[k] = [cut[k] EXCEPT !.reserved = TRUE] /\ DOMAIN new = 1 .. Len(cut)
  <2>1. k \in 1 .. Len(cut)
    BY <1>3
  <2>2. k \in DOMAIN cut /\ DOMAIN cut = 1 .. Len(cut)
    BY <1>6, <2>1
  <2> QED
    BY <1>4, <2>2
<1>8. /\ new[k] \in HeapBlock /\ new[k].reserved = TRUE
      /\ new[k].at = cut[k].at /\ new[k].size = cut[k].size
  BY <1>6, <1>7 DEF HeapBlock
<1>9. \A j \in 1 .. Len(cut) : j # k => new[j] = cut[j]
  BY <1>3, <1>4, <1>6
<1>10. new \in Seq(HeapBlock) /\ Len(new) = Len(cut)
  <2>1. \A j \in 1 .. Len(cut) : new[j] \in HeapBlock
    BY <1>6, <1>8, <1>9
  <2>2. new \in [1 .. Len(cut) -> HeapBlock]
    BY <1>4, <1>6, <1>7, <2>1
  <2> QED
    BY <1>6, <2>2
<1>11. Tiled(new, top)
  BY <1>3, <1>8, <1>9, <1>10, SameShape
<1>12. \A j \in 1 .. Len(list) : j # k => \E m \in 1 .. Len(new) : m # k /\ new[m] = list[j]
  BY <1>3, <1>9, <1>10
<1>13. k \in 1 .. Len(new) /\ new[k].reserved /\ new[k].size >= size
  BY <1>3, <1>8, <1>10
<1>14. Reserved(list, k, size, top, new)
  BY <1>11, <1>12, <1>13 DEF Reserved
<1> QED
  BY <1>5, <1>14

\* A block behind the last one
LEMMA AppendTiled ==
    ASSUME NEW top, NEW list, Tiled(list, top), NEW b \in HeapBlock, b.at = top
    PROVE  Tiled(Append(list, b), BlockEnd(b))
<1>1. list \in Seq(HeapBlock) /\ Len(list) \in Nat /\ Len(list) >= 1
  BY DEF Tiled
<1>2. PICK new : new = Append(list, b)
  OBVIOUS
<1>3. /\ new \in Seq(HeapBlock) /\ Len(new) = Len(list) + 1
      /\ \A i \in 1 .. Len(list) : new[i] = list[i]
      /\ new[Len(list) + 1] = b
  BY <1>1, <1>2
<1>4. b.at \in Nat /\ b.size \in Nat /\ BlockEnd(b) \in Nat /\ BlockEnd(b) > b.at
  BY DEF HeapBlock, BlockEnd
<1>5. \A i \in 1 .. Len(list) : BlockEnd(list[i]) <= b.at /\ BlockEnd(list[i]) \in Nat
  <2> TAKE i \in 1 .. Len(list)
  <2>1. list[i].at \in Nat /\ list[i].size \in Nat
    BY BlockFields
  <2> QED
    BY <2>1 DEF Tiled, BlockEnd
<1>6. ASSUME NEW i \in 1 .. Len(new) - 1 PROVE new[i + 1].at = BlockEnd(new[i])
  <2>1. CASE i = Len(list)
    <3>1. new[i + 1] = b /\ new[i] = list[Len(list)]
      BY <1>1, <1>3, <2>1
    <3> QED
      BY <3>1 DEF Tiled
  <2>2. CASE i # Len(list)
    <3>1. i \in 1 .. Len(list) - 1 /\ i \in 1 .. Len(list) /\ i + 1 \in 1 .. Len(list)
      BY <1>1, <1>3, <2>2
    <3>2. list[i + 1].at = BlockEnd(list[i])
      BY <3>1 DEF Tiled
    <3> QED
      BY <1>3, <3>1, <3>2
  <2> QED
    BY <2>1, <2>2
<1>7. ASSUME NEW i \in 1 .. Len(new), NEW j \in 1 .. Len(new), i < j
      PROVE  BlockEnd(new[i]) <= new[j].at
  <2>1. i \in 1 .. Len(list) /\ new[i] = list[i]
    BY <1>1, <1>3, <1>7
  <2>2. CASE j = Len(list) + 1
    BY <1>3, <1>5, <2>1, <2>2
  <2>3. CASE j # Len(list) + 1
    <3>1. j \in 1 .. Len(list) /\ new[j] = list[j]
      BY <1>1, <1>3, <2>3
    <3> QED
      BY <1>7, <2>1, <3>1 DEF Tiled
  <2> QED
    BY <2>2, <2>3
<1>8. ASSUME NEW i \in 1 .. Len(new) PROVE BlockEnd(new[i]) <= BlockEnd(b)
  <2>1. CASE i = Len(list) + 1
    BY <1>3, <1>4, <2>1
  <2>2. CASE i # Len(list) + 1
    <3>1. i \in 1 .. Len(list) /\ new[i] = list[i]
      BY <1>1, <1>3, <2>2
    <3> QED
      BY <1>4, <1>5, <3>1
  <2> QED
    BY <2>1, <2>2
<1>9. new[1].at = 0 /\ BlockEnd(new[Len(new)]) = BlockEnd(b) /\ Len(new) >= 1
  <2>1. 1 \in 1 .. Len(list)
    BY <1>1
  <2>2. new[1] = list[1]
    BY <1>3, <2>1
  <2> QED
    BY <1>1, <1>3, <2>2 DEF Tiled
<1>10. Tiled(new, BlockEnd(b))
  BY <1>3, <1>6, <1>7, <1>8, <1>9 DEF Tiled
<1> QED
  BY <1>2, <1>10

\* The pages of _HeapBlockNew have room for the block and its header.
LEMMA PagesRoom ==
    ASSUME NEW size \in Nat
    PROVE  PagesFor(size) \in Nat /\ PagesFor(size) - 1 >= size
<1>1. PICK p \in Nat : p = HeapPage /\ p > 0
  BY HeapAssumption
<1>2. PICK q : q = (size + 1 + p - 1) \div p
  OBVIOUS
<1>3. size + 1 + p - 1 = size + p
  BY <1>1
<1>4. q \in Int /\ p * q <= size + p /\ size + p < p * q + p /\ q * p = p * q
  BY <1>1, <1>2, <1>3
<1>5. q * p \in Int
  BY <1>1, <1>4
<1>6. PagesFor(size) = q * p
  BY <1>1, <1>2 DEF PagesFor
<1> QED
  BY <1>1, <1>4, <1>5, <1>6

\* What malloc_unlocked did to the list: block k is the caller's, the others
\* that were reserved are still there, and all lies side by side.
Taken(new, k, size) ==
    /\ Tiled(new, Grown(new))
    /\ k \in 1 .. Len(new) /\ new[k].reserved /\ new[k].size >= size
    /\ \A j \in 1 .. Len(heapBlocks) : heapBlocks[j].reserved =>
        \E m \in 1 .. Len(new) : m # k /\ new[m] = heapBlocks[j]

\* malloc_unlocked takes the first block that fits, or a new one at the end.
LEMMA MallocTakes ==
    ASSUME HeapInv, NEW size \in Nat
    PROVE  Taken(MallocUnlocked(size).list, MallocUnlocked(size).index, size)
<1> DEFINE found == {i \in DOMAIN heapBlocks : BlockFits(heapBlocks[i], size)}
<1>0. /\ Tiled(heapBlocks, newAddress) /\ heapBlocks \in Seq(HeapBlock) /\ newAddress \in Nat
      /\ Len(heapBlocks) \in Nat /\ Len(heapBlocks) >= 1 /\ DOMAIN heapBlocks = 1 .. Len(heapBlocks)
  BY DEF HeapInv, Tiled
<1>1. CASE found # {}
  <2>1. found \subseteq Nat
    BY <1>0
  <2> HIDE DEF found
  <2>2. PICK d \in found : \A e \in found : ~(<<e, d>> \in OpToRel(<, Nat))
    BY <1>1, <2>1, NatLessThanWellFounded, WFMin, Zenon
  <2>3. ASSUME NEW e \in found PROVE d <= e
    <3>1. d \in Nat /\ e \in Nat
      BY <2>1
    <3>2. ~(e < d)
      BY <2>2, <3>1, Zenon DEF OpToRel
    <3> QED
      BY <3>1, <3>2
  <2>4. PICK k : k = CHOOSE i \in found : \A j \in found : i <= j
    OBVIOUS
  <2>5. k \in found
    BY <2>2, <2>3, <2>4, Zenon
  <2>6. MallocUnlocked(size) = [list |-> BlockReserve(heapBlocks, k, size), index |-> k]
    BY <1>1, <2>4 DEF MallocUnlocked, found
  <2>7. k \in 1 .. Len(heapBlocks) /\ BlockFits(heapBlocks[k], size)
    BY <1>0, <2>5 DEF found
  <2>8. heapBlocks[k].size \in Nat /\ ~heapBlocks[k].reserved /\ heapBlocks[k].size >= size
    BY <1>0, <2>7, BlockFields DEF BlockFits, SplitRoom
  <2>9. PICK new : new = BlockReserve(heapBlocks, k, size)
    OBVIOUS
  <2>10. Reserved(heapBlocks, k, size, newAddress, new)
    BY <1>0, <2>7, <2>8, <2>9, ReserveTiled
  <2>11. Grown(new) = newAddress
    <3>1. Tiled(new, newAddress) /\ Len(new) \in 1 .. Len(new)
      BY <2>10 DEF Reserved, Tiled
    <3>2. new[Len(new)].at \in Nat /\ new[Len(new)].size \in Nat
      BY <3>1, BlockFields
    <3>3. new[Len(new)].at + 1 + new[Len(new)].size = newAddress
      BY <3>1 DEF Tiled, BlockEnd
    <3>4. ~(new[Len(new)].at >= newAddress)
      BY <1>0, <3>2, <3>3
    <3> QED
      BY <3>4 DEF Grown, Last
  <2>12. Taken(new, k, size)
    BY <2>8, <2>10, <2>11 DEF Reserved, Taken
  <2> QED
    BY <2>6, <2>9, <2>12
<1>2. CASE found = {}
  <2>1. PICK b : b = BlockNew(size)
    OBVIOUS
  <2>2. PICK grown : grown = Append(heapBlocks, b)
    OBVIOUS
  <2>3. PICK k : k = Len(grown)
    OBVIOUS
  <2>4. MallocUnlocked(size) = [list |-> BlockReserve(grown, k, size), index |-> k]
    BY <1>2, <2>1, <2>2, <2>3 DEF MallocUnlocked
  <2>5. b \in HeapBlock /\ b.at = newAddress /\ b.size >= size /\ b.size \in Nat
    <3>1. PagesFor(size) \in Nat /\ PagesFor(size) - 1 >= size
      BY PagesRoom
    <3>2. PagesFor(size) - 1 \in Nat
      BY <3>1
    <3> QED
      BY <1>0, <2>1, <3>1, <3>2 DEF BlockNew, HeapBlock
  <2>6. Tiled(grown, BlockEnd(b))
    BY <1>0, <2>2, <2>5, AppendTiled
  <2>7. /\ k = Len(heapBlocks) + 1 /\ k \in 1 .. Len(grown) /\ grown[k] = b
        /\ \A j \in 1 .. Len(heapBlocks) : grown[j] = heapBlocks[j]
    BY <1>0, <2>2, <2>3, <2>5
  <2>8. PICK new : new = BlockReserve(grown, k, size)
    OBVIOUS
  <2>9. Reserved(grown, k, size, BlockEnd(b), new)
    BY <2>5, <2>6, <2>7, <2>8, ReserveTiled
  <2>10. Grown(new) = BlockEnd(b)
    <3>1. Tiled(new, BlockEnd(b)) /\ Len(new) \in 1 .. Len(new)
      BY <2>9 DEF Reserved, Tiled
    <3>2. new[Len(new)].at \in Nat /\ new[Len(new)].size \in Nat
      BY <3>1, BlockFields
    <3>3. new[Len(new)].at + 1 + new[Len(new)].size = BlockEnd(b)
      BY <3>1 DEF Tiled, BlockEnd
    <3>4. new[Len(new)].at >= newAddress
      <4>1. PICK m \in 1 .. Len(new) : m # k /\ new[m] = heapBlocks[Len(heapBlocks)]
        <5>1. Len(heapBlocks) \in 1 .. Len(grown) /\ Len(heapBlocks) # k
          <6>1. k = Len(heapBlocks) + 1 /\ Len(grown) = Len(heapBlocks) + 1
            BY <2>3, <2>7
          <6>2. Len(heapBlocks) \in Nat /\ Len(heapBlocks) >= 1
            BY <1>0
          <6> QED
            BY <6>1, <6>2
        <5>2. grown[Len(heapBlocks)] = heapBlocks[Len(heapBlocks)]
          BY <1>0, <2>7
        <5> QED
          BY <2>9, <5>1, <5>2 DEF Reserved
      <4>2. BlockEnd(new[m]) = newAddress
        BY <1>0, <4>1 DEF Tiled
      <4>3. m # Len(new)
        BY <1>0, <2>5, <3>3, <4>2 DEF BlockEnd
      <4>4. m < Len(new)
        BY <3>1, <4>1, <4>3 DEF Tiled
      <4>5. BlockEnd(new[m]) <= new[Len(new)].at
        BY <3>1, <4>1, <4>4 DEF Tiled
      <4> QED
        BY <1>0, <3>2, <4>2, <4>5
    <3> QED
      BY <3>3, <3>4 DEF Grown, Last
  <2>11. Taken(new, k, size)
    <3>1. ASSUME NEW j \in 1 .. Len(heapBlocks)
          PROVE  \E m \in 1 .. Len(new) : m # k /\ new[m] = heapBlocks[j]
      <4>1. j \in 1 .. Len(grown) /\ j # k /\ grown[j] = heapBlocks[j]
        BY <1>0, <2>3, <2>7
      <4> QED
        BY <2>9, <4>1 DEF Reserved
    <3> QED
      BY <2>9, <2>10, <3>1 DEF Reserved, Taken
  <2> QED
    BY <2>4, <2>8, <2>11
<1> QED
  BY <1>1, <1>2

\* What a client may use lies inside its block.
LEMMA PartOfBlock ==
    ASSUME NEW b, b.at \in Nat, b.size \in Nat, NEW o, o.ptr \in Int, o.size \in Nat, Belongs(b, o),
           NEW u \in o.ptr .. o.ptr + o.size - 1
    PROVE  u \in Interior(b)
<1>1. b.at + 1 = o.ptr /\ o.size <= b.size
  BY DEF Belongs
<1> QED
  BY <1>1 DEF Interior

\* The types of what a client owns
LEMMA OwnedTypes ==
    ASSUME HeapInv, NEW d \in Client
    PROVE  /\ owned[d].ptr \in Int /\ owned[d].size \in Nat
           /\ owned[d].ptr \in {NULL} \cup 0 .. HeapMax /\ owned[d].size \in {0} \cup MallocSize
<1>1. owned[d] \in [ptr: {NULL} \cup 0 .. HeapMax, size: {0} \cup MallocSize]
  BY DEF HeapInv
<1>2. owned[d].ptr \in {NULL} \cup 0 .. HeapMax /\ owned[d].size \in {0} \cup MallocSize
  BY <1>1
<1>3. owned[d].ptr \in Int
  BY <1>2 DEF NULL
<1>4. owned[d].size \in Nat
  <2>1. MallocSize \subseteq Nat
    BY HeapAssumption
  <2>2. owned[d].size = 0 \/ owned[d].size \in MallocSize
    BY <1>2
  <2>3. 0 \in Nat
    OBVIOUS
  <2> QED
    BY <2>1, <2>2, <2>3, Zenon
<1> QED
  BY <1>2, <1>3, <1>4

\* What is copied to u comes from as far behind the old pointer.
LEMMA Shifted ==
    ASSUME NEW to \in Int, NEW from \in Int, NEW n \in Nat, NEW z \in Nat, n <= z,
           NEW u \in to .. to + n - 1
    PROVE  from + (u - to) \in from .. from + z - 1
  OBVIOUS

\* What is written into the interior of a block reaches no header, and no
\* memory of clients whose blocks are other ones.
LEMMA WritesInside ==
    ASSUME NEW top, NEW list, Tiled(list, top), NEW k \in 1 .. Len(list), top <= HeapMax,
           NEW own, NEW D, OwnersIn(list, k, own, D), Typed(own, D),
           NEW mem, NEW new, HoldsData(mem, own, D), HoldsHeaders(mem, list),
           OnlyInside(list[k], mem, new)
    PROVE  HoldsData(new, own, D) /\ HoldsHeaders(new, list)
<1>0. top \in Nat /\ HeapMax \in Nat
  <2>1. Len(list) \in 1 .. Len(list) /\ top = BlockEnd(list[Len(list)])
    BY DEF Tiled
  <2> QED
    BY <2>1, BlockFields, HeapAssumption DEF BlockEnd
<1>1. ASSUME NEW m \in 1 .. Len(list)
      PROVE  list[m].at \in HeapUnits /\ Interior(list[m]) \subseteq HeapUnits
  <2>1. list[m].at \in Nat /\ list[m].size \in Nat
    BY BlockFields
  <2>2. list[m].at + 1 + list[m].size <= top
    BY DEF Tiled, BlockEnd
  <2> QED
    BY <1>0, <2>1, <2>2, SMTT(30) DEF Interior, HeapUnits
<1>2. HoldsHeaders(new, list)
  <2> SUFFICES ASSUME NEW m \in 1 .. Len(list) PROVE new[list[m].at] = "header"
    BY DEF HoldsHeaders
  <2>1. list[m].at \notin Interior(list[k])
    <3> SUFFICES ASSUME NEW u \in Interior(list[k]), u = list[m].at PROVE FALSE
      OBVIOUS
    <3>1. u \in Interior(list[m]) \/ u = list[m].at
      OBVIOUS
    <3>2. k = m /\ u # list[m].at
      BY <3>1, BlocksApart, ZenonT(30)
    <3> QED
      BY <3>2
  <2> QED
    BY <1>1, <2>1 DEF HoldsHeaders, OnlyInside
<1>3. HoldsData(new, own, D)
  <2> SUFFICES ASSUME NEW d \in D, NEW u \in own[d].ptr .. own[d].ptr + own[d].size - 1
               PROVE  new[u] = d
    BY DEF HoldsData
  <2>1. own[d].ptr \in Int /\ own[d].size \in Nat /\ own[d].ptr # NULL
    <3>1. own[d].ptr \in Int /\ own[d].size \in Nat /\ (own[d].ptr = NULL => own[d].size = 0)
      BY DEF Typed
    <3>2. own[d].size # 0
      BY <3>1
    <3> QED
      BY <3>1, <3>2
  <2>2. PICK m \in 1 .. Len(list) : m # k /\ Belongs(list[m], own[d])
    BY <2>1 DEF OwnersIn
  <2>3. list[m].at \in Nat /\ list[m].size \in Nat
    BY BlockFields
  <2>4. u \in Interior(list[m])
    BY <2>1, <2>2, <2>3, PartOfBlock
  <2>5. u \notin Interior(list[k])
    BY <2>2, <2>4, BlocksApart
  <2>6. u \in HeapUnits
    BY <1>1, <2>4
  <2> QED
    BY <2>5, <2>6 DEF HoldsData, OnlyInside
<1> QED
  BY <1>2, <1>3

\* The list after malloc_unlocked, with the headers it wrote: nobody's memory
\* was touched.
LEMMA HeadersWritten ==
    ASSUME HeapInv, NEW new, NEW k, NEW size \in Nat, Taken(new, k, size), Grown(new) <= HeapMax
    PROVE  /\ HeaderWrites(new) \in Memory
           /\ OwnersIn(new, k, owned, Client)
           /\ HoldsData(HeaderWrites(new), owned, Client)
           /\ HoldsHeaders(HeaderWrites(new), new)
<1>0. memory \in Memory /\ DOMAIN memory = HeapUnits /\ Tiled(new, Grown(new)) /\ HeapMax \in Nat
  BY HeapAssumption DEF HeapInv, Memory, Taken
<1>1. PICK mem : mem = HeaderWrites(new)
  OBVIOUS
<1>2. mem \in Memory
  BY <1>0, <1>1 DEF HeaderWrites, Memory
<1>3. OwnersIn(new, k, owned, Client)
  <2> SUFFICES ASSUME NEW d \in Client, owned[d].ptr # NULL
               PROVE  \E m \in 1 .. Len(new) : m # k /\ Belongs(new[m], owned[d])
    BY DEF OwnersIn
  <2>1. PICK j \in 1 .. Len(heapBlocks) : Belongs(heapBlocks[j], owned[d])
    BY DEF HeapInv, OwnersIn
  <2>2. PICK m \in 1 .. Len(new) : m # k /\ new[m] = heapBlocks[j]
    BY <2>1 DEF Taken, Belongs
  <2> QED
    BY <2>1, <2>2
<1>4. ASSUME NEW m \in 1 .. Len(new)
      PROVE  new[m].at \in HeapUnits /\ Interior(new[m]) \subseteq HeapUnits
  <2>1. new[m].at \in Nat /\ new[m].size \in Nat
    BY <1>0, BlockFields
  <2>2. new[m].at + 1 + new[m].size <= Grown(new) /\ Grown(new) \in Nat
    <3>1. Len(new) \in 1 .. Len(new) /\ Grown(new) = BlockEnd(new[Len(new)])
      BY <1>0 DEF Tiled
    <3>2. new[Len(new)].at \in Nat /\ new[Len(new)].size \in Nat
      BY <1>0, <3>1, BlockFields
    <3> QED
      BY <1>0, <3>1, <3>2, SMTT(30) DEF Tiled, BlockEnd
  <2> QED
    BY <1>0, <2>1, <2>2, SMTT(30) DEF Interior, HeapUnits
<1>5. HoldsHeaders(mem, new)
  <2> SUFFICES ASSUME NEW m \in 1 .. Len(new) PROVE mem[new[m].at] = "header"
    BY DEF HoldsHeaders
  <2>1. new[m] \in Range(new) /\ new[m].at \in HeapUnits
    BY <1>0, <1>4 DEF Range, Tiled
  <2>2. CASE new[m] \in Range(heapBlocks)
    <3>1. PICK j \in 1 .. Len(heapBlocks) : heapBlocks[j] = new[m]
      BY <2>2 DEF Range, HeapInv, Tiled
    <3>2. memory[new[m].at] = "header"
      BY <3>1 DEF HeapInv, HoldsHeaders
    <3> QED
      BY <1>0, <1>1, <2>1, <3>2 DEF HeaderWrites
  <2>3. CASE new[m] \notin Range(heapBlocks)
    BY <1>0, <1>1, <2>1, <2>3 DEF HeaderWrites
  <2> QED
    BY <2>2, <2>3
<1>6. HoldsData(mem, owned, Client)
  <2> SUFFICES ASSUME NEW d \in Client, NEW u \in owned[d].ptr .. owned[d].ptr + owned[d].size - 1
               PROVE  mem[u] = d
    BY DEF HoldsData
  <2>1. owned[d].ptr \in Int /\ owned[d].size \in Nat
    BY OwnedTypes
  <2>2. owned[d].ptr # NULL
    <3>1. owned[d].size # 0
      BY <2>1
    <3> QED
      BY <3>1 DEF HeapInv, Pointers
  <2>3. PICK m \in 1 .. Len(new) : Belongs(new[m], owned[d])
    BY <1>3, <2>2 DEF OwnersIn
  <2>4. new[m].at \in Nat /\ new[m].size \in Nat
    BY <1>0, BlockFields
  <2>5. u \in Interior(new[m]) /\ u \in HeapUnits
    <3>1. u \in Interior(new[m])
      BY <2>1, <2>3, <2>4, PartOfBlock
    <3> QED
      BY <1>4, <3>1
  <2>6. ~ \E b \in Range(new) : b.at = u
    <3> SUFFICES ASSUME NEW b \in Range(new), b.at = u PROVE FALSE
      OBVIOUS
    <3>1. PICK j \in 1 .. Len(new) : new[j] = b
      BY <1>0 DEF Range, Tiled
    <3> QED
      BY <1>0, <2>5, <3>1, BlocksApart
  <2>7. mem[u] = memory[u]
    BY <1>0, <1>1, <2>5, <2>6 DEF HeaderWrites
  <2> QED
    BY <2>7 DEF HeapInv, HoldsData
<1> QED
  BY <1>1, <1>2, <1>3, <1>5, <1>6

\* free_unlocked: one block becomes free, and all stay where they are.
LEMMA FreedTiled ==
    ASSUME NEW top, NEW list, Tiled(list, top), NEW ptr
    PROVE  /\ Tiled(Freed(list, ptr), top) /\ Len(Freed(list, ptr)) = Len(list)
           /\ \A i \in 1 .. Len(list) : Freed(list, ptr)[i].at = list[i].at
           /\ \A i \in 1 .. Len(list) : list[i].at + 1 # ptr => Freed(list, ptr)[i] = list[i]
<1>1. list \in Seq(HeapBlock) /\ Len(list) \in Nat /\ DOMAIN list = 1 .. Len(list)
  BY DEF Tiled
<1>2. PICK new : new = Freed(list, ptr)
  OBVIOUS
<1>3. /\ DOMAIN new = 1 .. Len(list)
      /\ \A i \in 1 .. Len(list) :
            new[i] = IF BlockStart(list[i]) = ptr THEN [list[i] EXCEPT !.reserved = FALSE] ELSE list[i]
  BY <1>1, <1>2 DEF Freed
<1>4. ASSUME NEW i \in 1 .. Len(list)
      PROVE  /\ new[i] \in HeapBlock /\ new[i].at = list[i].at /\ new[i].size = list[i].size
             /\ list[i].at + 1 # ptr => new[i] = list[i]
  <2>1. list[i] \in HeapBlock
    BY <1>1
  <2>2. PICK b \in HeapBlock : b = list[i]
    BY <2>1
  <2>3. CASE BlockStart(b) = ptr
    <3>1. new[i] = [b EXCEPT !.reserved = FALSE]
      BY <1>3, <2>2, <2>3
    <3>2. b.at + 1 = ptr
      BY <2>3 DEF BlockStart
    <3> QED
      BY <2>2, <3>1, <3>2 DEF HeapBlock
  <2>4. CASE BlockStart(b) # ptr
    <3>1. new[i] = b
      BY <1>3, <2>2, <2>4
    <3> QED
      BY <2>2, <3>1
  <2> QED
    BY <2>3, <2>4
<1>5. new \in Seq(HeapBlock) /\ Len(new) = Len(list)
  <2>1. new \in [1 .. Len(list) -> HeapBlock]
    BY <1>1, <1>2, <1>3, <1>4 DEF Freed
  <2> QED
    BY <1>1, <2>1
<1>6. Tiled(new, top)
  BY <1>4, <1>5, SameShape
<1> QED
  BY <1>2, <1>4, <1>5, <1>6

\* When a client gives its pointer up, its block becomes free, the others keep
\* theirs, and what it had written is forgotten.
GivesUp(list, own, c, mem) ==
    /\ OwnersIn(Freed(list, owned[c].ptr), 0, own, Client \ {c})
    /\ Abandon(mem, c) \in Memory
    /\ HoldsData(Abandon(mem, c), own, Client \ {c})
    /\ HoldsHeaders(Abandon(mem, c), Freed(list, owned[c].ptr))

\* The block a client gives up is not another client's.
LEMMA GivingUp ==
    ASSUME HeapInv, NEW c \in Client, owned[c].ptr # NULL,
           NEW top, NEW list, Tiled(list, top), top <= HeapMax,
           NEW k \in 1 .. Len(list), Belongs(list[k], owned[c]),
           OwnersIn(list, 0, owned, Client),
           NEW mem \in Memory, HoldsData(mem, owned, Client), HoldsHeaders(mem, list)
    PROVE  GivesUp(list, owned, c, mem)
<1>1. PICK p : p = owned[c].ptr
  OBVIOUS
<1>2. p \in Int /\ owned[c].size \in Nat
  BY <1>1, OwnedTypes
<1>3. list[k].at \in Nat /\ list[k].size \in Nat
  BY BlockFields
<1>4. ASSUME NEW d \in Client, d # c, owned[d].ptr # NULL
      PROVE  \E m \in 1 .. Len(list) : m # k /\ list[m].at + 1 # p /\ Belongs(list[m], owned[d])
  <2>1. PICK m \in 1 .. Len(list) : Belongs(list[m], owned[d])
    BY <1>4 DEF OwnersIn
  <2>2. owned[d].ptr # p
    BY <1>1, <1>4 DEF HeapInv, Pointers
  <2>3. list[m].at + 1 = owned[d].ptr /\ list[k].at + 1 = p
    BY <1>1, <2>1 DEF Belongs
  <2>4. m # k /\ list[m].at + 1 # p
    BY <2>2, <2>3
  <2> QED
    BY <2>1, <2>4
<1>5. OwnersIn(list, k, owned, Client \ {c})
  BY <1>4 DEF OwnersIn
<1>6. PICK new : new = Freed(list, p)
  OBVIOUS
<1>7. /\ Tiled(new, top) /\ Len(new) = Len(list)
      /\ \A i \in 1 .. Len(list) : new[i].at = list[i].at
      /\ \A i \in 1 .. Len(list) : list[i].at + 1 # p => new[i] = list[i]
  BY <1>6, FreedTiled
<1>8. OwnersIn(new, 0, owned, Client \ {c})
  <2> SUFFICES ASSUME NEW d \in Client, d # c, owned[d].ptr # NULL
               PROVE  \E m \in 1 .. Len(new) : m # 0 /\ Belongs(new[m], owned[d])
    BY DEF OwnersIn
  <2>1. PICK m \in 1 .. Len(list) : list[m].at + 1 # p /\ Belongs(list[m], owned[d])
    BY <1>4
  <2>2. new[m] = list[m] /\ m \in 1 .. Len(new) /\ m # 0
    BY <1>7, <2>1
  <2> QED
    BY <2>1, <2>2
<1>9. PICK mem2 : mem2 = Abandon(mem, c)
  OBVIOUS
<1>10. DOMAIN mem = HeapUnits
  BY DEF Memory
<1>11. mem2 = [u \in HeapUnits |-> IF u \in p .. p + owned[c].size - 1 THEN "none" ELSE mem[u]]
  BY <1>1, <1>9, <1>10 DEF Abandon
<1>12. mem2 \in Memory
  BY <1>11 DEF Memory
<1>13. OnlyInside(list[k], mem, mem2)
  <2> SUFFICES ASSUME NEW u \in HeapUnits, u \notin Interior(list[k]) PROVE mem2[u] = mem[u]
    BY DEF OnlyInside
  <2>1. u \notin p .. p + owned[c].size - 1
    BY <1>1, <1>2, <1>3, PartOfBlock
  <2> QED
    BY <1>11, <2>1
<1>14. Typed(owned, Client \ {c})
  BY OwnedTypes DEF HeapInv, Pointers, Typed
<1>15. HoldsData(mem, owned, Client \ {c})
  BY DEF HoldsData
<1>16. HoldsData(mem2, owned, Client \ {c}) /\ HoldsHeaders(mem2, list)
  BY <1>5, <1>13, <1>14, <1>15, WritesInside
<1>17. HoldsHeaders(mem2, new)
  BY <1>7, <1>16 DEF HoldsHeaders
<1> QED
  BY <1>1, <1>6, <1>8, <1>9, <1>12, <1>16, <1>17 DEF GivesUp

\* A tiled list lies within what may be mapped.
LEMMA TopAndInterior ==
    ASSUME NEW top, NEW list, Tiled(list, top), top <= HeapMax, NEW k \in 1 .. Len(list)
    PROVE  /\ top \in 0 .. HeapMax /\ list[k].at + 1 \in 0 .. HeapMax
           /\ list[k].at \in HeapUnits /\ Interior(list[k]) \subseteq HeapUnits
<1>1. list[k].at \in Nat /\ list[k].size \in Nat
  BY BlockFields
<1>2. Len(list) \in 1 .. Len(list) /\ top = BlockEnd(list[Len(list)])
  BY DEF Tiled
<1>3. top \in Nat /\ HeapMax \in Nat
  BY <1>2, BlockFields, HeapAssumption DEF BlockEnd
<1>4. list[k].at + 1 + list[k].size <= top
  BY DEF Tiled, BlockEnd
<1> QED
  BY <1>1, <1>3, <1>4, SMTT(30) DEF Interior, HeapUnits

\* No two blocks begin at the same place.
LEMMA StartsDiffer ==
    ASSUME NEW top, NEW list, Tiled(list, top),
           NEW i \in 1 .. Len(list), NEW j \in 1 .. Len(list), list[i].at + 1 = list[j].at + 1
    PROVE  i = j
<1>1. /\ list[i].at \in Nat /\ list[i].size \in Nat
      /\ list[j].at \in Nat /\ list[j].size \in Nat /\ Len(list) \in Nat
  BY BlockFields
<1>2. i < j => list[i].at + 1 + list[i].size <= list[j].at
  BY DEF Tiled, BlockEnd
<1>3. j < i => list[j].at + 1 + list[j].size <= list[i].at
  BY DEF Tiled, BlockEnd
<1> QED
  BY <1>1, <1>2, <1>3, SMTT(30)

\* A client whose pointer is in the new list joins those that are.
LEMMA HeapInvAfter ==
    ASSUME NEW c \in Client, HeapInv, NEW ptr \in 0 .. HeapMax, NEW size \in MallocSize,
           NEW k \in 1 .. Len(heapBlocks'),
           owned' = [owned EXCEPT ![c] = [ptr |-> ptr, size |-> size]],
           newAddress' \in 0 .. HeapMax, Tiled(heapBlocks', newAddress'), memory' \in Memory,
           OwnersIn(heapBlocks', 0, owned, Client \ {c}),
           Belongs(heapBlocks'[k], [ptr |-> ptr, size |-> size]),
           Gets(c, [ptr |-> ptr, size |-> size], memory'),
           HoldsData(memory', owned, Client \ {c}),
           HoldsHeaders(memory', heapBlocks')
    PROVE  HeapInv'
<1>1. owned \in [Client -> [ptr: {NULL} \cup 0 .. HeapMax, size: {0} \cup MallocSize]]
  BY DEF HeapInv
<1>2. /\ owned'[c] = [ptr |-> ptr, size |-> size] /\ owned'[c].ptr = ptr /\ owned'[c].size = size
      /\ \A d \in Client : d # c => owned'[d] = owned[d]
  BY <1>1
<1>3. owned' \in [Client -> [ptr: {NULL} \cup 0 .. HeapMax, size: {0} \cup MallocSize]]
  BY <1>1
<1>g. /\ \A d \in Client \ {c} : owned[d].ptr # ptr
      /\ \A u \in ptr .. ptr + size - 1 : memory'[u] = c
  BY DEF Gets
<1>4. OwnersIn(heapBlocks', 0, owned', Client)
  <2> SUFFICES ASSUME NEW d \in Client, owned'[d].ptr # NULL
               PROVE  \E m \in 1 .. Len(heapBlocks') : m # 0 /\ Belongs(heapBlocks'[m], owned'[d])
    BY DEF OwnersIn
  <2>1. CASE d = c
    <3>1. Belongs(heapBlocks'[k], owned'[d]) /\ k # 0
      BY <1>2, <2>1
    <3> QED
      BY <3>1
  <2>2. CASE d # c
    BY <1>2, <2>2 DEF OwnersIn
  <2> QED
    BY <2>1, <2>2
<1>5. Pointers(owned')
  <2>1. ASSUME NEW a \in Client, NEW b \in Client, owned'[a].ptr = owned'[b].ptr, owned'[a].ptr # NULL
        PROVE  a = b
    <3>1. CASE a = c
      BY <1>2, <1>g, <2>1, <3>1
    <3>2. CASE a # c /\ b = c
      BY <1>2, <1>g, <2>1, <3>2
    <3>3. CASE a # c /\ b # c
      BY <1>2, <2>1, <3>3 DEF HeapInv, Pointers
    <3> QED
      BY <3>1, <3>2, <3>3
  <2>2. ASSUME NEW a \in Client, owned'[a].ptr = NULL PROVE owned'[a].size = 0
    <3>1. ptr # NULL
      BY DEF NULL
    <3>2. a # c
      BY <1>2, <2>2, <3>1
    <3> QED
      BY <1>2, <2>2, <3>2 DEF HeapInv, Pointers
  <2> QED
    BY <2>1, <2>2 DEF Pointers
<1>6. HoldsData(memory', owned', Client)
  <2> SUFFICES ASSUME NEW d \in Client, NEW u \in owned'[d].ptr .. owned'[d].ptr + owned'[d].size - 1
               PROVE  memory'[u] = d
    BY DEF HoldsData
  <2>1. CASE d = c
    BY <1>2, <1>g, <2>1
  <2>2. CASE d # c
    BY <1>2, <2>2 DEF HoldsData
  <2> QED
    BY <2>1, <2>2
<1>7. NULL' = NULL /\ Client' = Client
  BY DEF NULL
<1> QED
  BY <1>3, <1>4, <1>5, <1>6 DEF HeapInv, Memory, HeapUnits, OwnersIn, Pointers, HoldsData, HoldsHeaders, Tiled, NULL

\* malloc
LEMMA MallocStep ==
    ASSUME HeapInv, NEW c \in Client, NEW size \in MallocSize, Malloc(c, size)
    PROVE  HeapInv'
<1>1. CASE size = 0
  <2>1. UNCHANGED heapVars
    BY <1>1 DEF Malloc
  <2> QED
    BY <2>1 DEF HeapInv, heapVars
<1>2. CASE size # 0
  <2>1. size \in Nat /\ HeapMax \in Nat
    BY HeapAssumption
  <2>2. PICK r : r = MallocUnlocked(size)
    OBVIOUS
  <2>3. PICK new, k, ptr : new = r.list /\ k = r.index /\ ptr = BlockStart(new[k])
    OBVIOUS
  <2>4. /\ owned[c].ptr = NULL /\ Grown(new) <= HeapMax /\ heapBlocks' = new /\ newAddress' = Grown(new)
        /\ memory' = Write(HeaderWrites(new), ptr, size, c)
        /\ owned' = [owned EXCEPT ![c] = [ptr |-> ptr, size |-> size]]
    BY <1>2, <2>2, <2>3 DEF Malloc
  <2>5. Taken(new, k, size)
    BY <2>1, <2>2, <2>3, MallocTakes
  <2>6. /\ HeaderWrites(new) \in Memory
        /\ OwnersIn(new, k, owned, Client)
        /\ HoldsData(HeaderWrites(new), owned, Client)
        /\ HoldsHeaders(HeaderWrites(new), new)
    BY <2>1, <2>4, <2>5, HeadersWritten
  <2>7. Tiled(new, Grown(new)) /\ k \in 1 .. Len(new) /\ new[k].reserved /\ new[k].size >= size
    BY <2>5 DEF Taken
  <2>8. Grown(new) \in 0 .. HeapMax /\ ptr \in 0 .. HeapMax /\ ptr = new[k].at + 1
        /\ Interior(new[k]) \subseteq HeapUnits
    BY <2>1, <2>3, <2>4, <2>7, TopAndInterior DEF BlockStart
  <2>9. new[k].at \in Nat /\ new[k].size \in Nat
    BY <2>7, BlockFields
  <2>10. PICK mem : mem = HeaderWrites(new) /\ mem \in Memory /\ DOMAIN mem = HeapUnits
    BY <2>6 DEF Memory
  <2>11. memory' = [u \in HeapUnits |-> IF u \in ptr .. ptr + size - 1 THEN c ELSE mem[u]]
    BY <2>4, <2>10 DEF Write
  <2>12. memory' \in Memory
    BY <2>10, <2>11 DEF Memory
  <2>13. Belongs(new[k], [ptr |-> ptr, size |-> size])
    BY <2>1, <2>7, <2>8, <2>9 DEF Belongs
  <2>14. \A u \in ptr .. ptr + size - 1 : u \in Interior(new[k])
    BY <2>1, <2>7, <2>8, <2>9 DEF Interior
  <2>15. HoldsData(memory', owned, Client) /\ HoldsHeaders(memory', new)
    <3>1. OnlyInside(new[k], mem, memory')
      BY <2>11, <2>14 DEF OnlyInside
    <3>2. Typed(owned, Client)
      BY OwnedTypes DEF HeapInv, Pointers, Typed
    <3>3. OwnersIn(new, k, owned, Client) /\ HoldsData(mem, owned, Client) /\ HoldsHeaders(mem, new)
      BY <2>6, <2>10
    <3>4. PICK top : Tiled(new, top) /\ top <= HeapMax /\ k \in 1 .. Len(new)
      BY <2>4, <2>7
    <3> QED
      BY <3>1, <3>2, <3>3, <3>4, WritesInside
  <2>16. \A u \in ptr .. ptr + size - 1 : memory'[u] = c
    BY <2>8, <2>11, <2>14
  <2>17. \A d \in Client \ {c} : owned[d].ptr # ptr
    <3> SUFFICES ASSUME NEW d \in Client, owned[d].ptr = ptr PROVE FALSE
      OBVIOUS
    <3>1. ptr # NULL
      BY <2>8 DEF NULL
    <3>2. PICK m \in 1 .. Len(new) : m # k /\ new[m].at + 1 = ptr
      BY <2>6, <3>1 DEF OwnersIn, Belongs
    <3> QED
      BY <2>7, <2>8, <3>2, StartsDiffer
  <2>g. Gets(c, [ptr |-> ptr, size |-> size], memory')
    BY <2>16, <2>17 DEF Gets
  <2>18. OwnersIn(new, 0, owned, Client \ {c})
    BY <2>6 DEF OwnersIn
  <2>19. HoldsData(memory', owned, Client \ {c})
    BY <2>15 DEF HoldsData
  <2> QED
    BY <2>4, <2>7, <2>8, <2>12, <2>13, <2>15, <2>g, <2>18, <2>19, HeapInvAfter
<1> QED
  BY <1>1, <1>2

\* free, and realloc with size zero
LEMMA FreeStep ==
    ASSUME HeapInv, NEW c \in Client, owned[c].ptr # NULL,
           heapBlocks' = Freed(heapBlocks, owned[c].ptr),
           owned' = [owned EXCEPT ![c] = NoPointer],
           memory' = Abandon(memory, c), newAddress' = newAddress
    PROVE  HeapInv'
<1>1. /\ owned \in [Client -> [ptr: {NULL} \cup 0 .. HeapMax, size: {0} \cup MallocSize]]
      /\ newAddress \in 0 .. HeapMax /\ newAddress <= HeapMax /\ memory \in Memory
      /\ Tiled(heapBlocks, newAddress) /\ OwnersIn(heapBlocks, 0, owned, Client)
      /\ HoldsData(memory, owned, Client) /\ HoldsHeaders(memory, heapBlocks)
  BY HeapAssumption DEF HeapInv
<1>2. PICK k \in 1 .. Len(heapBlocks) : Belongs(heapBlocks[k], owned[c])
  BY <1>1 DEF OwnersIn
<1>3. GivesUp(heapBlocks, owned, c, memory)
  BY <1>1, <1>2, GivingUp
<1>4. Tiled(heapBlocks', newAddress)
  BY <1>1, FreedTiled
<1>5. /\ owned'[c] = [ptr |-> NULL, size |-> 0] /\ \A d \in Client : d # c => owned'[d] = owned[d]
      /\ owned' \in [Client -> [ptr: {NULL} \cup 0 .. HeapMax, size: {0} \cup MallocSize]]
  BY <1>1 DEF NoPointer
<1>6. OwnersIn(heapBlocks', 0, owned', Client)
  <2> SUFFICES ASSUME NEW d \in Client, owned'[d].ptr # NULL
               PROVE  \E m \in 1 .. Len(heapBlocks') : m # 0 /\ Belongs(heapBlocks'[m], owned'[d])
    BY DEF OwnersIn
  <2>1. d # c
    BY <1>5
  <2> QED
    BY <1>3, <1>5, <2>1 DEF OwnersIn, GivesUp
<1>7. Pointers(owned')
  <2>1. ASSUME NEW a \in Client, NEW b \in Client, owned'[a].ptr = owned'[b].ptr, owned'[a].ptr # NULL
        PROVE  a = b
    <3>1. a # c /\ b # c
      BY <1>5, <2>1
    <3> QED
      BY <1>5, <2>1, <3>1 DEF HeapInv, Pointers
  <2>2. ASSUME NEW a \in Client, owned'[a].ptr = NULL PROVE owned'[a].size = 0
    <3>1. CASE a = c
      BY <1>5, <3>1
    <3>2. CASE a # c
      BY <1>5, <2>2, <3>2 DEF HeapInv, Pointers
    <3> QED
      BY <3>1, <3>2
  <2> QED
    BY <2>1, <2>2 DEF Pointers
<1>8. HoldsData(memory', owned', Client)
  <2> SUFFICES ASSUME NEW d \in Client, NEW u \in owned'[d].ptr .. owned'[d].ptr + owned'[d].size - 1
               PROVE  memory'[u] = d
    BY DEF HoldsData
  <2>1. d # c
    <3> SUFFICES ASSUME d = c PROVE FALSE
      OBVIOUS
    <3>1. u \in -1 .. -1 + 0 - 1
      BY <1>5 DEF NULL
    <3> QED
      BY <3>1
  <2> QED
    BY <1>3, <1>5, <2>1 DEF HoldsData, GivesUp
<1>9. memory' \in Memory /\ HoldsHeaders(memory', heapBlocks')
  BY <1>3 DEF GivesUp
<1> QED
  BY <1>1, <1>4, <1>5, <1>6, <1>7, <1>8, <1>9
     DEF HeapInv, Memory, HeapUnits, OwnersIn, Pointers, HoldsData, HoldsHeaders, Tiled, NULL

\* realloc: a block is taken, filled from the old one, and the old one given up.
LEMMA ReallocStep ==
    ASSUME HeapInv, NEW c \in Client, NEW size \in MallocSize, Realloc(c, size)
    PROVE  HeapInv'
<1>0. owned[c].ptr # NULL
  BY DEF Realloc
<1>1. CASE size = 0
  <2>1. /\ heapBlocks' = Freed(heapBlocks, owned[c].ptr) /\ owned' = [owned EXCEPT ![c] = NoPointer]
        /\ memory' = Abandon(memory, c) /\ newAddress' = newAddress
    BY <1>1 DEF Realloc
  <2> QED
    BY <1>0, <2>1, FreeStep
<1>2. CASE size # 0
  <2>1. size \in Nat /\ HeapMax \in Nat
    BY HeapAssumption
  <2>2. PICK r : r = MallocUnlocked(size)
    OBVIOUS
  <2>3. PICK new, k, to, from : new = r.list /\ k = r.index /\ to = BlockStart(new[k]) /\ from = owned[c].ptr
    OBVIOUS
  <2>4. PICK old, n, kept :
            /\ old = CHOOSE b \in Range(heapBlocks) : BlockStart(b) = from
            /\ n = IF size < old.size THEN size ELSE old.size
            /\ kept = IF size < owned[c].size THEN size ELSE owned[c].size
    OBVIOUS
  <2>5. PICK copied : copied = [u \in DOMAIN memory |->
                                  IF u \in to .. to + n - 1 THEN memory[from + (u - to)]
                                  ELSE HeaderWrites(new)[u]]
    OBVIOUS
  <2>6. /\ Grown(new) <= HeapMax /\ heapBlocks' = Freed(new, from) /\ newAddress' = Grown(new)
        /\ memory' = Abandon(Write(copied, to + kept, size - kept, c), c)
        /\ owned' = [owned EXCEPT ![c] = [ptr |-> to, size |-> size]]
    BY <1>2, <2>2, <2>3, <2>4, <2>5 DEF Realloc
  <2>7. Taken(new, k, size)
    BY <2>1, <2>2, <2>3, MallocTakes
  <2>8. /\ HeaderWrites(new) \in Memory
        /\ OwnersIn(new, k, owned, Client)
        /\ HoldsData(HeaderWrites(new), owned, Client)
        /\ HoldsHeaders(HeaderWrites(new), new)
    BY <2>1, <2>6, <2>7, HeadersWritten
  <2>9. Tiled(new, Grown(new)) /\ k \in 1 .. Len(new) /\ new[k].reserved /\ new[k].size >= size
    BY <2>7 DEF Taken
  <2>10. /\ Grown(new) \in 0 .. HeapMax /\ to \in 0 .. HeapMax /\ to = new[k].at + 1
         /\ Interior(new[k]) \subseteq HeapUnits
    BY <2>1, <2>3, <2>6, <2>9, TopAndInterior DEF BlockStart
  <2>11. new[k].at \in Nat /\ new[k].size \in Nat
    BY <2>9, BlockFields
\* the block given up, before and after
  <2>12. PICK f \in 1 .. Len(heapBlocks) : Belongs(heapBlocks[f], owned[c])
    BY <1>0 DEF HeapInv, OwnersIn
  <2>13. PICK m \in 1 .. Len(new) : m # k /\ Belongs(new[m], owned[c])
    BY <1>0, <2>8 DEF OwnersIn
  <2>14. old = heapBlocks[f]
    <3>1. heapBlocks[f] \in Range(heapBlocks) /\ BlockStart(heapBlocks[f]) = from
      BY <2>3, <2>12 DEF Range, Belongs, BlockStart, HeapInv, Tiled
    <3>2. ASSUME NEW b \in Range(heapBlocks), BlockStart(b) = from PROVE b = heapBlocks[f]
      <4>1. PICK j \in 1 .. Len(heapBlocks) : heapBlocks[j] = b
        BY DEF Range, HeapInv, Tiled
      <4>2. heapBlocks[j].at + 1 = heapBlocks[f].at + 1
        BY <3>1, <3>2, <4>1 DEF BlockStart
      <4>3. j = f
        BY <4>2, StartsDiffer DEF HeapInv
      <4> QED
        BY <4>1, <4>3
    <3> QED
      BY <2>4, <3>1, <3>2, Zenon
  <2>15. /\ old.at \in Nat /\ old.size \in Nat /\ from = old.at + 1 /\ owned[c].size <= old.size
         /\ owned[c].size \in Nat
    <3>1. heapBlocks[f].at \in Nat /\ heapBlocks[f].size \in Nat
      BY BlockFields DEF HeapInv
    <3>2. owned[c].size \in Nat
      BY OwnedTypes
    <3> QED
      BY <2>3, <2>12, <2>14, <3>1, <3>2 DEF Belongs
  <2>16. /\ n \in Nat /\ kept \in Nat /\ kept <= n /\ n <= size /\ n <= old.size
         /\ kept <= owned[c].size /\ kept <= size
    BY <2>1, <2>4, <2>15, SMTT(30)
  <2>t. to \in Int /\ from \in Int
    BY <2>10, <2>15
  <2>17. \A u \in from .. from + old.size - 1 : u \in HeapUnits
    <3>1. Interior(heapBlocks[f]) \subseteq HeapUnits
      BY HeapAssumption, TopAndInterior DEF HeapInv
    <3> QED
      BY <2>14, <2>15, <3>1, SMTT(30) DEF Interior
  <2>18. memory \in Memory /\ DOMAIN memory = HeapUnits
    BY DEF HeapInv, Memory
  <2>19. PICK mem : mem = HeaderWrites(new) /\ mem \in Memory
    BY <2>8
  <2>20. copied \in Memory /\ DOMAIN copied = HeapUnits
    <3> SUFFICES ASSUME NEW u \in HeapUnits
                 PROVE  (IF u \in to .. to + n - 1 THEN memory[from + (u - to)] ELSE mem[u])
                            \in Client \cup {"header", "none"}
      BY <2>5, <2>18, <2>19 DEF Memory
    <3>1. CASE u \in to .. to + n - 1
      <4>1. from + (u - to) \in from .. from + old.size - 1
        BY <2>t, <2>15, <2>16, <3>1, Shifted
      <4>2. from + (u - to) \in HeapUnits
        BY <2>17, <4>1
      <4> QED
        BY <2>18, <3>1, <4>2 DEF Memory
    <3>2. CASE u \notin to .. to + n - 1
      BY <2>19, <3>2 DEF Memory
    <3> QED
      BY <3>1, <3>2
  <2>21. PICK mem2 : mem2 = Write(copied, to + kept, size - kept, c)
    OBVIOUS
  <2>22. /\ mem2 = [u \in HeapUnits |-> IF u \in to + kept .. to + kept + (size - kept) - 1 THEN c ELSE copied[u]]
         /\ mem2 \in Memory
    <3>1. mem2 = [u \in HeapUnits |-> IF u \in to + kept .. to + kept + (size - kept) - 1 THEN c ELSE copied[u]]
      BY <2>20, <2>21 DEF Write
    <3> QED
      BY <2>20, <3>1 DEF Memory
  <2>23. \A u \in to .. to + size - 1 : u \in Interior(new[k])
    BY <2>1, <2>9, <2>10, <2>11, SMTT(30) DEF Interior
  <2>24. ASSUME NEW u \in to .. to + size - 1 PROVE mem2[u] = c
    <3>1. u \in HeapUnits
      BY <2>10, <2>23
    <3>2. CASE u \in to + kept .. to + kept + (size - kept) - 1
      BY <2>22, <3>1, <3>2
    <3>3. CASE u \notin to + kept .. to + kept + (size - kept) - 1
      <4>1. u \in to .. to + kept - 1
        BY <2>1, <2>t, <2>16, <3>3
      <4>2. u \in to .. to + n - 1 /\ from + (u - to) \in from .. from + owned[c].size - 1
        <5>1. u \in to .. to + n - 1
          BY <2>t, <2>16, <4>1
        <5>2. from + (u - to) \in from .. from + owned[c].size - 1
          BY <2>t, <2>15, <2>16, <4>1, Shifted
        <5> QED
          BY <5>1, <5>2
      <4>3. memory[from + (u - to)] = c
        BY <2>3, <4>2 DEF HeapInv, HoldsData
      <4>4. copied[u] = c
        BY <2>5, <2>18, <3>1, <4>2, <4>3
      <4> QED
        BY <2>22, <3>1, <3>3, <4>4
    <3> QED
      BY <3>2, <3>3
  <2>25. HoldsData(mem2, owned, Client) /\ HoldsHeaders(mem2, new)
    <3>1. ASSUME NEW u \in HeapUnits, u \notin Interior(new[k]) PROVE mem2[u] = mem[u]
      <4>1. u \notin to .. to + size - 1
        BY <2>23, <3>1
      <4>2. u \notin to .. to + n - 1 /\ u \notin to + kept .. to + kept + (size - kept) - 1
        BY <2>1, <2>t, <2>16, <4>1
      <4> QED
        BY <2>5, <2>18, <2>19, <2>22, <4>2
    <3>2. Typed(owned, Client)
      BY OwnedTypes DEF HeapInv, Pointers, Typed
    <3>3. OwnersIn(new, k, owned, Client) /\ HoldsData(mem, owned, Client) /\ HoldsHeaders(mem, new)
      BY <2>8, <2>19
    <3>4. PICK top : Tiled(new, top) /\ top <= HeapMax /\ k \in 1 .. Len(new)
      BY <2>6, <2>9
    <3>5. OnlyInside(new[k], mem, mem2)
      BY <3>1 DEF OnlyInside
    <3> QED
      BY <3>2, <3>3, <3>4, <3>5, WritesInside
  <2>26. GivesUp(new, owned, c, mem2)
    <3>1. OwnersIn(new, 0, owned, Client)
      BY <2>8 DEF OwnersIn
    <3> QED
      BY <1>0, <2>6, <2>9, <2>13, <2>22, <2>25, <3>1, GivingUp
  <2>27. /\ heapBlocks' = Freed(new, owned[c].ptr) /\ memory' = Abandon(mem2, c)
    BY <2>3, <2>6, <2>21
  <2>28. /\ Tiled(heapBlocks', newAddress') /\ k \in 1 .. Len(heapBlocks')
         /\ heapBlocks'[k] = new[k]
    <3>1. new[k].at + 1 # from
      <4>1. new[m].at + 1 = from
        BY <2>3, <2>13 DEF Belongs
      <4> QED
        BY <2>9, <2>13, <4>1, StartsDiffer
    <3> QED
      BY <2>6, <2>9, <3>1, FreedTiled
  <2>29. Belongs(heapBlocks'[k], [ptr |-> to, size |-> size])
    BY <2>1, <2>9, <2>10, <2>11, <2>28 DEF Belongs
  <2>30. \A d \in Client \ {c} : owned[d].ptr # to
    <3> SUFFICES ASSUME NEW d \in Client, owned[d].ptr = to PROVE FALSE
      OBVIOUS
    <3>1. to # NULL
      BY <2>10 DEF NULL
    <3>2. PICK j \in 1 .. Len(new) : j # k /\ new[j].at + 1 = to
      BY <2>8, <3>1 DEF OwnersIn, Belongs
    <3> QED
      BY <2>9, <2>10, <3>2, StartsDiffer
  <2>31. ASSUME NEW u \in to .. to + size - 1 PROVE memory'[u] = c
    <3>1. u \in Interior(new[k]) /\ u \in HeapUnits
      BY <2>10, <2>23
    <3>2. u \notin Interior(new[m])
      BY <2>9, <2>13, <3>1, BlocksApart
    <3>3. u \notin owned[c].ptr .. owned[c].ptr + owned[c].size - 1
      <4>1. new[m].at \in Nat /\ new[m].size \in Nat /\ owned[c].ptr \in Int /\ owned[c].size \in Nat
        BY <2>9, BlockFields, OwnedTypes
      <4> QED
        BY <2>13, <3>2, <4>1, PartOfBlock
    <3>4. DOMAIN mem2 = HeapUnits
      BY <2>22
    <3>5. memory'[u] = mem2[u]
      BY <2>27, <3>1, <3>3, <3>4 DEF Abandon
    <3> QED
      BY <2>24, <3>5
  <2>32. /\ OwnersIn(heapBlocks', 0, owned, Client \ {c}) /\ memory' \in Memory
         /\ HoldsData(memory', owned, Client \ {c}) /\ HoldsHeaders(memory', heapBlocks')
    BY <2>26, <2>27 DEF GivesUp
  <2>33. newAddress' \in 0 .. HeapMax /\ Gets(c, [ptr |-> to, size |-> size], memory')
    BY <2>6, <2>10, <2>30, <2>31 DEF Gets
  <2> QED
    BY <2>6, <2>10, <2>28, <2>29, <2>32, <2>33, HeapInvAfter
<1> QED
  BY <1>1, <1>2

\* _HeapInit maps one free block.
LEMMA HeapStarts == HeapInit => HeapInv
<1> SUFFICES ASSUME HeapInit PROVE HeapInv
  OBVIOUS
<1>1. PagesFor(HeapPage) = 2 * HeapPage /\ 2 * HeapPage \in Nat /\ 2 * HeapPage > 0 /\ 2 * HeapPage <= HeapMax
      /\ HeapMax \in Nat
  <2>1. PICK p \in Nat : p = HeapPage /\ p > 0
    BY HeapAssumption
  <2>2. (p + 1 + p - 1) \div p = 2
    <3>1. p + 1 + p - 1 = 2 * p
      BY <2>1
    <3>2. (2 * p) \div p = 2
      BY <2>1
    <3> QED
      BY <3>1, <3>2
  <2> QED
    BY <2>1, <2>2, HeapAssumption DEF PagesFor
<1>2. PICK b : b = [at |-> 0, size |-> 2 * HeapPage - 1, reserved |-> FALSE]
  OBVIOUS
<1>3. /\ heapBlocks = <<b>> /\ newAddress = 2 * HeapPage
      /\ memory = [u \in HeapUnits |-> IF u = 0 THEN "header" ELSE "none"]
      /\ owned = [c \in Client |-> NoPointer]
  BY <1>1, <1>2 DEF HeapInit, HeapUnits
<1>4. b \in HeapBlock /\ BlockEnd(b) = newAddress /\ b.at = 0
  BY <1>1, <1>2, <1>3 DEF HeapBlock, BlockEnd
<1>5. heapBlocks \in Seq(HeapBlock) /\ Len(heapBlocks) = 1 /\ heapBlocks[1] = b
  BY <1>3, <1>4
<1>6. Tiled(heapBlocks, newAddress)
  BY <1>1, <1>3, <1>4, <1>5 DEF Tiled
<1>7. newAddress \in 0 .. HeapMax /\ memory \in Memory /\ HoldsHeaders(memory, heapBlocks)
  <2>1. 0 \in HeapUnits
    BY <1>1 DEF HeapUnits
  <2> QED
    BY <1>1, <1>3, <1>4, <1>5, <2>1 DEF Memory, HoldsHeaders
<1>8. \A c \in Client : owned[c].ptr = NULL /\ owned[c].size = 0
  BY <1>3 DEF NoPointer
<1>9. owned \in [Client -> [ptr: {NULL} \cup 0 .. HeapMax, size: {0} \cup MallocSize]]
  BY <1>3 DEF NoPointer
<1>10. OwnersIn(heapBlocks, 0, owned, Client) /\ Pointers(owned)
  BY <1>8 DEF OwnersIn, Pointers
<1>11. HoldsData(memory, owned, Client)
  <2> SUFFICES ASSUME NEW d \in Client, NEW u \in owned[d].ptr .. owned[d].ptr + owned[d].size - 1
               PROVE  FALSE
    BY DEF HoldsData
  <2>1. u \in -1 .. -1 + 0 - 1
    BY <1>8 DEF NULL
  <2> QED
    BY <2>1
<1> QED
  BY <1>6, <1>7, <1>9, <1>10, <1>11 DEF HeapInv

\* HeapSound for every size of pages and of the heap, any number of owners and
\* any sizes they ask for (src/stdlib/stdlib.c, src/stdlib/internal/heap.c):
\* malloc and realloc never hand out a unit twice or write a header into a
\* client's memory, realloc keeps what was there, and free never panics.
THEOREM HeapIsSound == HeapSpec => []HeapSound
<1>1. HeapInv /\ [HeapNext]_heapVars => HeapInv'
  <2> SUFFICES ASSUME HeapInv, [HeapNext]_heapVars PROVE HeapInv'
    OBVIOUS
  <2>1. ASSUME NEW c \in Client, Free(c) PROVE HeapInv'
    <3>1. owned[c].ptr # NULL /\ newAddress' = newAddress
      BY <2>1 DEF Free
    <3> QED
      BY <2>1, <3>1, FreeStep DEF Free
  <2>2. ASSUME NEW c \in Client, NEW size \in MallocSize, Malloc(c, size) PROVE HeapInv'
    BY <2>2, MallocStep
  <2>3. ASSUME NEW c \in Client, NEW size \in MallocSize, Realloc(c, size) PROVE HeapInv'
    BY <2>3, ReallocStep
  <2>4. CASE UNCHANGED heapVars
    BY <2>4 DEF HeapInv, heapVars
  <2> QED
    BY <2>1, <2>2, <2>3, <2>4 DEF HeapNext
<1>2. HeapInv => HeapSound
  <2> SUFFICES ASSUME HeapInv PROVE HeapSound
    OBVIOUS
  <2>1. /\ Tiled(heapBlocks, newAddress) /\ heapBlocks \in Seq(HeapBlock)
        /\ Len(heapBlocks) \in Nat /\ DOMAIN heapBlocks = 1 .. Len(heapBlocks)
    BY DEF HeapInv, Tiled
  <2>2. ASSUME NEW i \in DOMAIN heapBlocks
        PROVE  heapBlocks[i] \in [at: 0 .. HeapMax, size: 0 .. HeapMax, reserved: BOOLEAN]
    <3>1. i \in 1 .. Len(heapBlocks)
      BY <2>1
    <3>2. PICK b \in HeapBlock : b = heapBlocks[i]
      BY <2>1, <3>1
    <3>3. b.at + 1 + b.size <= newAddress
      BY <2>1, <3>1, <3>2 DEF Tiled, BlockEnd
    <3>4. newAddress \in Nat /\ newAddress <= HeapMax /\ HeapMax \in Nat
      BY HeapAssumption DEF HeapInv
    <3>5. b.at \in 0 .. HeapMax /\ b.size \in 0 .. HeapMax
      BY <3>3, <3>4 DEF HeapBlock
    <3>6. b \in [at: 0 .. HeapMax, size: 0 .. HeapMax, reserved: BOOLEAN]
      BY <3>5 DEF HeapBlock
    <3> QED
      BY <3>2, <3>6
  <2>3. HeapTypeOK
    BY <2>2 DEF HeapTypeOK, HeapInv, Memory, HeapUnits
  <2>4. HeapTiles
    BY <2>1 DEF HeapTiles, Tiled, Last, BlockEnd
  <2>5. HeapKeepsData
    <3>1. ASSUME NEW b \in Range(heapBlocks) PROVE memory[b.at] = "header"
      <4>1. PICK i \in 1 .. Len(heapBlocks) : heapBlocks[i] = b
        BY <2>1 DEF Range
      <4> QED
        BY <4>1 DEF HeapInv, HoldsHeaders
    <3>2. \A c \in Client : \A u \in owned[c].ptr .. owned[c].ptr + owned[c].size - 1 : memory[u] = c
      BY DEF HeapInv, HoldsData
    <3> QED
      BY <3>1, <3>2 DEF HeapKeepsData
  <2>6. HeapFreeable
    <3> SUFFICES ASSUME NEW c \in Client, owned[c].ptr # NULL
                 PROVE  \E i \in DOMAIN heapBlocks :
                            BlockStart(heapBlocks[i]) = owned[c].ptr /\ heapBlocks[i].reserved
      BY DEF HeapFreeable
    <3>1. PICK m \in 1 .. Len(heapBlocks) : Belongs(heapBlocks[m], owned[c])
      BY DEF HeapInv, OwnersIn
    <3> QED
      BY <2>1, <3>1 DEF Belongs, BlockStart
  <2> QED
    BY <2>3, <2>4, <2>5, <2>6 DEF HeapSound
<1> QED
  BY <1>1, <1>2, HeapStarts, PTL DEF HeapSpec
=============================================================================
