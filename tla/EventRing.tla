----------------------------- MODULE EventRing ------------------------------
(***************************************************************************)
(* The event rings: the keyboard (src/kernel/kbd.c), the mouse             *)
(* (src/kernel/mouse.c) and the messages of a window                       *)
(* (src/kernel/dwm/msg_queue.c).  They are one algorithm: a push never     *)
(* looks at the readers.  A keyboard or a mouse is read through files,     *)
(* each with a position of its own, and without a timeout; a message queue *)
(* has one read index, and a timeout.                                      *)
(*                                                                         *)
(* An event is one bit: for a keyboard, the modifier it was sent with.     *)
(***************************************************************************)
EXTENDS Sequences, Integers

CONSTANTS
    EventReader,    \* files
    RING_MAX        \* KBD_MAX_EVENT, MOUSE_MAX_EVENT, MSG_QUEUE_MAX

ASSUME RingAssumption == RING_MAX \in Nat \ {0, 1}

VARIABLES
    kind,           \* "kbd", "mouse" or "msg"
    slots, writeIndex,
    mods,           \* kbd->mods, one modifier
    put,            \* the event of the last push
    ereader         \* the readers, their file->pos, and what they got

ringVars == <<kind, slots, writeIndex, mods, put, ereader>>

Slot == 0 .. RING_MAX - 1

\* "idle"; "test": about to take the lock and test the condition; "release":
\* it was false, the lock is released; "blocked": in the list of the blocker
EventReaderRecord == [pc: {"idle", "test", "release", "blocked"}, pos: Slot,
                      got: {<<>>} \cup {<<e>> : e \in BOOLEAN}]

RingTypeOK ==
    /\ kind \in {"kbd", "mouse", "msg"}
    /\ slots \in [Slot -> BOOLEAN] /\ writeIndex \in Slot
    /\ mods \in BOOLEAN /\ put \in BOOLEAN
    /\ ereader \in [EventReader -> EventReaderRecord]

-----------------------------------------------------------------------------
(* kbd_push, mouse_push, msg_queue_push *)

\* Mutant: the event goes to the slot after the index.
PushedNext(e) ==
    /\ writeIndex' = (writeIndex + 1) % RING_MAX
    /\ slots' = [slots EXCEPT ![writeIndex'] = e]

Pushed(e) ==
    /\ slots' = [slots EXCEPT ![writeIndex] = e]
    /\ writeIndex' = (writeIndex + 1) % RING_MAX

\* sched_unblock
Woken ==
    [r \in EventReader |->
        IF ereader[r].pc = "blocked" THEN [ereader[r] EXCEPT !.pc = "test"] ELSE ereader[r]]

\* A key of the modifier, or another key (type "none")
KbdPush(type) ==
    /\ kind = "kbd"
    /\ mods' = CASE type = "press" -> TRUE [] type = "release" -> FALSE [] OTHER -> mods
    /\ Pushed(mods')
    /\ put' = mods'
    /\ ereader' = Woken
    /\ UNCHANGED kind

MousePush(buttons) ==
    /\ kind = "mouse"
    /\ Pushed(buttons)
    /\ put' = buttons
    /\ ereader' = Woken
    /\ UNCHANGED <<kind, mods>>

MsgQueuePush(type) ==
    /\ kind = "msg"
    /\ Pushed(type)
    /\ put' = type
    /\ ereader' = Woken
    /\ UNCHANGED <<kind, mods>>

-----------------------------------------------------------------------------
(* kbd_read, mouse_read, msg_queue_pop *)

\* One thread reads the messages of a window.
MsgReader == CHOOSE r \in EventReader : TRUE

EventRead(r) ==
    /\ ereader[r].pc = "idle"
    /\ kind = "msg" => r = MsgReader
    /\ ereader' = [ereader EXCEPT ![r].pc = "test"]
    /\ UNCHANGED <<kind, slots, writeIndex, mods, put>>

\* The condition of SCHED_BLOCK_LOCK, under the lock of the ring
EventWait(r) ==
    /\ ereader[r].pc = "test"
    /\ ereader[r].pos = writeIndex
    /\ ereader' = [ereader EXCEPT ![r].pc = "release"]
    /\ UNCHANGED <<kind, slots, writeIndex, mods, put>>

EventTake(r) ==
    /\ ereader[r].pc = "test"
    /\ ereader[r].pos # writeIndex
    /\ ereader' = [ereader EXCEPT ![r] = [pc |-> "idle", pos |-> (ereader[r].pos + 1) % RING_MAX,
                                          got |-> <<slots[ereader[r].pos]>>]]
    /\ UNCHANGED <<kind, slots, writeIndex, mods, put>>

\* sched_block
EventBlock(r) ==
    /\ ereader[r].pc = "release"
    /\ ereader' = [ereader EXCEPT ![r].pc = "blocked"]
    /\ UNCHANGED <<kind, slots, writeIndex, mods, put>>

\* BLOCK_TIMEOUT: the condition is not tested again.
EventTimeout(r) ==
    /\ kind = "msg"
    /\ ereader[r].pc \in {"test", "blocked"}
    /\ ereader' = [ereader EXCEPT ![r].pc = "idle"]
    /\ UNCHANGED <<kind, slots, writeIndex, mods, put>>

-----------------------------------------------------------------------------
\* A file begins at position zero, when the ring does.
RingInit ==
    /\ kind \in {"kbd", "mouse", "msg"}
    /\ slots = [i \in Slot |-> FALSE] /\ writeIndex = 0
    /\ mods = FALSE /\ put = FALSE
    /\ ereader = [r \in EventReader |-> [pc |-> "idle", pos |-> 0, got |-> <<>>]]

RingNext ==
    \/ \E type \in {"press", "release", "none"} : KbdPush(type)
    \/ \E e \in BOOLEAN : MousePush(e) \/ MsgQueuePush(e)
    \/ \E r \in EventReader :
        EventRead(r) \/ EventWait(r) \/ EventTake(r) \/ EventBlock(r) \/ EventTimeout(r)

RingSpec == RingInit /\ [][RingNext]_ringVars

-----------------------------------------------------------------------------
(* Properties *)

\* The slots from the reader's position to the write index
Unread(r) ==
    [i \in 1 .. (writeIndex - ereader[r].pos) % RING_MAX |->
        slots[(ereader[r].pos + i - 1) % RING_MAX]]

(***************************************************************************)
(* The ring implements the queue of module EventQueue: a reader that a     *)
(* push laps loses every event it has not read, at once and not only the   *)
(* oldest; one that keeps up loses none, whether it was blocked, about to  *)
(* block, or gave up at its timeout.  No index leaves the ring.            *)
(***************************************************************************)
Queue == INSTANCE EventQueue WITH
    Reader <- EventReader, Event <- BOOLEAN, QueueMax <- RING_MAX,
    unread <- [r \in EventReader |-> Unread(r)], got <- [r \in EventReader |-> ereader[r].got]

RingIsQueue == []RingTypeOK /\ Queue!EQSpec
=============================================================================
