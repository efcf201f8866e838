-------------------------------- MODULE Pipe --------------------------------
(***************************************************************************)
(* A pipe: src/kernel/pipe.c over the ring of ring.h, the reference        *)
(* counted files of vfs.c and vfs_context.c, and the blocking protocol     *)
(* SCHED_BLOCK_LOCK of sched.h.                                            *)
(*                                                                         *)
(* A critical section under the pipe's lock or the blocker's lock is one   *)
(* step (module Lock shows that the locks exclude).  What SCHED_BLOCK_LOCK *)
(* does between two of them is not: it releases the pipe's lock and only   *)
(* then calls sched_block, whose thread gets on the blocker's list when    *)
(* its CPU next runs sched_schedule (module Sched, PickBlock).             *)
(***************************************************************************)
EXTENDS Integers, Sequences, FiniteSets, FiniteSetsExt

CONSTANTS
    Thread,
    RING_SIZE,
    Count,      \* byte counts passed to read and write
    MaxFd,      \* bound on the descriptors of one end of the pipe
    Values      \* number of byte values; the bytes are numbered in the order written

ASSUME RingAssumption == RING_SIZE \in Nat \ {0} /\ Count \subseteq Nat
ASSUME ValuesAssumption == Values \in Nat /\ Values > RING_SIZE
ASSUME FdAssumption == MaxFd \in Nat \ {0} /\ IsFiniteSet(Thread)

VARIABLES
    ring,       \* private->ring
    closed,     \* private->readClosed, private->writeClosed
    freed,      \* pipe_private_free has run
    waiters,    \* private->blocker.threads
    fds,        \* descriptors of each end, in all processes
    ref,        \* file->ref of each end
    task,       \* the system call each thread is in
    sent,       \* bytes written so far, modulo Values
    got,        \* bytes read so far, modulo Values
    delivered   \* the buffer of the last read

vars == <<ring, closed, freed, waiters, fds, ref, task, sent, got, delivered>>

End == {"read", "write"}
Byte == 0 .. Values - 1
Index == 0 .. RING_SIZE - 1

Ring == [
    buffer: [Index -> Byte],
    readIndex: Index,
    writeIndex: Index,
    dataLength: 0 .. RING_SIZE]

\* "test": about to take the lock and evaluate the condition; "block": the lock
\* is released, sched_block not yet effective; "parked": on the blocker's list;
\* "unblock": about to call sched_unblock; "leave": the FILE_DEFER at the end of
\* the system call; "cleanup", "free": in the cleanup of the last reference
Task == [
    pc: {"user", "test", "block", "parked", "unblock", "leave", "cleanup", "free", "panic"},
    end: End,
    count: Count \cup {0}]

TypeOK ==
    /\ ring \in Ring
    /\ closed \in [End -> BOOLEAN]
    /\ freed \in BOOLEAN
    /\ waiters \in Seq(Thread)
    /\ fds \in [End -> 0 .. MaxFd]
    /\ ref \in [End -> Nat]
    /\ task \in [Thread -> Task]
    /\ sent \in Byte /\ got \in Byte
    /\ delivered \in Seq(Byte)

-----------------------------------------------------------------------------
(* ring.h *)

\* Mutant: the lower half starts again at the beginning of the buffer.
RingWriteRepeats(r, data) ==
    LET upperHalfSize == RING_SIZE - r.writeIndex
        lowerHalfSize == Len(data) - upperHalfSize
    IN  [r EXCEPT
            !.buffer = [k \in Index |->
                IF k >= r.writeIndex /\ k < r.writeIndex + Len(data) THEN data[k - r.writeIndex + 1]
                ELSE IF k < lowerHalfSize THEN data[k + 1] ELSE @[k]],
            !.writeIndex = (@ + Len(data)) % RING_SIZE,
            !.dataLength = @ + Len(data)]

\* memcpy to the upper half, and what does not fit to the lower half
RingWrite(r, data) ==
    LET upperHalfSize == RING_SIZE - r.writeIndex
        lowerHalfSize == Len(data) - upperHalfSize
    IN  [r EXCEPT
            !.buffer = [k \in Index |->
                IF k >= r.writeIndex /\ k < r.writeIndex + Len(data) THEN data[k - r.writeIndex + 1]
                ELSE IF k < lowerHalfSize THEN data[upperHalfSize + k + 1] ELSE @[k]],
            !.writeIndex = (@ + Len(data)) % RING_SIZE,
            !.dataLength = @ + Len(data)]

RingData(r, n) ==
    LET upperHalfSize == RING_SIZE - r.readIndex
    IN  [i \in 1 .. n |-> IF i <= upperHalfSize THEN r.buffer[r.readIndex + i - 1]
                                                ELSE r.buffer[i - upperHalfSize - 1]]

RingConsume(r, n) ==
    [r EXCEPT !.readIndex = (@ + n) % RING_SIZE, !.dataLength = @ - n]

DataLength == ring.dataLength
FreeLength == RING_SIZE - ring.dataLength

-----------------------------------------------------------------------------
(* System calls *)

Goto(t, pc) == [task EXCEPT ![t].pc = pc]

Done(t) == [task EXCEPT ![t] = [pc |-> "user", end |-> "read", count |-> 0]]

\* vfs_context_get
GetFile(e) == [ref EXCEPT ![e] = @ + 1]

\* syscall_read or syscall_write of a descriptor; a count that the ring can
\* never hold is refused
Enter(t, e, n) ==
    /\ task[t].pc = "user"
    /\ fds[e] > 0
    /\ ref' = GetFile(e)
    /\ task' = [task EXCEPT ![t] = [pc |-> IF n >= RING_SIZE THEN "leave" ELSE "test",
                                    end |-> e, count |-> n]]
    /\ UNCHANGED <<ring, closed, freed, waiters, fds, sent, got, delivered>>

\* The condition in pipe_read and in pipe_write
Condition(t) ==
    IF task[t].end = "read" THEN DataLength >= task[t].count \/ closed["write"]
                            ELSE FreeLength >= task[t].count \/ closed["read"]

\* SCHED_BLOCK_LOCK: the condition is false, the lock is released
Test(t) ==
    /\ task[t].pc = "test"
    /\ ~Condition(t)
    /\ task' = Goto(t, "block")
    /\ UNCHANGED <<ring, closed, freed, waiters, fds, ref, sent, got, delivered>>

\* sched_block(blocker, NEVER), up to blocker_push
Park(t) ==
    /\ task[t].pc = "block"
    /\ task' = Goto(t, "parked")
    /\ waiters' = Append(waiters, t)
    /\ UNCHANGED <<ring, closed, freed, fds, ref, sent, got, delivered>>

ReadCount(t) ==
    IF closed["write"] THEN Min({task[t].count, DataLength}) ELSE task[t].count

\* pipe_read under the lock, with the LOG_ASSERT on ring_read
Read(t) ==
    LET n == ReadCount(t)
    IN  /\ task[t].pc = "test"
        /\ task[t].end = "read"
        /\ Condition(t)
        /\ IF n > DataLength
           THEN /\ task' = Goto(t, "panic")
                /\ UNCHANGED <<ring, got, delivered>>
           ELSE /\ task' = Goto(t, "unblock")
                /\ delivered' = RingData(ring, n)
                /\ got' = (got + n) % Values
                /\ ring' = RingConsume(ring, n)
        /\ UNCHANGED <<closed, freed, waiters, fds, ref, sent>>

\* pipe_write under the lock: EPIPE, or ring_write with its LOG_ASSERT
Write(t) ==
    LET n == task[t].count
        data == [i \in 1 .. n |-> (sent + i) % Values]
    IN  /\ task[t].pc = "test"
        /\ task[t].end = "write"
        /\ Condition(t)
        /\ IF closed["read"]
           THEN task' = Goto(t, "unblock") /\ UNCHANGED <<ring, sent>>
           ELSE IF n > FreeLength
           THEN task' = Goto(t, "panic") /\ UNCHANGED <<ring, sent>>
           ELSE /\ task' = Goto(t, "unblock")
                /\ sent' = (sent + n) % Values
                /\ ring' = RingWrite(ring, data)
        /\ UNCHANGED <<closed, freed, waiters, fds, ref, got, delivered>>

\* sched_unblock: every thread of the list is woken and tests again
Unblock(t) ==
    /\ task[t].pc = "unblock"
    /\ waiters' = <<>>
    /\ task' = [u \in Thread |->
          IF task[u].pc = "parked" THEN [task[u] EXCEPT !.pc = "test"]
          ELSE IF u = t THEN [task[u] EXCEPT !.pc = "leave"] ELSE task[u]]
    /\ UNCHANGED <<ring, closed, freed, fds, ref, sent, got, delivered>>

\* file_deref: the last reference runs the cleanup
Deref(t, e) ==
    /\ ref' = [ref EXCEPT ![e] = @ - 1]
    /\ task' = IF ref[e] <= 1
               THEN [task EXCEPT ![t] = [pc |-> "cleanup", end |-> e, count |-> 0]]
               ELSE Done(t)

Leave(t) ==
    /\ task[t].pc = "leave"
    /\ Deref(t, task[t].end)
    /\ UNCHANGED <<ring, closed, freed, waiters, fds, sent, got, delivered>>

\* vfs_context_close, and each file of vfs_context_cleanup
Close(t, e) ==
    /\ task[t].pc = "user"
    /\ fds[e] > 0
    /\ fds' = [fds EXCEPT ![e] = @ - 1]
    /\ Deref(t, e)
    /\ UNCHANGED <<ring, closed, freed, waiters, sent, got, delivered>>

\* vfs_context_openat: a spawned process inherits a descriptor
Share(t, e) ==
    /\ task[t].pc = "user"
    /\ fds[e] > 0
    /\ fds[e] < MaxFd
    /\ fds' = [fds EXCEPT ![e] = @ + 1]
    /\ ref' = [ref EXCEPT ![e] = @ + 1]
    /\ UNCHANGED <<ring, closed, freed, waiters, task, sent, got, delivered>>

\* Mutant: the other end is not looked at.
CleanupAlone(t) ==
    /\ task[t].pc = "cleanup"
    /\ closed' = [closed EXCEPT ![task[t].end] = TRUE]
    /\ task' = Goto(t, "free")
    /\ UNCHANGED <<ring, freed, waiters, fds, ref, sent, got, delivered>>

\* Mutant: the end is marked closed, and nobody frees the pipe.
CleanupLeaks(t) ==
    /\ task[t].pc = "cleanup"
    /\ closed' = [closed EXCEPT ![task[t].end] = TRUE]
    /\ task' = Done(t)
    /\ UNCHANGED <<ring, freed, waiters, fds, ref, sent, got, delivered>>

\* pipe_read_cleanup, pipe_write_cleanup: the second one frees the pipe
Cleanup(t) ==
    LET e == task[t].end
    IN  /\ task[t].pc = "cleanup"
        /\ closed' = [closed EXCEPT ![e] = TRUE]
        /\ task' = IF \A o \in End \ {e} : closed[o] THEN Goto(t, "free") ELSE Done(t)
        /\ UNCHANGED <<ring, freed, waiters, fds, ref, sent, got, delivered>>

\* pipe_private_free; blocker_cleanup panics if a thread still waits
Free(t) ==
    /\ task[t].pc = "free"
    /\ IF waiters # <<>>
       THEN task' = Goto(t, "panic") /\ UNCHANGED freed
       ELSE task' = Done(t) /\ freed' = TRUE
    /\ UNCHANGED <<ring, closed, waiters, fds, ref, sent, got, delivered>>

-----------------------------------------------------------------------------
\* pipe_init and syscall_pipe
Init ==
    /\ ring = [buffer |-> [k \in Index |-> 0], readIndex |-> 0, writeIndex |-> 0, dataLength |-> 0]
    /\ closed = [e \in End |-> FALSE]
    /\ freed = FALSE
    /\ waiters = <<>>
    /\ fds = [e \in End |-> 1]
    /\ ref = [e \in End |-> 1]
    /\ task = [t \in Thread |-> [pc |-> "user", end |-> "read", count |-> 0]]
    /\ sent = 0 /\ got = 0
    /\ delivered = <<>>

\* The rest of a system call
Proceed(t) ==
    \/ Test(t)
    \/ Park(t)
    \/ Read(t)
    \/ Write(t)
    \/ Unblock(t)
    \/ Leave(t)
    \/ Cleanup(t)
    \/ Free(t)

Next ==
    \E t \in Thread :
        \/ \E e \in End, n \in Count : Enter(t, e, n)
        \/ \E e \in End : Close(t, e) \/ Share(t, e)
        \/ Proceed(t)

Spec == Init /\ [][Next]_vars

\* A thread that is ready gets a CPU (Sched, ReadyRuns).  Nothing makes it
\* start another system call.
FairSpec == Spec /\ \A t \in Thread : WF_vars(Proceed(t))

-----------------------------------------------------------------------------
(* Properties *)

RingContent == [i \in 1 .. DataLength |-> ring.buffer[(ring.readIndex + i - 1) % RING_SIZE]]

(***************************************************************************)
(* The pipe is a queue of bytes: what is in the ring are the bytes written *)
(* and not yet read, in the order written, and the last read returned the  *)
(* ones before them, whichever threads read and write and however the ring *)
(* wraps around.                                                           *)
(***************************************************************************)
InOrder ==
    /\ RingContent = [i \in 1 .. DataLength |-> (got + i) % Values]
    /\ sent = (got + DataLength) % Values
    /\ delivered = [i \in 1 .. Len(delivered) |-> (got - Len(delivered) + i) % Values]

(***************************************************************************)
(* The LOG_ASSERTs on ring_read and ring_write and the panic of            *)
(* blocker_cleanup ("Blocker with pending threads freed") do not happen.   *)
(***************************************************************************)
NeverPanics == \A t \in Thread : task[t].pc # "panic"

(***************************************************************************)
(* The private part of the pipe is not freed while a thread is in          *)
(* pipe_read, pipe_write or a cleanup, not even when another thread closes *)
(* the descriptor in the meantime.                                         *)
(***************************************************************************)
NoUseAfterFree ==
    \A t \in Thread :
        task[t].pc \in {"test", "block", "parked", "unblock", "cleanup", "free"} => ~freed

(***************************************************************************)
(* When the last descriptors of both ends are gone, the pipe is freed,     *)
(* unless a thread is still asleep in it.                                  *)
(***************************************************************************)
PrivateFreed ==
    (\A e \in End : fds[e] = 0) ~> (freed \/ waiters # <<>>)

(***************************************************************************)
(* "Blocks untill condition is true, condition will be tested after every  *)
(* call to sched_unblock" (sched.h): a reader that sleeps while enough     *)
(* bytes are in the ring wakes up.                                         *)
(***************************************************************************)
DataSeen ==
    \A t \in Thread :
        (task[t].pc = "parked" /\ task[t].end = "read" /\ DataLength >= task[t].count)
            ~> task[t].pc # "parked"

(***************************************************************************)
(* No call on a pipe stops the kernel: no assertion fails, nothing that    *)
(* was freed is used, and no index of the ring leaves the buffer.          *)
(***************************************************************************)
NoFault == TypeOK /\ NeverPanics /\ NoUseAfterFree
=============================================================================
