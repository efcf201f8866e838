-------------------------------- MODULE Vfs --------------------------------
(***************************************************************************)
(* Files, descriptor tables and volumes: the reference counts of           *)
(* src/kernel/vfs.c, the tables of vfs_context.c, and the system calls of  *)
(* syscall.c that use them.                                                *)
(*                                                                         *)
(* A critical section under volumesLock or a table's lock is one step, an  *)
(* atomic operation on a reference count is one step, and everything else  *)
(* of a call (the file operation itself, the directory search of a file    *)
(* system) is the time between two steps.                                  *)
(***************************************************************************)
EXTENDS Integers, FiniteSets, FiniteSetsExt

CONSTANTS
    Process,        \* process_t slots
    Thread,         \* threads
    Owner,          \* the process slot of each thread
    File,           \* file_t slots of the allocator
    Volume,         \* volume labels
    Unmountable,    \* volumes whose file system has an unmount operation
    CONFIG_MAX_FD,
    Hands,          \* most files one call holds; CONFIG_MAX_FD in syscall_poll
    None            \* NULL

ASSUME OwnerAssumption == Owner \in [Thread -> Process] /\ Thread \cap Process = {}
ASSUME FdAssumption == CONFIG_MAX_FD \in Nat \ {0} /\ Hands \in Nat \ {0, 1}
ASSUME VfsNoneAssumption == None \notin File \cup Volume \cup Process
ASSUME SlotAssumption ==
    /\ IsFiniteSet(Process) /\ IsFiniteSet(Thread) /\ IsFiniteSet(File)
    /\ File \cap (Thread \cup Process) = {}

VARIABLES
    volume,     \* volume_t: on the list "volumes", and its reference count
    file,       \* file_t
    files,      \* context->files of every process
    process,    \* "free", "new" (before its sched_push), "live" or "dead"
    task,       \* locals of a system call, or of process_free
    hold        \* the file_t pointers in those locals

vars == <<volume, file, files, process, task, hold>>

Fd == 0 .. CONFIG_MAX_FD - 1
Hand == 1 .. Hands

\* Who runs VFS code: a thread in a system call, and for each process the
\* process_free behind its last thread
Actor == Thread \cup Process

VolumeRecord == [attached: BOOLEAN, ref: Nat]

FileRecord == [live: BOOLEAN, ref: Nat, volume: Volume \cup {None}]

\* "volume": in a file system's open, stat or listdir; "install", "second": before
\* the first and the second vfs_context_open; "rollback": the second one failed;
\* "get": collecting the files of the arguments; "op": in the file operation; "spawn", "give": in the loop of
\* syscall_spawn; "cleanup": in vfs_context_cleanup; "defer": dropping the files
\* the call still holds
Task == [
    pc: {"user", "volume", "install", "second", "rollback", "get", "op", "spawn", "give", "cleanup", "defer"},
    volume: Volume \cup {None},
    pipe: BOOLEAN,                  \* syscall_pipe: a second file is to be installed
    fd: Fd,                         \* descriptor of the read end, in syscall_pipe
    locked: BOOLEAN,                \* inside vfs_context_close, with the lock of the table
    destroy: File \cup {None},      \* file_deref got the last reference of it
    child: Process \cup {None}]     \* the process spawned, or the one freed

TypeOK ==
    /\ volume \in [Volume -> VolumeRecord]
    /\ file \in [File -> FileRecord]
    /\ files \in [Process -> [Fd -> File \cup {None}]]
    /\ process \in [Process -> {"free", "new", "live", "dead"}]
    /\ task \in [Actor -> Task]
    /\ hold \in [Actor -> [Hand -> File \cup {None}]]

-----------------------------------------------------------------------------
(* Helpers *)

IdleTask == [pc |-> "user", volume |-> None, pipe |-> FALSE, fd |-> 0, locked |-> FALSE,
             destroy |-> None, child |-> None]

EmptyHands == [i \in Hand |-> None]

FreeFile == [live |-> FALSE, ref |-> 0, volume |-> None]

\* A thread of a running process is about to enter a system call.
Calls(t) == task[t].pc = "user" /\ process[Owner[t]] = "live"

\* LOCK_GUARD(&context->lock) of the table of p
Unlocked(p) == \A t \in Thread : Owner[t] = p => ~task[t].locked

FreeFds(p) == {d \in Fd : files[p][d] = None}

\* file_new
NewFile(v) == [live |-> TRUE, ref |-> 1, volume |-> v]

\* Mutant: the pointer is copied, the count is not.
FileRefNone(f) == file

FileRef(f) == [file EXCEPT ![f].ref = @ + 1]

\* file_deref up to its test; the rest, for the last reference, is Destroy.
Deref(f) == [file EXCEPT ![f].ref = @ - 1]

Doomed(f) == IF file[f].ref <= 1 THEN f ELSE None

-----------------------------------------------------------------------------
(* Volumes *)

\* vfs_mount, vfs_attach_simple
Attach(v) ==
    /\ ~volume[v].attached
    /\ volume' = [volume EXCEPT ![v] = [attached |-> TRUE, ref |-> 1]]
    /\ UNCHANGED <<file, files, process, task, hold>>

\* vfs_unmount that succeeds; EBUSY and EACCES change nothing
Unmount(v) ==
    /\ v \in Unmountable
    /\ volume[v].attached
    /\ volume[v].ref = 1
    /\ volume' = [volume EXCEPT ![v] = [attached |-> FALSE, ref |-> 0]]
    /\ UNCHANGED <<file, files, process, task, hold>>

\* vfs_open, vfs_stat, vfs_listdir: volume_get
VolumeGet(t, v) ==
    /\ Calls(t)
    /\ volume[v].attached
    /\ volume' = [volume EXCEPT ![v].ref = @ + 1]
    /\ task' = [task EXCEPT ![t].pc = "volume", ![t].volume = v]
    /\ UNCHANGED <<file, files, process, hold>>

\* vfs_stat and vfs_listdir end, or vfs_open fails
VolumeDone(t) ==
    /\ task[t].pc = "volume"
    /\ volume' = [volume EXCEPT ![task[t].volume].ref = @ - 1]
    /\ task' = [task EXCEPT ![t] = IdleTask]
    /\ UNCHANGED <<file, files, process, hold>>

\* The file system opens the file: the file takes over the volume reference.
OpenFile(t, f) ==
    /\ task[t].pc = "volume"
    /\ ~file[f].live
    /\ file' = [file EXCEPT ![f] = NewFile(task[t].volume)]
    /\ hold' = [hold EXCEPT ![t][1] = f]
    /\ task' = [task EXCEPT ![t].pc = "install", ![t].volume = None]
    /\ UNCHANGED <<volume, files, process>>

-----------------------------------------------------------------------------
(* Descriptors *)

\* syscall_pipe, pipe_init: two files without a volume
PipeInit(t, f, g) ==
    /\ Calls(t)
    /\ f # g /\ ~file[f].live /\ ~file[g].live
    /\ file' = [file EXCEPT ![f] = NewFile(None), ![g] = NewFile(None)]
    /\ hold' = [hold EXCEPT ![t][1] = f, ![t][2] = g]
    /\ task' = [task EXCEPT ![t].pc = "install", ![t].pipe = TRUE]
    /\ UNCHANGED <<volume, files, process>>

\* vfs_context_open of the first file of syscall_open or syscall_pipe: the
\* first free descriptor, or EMFILE
Install(t) ==
    LET p == Owner[t]
        f == hold[t][1]
        d == Min(FreeFds(p))
    IN  /\ task[t].pc = "install"
        /\ Unlocked(p)
        /\ IF FreeFds(p) = {}
           THEN /\ task' = [task EXCEPT ![t].pc = "defer"]
                /\ UNCHANGED <<file, files>>
           ELSE /\ files' = [files EXCEPT ![p][d] = f]
                /\ file' = FileRef(f)
                /\ task' = [task EXCEPT ![t].pc = IF task[t].pipe THEN "second" ELSE "defer",
                                        ![t].fd = d]
        /\ UNCHANGED <<volume, process, hold>>

\* vfs_context_open of the write end
InstallSecond(t) ==
    LET p == Owner[t]
        d == Min(FreeFds(p))
    IN  /\ task[t].pc = "second"
        /\ Unlocked(p)
        /\ IF FreeFds(p) = {}
           THEN /\ task' = [task EXCEPT ![t].pc = "rollback"]
                /\ UNCHANGED <<file, files>>
           ELSE /\ files' = [files EXCEPT ![p][d] = hold[t][2]]
                /\ file' = FileRef(hold[t][2])
                /\ task' = [task EXCEPT ![t].pc = "defer"]
        /\ UNCHANGED <<volume, process, hold>>

\* loader_load_program: the file is used without a descriptor
LoadProgram(t) ==
    /\ task[t].pc = "install"
    /\ ~task[t].pipe
    /\ task' = [task EXCEPT ![t].pc = "op"]
    /\ UNCHANGED <<volume, file, files, process, hold>>

\* vfs_context_close: the descriptor is cleared and the file dereferenced
\* under the lock of the table
CloseFd(t, d) ==
    LET p == Owner[t]
        f == files[p][d]
    IN  /\ files' = [files EXCEPT ![p][d] = None]
        /\ file' = Deref(f)
        /\ task' = [task EXCEPT ![t].pc = "defer", ![t].destroy = Doomed(f),
                                ![t].locked = Doomed(f) # None]

\* There was no room for the write end: the descriptor of the read end is
\* closed again, whatever another thread has put behind it by now.
Rollback(t) ==
    /\ task[t].pc = "rollback"
    /\ Unlocked(Owner[t])
    /\ IF files[Owner[t]][task[t].fd] = None
       THEN task' = [task EXCEPT ![t].pc = "defer"] /\ UNCHANGED <<file, files>>
       ELSE CloseFd(t, task[t].fd)
    /\ UNCHANGED <<volume, process, hold>>

\* syscall_close
Close(t, d) ==
    /\ Calls(t)
    /\ Unlocked(Owner[t])
    /\ files[Owner[t]][d] # None
    /\ CloseFd(t, d)
    /\ UNCHANGED <<volume, process, hold>>

\* A call on descriptors begins: syscall_read and the others with one,
\* syscall_poll with several.
UseBegin(t) ==
    /\ Calls(t)
    /\ task' = [task EXCEPT ![t].pc = "get"]
    /\ UNCHANGED <<volume, file, files, process, hold>>

\* vfs_context_get for the next argument; a bad descriptor ends the call
Get(t, i, d) ==
    LET p == Owner[t]
        f == files[p][d]
    IN  /\ task[t].pc = "get"
        /\ Unlocked(p)
        /\ hold[t][i] = None
        /\ \A j \in Hand : j < i => hold[t][j] # None
        /\ IF f = None
           THEN /\ task' = [task EXCEPT ![t].pc = "defer"]
                /\ UNCHANGED <<file, hold>>
           ELSE /\ file' = FileRef(f)
                /\ hold' = [hold EXCEPT ![t][i] = f]
                /\ UNCHANGED task
        /\ UNCHANGED <<volume, files, process>>

\* All arguments are there: the file operation runs
UseFiles(t) ==
    /\ task[t].pc = "get"
    /\ hold[t][1] # None
    /\ task' = [task EXCEPT ![t].pc = "op"]
    /\ UNCHANGED <<volume, file, files, process, hold>>

UseEnd(t) ==
    /\ task[t].pc = "op"
    /\ task' = [task EXCEPT ![t].pc = "defer"]
    /\ UNCHANGED <<volume, file, files, process, hold>>

-----------------------------------------------------------------------------
(* Dropping references *)

\* FILE_DEFER and the last loop of syscall_poll.  pipe_init's files are
\* dropped in the opposite order of a poll's.
DropHand(a, i) ==
    /\ task[a].pc = "defer"
    /\ task[a].destroy = None
    /\ hold[a][i] # None
    /\ file' = Deref(hold[a][i])
    /\ hold' = [hold EXCEPT ![a][i] = None]
    /\ task' = [task EXCEPT ![a].destroy = Doomed(hold[a][i])]
    /\ UNCHANGED <<volume, files, process>>

\* file_deref after the last reference: cleanup, volume_deref, free
Destroy(a) ==
    LET f == task[a].destroy
        v == file[f].volume
    IN  /\ f # None
        /\ volume' = IF v = None THEN volume ELSE [volume EXCEPT ![v].ref = @ - 1]
        /\ file' = [file EXCEPT ![f] = FreeFile]
        /\ task' = [task EXCEPT ![a].destroy = None, ![a].locked = FALSE]
        /\ UNCHANGED <<files, process, hold>>

\* The system call returns; in the loop of syscall_spawn the next pair of
\* descriptors follows.
Return(t) ==
    /\ task[t].pc = "defer"
    /\ task[t].destroy = None
    /\ hold[t] = EmptyHands
    /\ task' = [task EXCEPT ![t] = IF task[t].child = None THEN IdleTask
                                   ELSE [@ EXCEPT !.pc = "spawn"]]
    /\ UNCHANGED <<volume, file, files, process, hold>>

-----------------------------------------------------------------------------
(* Processes *)

\* syscall_spawn, loader_spawn: a process with an empty table
Spawn(t, p) ==
    /\ Calls(t)
    /\ process[p] = "free"
    /\ process' = [process EXCEPT ![p] = "new"]
    /\ task' = [task EXCEPT ![t].pc = "spawn", ![t].child = p]
    /\ UNCHANGED <<volume, file, files, hold>>

\* The error paths of syscall_spawn: thread_free of the new thread
SpawnFails(t) == [task EXCEPT ![t].pc = "cleanup"]

\* vfs_context_get of the parent's descriptor
SpawnGet(t, d) ==
    LET f == files[Owner[t]][d]
    IN  /\ task[t].pc = "spawn"
        /\ Unlocked(Owner[t])
        /\ IF f = None
           THEN task' = SpawnFails(t) /\ UNCHANGED <<file, hold>>
           ELSE /\ file' = FileRef(f)
                /\ hold' = [hold EXCEPT ![t][1] = f]
                /\ task' = [task EXCEPT ![t].pc = "give"]
        /\ UNCHANGED <<volume, files, process>>

\* vfs_context_openat of the child's descriptor
SpawnGive(t, d) ==
    LET q == task[t].child
    IN  /\ task[t].pc = "give"
        /\ IF files[q][d] # None
           THEN task' = SpawnFails(t) /\ UNCHANGED <<file, files>>
           ELSE /\ files' = [files EXCEPT ![q][d] = hold[t][1]]
                /\ file' = FileRef(hold[t][1])
                /\ task' = [task EXCEPT ![t].pc = "defer"]
        /\ UNCHANGED <<volume, process, hold>>

\* sched_push: the threads of the new process run
SpawnPush(t) ==
    /\ task[t].pc = "spawn"
    /\ process' = [process EXCEPT ![task[t].child] = "live"]
    /\ task' = [task EXCEPT ![t] = IdleTask]
    /\ UNCHANGED <<volume, file, files, hold>>

\* The last thread of a process is freed: no thread of it is in a call.
Exit(p) ==
    /\ process[p] = "live"
    /\ \A t \in Thread : Owner[t] = p => task[t].pc = "user"
    /\ process' = [process EXCEPT ![p] = "dead"]
    /\ task' = [task EXCEPT ![p].pc = "cleanup", ![p].child = p]
    /\ UNCHANGED <<volume, file, files, hold>>

\* vfs_context_cleanup, one descriptor
CleanupFd(a, d) ==
    LET p == task[a].child
    IN  /\ task[a].pc = "cleanup"
        /\ task[a].destroy = None
        /\ files[p][d] # None
        /\ \A e \in Fd : e < d => files[p][e] = None
        /\ files' = [files EXCEPT ![p][d] = None]
        /\ file' = Deref(files[p][d])
        /\ task' = [task EXCEPT ![a].destroy = Doomed(files[p][d])]
        /\ UNCHANGED <<volume, process, hold>>

\* The end of process_free.  In syscall_spawn the FILE_DEFER of the pair that
\* failed is still to come.
ProcessFree(a) ==
    LET p == task[a].child
    IN  /\ task[a].pc = "cleanup"
        /\ task[a].destroy = None
        /\ FreeFds(p) = Fd
        /\ process' = [process EXCEPT ![p] = "free"]
        /\ task' = [task EXCEPT ![a] = [IdleTask EXCEPT !.pc = IF a \in Thread THEN "defer" ELSE "user"]]
        /\ UNCHANGED <<volume, file, files, hold>>

-----------------------------------------------------------------------------
\* vfs_init and vfs_context_init of the first process
Init ==
    /\ volume = [v \in Volume |-> [attached |-> FALSE, ref |-> 0]]
    /\ file = [f \in File |-> FreeFile]
    /\ files = [p \in Process |-> [d \in Fd |-> None]]
    /\ \E init \in Process : process = [p \in Process |-> IF p = init THEN "live" ELSE "free"]
    /\ task = [a \in Actor |-> IdleTask]
    /\ hold = [a \in Actor |-> EmptyHands]

\* What a call does once it has begun, or process_free
Continue(a) ==
    \/ VolumeDone(a)
    \/ \E f \in File : OpenFile(a, f)
    \/ \E i \in Hand : DropHand(a, i)
    \/ Destroy(a)
    \/ \E d \in Fd : CleanupFd(a, d)
    \/ ProcessFree(a)

ContinueCall(t) ==
    \/ Continue(t)
    \/ Install(t)
    \/ InstallSecond(t)
    \/ Rollback(t)
    \/ LoadProgram(t)
    \/ \E d \in Fd : SpawnGive(t, d)
    \/ UseEnd(t)
    \/ Return(t)

BeginCall(t) ==
    \/ \E v \in Volume : VolumeGet(t, v)
    \/ \E f, g \in File : PipeInit(t, f, g)
    \/ \E d \in Fd : Close(t, d)
    \/ UseBegin(t)
    \/ \E p \in Process : Spawn(t, p)

\* Calls that go on with an argument of the caller
Argument(t) ==
    \/ \E i \in Hand, d \in Fd : Get(t, i, d)
    \/ UseFiles(t)
    \/ \E d \in Fd : SpawnGet(t, d)
    \/ SpawnPush(t)

Next ==
    \/ \E v \in Volume : Attach(v) \/ Unmount(v)
    \/ \E t \in Thread : BeginCall(t) \/ Argument(t) \/ ContinueCall(t)
    \/ \E p \in Process : Exit(p) \/ Continue(p)

Spec == Init /\ [][Next]_vars

-----------------------------------------------------------------------------
(* Properties *)

\* Everything that counts as a reference to f
References(f) ==
    {x \in Process \X Fd : files[x[1]][x[2]] = f} \cup {x \in Actor \X Hand : hold[x[1]][x[2]] = f}

(***************************************************************************)
(* file->ref is the number of descriptors and of local variables that      *)
(* point to the file, over all processes and calls in progress: spawning,  *)
(* closing a descriptor that another thread is using, failed pipes, polls  *)
(* and spawns included.  So a file is freed by whoever drops the last one  *)
(* and never while somebody can still reach it.                            *)
(***************************************************************************)
FileRefs == \A f \in File : file[f].ref = Cardinality(References(f))

(***************************************************************************)
(* One call destroys a file, and a file in use is not destroyed: the last  *)
(* file_deref is seen by one caller only.                                  *)
(***************************************************************************)
DestroyedOnce ==
    /\ \A a, b \in Actor : task[a].destroy = task[b].destroy /\ task[a].destroy # None => a = b
    /\ \A f \in File : file[f].live <=> \/ References(f) # {}
                                        \/ \E a \in Actor : task[a].destroy = f

\* Everything that counts as a reference to v besides its place in the list
VolumeUsers(v) ==
    {f \in File : file[f].live /\ file[f].volume = v} \cup {a \in Actor : task[a].volume = v}

(***************************************************************************)
(* volume->ref counts the open files of the volume and the calls inside    *)
(* its file system, so vfs_unmount removes no volume that a file or a call *)
(* still points to.                                                        *)
(***************************************************************************)
VolumeRefs ==
    \A v \in Volume :
        /\ VolumeUsers(v) # {} => volume[v].attached
        /\ volume[v].attached => volume[v].ref = 1 + Cardinality(VolumeUsers(v))

(***************************************************************************)
(* Reference counts are exact, of files and of volumes, and whoever drops  *)
(* the last one, and nobody else, destroys the object.                     *)
(***************************************************************************)
RefsExact == TypeOK /\ FileRefs /\ DestroyedOnce /\ VolumeRefs
=============================================================================
