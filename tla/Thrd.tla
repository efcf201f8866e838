-------------------------------- MODULE Thrd --------------------------------
(***************************************************************************)
(* Threads of a program: the table of thread blocks of                     *)
(* src/stdlib/internal/thrd.c and thrd_create, thrd_exit, thrd_join,       *)
(* thrd_current and errno on top of it.                                    *)
(*                                                                         *)
(* No lock protects the table.  Every atomic operation on a block is a     *)
(* step, so is every group of plain stores between two of them.            *)
(***************************************************************************)
EXTENDS Integers, FiniteSets

CONSTANTS
    MAX_THRD,       \* _MAX_THRD: blocks in the table
    ThrdMax,        \* bound: threads of the program, one after another
    RefMax,         \* bound: references to a block
    ResultSize,     \* 256: results are stored in a uint8_t
    Code            \* what a thread function returns

ASSUME ThrdAssumption ==
    /\ MAX_THRD \in Nat \ {0}
    /\ ThrdMax \in Nat \ {0}
    /\ RefMax \in Nat /\ RefMax >= 2
    /\ ResultSize \in Nat \ {0}
    /\ Code \subseteq Nat /\ Code # {}

VARIABLES
    blocks,         \* the table
    thrds,          \* the threads: their place in the library and its locals
    handles,        \* <<index, thread>>: results of thrd_create to be joined
    kept,           \* history: references of a block that errno kept
    raced           \* history: blocks that someone else used while they were freed

thrdVars == <<blocks, thrds, handles, kept, raced>>

BlockIndex == 0 .. MAX_THRD - 1
Tid == 0 .. ThrdMax - 1         \* process->newTid starts at 0 and only grows
NoBlock == MAX_THRD             \* NULL

BlockRecord == [ref: Int, running: BOOLEAN, id: Tid, result: 0 .. ResultSize - 1]

\* "reserve", "init", "split", "id", "start": thrd_create; "entry":
\* _ThrdEntry; "result", "stop": thrd_exit; "find", "ref", "wait", "read":
\* thrd_join; "unref": _ThrdBlockUnref; "clear", "zero": _ThrdBlockFree
ThrdPlace == {"unborn", "entry", "run", "reserve", "init", "split", "id", "start",
              "result", "stop", "find", "ref", "wait", "read", "unref", "clear", "zero",
              "dead", "fault"}

\* The thread thrd_join was asked for, whether it still had the block when the
\* join got it, and the result the join read
JoinRecord == [tid: Tid, named: BOOLEAN, result: 0 .. ResultSize - 1]

ThrdRecord == [
    pc: ThrdPlace,
    block: 0 .. MAX_THRD,       \* the block in hand, or the loop index
    child: Tid,
    unrefs: 0 .. 2,             \* calls of _ThrdBlockUnref ahead
    after: {"run", "dead"},     \* where the call in progress returns to
    code: Code,                 \* what the function of the thread returned
    join: JoinRecord]

ThrdTypeOK ==
    /\ blocks \in [BlockIndex -> BlockRecord]
    /\ thrds \in [Tid -> ThrdRecord]
    /\ handles \subseteq BlockIndex \X Tid
    /\ kept \in [BlockIndex -> Nat]
    /\ raced \subseteq BlockIndex

NoJoin == [tid |-> 0, named |-> FALSE, result |-> 0]

\* What a thread knows when it is not inside the library
Outside(t, where) ==
    [thrds[t] EXCEPT !.pc = where, !.block = NoBlock, !.child = 0, !.unrefs = 0,
                     !.after = "run", !.join = NoJoin]

\* The thread has given up the reference _ThrdBlockReserve took for it.
Left(t) ==
    \/ thrds[t].pc \in {"unborn", "dead"}
    \/ thrds[t].after = "dead" /\ thrds[t].unrefs < 2 /\ thrds[t].pc # "result"

\* Between the fetch_sub that took the last reference and the stores of
\* _ThrdBlockFree
Freeing(i) == {t \in Tid : thrds[t].pc \in {"clear", "zero"} /\ thrds[t].block = i}

\* The history of changes that the stores of a late _ThrdBlockFree destroy
Touch(i) == raced' = IF Freeing(i) # {} THEN raced \cup {i} ELSE raced

-----------------------------------------------------------------------------
(* _ThrdBlockReserve and thrd_create *)

ThrdCreate(t) ==
    /\ thrds[t].pc = "run"
    /\ \E u \in Tid : thrds[u].pc = "unborn"
    /\ thrds' = [thrds EXCEPT ![t].pc = "reserve", ![t].block = 0]
    /\ UNCHANGED <<blocks, handles, kept, raced>>

\* One compare and exchange of the loop
Reserve(t) ==
    LET i == thrds[t].block
    IN  /\ thrds[t].pc = "reserve"
        /\ IF i = NoBlock
           THEN /\ thrds' = [thrds EXCEPT ![t] = Outside(t, "run")]
                /\ UNCHANGED <<blocks, raced>>
           ELSE IF blocks[i].ref = 0
           THEN /\ blocks' = [blocks EXCEPT ![i].ref = 1]
                /\ Touch(i)
                /\ thrds' = [thrds EXCEPT ![t].pc = "init"]
           ELSE /\ thrds' = [thrds EXCEPT ![t].block = i + 1]
                /\ UNCHANGED <<blocks, raced>>
        /\ UNCHANGED <<handles, kept>>

InitBlock(t) ==
    LET i == thrds[t].block
    IN  /\ thrds[t].pc = "init"
        /\ blocks' = [blocks EXCEPT ![i].running = FALSE, ![i].id = 0, ![i].result = 0]
        /\ thrds' = [thrds EXCEPT ![t].pc = "split"]
        /\ UNCHANGED <<handles, kept, raced>>

\* The system call: the new thread runs from here on.
Split(t, u) ==
    /\ thrds[t].pc = "split"
    /\ thrds[u].pc = "unborn"
    /\ \A v \in 0 .. u - 1 : thrds[v].pc # "unborn"
    /\ thrds' = [thrds EXCEPT ![t].pc = "id", ![t].child = u,
                              ![u].pc = "entry", ![u].block = thrds[t].block]
    /\ UNCHANGED <<blocks, handles, kept, raced>>

SplitFails(t) ==
    /\ thrds[t].pc = "split"
    /\ thrds' = [thrds EXCEPT ![t].pc = "clear"]
    /\ raced' = IF blocks[thrds[t].block].ref > 1 THEN raced \cup {thrds[t].block} ELSE raced
    /\ UNCHANGED <<blocks, handles, kept>>

StoreId(t) ==
    /\ thrds[t].pc = "id"
    /\ blocks' = [blocks EXCEPT ![thrds[t].block].id = thrds[t].child]
    /\ thrds' = [thrds EXCEPT ![t].pc = "start"]
    /\ UNCHANGED <<handles, kept, raced>>

Start(t) ==
    LET i == thrds[t].block
    IN  /\ thrds[t].pc = "start"
        /\ blocks' = [blocks EXCEPT ![i].running = TRUE]
        /\ handles' = handles \cup {<<i, thrds[t].child>>}
        /\ thrds' = [thrds EXCEPT ![t] = Outside(t, "run")]
        /\ UNCHANGED <<kept, raced>>

\* Mutant: the new thread does not wait for its id.
EntryAtOnce(t) ==
    /\ thrds[t].pc = "entry"
    /\ thrds' = [thrds EXCEPT ![t] = Outside(t, "run")]
    /\ UNCHANGED <<blocks, handles, kept, raced>>

Entry(t) ==
    /\ thrds[t].pc = "entry"
    /\ blocks[thrds[t].block].running
    /\ thrds' = [thrds EXCEPT ![t] = Outside(t, "run")]
    /\ UNCHANGED <<blocks, handles, kept, raced>>

-----------------------------------------------------------------------------
(* _ThrdBlockById, thrd_exit, thrd_current, errno *)

\* The first block with the id and a reference.  Ids are unique, except for
\* 0, which is the first thread and the first block.
IsById(t, i) ==
    /\ blocks[i].id = t /\ blocks[i].ref # 0
    /\ \A j \in 0 .. i - 1 : blocks[j].id # t \/ blocks[j].ref = 0

FoundById(t) == {i \in BlockIndex : IsById(t, i)}

\* All three calls begin with _ThrdBlockById, and none of them tests for NULL.
\* place, drops and after say what the call does with the block; errno goes
\* back to the program with the reference it took.
ById(t, place, drops, after, code) ==
    /\ thrds[t].pc = "run"
    /\ IF FoundById(t) = {}
       THEN /\ thrds' = [thrds EXCEPT ![t] = Outside(t, "fault")]
            /\ UNCHANGED <<blocks, kept, raced>>
       ELSE \E i \in FoundById(t) :
            /\ blocks[i].ref < RefMax
            /\ blocks' = [blocks EXCEPT ![i].ref = @ + 1]
            /\ Touch(i)
            /\ thrds' = [thrds EXCEPT ![t].pc = place, ![t].unrefs = drops, ![t].after = after,
                                      ![t].code = code,
                                      ![t].block = IF place = "run" THEN NoBlock ELSE i]
            /\ kept' = [kept EXCEPT ![i] = IF place = "run" THEN @ + 1 ELSE @]
    /\ UNCHANGED handles

\* Mutant: the base reference is not dropped.
ThrdExitKeepsBase(t, code) == ById(t, "result", 1, "dead", code)

ThrdExit(t, code) == ById(t, "result", 2, "dead", code)

ThrdCurrent(t) == ById(t, "unref", 1, "run", thrds[t].code)

\* _ErrnoFunc keeps the reference.
ErrnoFunc(t) == ById(t, "run", 0, "run", thrds[t].code)

StoreResult(t) ==
    LET i == thrds[t].block
    IN  /\ thrds[t].pc = "result"
        /\ blocks' = [blocks EXCEPT ![i].result = thrds[t].code % ResultSize]
        /\ thrds' = [thrds EXCEPT ![t].pc = "stop"]
        /\ UNCHANGED <<handles, kept, raced>>

Stop(t) ==
    /\ thrds[t].pc = "stop"
    /\ blocks' = [blocks EXCEPT ![thrds[t].block].running = FALSE]
    /\ thrds' = [thrds EXCEPT ![t].pc = "unref"]
    /\ UNCHANGED <<handles, kept, raced>>

-----------------------------------------------------------------------------
(* thrd_join *)

ThrdJoin(t, h) ==
    /\ thrds[t].pc = "run"
    /\ h \in handles
    /\ h[2] # t
    /\ handles' = handles \ {h}
    /\ thrds' = [thrds EXCEPT ![t].pc = "find", ![t].block = h[1],
                              ![t].join = [NoJoin EXCEPT !.tid = h[2]]]
    /\ UNCHANGED <<blocks, kept, raced>>

\* _ThrdBlockByIndex: thrd_join returns thrd_error for a block nobody holds.
ByIndex(t) ==
    /\ thrds[t].pc = "find"
    /\ thrds' = [thrds EXCEPT ![t] = IF blocks[thrds[t].block].ref = 0
                                     THEN Outside(t, "run")
                                     ELSE [@ EXCEPT !.pc = "ref"]]
    /\ UNCHANGED <<blocks, handles, kept, raced>>

JoinRef(t) ==
    LET i == thrds[t].block
    IN  /\ thrds[t].pc = "ref"
        /\ blocks' = [blocks EXCEPT ![i].ref = @ + 1]
        /\ Touch(i)
        /\ thrds' = [thrds EXCEPT ![t].pc = "wait", ![t].after = "run",
                                  ![t].join.named = ~Left(thrds[t].join.tid)]
        /\ UNCHANGED <<handles, kept>>

JoinWait(t) ==
    /\ thrds[t].pc = "wait"
    /\ ~blocks[thrds[t].block].running
    /\ thrds' = [thrds EXCEPT ![t].pc = "read"]
    /\ UNCHANGED <<blocks, handles, kept, raced>>

JoinRead(t) ==
    /\ thrds[t].pc = "read"
    /\ thrds' = [thrds EXCEPT ![t].pc = "unref", ![t].unrefs = 1,
                              ![t].join.result = blocks[thrds[t].block].result]
    /\ UNCHANGED <<blocks, handles, kept, raced>>

-----------------------------------------------------------------------------
(* _ThrdBlockUnref and _ThrdBlockFree *)

\* The next call of the thread, when t has u more references to drop
Onward(t, u) ==
    IF u > 0 THEN [thrds[t] EXCEPT !.pc = "unref", !.unrefs = u]
             ELSE Outside(t, thrds[t].after)

Unref(t) ==
    LET i == thrds[t].block
    IN  /\ thrds[t].pc = "unref"
        /\ blocks' = [blocks EXCEPT ![i].ref = @ - 1]
        /\ thrds' = [thrds EXCEPT ![t] =
                        IF blocks[i].ref <= 1
                        THEN [thrds[t] EXCEPT !.pc = "clear", !.unrefs = thrds[t].unrefs - 1]
                        ELSE Onward(t, thrds[t].unrefs - 1)]
        /\ Touch(i)
        /\ UNCHANGED <<handles, kept>>

ClearRunning(t) ==
    /\ thrds[t].pc = "clear"
    /\ blocks' = [blocks EXCEPT ![thrds[t].block].running = FALSE]
    /\ thrds' = [thrds EXCEPT ![t].pc = "zero"]
    /\ UNCHANGED <<handles, kept, raced>>

ZeroRef(t) ==
    /\ thrds[t].pc = "zero"
    /\ blocks' = [blocks EXCEPT ![thrds[t].block].ref = 0]
    /\ thrds' = [thrds EXCEPT ![t] = Onward(t, thrds[t].unrefs)]
    /\ kept' = [kept EXCEPT ![thrds[t].block] = 0]
    /\ UNCHANGED <<handles, raced>>

-----------------------------------------------------------------------------
\* _ThrdInit: the first thread has the first block.
ThrdInit ==
    /\ blocks = [i \in BlockIndex |-> [ref |-> IF i = 0 THEN 1 ELSE 0, running |-> i = 0,
                                       id |-> 0, result |-> 0]]
    /\ \E c \in Code :
        thrds = [t \in Tid |-> [pc |-> IF t = 0 THEN "run" ELSE "unborn", block |-> NoBlock,
                                child |-> 0, unrefs |-> 0, after |-> "run",
                                code |-> c, join |-> NoJoin]]
    /\ handles = {}
    /\ kept = [i \in BlockIndex |-> 0]
    /\ raced = {}

\* The steps of a thread inside the library
ThrdStep(t) ==
    \/ Reserve(t) \/ InitBlock(t) \/ (\E u \in Tid : Split(t, u)) \/ SplitFails(t)
    \/ StoreId(t) \/ Start(t) \/ Entry(t)
    \/ StoreResult(t) \/ Stop(t)
    \/ ByIndex(t) \/ JoinRef(t) \/ JoinWait(t) \/ JoinRead(t)
    \/ Unref(t) \/ ClearRunning(t) \/ ZeroRef(t)

ThrdNext ==
    \E t \in Tid :
        \/ ThrdCreate(t)
        \/ \E code \in Code : ThrdExit(t, code)
        \/ ThrdCurrent(t)
        \/ ErrnoFunc(t)
        \/ \E h \in handles : ThrdJoin(t, h)
        \/ ThrdStep(t)

ThrdSpec == ThrdInit /\ [][ThrdNext]_thrdVars

-----------------------------------------------------------------------------
(* Properties *)

Owns(t, i) ==
    \/ thrds[t].pc \in {"init", "split", "entry"} /\ thrds[t].block = i
    \/ thrds[t].pc # "entry" /\ ~Left(t) /\ blocks[i].id = t /\ (t = 0 => i = 0)

Borrows(t, i) ==
    thrds[t].block = i /\ thrds[t].pc \in {"result", "stop", "wait", "read", "unref"}

(***************************************************************************)
(* The reference count of a block is one for its thread, one for every     *)
(* call that uses it and what errno has kept, although nothing orders      *)
(* thrd_create, thrd_exit and thrd_join.  Excepted are blocks being freed, *)
(* and blocks on which a reservation or a join fell between the last       *)
(* fetch_sub and the stores of _ThrdBlockFree, which then wipe it out.     *)
(***************************************************************************)
ThrdRefs ==
    \A i \in BlockIndex :
        i \notin raced /\ Freeing(i) = {}
            => blocks[i].ref = kept[i] + Cardinality({t \in Tid : Owns(t, i)})
                                       + Cardinality({t \in Tid : Borrows(t, i)})

(***************************************************************************)
(* A thread finds its own block whenever it asks for it, so thrd_exit and  *)
(* errno, which test for no NULL, are safe: thrd_create lets the thread go *)
(* only after it has stored its id.                                        *)
(***************************************************************************)
ThrdFindsBlock ==
    raced = {} => \A t \in Tid : thrds[t].pc # "fault"

(***************************************************************************)
(* A thrd_join that got hold of the block in time returns after the thread *)
(* has left its function, with the (truncated) result of that thread, and  *)
(* is not held up once it has: nobody else gets the block meanwhile.       *)
(***************************************************************************)
ThrdJoinResult ==
    \A t \in Tid :
        LET u == thrds[t].join.tid
            i == thrds[t].block
            ended == \/ thrds[u].pc = "dead"
                     \/ thrds[u].after = "dead" /\ thrds[u].pc \notin {"result", "stop"}
        IN  thrds[t].join.named /\ i \notin raced =>
                /\ thrds[t].pc = "wait" /\ ended => ~blocks[i].running
                /\ thrds[t].pc = "unref" => /\ ended
                                            /\ thrds[t].join.result = thrds[u].code % ResultSize

(***************************************************************************)
(* The calls of a thread work on the right block: its own one, or the one  *)
(* it joins.                                                               *)
(***************************************************************************)
ThrdOnItsBlock == ThrdTypeOK /\ ThrdFindsBlock /\ ThrdJoinResult
=============================================================================
