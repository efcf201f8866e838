----------------------------- MODULE ThrdProofs -----------------------------
(***************************************************************************)
(* Proofs about the table of thread blocks of a program (Thrd): for every  *)
(* size of the table and every number of threads, the reference counts are *)
(* exact and a call finds the block it should.                             *)
(*                                                                         *)
(* Only blocks that nobody used while they were freed are spoken of.      *)
(* raced names the others: the late stores of _ThrdBlockFree wipe out what *)
(* was done to them meanwhile.                                             *)
(***************************************************************************)
EXTENDS Thrd, FiniteSetTheorems, TLAPS

-----------------------------------------------------------------------------
(* The table of thread blocks *)

\* t has reserved block i and nobody has been let go on it yet.
OwnsNew(t, i) == thrds[t].pc \in {"init", "split", "entry"} /\ thrds[t].block = i

\* i is the block t finds by its id.
OwnsById(t, i) ==
    thrds[t].pc # "entry" /\ ~Left(t) /\ blocks[i].id = t /\ (t = 0 => i = 0)

\* t still has to give the thread u it has made its id, or to let it go.
Makes(t, u) == thrds[t].pc \in {"id", "start"} /\ thrds[t].child = u

\* t has stored its result and that it has stopped.
Ended(t) ==
    \/ thrds[t].pc = "dead"
    \/ thrds[t].after = "dead" /\ thrds[t].pc \notin {"result", "stop"}

\* What a thread knows at each of its places
LocalFits(t, r) ==
    /\ r.pc \in {"init", "split", "id", "start", "entry", "result", "stop", "find", "ref",
                 "wait", "read", "unref", "clear", "zero"} => r.block \in BlockIndex
    /\ r.pc \in {"run", "dead"} => r.block = NoBlock
    /\ r.pc \in {"result", "stop"} => r.after = "dead" /\ r.unrefs = 2
    /\ r.pc = "unref" => r.unrefs # 0
    /\ r.pc \notin {"result", "stop", "unref", "clear", "zero"} => r.unrefs = 0
    /\ r.unrefs = 2 => r.pc \in {"result", "stop", "unref"} /\ r.after = "dead"
    /\ r.pc \in {"clear", "zero"} /\ r.after = "run" => r.unrefs = 0
    /\ r.after = "dead" => r.pc \in {"result", "stop", "unref", "clear", "zero"}
    /\ r.join.named => r.pc \in {"wait", "read", "unref", "clear", "zero"} /\ r.after = "run"
    /\ r.pc \in {"id", "start"} => r.child # 0
    /\ r.pc \in {"find", "ref"} => r.join.tid # 0
    /\ t = 0 => r.pc \notin {"unborn", "entry"}

LocalInv == \A t \in Tid : LocalFits(t, thrds[t])

\* An id names one block, and is stored once, by the thread that made the
\* thread; 0 is also what InitBlock writes.
IdOnce(u) ==
    /\ \A i, j \in BlockIndex : blocks[i].id = u /\ blocks[j].id = u => i = j
    /\ \A t \in Tid : Makes(t, u) /\ thrds[t].pc = "id" => \A i \in BlockIndex : blocks[i].id # u
    /\ \A t, s \in Tid : Makes(t, u) /\ Makes(s, u) => t = s
    /\ thrds[u].pc = "unborn" =>
            /\ \A i \in BlockIndex : blocks[i].id # u /\ <<i, u>> \notin handles
            /\ \A t \in Tid : ~Makes(t, u)
            /\ \A t \in Tid : thrds[t].pc \in {"find", "ref"} \/ thrds[t].join.named
                                => thrds[t].join.tid # u
    /\ thrds[u].pc = "entry" =>
            /\ \A i \in BlockIndex : blocks[i].id = u => i = thrds[u].block
            /\ \A t \in Tid : Makes(t, u) => thrds[t].block = thrds[u].block
    /\ thrds[u].unrefs = 2 =>
            /\ \A i \in BlockIndex : blocks[i].id = u => i = thrds[u].block
            /\ \A t \in Tid : Makes(t, u) => thrds[t].pc # "id"

\* The first thread has the first block, and nobody has a handle to it.
FirstBlock ==
    /\ \A i \in BlockIndex : <<i, 0>> \notin handles
    /\ ~Left(0) => /\ 0 \notin raced
                   /\ blocks[0].id = 0
                   /\ thrds[0].unrefs = 2 => thrds[0].block = 0

IdInv == FirstBlock /\ \A u \in Tid \ {0} : IdOnce(u)

Owners(i) == {t \in Tid : Owns(t, i)}
Borrowers(i) == {t \in Tid : Borrows(t, i)}

CountInv(i) ==
    /\ Freeing(i) = {} => blocks[i].ref = kept[i] + Cardinality(Owners(i)) + Cardinality(Borrowers(i))
    /\ Freeing(i) # {} => kept[i] = 0 /\ Owners(i) = {} /\ Borrowers(i) = {}
    /\ \A t, s \in Freeing(i) : t = s

\* Block i is the one of thread u, which is let go.
Home(u, i) ==
    /\ u # 0 /\ blocks[i].id = u
    /\ \A t \in Tid : thrds[t].pc \in {"id", "start"} => thrds[t].block # i
    /\ thrds[u].pc = "entry" => blocks[i].running

\* A block that is reserved has one owner.
OneOwner(i) ==
    \A t, s \in Tid : OwnsNew(t, i) => ~OwnsById(s, i) /\ (OwnsNew(s, i) => t = s)

\* Whoever makes a thread on the block has it wait until the id is stored.
MakerOk(i) ==
    \A t \in Tid : thrds[t].block = i =>
        /\ thrds[t].pc \in {"split", "id", "start"} => ~blocks[i].running
        /\ thrds[t].pc \in {"id", "start"} =>
                thrds[thrds[t].child].pc = "entry" /\ thrds[thrds[t].child].block = i
        /\ thrds[t].pc = "start" => blocks[i].id = thrds[t].child

EntryOk(i) ==
    \A u \in Tid : thrds[u].pc = "entry" /\ thrds[u].block = i /\ blocks[i].running => Home(u, i)

\* thrd_exit works on the block of the thread.
ExitOk(i) == \A u \in Tid : thrds[u].unrefs = 2 /\ thrds[u].block = i => blocks[i].id = u

\* A thread runs until it says that it does not, and leaves its result before.
OwnerOk(i) ==
    \A u \in Tid : OwnsById(u, i) =>
        /\ blocks[i].running <=> ~Ended(u)
        /\ Ended(u) \/ thrds[u].pc = "stop" => blocks[i].result = thrds[u].code % ResultSize

\* Whoever frees the block has no further reference to it to drop.
FreeOk(i) ==
    \A t \in Tid : thrds[t].pc \in {"clear", "zero"} /\ thrds[t].block = i => thrds[t].unrefs = 0

UseInv(i) ==
    OneOwner(i) /\ MakerOk(i) /\ EntryOk(i) /\ ExitOk(i) /\ OwnerOk(i) /\ FreeOk(i)

\* A handle, and a thrd_join that has not got the block yet, mean the block of
\* the thread as long as it has one.
HandleOk(i) == \A u \in Tid : <<i, u>> \in handles => Left(u) \/ Home(u, i)

SeekerOk(i) ==
    \A t \in Tid : thrds[t].pc \in {"find", "ref"} /\ thrds[t].block = i =>
        Left(thrds[t].join.tid) \/ Home(thrds[t].join.tid, i)

\* What t waits for is in block i, which nobody but u has had since.
Awaits(t, u, i) ==
    /\ Home(u, i)
    /\ \A s \in Tid : Owns(s, i) => s = u
    /\ blocks[i].running <=> ~Ended(u)
    /\ Ended(u) => blocks[i].result = thrds[u].code % ResultSize
    /\ thrds[t].pc \in {"read", "unref"} => Ended(u)
    /\ thrds[t].pc = "unref" => thrds[t].join.result = thrds[u].code % ResultSize

JoinerOk(i) ==
    \A t \in Tid : thrds[t].join.named /\ Borrows(t, i) => Awaits(t, thrds[t].join.tid, i)

JoinInv(i) == HandleOk(i) /\ SeekerOk(i) /\ JoinerOk(i)

BlockInv == \A i \in BlockIndex \ raced : CountInv(i) /\ UseInv(i) /\ JoinInv(i)

\* As long as no free was raced, everybody who is let go has a block, and so
\* nobody has missed it.
FindInv ==
    raced = {} => /\ \A t \in Tid : ~Left(t) /\ thrds[t].pc # "entry" =>
                        \E i \in BlockIndex : OwnsById(t, i)
                  /\ \A t \in Tid : thrds[t].pc # "fault"

ThrdInv == ThrdTypeOK /\ LocalInv /\ IdInv /\ BlockInv /\ FindInv

-----------------------------------------------------------------------------

\* The bounds of the table and of the ids
LEMMA ThrdBounds ==
    /\ 0 \in Tid /\ 0 \in BlockIndex /\ IsFiniteSet(Tid)
    /\ 0 \in 0 .. MAX_THRD /\ NoBlock \in 0 .. MAX_THRD /\ NoBlock \notin BlockIndex
    /\ \A i \in 0 .. MAX_THRD : i = NoBlock \/ (i \in BlockIndex /\ i + 1 \in 0 .. MAX_THRD)
    /\ BlockIndex \subseteq 0 .. MAX_THRD
    /\ 0 \in 0 .. ResultSize - 1
    /\ \A c \in Code : c % ResultSize \in 0 .. ResultSize - 1
    /\ NoJoin \in JoinRecord
<1>1. MAX_THRD \in Nat \ {0} /\ ThrdMax \in Nat \ {0} /\ ResultSize \in Nat \ {0} /\ Code \subseteq Nat
  BY ThrdAssumption
<1>2. 0 \in Tid /\ IsFiniteSet(Tid)
  BY <1>1, FS_Interval DEF Tid
<1>3. /\ 0 \in BlockIndex
      /\ 0 \in 0 .. MAX_THRD /\ NoBlock \in 0 .. MAX_THRD /\ NoBlock \notin BlockIndex
      /\ \A i \in 0 .. MAX_THRD : i = NoBlock \/ (i \in BlockIndex /\ i + 1 \in 0 .. MAX_THRD)
      /\ BlockIndex \subseteq 0 .. MAX_THRD
  BY <1>1 DEF NoBlock, BlockIndex
<1>4. 0 \in 0 .. ResultSize - 1 /\ \A c \in Code : c % ResultSize \in 0 .. ResultSize - 1
  BY <1>1
<1> QED
  BY <1>2, <1>3, <1>4 DEF NoJoin, JoinRecord

\* The places of a thread
LEMMA Places ==
    /\ "run" \in ThrdPlace /\ "reserve" \in ThrdPlace /\ "init" \in ThrdPlace
    /\ "split" \in ThrdPlace /\ "id" \in ThrdPlace /\ "start" \in ThrdPlace
    /\ "entry" \in ThrdPlace /\ "result" \in ThrdPlace /\ "stop" \in ThrdPlace
    /\ "find" \in ThrdPlace /\ "ref" \in ThrdPlace /\ "wait" \in ThrdPlace
    /\ "read" \in ThrdPlace /\ "unref" \in ThrdPlace /\ "clear" \in ThrdPlace
    /\ "zero" \in ThrdPlace /\ "dead" \in ThrdPlace /\ "fault" \in ThrdPlace
    /\ 0 \in 0 .. 2 /\ 1 \in 0 .. 2 /\ 2 \in 0 .. 2
    /\ "run" \in {"run", "dead"} /\ "dead" \in {"run", "dead"}
BY DEF ThrdPlace

\* The two kinds of owner make up Owns.
LEMMA OwnersSplit ==
    \A t, i : Owns(t, i) <=> OwnsNew(t, i) \/ OwnsById(t, i)
BY DEF Owns, OwnsNew, OwnsById

\* Owners and borrowers are finite in number.
LEMMA SharesFinite ==
    ASSUME NEW i
    PROVE  /\ IsFiniteSet(Owners(i)) /\ IsFiniteSet(Borrowers(i))
           /\ Cardinality(Owners(i)) \in Nat /\ Cardinality(Borrowers(i)) \in Nat
<1>1. Owners(i) \in SUBSET Tid /\ Borrowers(i) \in SUBSET Tid
  BY DEF Owners, Borrowers
<1>2. IsFiniteSet(Owners(i)) /\ IsFiniteSet(Borrowers(i))
  BY <1>1, ThrdBounds, FS_Subset
<1> QED
  BY <1>2, FS_CardinalityType

\* t goes to r, and nobody else moves.
Moves(t, r) ==
    /\ thrds' \in [Tid -> ThrdRecord] /\ thrds'[t] = r
    /\ \A s \in Tid : s # t => thrds'[s] = thrds[s]

LEMMA IsMove ==
    ASSUME ThrdTypeOK, NEW t \in Tid, NEW r \in ThrdRecord, thrds' = [thrds EXCEPT ![t] = r]
    PROVE  Moves(t, r)
BY DEF ThrdTypeOK, Moves

\* Block i becomes b, and the others stay.
Stores(i, b) ==
    /\ blocks' \in [BlockIndex -> BlockRecord] /\ blocks'[i] = b
    /\ \A j \in BlockIndex : j # i => blocks'[j] = blocks[j]

LEMMA IsStore ==
    ASSUME ThrdTypeOK, NEW i \in BlockIndex, NEW b \in BlockRecord, blocks' = [blocks EXCEPT ![i] = b]
    PROVE  Stores(i, b)
BY DEF ThrdTypeOK, Stores

\* Thread s stands to block i as before the step.
Stands(s, i) ==
    /\ OwnsNew(s, i)' <=> OwnsNew(s, i)
    /\ OwnsById(s, i)' <=> OwnsById(s, i)
    /\ Borrows(s, i)' <=> Borrows(s, i)
    /\ (s \in Freeing(i))' <=> s \in Freeing(i)

\* Those who do not move stand as before, unless the id of the block changes.
LEMMA OthersStand ==
    ASSUME NEW s \in Tid, thrds'[s] = thrds[s], NEW i, blocks'[i].id = blocks[i].id
    PROVE  Stands(s, i)
BY DEF Stands, OwnsNew, OwnsById, Borrows, Freeing, Left

\* Where everybody stands as before the count is right as before.
LEMMA CountStays ==
    ASSUME NEW i, CountInv(i), \A s \in Tid : Stands(s, i),
           blocks'[i].ref = blocks[i].ref, kept'[i] = kept[i]
    PROVE  CountInv(i)'
<1>1. Owners(i)' = Owners(i) /\ Borrowers(i)' = Borrowers(i) /\ Freeing(i)' = Freeing(i)
  <2>1. Owners(i)' = Owners(i)
    BY OwnersSplit DEF Owners, Owns, OwnsNew, OwnsById, Stands
  <2>2. Borrowers(i)' = Borrowers(i)
    BY DEF Borrowers, Stands
  <2>3. Freeing(i)' = Freeing(i)
    BY DEF Freeing, Stands
  <2> QED
    BY <2>1, <2>2, <2>3
<1> QED
  BY <1>1 DEF CountInv

\* A step of t that changes nothing but its place, among those places at which
\* it holds no block but its own: the loop of _ThrdBlockReserve, the search of
\* thrd_join, and the way back to the program
LEMMA QuietMove ==
    ASSUME ThrdInv, NEW t \in Tid, NEW r \in ThrdRecord, Moves(t, r),
           thrds[t].pc \in {"run", "reserve", "find", "ref"},
           r.pc \in {"run", "reserve", "find", "ref", "fault"},
           r.unrefs = 0, r.after = "run", ~r.join.named,
           r.pc \in {"find", "ref"} =>
                /\ r.block \in BlockIndex /\ r.join.tid # 0 /\ thrds[r.join.tid].pc # "unborn"
                /\ r.block \notin raced => Left(r.join.tid) \/ Home(r.join.tid, r.block),
           r.pc = "fault" => raced # {},
           r.pc = "run" => r.block = NoBlock,
           handles' \subseteq handles, UNCHANGED <<blocks, kept, raced>>
    PROVE  ThrdInv'
<1>1. /\ ThrdTypeOK /\ LocalInv /\ IdInv /\ BlockInv /\ FindInv
      /\ 0 \in Tid /\ thrds[t] \in ThrdRecord
      /\ thrds[t].unrefs # 2 /\ thrds[t].after = "run" /\ ~thrds[t].join.named
  BY ThrdBounds DEF ThrdInv, ThrdTypeOK, ThrdRecord, JoinRecord, LocalInv, LocalFits
<1>2. /\ thrds' \in [Tid -> ThrdRecord] /\ thrds'[t] = r
      /\ \A s \in Tid : s # t => thrds'[s] = thrds[s]
  BY DEF Moves
<1>3. ThrdTypeOK'
  BY <1>1, <1>2 DEF ThrdTypeOK
<1>4. LocalInv'
  BY <1>1, <1>2 DEF LocalInv, LocalFits
<1>5. \A s \in Tid : (Left(s)' <=> Left(s)) /\ (Ended(s)' <=> Ended(s))
  BY <1>1, <1>2 DEF Left, Ended
<1>6. \A s \in Tid, i \in BlockIndex : Stands(s, i)
  BY <1>1, <1>2 DEF Stands, OwnsNew, OwnsById, Borrows, Freeing, Left
<1>7. IdInv'
  <2>1. FirstBlock'
    BY <1>1, <1>2, <1>5 DEF IdInv, FirstBlock, Left
  <2>2. ASSUME NEW u \in Tid \ {0} PROVE IdOnce(u)'
    <3>1. IdOnce(u)
      BY <1>1 DEF IdInv
    <3> QED
      BY <1>1, <1>2, <3>1 DEF IdOnce, Makes
  <2> QED
    BY <2>1, <2>2 DEF IdInv
<1>8. ASSUME NEW i \in BlockIndex \ raced' PROVE CountInv(i)' /\ UseInv(i)' /\ JoinInv(i)'
  <2>1. CountInv(i) /\ UseInv(i) /\ JoinInv(i)
    BY <1>1 DEF BlockInv
  <2>2. CountInv(i)'
    BY <1>6, <2>1, CountStays
  <2>3. \A u \in Tid : Home(u, i) => Home(u, i)'
    BY <1>1, <1>2 DEF Home
  <2>4. UseInv(i)'
    <3>1. OneOwner(i)'
      BY <1>6, <2>1 DEF UseInv, OneOwner, Stands
    <3>2. MakerOk(i)'
      BY <1>1, <1>2, <2>1 DEF UseInv, MakerOk, ThrdTypeOK, ThrdRecord, JoinRecord
    <3>3. EntryOk(i)'
      BY <1>1, <1>2, <2>1, <2>3 DEF UseInv, EntryOk
    <3>4. ExitOk(i)'
      BY <1>1, <1>2, <2>1 DEF UseInv, ExitOk
    <3>5. OwnerOk(i)'
      BY <1>1, <1>2, <1>5, <1>6, <2>1 DEF UseInv, OwnerOk, Stands, Ended
    <3>6. FreeOk(i)'
      BY <1>2, <2>1 DEF UseInv, FreeOk
    <3> QED
      BY <3>1, <3>2, <3>3, <3>4, <3>5, <3>6 DEF UseInv
  <2>5. JoinInv(i)'
    <3>1. HandleOk(i)'
      BY <1>5, <2>1, <2>3 DEF JoinInv, HandleOk
    <3>2. SeekerOk(i)'
      BY <1>1, <1>2, <1>5, <2>1, <2>3 DEF JoinInv, SeekerOk, ThrdTypeOK, ThrdRecord, JoinRecord
    <3>3. JoinerOk(i)'
      <4> SUFFICES ASSUME NEW s \in Tid, (thrds[s].join.named /\ Borrows(s, i))'
                   PROVE  Awaits(s, thrds[s].join.tid, i)'
        BY DEF JoinerOk
      <4>1. s # t /\ thrds'[s] = thrds[s] /\ Awaits(s, thrds[s].join.tid, i)
        BY <1>1, <1>2, <1>6, <2>1 DEF JoinInv, JoinerOk, Stands
      <4>2. thrds[s].join.tid \in Tid
        BY <1>1 DEF ThrdTypeOK, ThrdRecord, JoinRecord
      <4> QED
        BY <1>1, <1>2, <1>5, <1>6, <2>3, <4>1, <4>2, OwnersSplit, SMTT(30) DEF Awaits, Stands, Ended, Owns, OwnsNew, OwnsById
    <3> QED
      BY <3>1, <3>2, <3>3 DEF JoinInv
  <2> QED
    BY <2>2, <2>4, <2>5
<1>9. FindInv'
  BY <1>1, <1>2, <1>6 DEF FindInv, Stands, Left
<1> QED
  BY <1>3, <1>4, <1>7, <1>8, <1>9 DEF ThrdInv, BlockInv

-----------------------------------------------------------------------------

\* A block that has an owner is not being freed.
LEMMA OwnedNotFreed ==
    ASSUME NEW i, CountInv(i), NEW s \in Tid, Owns(s, i)
    PROVE  Freeing(i) = {}
BY DEF CountInv, Owners

\* A thread that has not left owns its home.
LEMMA HomeOwned ==
    ASSUME IdInv, NEW i \in BlockIndex, NEW u \in Tid, Home(u, i), ~Left(u)
    PROVE  /\ Owns(u, i)
           /\ thrds[u].pc = "entry" => thrds[u].block = i /\ OwnsNew(u, i)
           /\ thrds[u].pc # "entry" => OwnsById(u, i)
<1>1. u # 0 /\ blocks[i].id = u /\ IdOnce(u)
  BY DEF Home, IdInv
<1>2. thrds[u].pc = "entry" => thrds[u].block = i /\ OwnsNew(u, i)
  BY <1>1 DEF IdOnce, OwnsNew
<1>3. thrds[u].pc # "entry" => OwnsById(u, i)
  BY <1>1 DEF OwnsById
<1> QED
  BY <1>2, <1>3, OwnersSplit

\* On a block without an owner nobody makes a thread, and whoever still has a
\* handle to it means a thread that has left.
LEMMA NobodyThere ==
    ASSUME ThrdTypeOK, IdInv, NEW i \in BlockIndex, UseInv(i), JoinInv(i), \A s \in Tid : ~Owns(s, i)
    PROVE  /\ \A s \in Tid : thrds[s].pc \in {"id", "start"} => thrds[s].block # i
           /\ \A u \in Tid : <<i, u>> \in handles => Left(u)
           /\ \A s \in Tid : thrds[s].pc \in {"find", "ref"} /\ thrds[s].block = i =>
                    Left(thrds[s].join.tid)
<1>1. ASSUME NEW s \in Tid, thrds[s].pc \in {"id", "start"}, thrds[s].block = i PROVE FALSE
  <2>1. thrds[s].child \in Tid /\ thrds[thrds[s].child].pc = "entry" /\ thrds[thrds[s].child].block = i
    BY <1>1 DEF UseInv, MakerOk, ThrdTypeOK, ThrdRecord, JoinRecord
  <2> QED
    BY <2>1, OwnersSplit DEF OwnsNew
<1>2. ASSUME NEW u \in Tid, <<i, u>> \in handles PROVE Left(u)
  BY <1>2, HomeOwned DEF JoinInv, HandleOk
<1>3. ASSUME NEW s \in Tid, thrds[s].pc \in {"find", "ref"}, thrds[s].block = i
      PROVE  Left(thrds[s].join.tid)
  <2>1. thrds[s].join.tid \in Tid
    BY DEF ThrdTypeOK, ThrdRecord, JoinRecord
  <2> QED
    BY <1>3, <2>1, HomeOwned DEF JoinInv, SeekerOk
<1> QED
  BY <1>1, <1>2, <1>3

\* While someone waits for the thread of a block, no other is made on it.
LEMMA AwaitedOwner ==
    ASSUME NEW i \in BlockIndex, OneOwner(i), NEW s, NEW u \in Tid, Awaits(s, u, i),
           NEW t \in Tid, OwnsNew(t, i), ~Left(t)
    PROVE  t = u /\ thrds[t].pc = "entry"
<1>1. t = u /\ blocks[i].id = u /\ u # 0
  BY OwnersSplit DEF Awaits, Home
<1> QED
  BY <1>1 DEF OneOwner, OwnsById

(***************************************************************************)
(* A step of t leaves alone a block j that is neither in its hand before   *)
(* nor after: everybody stands to it as before.                            *)
(***************************************************************************)
LEMMA Elsewhere ==
    ASSUME ThrdInv, NEW t \in Tid, NEW r \in ThrdRecord, Moves(t, r), NEW j \in BlockIndex \ raced,
           thrds[t].block # j, r.block # j, r.pc # "entry", thrds[t].pc # "unborn",
           blocks'[j] = blocks[j], kept'[j] = kept[j],
           \A u \in Tid : <<j, u>> \in handles' => <<j, u>> \in handles,
           Left(t) => Left(t)', OwnsById(t, j) <=> OwnsById(t, j)',
           blocks[j].id = t /\ (t = 0 => j = 0) =>
                (Ended(t)' <=> Ended(t)) /\ r.code = thrds[t].code /\ r.pc # "stop"
    PROVE  CountInv(j)' /\ UseInv(j)' /\ JoinInv(j)'
<1>1. /\ ThrdTypeOK /\ LocalInv /\ IdInv /\ 0 \in Tid
      /\ CountInv(j) /\ UseInv(j) /\ JoinInv(j)
  BY ThrdBounds DEF ThrdInv, BlockInv
<1>2. /\ thrds' \in [Tid -> ThrdRecord] /\ thrds'[t] = r
      /\ \A s \in Tid : s # t => thrds'[s] = thrds[s]
  BY DEF Moves
<1>3. \A s \in Tid : Stands(s, j)
  <2>1. Stands(t, j)
    BY <1>2 DEF Stands, OwnsNew, Borrows, Freeing
  <2> QED
    BY <1>2, <2>1, OthersStand
<1>4. CountInv(j)'
  BY <1>1, <1>3, CountStays
<1>5. \A s \in Tid : Left(s) => Left(s)'
  BY <1>2 DEF Left
<1>6. ASSUME NEW u \in Tid, Home(u, j) PROVE Home(u, j)'
  BY <1>2, <1>6 DEF Home
<1>7. UseInv(j)'
  <2>1. OneOwner(j)'
    BY <1>1, <1>3 DEF UseInv, OneOwner, Stands
  <2>2. MakerOk(j)'
    BY <1>1, <1>2 DEF UseInv, MakerOk, ThrdTypeOK, ThrdRecord, JoinRecord
  <2>3. EntryOk(j)'
    BY <1>1, <1>2, <1>6 DEF UseInv, EntryOk
  <2>4. ExitOk(j)'
    BY <1>1, <1>2 DEF UseInv, ExitOk
  <2>5. OwnerOk(j)'
    <3> SUFFICES ASSUME NEW u \in Tid, OwnsById(u, j)'
                 PROVE  (/\ blocks[j].running <=> ~Ended(u)
                         /\ Ended(u) \/ thrds[u].pc = "stop" =>
                                blocks[j].result = thrds[u].code % ResultSize)'
      BY DEF OwnerOk
    <3>1. OwnsById(u, j) /\ blocks[j].id = u /\ (u = 0 => j = 0)
      BY <1>3 DEF Stands, OwnsById
    <3>2. /\ blocks[j].running <=> ~Ended(u)
          /\ Ended(u) \/ thrds[u].pc = "stop" => blocks[j].result = thrds[u].code % ResultSize
      BY <1>1, <3>1 DEF UseInv, OwnerOk
    <3>3. /\ Ended(u)' <=> Ended(u)
          /\ thrds'[u].code = thrds[u].code
          /\ thrds'[u].pc = "stop" => thrds[u].pc = "stop"
      BY <1>2, <3>1 DEF Ended
    <3> QED
      BY <3>2, <3>3
  <2>6. FreeOk(j)'
    BY <1>1, <1>2 DEF UseInv, FreeOk
  <2> QED
    BY <2>1, <2>2, <2>3, <2>4, <2>5, <2>6 DEF UseInv
<1>8. JoinInv(j)'
  <2>1. HandleOk(j)'
    BY <1>1, <1>5, <1>6 DEF JoinInv, HandleOk
  <2>2. SeekerOk(j)'
    BY <1>1, <1>2, <1>5, <1>6 DEF JoinInv, SeekerOk, ThrdTypeOK, ThrdRecord, JoinRecord
  <2>3. JoinerOk(j)'
    <3> SUFFICES ASSUME NEW s \in Tid, (thrds[s].join.named /\ Borrows(s, j))'
                 PROVE  Awaits(s, thrds[s].join.tid, j)'
      BY DEF JoinerOk
    <3>1. s # t /\ thrds'[s] = thrds[s] /\ Awaits(s, thrds[s].join.tid, j)
      BY <1>1, <1>2, <1>3 DEF JoinInv, JoinerOk, Stands, Borrows
    <3>2. PICK u \in Tid : u = thrds[s].join.tid
      BY <1>1 DEF ThrdTypeOK, ThrdRecord, JoinRecord
    <3>3. (Ended(u)' <=> Ended(u)) /\ thrds'[u].code = thrds[u].code
      BY <1>2, <3>1, <3>2 DEF Awaits, Home, Ended
    <3>4. Home(u, j)' /\ \A v \in Tid : Owns(v, j)' => v = u
      BY <1>3, <1>6, <3>1, <3>2, OwnersSplit DEF Awaits, Stands, Owns, OwnsNew, OwnsById
    <3> QED
      BY <3>1, <3>2, <3>3, <3>4 DEF Awaits
  <2> QED
    BY <2>1, <2>2, <2>3 DEF JoinInv
<1> QED
  BY <1>4, <1>7, <1>8

(***************************************************************************)
(* A step of t that stores no id and makes nobody keeps ids unique.        *)
(***************************************************************************)
LEMMA IdsStay ==
    ASSUME ThrdTypeOK, LocalInv, IdInv, NEW t \in Tid, NEW r \in ThrdRecord, Moves(t, r),
           \A i \in BlockIndex : blocks'[i].id = blocks[i].id,
           thrds[t].pc # "unborn", r.pc \notin {"unborn", "entry", "id", "start"},
           r.pc \in {"find", "ref"} \/ r.join.named => thrds[t].pc \in {"find", "ref"} \/ thrds[t].join.named,
           r.pc \in {"find", "ref"} \/ r.join.named => r.join.tid = thrds[t].join.tid,
           r.unrefs = 2 => \/ thrds[t].unrefs = 2 /\ r.block = thrds[t].block
                           \/ /\ \A i \in BlockIndex : blocks[i].id = t /\ (t = 0 => i = 0) => i = r.block
                              /\ \A s \in Tid : Makes(s, t) => thrds[s].pc # "id",
           handles' \subseteq handles, ~Left(0)' => ~Left(0) /\ 0 \notin raced'
    PROVE  IdInv'
<1>1. /\ thrds' \in [Tid -> ThrdRecord] /\ thrds'[t] = r /\ 0 \in Tid /\ 0 \in BlockIndex
      /\ \A s \in Tid : s # t => thrds'[s] = thrds[s]
  BY ThrdBounds DEF Moves
<1>2. FirstBlock'
  <2>0. \A i \in BlockIndex : <<i, 0>> \notin handles'
    BY DEF IdInv, FirstBlock
  <2>1. CASE ~Left(0)'
    <3>1. ~Left(0) /\ blocks[0].id = 0 /\ (thrds[0].unrefs = 2 => thrds[0].block = 0)
      BY <2>1 DEF IdInv, FirstBlock
    <3>2. thrds'[0].unrefs = 2 => thrds'[0].block = 0
      BY <1>1, <3>1
    <3> QED
      BY <1>1, <2>0, <2>1, <3>1, <3>2 DEF FirstBlock
  <2> QED
    BY <2>0, <2>1 DEF FirstBlock
<1>3. ASSUME NEW u \in Tid \ {0} PROVE IdOnce(u)'
  <2>1. IdOnce(u)
    BY DEF IdInv
  <2>2. \A s \in Tid : Makes(s, u)' => Makes(s, u) /\ thrds'[s] = thrds[s]
    BY <1>1 DEF Makes
  <2>3. /\ \A i, j \in BlockIndex : blocks'[i].id = u /\ blocks'[j].id = u => i = j
        /\ \A s \in Tid : Makes(s, u)' /\ thrds'[s].pc = "id" => \A i \in BlockIndex : blocks'[i].id # u
        /\ \A s, v \in Tid : Makes(s, u)' /\ Makes(v, u)' => s = v
    BY <2>1, <2>2 DEF IdOnce
  <2>4. ASSUME thrds'[u].pc = "unborn"
        PROVE  /\ \A i \in BlockIndex : blocks'[i].id # u /\ <<i, u>> \notin handles'
               /\ \A s \in Tid : ~Makes(s, u)'
               /\ \A s \in Tid : thrds'[s].pc \in {"find", "ref"} \/ thrds'[s].join.named
                                => thrds'[s].join.tid # u
    BY <1>1, <2>1, <2>2, <2>4 DEF IdOnce
  <2>5. ASSUME thrds'[u].pc = "entry"
        PROVE  /\ \A i \in BlockIndex : blocks'[i].id = u => i = thrds'[u].block
               /\ \A s \in Tid : Makes(s, u)' => thrds'[s].block = thrds'[u].block
    <3>1. u # t /\ thrds'[u] = thrds[u] /\ thrds[u].pc = "entry"
      BY <1>1, <2>5
    <3> QED
      BY <2>1, <2>2, <3>1 DEF IdOnce
  <2>6. ASSUME thrds'[u].unrefs = 2
        PROVE  /\ \A i \in BlockIndex : blocks'[i].id = u => i = thrds'[u].block
               /\ \A s \in Tid : Makes(s, u)' => thrds'[s].pc # "id"
    BY <1>1, <2>1, <2>2, <2>6 DEF IdOnce
  <2> QED
    BY <2>3, <2>4, <2>5, <2>6 DEF IdOnce
<1> QED
  BY <1>2, <1>3 DEF IdInv

(***************************************************************************)
(* What is left to show of a step of t on block i.                         *)
(***************************************************************************)
LEMMA OnBlock ==
    ASSUME ThrdInv, NEW t \in Tid, NEW r \in ThrdRecord, Moves(t, r),
           NEW i \in BlockIndex, NEW b \in BlockRecord, Stores(i, b),
           thrds[t].block \in {i, NoBlock}, r.block \in {i, NoBlock},
           thrds[t].pc # "unborn", r.pc \notin {"entry", "fault"}, LocalFits(t, r),
           kept' \in [BlockIndex -> Nat], \A j \in BlockIndex : j # i => kept'[j] = kept[j],
           handles' \subseteq BlockIndex \X Tid,
           \A j \in BlockIndex, u \in Tid : j # i /\ <<j, u>> \in handles' => <<j, u>> \in handles,
           raced' = raced \/ raced' = raced \cup {i},
           Left(t) => Left(t)',
           \A j \in BlockIndex : j # i /\ blocks[j].id = t /\ (t = 0 => j = 0) =>
                /\ Left(t)' <=> Left(t)
                /\ Ended(t)' <=> Ended(t)
                /\ thrds[t].pc # "entry" /\ r.code = thrds[t].code /\ r.pc # "stop",
           raced' = {} => \A s \in Tid : s # t /\ OwnsById(s, i) => OwnsById(s, i)',
           raced' = {} /\ ~Left(t)' => \E j \in BlockIndex : OwnsById(t, j)',
           IdInv', i \notin raced' => CountInv(i)' /\ UseInv(i)' /\ JoinInv(i)'
    PROVE  ThrdInv'
<1>1. ThrdTypeOK /\ LocalInv /\ BlockInv /\ FindInv
  BY DEF ThrdInv
<1>2. /\ thrds' \in [Tid -> ThrdRecord] /\ thrds'[t] = r
      /\ \A s \in Tid : s # t => thrds'[s] = thrds[s]
      /\ blocks' \in [BlockIndex -> BlockRecord]
      /\ \A j \in BlockIndex : j # i => blocks'[j] = blocks[j]
  BY DEF Moves, Stores
<1>3. ThrdTypeOK'
  BY <1>1, <1>2 DEF ThrdTypeOK
<1>4. LocalInv'
  BY <1>1, <1>2 DEF LocalInv
<1>5. ASSUME NEW j \in BlockIndex \ raced', j # i PROVE CountInv(j)' /\ UseInv(j)' /\ JoinInv(j)'
  <2>1. j \in BlockIndex \ raced /\ thrds[t].block # j /\ r.block # j /\ blocks'[j] = blocks[j] /\ kept'[j] = kept[j]
    BY <1>2, <1>5, ThrdBounds
  <2>2. OwnsById(t, j) <=> OwnsById(t, j)'
    BY <1>2, <1>5, <2>1 DEF OwnsById
  <2>3. blocks[j].id = t /\ (t = 0 => j = 0) =>
            (Ended(t)' <=> Ended(t)) /\ r.code = thrds[t].code /\ r.pc # "stop"
    BY <1>5
  <2>4. \A u \in Tid : <<j, u>> \in handles' => <<j, u>> \in handles
    BY <1>5
  <2> QED
    BY <2>1, <2>2, <2>3, <2>4, Elsewhere
<1>6. FindInv'
  <2> SUFFICES ASSUME raced' = {} PROVE FindInv'
    BY DEF FindInv
  <2>1. raced = {}
    OBVIOUS
  <2>2. ASSUME NEW s \in Tid, ~Left(s)', thrds'[s].pc # "entry"
        PROVE  \E j \in BlockIndex : OwnsById(s, j)'
    <3>1. CASE s = t
      BY <2>2, <3>1
    <3>2. CASE s # t
      <4>1. PICK j \in BlockIndex : OwnsById(s, j)
        BY <1>1, <1>2, <2>1, <2>2, <3>2 DEF FindInv, Left
      <4>2. CASE j = i
        BY <3>2, <4>1, <4>2
      <4>3. CASE j # i
        BY <1>2, <3>2, <4>1, <4>3 DEF OwnsById, Left
      <4> QED
        BY <4>2, <4>3
    <3> QED
      BY <3>1, <3>2
  <2>3. ASSUME NEW s \in Tid PROVE thrds'[s].pc # "fault"
    BY <1>1, <1>2, <2>1 DEF FindInv
  <2> QED
    BY <2>2, <2>3 DEF FindInv
<1> QED
  BY <1>3, <1>4, <1>5, <1>6 DEF ThrdInv, BlockInv

\* The same, of a step that stores no id and neither begins nor ends the life
\* of a thread: it keeps its block, and everybody theirs.
LEMMA OnBlockSameIds ==
    ASSUME ThrdInv, NEW t \in Tid, NEW r \in ThrdRecord, Moves(t, r),
           NEW i \in BlockIndex, NEW b \in BlockRecord, Stores(i, b), b.id = blocks[i].id,
           thrds[t].block \in {i, NoBlock}, r.block \in {i, NoBlock},
           thrds[t].pc \notin {"unborn", "entry"},
           r.pc \notin {"unborn", "entry", "id", "start", "fault"}, LocalFits(t, r),
           kept' \in [BlockIndex -> Nat], \A j \in BlockIndex : j # i => kept'[j] = kept[j],
           handles' = handles, raced' = raced \/ (raced' = raced \cup {i} /\ Freeing(i) # {})
                                \/ (raced' = raced \cup {i} /\ thrds[t].pc = "split" /\ thrds[t].block = i),
           Left(t) => Left(t)',
           r.pc \in {"find", "ref"} \/ r.join.named => thrds[t].pc \in {"find", "ref"} \/ thrds[t].join.named,
           r.pc \in {"find", "ref"} \/ r.join.named => r.join.tid = thrds[t].join.tid,
           r.unrefs = 2 => \/ thrds[t].unrefs = 2 /\ r.block = thrds[t].block
                           \/ r.block = i /\ blocks[i].id = t /\ (t = 0 => i = 0),
           \A j \in BlockIndex : j # i /\ blocks[j].id = t /\ (t = 0 => j = 0) =>
                /\ Left(t)' <=> Left(t)
                /\ Ended(t)' <=> Ended(t)
                /\ r.code = thrds[t].code /\ r.pc # "stop",
           i \notin raced' => CountInv(i)' /\ UseInv(i)' /\ JoinInv(i)'
    PROVE  ThrdInv'
<1>1. ThrdTypeOK /\ LocalInv /\ IdInv /\ BlockInv /\ FindInv /\ 0 \in Tid /\ 0 \in BlockIndex
  BY ThrdBounds DEF ThrdInv
<1>2. /\ thrds' \in [Tid -> ThrdRecord] /\ thrds'[t] = r
      /\ \A s \in Tid : s # t => thrds'[s] = thrds[s]
      /\ \A j \in BlockIndex : blocks'[j].id = blocks[j].id
  BY DEF Moves, Stores
<1>3. ASSUME ~Left(0)' PROVE ~Left(0) /\ 0 \notin raced'
  <2>1. ~Left(0)
    BY <1>1, <1>2, <1>3 DEF Left
  <2>2. 0 \notin raced /\ blocks[0].id = 0 /\ OwnsById(0, 0)
    BY <1>1, <2>1 DEF IdInv, FirstBlock, OwnsById, LocalInv, LocalFits
  <2>3. CountInv(0) /\ UseInv(0)
    BY <1>1, <2>2 DEF BlockInv
  <2>4. i = 0 => Freeing(i) = {}
    BY <1>1, <2>2, <2>3, OwnersSplit, OwnedNotFreed
  <2>5. i = 0 => ~(thrds[t].pc = "split" /\ thrds[t].block = i)
    BY <1>1, <2>2, <2>3 DEF UseInv, OneOwner, OwnsNew
  <2> QED
    BY <2>1, <2>2, <2>4, <2>5
<1>4. r.unrefs = 2 => \/ thrds[t].unrefs = 2 /\ r.block = thrds[t].block
                      \/ /\ \A j \in BlockIndex : blocks[j].id = t /\ (t = 0 => j = 0) => j = r.block
                         /\ \A s \in Tid : Makes(s, t) => thrds[s].pc # "id"
  <2> SUFFICES ASSUME r.block = i, blocks[i].id = t, t = 0 => i = 0
               PROVE  /\ \A j \in BlockIndex : blocks[j].id = t /\ (t = 0 => j = 0) => j = r.block
                      /\ \A s \in Tid : Makes(s, t) => thrds[s].pc # "id"
    OBVIOUS
  <2>1. CASE t = 0
    BY <1>1, <2>1 DEF Makes, LocalInv, LocalFits
  <2>2. CASE t # 0
    BY <1>1, <2>2 DEF IdInv, IdOnce
  <2> QED
    BY <2>1, <2>2
<1>5. IdInv'
  BY <1>1, <1>2, <1>3, <1>4, IdsStay
<1>6. ASSUME raced' = {}, NEW s \in Tid, s # t, OwnsById(s, i) PROVE OwnsById(s, i)'
  BY <1>2, <1>6 DEF OwnsById, Left
<1>7. ASSUME raced' = {}, ~Left(t)' PROVE \E j \in BlockIndex : OwnsById(t, j)'
  <2>1. PICK j \in BlockIndex : OwnsById(t, j)
    BY <1>1, <1>7 DEF FindInv
  <2> QED
    BY <1>2, <1>7, <2>1 DEF OwnsById
<1>8. handles' \subseteq BlockIndex \X Tid
  BY <1>1 DEF ThrdTypeOK
<1>9. raced' = raced \/ raced' = raced \cup {i}
  OBVIOUS
<1>10. \A j \in BlockIndex, u \in Tid : j # i /\ <<j, u>> \in handles' => <<j, u>> \in handles
  OBVIOUS
<1> QED
  BY <1>5, <1>6, <1>7, <1>8, <1>9, <1>10, OnBlock

(***************************************************************************)
(* A step of t on block i that writes nothing but the count, makes nobody  *)
(* and becomes nobody's owner leaves right what the block says.            *)
(***************************************************************************)
LEMMA SameData ==
    ASSUME ThrdInv, NEW t \in Tid, NEW r \in ThrdRecord, Moves(t, r),
           NEW i \in BlockIndex \ raced, NEW b \in BlockRecord, Stores(i, b),
           b.id = blocks[i].id, b.running = blocks[i].running, b.result = blocks[i].result,
           thrds[t].pc \notin {"unborn", "entry", "id", "start"},
           r.pc \notin {"unborn", "entry", "init", "split", "id", "start", "find", "ref", "stop"},
           handles' = handles, Left(t) => Left(t)',
           r.unrefs = 2 /\ r.block = i => blocks[i].id = t,
           r.pc \in {"clear", "zero"} => r.unrefs = 0,
           blocks[i].id = t /\ (t = 0 => i = 0) =>
                (Ended(t)' <=> Ended(t)) /\ (Ended(t) => r.code = thrds[t].code),
           r.join.named /\ Borrows(t, i)' =>
                /\ Awaits(t, r.join.tid, i)
                /\ r.pc \in {"read", "unref"} => Ended(r.join.tid)
                /\ r.pc = "unref" => r.join.result = thrds[r.join.tid].code % ResultSize
    PROVE  UseInv(i)' /\ JoinInv(i)'
<1>1. ThrdTypeOK /\ LocalInv /\ IdInv /\ 0 \in Tid /\ UseInv(i) /\ JoinInv(i)
  BY ThrdBounds DEF ThrdInv, BlockInv
<1>2. /\ thrds' \in [Tid -> ThrdRecord] /\ thrds'[t] = r /\ blocks'[i] = b
      /\ \A s \in Tid : s # t => thrds'[s] = thrds[s]
  BY DEF Moves, Stores
<1>3. ASSUME NEW s \in Tid
      PROVE  (OwnsNew(s, i)' => OwnsNew(s, i) /\ s # t) /\ (OwnsById(s, i)' => OwnsById(s, i))
  BY <1>2 DEF OwnsNew, OwnsById, Left
<1>4. \A s \in Tid : Left(s) => Left(s)'
  BY <1>2 DEF Left
<1>5. ASSUME NEW u \in Tid, Home(u, i) PROVE Home(u, i)'
  BY <1>2, <1>5 DEF Home
<1>6. ASSUME NEW u \in Tid, blocks[i].id = u, u = 0 => i = 0
      PROVE  (Ended(u)' <=> Ended(u)) /\ (Ended(u) => thrds'[u].code = thrds[u].code)
  BY <1>2, <1>6 DEF Ended
<1>7. UseInv(i)'
  <2>1. OneOwner(i)'
    BY <1>1, <1>3 DEF UseInv, OneOwner
  <2>2. MakerOk(i)'
    BY <1>1, <1>2 DEF UseInv, MakerOk, ThrdTypeOK, ThrdRecord, JoinRecord
  <2>3. EntryOk(i)'
    BY <1>1, <1>2, <1>5 DEF UseInv, EntryOk
  <2>4. ExitOk(i)'
    BY <1>1, <1>2 DEF UseInv, ExitOk
  <2>5. OwnerOk(i)'
    <3> SUFFICES ASSUME NEW u \in Tid, OwnsById(u, i)'
                 PROVE  (/\ blocks[i].running <=> ~Ended(u)
                         /\ Ended(u) \/ thrds[u].pc = "stop" =>
                                blocks[i].result = thrds[u].code % ResultSize)'
      BY DEF OwnerOk
    <3>1. OwnsById(u, i) /\ blocks[i].id = u /\ (u = 0 => i = 0)
      BY <1>3 DEF OwnsById
    <3>2. /\ blocks[i].running <=> ~Ended(u)
          /\ Ended(u) \/ thrds[u].pc = "stop" => blocks[i].result = thrds[u].code % ResultSize
      BY <1>1, <3>1 DEF UseInv, OwnerOk
    <3>3. thrds'[u].pc = "stop" => thrds'[u] = thrds[u]
      BY <1>2
    <3> QED
      BY <1>2, <1>6, <3>1, <3>2, <3>3
  <2>6. FreeOk(i)'
    BY <1>1, <1>2 DEF UseInv, FreeOk
  <2> QED
    BY <2>1, <2>2, <2>3, <2>4, <2>5, <2>6 DEF UseInv
<1>8. JoinInv(i)'
  <2>1. HandleOk(i)'
    BY <1>1, <1>4, <1>5 DEF JoinInv, HandleOk
  <2>2. SeekerOk(i)'
    BY <1>1, <1>2, <1>4, <1>5 DEF JoinInv, SeekerOk, ThrdTypeOK, ThrdRecord, JoinRecord
  <2>3. JoinerOk(i)'
    <3> SUFFICES ASSUME NEW s \in Tid, (thrds[s].join.named /\ Borrows(s, i))'
                 PROVE  Awaits(s, thrds[s].join.tid, i)'
      BY DEF JoinerOk
    <3>1. PICK u \in Tid : u = thrds'[s].join.tid
      BY <1>2 DEF ThrdRecord, JoinRecord
    <3>2. /\ Awaits(s, u, i)
          /\ thrds'[s].pc \in {"read", "unref"} => Ended(u)
          /\ thrds'[s].pc = "unref" => thrds'[s].join.result = thrds[u].code % ResultSize
      <4>1. CASE s = t
        BY <1>2, <3>1, <4>1
      <4>2. CASE s # t
        BY <1>1, <1>2, <3>1, <4>2 DEF JoinInv, JoinerOk, Borrows, Awaits
      <4> QED
        BY <4>1, <4>2
    <3>3. (Ended(u)' <=> Ended(u)) /\ (Ended(u) => thrds'[u].code = thrds[u].code)
      BY <1>6, <3>2 DEF Awaits, Home
    <3>4. Home(u, i)' /\ \A v \in Tid : Owns(v, i)' => v = u
      BY <1>3, <1>5, <3>2, OwnersSplit DEF Awaits, Owns, OwnsNew, OwnsById
    <3> QED
      BY <1>2, <3>1, <3>2, <3>3, <3>4 DEF Awaits
  <2> QED
    BY <2>1, <2>2, <2>3 DEF JoinInv
<1> QED
  BY <1>7, <1>8

\* The count of a block covers its owner and whoever has borrowed it.
LEMMA OwnedCounted ==
    ASSUME ThrdTypeOK, NEW i \in BlockIndex, CountInv(i), NEW s \in Tid, Owns(s, i)
    PROVE  /\ Freeing(i) = {} /\ blocks[i].ref >= 1
           /\ \A v \in Tid : Borrows(v, i) => blocks[i].ref >= 2
<1>1. s \in Owners(i) /\ Freeing(i) = {} /\ kept[i] \in Nat
  BY OwnedNotFreed DEF Owners, ThrdTypeOK
<1>2. Cardinality(Owners(i)) # 0 /\ Cardinality(Owners(i)) \in Nat /\ Cardinality(Borrowers(i)) \in Nat
  BY <1>1, SharesFinite, FS_EmptySet
<1>3. \A v \in Tid : Borrows(v, i) => Cardinality(Borrowers(i)) # 0
  BY SharesFinite, FS_EmptySet DEF Borrowers
<1> QED
  BY <1>1, <1>2, <1>3 DEF CountInv

\* _ThrdBlockById finds the block of the thread that calls it.
LEMMA FindsOwn ==
    ASSUME ThrdInv, NEW t \in Tid, thrds[t].pc = "run"
    PROVE  /\ \A i \in FoundById(t) : i \in BlockIndex /\ blocks[i].id = t /\ (t = 0 => i = 0) /\ OwnsById(t, i)
           /\ FoundById(t) = {} => raced # {}
<1>1. /\ ThrdTypeOK /\ LocalInv /\ IdInv /\ BlockInv /\ FindInv /\ 0 \in Tid /\ 0 \in BlockIndex
      /\ thrds[t].after = "run" /\ ~Left(t)
  BY ThrdBounds DEF ThrdInv, LocalInv, LocalFits, Left, ThrdTypeOK, ThrdRecord, JoinRecord
<1>2. ASSUME NEW i \in BlockIndex \ raced, OwnsById(t, i) PROVE blocks[i].ref # 0 /\ blocks[i].id = t
  <2>1. blocks[i].ref >= 1
    BY <1>1, <1>2, OwnersSplit, OwnedCounted DEF BlockInv
  <2> QED
    BY <1>1, <1>2, <2>1 DEF OwnsById, ThrdTypeOK, BlockRecord
<1>3. ASSUME t = 0 PROVE IsById(t, 0) /\ \A i \in FoundById(t) : i = 0
  <2>1. 0 \notin raced /\ OwnsById(t, 0)
    BY <1>1, <1>3 DEF IdInv, FirstBlock, OwnsById
  <2>2. blocks[0].ref # 0 /\ blocks[0].id = t
    BY <1>1, <1>2, <2>1
  <2>3. IsById(t, 0)
    BY <2>2 DEF IsById
  <2>4. ASSUME NEW i \in FoundById(t), i # 0 PROVE FALSE
    <3>1. i \in BlockIndex /\ IsById(t, i) /\ 0 \in 0 .. i - 1
      BY <2>4 DEF FoundById, BlockIndex
    <3> QED
      BY <2>2, <3>1 DEF IsById
  <2> QED
    BY <2>3, <2>4
<1>4. ASSUME NEW i \in FoundById(t)
      PROVE  i \in BlockIndex /\ blocks[i].id = t /\ (t = 0 => i = 0) /\ OwnsById(t, i)
  BY <1>1, <1>3 DEF FoundById, IsById, OwnsById
<1>5. ASSUME raced = {} PROVE FoundById(t) # {}
  <2>1. CASE t = 0
    BY <1>1, <1>3, <2>1 DEF FoundById
  <2>2. CASE t # 0
    <3>1. PICK i \in BlockIndex : OwnsById(t, i)
      BY <1>1, <1>5 DEF FindInv
    <3>2. blocks[i].ref # 0 /\ blocks[i].id = t
      BY <1>2, <1>5, <3>1
    <3>3. ASSUME NEW j \in 0 .. i - 1 PROVE blocks[j].id # t
      <4>1. j \in BlockIndex /\ j # i
        BY ThrdAssumption DEF BlockIndex
      <4> QED
        BY <1>1, <2>2, <3>2, <4>1 DEF IdInv, IdOnce
    <3> QED
      BY <3>2, <3>3 DEF FoundById, IsById
  <2> QED
    BY <2>1, <2>2
<1> QED
  BY <1>4, <1>5

\* A set that differs in one element
LEMMA OneMore ==
    ASSUME NEW S, IsFiniteSet(S), NEW x, NEW T, \A y : y # x => (y \in T <=> y \in S)
    PROVE  /\ Cardinality(S) \in Nat
           /\ Cardinality(T) = Cardinality(S) + (IF x \in T THEN 1 ELSE 0) - (IF x \in S THEN 1 ELSE 0)
<1>1. Cardinality(S) \in Nat
  BY FS_CardinalityType
<1>2. CASE x \in T
  <2>1. T = S \cup {x}
    BY <1>2
  <2>2. Cardinality(S \cup {x}) = IF x \in S THEN Cardinality(S) ELSE Cardinality(S) + 1
    BY FS_AddElement
  <2> QED
    BY <1>1, <1>2, <2>1, <2>2
<1>3. CASE x \notin T
  <2>1. T = S \ {x}
    BY <1>3
  <2>2. Cardinality(S \ {x}) = IF x \in S THEN Cardinality(S) - 1 ELSE Cardinality(S)
    BY FS_RemoveElement
  <2> QED
    BY <1>1, <1>3, <2>1, <2>2
<1> QED
  BY <1>2, <1>3

\* How the owners and the borrowers of a block change when only t moves
LEMMA SharesChange ==
    ASSUME NEW t \in Tid, NEW i, \A s \in Tid : s # t => Stands(s, i)
    PROVE  /\ Cardinality(Owners(i)) \in Nat /\ Cardinality(Borrowers(i)) \in Nat
           /\ Cardinality(Owners(i))' = Cardinality(Owners(i))
                    + (IF Owns(t, i)' THEN 1 ELSE 0) - (IF Owns(t, i) THEN 1 ELSE 0)
           /\ Cardinality(Borrowers(i))' = Cardinality(Borrowers(i))
                    + (IF Borrows(t, i)' THEN 1 ELSE 0) - (IF Borrows(t, i) THEN 1 ELSE 0)
           /\ \A s \in Tid : s # t => (Owns(s, i)' <=> Owns(s, i)) /\ (Borrows(s, i)' <=> Borrows(s, i))
           /\ Freeing(i)' \ {t} = Freeing(i) \ {t}
<1>1. \A s \in Tid : s # t => (Owns(s, i)' <=> Owns(s, i)) /\ (Borrows(s, i)' <=> Borrows(s, i))
  BY DEF Stands, Owns, OwnsNew, OwnsById
<1>2. IsFiniteSet(Owners(i)) /\ IsFiniteSet(Borrowers(i))
  BY SharesFinite
<1>3. /\ \A s : s # t => (s \in Owners(i)' <=> s \in Owners(i))
      /\ (t \in Owners(i) <=> Owns(t, i)) /\ (t \in Owners(i)' <=> Owns(t, i)')
  BY <1>1 DEF Owners
<1>4. /\ \A s : s # t => (s \in Borrowers(i)' <=> s \in Borrowers(i))
      /\ (t \in Borrowers(i) <=> Borrows(t, i)) /\ (t \in Borrowers(i)' <=> Borrows(t, i)')
  BY <1>1 DEF Borrowers
<1>5. /\ Cardinality(Owners(i)) \in Nat
      /\ Cardinality(Owners(i)') = Cardinality(Owners(i))
            + (IF t \in Owners(i)' THEN 1 ELSE 0) - (IF t \in Owners(i) THEN 1 ELSE 0)
  BY <1>2, <1>3, OneMore
<1>6. /\ Cardinality(Borrowers(i)) \in Nat
      /\ Cardinality(Borrowers(i)') = Cardinality(Borrowers(i))
            + (IF t \in Borrowers(i)' THEN 1 ELSE 0) - (IF t \in Borrowers(i) THEN 1 ELSE 0)
  BY <1>2, <1>4, OneMore
<1>7. Freeing(i)' \ {t} = Freeing(i) \ {t}
  BY DEF Stands, Freeing
<1> QED
  BY <1>1, <1>3, <1>4, <1>5, <1>6, <1>7

-----------------------------------------------------------------------------
(* thrd_exit, thrd_current and errno *)

LEMMA ByIdInv ==
    ASSUME ThrdInv, NEW t \in Tid, NEW place, NEW drops, NEW after, NEW code \in Code,
           ById(t, place, drops, after, code),
           \/ place = "result" /\ drops = 2 /\ after = "dead"
           \/ place = "unref" /\ drops = 1 /\ after = "run" /\ code = thrds[t].code
           \/ place = "run" /\ drops = 0 /\ after = "run" /\ code = thrds[t].code
    PROVE  ThrdInv'
<1>1. /\ ThrdTypeOK /\ LocalInv /\ IdInv /\ BlockInv /\ 0 \in Tid /\ NoBlock \in 0 .. MAX_THRD
      /\ NoBlock \notin BlockIndex
      /\ BlockIndex \subseteq 0 .. MAX_THRD /\ thrds[t] \in ThrdRecord /\ thrds \in [Tid -> ThrdRecord]
      /\ NoJoin \in JoinRecord
  BY ThrdBounds DEF ThrdInv, ThrdTypeOK
<1>2. /\ thrds[t].pc = "run" /\ thrds[t].block = NoBlock /\ thrds[t].unrefs # 2 /\ thrds[t].after = "run"
      /\ ~thrds[t].join.named /\ ~Left(t) /\ ~Ended(t) /\ handles' = handles
  BY <1>1 DEF ById, LocalInv, LocalFits, Left, Ended, ThrdRecord
<1>3. CASE FoundById(t) = {}
  <2> DEFINE r == [thrds[t] EXCEPT !.pc = "fault", !.block = NoBlock, !.child = 0, !.unrefs = 0,
                                   !.after = "run", !.join = NoJoin]
  <2>1. thrds' = [thrds EXCEPT ![t] = r] /\ UNCHANGED <<blocks, kept, raced>>
    BY <1>3 DEF ById, Outside
  <2>2. r \in ThrdRecord /\ r.pc = "fault" /\ r.unrefs = 0 /\ r.after = "run" /\ ~r.join.named
    <3>1. /\ r.pc = "fault" /\ r.unrefs = 0 /\ r.after = "run" /\ r.join = NoJoin
      BY <1>1 DEF ThrdRecord
    <3>2. r \in ThrdRecord
      BY <1>1, Places DEF ThrdRecord
    <3> QED
      BY <3>1, <3>2 DEF NoJoin
  <2> HIDE DEF r
  <2>3. Moves(t, r)
    BY <1>1, <2>1, <2>2, IsMove
  <2>4. raced # {}
    BY <1>2, <1>3, FindsOwn
  <2> QED
    BY <1>2, <2>1, <2>2, <2>3, <2>4, QuietMove
<1>4. CASE FoundById(t) # {}
  <2>1. PICK i \in FoundById(t) :
            /\ blocks' = [blocks EXCEPT ![i].ref = @ + 1]
            /\ Touch(i)
            /\ thrds' = [thrds EXCEPT ![t].pc = place, ![t].unrefs = drops, ![t].after = after,
                                      ![t].code = code,
                                      ![t].block = IF place = "run" THEN NoBlock ELSE i]
            /\ kept' = [kept EXCEPT ![i] = IF place = "run" THEN @ + 1 ELSE @]
    BY <1>4 DEF ById
  <2>2. i \in BlockIndex /\ blocks[i].id = t /\ (t = 0 => i = 0) /\ OwnsById(t, i)
    BY <1>2, FindsOwn
  <2> DEFINE r == [thrds[t] EXCEPT !.pc = place, !.unrefs = drops, !.after = after, !.code = code,
                                   !.block = IF place = "run" THEN NoBlock ELSE i]
             b == [blocks[i] EXCEPT !.ref = @ + 1]
  <2>3. /\ thrds' = [thrds EXCEPT ![t] = r] /\ blocks' = [blocks EXCEPT ![i] = b]
    BY <1>1, <2>1
  <2>4. /\ r \in ThrdRecord /\ r.pc = place /\ r.unrefs = drops /\ r.after = after /\ r.code = code
        /\ r.block = (IF place = "run" THEN NoBlock ELSE i) /\ r.join = thrds[t].join
        /\ r.child = thrds[t].child
    <3>1. /\ r.pc = place /\ r.unrefs = drops /\ r.after = after /\ r.code = code
          /\ r.block = (IF place = "run" THEN NoBlock ELSE i) /\ r.join = thrds[t].join
          /\ r.child = thrds[t].child
      BY <1>1 DEF ThrdRecord
    <3>2. r \in ThrdRecord
      <4>1. place \in ThrdPlace /\ drops \in 0 .. 2 /\ after \in {"run", "dead"}
        BY Places
      <4>2. (IF place = "run" THEN NoBlock ELSE i) \in 0 .. MAX_THRD
        BY <1>1, <2>2
      <4> QED
        BY <1>1, <4>1, <4>2 DEF ThrdRecord
    <3> QED
      BY <3>1, <3>2
  <2>5. /\ b \in BlockRecord /\ b.ref = blocks[i].ref + 1 /\ b.id = blocks[i].id
        /\ b.running = blocks[i].running /\ b.result = blocks[i].result /\ blocks[i].ref \in Int
    BY <1>1, <2>2 DEF ThrdTypeOK, BlockRecord
  <2> HIDE DEF r, b
  <2>6. Moves(t, r) /\ Stores(i, b)
    BY <1>1, <2>2, <2>3, <2>4, <2>5, IsMove, IsStore
  <2>7. kept' \in [BlockIndex -> Nat] /\ \A j \in BlockIndex : j # i => kept'[j] = kept[j]
    BY <1>1, <2>1, <2>2 DEF ThrdTypeOK
  <2>8. kept[i] \in Nat /\ kept'[i] = kept[i] + (IF place = "run" THEN 1 ELSE 0)
    BY <1>1, <2>1, <2>2 DEF ThrdTypeOK
  <2>9. LocalFits(t, r)
    BY <1>1, <1>2, <2>2, <2>4 DEF LocalInv, LocalFits
  <2>10. ~Left(t)' /\ ~Ended(t)'
    BY <2>4, <2>6 DEF Moves, Left, Ended
  <2>11. raced' = raced \/ (raced' = raced \cup {i} /\ Freeing(i) # {})
    BY <2>1 DEF Touch
  <2>12. ASSUME i \notin raced' PROVE CountInv(i)' /\ UseInv(i)' /\ JoinInv(i)'
    <3>1. i \in BlockIndex \ raced /\ Freeing(i) = {} /\ CountInv(i)
      BY <1>1, <2>1, <2>2, <2>12 DEF Touch, BlockInv
    <3>2. \A s \in Tid : s # t => Stands(s, i)
      BY <2>2, <2>5, <2>6, OthersStand DEF Moves, Stores
    <3>3. /\ thrds'[t] = r /\ blocks'[i] = b
      BY <2>6 DEF Moves, Stores
    <3>4. Owns(t, i) /\ Owns(t, i)'
      BY <1>2, <2>2, <2>4, <2>5, <2>10, <3>3 DEF Owns, OwnsById
    <3>5. ~Borrows(t, i) /\ (Borrows(t, i)' <=> place # "run")
      BY <1>1, <1>2, <2>2, <2>4, <3>3 DEF Borrows
    <3>6. t \notin Freeing(i)'
      BY <2>4, <3>3 DEF Freeing
    <3>7. CountInv(i)'
      BY <2>5, <2>8, <3>1, <3>2, <3>3, <3>4, <3>5, <3>6, SharesChange DEF CountInv
    <3>8. UseInv(i)' /\ JoinInv(i)'
      BY <1>2, <2>2, <2>4, <2>5, <2>6, <2>10, <3>1, SameData
    <3> QED
      BY <3>7, <3>8
  <2>13. ASSUME NEW j \in BlockIndex, j # i, blocks[j].id = t, t = 0 => j = 0 PROVE FALSE
    BY <1>1, <2>2, <2>13 DEF IdInv, IdOnce
  <2> QED
    BY <1>2, <2>2, <2>4, <2>5, <2>6, <2>7, <2>9, <2>10, <2>11, <2>12, <2>13, OnBlockSameIds
<1> QED
  BY <1>3, <1>4

-----------------------------------------------------------------------------
(* thrd_join *)

LEMMA ThrdJoinInv ==
    ASSUME ThrdInv, NEW t \in Tid, NEW h \in handles, ThrdJoin(t, h)
    PROVE  ThrdInv'
<1>1. /\ ThrdTypeOK /\ LocalInv /\ IdInv /\ BlockInv /\ thrds[t] \in ThrdRecord /\ thrds \in [Tid -> ThrdRecord]
      /\ BlockIndex \subseteq 0 .. MAX_THRD
  BY ThrdBounds DEF ThrdInv, ThrdTypeOK
<1>2. PICK i \in BlockIndex, u \in Tid : h = <<i, u>>
  <2>1. h \in BlockIndex \X Tid
    BY <1>1 DEF ThrdTypeOK
  <2> QED
    BY <2>1
<1> DEFINE k == [NoJoin EXCEPT !.tid = u]
           r == [thrds[t] EXCEPT !.pc = "find", !.block = i, !.join = k]
<1>3. thrds[t].pc = "run" /\ handles' \subseteq handles /\ UNCHANGED <<blocks, kept, raced>>
  BY DEF ThrdJoin
<1>4. thrds' = [thrds EXCEPT ![t] = r]
  BY <1>1, <1>2 DEF ThrdJoin
<1>5. k \in JoinRecord /\ k.tid = u /\ ~k.named
  BY ThrdBounds DEF NoJoin, JoinRecord
<1> HIDE DEF k
<1>6. /\ r \in ThrdRecord /\ r.pc = "find" /\ r.block = i /\ r.join = k
      /\ r.unrefs = thrds[t].unrefs /\ r.after = thrds[t].after
  BY <1>1, <1>5, Places DEF ThrdRecord
<1> HIDE DEF r
<1>7. thrds[t].unrefs = 0 /\ thrds[t].after = "run"
  BY <1>1, <1>3 DEF LocalInv, LocalFits, ThrdRecord
<1>8. u # 0 /\ thrds[u].pc # "unborn" /\ (i \notin raced => Left(u) \/ Home(u, i))
  <2>1. thrds[u].pc # "unborn"
    <3>1. CASE u = 0
      BY <1>1, <3>1 DEF LocalInv, LocalFits
    <3>2. CASE u # 0
      BY <1>1, <1>2, <3>2 DEF IdInv, IdOnce
    <3> QED
      BY <3>1, <3>2
  <2> QED
    BY <1>1, <1>2, <2>1 DEF IdInv, FirstBlock, BlockInv, JoinInv, HandleOk
<1>9. Moves(t, r)
  BY <1>1, <1>4, <1>6, IsMove
<1> QED
  BY <1>3, <1>5, <1>6, <1>7, <1>8, <1>9, QuietMove

LEMMA ByIndexInv ==
    ASSUME ThrdInv, NEW t \in Tid, ByIndex(t)
    PROVE  ThrdInv'
<1>1. /\ ThrdTypeOK /\ LocalInv /\ IdInv /\ BlockInv /\ thrds[t] \in ThrdRecord /\ thrds \in [Tid -> ThrdRecord]
      /\ 0 \in Tid /\ NoBlock \in 0 .. MAX_THRD /\ NoJoin \in JoinRecord /\ ~NoJoin.named
  BY ThrdBounds DEF ThrdInv, ThrdTypeOK, NoJoin
<1>2. /\ thrds[t].pc = "find" /\ handles' \subseteq handles /\ UNCHANGED <<blocks, kept, raced>>
      /\ thrds[t].unrefs = 0 /\ thrds[t].after = "run" /\ ~thrds[t].join.named
      /\ thrds[t].block \in BlockIndex /\ thrds[t].join.tid # 0
  BY <1>1 DEF ByIndex, LocalInv, LocalFits, ThrdRecord
<1>3. CASE blocks[thrds[t].block].ref = 0
  <2> DEFINE r == [thrds[t] EXCEPT !.pc = "run", !.block = NoBlock, !.child = 0, !.unrefs = 0,
                                   !.after = "run", !.join = NoJoin]
  <2>1. thrds' = [thrds EXCEPT ![t] = r]
    BY <1>3 DEF ByIndex, Outside
  <2>2. /\ r \in ThrdRecord /\ r.pc = "run" /\ r.unrefs = 0 /\ r.after = "run" /\ ~r.join.named
        /\ r.block = NoBlock
    BY <1>1, Places DEF ThrdRecord
  <2> HIDE DEF r
  <2>3. Moves(t, r)
    BY <1>1, <2>1, <2>2, IsMove
  <2> QED
    BY <1>2, <2>2, <2>3, QuietMove
<1>4. CASE blocks[thrds[t].block].ref # 0
  <2> DEFINE r == [thrds[t] EXCEPT !.pc = "ref"]
  <2>1. thrds' = [thrds EXCEPT ![t] = r]
    BY <1>4 DEF ByIndex
  <2>2. /\ r \in ThrdRecord /\ r.pc = "ref" /\ r.unrefs = thrds[t].unrefs /\ r.after = thrds[t].after
        /\ r.join = thrds[t].join /\ r.block = thrds[t].block
    BY <1>1, Places DEF ThrdRecord
  <2> HIDE DEF r
  <2>3. Moves(t, r)
    BY <1>1, <2>1, <2>2, IsMove
  <2>4. thrds[t].join.tid \in Tid
    BY <1>1 DEF ThrdRecord, JoinRecord
  <2>5. thrds[thrds[t].join.tid].pc # "unborn"
    BY <1>1, <1>2, <2>4 DEF IdInv, IdOnce
  <2>6. thrds[t].block \notin raced => Left(thrds[t].join.tid) \/ Home(thrds[t].join.tid, thrds[t].block)
    BY <1>1, <1>2 DEF BlockInv, JoinInv, SeekerOk
  <2> QED
    BY <1>2, <2>2, <2>3, <2>5, <2>6, QuietMove
<1> QED
  BY <1>3, <1>4

\* Whoever gets hold of the block of a thread that has not left awaits that thread.
LEMMA BeginsToAwait ==
    ASSUME ThrdInv, NEW t \in Tid, NEW i \in BlockIndex \ raced, NEW u \in Tid,
           Home(u, i), ~Left(u), thrds[t].pc = "ref"
    PROVE  Awaits(t, u, i)
<1>1. ThrdTypeOK /\ LocalInv /\ IdInv /\ UseInv(i)
  BY DEF ThrdInv, BlockInv
<1>2. CASE thrds[u].pc = "entry"
  <2>1. OwnsNew(u, i) /\ blocks[i].running
    BY <1>1, <1>2, HomeOwned DEF Home
  <2>2. ~Ended(u)
    BY <1>1, <1>2 DEF Ended, LocalInv, LocalFits
  <2>3. \A s \in Tid : Owns(s, i) => s = u
    BY <1>1, <2>1, OwnersSplit DEF UseInv, OneOwner
  <2> QED
    BY <2>1, <2>2, <2>3 DEF Awaits
<1>3. CASE thrds[u].pc # "entry"
  <2>1. OwnsById(u, i) /\ blocks[i].id = u
    BY <1>1, <1>3, HomeOwned DEF OwnsById
  <2>2. /\ blocks[i].running <=> ~Ended(u)
        /\ Ended(u) => blocks[i].result = thrds[u].code % ResultSize
    BY <1>1, <2>1 DEF UseInv, OwnerOk
  <2>3. \A s \in Tid : Owns(s, i) => s = u
    BY <1>1, <2>1, OwnersSplit DEF UseInv, OneOwner, OwnsById
  <2> QED
    BY <2>2, <2>3 DEF Awaits
<1> QED
  BY <1>2, <1>3

LEMMA JoinRefInv ==
    ASSUME ThrdInv, NEW t \in Tid, JoinRef(t)
    PROVE  ThrdInv'
<1>1. /\ ThrdTypeOK /\ LocalInv /\ IdInv /\ BlockInv /\ thrds[t] \in ThrdRecord /\ thrds \in [Tid -> ThrdRecord]
  BY ThrdBounds DEF ThrdInv, ThrdTypeOK
<1>2. /\ thrds[t].pc = "ref" /\ handles' = handles /\ kept' = kept
      /\ thrds[t].unrefs = 0 /\ thrds[t].after = "run" /\ ~thrds[t].join.named
      /\ thrds[t].block \in BlockIndex /\ thrds[t].join.tid # 0
  BY <1>1 DEF JoinRef, LocalInv, LocalFits, ThrdRecord
<1>3. PICK i \in BlockIndex : i = thrds[t].block
  BY <1>2
<1>4. PICK u \in Tid : u = thrds[t].join.tid
  BY <1>1 DEF ThrdRecord, JoinRecord
<1> DEFINE k == [thrds[t].join EXCEPT !.named = ~Left(u)]
           r == [thrds[t] EXCEPT !.pc = "wait", !.after = "run", !.join = k]
           b == [blocks[i] EXCEPT !.ref = @ + 1]
<1>5. thrds' = [thrds EXCEPT ![t] = r] /\ blocks' = [blocks EXCEPT ![i] = b] /\ Touch(i)
  BY <1>1, <1>3, <1>4 DEF JoinRef
<1>6. k \in JoinRecord /\ k.tid = u /\ (k.named <=> ~Left(u))
  BY <1>1, <1>4 DEF ThrdRecord, JoinRecord
<1> HIDE DEF k
<1>7. /\ r \in ThrdRecord /\ r.pc = "wait" /\ r.block = i /\ r.join = k /\ r.child = thrds[t].child
      /\ r.unrefs = 0 /\ r.after = "run" /\ r.code = thrds[t].code
  BY <1>1, <1>2, <1>3, <1>6, Places DEF ThrdRecord
<1>8. /\ b \in BlockRecord /\ b.ref = blocks[i].ref + 1 /\ b.id = blocks[i].id
      /\ b.running = blocks[i].running /\ b.result = blocks[i].result /\ blocks[i].ref \in Int
  BY <1>1 DEF ThrdTypeOK, BlockRecord
<1> HIDE DEF r, b
<1>9. Moves(t, r) /\ Stores(i, b)
  BY <1>1, <1>5, <1>7, <1>8, IsMove, IsStore
<1>10. thrds'[t] = r /\ blocks'[i] = b
  BY <1>9 DEF Moves, Stores
<1>11. LocalFits(t, r)
  BY <1>1, <1>2, <1>6, <1>7 DEF LocalInv, LocalFits
<1>12. ~Left(t) /\ ~Left(t)' /\ ~Ended(t) /\ ~Ended(t)'
  BY <1>2, <1>7, <1>10 DEF Left, Ended
<1>13. raced' = raced \/ (raced' = raced \cup {i} /\ Freeing(i) # {})
  BY <1>5 DEF Touch
<1>14. ASSUME i \notin raced' PROVE CountInv(i)' /\ UseInv(i)' /\ JoinInv(i)'
  <2>1. i \in BlockIndex \ raced /\ Freeing(i) = {} /\ CountInv(i) /\ SeekerOk(i)
    BY <1>1, <1>5, <1>14 DEF Touch, BlockInv, JoinInv
  <2>2. \A s \in Tid : s # t => Stands(s, i)
    BY <1>8, <1>9, OthersStand DEF Moves, Stores
  <2>3. Owns(t, i)' <=> Owns(t, i)
    BY <1>2, <1>7, <1>8, <1>10, <1>12 DEF Owns
  <2>4. ~Borrows(t, i) /\ Borrows(t, i)' /\ t \notin Freeing(i)'
    BY <1>2, <1>7, <1>10 DEF Borrows, Freeing
  <2>5. CountInv(i)'
    <3>1. kept[i] \in Nat /\ kept'[i] = kept[i] /\ blocks'[i].ref = blocks[i].ref + 1
      BY <1>1, <1>2, <1>8, <1>10 DEF ThrdTypeOK
    <3> QED
      BY <1>8, <2>1, <2>2, <2>3, <2>4, <3>1, SharesChange DEF CountInv
  <2>6. r.join.named => Awaits(t, r.join.tid, i)
    BY <1>2, <1>3, <1>4, <1>6, <1>7, <2>1, BeginsToAwait DEF SeekerOk
  <2>7. UseInv(i)' /\ JoinInv(i)'
    BY <1>2, <1>7, <1>8, <1>9, <1>12, <2>1, <2>6, SameData
  <2> QED
    BY <2>5, <2>7
<1>15. kept' \in [BlockIndex -> Nat]
  BY <1>1, <1>2 DEF ThrdTypeOK
<1> QED
  BY <1>2, <1>3, <1>4, <1>6, <1>7, <1>8, <1>9, <1>11, <1>12, <1>13, <1>14, <1>15, OnBlockSameIds

\* The two steps of thrd_join that only look at the block
LEMMA JoinLooks ==
    ASSUME ThrdInv, NEW t \in Tid, NEW r \in ThrdRecord, Moves(t, r),
           NEW i \in BlockIndex, i = thrds[t].block, i = r.block,
           thrds[t].pc \in {"wait", "read"}, r.pc \in {"read", "unref"},
           r.pc = "unref" => r.unrefs = 1 /\ thrds[t].pc = "read" /\ r.join.result = blocks[i].result,
           r.pc = "read" => r.unrefs = 0 /\ ~blocks[i].running, r.after = "run",
           r.child = thrds[t].child, r.code = thrds[t].code,
           r.join.tid = thrds[t].join.tid, r.join.named = thrds[t].join.named,
           UNCHANGED <<blocks, handles, kept, raced>>
    PROVE  ThrdInv'
<1>1. /\ ThrdTypeOK /\ LocalInv /\ IdInv /\ BlockInv /\ thrds[t] \in ThrdRecord
      /\ blocks[i] \in BlockRecord /\ thrds[t].after = "run"
  BY DEF ThrdInv, ThrdTypeOK, LocalInv, LocalFits, ThrdRecord
<1>2. PICK b \in BlockRecord : b = blocks[i] /\ Stores(i, b)
  BY <1>1 DEF Stores, ThrdTypeOK
<1>3. thrds'[t] = r
  BY DEF Moves
<1>4. LocalFits(t, r)
  BY <1>1 DEF LocalInv, LocalFits
<1>5. ~Left(t) /\ ~Left(t)' /\ ~Ended(t) /\ ~Ended(t)'
  BY <1>1, <1>3 DEF Left, Ended
<1>6. ASSUME i \notin raced' PROVE CountInv(i)' /\ UseInv(i)' /\ JoinInv(i)'
  <2>1. i \in BlockIndex \ raced /\ CountInv(i) /\ JoinerOk(i)
    BY <1>1, <1>6 DEF BlockInv, JoinInv
  <2>2. ASSUME NEW s \in Tid PROVE Stands(s, i)
    <3>1. CASE s # t
      BY <3>1, OthersStand DEF Moves
    <3>2. CASE s = t
      BY <1>1, <1>3, <1>5, <3>2 DEF Stands, OwnsNew, OwnsById, Borrows, Freeing
    <3> QED
      BY <3>1, <3>2
  <2>3. CountInv(i)'
    BY <2>1, <2>2, CountStays
  <2>4. r.join.named =>
            /\ Awaits(t, r.join.tid, i) /\ Ended(r.join.tid)
            /\ r.pc = "unref" => r.join.result = thrds[r.join.tid].code % ResultSize
    BY <2>1 DEF JoinerOk, Borrows, Awaits
  <2>5. UseInv(i)' /\ JoinInv(i)'
    BY <1>1, <1>2, <1>5, <2>1, <2>4, SameData
  <2> QED
    BY <2>3, <2>5
<1>7. kept' \in [BlockIndex -> Nat] /\ kept' = kept /\ handles' = handles /\ raced' = raced
  BY <1>1 DEF ThrdTypeOK
<1>8. /\ r.unrefs # 2 /\ b.id = blocks[i].id /\ r.pc # "stop"
      /\ thrds[t].block \in {i, NoBlock} /\ r.block \in {i, NoBlock}
      /\ thrds[t].pc \notin {"unborn", "entry"}
      /\ r.pc \notin {"unborn", "entry", "id", "start", "fault"}
      /\ r.pc \in {"find", "ref"} \/ r.join.named => thrds[t].pc \in {"find", "ref"} \/ thrds[t].join.named
      /\ r.pc \in {"find", "ref"} \/ r.join.named => r.join.tid = thrds[t].join.tid
  BY <1>2
<1> QED
  BY <1>2, <1>4, <1>5, <1>6, <1>7, <1>8, OnBlockSameIds

LEMMA JoinWaitInv ==
    ASSUME ThrdInv, NEW t \in Tid, JoinWait(t)
    PROVE  ThrdInv'
<1>1. /\ ThrdTypeOK /\ LocalInv /\ thrds[t] \in ThrdRecord /\ thrds \in [Tid -> ThrdRecord]
  BY DEF ThrdInv, ThrdTypeOK
<1>2. /\ thrds[t].pc = "wait" /\ ~blocks[thrds[t].block].running /\ thrds[t].block \in BlockIndex
      /\ UNCHANGED <<blocks, handles, kept, raced>> /\ thrds[t].after = "run" /\ thrds[t].unrefs = 0
  BY <1>1 DEF JoinWait, LocalInv, LocalFits, ThrdRecord
<1> DEFINE r == [thrds[t] EXCEPT !.pc = "read"]
<1>3. thrds' = [thrds EXCEPT ![t] = r]
  BY DEF JoinWait
<1>4. /\ r \in ThrdRecord /\ r.pc = "read" /\ r.block = thrds[t].block /\ r.unrefs = thrds[t].unrefs
      /\ r.after = thrds[t].after /\ r.child = thrds[t].child /\ r.code = thrds[t].code
      /\ r.join = thrds[t].join
  BY <1>1, Places DEF ThrdRecord
<1> HIDE DEF r
<1>5. Moves(t, r)
  BY <1>1, <1>3, <1>4, IsMove
<1> QED
  BY <1>2, <1>4, <1>5, JoinLooks

LEMMA JoinReadInv ==
    ASSUME ThrdInv, NEW t \in Tid, JoinRead(t)
    PROVE  ThrdInv'
<1>1. /\ ThrdTypeOK /\ LocalInv /\ thrds[t] \in ThrdRecord /\ thrds \in [Tid -> ThrdRecord]
  BY DEF ThrdInv, ThrdTypeOK
<1>2. /\ thrds[t].pc = "read" /\ thrds[t].block \in BlockIndex
      /\ UNCHANGED <<blocks, handles, kept, raced>> /\ thrds[t].after = "run"
  BY <1>1 DEF JoinRead, LocalInv, LocalFits, ThrdRecord
<1>3. PICK i \in BlockIndex : i = thrds[t].block
  BY <1>2
<1> DEFINE k == [thrds[t].join EXCEPT !.result = blocks[i].result]
           r == [thrds[t] EXCEPT !.pc = "unref", !.unrefs = 1, !.join = k]
<1>4. thrds' = [thrds EXCEPT ![t] = r]
  BY <1>1, <1>3 DEF JoinRead
<1>5. /\ k \in JoinRecord /\ k.tid = thrds[t].join.tid /\ k.named = thrds[t].join.named
      /\ k.result = blocks[i].result
  BY <1>1 DEF ThrdTypeOK, ThrdRecord, JoinRecord, BlockRecord
<1> HIDE DEF k
<1>6. /\ r \in ThrdRecord /\ r.pc = "unref" /\ r.block = thrds[t].block /\ r.unrefs = 1
      /\ r.after = thrds[t].after /\ r.child = thrds[t].child /\ r.code = thrds[t].code
      /\ r.join = k
  BY <1>1, <1>5, Places DEF ThrdRecord
<1> HIDE DEF r
<1>7. Moves(t, r)
  BY <1>1, <1>4, <1>6, IsMove
<1> QED
  BY <1>2, <1>3, <1>5, <1>6, <1>7, JoinLooks

-----------------------------------------------------------------------------
(* The stores of thrd_exit *)

\* A thread in thrd_exit has its own block in hand.
LEMMA ExitOnOwn ==
    ASSUME ThrdInv, NEW t \in Tid, thrds[t].unrefs = 2
    PROVE  /\ ~Left(t)
           /\ t = 0 => thrds[t].block = 0
           /\ \A j \in BlockIndex : blocks[j].id = t /\ (t = 0 => j = 0) => j = thrds[t].block
           /\ thrds[t].block \in BlockIndex \ raced => OwnsById(t, thrds[t].block)
<1>1. LocalInv /\ IdInv /\ BlockInv /\ 0 \in Tid
  BY ThrdBounds DEF ThrdInv
<1>2. thrds[t].pc \in {"result", "stop", "unref"} /\ ~Left(t)
  BY <1>1 DEF LocalInv, LocalFits, Left
<1>3. CASE t = 0
  BY <1>1, <1>2, <1>3 DEF IdInv, FirstBlock, OwnsById
<1>4. CASE t # 0
  BY <1>1, <1>2, <1>4 DEF IdInv, IdOnce, BlockInv, UseInv, ExitOk, OwnsById
<1> QED
  BY <1>2, <1>3, <1>4

LEMMA ExitMoves ==
    ASSUME ThrdInv, NEW t \in Tid, NEW r \in ThrdRecord, Moves(t, r),
           NEW i \in BlockIndex, i = thrds[t].block, i = r.block,
           NEW b \in BlockRecord, Stores(i, b),
           thrds[t].pc \in {"result", "stop"}, r.pc \in {"stop", "unref"},
           r.unrefs = 2, r.after = "dead", r.child = thrds[t].child, r.code = thrds[t].code,
           r.join = thrds[t].join,
           b.id = blocks[i].id, b.ref = blocks[i].ref, b.running => blocks[i].running,
           i \notin raced => (b.running <=> ~Ended(t)') /\ b.result = r.code % ResultSize,
           UNCHANGED <<handles, kept, raced>>
    PROVE  ThrdInv'
<1>1. /\ ThrdTypeOK /\ LocalInv /\ IdInv /\ BlockInv /\ thrds[t] \in ThrdRecord /\ 0 \in Tid
      /\ blocks[i] \in BlockRecord
      /\ thrds[t].after = "dead" /\ thrds[t].unrefs = 2 /\ ~thrds[t].join.named
  BY ThrdBounds DEF ThrdInv, ThrdTypeOK, LocalInv, LocalFits
<1>2. thrds'[t] = r /\ blocks'[i] = b /\ \A s \in Tid : s # t => thrds'[s] = thrds[s]
  BY DEF Moves, Stores
<1>3. LocalFits(t, r)
  BY <1>1 DEF LocalInv, LocalFits
<1>4. ~Left(t) /\ ~Left(t)' /\ ~Ended(t)
  BY <1>1, <1>2 DEF Left, Ended
<1>5. ASSUME NEW j \in BlockIndex, j # i, blocks[j].id = t, t = 0 => j = 0 PROVE FALSE
  BY <1>1, <1>4, <1>5, ExitOnOwn
<1>6. ASSUME i \notin raced' PROVE CountInv(i)' /\ UseInv(i)' /\ JoinInv(i)'
  <2>1. /\ i \in BlockIndex \ raced /\ CountInv(i) /\ UseInv(i) /\ JoinInv(i)
        /\ OwnsById(t, i) /\ blocks[i].id = t
    BY <1>1, <1>4, <1>6, ExitOnOwn DEF BlockInv, OwnsById
  <2>2. ASSUME NEW s \in Tid PROVE Stands(s, i)
    <3>1. CASE s # t
      BY <1>2, <3>1, OthersStand
    <3>2. CASE s = t
      BY <1>1, <1>2, <1>4, <3>2 DEF Stands, OwnsNew, OwnsById, Borrows, Freeing
    <3> QED
      BY <3>1, <3>2
  <2>3. CountInv(i)'
    BY <1>2, <2>1, <2>2, CountStays
  <2>4. ASSUME NEW s \in Tid, OwnsNew(s, i) PROVE FALSE
    BY <2>1, <2>4 DEF UseInv, OneOwner
  <2>5. ASSUME NEW u \in Tid, Home(u, i) PROVE Home(u, i)'
    <3>1. u = t
      BY <2>1, <2>5 DEF Home
    <3> QED
      BY <1>2, <2>5, <3>1 DEF Home
  <2>6. UseInv(i)'
    <3>1. OneOwner(i)'
      BY <2>1, <2>2 DEF UseInv, OneOwner, Stands
    <3>2. MakerOk(i)'
      BY <1>1, <1>2, <2>1 DEF UseInv, MakerOk, ThrdTypeOK, ThrdRecord
    <3>3. EntryOk(i)'
      BY <1>2, <2>4 DEF EntryOk, OwnsNew
    <3>4. ExitOk(i)'
      BY <1>2, <2>1 DEF UseInv, ExitOk
    <3>5. OwnerOk(i)'
      <4>1. ASSUME NEW u \in Tid, OwnsById(u, i)' PROVE u = t
        BY <1>2, <2>1, <4>1 DEF OwnsById
      <4> QED
        BY <1>2, <1>6, <4>1 DEF OwnerOk
    <3>6. FreeOk(i)'
      BY <1>2, <2>1 DEF UseInv, FreeOk
    <3> QED
      BY <3>1, <3>2, <3>3, <3>4, <3>5, <3>6 DEF UseInv
  <2>7. JoinInv(i)'
    <3>0. \A s \in Tid : Left(s) => Left(s)'
      BY <1>2, <1>4 DEF Left
    <3>1. HandleOk(i)'
      BY <2>1, <2>5, <3>0 DEF JoinInv, HandleOk
    <3>2. SeekerOk(i)'
      BY <1>1, <1>2, <2>1, <2>5, <3>0 DEF JoinInv, SeekerOk, ThrdTypeOK, ThrdRecord, JoinRecord
    <3>3. JoinerOk(i)'
      <4> SUFFICES ASSUME NEW s \in Tid, (thrds[s].join.named /\ Borrows(s, i))'
                   PROVE  Awaits(s, thrds[s].join.tid, i)'
        BY DEF JoinerOk
      <4>1. s # t /\ thrds'[s] = thrds[s] /\ Awaits(s, thrds[s].join.tid, i)
        BY <1>1, <1>2, <2>1, <2>2 DEF JoinInv, JoinerOk, Stands
      <4>2. thrds[s].join.tid = t
        BY <2>1, <4>1 DEF Awaits, Home
      <4>3. Home(t, i)' /\ \A v \in Tid : Owns(v, i)' => v = t
        BY <2>2, <2>5, <4>1, <4>2, OwnersSplit DEF Awaits, Stands, Owns, OwnsNew, OwnsById
      <4>4. (blocks'[i].running <=> ~Ended(t)') /\ blocks'[i].result = thrds'[t].code % ResultSize
        BY <1>2, <1>6
      <4>5. thrds'[s].pc \notin {"read", "unref"}
        BY <1>4, <4>1, <4>2 DEF Awaits
      <4> QED
        BY <4>1, <4>2, <4>3, <4>4, <4>5 DEF Awaits
    <3> QED
      BY <3>1, <3>2, <3>3 DEF JoinInv
  <2> QED
    BY <2>3, <2>6, <2>7
<1>7. kept' \in [BlockIndex -> Nat] /\ kept' = kept /\ handles' = handles /\ raced' = raced
  BY <1>1 DEF ThrdTypeOK
<1>8. /\ thrds[t].block \in {i, NoBlock} /\ r.block \in {i, NoBlock}
      /\ thrds[t].pc \notin {"unborn", "entry"}
      /\ r.pc \notin {"unborn", "entry", "id", "start", "fault"}
      /\ r.pc \in {"find", "ref"} \/ r.join.named => thrds[t].pc \in {"find", "ref"} \/ thrds[t].join.named
      /\ r.pc \in {"find", "ref"} \/ r.join.named => r.join.tid = thrds[t].join.tid
      /\ thrds[t].unrefs = 2 /\ r.block = thrds[t].block
  BY <1>1
<1>9. \A j \in BlockIndex : j # i /\ blocks[j].id = t /\ (t = 0 => j = 0) =>
                /\ Left(t)' <=> Left(t)
                /\ Ended(t)' <=> Ended(t)
                /\ r.code = thrds[t].code /\ r.pc # "stop"
  BY <1>5
<1> QED
  BY <1>3, <1>4, <1>6, <1>7, <1>8, <1>9, OnBlockSameIds

LEMMA StoreResultInv ==
    ASSUME ThrdInv, NEW t \in Tid, StoreResult(t)
    PROVE  ThrdInv'
<1>1. /\ ThrdTypeOK /\ LocalInv /\ BlockInv /\ thrds[t] \in ThrdRecord /\ thrds \in [Tid -> ThrdRecord]
      /\ thrds[t].code % ResultSize \in 0 .. ResultSize - 1
  BY ThrdBounds DEF ThrdInv, ThrdTypeOK, ThrdRecord
<1>2. /\ thrds[t].pc = "result" /\ thrds[t].block \in BlockIndex /\ thrds[t].unrefs = 2
      /\ UNCHANGED <<handles, kept, raced>> /\ thrds[t].after = "dead"
  BY <1>1 DEF StoreResult, LocalInv, LocalFits
<1>3. PICK i \in BlockIndex : i = thrds[t].block
  BY <1>2
<1>4. PICK x \in 0 .. ResultSize - 1 : x = thrds[t].code % ResultSize
  BY <1>1
<1> DEFINE r == [thrds[t] EXCEPT !.pc = "stop"]
           b == [blocks[i] EXCEPT !.result = x]
<1>5. thrds' = [thrds EXCEPT ![t] = r] /\ blocks' = [blocks EXCEPT ![i] = b]
  BY <1>3, <1>4 DEF StoreResult
<1>6. /\ r \in ThrdRecord /\ r.pc = "stop" /\ r.block = i /\ r.unrefs = 2
      /\ r.after = "dead" /\ r.child = thrds[t].child /\ r.code = thrds[t].code
      /\ r.join = thrds[t].join
  BY <1>1, <1>2, <1>3, Places DEF ThrdRecord
<1>7. /\ b \in BlockRecord /\ b.id = blocks[i].id /\ b.ref = blocks[i].ref
      /\ b.running = blocks[i].running /\ b.result = x
  BY <1>1 DEF ThrdTypeOK, BlockRecord
<1> HIDE DEF r, b
<1>8. Moves(t, r) /\ Stores(i, b)
  BY <1>1, <1>5, <1>6, <1>7, IsMove, IsStore
<1>9. ~Ended(t)' /\ ~Ended(t) /\ ~Left(t)
  BY <1>2, <1>6, <1>8 DEF Ended, Left, Moves
<1>10. i \notin raced => b.running
  BY <1>1, <1>2, <1>3, <1>7, <1>9, ExitOnOwn DEF BlockInv, UseInv, OwnerOk
<1>11. i \notin raced => (b.running <=> ~Ended(t)') /\ b.result = r.code % ResultSize
  BY <1>4, <1>6, <1>7, <1>9, <1>10
<1>12. b.running => blocks[i].running
  BY <1>7
<1> QED
  BY <1>2, <1>3, <1>6, <1>7, <1>8, <1>11, <1>12, ExitMoves

LEMMA StopInv ==
    ASSUME ThrdInv, NEW t \in Tid, Stop(t)
    PROVE  ThrdInv'
<1>1. /\ ThrdTypeOK /\ LocalInv /\ BlockInv /\ thrds[t] \in ThrdRecord /\ thrds \in [Tid -> ThrdRecord]
  BY ThrdBounds DEF ThrdInv, ThrdTypeOK, ThrdRecord
<1>2. /\ thrds[t].pc = "stop" /\ thrds[t].block \in BlockIndex /\ thrds[t].unrefs = 2
      /\ UNCHANGED <<handles, kept, raced>> /\ thrds[t].after = "dead"
  BY <1>1 DEF Stop, LocalInv, LocalFits
<1>3. PICK i \in BlockIndex : i = thrds[t].block
  BY <1>2
<1> DEFINE r == [thrds[t] EXCEPT !.pc = "unref"]
           b == [blocks[i] EXCEPT !.running = FALSE]
<1>4. thrds' = [thrds EXCEPT ![t] = r] /\ blocks' = [blocks EXCEPT ![i] = b]
  BY <1>3 DEF Stop
<1>5. /\ r \in ThrdRecord /\ r.pc = "unref" /\ r.block = i /\ r.unrefs = 2
      /\ r.after = "dead" /\ r.child = thrds[t].child /\ r.code = thrds[t].code
      /\ r.join = thrds[t].join
  BY <1>1, <1>2, <1>3, Places DEF ThrdRecord
<1>6. /\ b \in BlockRecord /\ b.id = blocks[i].id /\ b.ref = blocks[i].ref
      /\ ~b.running /\ b.result = blocks[i].result
  BY <1>1 DEF ThrdTypeOK, BlockRecord
<1> HIDE DEF r, b
<1>7. Moves(t, r) /\ Stores(i, b)
  BY <1>1, <1>4, <1>5, <1>6, IsMove, IsStore
<1>8. Ended(t)' /\ ~Left(t)
  BY <1>2, <1>5, <1>7 DEF Ended, Left, Moves
<1>9. i \notin raced => b.result = r.code % ResultSize
  BY <1>1, <1>2, <1>3, <1>5, <1>6, <1>8, ExitOnOwn DEF BlockInv, UseInv, OwnerOk
<1> QED
  BY <1>2, <1>3, <1>5, <1>6, <1>7, <1>8, <1>9, ExitMoves

-----------------------------------------------------------------------------
(* _ThrdBlockUnref and _ThrdBlockFree *)

LEMMA UnrefInv ==
    ASSUME ThrdInv, NEW t \in Tid, Unref(t)
    PROVE  ThrdInv'
<1>1. /\ ThrdTypeOK /\ LocalInv /\ IdInv /\ BlockInv /\ thrds[t] \in ThrdRecord /\ thrds \in [Tid -> ThrdRecord]
      /\ 0 \in Tid /\ NoBlock \in 0 .. MAX_THRD /\ NoJoin \in JoinRecord /\ ~NoJoin.named
      /\ NoBlock \notin BlockIndex
  BY ThrdBounds DEF ThrdInv, ThrdTypeOK, NoJoin
<1>2. /\ thrds[t].pc = "unref" /\ handles' = handles /\ kept' = kept
      /\ thrds[t].block \in BlockIndex /\ thrds[t].unrefs \in {1, 2}
      /\ thrds[t].unrefs = 2 => thrds[t].after = "dead"
      /\ thrds[t].after \in {"run", "dead"} /\ (thrds[t].join.named => thrds[t].after = "run")
  BY <1>1 DEF Unref, LocalInv, LocalFits, ThrdRecord
<1>3. PICK i \in BlockIndex : i = thrds[t].block
  BY <1>2
<1>4. PICK n \in 0 .. 2 : n = thrds[t].unrefs - 1 /\ n \in {0, 1} /\ (n = 1 <=> thrds[t].unrefs = 2)
  BY <1>2
<1> DEFINE b == [blocks[i] EXCEPT !.ref = @ - 1]
           rc == [thrds[t] EXCEPT !.pc = "clear", !.unrefs = n]
           ru == [thrds[t] EXCEPT !.pc = "unref", !.unrefs = n]
           ro == [thrds[t] EXCEPT !.pc = thrds[t].after, !.block = NoBlock, !.child = 0, !.unrefs = 0,
                                  !.after = "run", !.join = NoJoin]
<1>5. /\ blocks' = [blocks EXCEPT ![i] = b] /\ Touch(i)
      /\ \/ blocks[i].ref <= 1 /\ thrds' = [thrds EXCEPT ![t] = rc]
         \/ ~(blocks[i].ref <= 1) /\ n = 1 /\ thrds' = [thrds EXCEPT ![t] = ru]
         \/ ~(blocks[i].ref <= 1) /\ n = 0 /\ thrds' = [thrds EXCEPT ![t] = ro]
  <2>1. blocks' = [blocks EXCEPT ![i] = b] /\ Touch(i)
    BY <1>3 DEF Unref
  <2>2. CASE blocks[i].ref <= 1
    BY <1>3, <1>4, <2>1, <2>2 DEF Unref
  <2>3. CASE ~(blocks[i].ref <= 1)
    <3>1. thrds' = [thrds EXCEPT ![t] = Onward(t, n)]
      BY <1>3, <1>4, <2>3 DEF Unref
    <3>2. Onward(t, n) = IF n = 1 THEN ru ELSE ro
      BY <1>4 DEF Onward, Outside
    <3> QED
      BY <1>4, <2>1, <2>3, <3>1, <3>2
  <2> QED
    BY <2>2, <2>3
<1>6. /\ rc \in ThrdRecord /\ rc.pc = "clear" /\ rc.unrefs = n /\ rc.block = i /\ rc.after = thrds[t].after
      /\ rc.join = thrds[t].join /\ rc.code = thrds[t].code /\ rc.child = thrds[t].child
  BY <1>1, <1>3, <1>4, Places DEF ThrdRecord
<1>7. /\ ru \in ThrdRecord /\ ru.pc = "unref" /\ ru.unrefs = n /\ ru.block = i /\ ru.after = thrds[t].after
      /\ ru.join = thrds[t].join /\ ru.code = thrds[t].code /\ ru.child = thrds[t].child
  BY <1>1, <1>3, <1>4, Places DEF ThrdRecord
<1>8. /\ ro \in ThrdRecord /\ ro.pc = thrds[t].after /\ ro.unrefs = 0 /\ ro.block = NoBlock /\ ro.after = "run"
      /\ ro.join = NoJoin /\ ro.code = thrds[t].code
  <2>1. thrds[t].after \in ThrdPlace
    BY <1>2, Places
  <2> QED
    BY <1>1, <2>1, Places DEF ThrdRecord
<1>9. /\ b \in BlockRecord /\ b.ref = blocks[i].ref - 1 /\ b.id = blocks[i].id
      /\ b.running = blocks[i].running /\ b.result = blocks[i].result /\ blocks[i].ref \in Int
  BY <1>1 DEF ThrdTypeOK, BlockRecord
<1> HIDE DEF b, rc, ru, ro
<1>10. PICK r \in ThrdRecord :
         /\ thrds' = [thrds EXCEPT ![t] = r]
         /\ \/ blocks[i].ref <= 1 /\ r = rc
            \/ blocks[i].ref > 1 /\ n = 1 /\ r = ru
            \/ blocks[i].ref > 1 /\ n = 0 /\ r = ro
  BY <1>5, <1>6, <1>7, <1>8, <1>9
<1>11. Moves(t, r) /\ Stores(i, b)
  BY <1>1, <1>5, <1>9, <1>10, IsMove, IsStore
<1>12. thrds'[t] = r /\ blocks'[i] = b
  BY <1>11 DEF Moves, Stores
<1>13. LocalFits(t, r)
  BY <1>1, <1>2, <1>3, <1>4, <1>6, <1>7, <1>8, <1>10 DEF LocalInv, LocalFits
<1>14. /\ Left(t) <=> (thrds[t].after = "dead" /\ n = 0)
       /\ Left(t)' <=> thrds[t].after = "dead"
       /\ Ended(t) <=> thrds[t].after = "dead"
       /\ Ended(t)' <=> thrds[t].after = "dead"
       /\ r.code = thrds[t].code /\ r.pc \notin {"stop", "find", "ref"} /\ r.unrefs # 2
       /\ r.join.named => thrds[t].join.named /\ r.join = thrds[t].join
       /\ r.block \in {i, NoBlock}
       /\ r.pc \in {"run", "dead", "clear", "unref"}
       /\ r.pc = "unref" => n = 1 /\ ~r.join.named
  BY <1>1, <1>2, <1>4, <1>6, <1>7, <1>8, <1>10, <1>12 DEF Left, Ended
<1>15. raced' = raced \/ (raced' = raced \cup {i} /\ Freeing(i) # {})
  BY <1>5 DEF Touch
<1>16. ASSUME i \notin raced' PROVE CountInv(i)' /\ UseInv(i)' /\ JoinInv(i)'
  <2>1. i \in BlockIndex \ raced /\ Freeing(i) = {} /\ CountInv(i) /\ UseInv(i)
    BY <1>1, <1>5, <1>16 DEF Touch, BlockInv
  <2>2. \A s \in Tid : s # t => Stands(s, i)
    BY <1>9, <1>11, OthersStand DEF Moves, Stores
  <2>3. Borrows(t, i) /\ ~OwnsNew(t, i) /\ ~OwnsNew(t, i)'
    BY <1>2, <1>3, <1>12, <1>14 DEF Borrows, OwnsNew
  <2>4. /\ n = 1 => Owns(t, i) /\ ~Owns(t, i)'
        /\ n = 0 => (Owns(t, i)' <=> Owns(t, i))
    <3>1. n = 1 => OwnsById(t, i)
      BY <1>3, <1>4, <2>1, ExitOnOwn
    <3>2. OwnsById(t, i)' <=> r.pc # "entry" /\ ~Left(t)' /\ blocks[i].id = t /\ (t = 0 => i = 0)
      BY <1>9, <1>12 DEF OwnsById
    <3>3. OwnsById(t, i) <=> ~Left(t) /\ blocks[i].id = t /\ (t = 0 => i = 0)
      BY <1>2 DEF OwnsById
    <3>4. (Owns(t, i) <=> OwnsById(t, i)) /\ (Owns(t, i)' <=> OwnsById(t, i)')
      BY <2>3 DEF Owns, OwnsNew, OwnsById
    <3> QED
      BY <1>2, <1>4, <1>14, <3>1, <3>2, <3>3, <3>4
  <2>5. kept[i] \in Nat /\ kept'[i] = kept[i] /\ blocks'[i].ref = blocks[i].ref - 1
    BY <1>1, <1>2, <1>9, <1>12 DEF ThrdTypeOK
  <2>6. CASE blocks[i].ref <= 1
    <3>1. r = rc /\ ~Borrows(t, i)' /\ Freeing(i)' \ {t} = {}
      BY <1>6, <1>9, <1>10, <1>12, <2>1, <2>2, <2>6, SharesChange DEF Borrows
    <3>2. t \in Freeing(i)'
      BY <1>3, <1>6, <1>12, <3>1 DEF Freeing
    <3>3. blocks[i].ref = kept[i] + Cardinality(Owners(i)) + Cardinality(Borrowers(i))
      BY <2>1 DEF CountInv
    <3>4. /\ t \in Borrowers(i) /\ IsFiniteSet(Borrowers(i)) /\ IsFiniteSet(Owners(i))
          /\ Cardinality(Owners(i)) \in Nat /\ Cardinality(Borrowers(i)) \in Nat
          /\ Cardinality(Borrowers(i)) # 0
      BY <2>3, SharesFinite, FS_EmptySet DEF Borrowers
    <3>5. kept[i] = 0 /\ Cardinality(Owners(i)) = 0 /\ Cardinality(Borrowers(i)) = 1
      BY <1>9, <2>5, <2>6, <3>3, <3>4
    <3>6. Owners(i) = {}
      BY <3>4, <3>5, FS_EmptySet
    <3>7. n = 0
      BY <1>4, <2>4, <3>6 DEF Owners
    <3>8. Cardinality(Owners(i))' = 0 /\ Cardinality(Borrowers(i))' = 0
      BY <2>2, <2>3, <2>4, <3>1, <3>5, <3>7, SharesChange
    <3>9. Owners(i)' = {} /\ Borrowers(i)' = {}
      <4>1. IsFiniteSet(Owners(i))' /\ IsFiniteSet(Borrowers(i))'
        BY SharesFinite, PTL
      <4> QED
        BY <3>8, <4>1, FS_EmptySet
    <3>10. CountInv(i)'
      BY <2>5, <3>1, <3>2, <3>5, <3>9 DEF CountInv
    <3>11. r.unrefs = 0
      BY <1>6, <3>1, <3>7
    <3>12. UseInv(i)' /\ JoinInv(i)'
      BY <1>2, <1>9, <1>11, <1>14, <2>1, <3>1, <3>11, SameData
    <3> QED
      BY <3>10, <3>12
  <2>7. CASE blocks[i].ref > 1
    <3>1. r.pc \notin {"clear", "zero"} /\ (n = 1 => r = ru) /\ (n = 0 => r = ro)
      BY <1>2, <1>4, <1>7, <1>8, <1>9, <1>10, <2>7
    <3>2. t \notin Freeing(i)'
      BY <1>12, <3>1 DEF Freeing
    <3>3. (n = 1 => Borrows(t, i)') /\ (n = 0 => ~Borrows(t, i)')
      BY <1>1, <1>3, <1>7, <1>8, <1>12, <3>1 DEF Borrows
    <3>4. CountInv(i)'
      BY <1>4, <1>9, <2>1, <2>2, <2>3, <2>4, <2>5, <3>2, <3>3, SharesChange DEF CountInv
    <3>5. ~(r.join.named /\ Borrows(t, i)')
      BY <1>1, <1>12, <1>14, <3>1 DEF Borrows
    <3>6. UseInv(i)' /\ JoinInv(i)'
      BY <1>2, <1>9, <1>11, <1>14, <2>1, <3>1, <3>5, SameData
    <3> QED
      BY <3>4, <3>6
  <2> QED
    BY <1>9, <2>6, <2>7
<1>17. \A j \in BlockIndex : j # i /\ blocks[j].id = t /\ (t = 0 => j = 0) =>
                /\ Left(t)' <=> Left(t)
                /\ Ended(t)' <=> Ended(t)
                /\ r.code = thrds[t].code /\ r.pc # "stop"
  <2>1. n = 1 => \A j \in BlockIndex : blocks[j].id = t /\ (t = 0 => j = 0) => j = i
    BY <1>3, <1>4, ExitOnOwn
  <2> QED
    BY <1>4, <1>14, <2>1
<1>18. /\ thrds[t].block \in {i, NoBlock} /\ thrds[t].pc \notin {"unborn", "entry"}
       /\ r.pc \notin {"unborn", "entry", "id", "start", "fault"}
       /\ r.pc \in {"find", "ref"} \/ r.join.named => thrds[t].pc \in {"find", "ref"} \/ thrds[t].join.named
       /\ r.pc \in {"find", "ref"} \/ r.join.named => r.join.tid = thrds[t].join.tid
       /\ Left(t) => Left(t)'
       /\ r.unrefs # 2
  BY <1>2, <1>3, <1>14
<1>19. kept' \in [BlockIndex -> Nat] /\ kept' = kept
  BY <1>1, <1>2 DEF ThrdTypeOK
<1>20. r.block \in {i, NoBlock} /\ b.id = blocks[i].id /\ handles' = handles
  BY <1>2, <1>9, <1>14
<1> QED
  BY <1>9, <1>11, <1>13, <1>15, <1>16, <1>17, <1>18, <1>19, <1>20, OnBlockSameIds

LEMMA SplitFailsInv ==
    ASSUME ThrdInv, NEW t \in Tid, SplitFails(t)
    PROVE  ThrdInv'
<1>1. /\ ThrdTypeOK /\ LocalInv /\ IdInv /\ BlockInv /\ thrds[t] \in ThrdRecord /\ thrds \in [Tid -> ThrdRecord]
  BY DEF ThrdInv, ThrdTypeOK
<1>2. /\ thrds[t].pc = "split" /\ handles' = handles /\ kept' = kept /\ blocks' = blocks
      /\ thrds[t].block \in BlockIndex /\ thrds[t].unrefs = 0 /\ thrds[t].after = "run"
      /\ ~thrds[t].join.named
  BY <1>1 DEF SplitFails, LocalInv, LocalFits, ThrdRecord
<1>3. PICK i \in BlockIndex : i = thrds[t].block
  BY <1>2
<1> DEFINE r == [thrds[t] EXCEPT !.pc = "clear"]
<1>4. /\ thrds' = [thrds EXCEPT ![t] = r]
      /\ raced' = IF blocks[i].ref > 1 THEN raced \cup {i} ELSE raced
  BY <1>3 DEF SplitFails
<1>5. /\ r \in ThrdRecord /\ r.pc = "clear" /\ r.unrefs = 0 /\ r.block = i /\ r.after = "run"
      /\ r.join = thrds[t].join /\ r.code = thrds[t].code /\ r.child = thrds[t].child
  BY <1>1, <1>2, <1>3, Places DEF ThrdRecord
<1> HIDE DEF r
<1>6. PICK b \in BlockRecord : b = blocks[i] /\ Stores(i, b)
  BY <1>1, <1>2 DEF Stores, ThrdTypeOK
<1>7. Moves(t, r)
  BY <1>1, <1>4, <1>5, IsMove
<1>8. thrds'[t] = r
  BY <1>7 DEF Moves
<1>9. LocalFits(t, r)
  BY <1>1, <1>2, <1>5 DEF LocalInv, LocalFits
<1>10. ~Left(t) /\ ~Left(t)' /\ ~Ended(t) /\ ~Ended(t)'
  BY <1>2, <1>5, <1>8 DEF Left, Ended
<1>11. ASSUME i \notin raced' PROVE CountInv(i)' /\ UseInv(i)' /\ JoinInv(i)'
  <2>1. i \in BlockIndex \ raced /\ ~(blocks[i].ref > 1) /\ CountInv(i) /\ UseInv(i)
    BY <1>1, <1>4, <1>11 DEF BlockInv
  <2>2. \A s \in Tid : s # t => Stands(s, i)
    BY <1>2, <1>7, OthersStand DEF Moves
  <2>3. OwnsNew(t, i) /\ Owns(t, i) /\ ~OwnsById(t, i)
    BY <1>2, <1>3, <2>1 DEF OwnsNew, Owns, UseInv, OneOwner
  <2>4. ~Owns(t, i)'
    BY <1>2, <1>5, <1>8, <1>10, <2>3 DEF Owns, OwnsById
  <2>5. ~Borrows(t, i) /\ ~Borrows(t, i)' /\ t \in Freeing(i)'
    BY <1>2, <1>5, <1>8 DEF Borrows, Freeing
  <2>6. /\ Freeing(i) = {} /\ blocks[i].ref = kept[i] + Cardinality(Owners(i)) + Cardinality(Borrowers(i))
        /\ t \in Owners(i)
    BY <2>1, <2>3, OwnedNotFreed DEF CountInv, Owners
  <2>7. /\ Cardinality(Owners(i)) \in Nat /\ Cardinality(Borrowers(i)) \in Nat
        /\ Cardinality(Owners(i)) # 0 /\ kept[i] \in Nat /\ blocks[i].ref \in Int
    BY <1>1, <2>6, SharesFinite, FS_EmptySet DEF ThrdTypeOK, BlockRecord
  <2>8. kept[i] = 0 /\ Cardinality(Owners(i)) = 1 /\ Cardinality(Borrowers(i)) = 0
    BY <2>1, <2>6, <2>7
  <2>9. Cardinality(Owners(i))' = 0 /\ Cardinality(Borrowers(i))' = 0 /\ Freeing(i)' \ {t} = {}
    BY <2>2, <2>3, <2>4, <2>5, <2>6, <2>8, SharesChange
  <2>10. Owners(i)' = {} /\ Borrowers(i)' = {}
    <3>1. IsFiniteSet(Owners(i))' /\ IsFiniteSet(Borrowers(i))'
      BY SharesFinite, PTL
    <3> QED
      BY <2>9, <3>1, FS_EmptySet
  <2>11. CountInv(i)'
    BY <1>2, <2>5, <2>8, <2>9, <2>10 DEF CountInv
  <2>12. UseInv(i)' /\ JoinInv(i)'
    BY <1>2, <1>5, <1>6, <1>7, <1>10, <2>1, SameData
  <2> QED
    BY <2>11, <2>12
<1>12. kept' \in [BlockIndex -> Nat]
  BY <1>1, <1>2 DEF ThrdTypeOK
<1>13. raced' = raced \/ (raced' = raced \cup {i} /\ thrds[t].pc = "split" /\ thrds[t].block = i)
  BY <1>2, <1>3, <1>4
<1> QED
  BY <1>2, <1>3, <1>5, <1>6, <1>7, <1>9, <1>10, <1>11, <1>12, <1>13, OnBlockSameIds

\* A block nobody owns and nobody has borrowed says nothing to anybody.
LEMMA Deserted ==
    ASSUME ThrdInv, NEW t \in Tid, NEW r \in ThrdRecord, Moves(t, r),
           NEW i \in BlockIndex \ raced, NEW b \in BlockRecord, Stores(i, b), b.id = blocks[i].id,
           \A s \in Tid : ~Owns(s, i) /\ ~Borrows(s, i),
           thrds[t].pc \in {"clear", "zero"}, r.pc \in {"zero", "run", "dead"},
           r.unrefs = 0, handles' = handles, Left(t) => Left(t)'
    PROVE  /\ UseInv(i)' /\ JoinInv(i)'
           /\ \A s \in Tid : ~Owns(s, i)' /\ ~Borrows(s, i)'
<1>1. ThrdTypeOK /\ LocalInv /\ IdInv /\ UseInv(i) /\ JoinInv(i)
  BY DEF ThrdInv, BlockInv
<1>2. /\ thrds' \in [Tid -> ThrdRecord] /\ thrds'[t] = r /\ blocks'[i] = b
      /\ \A s \in Tid : s # t => thrds'[s] = thrds[s]
  BY DEF Moves, Stores
<1>3. ASSUME NEW s \in Tid
      PROVE  ~OwnsNew(s, i)' /\ ~OwnsById(s, i)' /\ ~Borrows(s, i)' /\ (Left(s) => Left(s)')
  <2>1. ~OwnsNew(s, i) /\ ~OwnsById(s, i) /\ ~Borrows(s, i)
    BY OwnersSplit
  <2> QED
    BY <1>2, <2>1 DEF OwnsNew, OwnsById, Borrows, Left
<1>4. /\ \A s \in Tid : thrds[s].pc \in {"id", "start"} => thrds[s].block # i
      /\ \A u \in Tid : <<i, u>> \in handles => Left(u)
      /\ \A s \in Tid : thrds[s].pc \in {"find", "ref"} /\ thrds[s].block = i => Left(thrds[s].join.tid)
  BY <1>1, NobodyThere
<1>5. UseInv(i)'
  <2>1. OneOwner(i)'
    BY <1>3 DEF OneOwner
  <2>2. MakerOk(i)'
    <3>1. ASSUME NEW s \in Tid, thrds'[s].block = i, thrds'[s].pc \in {"split", "id", "start"} PROVE FALSE
      BY <1>2, <1>3, <1>4, <3>1 DEF OwnsNew
    <3> QED
      BY <3>1 DEF MakerOk
  <2>3. EntryOk(i)'
    BY <1>3 DEF EntryOk, OwnsNew
  <2>4. ExitOk(i)'
    BY <1>1, <1>2 DEF UseInv, ExitOk
  <2>5. OwnerOk(i)'
    BY <1>3 DEF OwnerOk
  <2>6. FreeOk(i)'
    BY <1>1, <1>2 DEF UseInv, FreeOk
  <2> QED
    BY <2>1, <2>2, <2>3, <2>4, <2>5, <2>6 DEF UseInv
<1>6. JoinInv(i)'
  <2>1. HandleOk(i)'
    BY <1>3, <1>4 DEF HandleOk
  <2>2. SeekerOk(i)'
    <3>1. ASSUME NEW s \in Tid, thrds'[s].pc \in {"find", "ref"}, thrds'[s].block = i
          PROVE  Left(thrds[s].join.tid)'
      <4>1. thrds'[s] = thrds[s] /\ thrds[s].join.tid \in Tid
        BY <1>1, <1>2, <3>1 DEF ThrdTypeOK, ThrdRecord, JoinRecord
      <4> QED
        BY <1>3, <1>4, <3>1, <4>1
    <3> QED
      BY <3>1 DEF SeekerOk
  <2>3. JoinerOk(i)'
    BY <1>3 DEF JoinerOk
  <2> QED
    BY <2>1, <2>2, <2>3 DEF JoinInv
<1>7. \A s \in Tid : ~Owns(s, i)'
  BY <1>3 DEF Owns, OwnsNew, OwnsById
<1> QED
  BY <1>3, <1>5, <1>6, <1>7

LEMMA ClearRunningInv ==
    ASSUME ThrdInv, NEW t \in Tid, ClearRunning(t)
    PROVE  ThrdInv'
<1>1. /\ ThrdTypeOK /\ LocalInv /\ IdInv /\ BlockInv /\ thrds[t] \in ThrdRecord /\ thrds \in [Tid -> ThrdRecord]
  BY DEF ThrdInv, ThrdTypeOK
<1>2. /\ thrds[t].pc = "clear" /\ handles' = handles /\ kept' = kept /\ raced' = raced
      /\ thrds[t].block \in BlockIndex /\ thrds[t].unrefs # 2
  BY <1>1 DEF ClearRunning, LocalInv, LocalFits
<1>3. PICK i \in BlockIndex : i = thrds[t].block
  BY <1>2
<1> DEFINE r == [thrds[t] EXCEPT !.pc = "zero"]
           b == [blocks[i] EXCEPT !.running = FALSE]
<1>4. thrds' = [thrds EXCEPT ![t] = r] /\ blocks' = [blocks EXCEPT ![i] = b]
  BY <1>3 DEF ClearRunning
<1>5. /\ r \in ThrdRecord /\ r.pc = "zero" /\ r.unrefs = thrds[t].unrefs /\ r.block = i
      /\ r.after = thrds[t].after
      /\ r.join = thrds[t].join /\ r.code = thrds[t].code /\ r.child = thrds[t].child
  BY <1>1, <1>3, Places DEF ThrdRecord
<1>6. b \in BlockRecord /\ b.ref = blocks[i].ref /\ b.id = blocks[i].id
  BY <1>1 DEF ThrdTypeOK, BlockRecord
<1> HIDE DEF r, b
<1>7. Moves(t, r) /\ Stores(i, b)
  BY <1>1, <1>4, <1>5, <1>6, IsMove, IsStore
<1>8. thrds'[t] = r /\ blocks'[i] = b
  BY <1>7 DEF Moves, Stores
<1>9. LocalFits(t, r)
  BY <1>1, <1>2, <1>5 DEF LocalInv, LocalFits
<1>10. (Left(t)' <=> Left(t)) /\ (Ended(t)' <=> Ended(t))
  BY <1>2, <1>5, <1>8 DEF Left, Ended
<1>11. ASSUME i \notin raced' PROVE CountInv(i)' /\ UseInv(i)' /\ JoinInv(i)'
  <2>1. i \in BlockIndex \ raced /\ CountInv(i) /\ UseInv(i)
    BY <1>1, <1>2, <1>11 DEF BlockInv
  <2>2. ASSUME NEW s \in Tid PROVE Stands(s, i)
    <3>1. CASE s # t
      BY <1>6, <1>7, <1>8, <3>1, OthersStand DEF Moves
    <3>2. CASE s = t
      BY <1>2, <1>3, <1>5, <1>6, <1>8, <1>10, <3>2 DEF Stands, OwnsNew, OwnsById, Borrows, Freeing
    <3> QED
      BY <3>1, <3>2
  <2>3. CountInv(i)'
    BY <1>2, <1>6, <1>8, <2>1, <2>2, CountStays
  <2>4. \A s \in Tid : ~Owns(s, i) /\ ~Borrows(s, i)
    <3>1. t \in Freeing(i)
      BY <1>2, <1>3 DEF Freeing
    <3> QED
      BY <2>1, <3>1 DEF CountInv, Owners, Borrowers
  <2>5. r.unrefs = 0
    BY <1>2, <1>3, <1>5, <2>1 DEF UseInv, FreeOk
  <2>6. UseInv(i)' /\ JoinInv(i)'
    BY <1>2, <1>5, <1>6, <1>7, <1>10, <2>1, <2>4, <2>5, Deserted
  <2> QED
    BY <2>3, <2>6
<1>12. kept' \in [BlockIndex -> Nat]
  BY <1>1, <1>2 DEF ThrdTypeOK
<1> QED
  BY <1>2, <1>3, <1>5, <1>6, <1>7, <1>9, <1>10, <1>11, <1>12, OnBlockSameIds

LEMMA ZeroRefInv ==
    ASSUME ThrdInv, NEW t \in Tid, ZeroRef(t)
    PROVE  ThrdInv'
<1>1. /\ ThrdTypeOK /\ LocalInv /\ IdInv /\ BlockInv /\ thrds[t] \in ThrdRecord /\ thrds \in [Tid -> ThrdRecord]
      /\ 0 \in Tid /\ NoBlock \in 0 .. MAX_THRD /\ NoJoin \in JoinRecord /\ ~NoJoin.named
      /\ NoBlock \notin BlockIndex
  BY ThrdBounds DEF ThrdInv, ThrdTypeOK, NoJoin
<1>2. /\ thrds[t].pc = "zero" /\ handles' = handles /\ raced' = raced
      /\ thrds[t].block \in BlockIndex /\ thrds[t].unrefs \in {0, 1}
      /\ thrds[t].after \in {"run", "dead"} /\ (thrds[t].unrefs = 1 => thrds[t].after = "dead")
      /\ (thrds[t].join.named => thrds[t].after = "run")
  BY <1>1 DEF ZeroRef, LocalInv, LocalFits, ThrdRecord
<1>3. PICK i \in BlockIndex : i = thrds[t].block
  BY <1>2
<1> DEFINE b == [blocks[i] EXCEPT !.ref = 0]
           ru == [thrds[t] EXCEPT !.pc = "unref", !.unrefs = thrds[t].unrefs]
           ro == [thrds[t] EXCEPT !.pc = thrds[t].after, !.block = NoBlock, !.child = 0, !.unrefs = 0,
                                  !.after = "run", !.join = NoJoin]
<1>4. /\ blocks' = [blocks EXCEPT ![i] = b] /\ kept' = [kept EXCEPT ![i] = 0]
      /\ thrds' = [thrds EXCEPT ![t] = Onward(t, thrds[t].unrefs)]
  BY <1>3 DEF ZeroRef
<1>5. Onward(t, thrds[t].unrefs) = IF thrds[t].unrefs = 1 THEN ru ELSE ro
  BY <1>2 DEF Onward, Outside
<1>6. /\ ru \in ThrdRecord /\ ru.pc = "unref" /\ ru.unrefs = thrds[t].unrefs /\ ru.block = i
      /\ ru.after = thrds[t].after
      /\ ru.join = thrds[t].join /\ ru.code = thrds[t].code /\ ru.child = thrds[t].child
  BY <1>1, <1>3, Places DEF ThrdRecord
<1>7. /\ ro \in ThrdRecord /\ ro.pc = thrds[t].after /\ ro.unrefs = 0 /\ ro.block = NoBlock /\ ro.after = "run"
      /\ ro.join = NoJoin /\ ro.code = thrds[t].code
  <2>1. thrds[t].after \in ThrdPlace
    BY <1>2, Places
  <2> QED
    BY <1>1, <2>1, Places DEF ThrdRecord
<1>8. b \in BlockRecord /\ b.ref = 0 /\ b.id = blocks[i].id
  BY <1>1 DEF ThrdTypeOK, BlockRecord
<1> HIDE DEF b, ru, ro
<1>9. PICK r \in ThrdRecord :
        /\ thrds' = [thrds EXCEPT ![t] = r]
        /\ (thrds[t].unrefs = 1 /\ r = ru) \/ (thrds[t].unrefs = 0 /\ r = ro)
  BY <1>2, <1>4, <1>5, <1>6, <1>7
<1>10. Moves(t, r) /\ Stores(i, b)
  BY <1>1, <1>4, <1>8, <1>9, IsMove, IsStore
<1>11. thrds'[t] = r /\ blocks'[i] = b
  BY <1>10 DEF Moves, Stores
<1>12. LocalFits(t, r)
  BY <1>1, <1>2, <1>3, <1>6, <1>7, <1>9 DEF LocalInv, LocalFits
<1>13. /\ Left(t) <=> thrds[t].after = "dead"
       /\ Left(t)' <=> thrds[t].after = "dead"
       /\ Ended(t) <=> thrds[t].after = "dead"
       /\ Ended(t)' <=> thrds[t].after = "dead"
       /\ r.code = thrds[t].code /\ r.unrefs # 2 /\ ~r.join.named
       /\ r.block \in {i, NoBlock}
       /\ r.pc \in {"run", "dead", "unref"}
  BY <1>1, <1>2, <1>6, <1>7, <1>9, <1>11 DEF Left, Ended
<1>14. ASSUME i \notin raced' PROVE CountInv(i)' /\ UseInv(i)' /\ JoinInv(i)'
  <2>1. i \in BlockIndex \ raced /\ CountInv(i) /\ UseInv(i) /\ t \in Freeing(i)
    BY <1>1, <1>2, <1>3, <1>14 DEF BlockInv, Freeing
  <2>2. \A s \in Tid : ~Owns(s, i) /\ ~Borrows(s, i)
    BY <2>1 DEF CountInv, Owners, Borrowers
  <2>3. r = ro
    BY <1>2, <1>3, <1>9, <2>1 DEF UseInv, FreeOk
  <2>4. /\ UseInv(i)' /\ JoinInv(i)'
        /\ \A s \in Tid : ~Owns(s, i)' /\ ~Borrows(s, i)'
    BY <1>2, <1>7, <1>8, <1>10, <1>13, <2>1, <2>2, <2>3, Deserted
  <2>5. Freeing(i)' = {}
    <3>1. ASSUME NEW s \in Freeing(i)' PROVE FALSE
      <4>1. s \in Tid /\ s # t
        BY <1>11, <1>13, <3>1 DEF Freeing
      <4>2. s \in Freeing(i)
        BY <1>10, <3>1, <4>1 DEF Freeing, Moves
      <4> QED
        BY <2>1, <4>1, <4>2 DEF CountInv
    <3> QED
      BY <3>1
  <2>6. Owners(i)' = {} /\ Borrowers(i)' = {}
    BY <2>4 DEF Owners, Borrowers
  <2>7. kept'[i] = 0 /\ blocks'[i].ref = 0
    BY <1>1, <1>4, <1>8, <1>11 DEF ThrdTypeOK
  <2>8. CountInv(i)'
    BY <2>5, <2>6, <2>7, FS_EmptySet DEF CountInv
  <2> QED
    BY <2>4, <2>8
<1>15. kept' \in [BlockIndex -> Nat] /\ \A j \in BlockIndex : j # i => kept'[j] = kept[j]
  BY <1>1, <1>4 DEF ThrdTypeOK
<1>16. /\ thrds[t].block \in {i, NoBlock} /\ thrds[t].pc \notin {"unborn", "entry"}
       /\ r.pc \notin {"unborn", "entry", "id", "start", "fault", "find", "ref", "stop"}
       /\ (Left(t)' <=> Left(t)) /\ (Ended(t)' <=> Ended(t))
  BY <1>2, <1>3, <1>13
<1> QED
  BY <1>2, <1>8, <1>10, <1>12, <1>13, <1>14, <1>15, <1>16, OnBlockSameIds

LEMMA ThrdCreateInv ==
    ASSUME ThrdInv, NEW t \in Tid, ThrdCreate(t)
    PROVE  ThrdInv'
<1>1. /\ ThrdTypeOK /\ LocalInv /\ thrds[t] \in ThrdRecord /\ thrds \in [Tid -> ThrdRecord]
      /\ 0 \in 0 .. MAX_THRD
  BY ThrdBounds DEF ThrdInv, ThrdTypeOK
<1>2. /\ thrds[t].pc = "run" /\ UNCHANGED <<blocks, handles, kept, raced>>
      /\ thrds[t].unrefs = 0 /\ thrds[t].after = "run" /\ ~thrds[t].join.named
  BY <1>1 DEF ThrdCreate, LocalInv, LocalFits, ThrdRecord
<1> DEFINE r == [thrds[t] EXCEPT !.pc = "reserve", !.block = 0]
<1>3. thrds' = [thrds EXCEPT ![t] = r]
  BY DEF ThrdCreate
<1>4. /\ r \in ThrdRecord /\ r.pc = "reserve" /\ r.unrefs = 0 /\ r.after = "run" /\ ~r.join.named
  BY <1>1, <1>2, Places DEF ThrdRecord
<1> HIDE DEF r
<1>5. Moves(t, r)
  BY <1>1, <1>3, <1>4, IsMove
<1> QED
  BY <1>2, <1>4, <1>5, QuietMove

\* A free block is nobody's: _ThrdBlockReserve may have it.
LEMMA ReserveTakes ==
    ASSUME ThrdInv, NEW t \in Tid, NEW r \in ThrdRecord, Moves(t, r),
           NEW i \in BlockIndex \ raced, NEW b \in BlockRecord, Stores(i, b), b.id = blocks[i].id,
           thrds[t].pc = "reserve", r.pc = "init", r.block = i, r.unrefs = 0,
           blocks[i].ref = 0, b.ref = 1, Freeing(i) = {}, handles' = handles, kept' = kept,
           Left(t)' <=> Left(t)
    PROVE  CountInv(i)' /\ UseInv(i)' /\ JoinInv(i)'
<1>1. ThrdTypeOK /\ LocalInv /\ IdInv /\ CountInv(i) /\ UseInv(i) /\ JoinInv(i)
  BY DEF ThrdInv, BlockInv
<1>2. /\ thrds' \in [Tid -> ThrdRecord] /\ thrds'[t] = r /\ blocks'[i] = b
      /\ \A s \in Tid : s # t => thrds'[s] = thrds[s]
  BY DEF Moves, Stores
<1>3. kept[i] = 0 /\ Owners(i) = {} /\ Borrowers(i) = {}
  <2>1. /\ 0 = kept[i] + Cardinality(Owners(i)) + Cardinality(Borrowers(i)) /\ kept[i] \in Nat
        /\ Cardinality(Owners(i)) \in Nat /\ Cardinality(Borrowers(i)) \in Nat
    BY <1>1, SharesFinite DEF CountInv, ThrdTypeOK
  <2>2. kept[i] = 0 /\ Cardinality(Owners(i)) = 0 /\ Cardinality(Borrowers(i)) = 0
    BY <2>1
  <2> QED
    BY <2>2, SharesFinite, FS_EmptySet
<1>4. \A s \in Tid : ~Owns(s, i) /\ ~Borrows(s, i)
  BY <1>3 DEF Owners, Borrowers
<1>5. /\ \A s \in Tid : thrds[s].pc \in {"id", "start"} => thrds[s].block # i
      /\ \A u \in Tid : <<i, u>> \in handles => Left(u)
      /\ \A s \in Tid : thrds[s].pc \in {"find", "ref"} /\ thrds[s].block = i => Left(thrds[s].join.tid)
  BY <1>1, <1>4, NobodyThere
<1>6. ASSUME NEW s \in Tid
      PROVE  /\ OwnsNew(s, i)' <=> s = t
             /\ ~OwnsById(s, i)' /\ ~Borrows(s, i)' /\ (Left(s) => Left(s)')
             /\ s \notin Freeing(i)'
  <2>1. ~OwnsNew(s, i) /\ ~OwnsById(s, i) /\ ~Borrows(s, i)
    BY <1>4, OwnersSplit
  <2> QED
    BY <1>2, <2>1 DEF OwnsNew, OwnsById, Borrows, Left, Freeing
<1>7. CountInv(i)'
  <2>1. \A s \in Tid : Owns(s, i)' <=> s = t
    BY <1>6 DEF Owns, OwnsNew, OwnsById
  <2>2. Owners(i)' = {t} /\ Borrowers(i)' = {}
    BY <1>6, <2>1 DEF Owners, Borrowers
  <2>3. Freeing(i)' = {}
    BY <1>6 DEF Freeing
  <2>4. Cardinality(Owners(i)') = 1 /\ Cardinality(Borrowers(i)') = 0
    BY <2>2, FS_EmptySet, FS_Singleton
  <2>5. kept'[i] = 0 /\ blocks'[i].ref = 1
    BY <1>2, <1>3
  <2> QED
    BY <2>3, <2>4, <2>5 DEF CountInv
<1>8. UseInv(i)'
  <2>1. OneOwner(i)'
    BY <1>6 DEF OneOwner
  <2>2. MakerOk(i)'
    <3>1. ASSUME NEW s \in Tid, thrds'[s].block = i, thrds'[s].pc \in {"split", "id", "start"} PROVE FALSE
      BY <1>2, <1>5, <1>6, <3>1 DEF OwnsNew
    <3> QED
      BY <3>1 DEF MakerOk
  <2>3. EntryOk(i)'
    BY <1>2, <1>6 DEF EntryOk, OwnsNew
  <2>4. ExitOk(i)'
    BY <1>1, <1>2 DEF UseInv, ExitOk
  <2>5. OwnerOk(i)'
    BY <1>6 DEF OwnerOk
  <2>6. FreeOk(i)'
    BY <1>1, <1>2 DEF UseInv, FreeOk
  <2> QED
    BY <2>1, <2>2, <2>3, <2>4, <2>5, <2>6 DEF UseInv
<1>9. JoinInv(i)'
  <2>1. HandleOk(i)'
    BY <1>5, <1>6 DEF HandleOk
  <2>2. SeekerOk(i)'
    <3>1. ASSUME NEW s \in Tid, thrds'[s].pc \in {"find", "ref"}, thrds'[s].block = i
          PROVE  Left(thrds[s].join.tid)'
      <4>1. thrds'[s] = thrds[s] /\ thrds[s].join.tid \in Tid
        BY <1>1, <1>2, <3>1 DEF ThrdTypeOK, ThrdRecord, JoinRecord
      <4> QED
        BY <1>5, <1>6, <3>1, <4>1
    <3> QED
      BY <3>1 DEF SeekerOk
  <2>3. JoinerOk(i)'
    BY <1>6 DEF JoinerOk
  <2> QED
    BY <2>1, <2>2, <2>3 DEF JoinInv
<1> QED
  BY <1>7, <1>8, <1>9

LEMMA ReserveInv ==
    ASSUME ThrdInv, NEW t \in Tid, Reserve(t)
    PROVE  ThrdInv'
<1>1. /\ ThrdTypeOK /\ LocalInv /\ thrds[t] \in ThrdRecord /\ thrds \in [Tid -> ThrdRecord]
      /\ 0 \in Tid /\ NoBlock \in 0 .. MAX_THRD /\ NoJoin \in JoinRecord /\ ~NoJoin.named
  BY ThrdBounds DEF ThrdInv, ThrdTypeOK, NoJoin
<1>2. /\ thrds[t].pc = "reserve" /\ handles' = handles /\ kept' = kept
      /\ thrds[t].unrefs = 0 /\ thrds[t].after = "run" /\ ~thrds[t].join.named
      /\ thrds[t].block \in 0 .. MAX_THRD
  BY <1>1 DEF Reserve, LocalInv, LocalFits, ThrdRecord
<1>3. CASE thrds[t].block = NoBlock
  <2> DEFINE r == [thrds[t] EXCEPT !.pc = "run", !.block = NoBlock, !.child = 0, !.unrefs = 0,
                                   !.after = "run", !.join = NoJoin]
  <2>1. thrds' = [thrds EXCEPT ![t] = r] /\ UNCHANGED <<blocks, kept, raced>>
    BY <1>3 DEF Reserve, Outside
  <2>2. /\ r \in ThrdRecord /\ r.pc = "run" /\ r.unrefs = 0 /\ r.after = "run" /\ r.join = NoJoin
        /\ r.block = NoBlock
    BY <1>1, <1>2, Places DEF ThrdRecord
  <2> HIDE DEF r
  <2>3. Moves(t, r) /\ ~r.join.named
    BY <1>1, <2>1, <2>2, IsMove
  <2> QED
    BY <1>2, <2>1, <2>2, <2>3, QuietMove
<1>4. CASE thrds[t].block # NoBlock /\ blocks[thrds[t].block].ref # 0
  <2> DEFINE r == [thrds[t] EXCEPT !.block = thrds[t].block + 1]
  <2>1. thrds' = [thrds EXCEPT ![t] = r] /\ UNCHANGED <<blocks, kept, raced>>
    BY <1>4 DEF Reserve
  <2>2. thrds[t].block + 1 \in 0 .. MAX_THRD
    BY <1>2, <1>4, ThrdBounds
  <2>3. /\ r \in ThrdRecord /\ r.pc = "reserve" /\ r.unrefs = 0 /\ r.after = "run" /\ ~r.join.named
    BY <1>1, <1>2, <2>2 DEF ThrdRecord
  <2> HIDE DEF r
  <2>4. Moves(t, r)
    BY <1>1, <2>1, <2>3, IsMove
  <2> QED
    BY <1>2, <2>1, <2>3, <2>4, QuietMove
<1>5. CASE thrds[t].block # NoBlock /\ blocks[thrds[t].block].ref = 0
  <2>1. PICK i \in BlockIndex : i = thrds[t].block
    BY <1>2, <1>5, ThrdBounds
  <2> DEFINE r == [thrds[t] EXCEPT !.pc = "init"]
             b == [blocks[i] EXCEPT !.ref = 1]
  <2>2. /\ thrds' = [thrds EXCEPT ![t] = r] /\ blocks' = [blocks EXCEPT ![i] = b]
        /\ raced' = IF Freeing(i) # {} THEN raced \cup {i} ELSE raced
    BY <1>5, <2>1 DEF Reserve, Touch
  <2>3. /\ r \in ThrdRecord /\ r.pc = "init" /\ r.unrefs = 0 /\ r.block = i /\ r.after = "run"
        /\ r.join = thrds[t].join /\ r.code = thrds[t].code /\ r.child = thrds[t].child
    BY <1>1, <1>2, <2>1, Places DEF ThrdRecord
  <2>4. b \in BlockRecord /\ b.ref = 1 /\ b.id = blocks[i].id
    BY <1>1 DEF ThrdTypeOK, BlockRecord
  <2> HIDE DEF r, b
  <2>5. Moves(t, r) /\ Stores(i, b)
    BY <1>1, <2>2, <2>3, <2>4, IsMove, IsStore
  <2>6. thrds'[t] = r
    BY <2>5 DEF Moves
  <2>7. LocalFits(t, r)
    BY <1>1, <1>2, <2>3 DEF LocalInv, LocalFits
  <2>8. ~Left(t) /\ ~Left(t)' /\ ~Ended(t) /\ ~Ended(t)'
    BY <1>2, <2>3, <2>6 DEF Left, Ended
  <2>9. ASSUME i \notin raced' PROVE CountInv(i)' /\ UseInv(i)' /\ JoinInv(i)'
    <3>1. i \in BlockIndex \ raced /\ Freeing(i) = {} /\ blocks[i].ref = 0
      BY <1>5, <2>1, <2>2, <2>9
    <3> QED
      BY <1>2, <2>3, <2>4, <2>5, <2>8, <3>1, ReserveTakes
  <2>10. kept' \in [BlockIndex -> Nat]
    BY <1>1, <1>2 DEF ThrdTypeOK
  <2>11. raced' = raced \/ (raced' = raced \cup {i} /\ Freeing(i) # {})
    BY <2>2
  <2> QED
    BY <1>2, <2>1, <2>3, <2>4, <2>5, <2>7, <2>8, <2>9, <2>10, <2>11, OnBlockSameIds
<1> QED
  BY <1>3, <1>4, <1>5

\* Whoever reserves a block has it alone, until the thread made on it is let go.
LEMMA AloneOnIt ==
    ASSUME ThrdInv, NEW i \in BlockIndex \ raced, NEW t \in Tid, OwnsNew(t, i)
    PROVE  /\ \A s \in Tid : ~OwnsById(s, i) /\ (OwnsNew(s, i) <=> s = t)
           /\ \A s \in Tid : thrds[s].unrefs = 2 => thrds[s].block # i
           /\ \A s \in Tid : thrds[s].pc \in {"id", "start"} /\ thrds[s].block = i => thrds[s].child = t
           /\ \A u \in Tid : Home(u, i) /\ ~Left(u) => u = t /\ thrds[t].pc = "entry"
           /\ \A s \in Tid : thrds[s].join.named /\ Borrows(s, i) => thrds[t].pc = "entry" /\ thrds[s].join.tid = t
<1>1. /\ ThrdTypeOK /\ LocalInv /\ IdInv /\ UseInv(i) /\ JoinInv(i) /\ 0 \in Tid
      /\ thrds \in [Tid -> ThrdRecord]
  BY ThrdBounds DEF ThrdInv, BlockInv, ThrdTypeOK
<1>2. \A s \in Tid : ~OwnsById(s, i) /\ (OwnsNew(s, i) <=> s = t)
  BY <1>1 DEF UseInv, OneOwner
<1>3. ASSUME NEW s \in Tid, thrds[s].unrefs = 2, thrds[s].block = i PROVE FALSE
  <2>1. blocks[i].id = s /\ thrds[s].pc \in {"result", "stop", "unref"}
    BY <1>1, <1>3 DEF UseInv, ExitOk, LocalInv, LocalFits
  <2>2. ~Left(s)
    BY <1>3, <2>1 DEF Left
  <2>3. s = 0 => i = 0
    BY <1>1, <1>3, <2>2 DEF IdInv, FirstBlock
  <2>4. OwnsById(s, i)
    BY <2>1, <2>2, <2>3 DEF OwnsById
  <2> QED
    BY <1>2, <2>4
<1>4. ASSUME NEW s \in Tid, thrds[s].pc \in {"id", "start"}, thrds[s].block = i PROVE thrds[s].child = t
  <2>1. thrds[s].child \in Tid /\ OwnsNew(thrds[s].child, i)
    BY <1>1, <1>4 DEF UseInv, MakerOk, OwnsNew, ThrdRecord
  <2> QED
    BY <1>2, <2>1
<1>5. ASSUME NEW u \in Tid, Home(u, i), ~Left(u) PROVE u = t /\ thrds[t].pc = "entry"
  BY <1>1, <1>2, <1>5, HomeOwned
<1>6. ASSUME NEW s \in Tid, thrds[s].join.named, Borrows(s, i)
      PROVE  thrds[t].pc = "entry" /\ thrds[s].join.tid = t
  <2>1. PICK u \in Tid : u = thrds[s].join.tid
    BY <1>1 DEF ThrdRecord, JoinRecord
  <2>2. Awaits(s, u, i) /\ OneOwner(i)
    BY <1>1, <1>6, <2>1 DEF JoinInv, JoinerOk, UseInv
  <2>3. ~Left(t)
    <3>1. thrds[t].pc \in {"init", "split", "entry"}
      BY DEF OwnsNew
    <3> QED
      BY <1>1, <3>1 DEF Left, LocalInv, LocalFits
  <2> QED
    BY <2>1, <2>2, <2>3, AwaitedOwner
<1> QED
  BY <1>2, <1>3, <1>4, <1>5, <1>6

LEMMA InitBlockInv ==
    ASSUME ThrdInv, NEW t \in Tid, InitBlock(t)
    PROVE  ThrdInv'
<1>1. /\ ThrdTypeOK /\ LocalInv /\ IdInv /\ BlockInv /\ FindInv /\ thrds[t] \in ThrdRecord
      /\ thrds \in [Tid -> ThrdRecord] /\ 0 \in Tid /\ 0 \in BlockIndex /\ 0 \in 0 .. ResultSize - 1
  BY ThrdBounds DEF ThrdInv, ThrdTypeOK
<1>2. /\ thrds[t].pc = "init" /\ handles' = handles /\ kept' = kept /\ raced' = raced
      /\ thrds[t].block \in BlockIndex /\ thrds[t].unrefs = 0 /\ thrds[t].after = "run"
      /\ ~thrds[t].join.named
  BY <1>1 DEF InitBlock, LocalInv, LocalFits, ThrdRecord
<1>3. PICK i \in BlockIndex : i = thrds[t].block
  BY <1>2
<1> DEFINE r == [thrds[t] EXCEPT !.pc = "split"]
           b == [blocks[i] EXCEPT !.running = FALSE, !.id = 0, !.result = 0]
<1>4. thrds' = [thrds EXCEPT ![t] = r] /\ blocks' = [blocks EXCEPT ![i] = b]
  BY <1>3 DEF InitBlock
<1>5. /\ r \in ThrdRecord /\ r.pc = "split" /\ r.unrefs = 0 /\ r.block = i /\ r.after = "run"
      /\ r.join = thrds[t].join /\ r.code = thrds[t].code /\ r.child = thrds[t].child
  BY <1>1, <1>2, <1>3, Places DEF ThrdRecord
<1>6. b \in BlockRecord /\ b.ref = blocks[i].ref /\ b.id = 0 /\ ~b.running
  BY <1>1 DEF ThrdTypeOK, BlockRecord
<1> HIDE DEF r, b
<1>7. Moves(t, r) /\ Stores(i, b)
  BY <1>1, <1>4, <1>5, <1>6, IsMove, IsStore
<1>8. /\ thrds'[t] = r /\ blocks'[i] = b
      /\ \A s \in Tid : s # t => thrds'[s] = thrds[s]
      /\ \A j \in BlockIndex : j # i => blocks'[j] = blocks[j]
  BY <1>7 DEF Moves, Stores
<1>9. LocalFits(t, r)
  BY <1>1, <1>2, <1>5 DEF LocalInv, LocalFits
<1>10. ~Left(t) /\ ~Left(t)' /\ ~Ended(t) /\ ~Ended(t)' /\ OwnsNew(t, i)
  BY <1>2, <1>3, <1>5, <1>8 DEF Left, Ended, OwnsNew
<1>11. \A s \in Tid : Left(s)' <=> Left(s)
  BY <1>8, <1>10 DEF Left
<1>12. i \notin raced => \A s \in Tid : ~OwnsById(s, i) /\ (OwnsNew(s, i) <=> s = t)
  BY <1>10, AloneOnIt
<1>13. IdInv'
  <2>1. FirstBlock'
    <3>1. thrds'[0].unrefs = 2 => thrds'[0] = thrds[0]
      BY <1>1, <1>5, <1>8
    <3>2. blocks[0].id = 0 => blocks'[0].id = 0
      BY <1>1, <1>6, <1>8
    <3> QED
      BY <1>1, <1>2, <1>11, <3>1, <3>2 DEF IdInv, FirstBlock
  <2>2. ASSUME NEW u \in Tid \ {0} PROVE IdOnce(u)'
    <3>1. IdOnce(u)
      BY <1>1 DEF IdInv
    <3>2. \A s \in Tid : Makes(s, u)' => Makes(s, u) /\ thrds'[s] = thrds[s]
      BY <1>5, <1>8 DEF Makes
    <3>3. \A j \in BlockIndex : blocks'[j].id = u => blocks[j].id = u
      BY <1>6, <1>8
    <3>4. thrds'[u].pc \in {"unborn", "entry"} \/ thrds'[u].unrefs = 2 => thrds'[u] = thrds[u]
      BY <1>5, <1>8
    <3>5. \A s \in Tid : /\ thrds'[s].join = thrds[s].join
                         /\ thrds'[s].pc \in {"find", "ref"} => thrds[s].pc \in {"find", "ref"}
      BY <1>5, <1>8
    <3> QED
      BY <1>2, <3>1, <3>2, <3>3, <3>4, <3>5 DEF IdOnce
  <2> QED
    BY <2>1, <2>2 DEF IdInv
<1>14. ASSUME i \notin raced' PROVE CountInv(i)' /\ UseInv(i)' /\ JoinInv(i)'
  <2>1. i \in BlockIndex \ raced /\ CountInv(i) /\ UseInv(i) /\ JoinInv(i)
    BY <1>1, <1>2, <1>14 DEF BlockInv
  <2>2. /\ \A s \in Tid : ~OwnsById(s, i) /\ (OwnsNew(s, i) <=> s = t)
        /\ \A s \in Tid : thrds[s].unrefs = 2 => thrds[s].block # i
        /\ \A s \in Tid : thrds[s].pc \in {"id", "start"} /\ thrds[s].block = i => thrds[s].child = t
        /\ \A u \in Tid : Home(u, i) /\ ~Left(u) => u = t /\ thrds[t].pc = "entry"
        /\ \A s \in Tid : thrds[s].join.named /\ Borrows(s, i) => thrds[t].pc = "entry" /\ thrds[s].join.tid = t
    BY <1>10, <2>1, AloneOnIt
  <2>3. ASSUME NEW s \in Tid PROVE ~OwnsById(s, i)'
    <3>1. CASE s # 0
      BY <1>6, <1>8, <3>1 DEF OwnsById
    <3>2. CASE s = 0
      <4>1. OwnsById(0, i)' => ~Left(0) /\ i = 0 /\ thrds[0].pc # "entry"
        BY <1>1, <1>11 DEF OwnsById, LocalInv, LocalFits
      <4>2. ~Left(0) => blocks[0].id = 0
        BY <1>1 DEF IdInv, FirstBlock
      <4> QED
        BY <1>1, <2>2, <3>2, <4>1, <4>2 DEF OwnsById
    <3> QED
      BY <3>1, <3>2
  <2>4. ASSUME NEW s \in Tid PROVE Stands(s, i)
    BY <1>2, <1>3, <1>5, <1>8, <2>2, <2>3 DEF Stands, OwnsNew, Borrows, Freeing
  <2>5. CountInv(i)'
    BY <1>2, <1>6, <1>8, <2>1, <2>4, CountStays
  <2>6. UseInv(i)'
    <3>1. OneOwner(i)'
      BY <2>1, <2>4 DEF UseInv, OneOwner, Stands
    <3>2. MakerOk(i)'
      <4>1. ASSUME NEW s \in Tid, thrds'[s].pc \in {"id", "start"}, thrds'[s].block = i PROVE FALSE
        <5>1. s # t /\ thrds'[s] = thrds[s]
          BY <1>5, <1>8, <4>1
        <5>2. thrds[s].child = t /\ thrds[t].pc = "entry"
          BY <2>1, <2>2, <4>1, <5>1 DEF UseInv, MakerOk
        <5> QED
          BY <1>2, <5>2
      <4> QED
        BY <1>6, <1>8, <4>1 DEF MakerOk
    <3>3. EntryOk(i)'
      BY <1>6, <1>8 DEF EntryOk
    <3>4. ExitOk(i)'
      BY <1>5, <1>8, <2>2 DEF ExitOk
    <3>5. OwnerOk(i)'
      BY <2>3 DEF OwnerOk
    <3>6. FreeOk(i)'
      BY <1>5, <1>8, <2>1 DEF UseInv, FreeOk
    <3> QED
      BY <3>1, <3>2, <3>3, <3>4, <3>5, <3>6 DEF UseInv
  <2>7. JoinInv(i)'
    <3>1. HandleOk(i)'
      BY <1>2, <1>11, <2>1, <2>2 DEF JoinInv, HandleOk
    <3>2. SeekerOk(i)'
      <4>1. ASSUME NEW s \in Tid, thrds'[s].pc \in {"find", "ref"}, thrds'[s].block = i
            PROVE  Left(thrds[s].join.tid)'
        <5>1. thrds'[s] = thrds[s] /\ thrds[s].join.tid \in Tid
          BY <1>1, <1>5, <1>8, <4>1 DEF ThrdTypeOK, ThrdRecord, JoinRecord
        <5>2. Left(thrds[s].join.tid)
          BY <1>2, <2>1, <2>2, <4>1, <5>1 DEF JoinInv, SeekerOk
        <5> QED
          BY <1>11, <5>1, <5>2
      <4> QED
        BY <4>1 DEF SeekerOk
    <3>3. JoinerOk(i)'
      BY <1>2, <1>5, <1>8, <2>2, <2>4 DEF JoinerOk, Stands
    <3> QED
      BY <3>1, <3>2, <3>3 DEF JoinInv
  <2> QED
    BY <2>5, <2>6, <2>7
<1>15. ASSUME raced' = {} PROVE \E j \in BlockIndex : OwnsById(t, j)'
  <2>1. PICK j \in BlockIndex : OwnsById(t, j)
    BY <1>1, <1>2, <1>10, <1>15 DEF FindInv
  <2>2. j # i
    BY <1>2, <1>12, <1>15, <2>1
  <2> QED
    BY <1>2, <1>5, <1>8, <1>10, <2>1, <2>2 DEF OwnsById
<1>16. /\ kept' \in [BlockIndex -> Nat] /\ handles' \subseteq BlockIndex \X Tid
       /\ raced' = {} => \A s \in Tid : s # t /\ OwnsById(s, i) => OwnsById(s, i)'
  BY <1>1, <1>2, <1>12 DEF ThrdTypeOK
<1>17. /\ thrds[t].block \in {i, NoBlock} /\ r.block \in {i, NoBlock}
       /\ thrds[t].pc # "unborn" /\ r.pc \notin {"entry", "fault"}
       /\ \A j \in BlockIndex : j # i => kept'[j] = kept[j]
       /\ \A j \in BlockIndex, u \in Tid : j # i /\ <<j, u>> \in handles' => <<j, u>> \in handles
       /\ raced' = raced \/ raced' = raced \cup {i}
       /\ Left(t) => Left(t)'
  BY <1>2, <1>3, <1>5, <1>10
<1>18. \A j \in BlockIndex : j # i /\ blocks[j].id = t /\ (t = 0 => j = 0) =>
                /\ Left(t)' <=> Left(t)
                /\ Ended(t)' <=> Ended(t)
                /\ thrds[t].pc # "entry" /\ r.code = thrds[t].code /\ r.pc # "stop"
  BY <1>2, <1>5, <1>10
<1> QED
  BY <1>5, <1>6, <1>7, <1>9, <1>13, <1>14, <1>15, <1>16, <1>17, <1>18, OnBlock

\* What the block of a thread still being made is to everybody.
LEMMA MadeOnIt ==
    ASSUME ThrdInv, NEW i \in BlockIndex \ raced, NEW t \in Tid, NEW u \in Tid, Makes(t, u), thrds[t].block = i
    PROVE  /\ thrds[u].pc = "entry" /\ thrds[u].block = i /\ OwnsNew(u, i)
           /\ \A s \in Tid : ~OwnsById(s, i) /\ (OwnsNew(s, i) <=> s = u)
           /\ \A s \in Tid : thrds[s].unrefs = 2 => thrds[s].block # i
           /\ \A s \in Tid : thrds[s].pc \in {"id", "start"} /\ thrds[s].block = i => s = t
           /\ ~blocks[i].running
           /\ \A v \in Tid : ~Home(v, i)
           /\ \A s \in Tid : thrds[s].join.named => ~Borrows(s, i)
<1>1. /\ ThrdTypeOK /\ LocalInv /\ IdInv /\ UseInv(i) /\ JoinInv(i)
      /\ thrds[t].pc \in {"id", "start"} /\ thrds[t].child = u
  BY DEF ThrdInv, BlockInv, Makes
<1>2. thrds[u].pc = "entry" /\ thrds[u].block = i /\ OwnsNew(u, i) /\ ~blocks[i].running /\ u # 0
  BY <1>1 DEF UseInv, MakerOk, OwnsNew, LocalInv, LocalFits
<1>3. /\ \A s \in Tid : ~OwnsById(s, i) /\ (OwnsNew(s, i) <=> s = u)
      /\ \A s \in Tid : thrds[s].unrefs = 2 => thrds[s].block # i
      /\ \A s \in Tid : thrds[s].pc \in {"id", "start"} /\ thrds[s].block = i => thrds[s].child = u
  BY <1>2, AloneOnIt
<1>4. ASSUME NEW s \in Tid, thrds[s].pc \in {"id", "start"}, thrds[s].block = i PROVE s = t
  <2>1. Makes(s, u) /\ IdOnce(u)
    BY <1>1, <1>2, <1>3, <1>4 DEF Makes, IdInv
  <2> QED
    BY <2>1 DEF IdOnce
<1>5. \A v \in Tid : ~Home(v, i)
  BY <1>1 DEF Home
<1>6. ASSUME NEW s \in Tid, thrds[s].join.named, Borrows(s, i) PROVE FALSE
  <2>1. thrds[s].join.tid \in Tid /\ Home(thrds[s].join.tid, i)
    BY <1>1, <1>6 DEF JoinInv, JoinerOk, Awaits, ThrdTypeOK, ThrdRecord, JoinRecord
  <2> QED
    BY <1>5, <2>1
<1> QED
  BY <1>2, <1>3, <1>4, <1>5, <1>6

LEMMA StoreIdInv ==
    ASSUME ThrdInv, NEW t \in Tid, StoreId(t)
    PROVE  ThrdInv'
<1>1. /\ ThrdTypeOK /\ LocalInv /\ IdInv /\ BlockInv /\ FindInv /\ thrds[t] \in ThrdRecord
      /\ thrds \in [Tid -> ThrdRecord] /\ 0 \in Tid /\ 0 \in BlockIndex
  BY ThrdBounds DEF ThrdInv, ThrdTypeOK
<1>2. /\ thrds[t].pc = "id" /\ handles' = handles /\ kept' = kept /\ raced' = raced
      /\ thrds[t].block \in BlockIndex /\ thrds[t].unrefs = 0 /\ thrds[t].after = "run"
      /\ ~thrds[t].join.named /\ thrds[t].child # 0 /\ thrds[t].child \in Tid
  BY <1>1 DEF StoreId, LocalInv, LocalFits, ThrdRecord
<1>3. PICK i \in BlockIndex : i = thrds[t].block
  BY <1>2
<1>4. PICK u \in Tid \ {0} : u = thrds[t].child
  BY <1>2
<1> DEFINE r == [thrds[t] EXCEPT !.pc = "start"]
           b == [blocks[i] EXCEPT !.id = u]
<1>5. thrds' = [thrds EXCEPT ![t] = r] /\ blocks' = [blocks EXCEPT ![i] = b]
  BY <1>3, <1>4 DEF StoreId
<1>6. /\ r \in ThrdRecord /\ r.pc = "start" /\ r.unrefs = 0 /\ r.block = i /\ r.after = "run"
      /\ r.join = thrds[t].join /\ r.code = thrds[t].code /\ r.child = u
  BY <1>1, <1>2, <1>3, <1>4, Places DEF ThrdRecord
<1>7. b \in BlockRecord /\ b.ref = blocks[i].ref /\ b.id = u /\ b.running = blocks[i].running
  BY <1>1 DEF ThrdTypeOK, BlockRecord
<1> HIDE DEF r, b
<1>8. Moves(t, r) /\ Stores(i, b)
  BY <1>1, <1>5, <1>6, <1>7, IsMove, IsStore
<1>9. /\ thrds'[t] = r /\ blocks'[i] = b
      /\ \A s \in Tid : s # t => thrds'[s] = thrds[s]
      /\ \A j \in BlockIndex : j # i => blocks'[j] = blocks[j]
  BY <1>8 DEF Moves, Stores
<1>10. LocalFits(t, r)
  BY <1>1, <1>2, <1>4, <1>6 DEF LocalInv, LocalFits
<1>11. ~Left(t) /\ ~Left(t)' /\ ~Ended(t) /\ ~Ended(t)' /\ Makes(t, u)
  BY <1>2, <1>4, <1>6, <1>9 DEF Left, Ended, Makes
<1>12. \A s \in Tid : Left(s)' <=> Left(s)
  BY <1>9, <1>11 DEF Left
<1>13. i \notin raced =>
           /\ thrds[u].pc = "entry" /\ thrds[u].block = i /\ OwnsNew(u, i)
           /\ \A s \in Tid : ~OwnsById(s, i) /\ (OwnsNew(s, i) <=> s = u)
           /\ \A s \in Tid : thrds[s].unrefs = 2 => thrds[s].block # i
           /\ \A s \in Tid : thrds[s].pc \in {"id", "start"} /\ thrds[s].block = i => s = t
           /\ ~blocks[i].running
           /\ \A v \in Tid : ~Home(v, i)
           /\ \A s \in Tid : thrds[s].join.named => ~Borrows(s, i)
  BY <1>3, <1>11, MadeOnIt
<1>14. IdInv'
  <2>1. FirstBlock'
    <3>1. thrds'[0].unrefs = 2 => thrds'[0] = thrds[0]
      BY <1>1, <1>6, <1>9
    <3>2. ASSUME ~Left(0) PROVE i # 0
      <4>1. 0 \notin raced /\ blocks[0].id = 0 /\ thrds[0].pc # "entry"
        BY <1>1, <3>2 DEF IdInv, FirstBlock, LocalInv, LocalFits
      <4>2. OwnsById(0, 0)
        BY <3>2, <4>1 DEF OwnsById
      <4> QED
        BY <1>1, <1>13, <4>1, <4>2
    <3> QED
      BY <1>1, <1>2, <1>9, <1>12, <3>1, <3>2 DEF IdInv, FirstBlock
  <2>2. ASSUME NEW v \in Tid \ {0} PROVE IdOnce(v)'
    <3>1. IdOnce(v) /\ IdOnce(u)
      BY <1>1 DEF IdInv
    <3>2. \A s \in Tid : /\ Makes(s, v)' <=> Makes(s, v)
                         /\ thrds'[s].block = thrds[s].block
                         /\ thrds'[s].pc = "id" => s # t /\ thrds[s].pc = "id"
      BY <1>2, <1>3, <1>4, <1>6, <1>9 DEF Makes
    <3>3. \A j \in BlockIndex : blocks'[j].id = v => blocks[j].id = v \/ (v = u /\ j = i)
      BY <1>7, <1>9
    <3>4. thrds'[v].pc \in {"unborn", "entry"} \/ thrds'[v].unrefs = 2 => thrds'[v] = thrds[v]
      BY <1>6, <1>9
    <3>5. \A s \in Tid : /\ thrds'[s].join = thrds[s].join
                         /\ thrds'[s].pc \in {"find", "ref"} => thrds[s].pc \in {"find", "ref"}
      BY <1>6, <1>9
    <3>6. \A j \in BlockIndex : blocks[j].id # u
      BY <1>2, <1>11, <3>1 DEF IdOnce
    <3>7. thrds[u].pc # "unborn" /\ thrds[u].unrefs # 2 /\ (thrds[u].pc = "entry" => thrds[u].block = i)
      BY <1>2, <1>3, <1>11, <3>1 DEF IdOnce
    <3>8. CASE v = u
      <4>1. \A s \in Tid : Makes(s, u) => s = t
        BY <1>11, <3>1 DEF IdOnce
      <4> QED
        BY <1>3, <3>2, <3>3, <3>4, <3>6, <3>7, <3>8, <4>1 DEF IdOnce
    <3>9. CASE v # u
      BY <1>2, <3>1, <3>2, <3>3, <3>4, <3>5, <3>9 DEF IdOnce
    <3> QED
      BY <3>8, <3>9
  <2> QED
    BY <2>1, <2>2 DEF IdInv
<1>15. ASSUME i \notin raced' PROVE CountInv(i)' /\ UseInv(i)' /\ JoinInv(i)'
  <2>1. i \in BlockIndex \ raced /\ CountInv(i) /\ UseInv(i) /\ JoinInv(i)
    BY <1>1, <1>2, <1>15 DEF BlockInv
  <2>2. /\ thrds[u].pc = "entry" /\ thrds[u].block = i /\ u # t /\ thrds'[u] = thrds[u]
        /\ \A s \in Tid : ~OwnsById(s, i)
        /\ \A s \in Tid : thrds[s].unrefs = 2 => thrds[s].block # i
        /\ \A s \in Tid : thrds[s].pc \in {"id", "start"} /\ thrds[s].block = i => s = t
        /\ ~blocks[i].running
    BY <1>2, <1>9, <1>13, <2>1
  <2>3. /\ \A v \in Tid : ~Home(v, i)
        /\ \A s \in Tid : thrds[s].join.named => ~Borrows(s, i)
    BY <1>13, <2>1
  <2>4. ASSUME NEW s \in Tid PROVE ~OwnsById(s, i)'
    BY <1>7, <1>9, <2>2 DEF OwnsById
  <2>5. ASSUME NEW s \in Tid PROVE Stands(s, i)
    BY <1>2, <1>3, <1>6, <1>9, <2>2, <2>4 DEF Stands, OwnsNew, Borrows, Freeing
  <2>6. CountInv(i)'
    BY <1>2, <1>7, <1>9, <2>1, <2>5, CountStays
  <2>7. UseInv(i)'
    <3>1. OneOwner(i)'
      BY <2>1, <2>5 DEF UseInv, OneOwner, Stands
    <3>2. MakerOk(i)'
      <4>1. ASSUME NEW s \in Tid, thrds'[s].block = i, thrds'[s].pc \in {"id", "start"} PROVE s = t
        BY <1>9, <2>2, <4>1
      <4> QED
        BY <1>6, <1>7, <1>9, <2>2, <4>1 DEF MakerOk
    <3>3. EntryOk(i)'
      BY <1>7, <1>9, <2>2 DEF EntryOk
    <3>4. ExitOk(i)'
      BY <1>6, <1>9, <2>2 DEF ExitOk
    <3>5. OwnerOk(i)'
      BY <2>4 DEF OwnerOk
    <3>6. FreeOk(i)'
      BY <1>6, <1>9, <2>1 DEF UseInv, FreeOk
    <3> QED
      BY <3>1, <3>2, <3>3, <3>4, <3>5, <3>6 DEF UseInv
  <2>8. JoinInv(i)'
    <3>1. HandleOk(i)'
      BY <1>2, <1>12, <2>1, <2>3 DEF JoinInv, HandleOk
    <3>2. SeekerOk(i)'
      <4>1. ASSUME NEW s \in Tid, thrds'[s].pc \in {"find", "ref"}, thrds'[s].block = i
            PROVE  Left(thrds[s].join.tid)'
        <5>1. thrds'[s] = thrds[s] /\ thrds[s].join.tid \in Tid
          BY <1>1, <1>6, <1>9, <4>1 DEF ThrdTypeOK, ThrdRecord, JoinRecord
        <5>2. Left(thrds[s].join.tid)
          BY <2>1, <2>3, <4>1, <5>1 DEF JoinInv, SeekerOk
        <5> QED
          BY <1>12, <5>1, <5>2
      <4> QED
        BY <4>1 DEF SeekerOk
    <3>3. JoinerOk(i)'
      BY <1>6, <1>9, <2>3, <2>5 DEF JoinerOk, Stands
    <3> QED
      BY <3>1, <3>2, <3>3 DEF JoinInv
  <2> QED
    BY <2>6, <2>7, <2>8
<1>16. ASSUME raced' = {} PROVE \E j \in BlockIndex : OwnsById(t, j)'
  <2>1. PICK j \in BlockIndex : OwnsById(t, j)
    BY <1>1, <1>2, <1>11, <1>16 DEF FindInv
  <2>2. j # i
    BY <1>2, <1>13, <1>16, <2>1
  <2> QED
    BY <1>2, <1>6, <1>9, <1>11, <2>1, <2>2 DEF OwnsById
<1>17. /\ kept' \in [BlockIndex -> Nat] /\ handles' \subseteq BlockIndex \X Tid
       /\ raced' = {} => \A s \in Tid : s # t /\ OwnsById(s, i) => OwnsById(s, i)'
  BY <1>1, <1>2, <1>13 DEF ThrdTypeOK
<1>18. /\ thrds[t].block \in {i, NoBlock} /\ r.block \in {i, NoBlock}
       /\ thrds[t].pc # "unborn" /\ r.pc \notin {"entry", "fault"}
       /\ \A j \in BlockIndex : j # i => kept'[j] = kept[j]
       /\ \A j \in BlockIndex, v \in Tid : j # i /\ <<j, v>> \in handles' => <<j, v>> \in handles
       /\ raced' = raced \/ raced' = raced \cup {i}
       /\ Left(t) => Left(t)'
  BY <1>2, <1>3, <1>6, <1>11
<1>19. \A j \in BlockIndex : j # i /\ blocks[j].id = t /\ (t = 0 => j = 0) =>
                /\ Left(t)' <=> Left(t)
                /\ Ended(t)' <=> Ended(t)
                /\ thrds[t].pc # "entry" /\ r.code = thrds[t].code /\ r.pc # "stop"
  BY <1>2, <1>6, <1>11
<1> QED
  BY <1>6, <1>7, <1>8, <1>10, <1>14, <1>15, <1>16, <1>17, <1>18, <1>19, OnBlock

LEMMA StartInv ==
    ASSUME ThrdInv, NEW t \in Tid, Start(t)
    PROVE  ThrdInv'
<1>1. /\ ThrdTypeOK /\ LocalInv /\ IdInv /\ BlockInv /\ FindInv /\ thrds[t] \in ThrdRecord
      /\ thrds \in [Tid -> ThrdRecord] /\ 0 \in Tid /\ 0 \in BlockIndex
      /\ NoBlock \in 0 .. MAX_THRD /\ NoJoin \in JoinRecord /\ ~NoJoin.named /\ NoBlock \notin BlockIndex
  BY ThrdBounds DEF ThrdInv, ThrdTypeOK, NoJoin
<1>2. /\ thrds[t].pc = "start" /\ kept' = kept /\ raced' = raced
      /\ thrds[t].block \in BlockIndex /\ thrds[t].unrefs = 0 /\ thrds[t].after = "run"
      /\ ~thrds[t].join.named /\ thrds[t].child # 0 /\ thrds[t].child \in Tid
  BY <1>1 DEF Start, LocalInv, LocalFits, ThrdRecord
<1>3. PICK i \in BlockIndex : i = thrds[t].block
  BY <1>2
<1>4. PICK u \in Tid \ {0} : u = thrds[t].child
  BY <1>2
<1> DEFINE r == [thrds[t] EXCEPT !.pc = "run", !.block = NoBlock, !.child = 0, !.unrefs = 0,
                                 !.after = "run", !.join = NoJoin]
           b == [blocks[i] EXCEPT !.running = TRUE]
<1>5. /\ thrds' = [thrds EXCEPT ![t] = r] /\ blocks' = [blocks EXCEPT ![i] = b]
      /\ handles' = handles \cup {<<i, u>>}
  BY <1>3, <1>4 DEF Start, Outside
<1>6. /\ r \in ThrdRecord /\ r.pc = "run" /\ r.unrefs = 0 /\ r.block = NoBlock /\ r.after = "run"
      /\ r.join = NoJoin /\ r.code = thrds[t].code
  BY <1>1, <1>2, Places DEF ThrdRecord
<1>7. b \in BlockRecord /\ b.ref = blocks[i].ref /\ b.id = blocks[i].id /\ b.running
  BY <1>1 DEF ThrdTypeOK, BlockRecord
<1> HIDE DEF r, b
<1>8. Moves(t, r) /\ Stores(i, b)
  BY <1>1, <1>5, <1>6, <1>7, IsMove, IsStore
<1>9. /\ thrds'[t] = r /\ blocks'[i] = b
      /\ \A s \in Tid : s # t => thrds'[s] = thrds[s]
      /\ \A j \in BlockIndex : blocks'[j].id = blocks[j].id
  BY <1>7, <1>8 DEF Moves, Stores
<1>10. LocalFits(t, r)
  BY <1>1, <1>6 DEF LocalInv, LocalFits
<1>11. ~Left(t) /\ ~Left(t)' /\ ~Ended(t) /\ ~Ended(t)' /\ Makes(t, u)
  BY <1>2, <1>4, <1>6, <1>9 DEF Left, Ended, Makes
<1>12. \A s \in Tid : Left(s)' <=> Left(s)
  BY <1>9, <1>11 DEF Left
<1>13. IdInv'
  <2>1. FirstBlock'
    <3>1. thrds'[0].unrefs = 2 => thrds'[0] = thrds[0]
      BY <1>1, <1>6, <1>9
    <3>2. \A j \in BlockIndex : <<j, 0>> \notin handles'
      BY <1>1, <1>5 DEF IdInv, FirstBlock
    <3> QED
      BY <1>1, <1>2, <1>9, <1>12, <3>1, <3>2 DEF IdInv, FirstBlock
  <2>2. ASSUME NEW v \in Tid \ {0} PROVE IdOnce(v)'
    <3>1. IdOnce(v)
      BY <1>1 DEF IdInv
    <3>2. \A s \in Tid : Makes(s, v)' => Makes(s, v) /\ thrds'[s] = thrds[s]
      BY <1>6, <1>9 DEF Makes
    <3>4. thrds'[v].pc \in {"unborn", "entry"} \/ thrds'[v].unrefs = 2 => thrds'[v] = thrds[v]
      BY <1>6, <1>9
    <3>5. \A s \in Tid : thrds'[s].pc \in {"find", "ref"} \/ thrds'[s].join.named => thrds'[s] = thrds[s]
      BY <1>1, <1>6, <1>9
    <3>6. thrds[v].pc = "unborn" => v # u
      BY <1>11, <3>1 DEF IdOnce
    <3> QED
      BY <1>5, <1>9, <3>1, <3>2, <3>4, <3>5, <3>6 DEF IdOnce
  <2> QED
    BY <2>1, <2>2 DEF IdInv
<1>14. ASSUME i \notin raced' PROVE CountInv(i)' /\ UseInv(i)' /\ JoinInv(i)'
  <2>1. i \in BlockIndex \ raced /\ CountInv(i) /\ UseInv(i) /\ JoinInv(i)
    BY <1>1, <1>2, <1>14 DEF BlockInv
  <2>2. /\ thrds[u].pc = "entry" /\ thrds[u].block = i /\ OwnsNew(u, i)
        /\ \A s \in Tid : ~OwnsById(s, i) /\ (OwnsNew(s, i) <=> s = u)
        /\ \A s \in Tid : thrds[s].unrefs = 2 => thrds[s].block # i
        /\ \A s \in Tid : thrds[s].pc \in {"id", "start"} /\ thrds[s].block = i => s = t
        /\ ~blocks[i].running
        /\ \A v \in Tid : ~Home(v, i)
        /\ \A s \in Tid : thrds[s].join.named => ~Borrows(s, i)
    BY <1>3, <1>11, <2>1, MadeOnIt
  <2>3. blocks[i].id = u
    BY <1>2, <1>3, <1>4, <2>1 DEF UseInv, MakerOk
  <2>4. u # t /\ thrds'[u] = thrds[u]
    BY <1>2, <1>9, <2>2
  <2>5. ASSUME NEW s \in Tid PROVE Stands(s, i)
    BY <1>1, <1>2, <1>3, <1>6, <1>9, <1>11, <1>12 DEF Stands, OwnsNew, OwnsById, Borrows, Freeing
  <2>6. CountInv(i)'
    BY <1>2, <1>7, <1>9, <2>1, <2>5, CountStays
  <2>7. \A s \in Tid : thrds'[s].pc \in {"id", "start"} => thrds'[s].block # i
    BY <1>6, <1>9, <2>2
  <2>8. Home(u, i)'
    BY <1>7, <1>9, <2>3, <2>7 DEF Home
  <2>9. UseInv(i)'
    <3>1. OneOwner(i)'
      BY <2>1, <2>5 DEF UseInv, OneOwner, Stands
    <3>2. MakerOk(i)'
      <4>1. ASSUME NEW s \in Tid, thrds'[s].block = i, thrds'[s].pc = "split" PROVE FALSE
        BY <1>6, <1>9, <2>2, <2>4, <4>1 DEF OwnsNew
      <4> QED
        BY <2>7, <4>1 DEF MakerOk
    <3>3. EntryOk(i)'
      <4>1. ASSUME NEW v \in Tid, thrds'[v].pc = "entry", thrds'[v].block = i PROVE v = u
        BY <1>6, <1>9, <2>2, <4>1 DEF OwnsNew
      <4> QED
        BY <2>8, <4>1 DEF EntryOk
    <3>4. ExitOk(i)'
      BY <1>6, <1>9, <2>2 DEF ExitOk
    <3>5. OwnerOk(i)'
      BY <2>2, <2>5 DEF OwnerOk, Stands
    <3>6. FreeOk(i)'
      BY <1>6, <1>9, <2>1 DEF UseInv, FreeOk
    <3> QED
      BY <3>1, <3>2, <3>3, <3>4, <3>5, <3>6 DEF UseInv
  <2>10. JoinInv(i)'
    <3>1. HandleOk(i)'
      BY <1>5, <1>12, <2>1, <2>2, <2>8 DEF JoinInv, HandleOk
    <3>2. SeekerOk(i)'
      <4>1. ASSUME NEW s \in Tid, thrds'[s].pc \in {"find", "ref"}, thrds'[s].block = i
            PROVE  Left(thrds[s].join.tid)'
        <5>1. thrds'[s] = thrds[s] /\ thrds[s].join.tid \in Tid
          BY <1>1, <1>6, <1>9, <4>1 DEF ThrdTypeOK, ThrdRecord, JoinRecord
        <5>2. Left(thrds[s].join.tid)
          BY <2>1, <2>2, <4>1, <5>1 DEF JoinInv, SeekerOk
        <5> QED
          BY <1>12, <5>1, <5>2
      <4> QED
        BY <4>1 DEF SeekerOk
    <3>3. JoinerOk(i)'
      <4>1. ASSUME NEW s \in Tid, thrds'[s].join.named, Borrows(s, i)' PROVE FALSE
        <5>1. s # t /\ thrds'[s] = thrds[s]
          BY <1>1, <1>6, <1>9, <4>1
        <5>2. Borrows(s, i)
          BY <2>5, <4>1 DEF Stands
        <5> QED
          BY <2>2, <4>1, <5>1, <5>2
      <4> QED
        BY <4>1 DEF JoinerOk
    <3> QED
      BY <3>1, <3>2, <3>3 DEF JoinInv
  <2> QED
    BY <2>6, <2>9, <2>10
<1>15. ASSUME raced' = {} PROVE \E j \in BlockIndex : OwnsById(t, j)'
  <2>1. PICK j \in BlockIndex : OwnsById(t, j)
    BY <1>1, <1>2, <1>11, <1>15 DEF FindInv
  <2> QED
    BY <1>2, <1>6, <1>9, <1>11, <2>1 DEF OwnsById
<1>16. /\ kept' \in [BlockIndex -> Nat]
       /\ raced' = {} => \A s \in Tid : s # t /\ OwnsById(s, i) => OwnsById(s, i)'
  <2>1. \A s \in Tid : s # t /\ OwnsById(s, i) => OwnsById(s, i)'
    BY <1>9, <1>12 DEF OwnsById
  <2> QED
    BY <1>1, <1>2, <2>1 DEF ThrdTypeOK
<1>17. /\ handles' \subseteq BlockIndex \X Tid
       /\ \A j \in BlockIndex, v \in Tid : j # i /\ <<j, v>> \in handles' => <<j, v>> \in handles
  BY <1>1, <1>5 DEF ThrdTypeOK
<1>18. /\ thrds[t].block \in {i, NoBlock} /\ r.block \in {i, NoBlock}
       /\ thrds[t].pc # "unborn" /\ r.pc \notin {"entry", "fault"}
       /\ \A j \in BlockIndex : j # i => kept'[j] = kept[j]
       /\ raced' = raced \/ raced' = raced \cup {i}
       /\ Left(t) => Left(t)'
  BY <1>2, <1>3, <1>6, <1>11
<1>19. \A j \in BlockIndex : j # i /\ blocks[j].id = t /\ (t = 0 => j = 0) =>
                /\ Left(t)' <=> Left(t)
                /\ Ended(t)' <=> Ended(t)
                /\ thrds[t].pc # "entry" /\ r.code = thrds[t].code /\ r.pc # "stop"
  BY <1>2, <1>6, <1>11
<1> QED
  BY <1>6, <1>7, <1>8, <1>10, <1>13, <1>14, <1>15, <1>16, <1>17, <1>18, <1>19, OnBlock

LEMMA EntryInv ==
    ASSUME ThrdInv, NEW t \in Tid, Entry(t)
    PROVE  ThrdInv'
<1>1. /\ ThrdTypeOK /\ LocalInv /\ IdInv /\ BlockInv /\ FindInv /\ thrds[t] \in ThrdRecord
      /\ thrds \in [Tid -> ThrdRecord] /\ 0 \in Tid /\ 0 \in BlockIndex
      /\ NoBlock \in 0 .. MAX_THRD /\ NoJoin \in JoinRecord /\ ~NoJoin.named /\ NoBlock \notin BlockIndex
  BY ThrdBounds DEF ThrdInv, ThrdTypeOK, NoJoin
<1>2. /\ thrds[t].pc = "entry" /\ blocks' = blocks /\ handles' = handles /\ kept' = kept /\ raced' = raced
      /\ thrds[t].block \in BlockIndex /\ thrds[t].unrefs = 0 /\ thrds[t].after = "run"
      /\ ~thrds[t].join.named /\ t # 0
  BY <1>1 DEF Entry, LocalInv, LocalFits, ThrdRecord
<1>3. PICK i \in BlockIndex : i = thrds[t].block
  BY <1>2
<1> DEFINE r == [thrds[t] EXCEPT !.pc = "run", !.block = NoBlock, !.child = 0, !.unrefs = 0,
                                 !.after = "run", !.join = NoJoin]
<1>4. thrds' = [thrds EXCEPT ![t] = r] /\ blocks[i].running
  BY <1>3 DEF Entry, Outside
<1>5. /\ r \in ThrdRecord /\ r.pc = "run" /\ r.unrefs = 0 /\ r.block = NoBlock /\ r.after = "run"
      /\ r.join = NoJoin /\ r.code = thrds[t].code
  BY <1>1, <1>2, Places DEF ThrdRecord
<1> HIDE DEF r
<1>6. PICK b \in BlockRecord : b = blocks[i] /\ Stores(i, b)
  BY <1>1, <1>2 DEF Stores, ThrdTypeOK
<1>7. Moves(t, r)
  BY <1>1, <1>4, <1>5, IsMove
<1>8. thrds'[t] = r /\ \A s \in Tid : s # t => thrds'[s] = thrds[s]
  BY <1>7 DEF Moves
<1>9. LocalFits(t, r)
  BY <1>1, <1>2, <1>5 DEF LocalInv, LocalFits
<1>10. ~Left(t) /\ ~Left(t)' /\ ~Ended(t) /\ ~Ended(t)' /\ OwnsNew(t, i)
  BY <1>2, <1>3, <1>5, <1>8 DEF Left, Ended, OwnsNew
<1>11. \A s \in Tid : (Left(s)' <=> Left(s)) /\ (Ended(s)' <=> Ended(s)) /\ thrds'[s].code = thrds[s].code
  BY <1>5, <1>8, <1>10 DEF Left, Ended
<1>12. i \notin raced => Home(t, i)
  BY <1>1, <1>2, <1>3, <1>4 DEF BlockInv, UseInv, EntryOk
<1>13. IdInv'
  <2>1. ~Left(0)' => ~Left(0) /\ 0 \notin raced'
    BY <1>1, <1>2, <1>11 DEF IdInv, FirstBlock
  <2>2. /\ \A j \in BlockIndex : blocks'[j].id = blocks[j].id
        /\ thrds[t].pc # "unborn" /\ r.pc \notin {"unborn", "entry", "id", "start", "find", "ref"}
        /\ ~r.join.named /\ r.unrefs # 2 /\ handles' \subseteq handles
    BY <1>1, <1>2, <1>5
  <2> QED
    BY <1>1, <1>5, <1>7, <2>1, <2>2, IdsStay
<1>14. ASSUME i \notin raced' PROVE CountInv(i)' /\ UseInv(i)' /\ JoinInv(i)'
  <2>1. /\ i \in BlockIndex \ raced /\ CountInv(i) /\ UseInv(i) /\ JoinInv(i)
        /\ Home(t, i) /\ blocks[i].id = t
    BY <1>1, <1>2, <1>12, <1>14 DEF BlockInv, Home
  <2>2. /\ \A s \in Tid : ~OwnsById(s, i) /\ (OwnsNew(s, i) <=> s = t)
        /\ \A s \in Tid : thrds[s].unrefs = 2 => thrds[s].block # i
        /\ \A s \in Tid : thrds[s].join.named /\ Borrows(s, i) => thrds[s].join.tid = t
    BY <1>10, <2>1, AloneOnIt
  <2>3. ASSUME NEW s \in Tid
        PROVE  /\ ~OwnsNew(s, i)' /\ (OwnsById(s, i)' <=> s = t)
               /\ Borrows(s, i)' <=> Borrows(s, i)
               /\ (s \in Freeing(i))' <=> s \in Freeing(i)
    <3>1. CASE s = t
      BY <1>1, <1>2, <1>5, <1>8, <1>10, <2>1, <3>1 DEF OwnsNew, OwnsById, Borrows, Freeing
    <3>2. CASE s # t
      BY <1>2, <1>8, <2>1, <2>2, <3>2 DEF OwnsNew, OwnsById, Borrows, Freeing
    <3> QED
      BY <3>1, <3>2
  <2>4. \A s \in Tid : (Owns(s, i) <=> s = t) /\ (Owns(s, i)' <=> s = t)
    BY <2>2, <2>3 DEF Owns, OwnsNew, OwnsById
  <2>5. CountInv(i)'
    <3>1. Owners(i)' = Owners(i)
      BY <2>4 DEF Owners
    <3>2. Borrowers(i)' = Borrowers(i) /\ Freeing(i)' = Freeing(i)
      BY <2>3 DEF Borrowers, Freeing
    <3> QED
      BY <1>2, <2>1, <3>1, <3>2 DEF CountInv
  <2>6. ASSUME NEW u \in Tid, Home(u, i) PROVE Home(u, i)'
    BY <1>2, <1>4, <1>5, <1>8, <2>6 DEF Home
  <2>7. UseInv(i)'
    <3>1. OneOwner(i)'
      BY <2>3 DEF OneOwner
    <3>2. MakerOk(i)'
      <4>1. ASSUME NEW s \in Tid, thrds'[s].block = i, thrds'[s].pc \in {"split", "id", "start"} PROVE FALSE
        BY <1>5, <1>8, <2>1, <2>3, <4>1 DEF OwnsNew, Home
      <4> QED
        BY <4>1 DEF MakerOk
    <3>3. EntryOk(i)'
      BY <2>3 DEF EntryOk, OwnsNew
    <3>4. ExitOk(i)'
      BY <1>5, <1>8, <2>2 DEF ExitOk
    <3>5. OwnerOk(i)'
      BY <1>2, <1>4, <1>5, <1>8, <1>10, <2>3 DEF OwnerOk
    <3>6. FreeOk(i)'
      BY <1>5, <1>8, <2>1 DEF UseInv, FreeOk
    <3> QED
      BY <3>1, <3>2, <3>3, <3>4, <3>5, <3>6 DEF UseInv
  <2>8. JoinInv(i)'
    <3>1. HandleOk(i)'
      BY <1>2, <1>11, <2>1, <2>6 DEF JoinInv, HandleOk
    <3>2. SeekerOk(i)'
      <4>1. ASSUME NEW s \in Tid, thrds'[s].pc \in {"find", "ref"}, thrds'[s].block = i
            PROVE  (Left(thrds[s].join.tid) \/ Home(thrds[s].join.tid, i))'
        <5>1. thrds'[s] = thrds[s] /\ thrds[s].join.tid \in Tid
          BY <1>1, <1>5, <1>8, <4>1 DEF ThrdTypeOK, ThrdRecord, JoinRecord
        <5>2. Left(thrds[s].join.tid) \/ Home(thrds[s].join.tid, i)
          BY <2>1, <4>1, <5>1 DEF JoinInv, SeekerOk
        <5> QED
          BY <1>11, <2>6, <5>1, <5>2
      <4> QED
        BY <4>1 DEF SeekerOk
    <3>3. JoinerOk(i)'
      <4> SUFFICES ASSUME NEW s \in Tid, (thrds[s].join.named /\ Borrows(s, i))'
                   PROVE  Awaits(s, thrds[s].join.tid, i)'
        BY DEF JoinerOk
      <4>1. s # t /\ thrds'[s] = thrds[s]
        BY <1>1, <1>5, <1>8
      <4>2. Awaits(s, t, i) /\ thrds[s].join.tid = t
        BY <2>1, <2>2, <2>3, <4>1 DEF JoinInv, JoinerOk
      <4> QED
        BY <1>2, <1>11, <2>1, <2>4, <2>6, <4>1, <4>2 DEF Awaits
    <3> QED
      BY <3>1, <3>2, <3>3 DEF JoinInv
  <2> QED
    BY <2>5, <2>7, <2>8
<1>15. ASSUME raced' = {} PROVE \E j \in BlockIndex : OwnsById(t, j)'
  BY <1>2, <1>5, <1>8, <1>10, <1>12, <1>15 DEF Home, OwnsById
<1>16. /\ kept' \in [BlockIndex -> Nat] /\ handles' \subseteq BlockIndex \X Tid
       /\ raced' = {} => \A s \in Tid : s # t /\ OwnsById(s, i) => OwnsById(s, i)'
  <2>1. \A s \in Tid : s # t /\ OwnsById(s, i) => OwnsById(s, i)'
    BY <1>2, <1>8, <1>11 DEF OwnsById
  <2> QED
    BY <1>1, <1>2, <2>1 DEF ThrdTypeOK
<1>17. /\ thrds[t].block \in {i, NoBlock} /\ r.block \in {i, NoBlock}
       /\ thrds[t].pc # "unborn" /\ r.pc \notin {"entry", "fault"}
       /\ \A j \in BlockIndex : j # i => kept'[j] = kept[j]
       /\ \A j \in BlockIndex, v \in Tid : j # i /\ <<j, v>> \in handles' => <<j, v>> \in handles
       /\ raced' = raced \/ raced' = raced \cup {i}
       /\ Left(t) => Left(t)'
  BY <1>2, <1>3, <1>5, <1>10
<1>18. \A j \in BlockIndex : j # i /\ blocks[j].id = t /\ (t = 0 => j = 0) =>
                /\ Left(t)' <=> Left(t)
                /\ Ended(t)' <=> Ended(t)
                /\ thrds[t].pc # "entry" /\ r.code = thrds[t].code /\ r.pc # "stop"
  <2>1. IdOnce(t)
    BY <1>1, <1>2 DEF IdInv
  <2>2. \A j \in BlockIndex : blocks[j].id = t => j = i
    BY <1>2, <1>3, <2>1 DEF IdOnce
  <2> QED
    BY <2>2
<1> QED
  BY <1>5, <1>6, <1>7, <1>9, <1>13, <1>14, <1>15, <1>16, <1>17, <1>18, OnBlock

(***************************************************************************)
(* The split moves two threads: t, and u, which begins on the block of t.  *)
(***************************************************************************)
LEMMA SplitInv ==
    ASSUME ThrdInv, NEW t \in Tid, NEW u \in Tid, Split(t, u)
    PROVE  ThrdInv'
<1>1. /\ ThrdTypeOK /\ LocalInv /\ IdInv /\ BlockInv /\ FindInv
      /\ thrds[t] \in ThrdRecord /\ thrds[u] \in ThrdRecord
      /\ thrds \in [Tid -> ThrdRecord] /\ 0 \in Tid /\ 0 \in BlockIndex
  BY ThrdBounds DEF ThrdInv, ThrdTypeOK
<1>2. /\ thrds[t].pc = "split" /\ blocks' = blocks /\ handles' = handles /\ kept' = kept /\ raced' = raced
      /\ thrds[t].block \in BlockIndex /\ thrds[t].unrefs = 0 /\ thrds[t].after = "run"
      /\ ~thrds[t].join.named
      /\ thrds[u].pc = "unborn" /\ thrds[u].unrefs = 0 /\ thrds[u].after = "run" /\ ~thrds[u].join.named
      /\ u # 0 /\ u # t
  BY <1>1 DEF Split, LocalInv, LocalFits, ThrdRecord
<1>3. PICK i \in BlockIndex : i = thrds[t].block
  BY <1>2
<1> DEFINE r == [thrds[t] EXCEPT !.pc = "id", !.child = u]
           q == [thrds[u] EXCEPT !.pc = "entry", !.block = i]
<1>4. thrds' = [thrds EXCEPT ![t] = r, ![u] = q]
  BY <1>1, <1>2, <1>3 DEF Split
<1>5. /\ r \in ThrdRecord /\ r.pc = "id" /\ r.unrefs = 0 /\ r.block = i /\ r.after = "run"
      /\ r.join = thrds[t].join /\ r.code = thrds[t].code /\ r.child = u
  BY <1>1, <1>2, <1>3, Places DEF ThrdRecord
<1>6. /\ q \in ThrdRecord /\ q.pc = "entry" /\ q.unrefs = 0 /\ q.block = i /\ q.after = "run"
      /\ q.join = thrds[u].join /\ q.code = thrds[u].code
  BY <1>1, <1>2, <1>3, Places, ThrdBounds DEF ThrdRecord
<1> HIDE DEF r, q
<1>7. /\ thrds' \in [Tid -> ThrdRecord] /\ thrds'[t] = r /\ thrds'[u] = q
      /\ \A s \in Tid : s # t /\ s # u => thrds'[s] = thrds[s]
  BY <1>1, <1>2, <1>4, <1>5, <1>6
<1>8. ThrdTypeOK'
  BY <1>1, <1>2, <1>7 DEF ThrdTypeOK
<1>9. LocalInv'
  <2>1. LocalFits(t, r) /\ LocalFits(u, q)
    BY <1>1, <1>2, <1>5, <1>6 DEF LocalInv, LocalFits
  <2> QED
    BY <1>1, <1>7, <2>1 DEF LocalInv
<1>10. /\ IdOnce(u)
       /\ \A j \in BlockIndex : blocks[j].id # u /\ <<j, u>> \notin handles
       /\ \A s \in Tid : ~Makes(s, u)
       /\ \A s \in Tid : thrds[s].pc \in {"find", "ref"} \/ thrds[s].join.named => thrds[s].join.tid # u
  BY <1>1, <1>2 DEF IdInv, IdOnce
<1>11. /\ \A s \in Tid : s # u => (Left(s)' <=> Left(s))
       /\ \A s \in Tid : (Ended(s)' <=> Ended(s)) /\ thrds'[s].code = thrds[s].code
  BY <1>2, <1>5, <1>6, <1>7 DEF Left, Ended
<1>12. \A s \in Tid : /\ thrds'[s].join = thrds[s].join
                      /\ thrds'[s].unrefs = thrds[s].unrefs
                      /\ thrds'[s].unrefs = 2 => thrds'[s] = thrds[s]
                      /\ thrds'[s].pc \in {"find", "ref", "clear", "zero", "stop", "split", "init", "start"} => thrds'[s] = thrds[s]
                      /\ Borrows(s, i) => thrds'[s] = thrds[s]
  BY <1>2, <1>5, <1>6, <1>7 DEF Borrows
<1>13. IdInv'
  <2>1. FirstBlock'
    BY <1>1, <1>2, <1>11, <1>12 DEF IdInv, FirstBlock
  <2>2. ASSUME NEW v \in Tid \ {0}, v # u PROVE IdOnce(v)'
    <3>1. IdOnce(v)
      BY <1>1 DEF IdInv
    <3>2. \A s \in Tid : Makes(s, v)' => Makes(s, v) /\ thrds'[s] = thrds[s]
      BY <1>5, <1>6, <1>7, <2>2 DEF Makes
    <3>3. thrds'[v].pc \in {"unborn", "entry"} => thrds'[v] = thrds[v]
      BY <1>5, <1>7, <2>2
    <3> QED
      BY <1>2, <1>12, <3>1, <3>2, <3>3 DEF IdOnce
  <2>3. IdOnce(u)'
    <3>1. \A s \in Tid : Makes(s, u)' => s = t
      BY <1>6, <1>7, <1>10 DEF Makes
    <3>2. /\ thrds'[u].pc = "entry" /\ thrds'[u].unrefs = 0 /\ thrds'[t].block = thrds'[u].block
          /\ \A j \in BlockIndex : blocks'[j].id # u
      BY <1>2, <1>5, <1>6, <1>7, <1>10
    <3> QED
      BY <3>1, <3>2 DEF IdOnce
  <2> QED
    BY <2>1, <2>2, <2>3 DEF IdInv
<1>14. ASSUME NEW j \in BlockIndex \ raced, j # i PROVE CountInv(j)' /\ UseInv(j)' /\ JoinInv(j)'
  <2>1. CountInv(j) /\ UseInv(j) /\ JoinInv(j)
    BY <1>1 DEF BlockInv
  <2>2. ASSUME NEW s \in Tid PROVE Stands(s, j)
    <3>1. CASE s # t /\ s # u
      BY <1>2, <1>7, <3>1, OthersStand
    <3>2. CASE s = t
      BY <1>2, <1>3, <1>5, <1>7, <1>11, <1>14, <3>2 DEF Stands, OwnsNew, OwnsById, Borrows, Freeing
    <3>3. CASE s = u
      BY <1>2, <1>6, <1>7, <1>14, <3>3 DEF Stands, OwnsNew, OwnsById, Borrows, Freeing, Left
    <3> QED
      BY <3>1, <3>2, <3>3
  <2>3. CountInv(j)'
    BY <1>2, <2>1, <2>2, CountStays
  <2>4. ASSUME NEW v \in Tid, Home(v, j) PROVE Home(v, j)' /\ v # u
    BY <1>2, <1>5, <1>6, <1>7, <1>10, <1>14, <2>4, ZenonT(30) DEF Home
  <2>5. UseInv(j)'
    <3>1. OneOwner(j)'
      BY <2>1, <2>2 DEF UseInv, OneOwner, Stands
    <3>2. MakerOk(j)'
      <4> SUFFICES ASSUME NEW s \in Tid, thrds'[s].block = j
                   PROVE  (/\ thrds[s].pc \in {"split", "id", "start"} => ~blocks[j].running
                           /\ thrds[s].pc \in {"id", "start"} =>
                                    thrds[thrds[s].child].pc = "entry" /\ thrds[thrds[s].child].block = j
                           /\ thrds[s].pc = "start" => blocks[j].id = thrds[s].child)'
        BY DEF MakerOk
      <4>1. s # t /\ s # u /\ thrds'[s] = thrds[s] /\ thrds[s].child \in Tid
        BY <1>1, <1>5, <1>6, <1>7, <1>14 DEF ThrdRecord
      <4>2. /\ thrds[s].pc \in {"split", "id", "start"} => ~blocks[j].running
            /\ thrds[s].pc \in {"id", "start"} =>
                     thrds[thrds[s].child].pc = "entry" /\ thrds[thrds[s].child].block = j
            /\ thrds[s].pc = "start" => blocks[j].id = thrds[s].child
        BY <2>1, <4>1 DEF UseInv, MakerOk
      <4>3. thrds[thrds[s].child].pc = "entry" => thrds'[thrds[s].child] = thrds[thrds[s].child]
        BY <1>2, <1>7, <4>1
      <4> QED
        BY <1>2, <4>1, <4>2, <4>3
    <3>3. EntryOk(j)'
      BY <1>2, <1>5, <1>6, <1>7, <1>14, <2>1, <2>4 DEF UseInv, EntryOk
    <3>4. ExitOk(j)'
      BY <1>2, <1>12, <2>1 DEF UseInv, ExitOk
    <3>5. OwnerOk(j)'
      BY <1>2, <1>11, <1>12, <2>1, <2>2 DEF UseInv, OwnerOk, Stands
    <3>6. FreeOk(j)'
      BY <1>12, <2>1 DEF UseInv, FreeOk
    <3> QED
      BY <3>1, <3>2, <3>3, <3>4, <3>5, <3>6 DEF UseInv
  <2>6. JoinInv(j)'
    <3>1. HandleOk(j)'
      BY <1>2, <1>10, <1>11, <2>1, <2>4 DEF JoinInv, HandleOk
    <3>2. SeekerOk(j)'
      <4>1. ASSUME NEW s \in Tid, thrds'[s].pc \in {"find", "ref"}, thrds'[s].block = j
            PROVE  (Left(thrds[s].join.tid) \/ Home(thrds[s].join.tid, j))'
        <5>1. thrds'[s] = thrds[s] /\ thrds[s].join.tid \in Tid \ {u}
          BY <1>1, <1>10, <1>12, <4>1 DEF ThrdRecord, JoinRecord
        <5>2. Left(thrds[s].join.tid) \/ Home(thrds[s].join.tid, j)
          BY <2>1, <4>1, <5>1 DEF JoinInv, SeekerOk
        <5> QED
          BY <1>11, <2>4, <5>1, <5>2
      <4> QED
        BY <4>1 DEF SeekerOk
    <3>3. JoinerOk(j)'
      <4> SUFFICES ASSUME NEW s \in Tid, (thrds[s].join.named /\ Borrows(s, j))'
                   PROVE  Awaits(s, thrds[s].join.tid, j)'
        BY DEF JoinerOk
      <4>1. s # t /\ s # u /\ thrds'[s] = thrds[s]
        BY <1>2, <1>12, <1>7
      <4>2. PICK v \in Tid : v = thrds[s].join.tid
        BY <1>1 DEF ThrdRecord, JoinRecord
      <4>3. Awaits(s, v, j)
        BY <2>1, <2>2, <4>1, <4>2 DEF JoinInv, JoinerOk, Stands
      <4>4. \A w \in Tid : Owns(w, j)' <=> Owns(w, j)
        BY <2>2, OwnersSplit DEF Owns, OwnsNew, OwnsById, Stands
      <4> QED
        BY <1>2, <1>11, <2>4, <4>1, <4>2, <4>3, <4>4 DEF Awaits
    <3> QED
      BY <3>1, <3>2, <3>3 DEF JoinInv
  <2> QED
    BY <2>3, <2>5, <2>6
<1>15. ASSUME i \notin raced PROVE CountInv(i)' /\ UseInv(i)' /\ JoinInv(i)'
  <2>1. i \in BlockIndex \ raced /\ CountInv(i) /\ UseInv(i) /\ JoinInv(i) /\ OwnsNew(t, i)
    BY <1>1, <1>2, <1>3, <1>15 DEF BlockInv, OwnsNew
  <2>2. /\ \A s \in Tid : ~OwnsById(s, i) /\ (OwnsNew(s, i) <=> s = t)
        /\ \A s \in Tid : thrds[s].unrefs = 2 => thrds[s].block # i
        /\ \A s \in Tid : thrds[s].pc \in {"id", "start"} /\ thrds[s].block = i => thrds[s].child = t
        /\ \A v \in Tid : Home(v, i) /\ ~Left(v) => v = t /\ thrds[t].pc = "entry"
        /\ \A s \in Tid : thrds[s].join.named /\ Borrows(s, i) => thrds[t].pc = "entry" /\ thrds[s].join.tid = t
    BY <2>1, AloneOnIt
  <2>3. ASSUME NEW s \in Tid
        PROVE  /\ (OwnsNew(s, i)' <=> s = u) /\ ~OwnsById(s, i)'
               /\ Borrows(s, i)' <=> Borrows(s, i)
               /\ (s \in Freeing(i))' <=> s \in Freeing(i)
    <3>1. CASE s # t /\ s # u
      BY <1>2, <1>7, <2>2, <3>1 DEF OwnsNew, OwnsById, Borrows, Freeing, Left
    <3>2. CASE s = t
      BY <1>2, <1>5, <1>7, <1>11, <2>2, <3>2 DEF OwnsNew, OwnsById, Borrows, Freeing
    <3>3. CASE s = u
      BY <1>2, <1>6, <1>7, <3>3 DEF OwnsNew, OwnsById, Borrows, Freeing
    <3> QED
      BY <3>1, <3>2, <3>3
  <2>4. CountInv(i)'
    <3>1. \A s \in Tid : (Owns(s, i) <=> s = t) /\ (Owns(s, i)' <=> s = u)
      BY <2>2, <2>3 DEF Owns, OwnsNew, OwnsById
    <3>2. Owners(i) = {t} /\ Owners(i)' = {u}
      BY <3>1 DEF Owners
    <3>3. Borrowers(i)' = Borrowers(i) /\ Freeing(i)' = Freeing(i)
      BY <2>3 DEF Borrowers, Freeing
    <3>4. Cardinality({t}) = 1 /\ Cardinality({u}) = 1
      BY FS_Singleton
    <3>5. Freeing(i) = {} /\ blocks[i].ref = kept[i] + 1 + Cardinality(Borrowers(i))
      BY <2>1, <3>2, <3>4 DEF CountInv
    <3>6. blocks'[i].ref = kept'[i] + Cardinality(Owners(i)') + Cardinality(Borrowers(i)')
      BY <1>2, <3>2, <3>3, <3>4, <3>5
    <3> QED
      BY <3>3, <3>5, <3>6 DEF CountInv
  <2>5. UseInv(i)'
    <3>1. OneOwner(i)'
      BY <2>3 DEF OneOwner
    <3>2. MakerOk(i)'
      <4>1. ASSUME NEW s \in Tid, thrds'[s].block = i, thrds'[s].pc \in {"split", "id", "start"} PROVE s = t
        <5> SUFFICES ASSUME s # t PROVE FALSE
          OBVIOUS
        <5>1. s # u /\ thrds'[s] = thrds[s]
          BY <1>6, <1>7, <4>1
        <5>2. thrds[s].pc # "split"
          BY <2>2, <4>1, <5>1 DEF OwnsNew
        <5>3. thrds[s].child = t /\ thrds[t].pc = "entry"
          BY <2>1, <2>2, <4>1, <5>1, <5>2 DEF UseInv, MakerOk
        <5> QED
          BY <1>2, <5>3
      <4>2. ~blocks[i].running
        BY <1>2, <1>3, <2>1 DEF UseInv, MakerOk
      <4> QED
        BY <1>2, <1>5, <1>6, <1>7, <4>1, <4>2 DEF MakerOk
    <3>3. EntryOk(i)'
      <4>1. ~blocks'[i].running
        BY <1>2, <1>3, <2>1 DEF UseInv, MakerOk
      <4> QED
        BY <4>1 DEF EntryOk
    <3>4. ExitOk(i)'
      BY <1>12, <2>2 DEF ExitOk
    <3>5. OwnerOk(i)'
      BY <2>3 DEF OwnerOk
    <3>6. FreeOk(i)'
      BY <1>12, <2>1 DEF UseInv, FreeOk
    <3> QED
      BY <3>1, <3>2, <3>3, <3>4, <3>5, <3>6 DEF UseInv
  <2>6. JoinInv(i)'
    <3>1. HandleOk(i)'
      BY <1>2, <1>10, <1>11, <2>1, <2>2 DEF JoinInv, HandleOk
    <3>2. SeekerOk(i)'
      <4>1. ASSUME NEW s \in Tid, thrds'[s].pc \in {"find", "ref"}, thrds'[s].block = i
            PROVE  Left(thrds[s].join.tid)'
        <5>1. thrds'[s] = thrds[s] /\ thrds[s].join.tid \in Tid \ {u}
          BY <1>1, <1>10, <1>12, <4>1 DEF ThrdRecord, JoinRecord
        <5>2. Left(thrds[s].join.tid)
          BY <1>2, <2>1, <2>2, <4>1, <5>1 DEF JoinInv, SeekerOk
        <5> QED
          BY <1>11, <5>1, <5>2
      <4> QED
        BY <4>1 DEF SeekerOk
    <3>3. JoinerOk(i)'
      BY <1>2, <1>12, <2>2, <2>3 DEF JoinerOk
    <3> QED
      BY <3>1, <3>2, <3>3 DEF JoinInv
  <2> QED
    BY <2>4, <2>5, <2>6
<1>16. FindInv'
  <2> SUFFICES ASSUME raced = {} PROVE FindInv'
    BY <1>2 DEF FindInv
  <2>1. ASSUME NEW s \in Tid, ~Left(s)', thrds'[s].pc # "entry"
        PROVE  \E j \in BlockIndex : OwnsById(s, j)'
    <3>1. s # u /\ ~Left(s) /\ thrds[s].pc # "entry"
      BY <1>2, <1>6, <1>7, <1>11, <2>1
    <3>2. PICK j \in BlockIndex : OwnsById(s, j)
      BY <1>1, <3>1 DEF FindInv
    <3> QED
      BY <1>2, <2>1, <3>2 DEF OwnsById
  <2>2. \A s \in Tid : thrds'[s].pc # "fault"
    BY <1>1, <1>5, <1>6, <1>7 DEF FindInv
  <2> QED
    BY <2>1, <2>2 DEF FindInv
<1>17. BlockInv'
  <2>1. ASSUME NEW j \in BlockIndex \ raced PROVE CountInv(j)' /\ UseInv(j)' /\ JoinInv(j)'
    BY <1>14, <1>15
  <2> QED
    BY <1>2, <2>1 DEF BlockInv
<1> QED
  BY <1>8, <1>9, <1>13, <1>16, <1>17 DEF ThrdInv

\* _ThrdInit establishes the invariant.
LEMMA ThrdInitInv == ThrdInit => ThrdInv
<1> SUFFICES ASSUME ThrdInit PROVE ThrdInv
  OBVIOUS
<1>1. /\ 0 \in Tid /\ 0 \in BlockIndex /\ NoBlock \in 0 .. MAX_THRD /\ NoJoin \in JoinRecord
      /\ 0 \in 0 .. ResultSize - 1 /\ NoBlock \notin BlockIndex /\ ~NoJoin.named
  BY ThrdBounds DEF NoJoin
<1>2. PICK c \in Code :
        thrds = [t \in Tid |-> [pc |-> IF t = 0 THEN "run" ELSE "unborn", block |-> NoBlock,
                                child |-> 0, unrefs |-> 0, after |-> "run",
                                code |-> c, join |-> NoJoin]]
  BY DEF ThrdInit
<1>3. /\ blocks = [i \in BlockIndex |-> [ref |-> IF i = 0 THEN 1 ELSE 0, running |-> i = 0,
                                         id |-> 0, result |-> 0]]
      /\ handles = {} /\ kept = [i \in BlockIndex |-> 0] /\ raced = {}
  BY DEF ThrdInit
<1>4. ASSUME NEW t \in Tid
      PROVE  /\ thrds[t].pc = IF t = 0 THEN "run" ELSE "unborn"
             /\ thrds[t].block = NoBlock /\ thrds[t].child = 0 /\ thrds[t].unrefs = 0
             /\ thrds[t].after = "run" /\ thrds[t].join = NoJoin
  BY <1>2
<1>5. ASSUME NEW i \in BlockIndex
      PROVE  /\ blocks[i].ref = (IF i = 0 THEN 1 ELSE 0) /\ (blocks[i].running <=> i = 0)
             /\ blocks[i].id = 0
  BY <1>3
<1>6. ThrdTypeOK
  <2>1. blocks \in [BlockIndex -> BlockRecord]
    BY <1>1, <1>3 DEF BlockRecord
  <2>2. "unborn" \in ThrdPlace /\ "run" \in ThrdPlace
    BY DEF ThrdPlace
  <2>3. thrds \in [Tid -> ThrdRecord]
    BY <1>1, <1>2, <2>2, Places DEF ThrdRecord
  <2>4. handles \subseteq BlockIndex \X Tid /\ kept \in [BlockIndex -> Nat] /\ raced \subseteq BlockIndex
    BY <1>3
  <2> QED
    BY <2>1, <2>3, <2>4 DEF ThrdTypeOK
<1>7. LocalInv
  BY <1>1, <1>4 DEF LocalInv, LocalFits
<1>8. IdInv
  <2>1. FirstBlock
    BY <1>1, <1>3, <1>4, <1>5 DEF FirstBlock
  <2>2. ASSUME NEW u \in Tid \ {0} PROVE IdOnce(u)
    BY <1>1, <1>3, <1>4, <1>5 DEF IdOnce, Makes
  <2> QED
    BY <2>1, <2>2 DEF IdInv
<1>9. \A t \in Tid : (Left(t) <=> t # 0) /\ ~Ended(t)
  BY <1>4 DEF Left, Ended
<1>10. ASSUME NEW i \in BlockIndex PROVE CountInv(i) /\ UseInv(i) /\ JoinInv(i)
  <2>1. ASSUME NEW t \in Tid
        PROVE  /\ ~OwnsNew(t, i) /\ ~Borrows(t, i) /\ t \notin Freeing(i)
               /\ OwnsById(t, i) <=> t = 0 /\ i = 0
               /\ Owns(t, i) <=> t = 0 /\ i = 0
    BY <1>1, <1>4, <1>5, <1>9 DEF OwnsNew, OwnsById, Borrows, Freeing, Owns
  <2>2. Freeing(i) = {}
    BY <2>1 DEF Freeing
  <2>3. Borrowers(i) = {} /\ Owners(i) = IF i = 0 THEN {0} ELSE {}
    BY <1>1, <2>1 DEF Borrowers, Owners
  <2>4. Cardinality(Borrowers(i)) = 0 /\ Cardinality(Owners(i)) = IF i = 0 THEN 1 ELSE 0
    BY <2>3, FS_EmptySet, FS_Singleton
  <2>5. CountInv(i)
    BY <1>3, <1>5, <2>2, <2>4 DEF CountInv
  <2>6. UseInv(i)
    BY <1>4, <1>5, <1>9, <2>1 DEF UseInv, OneOwner, MakerOk, EntryOk, ExitOk, OwnerOk, FreeOk
  <2>7. JoinInv(i)
    BY <1>1, <1>3, <1>4 DEF JoinInv, HandleOk, SeekerOk, JoinerOk
  <2> QED
    BY <2>5, <2>6, <2>7
<1>11. FindInv
  <2>1. OwnsById(0, 0)
    BY <1>1, <1>4, <1>5, <1>9 DEF OwnsById
  <2> QED
    BY <1>1, <1>4, <1>9, <2>1 DEF FindInv
<1> QED
  BY <1>3, <1>6, <1>7, <1>8, <1>10, <1>11 DEF ThrdInv, BlockInv

\* Every step of the threads keeps the invariant.
LEMMA ThrdNextInv == ThrdInv /\ [ThrdNext]_thrdVars => ThrdInv'
<1> SUFFICES ASSUME ThrdInv, [ThrdNext]_thrdVars PROVE ThrdInv'
  OBVIOUS
<1>1. CASE UNCHANGED thrdVars
  <2>1. blocks' = blocks /\ thrds' = thrds /\ handles' = handles /\ kept' = kept /\ raced' = raced
    BY <1>1 DEF thrdVars
  <2>2. ThrdTypeOK' /\ LocalInv'
    BY <2>1 DEF ThrdInv, ThrdTypeOK, LocalInv
  <2>3. \A t \in Tid : (Left(t)' <=> Left(t)) /\ (Ended(t)' <=> Ended(t))
    BY <2>1 DEF Left, Ended
  <2>4. Left(0)' <=> Left(0)
    BY <2>1 DEF Left
  <2>5. IdInv'
    BY <2>1, <2>4 DEF ThrdInv, IdInv, FirstBlock, IdOnce, Makes
  <2>6. ASSUME NEW i \in BlockIndex
        PROVE  /\ \A t \in Tid : Stands(t, i) /\ (Owns(t, i)' <=> Owns(t, i))
               /\ \A u : Home(u, i)' <=> Home(u, i)
    BY <2>1 DEF Stands, Owns, OwnsNew, OwnsById, Borrows, Freeing, Left, Home
  <2>7. ASSUME NEW i \in BlockIndex \ raced PROVE CountInv(i)' /\ UseInv(i)' /\ JoinInv(i)'
    <3>1. CountInv(i) /\ UseInv(i) /\ JoinInv(i)
      BY DEF ThrdInv, BlockInv
    <3>2. CountInv(i)'
      BY <2>1, <2>6, <3>1, CountStays
    <3>3. UseInv(i)'
      BY <2>1, <2>3, <2>6, <3>1 DEF UseInv, OneOwner, MakerOk, EntryOk, ExitOk, OwnerOk, FreeOk, Stands
    <3>4. HandleOk(i)' /\ SeekerOk(i)'
      BY <2>1, <2>6, <3>1 DEF JoinInv, HandleOk, SeekerOk, Left
    <3>5. JoinerOk(i)'
      BY <2>1, <2>6, <3>1 DEF JoinInv, JoinerOk, Awaits, Stands, Ended
    <3> QED
      BY <3>2, <3>3, <3>4, <3>5 DEF JoinInv
  <2>8. FindInv'
    BY <2>1, <2>3, <2>6 DEF ThrdInv, FindInv, Stands
  <2> QED
    BY <2>1, <2>2, <2>5, <2>7, <2>8 DEF ThrdInv, BlockInv
<1>2. CASE ThrdNext
  <2> SUFFICES ASSUME NEW t \in Tid,
                      \/ ThrdCreate(t)
                      \/ \E code \in Code : ThrdExit(t, code)
                      \/ ThrdCurrent(t)
                      \/ ErrnoFunc(t)
                      \/ \E h \in handles : ThrdJoin(t, h)
                      \/ ThrdStep(t)
               PROVE  ThrdInv'
    BY <1>2 DEF ThrdNext
  <2>0. thrds[t].code \in Code
    BY DEF ThrdInv, ThrdTypeOK, ThrdRecord
  <2>1. CASE ThrdCreate(t)
    BY <2>1, ThrdCreateInv
  <2>2. ASSUME NEW code \in Code, ThrdExit(t, code) PROVE ThrdInv'
    BY <2>2, ByIdInv DEF ThrdExit
  <2>3. CASE ThrdCurrent(t)
    BY <2>0, <2>3, ByIdInv DEF ThrdCurrent
  <2>4. CASE ErrnoFunc(t)
    BY <2>0, <2>4, ByIdInv DEF ErrnoFunc
  <2>5. ASSUME NEW h \in handles, ThrdJoin(t, h) PROVE ThrdInv'
    BY <2>5, ThrdJoinInv
  <2>6. CASE ThrdStep(t)
    <3>1. CASE Reserve(t)
      BY <3>1, ReserveInv
    <3>2. CASE InitBlock(t)
      BY <3>2, InitBlockInv
    <3>3. ASSUME NEW u \in Tid, Split(t, u) PROVE ThrdInv'
      BY <3>3, SplitInv
    <3>4. CASE SplitFails(t)
      BY <3>4, SplitFailsInv
    <3>5. CASE StoreId(t)
      BY <3>5, StoreIdInv
    <3>6. CASE Start(t)
      BY <3>6, StartInv
    <3>7. CASE Entry(t)
      BY <3>7, EntryInv
    <3>8. CASE StoreResult(t)
      BY <3>8, StoreResultInv
    <3>9. CASE Stop(t)
      BY <3>9, StopInv
    <3>10. CASE ByIndex(t)
      BY <3>10, ByIndexInv
    <3>11. CASE JoinRef(t)
      BY <3>11, JoinRefInv
    <3>12. CASE JoinWait(t)
      BY <3>12, JoinWaitInv
    <3>13. CASE JoinRead(t)
      BY <3>13, JoinReadInv
    <3>14. CASE Unref(t)
      BY <3>14, UnrefInv
    <3>15. CASE ClearRunning(t)
      BY <3>15, ClearRunningInv
    <3>16. CASE ZeroRef(t)
      BY <3>16, ZeroRefInv
    <3> QED
      BY <2>6, <3>1, <3>2, <3>3, <3>4, <3>5, <3>6, <3>7, <3>8, <3>9, <3>10, <3>11, <3>12, <3>13,
         <3>14, <3>15, <3>16 DEF ThrdStep
  <2> QED
    BY <2>1, <2>2, <2>3, <2>4, <2>5, <2>6
<1> QED
  BY <1>1, <1>2

(***************************************************************************)
(* The counts of the thread blocks are exact, although no lock orders      *)
(* thrd_create, thrd_exit, thrd_join and errno.                            *)
(***************************************************************************)
THEOREM ThrdRefsExact == ThrdSpec => []ThrdRefs
<1>1. ThrdInv => ThrdRefs
  BY DEF ThrdInv, BlockInv, CountInv, ThrdRefs, Owners, Borrowers
<1> QED
  BY <1>1, ThrdInitInv, ThrdNextInv, PTL DEF ThrdSpec

(***************************************************************************)
(* A thread finds its own block whenever it asks for it, and a thrd_join   *)
(* that got hold of the block in time returns with the result of the       *)
(* thread, after that thread has left its function.                        *)
(***************************************************************************)
THEOREM ThrdWorksOnItsBlock == ThrdSpec => []ThrdOnItsBlock
<1>1. ThrdInv => ThrdOnItsBlock
  <2> SUFFICES ASSUME ThrdInv PROVE ThrdOnItsBlock
    OBVIOUS
  <2>1. ThrdTypeOK /\ LocalInv /\ BlockInv /\ FindInv
    BY DEF ThrdInv
  <2>2. ThrdFindsBlock
    BY <2>1 DEF FindInv, ThrdFindsBlock
  <2>3. ThrdJoinResult
    <3> SUFFICES ASSUME NEW t \in Tid, NEW u, u = thrds[t].join.tid, NEW i, i = thrds[t].block,
                        thrds[t].join.named, i \notin raced
                 PROVE  /\ thrds[t].pc = "wait" /\ Ended(u) => ~blocks[i].running
                        /\ thrds[t].pc = "unref" =>
                                /\ Ended(u)
                                /\ thrds[t].join.result = thrds[u].code % ResultSize
      BY DEF ThrdJoinResult, Ended
    <3> SUFFICES ASSUME thrds[t].pc \in {"wait", "unref"}
                 PROVE  /\ thrds[t].pc = "wait" /\ Ended(u) => ~blocks[i].running
                        /\ thrds[t].pc = "unref" =>
                                /\ Ended(u)
                                /\ thrds[t].join.result = thrds[u].code % ResultSize
      OBVIOUS
    <3>1. i \in BlockIndex \ raced /\ Borrows(t, i)
      BY <2>1 DEF LocalInv, LocalFits, Borrows
    <3>2. Awaits(t, u, i)
      BY <2>1, <3>1 DEF BlockInv, JoinInv, JoinerOk
    <3> QED
      BY <3>2 DEF Awaits
  <2> QED
    BY <2>1, <2>2, <2>3 DEF ThrdOnItsBlock
<1> QED
  BY <1>1, ThrdInitInv, ThrdNextInv, PTL DEF ThrdSpec
=============================================================================
