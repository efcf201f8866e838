----------------------------- MODULE VfsProofs ------------------------------
(***************************************************************************)
(* Proofs about the reference counts of files and volumes, for every       *)
(* number of processes, threads, files, descriptors and volumes, about the *)
(* working directory of a process, and about what paths mean.              *)
(***************************************************************************)
EXTENDS Vfs, Names, PlacementProofs

-----------------------------------------------------------------------------
(* The inductive invariant *)

\* What a call holds at each of its points: nothing that a later step could
\* overwrite or lose, and every pointer that a later step follows.
CallFits(a, r, h) ==
    /\ a \in Process => r.pc \in {"user", "cleanup"} /\ h = EmptyHands
    /\ r.pc \in {"user", "volume", "spawn"} => h = EmptyHands
    /\ r.pc \in {"user", "volume"} => ~r.pipe
    /\ r.pc \in {"install", "give"} => h[1] # None
    /\ r.pc = "second" \/ (r.pc = "install" /\ r.pipe) => h[2] # None
    /\ r.pc \in {"spawn", "give", "cleanup"} => r.child # None
    /\ (r.pc = "volume") <=> (r.volume # None)
    /\ r.destroy # None => r.pc \in {"defer", "cleanup"}

CallInv == \A a \in Actor : CallFits(a, task[a], hold[a])

\* Who destroys f
Destroyers(f) == {a \in Actor : task[a].destroy = f}

\* The count of f is exact; f is live from its first reference until its
\* one destroyer, who comes after the last reference, is done.
FileOk(f, refs, destroyers) ==
    /\ file[f].ref = Cardinality(refs)
    /\ file[f].live <=> (refs # {} \/ destroyers # {})
    /\ refs = {} \/ destroyers = {}
    /\ \A a, b \in destroyers : a = b

FileInv == \A f \in File : FileOk(f, References(f), Destroyers(f))

IndInv == TypeOK /\ CallInv /\ FileInv /\ VolumeRefs

-----------------------------------------------------------------------------
(* References *)

LEMMA RefsFinite ==
    ASSUME NEW f \in File
    PROVE  /\ IsFiniteSet(References(f)) /\ Cardinality(References(f)) \in Nat
           /\ Cardinality(References(f)) = 0 <=> References(f) = {}
<1> DEFINE All == (Process \X Fd) \cup (Actor \X Hand)
<1>1. IsFiniteSet(Actor)
  BY SlotAssumption, FS_Union DEF Actor
<1>2. IsFiniteSet(Fd) /\ IsFiniteSet(Hand)
  <2>1. 0 \in Int /\ 1 \in Int /\ CONFIG_MAX_FD - 1 \in Int /\ Hands \in Int
    BY FdAssumption
  <2> QED
    BY <2>1, FS_Interval DEF Fd, Hand
<1>3. IsFiniteSet(Process \X Fd) /\ IsFiniteSet(Actor \X Hand)
  BY SlotAssumption, <1>1, <1>2, FS_Product
<1>4. IsFiniteSet(All)
  BY <1>3, FS_Union
<1>5. References(f) \in SUBSET All
  BY DEF References
<1>6. IsFiniteSet(References(f))
  BY <1>4, <1>5, FS_Subset
<1> QED
  BY <1>6, FS_CardinalityType, FS_EmptySet

\* A descriptor comes to point to f, or no longer does.  The process has no
\* hand of the same number.
LEMMA FdTaken ==
    ASSUME TypeOK, CallInv, NEW p \in Process, NEW d \in Fd, NEW f \in File,
           files[p][d] = None, files' = [files EXCEPT ![p][d] = f], hold' = hold
    PROVE  /\ References(f)' = References(f) \cup {<<p, d>>} /\ <<p, d>> \notin References(f)
           /\ \A g \in File : g # f => References(g)' = References(g)
<1>1. f # None /\ \A g \in File : g # None
  BY VfsNoneAssumption
<1>2. \A i \in Hand : hold[p][i] = None
  BY DEF CallInv, CallFits, EmptyHands, Actor
<1>3. /\ files'[p][d] = f
      /\ \A q \in Process, e \in Fd : q # p \/ e # d => files'[q][e] = files[q][e]
  BY DEF TypeOK
<1>4. <<p, d>> \notin References(f)
  BY <1>1, <1>2 DEF References
<1>5. References(f)' = References(f) \cup {<<p, d>>}
  BY <1>1, <1>2, <1>3 DEF References
<1>6. ASSUME NEW g \in File, g # f PROVE References(g)' = References(g)
  BY <1>1, <1>3, <1>6 DEF References
<1> QED
  BY <1>4, <1>5, <1>6

LEMMA FdCleared ==
    ASSUME TypeOK, CallInv, NEW p \in Process, NEW d \in Fd, NEW f \in File,
           files[p][d] = f, files' = [files EXCEPT ![p][d] = None], hold' = hold
    PROVE  /\ References(f)' = References(f) \ {<<p, d>>} /\ <<p, d>> \in References(f)
           /\ \A g \in File : g # f => References(g)' = References(g)
<1>1. f # None /\ \A g \in File : g # None
  BY VfsNoneAssumption
<1>2. \A i \in Hand : hold[p][i] = None
  BY DEF CallInv, CallFits, EmptyHands, Actor
<1>3. /\ files'[p][d] = None
      /\ \A q \in Process, e \in Fd : q # p \/ e # d => files'[q][e] = files[q][e]
  BY DEF TypeOK
<1>4. <<p, d>> \in References(f)
  BY DEF References
<1>5. References(f)' = References(f) \ {<<p, d>>}
  BY <1>1, <1>2, <1>3 DEF References
<1>6. ASSUME NEW g \in File, g # f PROVE References(g)' = References(g)
  BY <1>1, <1>3, <1>6 DEF References
<1> QED
  BY <1>4, <1>5, <1>6

\* A local variable of a call comes to point to f, or no longer does.
LEMMA HandTaken ==
    ASSUME TypeOK, NEW t \in Thread, NEW i \in Hand, NEW f \in File,
           hold[t][i] = None, hold' = [hold EXCEPT ![t][i] = f], files' = files
    PROVE  /\ References(f)' = References(f) \cup {<<t, i>>} /\ <<t, i>> \notin References(f)
           /\ \A g \in File : g # f => References(g)' = References(g)
<1>1. f # None /\ t \notin Process /\ t \in Actor /\ \A g \in File : g # None
  BY VfsNoneAssumption, OwnerAssumption DEF Actor
<1>3. /\ hold'[t][i] = f
      /\ \A a \in Actor, j \in Hand : a # t \/ j # i => hold'[a][j] = hold[a][j]
  BY <1>1 DEF TypeOK
<1>4. <<t, i>> \notin References(f)
  BY <1>1 DEF References
<1>5. References(f)' = References(f) \cup {<<t, i>>}
  BY <1>1, <1>3 DEF References
<1>6. ASSUME NEW g \in File, g # f PROVE References(g)' = References(g)
  BY <1>1, <1>3, <1>6 DEF References
<1> QED
  BY <1>4, <1>5, <1>6

LEMMA HandCleared ==
    ASSUME TypeOK, NEW t \in Thread, NEW i \in Hand, NEW f \in File,
           hold[t][i] = f, hold' = [hold EXCEPT ![t][i] = None], files' = files
    PROVE  /\ References(f)' = References(f) \ {<<t, i>>} /\ <<t, i>> \in References(f)
           /\ \A g \in File : g # f => References(g)' = References(g)
<1>1. f # None /\ t \notin Process /\ t \in Actor /\ \A g \in File : g # None
  BY VfsNoneAssumption, OwnerAssumption DEF Actor
<1>3. /\ hold'[t][i] = None
      /\ \A a \in Actor, j \in Hand : a # t \/ j # i => hold'[a][j] = hold[a][j]
  BY <1>1 DEF TypeOK
<1>4. <<t, i>> \in References(f)
  BY <1>1 DEF References
<1>5. References(f)' = References(f) \ {<<t, i>>}
  BY <1>1, <1>3 DEF References
<1>6. ASSUME NEW g \in File, g # f PROVE References(g)' = References(g)
  BY <1>1, <1>3, <1>6 DEF References
<1> QED
  BY <1>4, <1>5, <1>6

-----------------------------------------------------------------------------
(* What the steps do to FileInv *)

\* No file is created, destroyed or moved to another volume.
SameFiles == \A g \in File : file'[g].live = file[g].live /\ file'[g].volume = file[g].volume

\* Nothing about files changes.
LEMMA FilesStay ==
    ASSUME FileInv, UNCHANGED <<file, files, hold>>,
           \A a \in Actor : task'[a].destroy = task[a].destroy
    PROVE  FileInv'
<1> SUFFICES ASSUME NEW f \in File PROVE FileOk(f, References(f), Destroyers(f))'
  BY DEF FileInv
<1>1. References(f)' = References(f)
  BY DEF References
<1>2. Destroyers(f)' = Destroyers(f)
  BY DEF Destroyers
<1> QED
  BY <1>1, <1>2 DEF FileInv, FileOk

\* file_ref for a pointer that is copied
LEMMA FileRefStep ==
    ASSUME TypeOK, FileInv, NEW f \in File, References(f) # {},
           NEW x, References(f)' = References(f) \cup {x} /\ x \notin References(f),
           \A g \in File : g # f => References(g)' = References(g),
           file' = FileRef(f), \A a \in Actor : task'[a].destroy = task[a].destroy
    PROVE  FileInv' /\ file' \in [File -> FileRecord] /\ SameFiles
<1>0. file[f] \in FileRecord /\ file \in [File -> FileRecord]
  BY DEF TypeOK
<1> DEFINE r == [file[f] EXCEPT !.ref = @ + 1]
<1>r. r \in FileRecord /\ r.ref = file[f].ref + 1 /\ r.live = file[f].live
      /\ r.volume = file[f].volume
  BY <1>0 DEF FileRecord
<1>e. file' = [file EXCEPT ![f] = r]
  BY DEF FileRef
<1> HIDE DEF r
<1>1. /\ file'[f].ref = file[f].ref + 1 /\ file'[f].live = file[f].live
      /\ file'[f].volume = file[f].volume
      /\ \A g \in File : g # f => file'[g] = file[g]
      /\ file' \in [File -> FileRecord]
  BY <1>0, <1>r, <1>e
<1>2. ASSUME NEW g \in File PROVE Destroyers(g)' = Destroyers(g)
  BY DEF Destroyers
<1>3. Cardinality(References(f)') = Cardinality(References(f)) + 1
  BY RefsFinite, FS_AddElement
<1>4. FileOk(f, References(f), Destroyers(f))'
  BY <1>1, <1>2, <1>3 DEF FileInv, FileOk
<1>5. ASSUME NEW g \in File, g # f PROVE FileOk(g, References(g), Destroyers(g))'
  BY <1>1, <1>2, <1>5 DEF FileInv, FileOk
<1> QED
  BY <1>1, <1>4, <1>5 DEF FileInv, SameFiles

\* file_deref: the caller that drops the last reference becomes the destroyer.
LEMMA DerefStep ==
    ASSUME TypeOK, FileInv, NEW f \in File,
           NEW x, References(f)' = References(f) \ {x} /\ x \in References(f),
           \A g \in File : g # f => References(g)' = References(g),
           file' = Deref(f), NEW a \in Actor,
           task[a].destroy = None, task'[a].destroy = Doomed(f),
           \A b \in Actor : b # a => task'[b].destroy = task[b].destroy
    PROVE  FileInv' /\ file' \in [File -> FileRecord] /\ SameFiles
<1>0. f # None /\ \A g \in File : g # None
  BY VfsNoneAssumption
<1>1. /\ file'[f].ref = file[f].ref - 1 /\ file'[f].live = file[f].live
      /\ file'[f].volume = file[f].volume
      /\ \A g \in File : g # f => file'[g] = file[g]
  BY DEF Deref, TypeOK, FileRecord
<1>2. /\ file[f].ref = Cardinality(References(f))
      /\ Destroyers(f) = {} /\ file[f].live
  BY DEF FileInv, FileOk
<1>3. /\ Cardinality(References(f)') = Cardinality(References(f)) - 1
      /\ Cardinality(References(f)) # 0 /\ Cardinality(References(f)) \in Nat
  BY RefsFinite, FS_RemoveElement
<1>4. IsFiniteSet(References(f)')
  BY RefsFinite, FS_RemoveElement
<1>5. References(f)' = {} <=> file[f].ref <= 1
  <2>1. References(f)' = {} <=> Cardinality(References(f)') = 0
    BY <1>4, FS_EmptySet
  <2> QED
    BY <1>2, <1>3, <2>1
<1>6. file' \in [File -> FileRecord]
  <2> DEFINE r == [file[f] EXCEPT !.ref = @ - 1]
  <2>1. file[f] \in FileRecord /\ file \in [File -> FileRecord]
    BY DEF TypeOK
  <2>2. file[f].ref - 1 \in Nat
    BY <1>2, <1>3
  <2>3. r \in FileRecord
    BY <2>1, <2>2 DEF FileRecord
  <2>4. file' = [file EXCEPT ![f] = r]
    BY DEF Deref
  <2> HIDE DEF r
  <2> QED
    BY <2>1, <2>3, <2>4
<1>7. FileOk(f, References(f), Destroyers(f))'
  <2>1. CASE file[f].ref <= 1
    <3>1. Destroyers(f)' = {a}
      BY <1>0, <1>2, <2>1 DEF Destroyers, Doomed
    <3> QED
      BY <1>1, <1>2, <1>3, <1>5, <2>1, <3>1 DEF FileOk
  <2>2. CASE ~(file[f].ref <= 1)
    <3>1. Destroyers(f)' = {}
      BY <1>0, <1>2, <2>2 DEF Destroyers, Doomed
    <3> QED
      BY <1>1, <1>2, <1>3, <1>5, <2>2, <3>1 DEF FileOk
  <2> QED
    BY <2>1, <2>2
<1>8. ASSUME NEW g \in File, g # f PROVE FileOk(g, References(g), Destroyers(g))'
  <2>1. Destroyers(g)' = Destroyers(g)
    BY <1>0, <1>8 DEF Destroyers, Doomed
  <2> QED
    BY <1>1, <1>8, <2>1 DEF FileInv, FileOk
<1> QED
  BY <1>1, <1>6, <1>7, <1>8 DEF FileInv, SameFiles

-----------------------------------------------------------------------------
(* Calls and volumes *)

\* An actor moves on.
LEMMA CallStep ==
    ASSUME TypeOK, CallInv, NEW a \in Actor, NEW r \in Task,
           NEW h \in [Hand -> File \cup {None}], CallFits(a, r, h),
           task' = [task EXCEPT ![a] = r], hold' = [hold EXCEPT ![a] = h]
    PROVE  /\ CallInv' /\ task' \in [Actor -> Task]
           /\ hold' \in [Actor -> [Hand -> File \cup {None}]]
           /\ task'[a] = r /\ \A b \in Actor : b # a => task'[b] = task[b]
<1>1. /\ task'[a] = r /\ hold'[a] = h
      /\ \A b \in Actor : b # a => task'[b] = task[b] /\ hold'[b] = hold[b]
      /\ task' \in [Actor -> Task]
      /\ hold' \in [Actor -> [Hand -> File \cup {None}]]
  BY DEF TypeOK
<1>2. ASSUME NEW b \in Actor PROVE CallFits(b, task[b], hold[b])'
  <2>1. CASE b = a
    BY <1>1, <2>1 DEF CallFits, EmptyHands
  <2>2. CASE b # a
    BY <1>1, <2>2 DEF CallInv, CallFits, EmptyHands
  <2> QED
    BY <2>1, <2>2
<1> QED
  BY <1>1, <1>2 DEF CallInv

LEMMA VolumesStay ==
    ASSUME VolumeRefs, volume' = volume, SameFiles,
           \A a \in Actor : task'[a].volume = task[a].volume
    PROVE  VolumeRefs'
<1>1. ASSUME NEW v \in Volume PROVE VolumeUsers(v)' = VolumeUsers(v)
  BY DEF VolumeUsers, SameFiles
<1> QED
  BY <1>1 DEF VolumeRefs

LEMMA UsersFinite ==
    ASSUME NEW v
    PROVE  /\ IsFiniteSet(VolumeUsers(v)) /\ Cardinality(VolumeUsers(v)) \in Nat
           /\ Cardinality(VolumeUsers(v)) = 0 <=> VolumeUsers(v) = {}
<1>1. IsFiniteSet(File \cup Actor)
  BY SlotAssumption, FS_Union DEF Actor
<1>2. VolumeUsers(v) \in SUBSET (File \cup Actor)
  BY DEF VolumeUsers
<1>3. IsFiniteSet(VolumeUsers(v))
  BY <1>1, <1>2, FS_Subset
<1> QED
  BY <1>3, FS_CardinalityType, FS_EmptySet

\* A file or a call begins to use v, or ends to.
LEMMA UserGone ==
    ASSUME TypeOK, VolumeRefs, NEW v \in Volume, NEW x, x \in VolumeUsers(v),
           VolumeUsers(v)' = VolumeUsers(v) \ {x},
           \A w \in Volume : w # v => VolumeUsers(w)' = VolumeUsers(w),
           volume' = [volume EXCEPT ![v].ref = @ - 1]
    PROVE  VolumeRefs' /\ volume' \in [Volume -> VolumeRecord]
<1>1. /\ volume'[v].ref = volume[v].ref - 1 /\ volume'[v].attached = volume[v].attached
      /\ \A w \in Volume : w # v => volume'[w] = volume[w]
  BY DEF TypeOK, VolumeRecord
<1>2. volume[v].attached /\ volume[v].ref = 1 + Cardinality(VolumeUsers(v))
  BY DEF VolumeRefs
<1>3. /\ Cardinality(VolumeUsers(v)') = Cardinality(VolumeUsers(v)) - 1
      /\ Cardinality(VolumeUsers(v)) \in Nat
  BY UsersFinite, FS_RemoveElement
<1>4. volume' \in [Volume -> VolumeRecord]
  <2> DEFINE r == [volume[v] EXCEPT !.ref = @ - 1]
  <2>1. volume[v] \in VolumeRecord /\ volume \in [Volume -> VolumeRecord]
    BY DEF TypeOK
  <2>2. volume[v].ref - 1 \in Nat
    BY <1>2, <1>3
  <2>3. r \in VolumeRecord
    BY <2>1, <2>2 DEF VolumeRecord
  <2>4. volume' = [volume EXCEPT ![v] = r]
    OBVIOUS
  <2> HIDE DEF r
  <2> QED
    BY <2>1, <2>3, <2>4
<1>5. ASSUME NEW w \in Volume
      PROVE  /\ VolumeUsers(w)' # {} => volume'[w].attached
             /\ volume'[w].attached => volume'[w].ref = 1 + Cardinality(VolumeUsers(w)')
  <2>1. CASE w = v
    <3>1. volume'[v].ref = 1 + Cardinality(VolumeUsers(v)') /\ volume'[v].attached
      BY <1>1, <1>2, <1>3
    <3> QED
      BY <2>1, <3>1
  <2>2. CASE w # v
    BY <1>1, <2>2 DEF VolumeRefs
  <2> QED
    BY <2>1, <2>2
<1> QED
  BY <1>4, <1>5 DEF VolumeRefs

LEMMA UserComes ==
    ASSUME TypeOK, VolumeRefs, NEW v \in Volume, NEW x, x \notin VolumeUsers(v),
           volume[v].attached, VolumeUsers(v)' = VolumeUsers(v) \cup {x},
           \A w \in Volume : w # v => VolumeUsers(w)' = VolumeUsers(w),
           volume' = [volume EXCEPT ![v].ref = @ + 1]
    PROVE  VolumeRefs' /\ volume' \in [Volume -> VolumeRecord]
<1>0. volume[v] \in VolumeRecord /\ volume \in [Volume -> VolumeRecord]
  BY DEF TypeOK
<1> DEFINE r == [volume[v] EXCEPT !.ref = @ + 1]
<1>r. r \in VolumeRecord /\ r.ref = volume[v].ref + 1 /\ r.attached = volume[v].attached
  <2>1. volume[v].ref + 1 \in Nat
    BY <1>0 DEF VolumeRecord
  <2> QED
    BY <1>0, <2>1 DEF VolumeRecord
<1>e. volume' = [volume EXCEPT ![v] = r]
  OBVIOUS
<1> HIDE DEF r
<1>1. /\ volume'[v].ref = volume[v].ref + 1 /\ volume'[v].attached = volume[v].attached
      /\ \A w \in Volume : w # v => volume'[w] = volume[w]
      /\ volume' \in [Volume -> VolumeRecord]
  BY <1>0, <1>r, <1>e
<1>2. volume[v].attached /\ volume[v].ref = 1 + Cardinality(VolumeUsers(v))
  BY DEF VolumeRefs
<1>3. /\ Cardinality(VolumeUsers(v)') = Cardinality(VolumeUsers(v)) + 1
      /\ Cardinality(VolumeUsers(v)) \in Nat
  BY UsersFinite, FS_AddElement
<1>5. ASSUME NEW w \in Volume
      PROVE  /\ VolumeUsers(w)' # {} => volume'[w].attached
             /\ volume'[w].attached => volume'[w].ref = 1 + Cardinality(VolumeUsers(w)')
  <2>1. CASE w = v
    <3>1. volume'[v].ref = 1 + Cardinality(VolumeUsers(v)') /\ volume'[v].attached
      BY <1>1, <1>2, <1>3
    <3> QED
      BY <2>1, <3>1
  <2>2. CASE w # v
    BY <1>1, <2>2 DEF VolumeRefs
  <2> QED
    BY <2>1, <2>2
<1> QED
  BY <1>1, <1>5 DEF VolumeRefs

-----------------------------------------------------------------------------
(* The steps that many actions share *)

\* A call moves on and touches no file and no volume.
LEMMA QuietStep ==
    ASSUME IndInv, NEW a \in Actor, NEW r \in Task, CallFits(a, r, hold[a]),
           r.destroy = task[a].destroy, r.volume = task[a].volume,
           task' = [task EXCEPT ![a] = r], UNCHANGED <<volume, file, files, hold>>,
           process' \in [Process -> {"free", "new", "live", "dead"}]
    PROVE  IndInv'
<1>1. /\ hold[a] \in [Hand -> File \cup {None}] /\ hold' = [hold EXCEPT ![a] = hold[a]]
  BY DEF IndInv, TypeOK
<1>2. /\ CallInv' /\ task' \in [Actor -> Task]
      /\ task'[a] = r /\ \A b \in Actor : b # a => task'[b] = task[b]
  BY <1>1, CallStep DEF IndInv
<1>3. \A b \in Actor : task'[b].destroy = task[b].destroy /\ task'[b].volume = task[b].volume
  BY <1>2
<1>4. TypeOK'
  BY <1>2 DEF IndInv, TypeOK
<1>5. FileInv'
  BY <1>3, FilesStay DEF IndInv
<1>6. VolumeRefs'
  BY <1>3, VolumesStay DEF IndInv, SameFiles
<1> QED
  BY <1>2, <1>4, <1>5, <1>6 DEF IndInv

\* A call puts a file it refers to behind a descriptor.
LEMMA CopyToFd ==
    ASSUME IndInv, NEW a \in Actor, NEW r \in Task, CallFits(a, r, hold[a]),
           r.destroy = task[a].destroy, r.volume = task[a].volume,
           task' = [task EXCEPT ![a] = r],
           NEW f \in File, NEW i \in Hand, hold[a][i] = f,
           NEW p \in Process, NEW d \in Fd, files[p][d] = None,
           files' = [files EXCEPT ![p][d] = f], file' = FileRef(f),
           UNCHANGED <<volume, process, hold>>
    PROVE  IndInv'
<1>1. /\ hold[a] \in [Hand -> File \cup {None}] /\ hold' = [hold EXCEPT ![a] = hold[a]]
  BY DEF IndInv, TypeOK
<1>2. /\ CallInv' /\ task' \in [Actor -> Task]
      /\ task'[a] = r /\ \A b \in Actor : b # a => task'[b] = task[b]
  BY <1>1, CallStep DEF IndInv
<1>3. \A b \in Actor : task'[b].destroy = task[b].destroy /\ task'[b].volume = task[b].volume
  BY <1>2
<1>4. References(f) # {}
  <2>1. <<a, i>> \in References(f)
    BY DEF References
  <2> QED
    BY <2>1
<1>5. /\ References(f)' = References(f) \cup {<<p, d>>} /\ <<p, d>> \notin References(f)
      /\ \A g \in File : g # f => References(g)' = References(g)
  BY FdTaken DEF IndInv
<1>6. FileInv' /\ file' \in [File -> FileRecord] /\ SameFiles
  BY <1>3, <1>4, <1>5, FileRefStep DEF IndInv
<1>7. TypeOK'
  BY <1>2, <1>6 DEF IndInv, TypeOK
<1>8. VolumeRefs'
  BY <1>3, <1>6, VolumesStay DEF IndInv
<1> QED
  BY <1>2, <1>6, <1>7, <1>8 DEF IndInv

\* A call takes a reference to the file behind a descriptor.
LEMMA CopyToHand ==
    ASSUME IndInv, NEW t \in Thread, NEW r \in Task,
           NEW i \in Hand, hold[t][i] = None,
           NEW p \in Process, NEW d \in Fd, NEW f \in File, files[p][d] = f,
           CallFits(t, r, [hold[t] EXCEPT ![i] = f]),
           r.destroy = task[t].destroy, r.volume = task[t].volume,
           task' = [task EXCEPT ![t] = r], hold' = [hold EXCEPT ![t][i] = f],
           file' = FileRef(f), UNCHANGED <<volume, process, files>>
    PROVE  IndInv'
<1>0. t \in Actor
  BY DEF Actor
<1>1. [hold[t] EXCEPT ![i] = f] \in [Hand -> File \cup {None}]
  BY <1>0 DEF IndInv, TypeOK
<1>2. /\ CallInv' /\ task' \in [Actor -> Task]
      /\ hold' \in [Actor -> [Hand -> File \cup {None}]]
      /\ task'[t] = r /\ \A b \in Actor : b # t => task'[b] = task[b]
  BY <1>0, <1>1, CallStep DEF IndInv
<1>3. \A b \in Actor : task'[b].destroy = task[b].destroy /\ task'[b].volume = task[b].volume
  BY <1>2
<1>4. References(f) # {}
  <2>1. <<p, d>> \in References(f)
    BY DEF References
  <2> QED
    BY <2>1
<1>5. /\ References(f)' = References(f) \cup {<<t, i>>} /\ <<t, i>> \notin References(f)
      /\ \A g \in File : g # f => References(g)' = References(g)
  BY HandTaken DEF IndInv
<1>6. FileInv' /\ file' \in [File -> FileRecord] /\ SameFiles
  BY <1>3, <1>4, <1>5, FileRefStep DEF IndInv
<1>7. TypeOK'
  BY <1>2, <1>6 DEF IndInv, TypeOK
<1>8. VolumeRefs'
  BY <1>3, <1>6, VolumesStay DEF IndInv
<1> QED
  BY <1>2, <1>6, <1>7, <1>8 DEF IndInv

\* A descriptor is cleared and its file dereferenced.
LEMMA DropFd ==
    ASSUME IndInv, NEW a \in Actor, task[a].destroy = None,
           NEW p \in Process, NEW d \in Fd, NEW f \in File, files[p][d] = f,
           NEW r \in Task, CallFits(a, r, hold[a]), r.destroy = Doomed(f), r.volume = task[a].volume,
           task' = [task EXCEPT ![a] = r],
           files' = [files EXCEPT ![p][d] = None], file' = Deref(f),
           UNCHANGED <<volume, process, hold>>
    PROVE  IndInv'
<1>1. /\ hold[a] \in [Hand -> File \cup {None}] /\ hold' = [hold EXCEPT ![a] = hold[a]]
  BY DEF IndInv, TypeOK
<1>2. /\ CallInv' /\ task' \in [Actor -> Task]
      /\ task'[a] = r /\ \A b \in Actor : b # a => task'[b] = task[b]
  BY <1>1, CallStep DEF IndInv
<1>3. \A b \in Actor : task'[b].volume = task[b].volume
  BY <1>2
<1>5. /\ References(f)' = References(f) \ {<<p, d>>} /\ <<p, d>> \in References(f)
      /\ \A g \in File : g # f => References(g)' = References(g)
  BY FdCleared DEF IndInv
<1>6. FileInv' /\ file' \in [File -> FileRecord] /\ SameFiles
  BY <1>2, <1>5, DerefStep DEF IndInv
<1>7. TypeOK'
  BY <1>2, <1>6 DEF IndInv, TypeOK
<1>8. VolumeRefs'
  BY <1>3, <1>6, VolumesStay DEF IndInv
<1> QED
  BY <1>2, <1>6, <1>7, <1>8 DEF IndInv

\* vfs_context_open finds a free descriptor when there is one.
LEMMA FirstFd ==
    ASSUME NEW p \in Process, FreeFds(p) # {}
    PROVE  Min(FreeFds(p)) \in Fd /\ files[p][Min(FreeFds(p))] = None
<1>1. FreeFds(p) \subseteq Nat
  BY FdAssumption DEF FreeFds, Fd
<1>2. PICK d \in FreeFds(p) : \A e \in FreeFds(p) : ~(<<e, d>> \in OpToRel(<, Nat))
  BY <1>1, NatLessThanWellFounded, WFMin, Zenon
<1>3. ASSUME NEW e \in FreeFds(p) PROVE d <= e
  <2>1. d \in Nat /\ e \in Nat
    BY <1>1
  <2>2. ~(e < d)
    BY <1>2, <2>1, Zenon DEF OpToRel
  <2> QED
    BY <2>1, <2>2
<1>4. Min(FreeFds(p)) \in FreeFds(p)
  BY <1>2, <1>3 DEF Min
<1> QED
  BY <1>4 DEF FreeFds

-----------------------------------------------------------------------------
(* Volumes: one step per action *)

LEMMA AttachStep ==
    ASSUME IndInv, NEW v \in Volume, Attach(v)
    PROVE  IndInv'
<1> USE DEF Attach
<1>1. /\ volume'[v] = [attached |-> TRUE, ref |-> 1]
      /\ \A w \in Volume : w # v => volume'[w] = volume[w]
      /\ volume' \in [Volume -> VolumeRecord]
  BY DEF IndInv, TypeOK, VolumeRecord
<1>2. ASSUME NEW w \in Volume PROVE VolumeUsers(w)' = VolumeUsers(w)
  BY DEF VolumeUsers
<1>3. VolumeUsers(v) = {}
  BY DEF IndInv, VolumeRefs
<1>4. Cardinality(VolumeUsers(v)) = 0
  BY <1>3, UsersFinite
<1>5. VolumeRefs'
  BY <1>1, <1>2, <1>4 DEF IndInv, VolumeRefs
<1>6. TypeOK' /\ CallInv'
  BY <1>1 DEF IndInv, TypeOK, CallInv, CallFits, EmptyHands
<1>7. FileInv'
  BY FilesStay DEF IndInv
<1> QED
  BY <1>5, <1>6, <1>7 DEF IndInv

LEMMA UnmountStep ==
    ASSUME IndInv, NEW v \in Volume, Unmount(v)
    PROVE  IndInv'
<1> USE DEF Unmount
<1>1. /\ volume'[v] = [attached |-> FALSE, ref |-> 0]
      /\ \A w \in Volume : w # v => volume'[w] = volume[w]
      /\ volume' \in [Volume -> VolumeRecord]
  BY DEF IndInv, TypeOK, VolumeRecord
<1>2. ASSUME NEW w \in Volume PROVE VolumeUsers(w)' = VolumeUsers(w)
  BY DEF VolumeUsers
<1>3. Cardinality(VolumeUsers(v)) \in Nat /\ 1 = 1 + Cardinality(VolumeUsers(v))
  BY UsersFinite DEF IndInv, VolumeRefs
<1>4. VolumeUsers(v) = {}
  BY <1>3, UsersFinite
<1>5. VolumeRefs'
  BY <1>1, <1>2, <1>4 DEF IndInv, VolumeRefs
<1>6. TypeOK' /\ CallInv'
  BY <1>1 DEF IndInv, TypeOK, CallInv, CallFits, EmptyHands
<1>7. FileInv'
  BY FilesStay DEF IndInv
<1> QED
  BY <1>5, <1>6, <1>7 DEF IndInv

LEMMA VolumeGetStep ==
    ASSUME IndInv, NEW t \in Thread, NEW v \in Volume, VolumeGet(t, v)
    PROVE  IndInv'
<1> DEFINE r == [task[t] EXCEPT !.pc = "volume", !.volume = v]
<1>0. t \in Actor /\ v # None /\ t \notin Process
  BY VfsNoneAssumption, OwnerAssumption DEF Actor
<1>1. task[t] \in Task /\ hold[t] \in [Hand -> File \cup {None}]
  BY <1>0 DEF IndInv, TypeOK
<1>2. r \in Task /\ r.volume = v /\ r.destroy = task[t].destroy
  BY <1>1 DEF Task
<1>3. /\ task[t].pc = "user" /\ CallFits(t, task[t], hold[t])
  BY <1>0 DEF VolumeGet, Calls, IndInv, CallInv
<1>4. CallFits(t, r, hold[t]) /\ task[t].volume = None
  BY <1>0, <1>1, <1>3 DEF CallFits, Task
<1>5. task' = [task EXCEPT ![t] = r] /\ hold' = [hold EXCEPT ![t] = hold[t]]
  BY <1>0 DEF VolumeGet, IndInv, TypeOK
<1> HIDE DEF r
<1>6. /\ CallInv' /\ task' \in [Actor -> Task]
      /\ task'[t] = r /\ \A b \in Actor : b # t => task'[b] = task[b]
  BY <1>0, <1>1, <1>2, <1>4, <1>5, CallStep DEF IndInv
<1>7. FileInv'
  BY <1>2, <1>6, FilesStay DEF VolumeGet, IndInv
<1>8. t \notin File
  BY <1>0, SlotAssumption DEF Actor
<1>9. /\ VolumeUsers(v)' = VolumeUsers(v) \cup {t} /\ t \notin VolumeUsers(v)
      /\ \A w \in Volume : w # v => VolumeUsers(w)' = VolumeUsers(w)
  <2>1. file' = file
    BY DEF VolumeGet
  <2>2. t \notin VolumeUsers(v)
    BY <1>0, <1>4, <1>8 DEF VolumeUsers
  <2>3. VolumeUsers(v)' = VolumeUsers(v) \cup {t}
    BY <1>0, <1>2, <1>6, <2>1 DEF VolumeUsers
  <2>4. ASSUME NEW w \in Volume, w # v PROVE VolumeUsers(w)' = VolumeUsers(w)
    <3>1. w # None
      BY VfsNoneAssumption
    <3> QED
      BY <1>2, <1>4, <1>6, <2>1, <2>4, <3>1 DEF VolumeUsers
  <2> QED
    BY <2>2, <2>3, <2>4
<1>10. VolumeRefs' /\ volume' \in [Volume -> VolumeRecord]
  BY <1>9, UserComes DEF IndInv, VolumeGet
<1>11. TypeOK'
  BY <1>6, <1>10 DEF VolumeGet, IndInv, TypeOK
<1> QED
  BY <1>6, <1>7, <1>10, <1>11 DEF IndInv

LEMMA VolumeDoneStep ==
    ASSUME IndInv, NEW t \in Actor, VolumeDone(t)
    PROVE  IndInv'
<1>1. task[t] \in Task /\ hold[t] \in [Hand -> File \cup {None}]
  BY DEF IndInv, TypeOK
<1>2. IdleTask \in Task /\ IdleTask.volume = None /\ IdleTask.destroy = None
  BY FdAssumption DEF Task, IdleTask, Fd
<1>3. /\ task[t].pc = "volume" /\ CallFits(t, task[t], hold[t])
  BY DEF VolumeDone, IndInv, CallInv
<1>4. /\ task[t].volume \in Volume /\ task[t].destroy = None
      /\ CallFits(t, IdleTask, hold[t])
  BY <1>1, <1>3 DEF CallFits, Task, IdleTask
<1>5. task' = [task EXCEPT ![t] = IdleTask] /\ hold' = [hold EXCEPT ![t] = hold[t]]
  BY DEF VolumeDone, IndInv, TypeOK
<1>6. /\ CallInv' /\ task' \in [Actor -> Task]
      /\ task'[t] = IdleTask /\ \A b \in Actor : b # t => task'[b] = task[b]
  BY <1>1, <1>2, <1>4, <1>5, CallStep DEF IndInv
<1>7. FileInv'
  BY <1>2, <1>4, <1>6, FilesStay DEF VolumeDone, IndInv
<1> SUFFICES ASSUME NEW v \in Volume, v = task[t].volume PROVE IndInv'
  BY <1>4
<1>8. t \notin File
  BY SlotAssumption DEF Actor
<1>9. /\ VolumeUsers(v)' = VolumeUsers(v) \ {t} /\ t \in VolumeUsers(v)
      /\ \A w \in Volume : w # v => VolumeUsers(w)' = VolumeUsers(w)
  <2>1. file' = file
    BY DEF VolumeDone
  <2>2. \A w \in Volume : w # None
    BY VfsNoneAssumption
  <2>3. VolumeUsers(v)' = VolumeUsers(v) \ {t} /\ t \in VolumeUsers(v)
    BY <1>2, <1>6, <1>8, <2>1, <2>2 DEF VolumeUsers
  <2>4. ASSUME NEW w \in Volume, w # v PROVE VolumeUsers(w)' = VolumeUsers(w)
    BY <1>2, <1>6, <2>1, <2>2, <2>4 DEF VolumeUsers
  <2> QED
    BY <2>3, <2>4
<1>10. VolumeRefs' /\ volume' \in [Volume -> VolumeRecord]
  BY <1>9, UserGone DEF IndInv, VolumeDone
<1>11. TypeOK'
  BY <1>6, <1>10 DEF VolumeDone, IndInv, TypeOK
<1> QED
  BY <1>6, <1>7, <1>10, <1>11 DEF IndInv

-----------------------------------------------------------------------------
(* Files come and go: one step per action *)

\* file_new, for the files F: each has one reference.
LEMMA FilesCreated ==
    ASSUME FileInv, NEW F \in SUBSET File, \A f \in F : ~file[f].live,
           \A f \in F : /\ file'[f].live /\ file'[f].ref = 1
                        /\ \E x : References(f)' = {x},
           \A f \in File \ F : file'[f] = file[f] /\ References(f)' = References(f),
           \A a \in Actor : task'[a].destroy = task[a].destroy
    PROVE  FileInv'
<1>1. ASSUME NEW f \in File PROVE Destroyers(f)' = Destroyers(f)
  BY DEF Destroyers
<1>2. ASSUME NEW f \in F PROVE FileOk(f, References(f), Destroyers(f))'
  <2>1. f \in File /\ Destroyers(f)' = {}
    BY <1>1, <1>2 DEF FileInv, FileOk
  <2>2. PICK x : References(f)' = {x}
    BY <1>2
  <2>3. Cardinality(References(f)') = 1
    BY <2>2, FS_Singleton
  <2> QED
    BY <1>2, <2>1, <2>2, <2>3 DEF FileOk
<1>3. ASSUME NEW f \in File \ F PROVE FileOk(f, References(f), Destroyers(f))'
  BY <1>1, <1>3 DEF FileInv, FileOk
<1> QED
  BY <1>2, <1>3 DEF FileInv

\* A free slot has no references.
LEMMA FreeSlot ==
    ASSUME FileInv, NEW f \in File, ~file[f].live
    PROVE  References(f) = {} /\ Destroyers(f) = {}
BY DEF FileInv, FileOk

LEMMA OpenFileStep ==
    ASSUME IndInv, NEW t \in Actor, NEW f \in File, OpenFile(t, f)
    PROVE  IndInv'
<1> DEFINE r == [task[t] EXCEPT !.pc = "install", !.volume = None]
           h == [hold[t] EXCEPT ![1] = f]
<1>0. f # None /\ 1 \in Hand
  BY VfsNoneAssumption, FdAssumption DEF Hand
<1>1. task[t] \in Task /\ hold[t] \in [Hand -> File \cup {None}]
  BY DEF IndInv, TypeOK
<1>3. /\ task[t].pc = "volume" /\ CallFits(t, task[t], hold[t]) /\ ~file[f].live
  BY DEF OpenFile, IndInv, CallInv
<1>2. /\ r \in Task /\ r.volume = None /\ r.destroy = task[t].destroy /\ r.pc = "install"
      /\ r.pipe = task[t].pipe
  BY <1>1 DEF Task
<1>h. h \in [Hand -> File \cup {None}] /\ h[1] = f
  BY <1>0, <1>1
<1>4. /\ hold[t] = EmptyHands /\ task[t].volume \in Volume /\ task[t].destroy = None
      /\ t \in Thread
  BY <1>1, <1>3 DEF CallFits, Task, Actor
<1>5. CallFits(t, r, h)
  BY <1>0, <1>2, <1>3, <1>4, <1>h, OwnerAssumption DEF CallFits
<1>6. /\ task' = [task EXCEPT ![t] = r] /\ hold' = [hold EXCEPT ![t] = h]
      /\ hold' = [hold EXCEPT ![t][1] = f]
      /\ file' = [file EXCEPT ![f] = NewFile(task[t].volume)]
      /\ UNCHANGED <<volume, files, process>>
  BY DEF OpenFile
<1> HIDE DEF r, h
<1>7. /\ CallInv' /\ task' \in [Actor -> Task]
      /\ hold' \in [Actor -> [Hand -> File \cup {None}]]
      /\ task'[t] = r /\ \A b \in Actor : b # t => task'[b] = task[b]
  BY <1>1, <1>2, <1>5, <1>6, <1>h, CallStep DEF IndInv
<1>8. References(f) = {}
  BY <1>3, FreeSlot DEF IndInv
<1>9. hold[t][1] = None
  BY <1>0, <1>4 DEF EmptyHands
<1>10. /\ References(f)' = References(f) \cup {<<t, 1>>}
       /\ \A g \in File : g # f => References(g)' = References(g)
  <2>1. PICK i \in Hand : i = 1
    BY <1>0
  <2>2. hold[t][i] = None /\ hold' = [hold EXCEPT ![t][i] = f] /\ files' = files
    BY <1>6, <1>9, <2>1
  <2>3. /\ References(f)' = References(f) \cup {<<t, i>>}
        /\ \A g \in File : g # f => References(g)' = References(g)
    BY <1>4, <2>2, HandTaken, ZenonT(30) DEF IndInv
  <2> QED
    BY <2>1, <2>3
<1> SUFFICES ASSUME NEW v \in Volume, v = task[t].volume PROVE IndInv'
  BY <1>4
<1>11. /\ file'[f].live /\ file'[f].ref = 1 /\ file'[f].volume = v
       /\ \A g \in File : g # f => file'[g] = file[g]
       /\ file' \in [File -> FileRecord]
  BY <1>6 DEF IndInv, TypeOK, NewFile, FileRecord
<1>12. FileInv'
  <2>1. {f} \in SUBSET File /\ \E x : References(f)' = {x}
    BY <1>8, <1>10
  <2>2. \A a \in Actor : task'[a].destroy = task[a].destroy
    BY <1>2, <1>7
  <2> QED
    BY <1>3, <1>10, <1>11, <2>1, <2>2, FilesCreated DEF IndInv
<1>13. TypeOK'
  BY <1>6, <1>7, <1>11 DEF IndInv, TypeOK
<1>14. ASSUME NEW w \in Volume
       PROVE  /\ VolumeUsers(w) # {} <=> VolumeUsers(w)' # {}
              /\ Cardinality(VolumeUsers(w)') = Cardinality(VolumeUsers(w))
  <2>0. t \notin File /\ f \notin Actor /\ w # None
    BY SlotAssumption, VfsNoneAssumption DEF Actor
  <2>1. CASE w = v
    <3>1. VolumeUsers(w)' = (VolumeUsers(w) \ {t}) \cup {f} /\ t \in VolumeUsers(w)
      BY <1>2, <1>3, <1>7, <1>11, <2>0, <2>1 DEF VolumeUsers
    <3>2. f \notin VolumeUsers(w) \ {t}
      BY <1>3, <2>0 DEF VolumeUsers
    <3>3. IsFiniteSet(VolumeUsers(w)) /\ Cardinality(VolumeUsers(w)) \in Nat
      BY UsersFinite
    <3>4. /\ IsFiniteSet(VolumeUsers(w) \ {t})
          /\ Cardinality(VolumeUsers(w) \ {t}) = Cardinality(VolumeUsers(w)) - 1
      BY <3>1, <3>3, FS_RemoveElement
    <3>5. Cardinality((VolumeUsers(w) \ {t}) \cup {f}) = Cardinality(VolumeUsers(w) \ {t}) + 1
      BY <3>2, <3>4, FS_AddElement
    <3> QED
      BY <3>1, <3>3, <3>4, <3>5
  <2>2. CASE w # v
    <3>1. VolumeUsers(w)' = VolumeUsers(w)
      BY <1>2, <1>3, <1>7, <1>11, <2>0, <2>2 DEF VolumeUsers
    <3> QED
      BY <3>1
  <2> QED
    BY <2>1, <2>2
<1>15. VolumeRefs'
  BY <1>6, <1>14 DEF IndInv, VolumeRefs
<1> QED
  BY <1>7, <1>12, <1>13, <1>15 DEF IndInv

LEMMA PipeInitStep ==
    ASSUME IndInv, NEW t \in Thread, NEW f \in File, NEW g \in File, PipeInit(t, f, g)
    PROVE  IndInv'
<1> DEFINE r == [task[t] EXCEPT !.pc = "install", !.pipe = TRUE]
           h == [hold[t] EXCEPT ![1] = f, ![2] = g]
<1>0. /\ 1 \in Hand /\ 2 \in Hand /\ t \in Actor /\ t \notin Process
      /\ \A k \in File : k # None
  BY VfsNoneAssumption, FdAssumption, OwnerAssumption DEF Hand, Actor
<1>1. task[t] \in Task /\ hold[t] \in [Hand -> File \cup {None}]
  BY <1>0 DEF IndInv, TypeOK
<1>2. /\ r \in Task /\ r.volume = task[t].volume /\ r.destroy = task[t].destroy
      /\ r.pc = "install" /\ r.pipe = TRUE
  BY <1>1 DEF Task
<1>3. h \in [Hand -> File \cup {None}] /\ h[1] = f /\ h[2] = g
  BY <1>0, <1>1
<1>4. /\ task[t].pc = "user" /\ CallFits(t, task[t], hold[t]) /\ f # g
      /\ ~file[f].live /\ ~file[g].live
  BY <1>0 DEF PipeInit, Calls, IndInv, CallInv
<1>5. hold[t] = EmptyHands /\ CallFits(t, r, h)
  BY <1>0, <1>2, <1>3, <1>4 DEF CallFits
<1>6. /\ task' = [task EXCEPT ![t] = r] /\ hold' = [hold EXCEPT ![t] = h]
      /\ file' = [file EXCEPT ![f] = NewFile(None), ![g] = NewFile(None)]
      /\ UNCHANGED <<volume, files, process>>
  BY <1>0, <1>1 DEF PipeInit, IndInv, TypeOK
<1>h. \A j \in Hand : h[j] = IF j = 1 THEN f ELSE IF j = 2 THEN g ELSE None
  BY <1>0, <1>5 DEF EmptyHands
<1> HIDE DEF r, h
<1>7. /\ CallInv' /\ task' \in [Actor -> Task]
      /\ hold' \in [Actor -> [Hand -> File \cup {None}]]
      /\ task'[t] = r /\ \A b \in Actor : b # t => task'[b] = task[b]
  BY <1>0, <1>1, <1>2, <1>3, <1>5, <1>6, CallStep DEF IndInv
<1>8. References(f) = {} /\ References(g) = {}
  BY <1>4, FreeSlot DEF IndInv
<1>9. /\ hold'[t] = h /\ \A a \in Actor : a # t => hold'[a] = hold[a]
      /\ files' = files
  BY <1>0, <1>6 DEF IndInv, TypeOK
<1>10. /\ References(f)' = {<<t, 1>>} /\ References(g)' = {<<t, 2>>}
  BY <1>0, <1>4, <1>8, <1>9, <1>h DEF References
<1>11. ASSUME NEW k \in File, k # f, k # g PROVE References(k)' = References(k)
  BY <1>0, <1>5, <1>9, <1>11, <1>h DEF References, EmptyHands
<1>12. /\ \A k \in {f, g} : file'[k] = NewFile(None)
       /\ \A k \in File : k \notin {f, g} => file'[k] = file[k]
       /\ file' \in [File -> FileRecord]
  BY <1>6 DEF IndInv, TypeOK, NewFile, FileRecord
<1>13. FileInv'
  <2> DEFINE F == {f, g}
  <2>1. F \in SUBSET File /\ \A k \in F : ~file[k].live
    BY <1>4
  <2>2. \A k \in F : /\ file'[k].live /\ file'[k].ref = 1
                     /\ \E x : References(k)' = {x}
    <3>1. (\E x : References(f)' = {x}) /\ (\E x : References(g)' = {x})
      BY <1>10
    <3>2. \A k \in F : file'[k].live /\ file'[k].ref = 1
      BY <1>12 DEF NewFile
    <3> QED
      BY <3>1, <3>2
  <2>3. \A k \in File \ F : file'[k] = file[k] /\ References(k)' = References(k)
    BY <1>11, <1>12
  <2>4. \A a \in Actor : task'[a].destroy = task[a].destroy
    BY <1>2, <1>7
  <2> HIDE DEF F
  <2> QED
    BY <2>1, <2>2, <2>3, <2>4, FilesCreated DEF IndInv
<1>14. TypeOK'
  BY <1>6, <1>7, <1>12 DEF IndInv, TypeOK
<1>15. ASSUME NEW w \in Volume PROVE VolumeUsers(w)' = VolumeUsers(w)
  <2>1. w # None
    BY VfsNoneAssumption
  <2> QED
    BY <1>2, <1>4, <1>7, <1>12, <2>1 DEF VolumeUsers, NewFile
<1>16. VolumeRefs'
  BY <1>6, <1>15 DEF IndInv, VolumeRefs
<1> QED
  BY <1>7, <1>13, <1>14, <1>16 DEF IndInv

LEMMA DropHandStep ==
    ASSUME IndInv, NEW a \in Actor, NEW i \in Hand, DropHand(a, i)
    PROVE  IndInv'
<1> DEFINE r == [task[a] EXCEPT !.destroy = Doomed(hold[a][i])]
           h == [hold[a] EXCEPT ![i] = None]
<1>1. task[a] \in Task /\ hold[a] \in [Hand -> File \cup {None}]
  BY DEF IndInv, TypeOK
<1>2. /\ task[a].pc = "defer" /\ task[a].destroy = None /\ CallFits(a, task[a], hold[a])
      /\ hold[a][i] # None
  BY DEF DropHand, IndInv, CallInv
<1>3. a \in Thread /\ hold[a][i] \in File
  BY <1>1, <1>2 DEF CallFits, Actor
<1>4. /\ r \in Task /\ r.volume = task[a].volume /\ r.pc = "defer"
      /\ r.pipe = task[a].pipe /\ r.child = task[a].child
      /\ r.destroy = Doomed(hold[a][i])
  BY <1>1, <1>2, <1>3 DEF Task, Doomed
<1>5. h \in [Hand -> File \cup {None}] /\ CallFits(a, r, h)
  BY <1>1, <1>2, <1>3, <1>4, OwnerAssumption DEF CallFits
<1>6. /\ task' = [task EXCEPT ![a] = r] /\ hold' = [hold EXCEPT ![a] = h]
      /\ hold' = [hold EXCEPT ![a][i] = None]
      /\ file' = Deref(hold[a][i]) /\ UNCHANGED <<volume, files, process>>
  BY DEF DropHand
<1> HIDE DEF r, h
<1>7. /\ CallInv' /\ task' \in [Actor -> Task]
      /\ hold' \in [Actor -> [Hand -> File \cup {None}]]
      /\ task'[a] = r /\ \A b \in Actor : b # a => task'[b] = task[b]
  BY <1>1, <1>4, <1>5, <1>6, CallStep DEF IndInv
<1> SUFFICES ASSUME NEW f \in File, f = hold[a][i] PROVE IndInv'
  BY <1>3
<1>8. /\ References(f)' = References(f) \ {<<a, i>>} /\ <<a, i>> \in References(f)
      /\ \A g \in File : g # f => References(g)' = References(g)
  BY <1>3, <1>6, HandCleared DEF IndInv
<1>9. FileInv' /\ file' \in [File -> FileRecord] /\ SameFiles
  BY <1>2, <1>4, <1>6, <1>7, <1>8, DerefStep DEF IndInv
<1>10. TypeOK'
  BY <1>6, <1>7, <1>9 DEF IndInv, TypeOK
<1>11. VolumeRefs'
  <2>1. \A b \in Actor : task'[b].volume = task[b].volume
    BY <1>4, <1>7
  <2> QED
    BY <1>6, <1>9, <2>1, VolumesStay DEF IndInv
<1> QED
  BY <1>7, <1>9, <1>10, <1>11 DEF IndInv

LEMMA DestroyStep ==
    ASSUME IndInv, NEW a \in Actor, Destroy(a)
    PROVE  IndInv'
<1> DEFINE r == [task[a] EXCEPT !.destroy = None, !.locked = FALSE]
<1>0. \A g \in File : g # None
  BY VfsNoneAssumption
<1>1. task[a] \in Task /\ hold[a] \in [Hand -> File \cup {None}]
  BY DEF IndInv, TypeOK
<1>2. task[a].destroy # None /\ CallFits(a, task[a], hold[a])
  BY DEF Destroy, IndInv, CallInv
<1>3. task[a].destroy \in File
  BY <1>1, <1>2 DEF Task
<1>4. /\ r \in Task /\ r.volume = task[a].volume /\ r.destroy = None /\ r.pc = task[a].pc
      /\ r.child = task[a].child /\ r.pipe = task[a].pipe
  BY <1>1 DEF Task
<1>5. CallFits(a, r, hold[a])
  BY <1>2, <1>4 DEF CallFits
<1>6. task' = [task EXCEPT ![a] = r] /\ hold' = [hold EXCEPT ![a] = hold[a]]
  BY DEF Destroy, IndInv, TypeOK
<1> HIDE DEF r
<1>7. /\ CallInv' /\ task' \in [Actor -> Task]
      /\ task'[a] = r /\ \A b \in Actor : b # a => task'[b] = task[b]
  BY <1>1, <1>4, <1>5, <1>6, CallStep DEF IndInv
<1> SUFFICES ASSUME NEW f \in File, f = task[a].destroy PROVE IndInv'
  BY <1>3
<1>8. /\ file' = [file EXCEPT ![f] = FreeFile] /\ UNCHANGED <<files, process, hold>>
      /\ volume' = IF file[f].volume = None THEN volume
                   ELSE [volume EXCEPT ![file[f].volume].ref = @ - 1]
  BY DEF Destroy
<1>9. /\ file'[f] = FreeFile /\ \A g \in File : g # f => file'[g] = file[g]
      /\ file' \in [File -> FileRecord]
  BY <1>8 DEF IndInv, TypeOK, FreeFile, FileRecord
<1>10. a \in Destroyers(f)
  BY DEF Destroyers
<1>11. References(f) = {} /\ file[f].live /\ Destroyers(f) = {a}
  <2>1. FileOk(f, References(f), Destroyers(f))
    BY DEF IndInv, FileInv
  <2> QED
    BY <1>10, <2>1 DEF FileOk
<1>12. ASSUME NEW g \in File PROVE References(g)' = References(g)
  BY <1>8 DEF References
<1>13. FileInv'
  <2>1. FileOk(f, References(f), Destroyers(f))'
    <3>1. Destroyers(f)' = {}
      BY <1>0, <1>4, <1>7, <1>11 DEF Destroyers
    <3>2. Cardinality({}) = 0
      BY FS_EmptySet
    <3> QED
      BY <1>9, <1>11, <1>12, <3>1, <3>2 DEF FileOk, FreeFile
  <2>2. ASSUME NEW g \in File, g # f PROVE FileOk(g, References(g), Destroyers(g))'
    <3>1. Destroyers(g)' = Destroyers(g)
      BY <1>0, <1>4, <1>7, <2>2 DEF Destroyers
    <3> QED
      BY <1>9, <1>12, <2>2, <3>1 DEF IndInv, FileInv, FileOk
  <2> QED
    BY <2>1, <2>2 DEF FileInv
<1>14. \A b \in Actor : task'[b].volume = task[b].volume
  BY <1>4, <1>7
<1>15. VolumeRefs' /\ volume' \in [Volume -> VolumeRecord]
  <2>1. CASE file[f].volume = None
    <3>1. ASSUME NEW w \in Volume PROVE VolumeUsers(w)' = VolumeUsers(w)
      <4>1. w # None
        BY VfsNoneAssumption
      <4> QED
        BY <1>9, <1>14, <2>1, <4>1 DEF VolumeUsers, FreeFile
    <3> QED
      BY <1>8, <2>1, <3>1 DEF IndInv, TypeOK, VolumeRefs
  <2>2. CASE file[f].volume # None
    <3>1. file[f].volume \in Volume
      BY <2>2 DEF IndInv, TypeOK, FileRecord
    <3> SUFFICES ASSUME NEW v \in Volume, v = file[f].volume
                 PROVE  VolumeRefs' /\ volume' \in [Volume -> VolumeRecord]
      BY <3>1
    <3>2. f \notin Actor
      BY SlotAssumption DEF Actor
    <3>3. VolumeUsers(v)' = VolumeUsers(v) \ {f} /\ f \in VolumeUsers(v)
      BY <1>9, <1>11, <1>14, <3>2 DEF VolumeUsers, FreeFile
    <3>4. ASSUME NEW w \in Volume, w # v PROVE VolumeUsers(w)' = VolumeUsers(w)
      BY <1>9, <1>14, <3>4 DEF VolumeUsers, FreeFile
    <3> QED
      BY <1>8, <2>2, <3>3, <3>4, UserGone DEF IndInv
  <2> QED
    BY <2>1, <2>2
<1>16. TypeOK'
  BY <1>7, <1>8, <1>9, <1>15 DEF IndInv, TypeOK
<1> QED
  BY <1>7, <1>13, <1>15, <1>16 DEF IndInv

-----------------------------------------------------------------------------
(* Calls on descriptors: one step per action *)

LEMMA LoadProgramStep ==
    ASSUME IndInv, NEW t \in Thread, LoadProgram(t)
    PROVE  IndInv'
<1> DEFINE r == [task[t] EXCEPT !.pc = "op"]
<1>0. t \in Actor /\ t \notin Process /\ Owner[t] \in Process /\ 1 \in Hand /\ 2 \in Hand
  BY OwnerAssumption, FdAssumption DEF Actor, Hand
<1>1. task[t] \in Task /\ hold[t] \in [Hand -> File \cup {None}] /\ CallFits(t, task[t], hold[t])
  BY <1>0 DEF IndInv, TypeOK, CallInv
<1>2. r \in Task /\ r.destroy = task[t].destroy /\ r.volume = task[t].volume
  BY <1>1 DEF LoadProgram, Task, CallFits
<1>3. CallFits(t, r, hold[t])
  BY <1>0, <1>1 DEF LoadProgram, Task, CallFits
<1>4. task' = [task EXCEPT ![t] = r] /\ UNCHANGED <<volume, file, files, hold>>
  BY DEF LoadProgram
<1>5. process' \in [Process -> {"free", "new", "live", "dead"}]
  BY <1>1 DEF LoadProgram, IndInv, TypeOK, Task, CallFits
<1> HIDE DEF r
<1> QED
  BY <1>0, <1>2, <1>3, <1>4, <1>5, QuietStep

LEMMA UseBeginStep ==
    ASSUME IndInv, NEW t \in Thread, UseBegin(t)
    PROVE  IndInv'
<1> DEFINE r == [task[t] EXCEPT !.pc = "get"]
<1>0. t \in Actor /\ t \notin Process /\ Owner[t] \in Process /\ 1 \in Hand /\ 2 \in Hand
  BY OwnerAssumption, FdAssumption DEF Actor, Hand
<1>1. task[t] \in Task /\ hold[t] \in [Hand -> File \cup {None}] /\ CallFits(t, task[t], hold[t])
  BY <1>0 DEF IndInv, TypeOK, CallInv
<1>2. r \in Task /\ r.destroy = task[t].destroy /\ r.volume = task[t].volume
  BY <1>1 DEF UseBegin, Task, CallFits, Calls
<1>3. CallFits(t, r, hold[t])
  BY <1>0, <1>1 DEF UseBegin, Task, CallFits, Calls
<1>4. task' = [task EXCEPT ![t] = r] /\ UNCHANGED <<volume, file, files, hold>>
  BY DEF UseBegin
<1>5. process' \in [Process -> {"free", "new", "live", "dead"}]
  BY <1>1 DEF UseBegin, IndInv, TypeOK, Task, CallFits
<1> HIDE DEF r
<1> QED
  BY <1>0, <1>2, <1>3, <1>4, <1>5, QuietStep

LEMMA UseFilesStep ==
    ASSUME IndInv, NEW t \in Thread, UseFiles(t)
    PROVE  IndInv'
<1> DEFINE r == [task[t] EXCEPT !.pc = "op"]
<1>0. t \in Actor /\ t \notin Process /\ Owner[t] \in Process /\ 1 \in Hand /\ 2 \in Hand
  BY OwnerAssumption, FdAssumption DEF Actor, Hand
<1>1. task[t] \in Task /\ hold[t] \in [Hand -> File \cup {None}] /\ CallFits(t, task[t], hold[t])
  BY <1>0 DEF IndInv, TypeOK, CallInv
<1>2. r \in Task /\ r.destroy = task[t].destroy /\ r.volume = task[t].volume
  BY <1>1 DEF UseFiles, Task, CallFits
<1>3. CallFits(t, r, hold[t])
  BY <1>0, <1>1 DEF UseFiles, Task, CallFits
<1>4. task' = [task EXCEPT ![t] = r] /\ UNCHANGED <<volume, file, files, hold>>
  BY DEF UseFiles
<1>5. process' \in [Process -> {"free", "new", "live", "dead"}]
  BY <1>1 DEF UseFiles, IndInv, TypeOK, Task, CallFits
<1> HIDE DEF r
<1> QED
  BY <1>0, <1>2, <1>3, <1>4, <1>5, QuietStep

LEMMA UseEndStep ==
    ASSUME IndInv, NEW t \in Thread, UseEnd(t)
    PROVE  IndInv'
<1> DEFINE r == [task[t] EXCEPT !.pc = "defer"]
<1>0. t \in Actor /\ t \notin Process /\ Owner[t] \in Process /\ 1 \in Hand /\ 2 \in Hand
  BY OwnerAssumption, FdAssumption DEF Actor, Hand
<1>1. task[t] \in Task /\ hold[t] \in [Hand -> File \cup {None}] /\ CallFits(t, task[t], hold[t])
  BY <1>0 DEF IndInv, TypeOK, CallInv
<1>2. r \in Task /\ r.destroy = task[t].destroy /\ r.volume = task[t].volume
  BY <1>1 DEF UseEnd, Task, CallFits
<1>3. CallFits(t, r, hold[t])
  BY <1>0, <1>1 DEF UseEnd, Task, CallFits
<1>4. task' = [task EXCEPT ![t] = r] /\ UNCHANGED <<volume, file, files, hold>>
  BY DEF UseEnd
<1>5. process' \in [Process -> {"free", "new", "live", "dead"}]
  BY <1>1 DEF UseEnd, IndInv, TypeOK, Task, CallFits
<1> HIDE DEF r
<1> QED
  BY <1>0, <1>2, <1>3, <1>4, <1>5, QuietStep

LEMMA SpawnStep ==
    ASSUME IndInv, NEW t \in Thread, NEW p \in Process, Spawn(t, p)
    PROVE  IndInv'
<1> DEFINE r == [task[t] EXCEPT !.pc = "spawn", !.child = p]
<1>0. t \in Actor /\ t \notin Process /\ Owner[t] \in Process /\ 1 \in Hand /\ 2 \in Hand
  BY OwnerAssumption, FdAssumption DEF Actor, Hand
<1>1. task[t] \in Task /\ hold[t] \in [Hand -> File \cup {None}] /\ CallFits(t, task[t], hold[t])
  BY <1>0 DEF IndInv, TypeOK, CallInv
<1>2. r \in Task /\ r.destroy = task[t].destroy /\ r.volume = task[t].volume
  BY <1>1, VfsNoneAssumption DEF Spawn, Task, CallFits, Calls
<1>3. CallFits(t, r, hold[t])
  BY <1>0, <1>1, VfsNoneAssumption DEF Spawn, Task, CallFits, Calls
<1>4. task' = [task EXCEPT ![t] = r] /\ UNCHANGED <<volume, file, files, hold>>
  BY DEF Spawn
<1>5. process' \in [Process -> {"free", "new", "live", "dead"}]
  BY <1>1 DEF Spawn, IndInv, TypeOK, Task, CallFits
<1> HIDE DEF r
<1> QED
  BY <1>0, <1>2, <1>3, <1>4, <1>5, QuietStep

LEMMA SpawnPushStep ==
    ASSUME IndInv, NEW t \in Thread, SpawnPush(t)
    PROVE  IndInv'
<1> DEFINE r == IdleTask
<1>0. t \in Actor /\ t \notin Process /\ Owner[t] \in Process /\ 1 \in Hand /\ 2 \in Hand
  BY OwnerAssumption, FdAssumption DEF Actor, Hand
<1>1. task[t] \in Task /\ hold[t] \in [Hand -> File \cup {None}] /\ CallFits(t, task[t], hold[t])
  BY <1>0 DEF IndInv, TypeOK, CallInv
<1>2. r \in Task /\ r.destroy = task[t].destroy /\ r.volume = task[t].volume
  BY <1>1, FdAssumption DEF SpawnPush, Task, CallFits, IdleTask, Fd
<1>3. CallFits(t, r, hold[t])
  BY <1>0, <1>1, FdAssumption DEF SpawnPush, Task, CallFits, IdleTask
<1>4. task' = [task EXCEPT ![t] = r] /\ UNCHANGED <<volume, file, files, hold>>
  BY DEF SpawnPush
<1>5. process' \in [Process -> {"free", "new", "live", "dead"}]
  BY <1>1 DEF SpawnPush, IndInv, TypeOK, Task, CallFits
<1> HIDE DEF r
<1> QED
  BY <1>0, <1>2, <1>3, <1>4, <1>5, QuietStep

LEMMA ReturnStep ==
    ASSUME IndInv, NEW t \in Thread, Return(t)
    PROVE  IndInv'
<1> DEFINE r == IF task[t].child = None THEN IdleTask ELSE [task[t] EXCEPT !.pc = "spawn"]
<1>0. t \in Actor /\ t \notin Process /\ Owner[t] \in Process /\ 1 \in Hand /\ 2 \in Hand
  BY OwnerAssumption, FdAssumption DEF Actor, Hand
<1>1. task[t] \in Task /\ hold[t] \in [Hand -> File \cup {None}] /\ CallFits(t, task[t], hold[t])
  BY <1>0 DEF IndInv, TypeOK, CallInv
<1>2. /\ r \in Task /\ r.destroy = task[t].destroy /\ r.volume = task[t].volume
      /\ CallFits(t, r, hold[t])
  <2>1. task[t].pc = "defer" /\ task[t].destroy = None /\ hold[t] = EmptyHands
    BY DEF Return
  <2>2. CASE task[t].child = None
    BY <1>0, <1>1, <2>1, <2>2, FdAssumption DEF Task, CallFits, IdleTask, Fd
  <2>3. CASE task[t].child # None
    BY <1>0, <1>1, <2>1, <2>3 DEF Task, CallFits
  <2> QED
    BY <2>2, <2>3
<1>3. /\ task' = [task EXCEPT ![t] = r] /\ UNCHANGED <<volume, file, files, hold>>
      /\ process' \in [Process -> {"free", "new", "live", "dead"}]
  BY DEF Return, IndInv, TypeOK
<1> HIDE DEF r
<1> QED
  BY <1>0, <1>2, <1>3, QuietStep

LEMMA InstallStep ==
    ASSUME IndInv, NEW t \in Thread, Install(t)
    PROVE  IndInv'
<1>0. t \in Actor /\ t \notin Process /\ Owner[t] \in Process /\ 1 \in Hand /\ 2 \in Hand
  BY OwnerAssumption, FdAssumption DEF Actor, Hand
<1>1. task[t] \in Task /\ hold[t] \in [Hand -> File \cup {None}] /\ CallFits(t, task[t], hold[t])
  BY <1>0 DEF IndInv, TypeOK, CallInv
<1>2. /\ task[t].pc = "install" /\ hold[t][1] \in File
      /\ task[t].pipe => hold[t][2] # None
  BY <1>0, <1>1 DEF Install, CallFits
<1>3. UNCHANGED <<volume, process, hold>>
  BY DEF Install
<1>4. CASE FreeFds(Owner[t]) = {}
  <2> DEFINE r == [task[t] EXCEPT !.pc = "defer"]
  <2>1. r \in Task /\ r.destroy = task[t].destroy /\ r.volume = task[t].volume
    BY <1>1 DEF Task
  <2>2. CallFits(t, r, hold[t])
    BY <1>0, <1>1, <1>2 DEF Task, CallFits
  <2>3. task' = [task EXCEPT ![t] = r] /\ UNCHANGED <<file, files>>
    BY <1>4 DEF Install
  <2>4. process' \in [Process -> {"free", "new", "live", "dead"}]
    BY <1>3 DEF IndInv, TypeOK
  <2> HIDE DEF r
  <2> QED
    BY <1>0, <1>3, <2>1, <2>2, <2>3, <2>4, QuietStep
<1>5. CASE FreeFds(Owner[t]) # {}
  <2> SUFFICES ASSUME NEW d, d = Min(FreeFds(Owner[t])) PROVE IndInv'
    OBVIOUS
  <2>0. d \in Fd /\ files[Owner[t]][d] = None
    BY <1>0, <1>5, FirstFd
  <2> DEFINE r == [task[t] EXCEPT !.pc = IF task[t].pipe THEN "second" ELSE "defer", !.fd = d]
  <2>1. /\ r \in Task /\ r.destroy = task[t].destroy /\ r.volume = task[t].volume
        /\ r.pc = (IF task[t].pipe THEN "second" ELSE "defer")
    BY <1>1, <2>0, ZenonT(30) DEF Task
  <2>2. CallFits(t, r, hold[t])
    BY <1>0, <1>1, <1>2, <2>1 DEF CallFits
  <2>3. /\ task' = [task EXCEPT ![t] = r]
        /\ files' = [files EXCEPT ![Owner[t]][d] = hold[t][1]] /\ file' = FileRef(hold[t][1])
    BY <1>5 DEF Install
  <2> HIDE DEF r
  <2>4. PICK i \in Hand : i = 1
    BY <1>0
  <2>5. PICK f \in File : f = hold[t][i]
    BY <1>2, <2>4
  <2>6. files' = [files EXCEPT ![Owner[t]][d] = f] /\ file' = FileRef(f)
    BY <2>3, <2>4, <2>5
  <2> QED
    BY <1>0, <1>3, <2>0, <2>1, <2>2, <2>3, <2>5, <2>6, CopyToFd
<1> QED
  BY <1>4, <1>5

LEMMA InstallSecondStep ==
    ASSUME IndInv, NEW t \in Thread, InstallSecond(t)
    PROVE  IndInv'
<1>0. t \in Actor /\ t \notin Process /\ Owner[t] \in Process /\ 1 \in Hand /\ 2 \in Hand
  BY OwnerAssumption, FdAssumption DEF Actor, Hand
<1>1. task[t] \in Task /\ hold[t] \in [Hand -> File \cup {None}] /\ CallFits(t, task[t], hold[t])
  BY <1>0 DEF IndInv, TypeOK, CallInv
<1>2. task[t].pc = "second" /\ hold[t][2] \in File
  BY <1>0, <1>1 DEF InstallSecond, CallFits
<1>3. UNCHANGED <<volume, process, hold>>
  BY DEF InstallSecond
<1>4. CASE FreeFds(Owner[t]) = {}
  <2> DEFINE r == [task[t] EXCEPT !.pc = "rollback"]
  <2>1. r \in Task /\ r.destroy = task[t].destroy /\ r.volume = task[t].volume
    BY <1>1 DEF Task
  <2>2. CallFits(t, r, hold[t])
    BY <1>0, <1>1, <1>2 DEF Task, CallFits
  <2>3. task' = [task EXCEPT ![t] = r] /\ UNCHANGED <<file, files>>
    BY <1>4 DEF InstallSecond
  <2>4. process' \in [Process -> {"free", "new", "live", "dead"}]
    BY <1>3 DEF IndInv, TypeOK
  <2> HIDE DEF r
  <2> QED
    BY <1>0, <1>3, <2>1, <2>2, <2>3, <2>4, QuietStep
<1>5. CASE FreeFds(Owner[t]) # {}
  <2> SUFFICES ASSUME NEW d, d = Min(FreeFds(Owner[t])) PROVE IndInv'
    OBVIOUS
  <2>0. d \in Fd /\ files[Owner[t]][d] = None
    BY <1>0, <1>5, FirstFd
  <2> DEFINE r == [task[t] EXCEPT !.pc = "defer"]
  <2>1. r \in Task /\ r.destroy = task[t].destroy /\ r.volume = task[t].volume /\ r.pc = "defer"
    BY <1>1 DEF Task
  <2>2. CallFits(t, r, hold[t])
    BY <1>0, <1>1, <1>2, <2>1 DEF CallFits
  <2>3. /\ task' = [task EXCEPT ![t] = r]
        /\ files' = [files EXCEPT ![Owner[t]][d] = hold[t][2]] /\ file' = FileRef(hold[t][2])
    BY <1>5 DEF InstallSecond
  <2> HIDE DEF r
  <2>4. PICK i \in Hand : i = 2
    BY <1>0
  <2>5. PICK f \in File : f = hold[t][i]
    BY <1>2, <2>4
  <2>6. files' = [files EXCEPT ![Owner[t]][d] = f] /\ file' = FileRef(f)
    BY <2>3, <2>4, <2>5
  <2> QED
    BY <1>0, <1>3, <2>0, <2>1, <2>2, <2>3, <2>5, <2>6, CopyToFd
<1> QED
  BY <1>4, <1>5

\* vfs_context_close, of syscall_close and of a pipe that is rolled back
LEMMA CloseFdStep ==
    ASSUME IndInv, NEW t \in Thread, NEW d \in Fd, task[t].pc \in {"user", "rollback"},
           files[Owner[t]][d] # None, CloseFd(t, d), UNCHANGED <<volume, process, hold>>
    PROVE  IndInv'
<1>0. t \in Actor /\ t \notin Process /\ Owner[t] \in Process /\ 1 \in Hand /\ 2 \in Hand
  BY OwnerAssumption, FdAssumption DEF Actor, Hand
<1>1. task[t] \in Task /\ hold[t] \in [Hand -> File \cup {None}] /\ CallFits(t, task[t], hold[t])
  BY <1>0 DEF IndInv, TypeOK, CallInv
<1>2. files[Owner[t]][d] \in File
  BY <1>0 DEF IndInv, TypeOK
<1> SUFFICES ASSUME NEW f \in File, f = files[Owner[t]][d] PROVE IndInv'
  BY <1>2
<1> DEFINE r == [task[t] EXCEPT !.pc = "defer", !.destroy = Doomed(f), !.locked = Doomed(f) # None]
<1>3. /\ r \in Task /\ r.destroy = Doomed(f) /\ r.volume = task[t].volume /\ r.pc = "defer"
      /\ task[t].destroy = None
  BY <1>1 DEF Task, Doomed, CallFits
<1>4. CallFits(t, r, hold[t])
  BY <1>0, <1>1, <1>3 DEF CallFits
<1>5. /\ task' = [task EXCEPT ![t] = r]
      /\ files' = [files EXCEPT ![Owner[t]][d] = None] /\ file' = Deref(f)
  BY DEF CloseFd
<1> HIDE DEF r
<1> QED
  BY <1>0, <1>3, <1>4, <1>5, DropFd

LEMMA RollbackStep ==
    ASSUME IndInv, NEW t \in Thread, Rollback(t)
    PROVE  IndInv'
<1>0. t \in Actor /\ t \notin Process /\ Owner[t] \in Process /\ 1 \in Hand /\ 2 \in Hand
  BY OwnerAssumption, FdAssumption DEF Actor, Hand
<1>1. task[t] \in Task /\ hold[t] \in [Hand -> File \cup {None}] /\ CallFits(t, task[t], hold[t])
  BY <1>0 DEF IndInv, TypeOK, CallInv
<1>2. task[t].fd \in Fd /\ task[t].pc = "rollback" /\ UNCHANGED <<volume, process, hold>>
  BY <1>1 DEF Rollback, Task
<1>3. CASE files[Owner[t]][task[t].fd] = None
  <2> DEFINE r == [task[t] EXCEPT !.pc = "defer"]
  <2>1. r \in Task /\ r.destroy = task[t].destroy /\ r.volume = task[t].volume
    BY <1>1 DEF Task
  <2>2. CallFits(t, r, hold[t])
    BY <1>0, <1>1, <1>2 DEF Task, CallFits
  <2>3. task' = [task EXCEPT ![t] = r] /\ UNCHANGED <<file, files>>
    BY <1>3 DEF Rollback
  <2>4. process' \in [Process -> {"free", "new", "live", "dead"}]
    BY <1>2 DEF IndInv, TypeOK
  <2> HIDE DEF r
  <2> QED
    BY <1>0, <1>2, <2>1, <2>2, <2>3, <2>4, QuietStep
<1>4. CASE files[Owner[t]][task[t].fd] # None
  BY <1>2, <1>4, CloseFdStep DEF Rollback
<1> QED
  BY <1>3, <1>4

LEMMA CloseStep ==
    ASSUME IndInv, NEW t \in Thread, NEW d \in Fd, Close(t, d)
    PROVE  IndInv'
BY CloseFdStep DEF Close, Calls

LEMMA GetStep ==
    ASSUME IndInv, NEW t \in Thread, NEW i \in Hand, NEW d \in Fd, Get(t, i, d)
    PROVE  IndInv'
<1>0. t \in Actor /\ t \notin Process /\ Owner[t] \in Process /\ 1 \in Hand /\ 2 \in Hand
  BY OwnerAssumption, FdAssumption DEF Actor, Hand
<1>1. task[t] \in Task /\ hold[t] \in [Hand -> File \cup {None}] /\ CallFits(t, task[t], hold[t])
  BY <1>0 DEF IndInv, TypeOK, CallInv
<1>2. task[t].pc = "get" /\ hold[t][i] = None /\ UNCHANGED <<volume, files, process>>
  BY DEF Get
<1>3. CASE files[Owner[t]][d] = None
  <2> DEFINE r == [task[t] EXCEPT !.pc = "defer"]
  <2>1. r \in Task /\ r.destroy = task[t].destroy /\ r.volume = task[t].volume
    BY <1>1 DEF Task
  <2>2. CallFits(t, r, hold[t])
    BY <1>0, <1>1, <1>2 DEF Task, CallFits
  <2>3. task' = [task EXCEPT ![t] = r] /\ UNCHANGED <<file, hold>>
    BY <1>3 DEF Get
  <2>4. process' \in [Process -> {"free", "new", "live", "dead"}]
    BY <1>2 DEF IndInv, TypeOK
  <2> HIDE DEF r
  <2> QED
    BY <1>0, <1>2, <2>1, <2>2, <2>3, <2>4, QuietStep
<1>4. CASE files[Owner[t]][d] # None
  <2>1. files[Owner[t]][d] \in File
    BY <1>0, <1>4 DEF IndInv, TypeOK
  <2> SUFFICES ASSUME NEW f \in File, f = files[Owner[t]][d] PROVE IndInv'
    BY <2>1
  <2>2. /\ task' = [task EXCEPT ![t] = task[t]]
        /\ hold' = [hold EXCEPT ![t][i] = f] /\ file' = FileRef(f)
    BY <1>0, <1>4 DEF Get, IndInv, TypeOK
  <2>3. CallFits(t, task[t], [hold[t] EXCEPT ![i] = f])
    BY <1>0, <1>1, <1>2 DEF CallFits
  <2> QED
    BY <1>0, <1>1, <1>2, <2>2, <2>3, CopyToHand
<1> QED
  BY <1>3, <1>4

-----------------------------------------------------------------------------
(* Processes: one step per action *)

LEMMA SpawnGetStep ==
    ASSUME IndInv, NEW t \in Thread, NEW d \in Fd, SpawnGet(t, d)
    PROVE  IndInv'
<1>0. t \in Actor /\ t \notin Process /\ Owner[t] \in Process /\ 1 \in Hand /\ 2 \in Hand
  BY OwnerAssumption, FdAssumption DEF Actor, Hand
<1>1. task[t] \in Task /\ hold[t] \in [Hand -> File \cup {None}] /\ CallFits(t, task[t], hold[t])
  BY <1>0 DEF IndInv, TypeOK, CallInv
<1>2. /\ task[t].pc = "spawn" /\ task[t].child # None /\ hold[t][1] = None
      /\ UNCHANGED <<volume, files, process>>
  BY <1>0, <1>1 DEF SpawnGet, CallFits, EmptyHands
<1>3. CASE files[Owner[t]][d] = None
  <2> DEFINE r == [task[t] EXCEPT !.pc = "cleanup"]
  <2>1. /\ r \in Task /\ r.destroy = task[t].destroy /\ r.volume = task[t].volume
        /\ r.pc = "cleanup" /\ r.child = task[t].child
    BY <1>1 DEF Task
  <2>2. CallFits(t, r, hold[t])
    BY <1>0, <1>1, <1>2, <2>1 DEF CallFits
  <2>3. task' = [task EXCEPT ![t] = r] /\ UNCHANGED <<file, hold>>
    BY <1>3 DEF SpawnGet, SpawnFails
  <2>4. process' \in [Process -> {"free", "new", "live", "dead"}]
    BY <1>2 DEF IndInv, TypeOK
  <2> HIDE DEF r
  <2> QED
    BY <1>0, <1>2, <2>1, <2>2, <2>3, <2>4, QuietStep
<1>4. CASE files[Owner[t]][d] # None
  <2>1. files[Owner[t]][d] \in File
    BY <1>0, <1>4 DEF IndInv, TypeOK
  <2> SUFFICES ASSUME NEW f \in File, f = files[Owner[t]][d] PROVE IndInv'
    BY <2>1
  <2> DEFINE r == [task[t] EXCEPT !.pc = "give"]
             h == [hold[t] EXCEPT ![1] = f]
  <2>2. /\ task' = [task EXCEPT ![t] = r]
        /\ hold' = [hold EXCEPT ![t][1] = f] /\ file' = FileRef(f)
    BY <1>4 DEF SpawnGet
  <2>3. /\ r \in Task /\ r.destroy = task[t].destroy /\ r.volume = task[t].volume
        /\ r.pc = "give" /\ r.child = task[t].child
    BY <1>1 DEF Task
  <2>4. f # None /\ h[1] = f
    BY <1>0, <1>1, VfsNoneAssumption
  <2>5. CallFits(t, r, h)
    BY <1>0, <1>1, <1>2, <2>3, <2>4 DEF CallFits
  <2> HIDE DEF r
  <2>6. PICK i \in Hand : i = 1
    BY <1>0
  <2>7. /\ CallFits(t, r, [hold[t] EXCEPT ![i] = f]) /\ hold[t][i] = None
        /\ hold' = [hold EXCEPT ![t][i] = f]
    BY <1>2, <2>2, <2>5, <2>6
  <2> HIDE DEF h
  <2> QED
    BY <1>0, <1>2, <2>2, <2>3, <2>7, CopyToHand
<1> QED
  BY <1>3, <1>4

LEMMA SpawnGiveStep ==
    ASSUME IndInv, NEW t \in Thread, NEW d \in Fd, SpawnGive(t, d)
    PROVE  IndInv'
<1>0. t \in Actor /\ t \notin Process /\ Owner[t] \in Process /\ 1 \in Hand /\ 2 \in Hand
  BY OwnerAssumption, FdAssumption DEF Actor, Hand
<1>1. task[t] \in Task /\ hold[t] \in [Hand -> File \cup {None}] /\ CallFits(t, task[t], hold[t])
  BY <1>0 DEF IndInv, TypeOK, CallInv
<1>2. /\ task[t].pc = "give" /\ task[t].child \in Process /\ hold[t][1] \in File
      /\ UNCHANGED <<volume, process, hold>>
  BY <1>0, <1>1 DEF SpawnGive, CallFits, Task
<1> SUFFICES ASSUME NEW p \in Process, p = task[t].child PROVE IndInv'
  BY <1>2
<1>3. CASE files[p][d] # None
  <2> DEFINE r == [task[t] EXCEPT !.pc = "cleanup"]
  <2>1. /\ r \in Task /\ r.destroy = task[t].destroy /\ r.volume = task[t].volume
        /\ r.pc = "cleanup" /\ r.child = task[t].child
    BY <1>1 DEF Task
  <2>2. CallFits(t, r, hold[t])
    BY <1>0, <1>1, <1>2, <2>1 DEF CallFits
  <2>3. task' = [task EXCEPT ![t] = r] /\ UNCHANGED <<file, files>>
    BY <1>3 DEF SpawnGive, SpawnFails
  <2>4. process' \in [Process -> {"free", "new", "live", "dead"}]
    BY <1>2 DEF IndInv, TypeOK
  <2> HIDE DEF r
  <2> QED
    BY <1>0, <1>2, <2>1, <2>2, <2>3, <2>4, QuietStep
<1>4. CASE files[p][d] = None
  <2> DEFINE r == [task[t] EXCEPT !.pc = "defer"]
  <2>1. r \in Task /\ r.destroy = task[t].destroy /\ r.volume = task[t].volume /\ r.pc = "defer"
    BY <1>1 DEF Task
  <2>2. CallFits(t, r, hold[t])
    BY <1>0, <1>1, <1>2, <2>1 DEF CallFits
  <2>3. /\ task' = [task EXCEPT ![t] = r]
        /\ files' = [files EXCEPT ![p][d] = hold[t][1]] /\ file' = FileRef(hold[t][1])
    BY <1>4 DEF SpawnGive
  <2> HIDE DEF r
  <2>4. PICK i \in Hand : i = 1
    BY <1>0
  <2>5. PICK f \in File : f = hold[t][i]
    BY <1>2, <2>4
  <2>6. files' = [files EXCEPT ![p][d] = f] /\ file' = FileRef(f)
    BY <2>3, <2>4, <2>5
  <2> QED
    BY <1>0, <1>2, <1>4, <2>1, <2>2, <2>3, <2>5, <2>6, CopyToFd
<1> QED
  BY <1>3, <1>4

LEMMA ExitStep ==
    ASSUME IndInv, NEW p \in Process, Exit(p)
    PROVE  IndInv'
<1> DEFINE r == [task[p] EXCEPT !.pc = "cleanup", !.child = p]
<1>0. p \in Actor /\ p # None
  BY VfsNoneAssumption DEF Actor
<1>1. task[p] \in Task /\ CallFits(p, task[p], hold[p])
  BY <1>0 DEF IndInv, TypeOK, CallInv
<1>2. /\ r \in Task /\ r.destroy = task[p].destroy /\ r.volume = task[p].volume
      /\ r.pc = "cleanup" /\ r.child = p
  BY <1>1 DEF Task
<1>3. CallFits(p, r, hold[p])
  BY <1>0, <1>1, <1>2 DEF CallFits
<1>4. /\ task' = [task EXCEPT ![p] = r] /\ UNCHANGED <<volume, file, files, hold>>
      /\ process' \in [Process -> {"free", "new", "live", "dead"}]
  BY DEF Exit, IndInv, TypeOK
<1> HIDE DEF r
<1> QED
  BY <1>0, <1>2, <1>3, <1>4, QuietStep

LEMMA CleanupFdStep ==
    ASSUME IndInv, NEW a \in Actor, NEW d \in Fd, CleanupFd(a, d)
    PROVE  IndInv'
<1>1. task[a] \in Task /\ CallFits(a, task[a], hold[a])
  BY DEF IndInv, TypeOK, CallInv
<1>2. /\ task[a].pc = "cleanup" /\ task[a].destroy = None /\ task[a].child \in Process
      /\ UNCHANGED <<volume, process, hold>>
  BY <1>1 DEF CleanupFd, CallFits, Task
<1> SUFFICES ASSUME NEW p \in Process, p = task[a].child PROVE IndInv'
  BY <1>2
<1>3. files[p][d] \in File
  BY DEF CleanupFd, IndInv, TypeOK
<1> SUFFICES ASSUME NEW f \in File, f = files[p][d] PROVE IndInv'
  BY <1>3
<1> DEFINE r == [task[a] EXCEPT !.destroy = Doomed(f)]
<1>4. /\ r \in Task /\ r.destroy = Doomed(f) /\ r.volume = task[a].volume
      /\ r.pc = "cleanup" /\ r.child = task[a].child
  BY <1>1, <1>2 DEF Task, Doomed
<1>5. CallFits(a, r, hold[a])
  BY <1>1, <1>2, <1>4 DEF CallFits
<1>6. /\ task' = [task EXCEPT ![a] = r]
      /\ files' = [files EXCEPT ![p][d] = None] /\ file' = Deref(f)
  BY DEF CleanupFd
<1> HIDE DEF r
<1> QED
  BY <1>2, <1>4, <1>5, <1>6, DropFd

LEMMA ProcessFreeStep ==
    ASSUME IndInv, NEW a \in Actor, ProcessFree(a)
    PROVE  IndInv'
<1> DEFINE r == [IdleTask EXCEPT !.pc = IF a \in Thread THEN "defer" ELSE "user"]
<1>1. task[a] \in Task /\ CallFits(a, task[a], hold[a])
  BY DEF IndInv, TypeOK, CallInv
<1>2. task[a].pc = "cleanup" /\ task[a].destroy = None /\ task[a].volume = None
  BY <1>1 DEF ProcessFree, CallFits
<1>3. /\ r \in Task /\ r.destroy = None /\ r.volume = None /\ r.pipe = FALSE
      /\ r.pc = (IF a \in Thread THEN "defer" ELSE "user")
  <2>1. IdleTask \in Task /\ IdleTask.destroy = None /\ IdleTask.volume = None /\ ~IdleTask.pipe
    BY FdAssumption DEF Task, IdleTask, Fd
  <2>2. CASE a \in Thread
    BY <2>1, <2>2 DEF Task
  <2>3. CASE a \notin Thread
    BY <2>1, <2>3 DEF Task
  <2> QED
    BY <2>2, <2>3
<1>4. CallFits(a, r, hold[a])
  BY <1>1, <1>2, <1>3, OwnerAssumption DEF CallFits, Actor
<1>5. /\ task' = [task EXCEPT ![a] = r] /\ UNCHANGED <<volume, file, files, hold>>
      /\ process' \in [Process -> {"free", "new", "live", "dead"}]
  BY DEF ProcessFree, IndInv, TypeOK
<1> HIDE DEF r
<1> QED
  BY <1>2, <1>3, <1>4, <1>5, QuietStep

-----------------------------------------------------------------------------
(* The theorem *)

LEMMA InitInv == Init => IndInv
<1> SUFFICES ASSUME Init PROVE IndInv
  OBVIOUS
<1> USE DEF Init
<1>0. \A f \in File : f # None
  BY VfsNoneAssumption
<1>1. TypeOK
  <2>1. IdleTask \in Task
    BY FdAssumption DEF IdleTask, Task, Fd
  <2>2. EmptyHands \in [Hand -> File \cup {None}]
    BY DEF EmptyHands
  <2>3. volume \in [Volume -> VolumeRecord] /\ file \in [File -> FileRecord]
    BY DEF VolumeRecord, FileRecord, FreeFile
  <2>4. files \in [Process -> [Fd -> File \cup {None}]]
    OBVIOUS
  <2>5. process \in [Process -> {"free", "new", "live", "dead"}]
    OBVIOUS
  <2> QED
    BY <2>1, <2>2, <2>3, <2>4, <2>5 DEF TypeOK
<1>2. CallInv
  BY DEF CallInv, CallFits, IdleTask
<1>3. ASSUME NEW f \in File PROVE References(f) = {} /\ Destroyers(f) = {}
  BY <1>0 DEF References, Destroyers, IdleTask, EmptyHands
<1>4. FileInv
  <2>1. Cardinality({}) = 0
    BY FS_EmptySet
  <2> QED
    BY <1>3, <2>1 DEF FileInv, FileOk, FreeFile
<1>5. VolumeRefs
  <2>1. ASSUME NEW v \in Volume PROVE VolumeUsers(v) = {} /\ ~volume[v].attached
    BY VfsNoneAssumption DEF VolumeUsers, FreeFile, IdleTask
  <2> QED
    BY <2>1 DEF VolumeRefs
<1> QED
  BY <1>1, <1>2, <1>4, <1>5 DEF IndInv

LEMMA StutterInv == IndInv /\ UNCHANGED vars => IndInv'
<1> SUFFICES ASSUME IndInv, UNCHANGED vars PROVE IndInv'
  OBVIOUS
<1>1. UNCHANGED <<volume, file, files, process, task, hold>>
  BY DEF vars
<1>2. TypeOK' /\ CallInv'
  BY <1>1 DEF IndInv, TypeOK, CallInv, CallFits, EmptyHands
<1>3. FileInv'
  BY <1>1, FilesStay DEF IndInv
<1>4. VolumeRefs'
  BY <1>1, VolumesStay DEF IndInv, SameFiles
<1> QED
  BY <1>2, <1>3, <1>4 DEF IndInv

LEMMA ContinueInv ==
    ASSUME IndInv, NEW a \in Actor, Continue(a)
    PROVE  IndInv'
BY VolumeDoneStep, OpenFileStep, DropHandStep, DestroyStep, CleanupFdStep, ProcessFreeStep
   DEF Continue

LEMMA ThreadInv ==
    ASSUME IndInv, NEW t \in Thread, BeginCall(t) \/ Argument(t) \/ ContinueCall(t)
    PROVE  IndInv'
<1>0. t \in Actor
  BY DEF Actor
<1>1. CASE BeginCall(t)
  BY <1>1, VolumeGetStep, PipeInitStep, CloseStep, UseBeginStep, SpawnStep DEF BeginCall
<1>2. CASE Argument(t)
  BY <1>2, GetStep, UseFilesStep, SpawnGetStep, SpawnPushStep DEF Argument
<1>3. CASE ContinueCall(t)
  BY <1>0, <1>3, ContinueInv, InstallStep, InstallSecondStep, RollbackStep, LoadProgramStep,
     SpawnGiveStep, UseEndStep, ReturnStep DEF ContinueCall
<1> QED
  BY <1>1, <1>2, <1>3

LEMMA NextInv == IndInv /\ [Next]_vars => IndInv'
<1> SUFFICES ASSUME IndInv, [Next]_vars PROVE IndInv'
  OBVIOUS
<1>1. CASE UNCHANGED vars
  BY <1>1, StutterInv
<1>2. ASSUME NEW v \in Volume, Attach(v) \/ Unmount(v) PROVE IndInv'
  BY <1>2, AttachStep, UnmountStep
<1>3. ASSUME NEW t \in Thread, BeginCall(t) \/ Argument(t) \/ ContinueCall(t) PROVE IndInv'
  BY <1>3, ThreadInv
<1>4. ASSUME NEW p \in Process, Exit(p) \/ Continue(p) PROVE IndInv'
  <2>1. p \in Actor
    BY DEF Actor
  <2> QED
    BY <1>4, <2>1, ExitStep, ContinueInv
<1> QED
  BY <1>1, <1>2, <1>3, <1>4 DEF Next

LEMMA InvExact == IndInv => RefsExact
<1> SUFFICES ASSUME IndInv PROVE RefsExact
  OBVIOUS
<1>1. ASSUME NEW f \in File PROVE FileOk(f, References(f), Destroyers(f))
  BY DEF IndInv, FileInv
<1>2. FileRefs
  BY <1>1 DEF FileRefs, FileOk
<1>3. DestroyedOnce
  <2>1. ASSUME NEW a \in Actor, NEW b \in Actor, task[a].destroy = task[b].destroy,
               task[a].destroy # None
        PROVE  a = b
    <3>1. task[a].destroy \in File
      BY <2>1 DEF IndInv, TypeOK, Task
    <3>2. a \in Destroyers(task[a].destroy) /\ b \in Destroyers(task[a].destroy)
      BY <2>1 DEF Destroyers
    <3> QED
      BY <1>1, <3>1, <3>2 DEF FileOk
  <2>2. ASSUME NEW f \in File
        PROVE  file[f].live <=> \/ References(f) # {}
                                \/ \E a \in Actor : task[a].destroy = f
    <3>1. Destroyers(f) # {} <=> \E a \in Actor : task[a].destroy = f
      BY DEF Destroyers
    <3> QED
      BY <1>1, <3>1 DEF FileOk
  <2> QED
    BY <2>1, <2>2 DEF DestroyedOnce
<1> QED
  BY <1>2, <1>3 DEF IndInv, RefsExact

(***************************************************************************)
(* The reference counts of vfs.c are exact in every state: of a file, over *)
(* all descriptor tables and all calls in progress, and of a volume, over  *)
(* its files and the calls in its file system; so a file is destroyed once *)
(* and by the call that drops its last reference, and no volume is         *)
(* unmounted under a file.  For any number of processes, threads, files,   *)
(* descriptors and volumes.                                                *)
(***************************************************************************)
THEOREM VfsRefsExact == Spec => []RefsExact
<1>1. Init => IndInv
  BY InitInv
<1>2. IndInv /\ [Next]_vars => IndInv'
  BY NextInv
<1>3. IndInv => RefsExact
  BY InvExact
<1> QED
  BY <1>1, <1>2, <1>3, PTL DEF Spec

-----------------------------------------------------------------------------
(* The working directory *)

\* What vfs_chdir in walker t has established, if no other vfs_chdir took effect
\* meanwhile: until vfs_stat, that the path still means what was parsed, and
\* after it that this is a directory.
ChdirSure(t) ==
    /\ walk[t].pc = "stat" => walk[t].parsed = ParsePath(walk[t].path)
    /\ walk[t].pc = "store" => Traverse(walk[t].parsed) = "dir"

NamesInv ==
    /\ walk = [t \in Walker |-> walk[t]]
    /\ \A t \in Walker : t \notin crossed => ChdirSure(t)

\* Nothing has been parsed yet.
LEMMA NamesInitInv == NamesInit => NamesInv
BY DEF NamesInit, NamesInv, ChdirSure, AtRest

\* A walker whose locals, the working directory and the tree stay as they are
\* is as sure as before.
LEMMA StaysSure ==
    ASSUME NEW t \in Walker, ChdirSure(t), walk'[t] = walk[t], cwd' = cwd, tree' = tree
    PROVE  ChdirSure(t)'
BY DEF ChdirSure, ParsePath, ParseBase, Traverse, Node

\* Every step keeps the walkers sure.
LEMMA NamesNextInv == NamesInv /\ [NamesNext]_namesVars => NamesInv'
<1> SUFFICES ASSUME NamesInv, [NamesNext]_namesVars PROVE NamesInv'
  OBVIOUS
<1>0. walk = [t \in Walker |-> walk[t]] /\ \A t \in Walker : t \notin crossed => ChdirSure(t)
  BY DEF NamesInv
<1>1. ASSUME NEW t \in Walker, NEW path, NEW next \in {"stat", "return"}, Parse(t, path, next)
      PROVE  NamesInv'
  <2> DEFINE r == [pc |-> IF ParsePath(path) = ERR THEN "return" ELSE next,
                   path |-> path, base |-> ParseBase(path), parsed |-> ParsePath(path)]
  <2>1. walk' = [walk EXCEPT ![t] = r] /\ cwd' = cwd /\ tree' = tree /\ crossed' = crossed \ {t}
    BY <1>1 DEF Parse
  <2>2. r.parsed = ParsePath(r.path) /\ r.pc # "store"
    OBVIOUS
  <2> HIDE DEF r
  <2>3. /\ walk' = [u \in Walker |-> walk'[u]] /\ walk'[t] = r
        /\ \A u \in Walker : u # t => walk'[u] = walk[u]
    BY <1>0, <2>1
  <2>4. ChdirSure(t)'
    BY <2>1, <2>2, <2>3 DEF ChdirSure, ParsePath, ParseBase
  <2>5. ASSUME NEW u \in Walker, u \notin crossed', u # t PROVE ChdirSure(u)'
    BY <1>0, <2>1, <2>3, <2>5, StaysSure
  <2> QED
    BY <2>3, <2>4, <2>5 DEF NamesInv
<1>2. ASSUME NEW t \in Walker, ChdirStat(t) PROVE NamesInv'
  <2> DEFINE found == ParsePath(walk[t].path)
             kept == [walk[t] EXCEPT !.pc = "store"]
  <2>1. /\ walk[t].pc = "stat" /\ cwd' = cwd /\ tree' = tree /\ crossed' = crossed
        /\ \/ Traverse(found) = "dir" /\ walk' = [walk EXCEPT ![t] = kept]
           \/ walk' = [walk EXCEPT ![t] = AtRest]
    BY <1>2 DEF ChdirStat, WalkReturn
  <2>2. PICK r : walk' = [walk EXCEPT ![t] = r] /\ (r = AtRest \/ (r = kept /\ Traverse(found) = "dir"))
    BY <2>1
  <2>3. /\ walk' = [u \in Walker |-> walk'[u]] /\ walk'[t] = r
        /\ \A u \in Walker : u # t => walk'[u] = walk[u]
    BY <1>0, <2>2
  <2>4. ASSUME t \notin crossed PROVE ChdirSure(t)'
    <3>1. walk[t].parsed = found
      BY <1>0, <2>1, <2>4 DEF ChdirSure
    <3>2. CASE r = AtRest
      BY <2>3, <3>2 DEF ChdirSure, AtRest
    <3>3. CASE r = kept /\ Traverse(found) = "dir"
      <4>1. kept.parsed = walk[t].parsed /\ kept.pc \in {"store", walk[t].pc}
        OBVIOUS
      <4>2. Traverse(walk'[t].parsed) = "dir"
        BY <2>3, <3>1, <3>3
      <4> QED
        BY <2>1, <2>3, <3>3, <4>1, <4>2 DEF ChdirSure, Traverse, Node
    <3> QED
      BY <2>2, <3>2, <3>3
  <2>5. ASSUME NEW u \in Walker, u \notin crossed', u # t PROVE ChdirSure(u)'
    BY <1>0, <2>1, <2>3, <2>5, StaysSure
  <2> QED
    BY <2>1, <2>3, <2>4, <2>5 DEF NamesInv
<1>3. ASSUME NEW t \in Walker, WalkReturn(t), tree' = tree,
             \A u \in Walker : u # t /\ u \notin crossed' =>
                 u \notin crossed /\ (cwd' = cwd \/ walk[u].pc \notin {"stat", "store"})
      PROVE  NamesInv'
  <2>1. /\ walk' = [u \in Walker |-> walk'[u]] /\ walk'[t] = AtRest
        /\ \A u \in Walker : u # t => walk'[u] = walk[u]
    BY <1>0, <1>3 DEF WalkReturn
  <2>2. ChdirSure(t)'
    BY <2>1 DEF ChdirSure, AtRest
  <2>3. ASSUME NEW u \in Walker, u \notin crossed', u # t PROVE ChdirSure(u)'
    <3>1. CASE cwd' = cwd
      BY <1>0, <1>3, <2>1, <2>3, <3>1, StaysSure
    <3>2. CASE walk[u].pc \notin {"stat", "store"}
      BY <2>1, <2>3, <3>2 DEF ChdirSure
    <3> QED
      BY <1>3, <2>3, <3>1, <3>2
  <2> QED
    BY <2>1, <2>2, <2>3 DEF NamesInv
<1>4. ASSUME NEW t \in Walker, ChdirStore(t) PROVE NamesInv'
  BY <1>3, <1>4 DEF ChdirStore
<1>5. ASSUME NEW t \in Walker, ParseReturn(t) PROVE NamesInv'
  BY <1>3, <1>5 DEF ParseReturn
<1>6. ASSUME NEW e \in Exposed, SysfsExpose(e) PROVE NamesInv'
  <2>1. /\ cwd' = cwd /\ walk' = walk /\ crossed' = crossed
        /\ \A n \in DOMAIN tree : n \in DOMAIN tree' /\ tree'[n] = tree[n]
    BY <1>6 DEF SysfsExpose
  <2>2. ASSUME NEW p, Traverse(p) = "dir" PROVE Traverse(p)' = "dir"
    BY <2>1, <2>2 DEF Traverse, Node
  <2>3. ASSUME NEW u \in Walker, ChdirSure(u) PROVE ChdirSure(u)'
    BY <2>1, <2>2, <2>3 DEF ChdirSure, ParsePath, ParseBase
  <2> QED
    BY <1>0, <2>1, <2>3 DEF NamesInv
<1>7. CASE UNCHANGED namesVars
  BY <1>0, <1>7, StaysSure DEF NamesInv, namesVars
<1> QED
  BY <1>1, <1>2, <1>4, <1>5, <1>6, <1>7 DEF NamesNext, Chdir, Realpath

(***************************************************************************)
(* CwdIsDirectory for any number of walkers, volumes, paths and exposed    *)
(* resources: vfs_chdir, which parses its path once for itself and once    *)
(* in vfs_stat, stores a directory that exists unless another vfs_chdir of *)
(* the process took effect meanwhile.                                      *)
(***************************************************************************)
THEOREM ChdirStoresDirectory == NamesSpec => CwdIsDirectory
<1>1. NamesInv /\ [NamesNext]_namesVars =>
        [cwd' # cwd => \A t \in Walker \ crossed :
            walk[t].pc = "store" /\ walk'[t].pc = "idle" => Traverse(cwd') = "dir"]_namesVars
  <2> SUFFICES ASSUME NamesInv, NamesNext, cwd' # cwd, NEW t \in Walker \ crossed,
                      walk[t].pc = "store", walk'[t].pc = "idle"
               PROVE  Traverse(cwd') = "dir"
    BY DEF namesVars
  <2>1. PICK u \in Walker : ChdirStore(u)
    BY DEF NamesNext, Chdir, Realpath, Parse, ChdirStat, ParseReturn, SysfsExpose
  <2>2. u = t
    BY <2>1 DEF ChdirStore, WalkReturn, NamesInv
  <2> QED
    BY <2>1, <2>2 DEF ChdirStore, NamesInv, ChdirSure
<1> QED
  BY <1>1, NamesInitInv, NamesNextInv, PTL DEF NamesSpec, CwdIsDirectory

-----------------------------------------------------------------------------
(***************************************************************************)
(* Paths.  Resolved says what a path means by counting: a name stays       *)
(* unless some later stretch of the path takes it back.  The loop of       *)
(* vfs_make_canonical keeps a stack.  They agree because of the height of  *)
(* the path, how deep its first names lead: the name at depth d of the     *)
(* stack is the last one met at height d - 1 (Stacked), and the counts of  *)
(* the definition are differences of heights (Heights).                    *)
(***************************************************************************)

\* Names are strings, of which the proof needs no more than that they are told apart.
Word == STRING

\* What the loop of vfs_make_canonical works on: a path, or ERR
Canonical == [label: Label \cup {"ERR"}, names: Seq(Word)]
PathOf == [label: Label, names: Seq(Word)]

\* What Append gives
LEMMA AppendIs ==
    ASSUME NEW S, NEW s \in Seq(S), NEW x \in S
    PROVE  /\ Append(s, x) \in Seq(S) /\ Len(s) \in Nat /\ Len(Append(s, x)) = Len(s) + 1
           /\ Append(s, x)[Len(s) + 1] = x
           /\ \A i \in 1 .. Len(s) : Append(s, x)[i] = s[i] /\ s[i] \in S
  OBVIOUS

\* What Front gives
LEMMA FrontIs ==
    ASSUME NEW S, NEW s \in Seq(S), s # <<>>
    PROVE  /\ Front(s) \in Seq(S) /\ Len(s) \in Nat /\ Len(s) >= 1 /\ Len(Front(s)) = Len(s) - 1
           /\ \A i \in 1 .. Len(s) - 1 : Front(s)[i] = s[i]
<1>1. Len(s) \in Nat /\ Len(s) >= 1
  OBVIOUS
<1> DEFINE n == Len(s) - 1
<1>2. n \in Nat /\ 1 \in Int /\ n \in Int /\ \A i \in 1 .. n : s[i] \in S
  BY <1>1
<1>3. Front(s) = SubSeq(s, 1, n)
  BY DEF Front
<1> HIDE DEF n
<1>4. /\ Front(s) \in Seq(S) /\ Len(Front(s)) = IF 1 <= n THEN n - 1 + 1 ELSE 0
      /\ \A i \in 1 .. n - 1 + 1 : Front(s)[i] = s[1 + i - 1]
  BY <1>2, <1>3, SubSeqProperties
<1>5. n - 1 + 1 = n /\ (IF 1 <= n THEN n - 1 + 1 ELSE 0) = n /\ \A i \in 1 .. n : 1 + i - 1 = i
  BY <1>2
<1> QED
  BY <1>1, <1>4, <1>5 DEF n

\* A step of the loop gives a path or ERR.
LEMMA CanonicalStepType ==
    ASSUME NEW out \in Canonical, NEW name \in Word
    PROVE  CanonicalStep(out, name) \in Canonical
<1>1. out.names \in Seq(Word) /\ ERR \in Canonical
  BY DEF Canonical, ERR
<1>2. out.names # <<>> => Front(out.names) \in Seq(Word)
  BY <1>1, FrontIs
<1>3. Append(out.names, name) \in Seq(Word)
  BY <1>1, AppendIs
<1>4. out.names # <<>> => [out EXCEPT !.names = Front(out.names)] \in Canonical
  BY <1>2 DEF Canonical
<1>5. [out EXCEPT !.names = Append(out.names, name)] \in Canonical
  BY <1>3 DEF Canonical
<1>6. CASE out = ERR \/ name = "."
  BY <1>6 DEF CanonicalStep
<1>7. CASE out # ERR /\ name = ".."
  BY <1>1, <1>4, <1>7 DEF CanonicalStep
<1>8. CASE out # ERR /\ name # "." /\ name # ".."
  BY <1>1, <1>5, <1>8 DEF CanonicalStep
<1> QED
  BY <1>6, <1>7, <1>8

\* The loop of vfs_make_canonical, step by step
LEMMA CanonicalSteps ==
    ASSUME NEW base \in Canonical, NEW list \in Seq(Word)
    PROVE  \E f : /\ f[0] = base
                  /\ \A i \in 1 .. Len(list) : f[i] = CanonicalStep(f[i - 1], list[i])
                  /\ f[Len(list)] = MakeCanonical(base, list)
<1> DEFINE n == Len(list)
           S == Canonical
           g == [x \in S \X (1 .. n) |-> CanonicalStep(x[1], list[x[2]])]
           Solves(f) == f = [s \in SUBSET (DOMAIN list) |->
                                IF s = {} THEN base ELSE CanonicalStep(f[s \ {Max(s)}], list[Max(s)])]
           iter == CHOOSE f : Solves(f)
<1>1. n \in Nat /\ DOMAIN list = 1 .. n
  OBVIOUS
<1>3. \A r \in S, w \in Word : CanonicalStep(r, w) \in S
  BY CanonicalStepType
<1>4. MakeCanonical(base, list) = iter[DOMAIN list]
  BY DEF MakeCanonical, FoldLeft, MapThenFoldSet
<1>5. g \in [S \X (1 .. n) -> S]
  <2>1. \A x \in S \X (1 .. n) : x[1] \in S /\ list[x[2]] \in Word
    BY <1>1
  <2> HIDE DEF S, n
  <2> QED
    BY <1>3, <2>1
<1>6. \A r \in S, i \in 1 .. n : g[<<r, i>>] = CanonicalStep(r, list[i])
  OBVIOUS
<1> HIDE DEF g
<1>7. PICK F : IsFold(S, base, g, n, F)
  BY <1>1, <1>5, FoldExists
<1>8. Solves(F)
  <2>1. /\ F \in [SUBSET (1 .. n) -> S]
        /\ F[{}] = base
        /\ \A s \in SUBSET (1 .. n) : s # {} => F[s] = g[<<F[s \ {Max(s)}], Max(s)>>]
    BY <1>7 DEF IsFold
  <2>2. ASSUME NEW s \in SUBSET (1 .. n), s # {}
        PROVE  F[s] = CanonicalStep(F[s \ {Max(s)}], list[Max(s)])
    <3>1. Max(s) \in s
      BY <1>1, <2>2, MaxIn
    <3>2. F[s \ {Max(s)}] \in S
      BY <2>1
    <3> QED
      BY <1>6, <2>1, <2>2, <3>1, <3>2
  <2>3. F = [s \in SUBSET (1 .. n) |-> F[s]]
    BY <2>1
  <2>4. [s \in SUBSET (1 .. n) |-> F[s]]
            = [s \in SUBSET (1 .. n) |-> IF s = {} THEN base ELSE CanonicalStep(F[s \ {Max(s)}], list[Max(s)])]
    BY <2>1, <2>2
  <2> QED
    BY <1>1, <2>3, <2>4
<1>9. Solves(iter)
  <2> HIDE DEF Solves
  <2> QED
    BY <1>8
<1> HIDE DEF iter
<1>10. /\ iter[{}] = base
       /\ \A s \in SUBSET (1 .. n) : s # {} => iter[s] = CanonicalStep(iter[s \ {Max(s)}], list[Max(s)])
  BY <1>1, <1>9
<1> DEFINE f == [i \in 0 .. n |-> iter[1 .. i]]
<1>11. f[0] = base
  BY <1>1, <1>10
<1>12. ASSUME NEW i \in 1 .. n PROVE f[i] = CanonicalStep(f[i - 1], list[i])
  <2>1. i - 1 \in 0 .. n /\ i \in 0 .. n
    BY <1>1
  <2>2. f[i] = iter[1 .. i] /\ f[i - 1] = iter[1 .. i - 1]
    BY <2>1
  <2>3. 1 .. i \in SUBSET (1 .. n) /\ 1 .. i # {} /\ Max(1 .. i) = i /\ (1 .. i) \ {i} = 1 .. i - 1
    BY <1>1, FirstNumbers
  <2>4. iter[1 .. i] = CanonicalStep(iter[(1 .. i) \ {i}], list[i])
    <3> HIDE DEF n
    <3> QED
      BY <1>10, <2>3
  <2> HIDE DEF f
  <2> QED
    BY <2>2, <2>3, <2>4
<1>13. f[n] = MakeCanonical(base, list)
  BY <1>1, <1>4
<1> QED
  <2> HIDE DEF f
  <2> QED
    BY <1>11, <1>12, <1>13

\* The characters one name takes
UsedBy(k, name) == k + 1 + (IF name = "" THEN 0 ELSE 1)

\* The sum of Used, step by step
LEMMA UsedSteps ==
    ASSUME NEW list \in Seq(Word)
    PROVE  \E f : /\ f[0] = 0
                  /\ \A i \in 1 .. Len(list) : f[i] = UsedBy(f[i - 1], list[i])
                  /\ 1 + f[Len(list)] = Used(list)
<1> DEFINE n == Len(list)
           S == Int
           g == [x \in S \X (1 .. n) |-> UsedBy(x[1], list[x[2]])]
           Solves(f) == f = [s \in SUBSET (DOMAIN list) |->
                                IF s = {} THEN 0 ELSE UsedBy(f[s \ {Max(s)}], list[Max(s)])]
           iter == CHOOSE f : Solves(f)
<1>1. n \in Nat /\ DOMAIN list = 1 .. n
  OBVIOUS
<1>2. 0 \in S
  OBVIOUS
<1>3. \A r \in S, w \in Word : UsedBy(r, w) \in S
  BY DEF UsedBy
<1>4. Used(list) = 1 + iter[DOMAIN list]
  BY DEF Used, FoldLeft, MapThenFoldSet, UsedBy
<1>5. g \in [S \X (1 .. n) -> S]
  <2>1. \A x \in S \X (1 .. n) : x[1] \in S /\ list[x[2]] \in Word
    BY <1>1
  <2> HIDE DEF S, n
  <2> QED
    BY <1>3, <2>1
<1>6. \A r \in S, i \in 1 .. n : g[<<r, i>>] = UsedBy(r, list[i])
  OBVIOUS
<1> HIDE DEF g, S
<1>7. PICK F : IsFold(S, 0, g, n, F)
  BY <1>1, <1>2, <1>5, FoldExists
<1>8. Solves(F)
  <2>1. /\ F \in [SUBSET (1 .. n) -> S]
        /\ F[{}] = 0
        /\ \A s \in SUBSET (1 .. n) : s # {} => F[s] = g[<<F[s \ {Max(s)}], Max(s)>>]
    BY <1>7 DEF IsFold
  <2>2. ASSUME NEW s \in SUBSET (1 .. n), s # {}
        PROVE  F[s] = UsedBy(F[s \ {Max(s)}], list[Max(s)])
    <3>1. Max(s) \in s
      BY <1>1, <2>2, MaxIn
    <3>2. F[s \ {Max(s)}] \in S
      BY <2>1
    <3> QED
      BY <1>6, <2>1, <2>2, <3>1, <3>2
  <2>3. F = [s \in SUBSET (1 .. n) |-> F[s]]
    BY <2>1
  <2>4. [s \in SUBSET (1 .. n) |-> F[s]]
            = [s \in SUBSET (1 .. n) |-> IF s = {} THEN 0 ELSE UsedBy(F[s \ {Max(s)}], list[Max(s)])]
    BY <2>1, <2>2
  <2> QED
    BY <1>1, <2>3, <2>4
<1>9. Solves(iter)
  <2> HIDE DEF Solves
  <2> QED
    BY <1>8
<1> HIDE DEF iter
<1>10. /\ iter[{}] = 0
       /\ \A s \in SUBSET (1 .. n) : s # {} => iter[s] = UsedBy(iter[s \ {Max(s)}], list[Max(s)])
  BY <1>1, <1>9
<1> DEFINE f == [i \in 0 .. n |-> iter[1 .. i]]
<1>11. f[0] = 0
  BY <1>1, <1>10
<1>12. ASSUME NEW i \in 1 .. n PROVE f[i] = UsedBy(f[i - 1], list[i])
  <2>1. i - 1 \in 0 .. n /\ i \in 0 .. n
    BY <1>1
  <2>2. f[i] = iter[1 .. i] /\ f[i - 1] = iter[1 .. i - 1]
    BY <2>1
  <2>3. 1 .. i \in SUBSET (1 .. n) /\ 1 .. i # {} /\ Max(1 .. i) = i /\ (1 .. i) \ {i} = 1 .. i - 1
    BY <1>1, FirstNumbers
  <2>4. iter[1 .. i] = UsedBy(iter[(1 .. i) \ {i}], list[i])
    <3> HIDE DEF n
    <3> QED
      BY <1>10, <2>3
  <2> HIDE DEF f
  <2> QED
    BY <2>2, <2>3, <2>4
<1>13. 1 + f[n] = Used(list)
  BY <1>1, <1>4
<1> QED
  <2> HIDE DEF f
  <2> QED
    BY <1>11, <1>12, <1>13

\* One more name takes its characters.
LEMMA UsedAppend ==
    ASSUME NEW s \in Seq(Word), NEW x \in Word
    PROVE  Used(s) \in Int /\ Used(Append(s, x)) = UsedBy(Used(s), x)
<1> DEFINE n == Len(s)
           r == Append(s, x)
<1>0. \A k \in Int : \A y : UsedBy(k, y) \in Int /\ UsedBy(1 + k, y) = 1 + UsedBy(k, y)
  <2> SUFFICES ASSUME NEW k \in Int, NEW y PROVE UsedBy(k, y) \in Int /\ UsedBy(1 + k, y) = 1 + UsedBy(k, y)
    OBVIOUS
  <2>1. CASE y = ""
    <3>1. UsedBy(k, y) = k + 1 + 0 /\ UsedBy(1 + k, y) = (1 + k) + 1 + 0
      BY <2>1, Zenon DEF UsedBy
    <3> QED
      BY <3>1
  <2>2. CASE y # ""
    <3>1. UsedBy(k, y) = k + 1 + 1 /\ UsedBy(1 + k, y) = (1 + k) + 1 + 1
      BY <2>2, Zenon DEF UsedBy
    <3> QED
      BY <3>1
  <2> QED
    BY <2>1, <2>2
<1>1. n \in Nat /\ r \in Seq(Word) /\ Len(r) = n + 1 /\ r[n + 1] = x /\ \A i \in 1 .. n : r[i] = s[i]
  BY AppendIs
<1>2. PICK f : f[0] = 0 /\ (\A i \in 1 .. n : f[i] = UsedBy(f[i - 1], s[i])) /\ 1 + f[n] = Used(s)
  BY UsedSteps
<1>3. PICK g : g[0] = 0 /\ (\A i \in 1 .. Len(r) : g[i] = UsedBy(g[i - 1], r[i])) /\ 1 + g[Len(r)] = Used(r)
  BY <1>1, UsedSteps
<1> DEFINE P == {i \in Nat : i <= n => f[i] = g[i] /\ f[i] \in Int}
<1> HIDE DEF n, r
<1>4. 0 \in P
  BY <1>2, <1>3
<1>5. ASSUME NEW i \in 1 .. n, i - 1 \in P PROVE i \in P
  <2>1. i \in Nat /\ i - 1 \in Nat /\ i - 1 <= n /\ i \in 1 .. Len(r)
    BY <1>1
  <2>2. f[i - 1] = g[i - 1] /\ f[i - 1] \in Int
    BY <1>5, <2>1
  <2>3. f[i] = UsedBy(f[i - 1], s[i]) /\ g[i] = UsedBy(g[i - 1], s[i])
    BY <1>1, <1>2, <1>3, <2>1
  <2>4. f[i] = g[i] /\ f[i] \in Int
    BY <1>0, <2>2, <2>3
  <2> QED
    BY <2>1, <2>4
<1>6. n \in P
  <2> HIDE DEF P
  <2>1. \A i \in 0 .. n : i \in P
    BY <1>1, <1>4, <1>5, UpTo
  <2> QED
    BY <1>1, <2>1
<1>7. f[n] = g[n] /\ f[n] \in Int
  BY <1>1, <1>6
<1>8. g[n + 1] = UsedBy(g[n], x)
  <2>1. n + 1 \in 1 .. Len(r) /\ (n + 1) - 1 = n
    BY <1>1
  <2> QED
    BY <1>1, <1>3, <2>1
<1>9. Used(s) = 1 + f[n] /\ Used(r) = 1 + UsedBy(f[n], x)
  BY <1>1, <1>2, <1>3, <1>7, <1>8
<1>10. 1 + f[n] \in Int /\ UsedBy(1 + f[n], x) = 1 + UsedBy(f[n], x)
  BY <1>0, <1>7
<1> HIDE DEF UsedBy
<1> QED
  BY <1>9, <1>10, Zenon DEF r

Dots == {".", ".."}

\* How deep the first j names of a path lead, and how that changes
Height(s, j) == Downs(s, 1, j) - Ups(s, 1, j)
Delta(x) == IF x = "." THEN 0 ELSE IF x = ".." THEN -1 ELSE 1

\* A count over 1 .. j is the sum of those over its two parts.
LEMMA CountSplit ==
    ASSUME NEW A, NEW i \in Nat, NEW j \in Nat, 1 <= i, i <= j + 1
    PROVE  /\ Cardinality({k \in 1 .. j : k \in A}) \in Nat
           /\ Cardinality({k \in 1 .. i - 1 : k \in A}) \in Nat
           /\ Cardinality({k \in i .. j : k \in A}) \in Nat
           /\ Cardinality({k \in 1 .. j : k \in A})
                = Cardinality({k \in 1 .. i - 1 : k \in A}) + Cardinality({k \in i .. j : k \in A})
<1> DEFINE B(a, b) == {k \in a .. b : k \in A}
<1>1. ASSUME NEW a \in Int, NEW b \in Int PROVE IsFiniteSet(B(a, b)) /\ Cardinality(B(a, b)) \in Nat
  <2>1. IsFiniteSet(a .. b) /\ B(a, b) \in SUBSET (a .. b)
    BY FS_Interval
  <2>2. IsFiniteSet(B(a, b))
    <3> HIDE DEF B
    <3> QED
      BY <2>1, FS_Subset
  <2> HIDE DEF B
  <2> QED
    BY <2>2, FS_CardinalityType
<1>2. B(1, j) = B(1, i - 1) \cup B(i, j)
  OBVIOUS
<1>3. B(1, i - 1) \cap B(i, j) = {}
  OBVIOUS
<1>4. i - 1 \in Int /\ i \in Int /\ j \in Int /\ 1 \in Int
  OBVIOUS
<1>5. /\ IsFiniteSet(B(1, i - 1)) /\ IsFiniteSet(B(i, j))
      /\ Cardinality(B(1, i - 1)) \in Nat /\ Cardinality(B(i, j)) \in Nat /\ Cardinality(B(1, j)) \in Nat
  <2> HIDE DEF B
  <2> QED
    BY <1>1, <1>4
<1>6. Cardinality(B(1, j)) = Cardinality(B(1, i - 1)) + Cardinality(B(i, j))
  <2>1. Cardinality(B(1, j)) = Cardinality(B(1, i - 1)) + Cardinality(B(i, j)) - Cardinality(B(1, i - 1) \cap B(i, j))
    <3> HIDE DEF B
    <3> QED
      BY <1>2, <1>5, FS_Union
  <2>2. Cardinality(B(1, i - 1) \cap B(i, j)) = 0
    BY <1>3, FS_EmptySet
  <2> HIDE DEF B
  <2> QED
    BY <1>5, <2>1, <2>2
<1> QED
  BY <1>5, <1>6

\* A count over one number
LEMMA CountOne ==
    ASSUME NEW A, NEW j \in Int
    PROVE  Cardinality({k \in j .. j : k \in A}) = IF j \in A THEN 1 ELSE 0
<1>1. CASE j \in A
  <2>1. {k \in j .. j : k \in A} = {j}
    BY <1>1
  <2> QED
    BY <1>1, <2>1, FS_Singleton
<1>2. CASE j \notin A
  <2>1. {k \in j .. j : k \in A} = {}
    BY <1>2
  <2> QED
    BY <1>2, <2>1, FS_EmptySet
<1> QED
  BY <1>1, <1>2

\* The sums of the definition are differences of heights.
LEMMA Heights ==
    ASSUME NEW s, NEW i \in Nat, NEW j \in Nat, 1 <= i, i <= j + 1
    PROVE  /\ Height(s, j) \in Int /\ Height(s, i - 1) \in Int
           /\ Ups(s, i, j) \in Nat /\ Downs(s, i, j) \in Nat
           /\ Downs(s, i, j) - Ups(s, i, j) = Height(s, j) - Height(s, i - 1)
<1> DEFINE U == {k \in Nat : s[k] = ".."}
           D == {k \in Nat : s[k] \notin {".", ".."}}
<1>1. ASSUME NEW a \in Nat, NEW b
      PROVE  /\ Ups(s, a, b) = Cardinality({k \in a .. b : k \in U})
             /\ Downs(s, a, b) = Cardinality({k \in a .. b : k \in D})
  <2>1. \A k \in a .. b : k \in Nat
    OBVIOUS
  <2>2. {k \in a .. b : s[k] = ".."} = {k \in a .. b : k \in U}
    BY <2>1, Zenon
  <2>3. {k \in a .. b : s[k] \notin {".", ".."}} = {k \in a .. b : k \in D}
    BY <2>1, Zenon
  <2> QED
    BY <2>2, <2>3, Zenon DEF Ups, Downs
<1> HIDE DEF U, D
<1>2. 1 \in Nat
  OBVIOUS
<1>3. /\ Ups(s, 1, j) \in Nat /\ Ups(s, 1, i - 1) \in Nat /\ Ups(s, i, j) \in Nat
      /\ Ups(s, 1, j) = Ups(s, 1, i - 1) + Ups(s, i, j)
  <2>1. /\ Ups(s, 1, j) = Cardinality({k \in 1 .. j : k \in U})
        /\ Ups(s, 1, i - 1) = Cardinality({k \in 1 .. i - 1 : k \in U})
        /\ Ups(s, i, j) = Cardinality({k \in i .. j : k \in U})
    BY <1>1, <1>2, Zenon
  <2>2. /\ Cardinality({k \in 1 .. j : k \in U}) \in Nat
        /\ Cardinality({k \in 1 .. i - 1 : k \in U}) \in Nat
        /\ Cardinality({k \in i .. j : k \in U}) \in Nat
        /\ Cardinality({k \in 1 .. j : k \in U})
             = Cardinality({k \in 1 .. i - 1 : k \in U}) + Cardinality({k \in i .. j : k \in U})
    BY CountSplit, Zenon
  <2> QED
    BY <2>1, <2>2, Zenon
<1>4. /\ Downs(s, 1, j) \in Nat /\ Downs(s, 1, i - 1) \in Nat /\ Downs(s, i, j) \in Nat
      /\ Downs(s, 1, j) = Downs(s, 1, i - 1) + Downs(s, i, j)
  <2>1. /\ Downs(s, 1, j) = Cardinality({k \in 1 .. j : k \in D})
        /\ Downs(s, 1, i - 1) = Cardinality({k \in 1 .. i - 1 : k \in D})
        /\ Downs(s, i, j) = Cardinality({k \in i .. j : k \in D})
    BY <1>1, <1>2, Zenon
  <2>2. /\ Cardinality({k \in 1 .. j : k \in D}) \in Nat
        /\ Cardinality({k \in 1 .. i - 1 : k \in D}) \in Nat
        /\ Cardinality({k \in i .. j : k \in D}) \in Nat
        /\ Cardinality({k \in 1 .. j : k \in D})
             = Cardinality({k \in 1 .. i - 1 : k \in D}) + Cardinality({k \in i .. j : k \in D})
    BY CountSplit, Zenon
  <2> QED
    BY <2>1, <2>2, Zenon
<1> QED
  BY <1>3, <1>4 DEF Height

\* The height moves by one name at a time.
LEMMA HeightStep ==
    ASSUME NEW s, NEW j \in Nat, 1 <= j
    PROVE  /\ Height(s, 0) = 0
           /\ Height(s, j - 1) \in Int /\ Height(s, j) \in Int /\ Height(s, j) = Height(s, j - 1) + Delta(s[j])
<1> DEFINE U == {k \in Nat : s[k] = ".."}
           D == {k \in Nat : s[k] \notin {".", ".."}}
<1>1. Ups(s, j, j) = Cardinality({k \in j .. j : k \in U}) /\ Downs(s, j, j) = Cardinality({k \in j .. j : k \in D})
  <2>1. \A k \in j .. j : k \in Nat
    OBVIOUS
  <2>2. {k \in j .. j : s[k] = ".."} = {k \in j .. j : k \in U}
    BY <2>1, Zenon
  <2>3. {k \in j .. j : s[k] \notin {".", ".."}} = {k \in j .. j : k \in D}
    BY <2>1, Zenon
  <2> QED
    BY <2>2, <2>3, Zenon DEF Ups, Downs
<1>2. Ups(s, j, j) = (IF j \in U THEN 1 ELSE 0) /\ Downs(s, j, j) = (IF j \in D THEN 1 ELSE 0)
  <2> HIDE DEF U, D
  <2> QED
    BY <1>1, CountOne
<1>3. Height(s, 0) = 0
  <2>1. {k \in 1 .. 0 : s[k] = ".."} = {} /\ {k \in 1 .. 0 : s[k] \notin {".", ".."}} = {}
    OBVIOUS
  <2> QED
    BY <2>1, FS_EmptySet DEF Height, Ups, Downs
<1>4. /\ Height(s, j) \in Int /\ Height(s, j - 1) \in Int
      /\ Downs(s, j, j) - Ups(s, j, j) = Height(s, j) - Height(s, j - 1)
  <2>1. j <= j + 1
    OBVIOUS
  <2> QED
    BY <2>1, Heights
<1>5. Downs(s, j, j) - Ups(s, j, j) = Delta(s[j])
  BY <1>2 DEF Delta
<1> QED
  BY <1>3, <1>4, <1>5

\* The loop after n names of s, of heights h: st is what it has written, and e tells
\* which of the names they are.  The name at depth d was met at depth d - 1, and the
\* loop has not been there again since; any other name has been taken back.
Entries(h, s, n, st, e) == \A d \in 1 .. Len(st) :
    /\ e[d] \in 1 .. n /\ s[e[d]] \notin Dots /\ st[d] = s[e[d]]
    /\ h[e[d] - 1] = d - 1 /\ \A j \in e[d] .. n : h[j] >= d
Ordered(st, e) == \A c, d \in 1 .. Len(st) : c < d => e[c] < e[d]
TakenBack(h, s, n, st, e) == \A i \in 1 .. n : s[i] \notin Dots =>
    ((\E d \in 1 .. Len(st) : e[d] = i) \/ (\E j \in i + 1 .. n : h[j] = h[i - 1]))
Stacked(h, s, n, st, e) ==
    /\ n \in Nat /\ st \in Seq(Word) /\ Len(st) = h[n]
    /\ \A j \in 0 .. n : h[j] \in Nat
    /\ Entries(h, s, n, st, e) /\ Ordered(st, e) /\ TakenBack(h, s, n, st, e)

\* The loop meets a ".".
LEMMA StackedDot ==
    ASSUME NEW h, NEW s, NEW n, NEW st, NEW e, Stacked(h, s, n, st, e), s[n + 1] \in Dots, h[n + 1] = h[n]
    PROVE  Stacked(h, s, n + 1, st, e)
<1>1. /\ n \in Nat /\ st \in Seq(Word) /\ Len(st) = h[n] /\ Len(st) \in Nat
      /\ \A j \in 0 .. n : h[j] \in Nat
  BY DEF Stacked
<1>2. \A j \in 0 .. n + 1 : h[j] \in Nat
  BY <1>1
<1>3. Entries(h, s, n + 1, st, e)
  <2> SUFFICES ASSUME NEW d \in 1 .. Len(st)
               PROVE  /\ e[d] \in 1 .. n + 1 /\ s[e[d]] \notin Dots /\ st[d] = s[e[d]]
                      /\ h[e[d] - 1] = d - 1 /\ \A j \in e[d] .. n + 1 : h[j] >= d
    BY DEF Entries
  <2>1. /\ e[d] \in 1 .. n /\ s[e[d]] \notin Dots /\ st[d] = s[e[d]]
        /\ h[e[d] - 1] = d - 1 /\ \A j \in e[d] .. n : h[j] >= d
    BY DEF Stacked, Entries
  <2>2. e[d] \in 1 .. n + 1
    BY <1>1, <2>1
  <2>3. h[n + 1] >= d
    BY <1>1
  <2>4. \A j \in e[d] .. n + 1 : j = n + 1 \/ j \in e[d] .. n
    BY <1>1, <2>1
  <2> QED
    BY <2>1, <2>2, <2>3, <2>4
<1>4. TakenBack(h, s, n + 1, st, e)
  <2> SUFFICES ASSUME NEW i \in 1 .. n + 1, s[i] \notin Dots
               PROVE  (\E d \in 1 .. Len(st) : e[d] = i) \/ (\E j \in i + 1 .. n + 1 : h[j] = h[i - 1])
    BY DEF TakenBack
  <2>1. i \in 1 .. n /\ \A j \in i + 1 .. n : j \in i + 1 .. n + 1
    BY <1>1
  <2> QED
    BY <2>1, Zenon DEF Stacked, TakenBack
<1> QED
  BY <1>1, <1>2, <1>3, <1>4 DEF Stacked

\* The loop meets a name.
LEMMA StackedPush ==
    ASSUME NEW h, NEW s, NEW n, NEW st, NEW e, Stacked(h, s, n, st, e),
           s[n + 1] \in Word, s[n + 1] \notin Dots, h[n + 1] = h[n] + 1
    PROVE  \E e2 : Stacked(h, s, n + 1, Append(st, s[n + 1]), e2)
<1> DEFINE r == Append(st, s[n + 1])
           m == Len(st)
           e2 == [d \in 1 .. m + 1 |-> IF d = m + 1 THEN n + 1 ELSE e[d]]
<1>1. /\ n \in Nat /\ st \in Seq(Word) /\ m = h[n] /\ m \in Nat
      /\ \A j \in 0 .. n : h[j] \in Nat
  BY DEF Stacked
<1>2. \A j \in 0 .. n + 1 : h[j] \in Nat
  BY <1>1
<1>3. r \in Seq(Word) /\ Len(r) = m + 1 /\ r[m + 1] = s[n + 1] /\ \A i \in 1 .. m : r[i] = st[i]
  BY <1>1, AppendIs
<1>4. ASSUME NEW d \in 1 .. m
      PROVE  /\ e[d] \in 1 .. n /\ s[e[d]] \notin Dots /\ st[d] = s[e[d]]
             /\ h[e[d] - 1] = d - 1 /\ \A j \in e[d] .. n : h[j] >= d
  BY DEF Stacked, Entries
<1>5. e2[m + 1] = n + 1 /\ \A d \in 1 .. m : e2[d] = e[d]
  BY <1>1
<1>6. n + 1 \in Nat /\ Len(r) = h[n + 1] /\ h[n + 1] = m + 1
  BY <1>1, <1>3
<1> HIDE DEF r, e2, m
<1>7. Entries(h, s, n + 1, r, e2)
  <2> SUFFICES ASSUME NEW d \in 1 .. m + 1
               PROVE  /\ e2[d] \in 1 .. n + 1 /\ s[e2[d]] \notin Dots /\ r[d] = s[e2[d]]
                      /\ h[e2[d] - 1] = d - 1 /\ \A j \in e2[d] .. n + 1 : h[j] >= d
    BY <1>3 DEF Entries
  <2>1. CASE d = m + 1
    <3>1. e2[d] = n + 1 /\ (n + 1) - 1 = n /\ n + 1 \in 1 .. n + 1 /\ d - 1 = m
      BY <1>1, <1>5, <2>1
    <3>2. \A j \in n + 1 .. n + 1 : h[j] >= d
      BY <1>1, <1>6, <2>1
    <3> QED
      BY <1>1, <1>3, <2>1, <3>1, <3>2
  <2>2. CASE d \in 1 .. m
    <3>1. e2[d] = e[d] /\ r[d] = st[d]
      BY <1>3, <1>5, <2>2
    <3>2. e[d] \in 1 .. n + 1
      BY <1>1, <1>4, <2>2
    <3>3. h[n + 1] >= d
      BY <1>1, <1>6
    <3>4. \A j \in e[d] .. n + 1 : j = n + 1 \/ j \in e[d] .. n
      BY <1>1, <1>4, <2>2
    <3> QED
      BY <1>4, <2>2, <3>1, <3>2, <3>3, <3>4
  <2> QED
    BY <1>1, <2>1, <2>2
<1>8. Ordered(r, e2)
  <2> SUFFICES ASSUME NEW c \in 1 .. m + 1, NEW d \in 1 .. m + 1, c < d PROVE e2[c] < e2[d]
    BY <1>3 DEF Ordered
  <2>1. c \in 1 .. m /\ e2[c] = e[c] /\ e[c] \in 1 .. n
    BY <1>1, <1>4, <1>5
  <2>2. CASE d = m + 1
    BY <1>1, <1>5, <2>1, <2>2
  <2>3. CASE d \in 1 .. m
    <3>1. e[c] < e[d]
      BY <2>1, <2>3 DEF Stacked, Ordered, m
    <3> QED
      BY <1>5, <2>1, <2>3, <3>1
  <2> QED
    BY <1>1, <2>2, <2>3
<1>9. TakenBack(h, s, n + 1, r, e2)
  <2> SUFFICES ASSUME NEW i \in 1 .. n + 1, s[i] \notin Dots
               PROVE  (\E d \in 1 .. m + 1 : e2[d] = i) \/ (\E j \in i + 1 .. n + 1 : h[j] = h[i - 1])
    BY <1>3 DEF TakenBack
  <2>1. CASE i = n + 1
    <3>1. m + 1 \in 1 .. m + 1
      BY <1>1
    <3> QED
      BY <1>5, <2>1, <3>1
  <2>2. CASE i \in 1 .. n
    <3>1. (\A j \in i + 1 .. n : j \in i + 1 .. n + 1) /\ (\A d \in 1 .. m : d \in 1 .. m + 1)
      BY <1>1, <2>2
    <3>2. (\E d \in 1 .. m : e[d] = i) \/ (\E j \in i + 1 .. n : h[j] = h[i - 1])
      BY <2>2 DEF Stacked, TakenBack, m
    <3> QED
      BY <1>5, <3>1, <3>2, Zenon
  <2> QED
    BY <1>1, <2>1, <2>2
<1>10. Stacked(h, s, n + 1, r, e2)
  BY <1>2, <1>3, <1>6, <1>7, <1>8, <1>9 DEF Stacked
<1> QED
  BY <1>10 DEF r

\* The loop meets a "..", and is not at the root.
LEMMA StackedPop ==
    ASSUME NEW h, NEW s, NEW n, NEW st, NEW e, Stacked(h, s, n, st, e),
           s[n + 1] \in Dots, h[n + 1] = h[n] - 1, st # <<>>
    PROVE  Stacked(h, s, n + 1, Front(st), e)
<1> DEFINE r == Front(st)
           m == Len(st) - 1
<1>1. /\ n \in Nat /\ st \in Seq(Word) /\ Len(st) = h[n] /\ Len(st) \in Nat
      /\ \A j \in 0 .. n : h[j] \in Nat
  BY DEF Stacked
<1>2. r \in Seq(Word) /\ Len(st) >= 1 /\ Len(r) = m /\ \A i \in 1 .. m : r[i] = st[i]
  BY <1>1, FrontIs
<1>3. m \in Nat /\ Len(st) = m + 1 /\ h[n + 1] = m /\ h[n] = m + 1 /\ n + 1 \in Nat
  BY <1>1, <1>2
<1>4. \A j \in 0 .. n + 1 : h[j] \in Nat
  BY <1>1, <1>3
<1>5. ASSUME NEW d \in 1 .. m + 1
      PROVE  /\ e[d] \in 1 .. n /\ s[e[d]] \notin Dots /\ st[d] = s[e[d]]
             /\ h[e[d] - 1] = d - 1 /\ \A j \in e[d] .. n : h[j] >= d
  BY <1>3 DEF Stacked, Entries
<1> HIDE DEF r, m
<1>6. Entries(h, s, n + 1, r, e)
  <2> SUFFICES ASSUME NEW d \in 1 .. m
               PROVE  /\ e[d] \in 1 .. n + 1 /\ s[e[d]] \notin Dots /\ r[d] = s[e[d]]
                      /\ h[e[d] - 1] = d - 1 /\ \A j \in e[d] .. n + 1 : h[j] >= d
    BY <1>2 DEF Entries
  <2>1. d \in 1 .. m + 1 /\ r[d] = st[d]
    BY <1>2, <1>3
  <2>2. e[d] \in 1 .. n + 1
    BY <1>1, <1>5, <2>1
  <2>3. h[n + 1] >= d
    BY <1>3
  <2>4. \A j \in e[d] .. n + 1 : j = n + 1 \/ j \in e[d] .. n
    BY <1>1, <1>5, <2>1
  <2> QED
    BY <1>5, <2>1, <2>2, <2>3, <2>4
<1>7. Ordered(r, e)
  <2>1. 1 .. m \subseteq 1 .. Len(st)
    BY <1>3
  <2> QED
    BY <1>2, <2>1 DEF Stacked, Ordered
<1>8. TakenBack(h, s, n + 1, r, e)
  <2> SUFFICES ASSUME NEW i \in 1 .. n + 1, s[i] \notin Dots
               PROVE  (\E d \in 1 .. m : e[d] = i) \/ (\E j \in i + 1 .. n + 1 : h[j] = h[i - 1])
    BY <1>2 DEF TakenBack
  <2>1. i \in 1 .. n
    BY <1>1
  <2>2. (\E d \in 1 .. m + 1 : e[d] = i) \/ (\E j \in i + 1 .. n : h[j] = h[i - 1])
    BY <1>3, <2>1 DEF Stacked, TakenBack
  <2>3. \A j \in i + 1 .. n : j \in i + 1 .. n + 1
    BY <1>1, <2>1
  <2>4. CASE e[m + 1] = i
    <3>1. m + 1 \in 1 .. m + 1 /\ n + 1 \in i + 1 .. n + 1 /\ (m + 1) - 1 = m
      BY <1>1, <1>3, <2>1
    <3>2. h[i - 1] = m
      BY <1>5, <2>4, <3>1
    <3> QED
      BY <1>3, <3>1, <3>2
  <2>5. \A d \in 1 .. m + 1 : d = m + 1 \/ d \in 1 .. m
    BY <1>3
  <2> QED
    BY <2>2, <2>3, <2>4, <2>5, Zenon
<1>9. Stacked(h, s, n + 1, r, e)
  BY <1>2, <1>3, <1>4, <1>6, <1>7, <1>8 DEF Stacked
<1> QED
  BY <1>9 DEF r

\* Names without dots are all kept.
LEMMA StackedClean ==
    ASSUME NEW h, NEW s, NEW st \in Seq(Word),
           \A i \in 1 .. Len(st) : st[i] = s[i] /\ s[i] \notin Dots,
           h[0] = 0, \A i \in 1 .. Len(st) : h[i] = h[i - 1] + 1
    PROVE  \E e : Stacked(h, s, Len(st), st, e)
<1> DEFINE n == Len(st)
           P == {i \in Nat : i <= n => h[i] = i}
           e == [i \in 1 .. n |-> i]
<1>1. n \in Nat
  OBVIOUS
<1>2. 0 \in P
  OBVIOUS
<1> HIDE DEF n
<1>3. ASSUME NEW i \in 1 .. n, i - 1 \in P PROVE i \in P
  BY <1>1, <1>3 DEF n
<1>4. \A i \in 0 .. n : i \in P
  <2> HIDE DEF P
  <2> QED
    BY <1>1, <1>2, <1>3, UpTo
<1>5. \A i \in 0 .. n : h[i] = i
  BY <1>1, <1>4
<1>6. \A i \in 1 .. n : e[i] = i
  OBVIOUS
<1> HIDE DEF e, P
<1>7. Entries(h, s, n, st, e)
  <2> SUFFICES ASSUME NEW d \in 1 .. n
               PROVE  /\ e[d] \in 1 .. n /\ s[e[d]] \notin Dots /\ st[d] = s[e[d]]
                      /\ h[e[d] - 1] = d - 1 /\ \A j \in e[d] .. n : h[j] >= d
    BY DEF Entries, n
  <2>1. e[d] = d /\ d - 1 \in 0 .. n /\ \A j \in d .. n : j \in 0 .. n /\ j >= d
    BY <1>1, <1>6
  <2>2. s[d] \notin Dots /\ st[d] = s[d]
    BY DEF n
  <2> QED
    BY <1>5, <2>1, <2>2
<1>8. Ordered(st, e)
  BY <1>1, <1>6 DEF Ordered, n
<1>9. TakenBack(h, s, n, st, e)
  BY <1>6 DEF TakenBack, n
<1>10. (\A i \in 0 .. n : h[i] \in Nat) /\ n = h[n]
  BY <1>1, <1>5
<1>11. Stacked(h, s, n, st, e)
  BY <1>1, <1>7, <1>8, <1>9, <1>10 DEF Stacked, n
<1> QED
  BY <1>11 DEF n

\* As many numbers as a rising function has arguments
LEMMA RisingCount ==
    ASSUME NEW m \in Nat, NEW e, \A d \in 1 .. m : e[d] \in Nat,
           \A c, d \in 1 .. m : c < d => e[c] < e[d]
    PROVE  Cardinality({e[d] : d \in 1 .. m}) = m
<1> DEFINE R == {e[d] : d \in 1 .. m}
           f == [d \in 1 .. m |-> e[d]]
<1>1. f \in [1 .. m -> R] /\ \A d \in 1 .. m : f[d] = e[d]
  OBVIOUS
<1>2. \A c, d \in 1 .. m : e[c] = e[d] => c = d
  <2> SUFFICES ASSUME NEW c \in 1 .. m, NEW d \in 1 .. m, e[c] = e[d], c # d PROVE FALSE
    OBVIOUS
  <2>1. c < d \/ d < c
    OBVIOUS
  <2> QED
    BY <2>1
<1>3. \A y \in R : \E d \in 1 .. m : f[d] = y
  OBVIOUS
<1> HIDE DEF f, R
<1>4. f \in Bijection(1 .. m, R)
  BY <1>1, <1>2, <1>3, Zenon DEF Bijection, Injection, Surjection, IsInjective
<1>5. ExistsBijection(1 .. m, R)
  BY <1>4 DEF ExistsBijection
<1>6. IsFiniteSet(1 .. m) /\ Cardinality(1 .. m) = m
  BY FS_Interval
<1>7. Cardinality(R) = m
  BY <1>5, <1>6, FS_Bijection
<1> QED
  BY <1>7 DEF R

\* The names that stay are those of the loop.
LEMMA KeptIs ==
    ASSUME NEW h, NEW s, NEW n, NEW st, NEW e, Stacked(h, s, n, st, e), \A j \in 0 .. n : h[j] = Height(s, j)
    PROVE  {i \in 1 .. n : /\ s[i] \notin {".", ".."}
                           /\ \A j \in i + 1 .. n : Ups(s, i, j) # Downs(s, i, j)}
             = {e[d] : d \in 1 .. Len(st)}
<1> DEFINE K == {i \in 1 .. n : /\ s[i] \notin {".", ".."}
                                /\ \A j \in i + 1 .. n : Ups(s, i, j) # Downs(s, i, j)}
<1>1. n \in Nat /\ Len(st) \in Nat /\ \A j \in 0 .. n : h[j] \in Nat
  BY DEF Stacked
<1>2. ASSUME NEW i \in 1 .. n, NEW j \in i + 1 .. n PROVE Ups(s, i, j) = Downs(s, i, j) <=> h[j] = h[i - 1]
  <2>1. i \in Nat /\ j \in Nat /\ 1 <= i /\ i <= j + 1 /\ j \in 0 .. n /\ i - 1 \in 0 .. n
    BY <1>1
  <2>2. /\ Ups(s, i, j) \in Nat /\ Downs(s, i, j) \in Nat
        /\ Downs(s, i, j) - Ups(s, i, j) = Height(s, j) - Height(s, i - 1)
    BY <2>1, Heights
  <2>3. h[j] = Height(s, j) /\ h[i - 1] = Height(s, i - 1) /\ h[j] \in Nat /\ h[i - 1] \in Nat
    BY <1>1, <2>1
  <2> QED
    BY <2>2, <2>3
<1>3. ASSUME NEW d \in 1 .. Len(st) PROVE e[d] \in K
  <2>1. e[d] \in 1 .. n /\ s[e[d]] \notin Dots /\ h[e[d] - 1] = d - 1 /\ \A j \in e[d] .. n : h[j] >= d
    BY DEF Stacked, Entries
  <2>2. ASSUME NEW j \in e[d] + 1 .. n PROVE h[j] # h[e[d] - 1]
    <3>1. j \in e[d] .. n /\ j \in 0 .. n
      BY <1>1, <2>1
    <3>2. h[j] >= d /\ h[j] \in Nat
      BY <1>1, <2>1, <3>1
    <3> QED
      BY <2>1, <3>2
  <2> QED
    BY <1>2, <2>1, <2>2, Zenon DEF Dots
<1>4. ASSUME NEW i \in K PROVE \E d \in 1 .. Len(st) : e[d] = i
  <2>1. i \in 1 .. n /\ s[i] \notin Dots /\ \A j \in i + 1 .. n : Ups(s, i, j) # Downs(s, i, j)
    BY Zenon DEF Dots
  <2>2. \A j \in i + 1 .. n : h[j] # h[i - 1]
    BY <1>2, <2>1, Zenon
  <2> QED
    BY <2>1, <2>2, Zenon DEF Stacked, TakenBack
<1> HIDE DEF K
<1>5. K = {e[d] : d \in 1 .. Len(st)}
  BY <1>3, <1>4
<1> QED
  BY <1>5 DEF K

\* p with the names st
WithNames(p, st) == [p EXCEPT !.names = st]

\* The loop gets through all the names of s, with st.
Through(h, s, st, e) == Stacked(h, s, Len(s), st, e) /\ \A j \in 0 .. Len(s) : h[j] = Height(s, j)

\* A path that the loop gets through means what it has written.
LEMMA ResolvedIs ==
    ASSUME NEW base, NEW names, NEW h, NEW st, NEW e,
           Through(h, base.names \o names, st, e)
    PROVE  Resolved(base, names) = WithNames(base, st)
<1> DEFINE s == base.names \o names
           n == Len(s)
           m == Len(st)
           kept == {i \in 1 .. n : /\ s[i] \notin {".", ".."}
                                   /\ \A j \in i + 1 .. n : Ups(s, i, j) # Downs(s, i, j)}
           R == {e[d] : d \in 1 .. m}
           out == [i \in 1 .. Cardinality(kept) |->
                     s[CHOOSE k \in kept : Cardinality({l \in kept : l <= k}) = i]]
           high == \E j \in 1 .. n : Ups(s, 1, j) > Downs(s, 1, j)
<1>1. Resolved(base, names) = IF high THEN ERR ELSE [base EXCEPT !.names = out]
  BY Zenon DEF Resolved
<1>2. Stacked(h, s, n, st, e) /\ \A j \in 0 .. n : h[j] = Height(s, j)
  BY DEF Through
<1> HIDE DEF s, n
<1>3. n \in Nat /\ st \in Seq(Word) /\ m \in Nat /\ \A j \in 0 .. n : h[j] \in Nat
  BY <1>2 DEF Stacked
<1>4. kept = R
  <2> HIDE DEF s, n
  <2> QED
    BY <1>2, KeptIs
<1>5. ~high
  <2> SUFFICES ASSUME NEW j \in 1 .. n PROVE ~(Ups(s, 1, j) > Downs(s, 1, j))
    OBVIOUS
  <2>1. j \in Nat /\ 1 \in Nat /\ 1 <= 1 /\ 1 <= j + 1 /\ j \in 0 .. n
    BY <1>3
  <2>2. Ups(s, 1, j) \in Nat /\ Downs(s, 1, j) \in Nat
    BY <2>1, Heights
  <2>3. Downs(s, 1, j) - Ups(s, 1, j) = h[j] /\ h[j] \in Nat
    BY <1>2, <1>3, <2>1 DEF Height
  <2> QED
    BY <2>2, <2>3
<1> HIDE DEF kept, m, high
<1>6. \A d \in 1 .. m : e[d] \in Nat /\ st[d] = s[e[d]]
  BY <1>2, <1>3 DEF Stacked, Entries, m
<1>7. \A c, d \in 1 .. m : c < d => e[c] < e[d]
  BY <1>2 DEF Stacked, Ordered, m
<1>8. Cardinality(kept) = m
  <2>1. \A d \in 1 .. m : e[d] \in Nat
    BY <1>6
  <2>2. Cardinality({e[d] : d \in 1 .. m}) = m
    BY <1>3, <1>7, <2>1, RisingCount, Zenon
  <2> QED
    BY <1>4, <2>2
<1>9. ASSUME NEW d \in 1 .. m PROVE Cardinality({l \in kept : l <= e[d]}) = d
  <2>1. {l \in kept : l <= e[d]} = {e[c] : c \in 1 .. d}
    <3>1. ASSUME NEW c \in 1 .. m, e[c] <= e[d] PROVE c \in 1 .. d
      <4>1. ~(d < c)
        BY <1>6, <1>7, <3>1
      <4> QED
        BY <1>3, <4>1
    <3>2. ASSUME NEW c \in 1 .. d PROVE c \in 1 .. m /\ e[c] <= e[d]
      <4>1. c \in 1 .. m /\ (c = d \/ c < d)
        BY <1>3
      <4> QED
        BY <1>6, <1>7, <4>1
    <3> QED
      BY <1>4, <3>1, <3>2
  <2>2. d \in Nat /\ \A c \in 1 .. d : c \in 1 .. m
    BY <1>3
  <2>3. (\A c \in 1 .. d : e[c] \in Nat) /\ (\A b, c \in 1 .. d : b < c => e[b] < e[c])
    BY <1>6, <1>7, <2>2
  <2>4. Cardinality({e[c] : c \in 1 .. d}) = d
    BY <2>2, <2>3, RisingCount, Zenon
  <2> QED
    BY <2>1, <2>4
<1>10. ASSUME NEW d \in 1 .. m
       PROVE  (CHOOSE k \in kept : Cardinality({l \in kept : l <= k}) = d) = e[d]
  <2>1. e[d] \in kept
    BY <1>4
  <2>2. ASSUME NEW k \in kept, Cardinality({l \in kept : l <= k}) = d PROVE k = e[d]
    <3>1. PICK c \in 1 .. m : k = e[c]
      BY <1>4
    <3>2. c = d
      BY <1>9, <2>2, <3>1
    <3> QED
      BY <3>1, <3>2
  <2> QED
    BY <1>9, <2>1, <2>2
<1>11. out = st
  <2>1. out = [i \in 1 .. m |-> st[i]]
    BY <1>6, <1>8, <1>10
  <2>2. st = [i \in 1 .. m |-> st[i]]
    BY <1>3 DEF m
  <2> QED
    BY <2>1, <2>2
<1> HIDE DEF out
<1> QED
  BY <1>1, <1>5, <1>11, Zenon DEF WithNames

\* A path that climbs out of its volume means nothing.
LEMMA ResolvedErr ==
    ASSUME NEW base, NEW names, NEW n \in Nat, Len(base.names \o names) = n, n >= 1,
           Height(base.names \o names, n) < 0
    PROVE  Resolved(base, names) = ERR
<1> DEFINE s == base.names \o names
           high == \E j \in 1 .. n : Ups(s, 1, j) > Downs(s, 1, j)
<1>1. high => Resolved(base, names) = ERR
  BY Zenon DEF Resolved
<1>2. 1 \in Nat /\ 1 <= 1 /\ 1 <= n + 1 /\ n \in 1 .. n
  OBVIOUS
<1> HIDE DEF s
<1>3. Ups(s, 1, n) \in Nat /\ Downs(s, 1, n) \in Nat
  BY <1>2, Heights
<1>4. Downs(s, 1, n) - Ups(s, 1, n) < 0
  BY DEF Height, s
<1>5. Ups(s, 1, n) > Downs(s, 1, n)
  BY <1>3, <1>4
<1> QED
  BY <1>1, <1>2, <1>5

\* Two paths that begin alike
LEMMA HeightAlike ==
    ASSUME NEW s, NEW r, NEW n \in Nat, \A k \in 1 .. n : s[k] = r[k], NEW j \in 0 .. n
    PROVE  Height(s, j) = Height(r, j)
<1>1. \A k \in 1 .. j : s[k] = r[k]
  OBVIOUS
<1>2. /\ {k \in 1 .. j : s[k] = ".."} = {k \in 1 .. j : r[k] = ".."}
      /\ {k \in 1 .. j : s[k] \notin {".", ".."}} = {k \in 1 .. j : r[k] \notin {".", ".."}}
  BY <1>1, Zenon
<1> QED
  BY <1>2, Zenon DEF Height, Ups, Downs

\* The loop has seen nothing of the names to come.
LEMMA StackedAlike ==
    ASSUME NEW h, NEW s, NEW r, NEW n, NEW st, NEW e, Stacked(h, s, n, st, e), \A k \in 1 .. n : s[k] = r[k]
    PROVE  Stacked(h, r, n, st, e)
<1>1. Entries(h, r, n, st, e)
  BY DEF Stacked, Entries
<1>2. TakenBack(h, r, n, st, e)
  BY Zenon DEF Stacked, TakenBack
<1> QED
  BY <1>1, <1>2 DEF Stacked

\* A path without dots
Clean(p) == p \in PathOf /\ \A i \in 1 .. Len(p.names) : p.names[i] \notin Dots

\* What vfs_parse_path may refuse a path for
Refused(base, names) ==
    \/ \E n \in 0 .. Len(names) : Resolved(base, SubSeq(names, 1, n)) = ERR
    \/ \E i \in DOMAIN names : names[i] = ":"
    \/ \E n \in 0 .. Len(names) : Used(Resolved(base, SubSeq(names, 1, n)).names) > MAX_PATH - 1

\* The names of two paths, one behind the other
LEMMA ConcatIs ==
    ASSUME NEW S, NEW s \in Seq(S), NEW r \in Seq(S)
    PROVE  /\ s \o r \in Seq(S) /\ Len(s) \in Nat /\ Len(r) \in Nat /\ Len(s \o r) = Len(s) + Len(r)
           /\ \A k \in 1 .. Len(s) : (s \o r)[k] = s[k]
           /\ \A k \in 1 .. Len(r) : (s \o r)[Len(s) + k] = r[k]
  OBVIOUS

\* The first names of the second
LEMMA PrefixIs ==
    ASSUME NEW S, NEW s \in Seq(S), NEW r \in Seq(S), NEW i \in 0 .. Len(r)
    PROVE  /\ SubSeq(r, 1, i) \in Seq(S)
           /\ Len(s \o SubSeq(r, 1, i)) = Len(s) + i /\ Len(s) + i \in Nat
           /\ \A k \in 1 .. Len(s) + i : (s \o r)[k] = (s \o SubSeq(r, 1, i))[k]
<1> DEFINE p == SubSeq(r, 1, i)
<1>1. Len(r) \in Nat /\ i \in Nat /\ i <= Len(r) /\ 1 \in Int /\ i \in Int
  OBVIOUS
<1>2. p \in Seq(S) /\ Len(p) = i /\ \A k \in 1 .. i : p[k] = r[k]
  <2>1. \A k \in 1 .. i : r[k] \in S
    BY <1>1
  <2>2. /\ p \in Seq(S) /\ Len(p) = IF 1 <= i THEN i - 1 + 1 ELSE 0
        /\ \A k \in 1 .. i - 1 + 1 : p[k] = r[1 + k - 1]
    BY <1>1, <2>1, SubSeqProperties
  <2>3. i - 1 + 1 = i /\ (IF 1 <= i THEN i - 1 + 1 ELSE 0) = i /\ \A k \in 1 .. i : 1 + k - 1 = k
    BY <1>1
  <2> HIDE DEF p
  <2> QED
    BY <2>2, <2>3
<1> HIDE DEF p
<1>3. /\ Len(s) \in Nat /\ Len(s \o p) = Len(s) + i /\ Len(s) + i \in Nat
      /\ \A k \in 1 .. Len(s) : (s \o p)[k] = s[k] /\ (s \o r)[k] = s[k]
      /\ \A k \in 1 .. i : (s \o p)[Len(s) + k] = p[k]
      /\ \A k \in 1 .. Len(r) : (s \o r)[Len(s) + k] = r[k]
  <2>1. /\ Len(s) \in Nat /\ Len(s \o p) = Len(s) + Len(p)
        /\ \A k \in 1 .. Len(s) : (s \o p)[k] = s[k]
        /\ \A k \in 1 .. Len(p) : (s \o p)[Len(s) + k] = p[k]
    <3>1. p \in Seq(S)
      BY <1>2
    <3> QED
      BY <3>1, ConcatIs
  <2>2. /\ \A k \in 1 .. Len(s) : (s \o r)[k] = s[k]
        /\ \A k \in 1 .. Len(r) : (s \o r)[Len(s) + k] = r[k]
    BY ConcatIs
  <2>3. Len(s) + i \in Nat
    BY <1>1, <2>1
  <2> QED
    BY <1>2, <2>1, <2>2, <2>3, Zenon
<1>4. ASSUME NEW k \in 1 .. Len(s) + i PROVE (s \o r)[k] = (s \o p)[k]
  <2>1. CASE k \in 1 .. Len(s)
    BY <1>3, <2>1
  <2>2. CASE k \notin 1 .. Len(s)
    <3>1. k - Len(s) \in 1 .. i /\ k - Len(s) \in 1 .. Len(r) /\ Len(s) + (k - Len(s)) = k
      BY <1>1, <1>3, <2>2
    <3> DEFINE j == k - Len(s)
    <3> HIDE DEF j
    <3>2. j \in 1 .. i /\ j \in 1 .. Len(r) /\ Len(s) + j = k
      BY <3>1 DEF j
    <3> QED
      BY <1>2, <1>3, <3>2
  <2> QED
    BY <2>1, <2>2
<1> QED
  BY <1>2, <1>3, <1>4 DEF p

\* What the names up to the i-th mean, told from the whole of them
LEMMA PrefixMeans ==
    ASSUME NEW base, base.names \in Seq(Word), NEW names \in Seq(Word), NEW i \in 0 .. Len(names), NEW h,
           \A j \in 0 .. Len(base.names) + i : h[j] = Height(base.names \o names, j)
    PROVE  /\ \A st, e : Stacked(h, base.names \o names, Len(base.names) + i, st, e)
                => Resolved(base, SubSeq(names, 1, i)) = WithNames(base, st)
           /\ Len(base.names) + i >= 1 /\ h[Len(base.names) + i] < 0
                => Resolved(base, SubSeq(names, 1, i)) = ERR
<1> DEFINE all == base.names \o names
           p == SubSeq(names, 1, i)
           s == base.names \o p
           n == Len(base.names) + i
<1>1. Len(s) = n /\ n \in Nat /\ \A k \in 1 .. n : all[k] = s[k]
  <2>1. PICK b : b = base.names
    OBVIOUS
  <2>2. b \in Seq(Word)
    BY <2>1
  <2>3. /\ Len(b \o p) = Len(b) + i /\ Len(b) + i \in Nat
        /\ \A k \in 1 .. Len(b) + i : (b \o names)[k] = (b \o p)[k]
    BY <2>2, PrefixIs
  <2> HIDE DEF p
  <2> QED
    BY <2>1, <2>3, Zenon
<1>2. \A j \in 0 .. n : h[j] = Height(all, j)
  OBVIOUS
<1> HIDE DEF all, n
<1>3. \A j \in 0 .. n : h[j] = Height(s, j)
  <2> HIDE DEF s
  <2>1. \A j \in 0 .. n : Height(all, j) = Height(s, j)
    BY <1>1, HeightAlike
  <2> QED
    BY <1>2, <2>1
<1>4. ASSUME NEW st, NEW e, Stacked(h, all, n, st, e) PROVE Resolved(base, p) = WithNames(base, st)
  <2>1. Stacked(h, s, n, st, e)
    <3> HIDE DEF s
    <3> QED
      BY <1>1, <1>4, StackedAlike
  <2>2. Stacked(h, s, Len(s), st, e) /\ \A j \in 0 .. Len(s) : h[j] = Height(s, j)
    <3> HIDE DEF s
    <3> QED
      BY <1>1, <1>3, <2>1
  <2> HIDE DEF p
  <2>3. Through(h, base.names \o p, st, e)
    BY <2>2 DEF Through
  <2> QED
    BY <2>3, ResolvedIs, Zenon
<1>5. ASSUME n >= 1, h[n] < 0 PROVE Resolved(base, p) = ERR
  <2>1. n \in 0 .. n
    BY <1>1
  <2>2. Height(s, n) < 0
    <3> HIDE DEF s
    <3> QED
      BY <1>3, <1>5, <2>1
  <2> HIDE DEF p
  <2>3. n \in Nat /\ Len(base.names \o p) = n /\ n >= 1 /\ Height(base.names \o p, n) < 0
    BY <1>1, <1>5, <2>2 DEF s
  <2> QED
    BY <2>3, ResolvedErr
<1> HIDE DEF p
<1> QED
  BY <1>4, <1>5 DEF all, n, p

\* The loop after i names: it holds a path, with the label it began with, or has
\* met a reason to refuse the path.
LoopFits(base, names, h, i, out) ==
    /\ out \in Canonical
    /\ out # ERR => /\ out.label = base.label
                    /\ \E e : Stacked(h, base.names \o names, Len(base.names) + i, out.names, e)
    /\ out = ERR => Refused(base, names)

\* One name
LEMMA LoopStep ==
    ASSUME MAX_PATH \in Nat, "ERR" \notin Label,
           NEW base, Clean(base), NEW names \in Seq(Word), NEW h,
           \A j \in 0 .. Len(base.names) + Len(names) : h[j] = Height(base.names \o names, j),
           NEW i \in 1 .. Len(names), NEW out, LoopFits(base, names, h, i - 1, out)
    PROVE  LoopFits(base, names, h, i, CanonicalStep(out, names[i]))
<1> DEFINE all == base.names \o names
           b == Len(base.names)
           x == names[i]
           n == b + (i - 1)
           to == CanonicalStep(out, x)
<1>1. /\ base \in PathOf /\ base.names \in Seq(Word) /\ base.label \in Label
      /\ b \in Nat /\ Len(names) \in Nat /\ n \in Nat /\ n + 1 = b + i /\ n + 1 \in Nat /\ i \in 0 .. Len(names)
      /\ i \in DOMAIN names
  BY DEF Clean, PathOf
<1>2. all[n + 1] = x /\ x \in Word
  <2>1. PICK c : c = base.names
    OBVIOUS
  <2>2. c \in Seq(Word)
    BY <1>1, <2>1
  <2>3. \A k \in 1 .. Len(names) : (c \o names)[Len(c) + k] = names[k]
    BY <2>2, ConcatIs
  <2>4. all[b + i] = x
    BY <2>1, <2>3
  <2>5. x \in Word
    OBVIOUS
  <2> HIDE DEF all, x, n, b
  <2> QED
    BY <1>1, <2>4, <2>5
<1>3. h[n] \in Int /\ h[n + 1] = h[n] + Delta(x)
  <2>1. n \in 0 .. b + Len(names) /\ n + 1 \in 0 .. b + Len(names) /\ 1 <= n + 1 /\ (n + 1) - 1 = n
    BY <1>1
  <2>2. h[n] = Height(all, n) /\ h[n + 1] = Height(all, n + 1)
    BY <2>1
  <2> HIDE DEF all, n, x
  <2>3. /\ Height(all, (n + 1) - 1) \in Int
        /\ Height(all, n + 1) = Height(all, (n + 1) - 1) + Delta(all[n + 1])
    BY <1>1, <2>1, HeightStep
  <2> QED
    BY <1>2, <2>1, <2>2, <2>3
<1>4. /\ \A st, e : Stacked(h, all, n + 1, st, e) => Resolved(base, SubSeq(names, 1, i)) = WithNames(base, st)
      /\ n + 1 >= 1 /\ h[n + 1] < 0 => Resolved(base, SubSeq(names, 1, i)) = ERR
  <2>1. \A j \in 0 .. b + i : h[j] = Height(all, j)
    <3>1. \A j \in 0 .. b + i : j \in 0 .. b + Len(names)
      BY <1>1
    <3> QED
      BY <3>1
  <2>2. /\ \A st, e : Stacked(h, all, b + i, st, e) => Resolved(base, SubSeq(names, 1, i)) = WithNames(base, st)
        /\ b + i >= 1 /\ h[b + i] < 0 => Resolved(base, SubSeq(names, 1, i)) = ERR
    BY <1>1, <2>1, PrefixMeans
  <2> HIDE DEF all, n, b
  <2> QED
    BY <1>1, <2>2
<1>5. to \in Canonical /\ out \in Canonical /\ out.names \in Seq(Word)
  <2>1. out \in Canonical
    BY DEF LoopFits
  <2>2. to \in Canonical
    <3> HIDE DEF x
    <3> QED
      BY <1>2, <2>1, CanonicalStepType
  <2> QED
    BY <2>1, <2>2 DEF Canonical
<1> HIDE DEF all, b, x, n
<1> SUFFICES ASSUME TRUE
             PROVE  /\ to # ERR => to.label = base.label /\ \E e : Stacked(h, all, n + 1, to.names, e)
                    /\ to = ERR => Refused(base, names)
  <2> HIDE DEF to
  <2> QED
    BY <1>1, <1>5 DEF LoopFits, all, b, x, to
<1>6. CASE out = ERR
  <2>1. to = ERR /\ Refused(base, names)
    BY <1>6 DEF CanonicalStep, LoopFits
  <2> HIDE DEF to
  <2> QED
    BY <2>1
<1>7. CASE out # ERR
  <2>1. out.label = base.label
    BY <1>7 DEF LoopFits
  <2>2. PICK e : Stacked(h, all, n, out.names, e)
    BY <1>7 DEF LoopFits, all, n, b
  <2>3. h[n] = Len(out.names) /\ h[n] \in Nat
    <3>1. h[n] = Len(out.names) /\ n \in Nat /\ \A j \in 0 .. n : h[j] \in Nat
      BY <2>2 DEF Stacked
    <3> QED
      BY <3>1
  <2>4. CASE x = "."
    <3>1. to = out
      BY <2>4, Zenon DEF CanonicalStep
    <3>2. all[n + 1] \in Dots /\ h[n + 1] = h[n]
      BY <1>2, <1>3, <2>4 DEF Dots, Delta
    <3>3. Stacked(h, all, n + 1, out.names, e)
      BY <2>2, <3>2, StackedDot
    <3> HIDE DEF to
    <3> QED
      BY <1>7, <2>1, <3>1, <3>3
  <2>5. CASE x = ".." /\ out.names = <<>>
    <3>1. to = ERR
      BY <1>7, <2>5 DEF CanonicalStep
    <3>2. n + 1 >= 1 /\ h[n + 1] < 0
      <4>1. h[n] = 0 /\ Delta(x) = -1
        BY <2>3, <2>5 DEF Delta
      <4> QED
        BY <1>1, <1>3, <4>1
    <3>3. Resolved(base, SubSeq(names, 1, i)) = ERR
      BY <1>4, <3>2
    <3> HIDE DEF to
    <3> QED
      BY <1>1, <3>1, <3>3, Zenon DEF Refused
  <2>6. CASE x = ".." /\ out.names # <<>>
    <3>1. to = [out EXCEPT !.names = Front(out.names)]
      BY <1>7, <2>6 DEF CanonicalStep
    <3>2. to.names = Front(out.names) /\ to.label = out.label
      BY <1>5, <3>1 DEF Canonical
    <3>3. all[n + 1] \in Dots /\ h[n + 1] = h[n] - 1
      BY <1>2, <1>3, <2>6 DEF Dots, Delta
    <3>4. out.names # <<>>
      BY <2>6
    <3>5. Stacked(h, all, n + 1, Front(out.names), e)
      BY <2>2, <3>3, <3>4, StackedPop, Zenon
    <3>6. to # ERR
      BY <1>1, <2>1, <3>2 DEF ERR
    <3> HIDE DEF to
    <3> QED
      BY <2>1, <3>2, <3>5, <3>6
  <2>7. CASE x \notin {".", ".."}
    <3> DEFINE r == Append(out.names, x)
    <3>1. all[n + 1] \in Word /\ all[n + 1] \notin Dots /\ h[n + 1] = h[n] + 1
      BY <1>2, <1>3, <2>7 DEF Dots, Delta
    <3>2. PICK e2 : Stacked(h, all, n + 1, r, e2)
      <4>1. \E e2 : Stacked(h, all, n + 1, Append(out.names, all[n + 1]), e2)
        BY <2>2, <3>1, StackedPush
      <4> QED
        BY <1>2, <4>1
    <3>3. Resolved(base, SubSeq(names, 1, i)) = WithNames(base, r)
      <4> HIDE DEF r
      <4> QED
        BY <1>4, <3>2, Zenon
    <3>4. CASE x = ":"
      <4>1. to = ERR
        BY <1>7, <3>4 DEF CanonicalStep
      <4>2. Refused(base, names)
        BY <1>1, <3>4, Zenon DEF Refused, x
      <4> HIDE DEF to
      <4> QED
        BY <4>1, <4>2
    <3>5. CASE Used(out.names) > MAX_PATH - 3 /\ x # ""
      <4>1. to = ERR
        BY <1>7, <2>7, <3>5, Zenon DEF CanonicalStep
      <4>2. Used(out.names) \in Int /\ Used(r) = UsedBy(Used(out.names), x)
        BY <1>2, <1>5, UsedAppend
      <4>3. UsedBy(Used(out.names), x) = Used(out.names) + 1 + 1
        BY <3>5, Zenon DEF UsedBy
      <4>4. Used(r) > MAX_PATH - 1
        <5>1. PICK u : u = Used(out.names)
          OBVIOUS
        <5>2. PICK v : v = Used(r)
          OBVIOUS
        <5>3. u \in Int /\ v = u + 1 + 1 /\ u > MAX_PATH - 3
          BY <3>5, <4>2, <4>3, <5>1, <5>2, Zenon
        <5>4. v > MAX_PATH - 1
          BY ONLY MAX_PATH \in Nat, <5>3
        <5> QED
          BY <5>2, <5>4, Zenon
      <4> HIDE DEF r
      <4>5. Resolved(base, SubSeq(names, 1, i)).names = r
        <5>1. WithNames(base, r).names = r
          BY <1>1 DEF WithNames, PathOf
        <5> QED
          BY <3>3, <5>1, Zenon
      <4>6. Refused(base, names)
        <5>1. Used(Resolved(base, SubSeq(names, 1, i)).names) > MAX_PATH - 1
          BY <4>4, <4>5
        <5> QED
          BY <1>1, <5>1, Zenon DEF Refused
      <4> HIDE DEF to
      <4> QED
        BY <4>1, <4>6
    <3>6. CASE ~(x = ":" \/ (Used(out.names) > MAX_PATH - 3 /\ x # ""))
      <4>1. to = [out EXCEPT !.names = r]
        BY <1>7, <2>7, <3>6, Zenon DEF CanonicalStep
      <4> HIDE DEF r
      <4>2. to.names = r /\ to.label = out.label
        BY <1>5, <4>1 DEF Canonical
      <4>3. to # ERR
        BY <1>1, <2>1, <4>2 DEF ERR
      <4> HIDE DEF to
      <4> QED
        BY <2>1, <3>2, <4>2, <4>3
    <3> HIDE DEF to
    <3> QED
      BY <3>4, <3>5, <3>6
  <2> HIDE DEF to
  <2> QED
    BY <2>4, <2>5, <2>6, <2>7
<1> HIDE DEF to
<1> QED
  BY <1>6, <1>7

\* What vfs_parse_path makes of the names of a path
ParseFits(base, names, out) ==
    /\ out # ERR => Clean(out) /\ out = Resolved(base, names)
    /\ out = ERR => Refused(base, names)

\* The loop, from a working directory or a root, over any names
LEMMA LoopRight ==
    ASSUME NEW base, Clean(base), NEW names \in Seq(Word)
    PROVE  ParseFits(base, names, MakeCanonical(base, names))
<1> DEFINE all == base.names \o names
           b == Len(base.names)
           N == Len(names)
           h == [j \in 0 .. b + N |-> Height(all, j)]
<1>1. MAX_PATH \in Nat /\ "ERR" \notin Label
  BY NamesAssumption
<1>2. /\ base \in PathOf /\ base \in Canonical /\ base.names \in Seq(Word) /\ base.label \in Label
      /\ b \in Nat /\ N \in Nat
  BY DEF Clean, PathOf, Canonical
<1>3. \A j \in 0 .. b + N : h[j] = Height(all, j)
  OBVIOUS
<1> HIDE DEF h
<1>4. PICK f : /\ f[0] = base
               /\ \A i \in 1 .. N : f[i] = CanonicalStep(f[i - 1], names[i])
               /\ f[N] = MakeCanonical(base, names)
  BY <1>2, CanonicalSteps
<1>5. (\A k \in 1 .. b : all[k] = base.names[k]) /\ \A k \in 1 .. N : all[b + k] = names[k]
  <2>1. PICK c : c = base.names
    OBVIOUS
  <2>2. c \in Seq(Word)
    BY <1>2, <2>1
  <2>3. (\A k \in 1 .. Len(c) : (c \o names)[k] = c[k]) /\ \A k \in 1 .. N : (c \o names)[Len(c) + k] = names[k]
    BY <2>2, ConcatIs
  <2> QED
    BY <2>1, <2>3, Zenon
<1> DEFINE P == {i \in Nat : i <= N => LoopFits(base, names, h, i, f[i])}
<1>6. 0 \in P
  <2>1. \A k \in 1 .. b : base.names[k] = all[k] /\ all[k] \notin Dots
    BY <1>5 DEF Clean
  <2>2. h[0] = 0 /\ \A k \in 1 .. b : h[k] = h[k - 1] + 1
    <3>1. 0 \in 0 .. b + N /\ \A k \in 1 .. b : /\ k \in Nat /\ 1 <= k /\ k \in 0 .. b + N
                                                 /\ k - 1 \in 0 .. b + N
      BY <1>2
    <3> HIDE DEF all, b, N
    <3>2. Height(all, 0) = 0
      <4>1. 1 \in Nat /\ 1 <= 1
        OBVIOUS
      <4> QED
        BY <4>1, HeightStep
    <3>3. ASSUME NEW k \in 1 .. b PROVE h[k] = h[k - 1] + 1
      <4>1. Height(all, k) = Height(all, k - 1) + Delta(all[k])
        BY <3>1, HeightStep
      <4>2. Delta(all[k]) = 1
        BY <2>1 DEF Delta, Dots
      <4> QED
        BY <1>3, <3>1, <4>1, <4>2
    <3> QED
      BY <1>3, <3>1, <3>2, <3>3
  <2>3. PICK e : Stacked(h, all, b, base.names, e)
    <3> HIDE DEF all
    <3> QED
      BY <1>2, <2>1, <2>2, StackedClean
  <2>4. b + 0 = b
    BY <1>2
  <2>5. base # ERR
    BY <1>1, <1>2 DEF ERR
  <2>6. LoopFits(base, names, h, 0, base)
    <3> HIDE DEF b
    <3>1. Stacked(h, all, b + 0, base.names, e)
      BY <2>3, <2>4
    <3> QED
      BY <1>2, <2>5, <3>1 DEF LoopFits, b
  <2> QED
    BY <1>4, <2>6
<1>7. ASSUME NEW i \in 1 .. N, i - 1 \in P PROVE i \in P
  <2>1. i \in Nat /\ i - 1 <= N
    BY <1>2
  <2>2. LoopFits(base, names, h, i - 1, f[i - 1])
    BY <1>7, <2>1
  <2>3. LoopFits(base, names, h, i, CanonicalStep(f[i - 1], names[i]))
    BY <1>1, <1>3, <2>2, LoopStep
  <2>4. LoopFits(base, names, h, i, f[i])
    BY <1>4, <2>3
  <2> QED
    BY <2>1, <2>4
<1>8. LoopFits(base, names, h, N, f[N])
  <2>1. \A i \in 0 .. N : i \in P
    <3> HIDE DEF P, N
    <3> QED
      BY <1>2, <1>6, <1>7, UpTo
  <2> QED
    BY <1>2, <2>1
<1> DEFINE out == MakeCanonical(base, names)
<1>9. LoopFits(base, names, h, N, out)
  BY <1>4, <1>8
<1> HIDE DEF out
<1>10. ASSUME out # ERR PROVE Clean(out) /\ out = Resolved(base, names)
  <2>1. PICK e : Stacked(h, all, b + N, out.names, e)
    BY <1>9, <1>10 DEF LoopFits
  <2>2. out.label = base.label /\ out.names \in Seq(Word) /\ out \in Canonical
    BY <1>9, <1>10 DEF LoopFits, Canonical
  <2>3. SubSeq(names, 1, N) = names /\ N \in 0 .. N
    BY <1>2
  <2>4. Resolved(base, names) = WithNames(base, out.names)
    <3>1. /\ \A st, e2 : Stacked(h, all, b + N, st, e2)
                => Resolved(base, SubSeq(names, 1, N)) = WithNames(base, st)
          /\ b + N >= 1 /\ h[b + N] < 0 => Resolved(base, SubSeq(names, 1, N)) = ERR
      BY <1>2, <1>3, <2>3, PrefixMeans
    <3> HIDE DEF all, b, N
    <3> QED
      BY <2>1, <2>3, <3>1
  <2>5. out = WithNames(base, out.names)
    BY <1>2, <2>2 DEF WithNames, PathOf, Canonical
  <2>6. out \in PathOf
    BY <1>2, <2>2 DEF PathOf, Canonical
  <2>7. \A i \in 1 .. Len(out.names) : out.names[i] \notin Dots
    <3> HIDE DEF all
    <3> QED
      BY <2>1 DEF Stacked, Entries
  <2> QED
    BY <2>4, <2>5, <2>6, <2>7 DEF Clean
<1>11. ASSUME out = ERR PROVE Refused(base, names)
  BY <1>9, <1>11 DEF LoopFits
<1> QED
  BY <1>10, <1>11 DEF ParseFits, out

-----------------------------------------------------------------------------
\* The working directory has no dots; what a call holds is what its path means.
WalkFits(w) ==
    /\ w.pc \in {"idle", "stat", "store", "return"}
    /\ w.pc # "idle" => ParseFits(w.base, w.path.names, w.parsed)
    /\ w.pc \in {"stat", "store"} => w.parsed # ERR

PathsInv ==
    /\ Clean(cwd)
    /\ \A n \in DOMAIN tree : tree[n] \in {"dir", "file", "resource"}
    /\ walk = [t \in Walker |-> walk[t]]
    /\ \A t \in Walker : WalkFits(walk[t])
    /\ crossed \subseteq Walker

\* The root of a volume has no dots.
LEMMA EmptyClean == ASSUME NEW l \in Label PROVE Clean([label |-> l, names |-> <<>>])
<1>1. <<>> \in Seq(Word) /\ 1 .. Len(<<>>) = {}
  OBVIOUS
<1> QED
  BY <1>1 DEF Clean, PathOf

\* The invariant holds at the start
LEMMA PathsInit == NamesInit => PathsInv
<1> SUFFICES ASSUME NamesInit PROVE PathsInv
  OBVIOUS
<1>1. Clean(cwd)
  BY NamesAssumption, EmptyClean DEF NamesInit
<1>2. \A n \in DOMAIN tree : tree[n] \in {"dir", "file", "resource"}
  BY NamesAssumption DEF NamesInit
<1>3. WalkFits(AtRest)
  BY DEF AtRest, WalkFits
<1> QED
  BY <1>1, <1>2, <1>3 DEF NamesInit, PathsInv

\* A call that begins
LEMMA ParseKeeps ==
    ASSUME PathsInv, NEW t \in Walker, NEW path \in PathArg, NEW next \in {"stat", "return"}, Parse(t, path, next)
    PROVE  PathsInv'
<1> DEFINE base == ParseBase(path)
           out == ParsePath(path)
           w == [pc |-> IF out = ERR THEN "return" ELSE next, path |-> path, base |-> base, parsed |-> out]
<1>1. Clean(cwd) /\ cwd.label \in Label
  BY DEF PathsInv, Clean, PathOf
<1>2. /\ path.form \in {"root", "absolute", "relative"} /\ path.label \in Label /\ path.names \in Seq(Word)
  BY NamesAssumption DEF Word
<1>3. Clean(base)
  <2>1. CASE path.form = "root"
    <3>1. base = [label |-> cwd.label, names |-> <<>>]
      BY <1>1, <2>1 DEF ParseBase, Clean, PathOf
    <3> QED
      BY <1>1, <3>1, EmptyClean
  <2>2. CASE path.form = "absolute"
    <3>1. base = [label |-> path.label, names |-> <<>>]
      BY <2>2 DEF ParseBase
    <3> QED
      BY <1>2, <3>1, EmptyClean
  <2>3. CASE path.form = "relative"
    BY <1>1, <2>3 DEF ParseBase
  <2> QED
    BY <1>2, <2>1, <2>2, <2>3
<1>4. ParseFits(base, path.names, out)
  <2> HIDE DEF base
  <2> QED
    BY <1>2, <1>3, LoopRight DEF ParsePath, base
<1>5. PICK v : v = w
  OBVIOUS
<1>6. /\ walk' = [walk EXCEPT ![t] = v] /\ cwd' = cwd /\ tree' = tree /\ crossed' = crossed \ {t}
  BY <1>5, Zenon DEF Parse
<1> HIDE DEF out, base
<1>7. WalkFits(v)
  BY <1>4, <1>5 DEF WalkFits
<1> QED
  BY <1>6, <1>7 DEF PathsInv

\* A call that goes on, or ends
LEMMA WalkKeeps ==
    ASSUME PathsInv, NEW t \in Walker, NEW v, WalkFits(v), walk' = [walk EXCEPT ![t] = v],
           Clean(cwd'), tree' = tree, crossed' \subseteq Walker
    PROVE  PathsInv'
  BY DEF PathsInv

\* and every step keeps it,
LEMMA PathsNext == PathsInv /\ [NamesNext]_namesVars => PathsInv'
<1> SUFFICES ASSUME PathsInv, [NamesNext]_namesVars PROVE PathsInv'
  OBVIOUS
<1>0. /\ Clean(cwd) /\ crossed \subseteq Walker /\ WalkFits(AtRest)
      /\ \A t \in Walker : WalkFits(walk[t])
  BY DEF PathsInv, WalkFits, AtRest
<1>1. ASSUME NEW t \in Walker, NEW path \in PathArg, Chdir(t, path) \/ Realpath(t, path) PROVE PathsInv'
  BY <1>1, ParseKeeps DEF Chdir, Realpath
<1>2. ASSUME NEW t \in Walker, ParseReturn(t) PROVE PathsInv'
  <2>1. walk' = [walk EXCEPT ![t] = AtRest] /\ cwd' = cwd /\ tree' = tree /\ crossed' = crossed
    BY <1>2 DEF ParseReturn, WalkReturn
  <2> QED
    BY <1>0, <2>1, WalkKeeps
<1>3. ASSUME NEW t \in Walker, ChdirStat(t) PROVE PathsInv'
  <2>1. /\ walk[t].pc = "stat" /\ cwd' = cwd /\ tree' = tree /\ crossed' = crossed
        /\ (walk' = [walk EXCEPT ![t] = AtRest]) \/ (walk' = [walk EXCEPT ![t].pc = "store"])
    BY <1>3 DEF ChdirStat, WalkReturn
  <2>2. CASE walk' = [walk EXCEPT ![t] = AtRest]
    BY <1>0, <2>1, <2>2, WalkKeeps
  <2>3. CASE walk' = [walk EXCEPT ![t].pc = "store"]
    <3> DEFINE v == [walk[t] EXCEPT !.pc = "store"]
    <3>1. walk' = [walk EXCEPT ![t] = v]
      BY <2>3
    <3>2. WalkFits(v)
      BY <1>0, <2>1 DEF WalkFits
    <3> HIDE DEF v
    <3> QED
      BY <1>0, <2>1, <3>1, <3>2, WalkKeeps
  <2> QED
    BY <2>1, <2>2, <2>3
<1>4. ASSUME NEW t \in Walker, ChdirStore(t) PROVE PathsInv'
  <2>1. /\ walk' = [walk EXCEPT ![t] = AtRest] /\ cwd' = walk[t].parsed /\ tree' = tree
        /\ walk[t].pc = "store" /\ crossed' \subseteq Walker
    BY <1>0, <1>4 DEF ChdirStore, WalkReturn
  <2>2. Clean(walk[t].parsed)
    BY <1>0, <2>1 DEF WalkFits, ParseFits
  <2> QED
    BY <1>0, <2>1, <2>2, WalkKeeps
<1>5. ASSUME NEW e \in Exposed, SysfsExpose(e) PROVE PathsInv'
  <2>1. cwd' = cwd /\ walk' = walk /\ crossed' = crossed
    BY <1>5 DEF SysfsExpose
  <2>2. \A n \in DOMAIN tree' : tree'[n] \in {"dir", "file", "resource"}
    <3>1. \A n \in DOMAIN tree : tree[n] \in {"dir", "file", "resource"}
      BY DEF PathsInv
    <3> QED
      BY <1>5, <3>1 DEF SysfsExpose
  <2> QED
    BY <2>1, <2>2 DEF PathsInv
<1>6. CASE UNCHANGED namesVars
  BY <1>6 DEF PathsInv, namesVars
<1> QED
  BY <1>1, <1>2, <1>3, <1>4, <1>5, <1>6, Zenon DEF NamesNext

\* and it says what the property says.
LEMMA PathsFollow == PathsInv => PathsResolve
<1> SUFFICES ASSUME PathsInv PROVE PathsResolve
  OBVIOUS
<1>1. NamesTypeOK
  BY DEF PathsInv, NamesTypeOK, WalkFits, Clean, PathOf, Word
<1>2. ASSUME NEW t \in Walker, walk[t].pc # "idle"
      PROVE  ParseFits(walk[t].base, walk[t].path.names, walk[t].parsed)
  BY <1>2 DEF PathsInv, WalkFits
<1> QED
  BY <1>1, <1>2, Zenon DEF PathsResolve, ParseFits, Refused

\* What vfs_parse_path makes of a path, of any length and with any names, is what the
\* path means: the names that no later ".." takes back.  It refuses only a path that
\* climbs out of its volume, holds an invalid character or grows too long.
THEOREM NamesPathsResolve == NamesSpec => []PathsResolve
<1>1. NamesInit => PathsInv
  BY PathsInit
<1>2. PathsInv /\ [NamesNext]_namesVars => PathsInv'
  BY PathsNext
<1>3. PathsInv => PathsResolve
  BY PathsFollow
<1> QED
  BY <1>1, <1>2, <1>3, PTL DEF NamesSpec
=============================================================================
