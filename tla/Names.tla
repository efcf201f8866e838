-------------------------------- MODULE Names -------------------------------
(***************************************************************************)
(* Paths and the working directory: vfs_parse_path, vfs_realpath and       *)
(* vfs_chdir of src/kernel/vfs.c, the node tree of sys/node.h, and         *)
(* sysfs_expose of sysfs.c, which makes the tree grow.                     *)
(*                                                                         *)
(* A path is the sequence of its names; every name is one character long,  *)
(* or empty between two separators.  Names.tla is about which node a path  *)
(* means; Vfs.tla is about the files behind it.                            *)
(***************************************************************************)
EXTENDS Integers, Sequences, SequencesExt, FiniteSets

CONSTANTS
    Walker,         \* threads of one process
    Label,          \* labels of volumes
    PathArg,        \* the paths they use
    Exposed,        \* what drivers expose: directories, and the name in them
    HomeTree,       \* nodes of the other volumes, which never change
    SysLabel,       \* the volume of sysfs
    MAX_PATH

\* "ERR" stands for the error of vfs_parse_path, and names no volume.
ASSUME NamesAssumption ==
    /\ MAX_PATH \in Nat
    /\ SysLabel \in Label /\ "ERR" \notin Label
    /\ \A p \in PathArg : /\ p.form \in {"root", "absolute", "relative"} /\ p.label \in Label
                         /\ p.names \in Seq(STRING)
    /\ \A n \in DOMAIN HomeTree : HomeTree[n] \in {"dir", "file", "resource"}

VARIABLES
    cwd,            \* context->cwd
    tree,           \* the type of every node, by its label and names
    walk,           \* locals of vfs_chdir and vfs_realpath
    crossed         \* walkers during whose vfs_chdir another one took effect

namesVars == <<cwd, tree, walk, crossed>>

ERR == [label |-> "ERR", names |-> <<>>]

NamesTypeOK ==
    /\ cwd \in [label: Label, names: Seq(STRING)]
    /\ \A n \in DOMAIN tree : tree[n] \in {"dir", "file", "resource"}
    /\ \A t \in Walker : walk[t].pc \in {"idle", "stat", "store", "return"}
    /\ crossed \subseteq Walker

-----------------------------------------------------------------------------
(* vfs_parse_path *)

\* Characters behind the label: the separator in front of the names, and the names
\* with the separator behind each
Used(names) == 1 + FoldLeft(LAMBDA n, name : n + 1 + (IF name = "" THEN 0 ELSE 1), 0, names)

\* Mutant: ".." never leaves the first directory.
CanonicalStepSticks(out, name) ==
    CASE out = ERR \/ name = "." -> out
      [] out # ERR /\ name = ".." ->
            IF Len(out.names) < 2 THEN out ELSE [out EXCEPT !.names = Front(@)]
      [] out # ERR /\ name \notin {".", ".."} ->
            IF Used(out.names) > MAX_PATH - 3 /\ name # "" THEN ERR
            ELSE [out EXCEPT !.names = Append(@, name)]

\* One name of vfs_make_canonical; ":" stands for an invalid character.
CanonicalStep(out, name) ==
    CASE out = ERR \/ name = "." -> out
      [] out # ERR /\ name = ".." ->
            IF out.names = <<>> THEN ERR ELSE [out EXCEPT !.names = Front(@)]
      [] out # ERR /\ name \notin {".", ".."} ->
            IF name = ":" \/ (Used(out.names) > MAX_PATH - 3 /\ name # "") THEN ERR
            ELSE [out EXCEPT !.names = Append(@, name)]

\* Where the names are put: the root of the volume of the working directory,
\* that of the label, or the working directory
ParseBase(path) ==
    CASE path.form = "root" -> [cwd EXCEPT !.names = <<>>]
      [] path.form = "absolute" -> [label |-> path.label, names |-> <<>>]
      [] path.form = "relative" -> cwd

\* The loop of vfs_make_canonical
MakeCanonical(base, names) == FoldLeft(CanonicalStep, base, names)

ParsePath(path) == MakeCanonical(ParseBase(path), path.names)

-----------------------------------------------------------------------------
(* The node tree *)

Node(path) == <<path.label>> \o path.names

\* node_traverse: an empty name is no node's.
Traverse(path) == IF Node(path) \in DOMAIN tree THEN tree[Node(path)] ELSE "none"

\* sysfs_expose: missing directories are made.  node_find takes the first of
\* two nodes with one name, so that a second resource cannot be reached.
SysfsExpose(e) ==
    LET at(n) == <<SysLabel>> \o SubSeq(e.path, 1, n)
        made == {at(n) : n \in 0 .. Len(e.path)}
        resource == Append(at(Len(e.path)), e.name)
    IN  /\ resource \notin DOMAIN tree
        /\ tree' = [n \in DOMAIN tree \cup made \cup {resource} |->
                        IF n \in DOMAIN tree THEN tree[n]
                        ELSE IF n = resource THEN "resource" ELSE "dir"]
        /\ UNCHANGED <<cwd, walk, crossed>>

-----------------------------------------------------------------------------
(* vfs_realpath, vfs_chdir *)

AtRest ==
    LET root == [label |-> SysLabel, names |-> <<>>]
    IN  [pc |-> "idle", path |-> [form |-> "relative", label |-> SysLabel, names |-> <<>>],
         base |-> root, parsed |-> root]

\* The end of a call
WalkReturn(t) == walk' = [walk EXCEPT ![t] = AtRest]

\* The first call of vfs_parse_path; it reads the working directory under the lock.
Parse(t, path, next) ==
    /\ walk[t].pc = "idle"
    /\ walk' = [walk EXCEPT ![t] =
                    [pc |-> IF ParsePath(path) = ERR THEN "return" ELSE next,
                     path |-> path, base |-> ParseBase(path), parsed |-> ParsePath(path)]]
    /\ crossed' = crossed \ {t}
    /\ UNCHANGED <<cwd, tree>>

Chdir(t, path) == Parse(t, path, "stat")

Realpath(t, path) == Parse(t, path, "return")

ParseReturn(t) == walk[t].pc = "return" /\ WalkReturn(t) /\ UNCHANGED <<cwd, tree, crossed>>

\* Mutant: the type of the node is not looked at.
ChdirStatAny(t) ==
    LET found == ParsePath(walk[t].path)
    IN  /\ walk[t].pc = "stat"
        /\ IF found # ERR /\ Traverse(found) # "none"
           THEN walk' = [walk EXCEPT ![t].pc = "store"] ELSE WalkReturn(t)
        /\ UNCHANGED <<cwd, tree, crossed>>

\* vfs_stat parses the path again, whatever the working directory is by now.
ChdirStat(t) ==
    LET found == ParsePath(walk[t].path)
    IN  /\ walk[t].pc = "stat"
        /\ IF found # ERR /\ Traverse(found) = "dir"
           THEN walk' = [walk EXCEPT ![t].pc = "store"] ELSE WalkReturn(t)
        /\ UNCHANGED <<cwd, tree, crossed>>

ChdirStore(t) ==
    /\ walk[t].pc = "store"
    /\ cwd' = walk[t].parsed
    /\ crossed' = crossed \cup {u \in Walker \ {t} : walk[u].pc \in {"stat", "store"}}
    /\ WalkReturn(t)
    /\ UNCHANGED tree

\* vfs_context_init, with the volumes mounted
NamesInit ==
    /\ cwd = [label |-> SysLabel, names |-> <<>>]
    /\ tree = [n \in DOMAIN HomeTree \cup {<<SysLabel>>} |->
                    IF n = <<SysLabel>> THEN "dir" ELSE HomeTree[n]]
    /\ walk = [t \in Walker |-> AtRest]
    /\ crossed = {}

NamesNext ==
    \/ \E t \in Walker :
        \/ \E path \in PathArg : Chdir(t, path) \/ Realpath(t, path)
        \/ ChdirStat(t) \/ ChdirStore(t) \/ ParseReturn(t)
    \/ \E e \in Exposed : SysfsExpose(e)

NamesSpec == NamesInit /\ [][NamesNext]_namesVars

-----------------------------------------------------------------------------
(* Properties *)

\* Sums of names and of ".." in a part of a path
Downs(names, i, j) == Cardinality({k \in i .. j : names[k] \notin {".", ".."}})
Ups(names, i, j) == Cardinality({k \in i .. j : names[k] = ".."})

\* What a path means: of all the names, from the root, those stay that no later
\* ".." takes back, and no beginning of it climbs out of the volume.
Resolved(base, names) ==
    LET all == base.names \o names
        n == Len(all)
        stays(i) == /\ all[i] \notin {".", ".."}
                    /\ \A j \in i + 1 .. n : Ups(all, i, j) # Downs(all, i, j)
        kept == {i \in 1 .. n : stays(i)}
    IN  IF \E j \in 1 .. n : Ups(all, 1, j) > Downs(all, 1, j) THEN ERR
        ELSE [base EXCEPT !.names = [i \in 1 .. Cardinality(kept) |->
                 all[CHOOSE k \in kept : Cardinality({l \in kept : l <= k}) = i]]]

\* vfs_parse_path gives every path its meaning, or refuses one that climbs out
\* of its volume, holds an invalid character or grows too long on the way.
PathsResolve == NamesTypeOK /\ \A t \in {u \in Walker : walk[u].pc # "idle"} :
    LET w == walk[t]
        long == \E n \in 0 .. Len(w.path.names) :
                    Used(Resolved(w.base, SubSeq(w.path.names, 1, n)).names) > MAX_PATH - 1
    IN  /\ w.parsed # ERR => w.parsed = Resolved(w.base, w.path.names)
        /\ w.parsed = ERR => \/ \E n \in 0 .. Len(w.path.names) :
                                    Resolved(w.base, SubSeq(w.path.names, 1, n)) = ERR
                             \/ \E i \in DOMAIN w.path.names : w.path.names[i] = ":"
                             \/ long

\* The working directory is a directory that exists, as long as no two
\* vfs_chdir of the process overlapped.
CwdIsDirectory == [][cwd' # cwd =>
    \A t \in Walker \ crossed : walk[t].pc = "store" /\ walk'[t].pc = "idle" => Traverse(cwd') = "dir"]_namesVars
=============================================================================
