------------------------------- MODULE MCVfs -------------------------------
(***************************************************************************)
(* Small instances of what the threads of a process share, in one run:     *)
(* files and descriptors, paths and the working directory, and the table   *)
(* of thread blocks.  A behaviour is one of the part that unit names.      *)
(***************************************************************************)
EXTENDS Vfs, Names, Thrd

CONSTANTS p1, t1, t2

VARIABLE unit

shared == <<unit, vars, namesVars, thrdVars>>

\* Two threads in one process; the other process is the child they spawn.
OneProcess == (t1 :> p1) @@ (t2 :> p1)

\* No action names a file slot, and the threads belong to one process.
Symmetry == Permutations(File) \cup Permutations({t1, t2})

\* A volume with directories and files, and what a driver adds to sysfs
MCHome == (<<"home">> :> "dir") @@ (<<"home", "a">> :> "dir") @@ (<<"home", "b">> :> "file")
            @@ (<<"home", "a", "b">> :> "dir") @@ (<<"home", "a", "a">> :> "file")
MCExposed == {[path |-> <<"a">>, name |-> "b"], [path |-> <<>>, name |-> "b"]}

\* Every form of a path; empty, dotted and invalid names
MCPath ==
    [form: {"relative"}, label: {"sys"},
     names: {<<"a">>, <<"..">>, <<"a", "..", "b">>, <<"a", "">>, <<"a", ":">>}]
    \cup [form: {"root"}, label: {"sys"}, names: {<<>>, <<"..">>}]
    \cup [form: {"absolute"}, label: {"home"}, names: {<<"a", "b">>}]

SharedInit ==
    /\ unit \in {"vfs", "names", "thrd"}
    /\ Init /\ NamesInit /\ ThrdInit
    /\ unit # "vfs" => process[p1] = "live"
    /\ unit # "thrd" => \A t \in Tid, code \in Code : thrds[t].code <= code

SharedNext ==
    /\ UNCHANGED unit
    /\ \/ unit = "vfs" /\ Next /\ UNCHANGED <<namesVars, thrdVars>>
       \/ unit = "names" /\ NamesNext /\ UNCHANGED <<vars, thrdVars>>
       \/ unit = "thrd" /\ ThrdNext /\ UNCHANGED <<vars, namesVars>>

SharedSpec == SharedInit /\ [][SharedNext]_shared
=============================================================================
