----------------------------- MODULE EventQueue -----------------------------
(***************************************************************************)
(* What the event rings of the kernel promise: every reader gets every     *)
(* event, in order, unless it falls behind by a whole ring, in which case  *)
(* it loses all it had not read.                                           *)
(***************************************************************************)
EXTENDS Sequences, Integers

CONSTANTS Reader, Event, QueueMax

VARIABLES
    put,        \* the last event pushed
    unread,     \* what each reader has still to read
    got         \* what its last read returned, <<>> before

EQInit ==
    /\ put \in Event
    /\ unread = [r \in Reader |-> <<>>]
    /\ got = [r \in Reader |-> <<>>]

EQPush(e) ==
    /\ put' = e
    /\ unread' = [r \in Reader |->
                    IF Len(unread[r]) + 1 = QueueMax THEN <<>> ELSE Append(unread[r], e)]
    /\ UNCHANGED got

EQRead(r) ==
    /\ unread[r] # <<>>
    /\ unread' = [unread EXCEPT ![r] = Tail(@)]
    /\ got' = [got EXCEPT ![r] = <<Head(unread[r])>>]
    /\ UNCHANGED put

EQNext == (\E e \in Event : EQPush(e)) \/ (\E r \in Reader : EQRead(r))

EQSpec == EQInit /\ [][EQNext]_<<put, unread, got>>
=============================================================================
