----------------------------- MODULE ThreadLife -----------------------------
(***************************************************************************)
(* What the scheduler promises about the life of a thread, whatever CPUs,  *)
(* queues, blockers and processes there are: a thread is created ready,    *)
(* only a ready thread is put on a CPU, a blocked thread becomes ready     *)
(* before it runs again and is never freed, and a thread that has exited   *)
(* is reaped and does nothing else.                                        *)
(***************************************************************************)
CONSTANT Thread

VARIABLE life

States == {"free", "ready", "running", "blocked", "dead"}

Init ==
    \E t \in Thread :
        life = [u \in Thread |-> IF u = t THEN "running" ELSE "free"]

\* What can happen to one thread: it is created, dispatched, blocks, is woken,
\* exits and is reaped.  A thread of a killed process need not run again to
\* disappear.
Change == {
    <<"free", "ready">>,
    <<"ready", "running">>,
    <<"running", "blocked">>,
    <<"blocked", "ready">>,
    <<"running", "dead">>,
    <<"dead", "free">>,
    <<"ready", "free">>}

OnlyChanged(T) == \A u \in Thread \ T : life'[u] = life[u]

Step(t) == <<life[t], life'[t]>> \in Change /\ OnlyChanged({t})

\* A CPU exchanges its thread for a ready one.
Preempt(t, u) ==
    /\ life[t] = "running" /\ life'[t] = "ready"
    /\ life[u] = "ready" /\ life'[u] = "running"
    /\ OnlyChanged({t, u})

Next ==
    \/ \E t \in Thread : Step(t)
    \/ \E t, u \in Thread : Preempt(t, u)

Spec == Init /\ [][Next]_life
=============================================================================
