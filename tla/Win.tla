-------------------------------- MODULE Win ---------------------------------
(***************************************************************************)
(* The loop of a client of the window manager, src/stdlib/win/win.c:       *)
(* win_receive with its timer, win_dispatch, and the widgets with their    *)
(* rings of messages.                                                      *)
(*                                                                         *)
(* Nanoseconds are counted modulo NsecSize, as nsec_t does modulo 2^64.    *)
(* The queue behind IOCTL_WINDOW_RECEIVE is that of module EventRing; here *)
(* only the number of its messages matters.                                *)
(***************************************************************************)
EXTENDS Integers, Sequences, SequencesExt, FiniteSets

CONSTANTS
    WidgetId,
    WIN_WIDGET_MAX_MSG,
    Timeout,        \* timeouts a program passes, besides NEVER
    NsecSize,       \* 2^64
    ClockMax,       \* bound on the time
    QueueMax        \* bound on the messages waiting in the kernel

ASSUME WinAssumption ==
    /\ WidgetId \subseteq Nat
    /\ WIN_WIDGET_MAX_MSG \in Nat \ {0, 1}
    /\ ClockMax \in Nat /\ NsecSize \in Nat /\ NsecSize > 2 * ClockMax
    /\ QueueMax \in Nat
    /\ Timeout \subseteq 0 .. ClockMax

VARIABLES
    clock,          \* uptime()
    loop,           \* win_receive and win_dispatch
    queued,         \* messages in the queue of the window
    timerDeadline,
    widgets         \* the list of the window

winVars == <<clock, loop, queued, timerDeadline, widgets>>

NEVER == NsecSize - 1
Nsec == 0 .. NsecSize - 1

\* due: messages sent and not yet dispatched, whatever the ring says
Widget == [id: WidgetId, read: 0 .. WIN_WIDGET_MAX_MSG - 1, write: 0 .. WIN_WIDGET_MAX_MSG - 1,
           due: 0 .. WIN_WIDGET_MAX_MSG]

\* "run": in the program; "ioctl": about to enter the kernel with what remains;
\* "blocked": in msg_queue_pop, up to wake; "back": with no message; "proc": in
\* the window procedure, called by win_dispatch
WinTypeOK ==
    /\ clock \in 0 .. ClockMax /\ queued \in 0 .. QueueMax /\ timerDeadline \in Nsec
    /\ loop \in [pc: {"run", "ioctl", "blocked", "back", "proc"},
                 deadline: Nsec, upTime: 0 .. ClockMax, remaining: Nsec, entered: 0 .. ClockMax, wake: Nsec]
    /\ \A i \in DOMAIN widgets : widgets[i] \in Widget

\* Outside of win_receive its locals have no value.
InLoop(pc) == [pc |-> pc, deadline |-> NEVER, upTime |-> 0, remaining |-> NEVER, entered |-> 0,
               wake |-> NEVER]

-----------------------------------------------------------------------------
(* The widgets *)

\* win_widget_send: there is no check that the ring is full.
WidgetSent(w) ==
    [w EXCEPT !.write = (@ + 1) % WIN_WIDGET_MAX_MSG,
              !.due = IF @ < WIN_WIDGET_MAX_MSG THEN @ + 1 ELSE @]

\* The loop of win_dispatch
WidgetServed(w) == [w EXCEPT !.read = w.write, !.due = 0]

\* win_widget stops at the first larger id.
WidgetFind(list, id) ==
    \E i \in DOMAIN list : list[i].id = id /\ \A j \in 1 .. i - 1 : list[j].id < id

\* Mutant: a new widget is the last.
WidgetInsertLast(list, w) == Append(list, w)

\* In front of the first larger id
WidgetInsert(list, w) ==
    LET larger == {i \in DOMAIN list : list[i].id > w.id}
    IN  IF larger = {} THEN Append(list, w)
        ELSE InsertAt(list, CHOOSE i \in larger : \A j \in larger : i <= j, w)

InProgram == loop.pc \in {"run", "proc"}

\* win_widget_new; the widget starts with the message to draw itself.
WidgetNew(id) ==
    /\ InProgram
    /\ ~WidgetFind(widgets, id)
    /\ widgets' = WidgetInsert(widgets, WidgetSent([id |-> id, read |-> 0, write |-> 0, due |-> 0]))
    /\ UNCHANGED <<clock, loop, queued, timerDeadline>>

WidgetFree(i) ==
    /\ InProgram
    /\ widgets' = RemoveAt(widgets, i)
    /\ UNCHANGED <<clock, loop, queued, timerDeadline>>

\* win_widget_send, win_widget_name_set
WidgetSend(i) ==
    /\ InProgram
    /\ widgets' = [widgets EXCEPT ![i] = WidgetSent(@)]
    /\ UNCHANGED <<clock, loop, queued, timerDeadline>>

-----------------------------------------------------------------------------
(* win_timer_set, win_receive *)

TimerSet(timeout) ==
    /\ InProgram
    /\ timerDeadline' = IF timeout = NEVER THEN NEVER ELSE (timeout + clock) % NsecSize
    /\ UNCHANGED <<clock, loop, queued, widgets>>

\* Mutant: the timer is left out.
RemainingWithout(deadline, upTime) == IF deadline = NEVER THEN NEVER ELSE (deadline - upTime) % NsecSize

\* The head of the loop.  A deadline that has passed wraps around.
Remaining(deadline, upTime) ==
    LET next == IF deadline < timerDeadline THEN deadline ELSE timerDeadline
    IN  IF next = NEVER THEN NEVER ELSE (next - upTime) % NsecSize

Receive(timeout) ==
    LET deadline == IF timeout = NEVER THEN NEVER ELSE (timeout + clock) % NsecSize
    IN  /\ loop.pc = "run"
        /\ loop' = [loop EXCEPT !.pc = "ioctl", !.deadline = deadline, !.upTime = clock,
                                !.remaining = Remaining(deadline, clock)]
        /\ UNCHANGED <<clock, queued, timerDeadline, widgets>>

\* The deadline that msg_queue_pop gives SCHED_BLOCK_LOCK_TIMEOUT
ReceiveEnter ==
    /\ loop.pc = "ioctl"
    /\ loop' = [loop EXCEPT !.pc = "blocked", !.entered = clock,
                    !.wake = IF loop.remaining = NEVER THEN NEVER
                             ELSE (loop.remaining + clock) % NsecSize]
    /\ UNCHANGED <<clock, queued, timerDeadline, widgets>>

\* A message: back to the program, which dispatches it.
ReceiveMessage ==
    /\ loop.pc = "blocked"
    /\ queued > 0 /\ ~(loop.wake < clock)
    /\ queued' = queued - 1
    /\ loop' = InLoop("run")
    /\ UNCHANGED <<clock, timerDeadline, widgets>>

\* Timed out
ReceiveNone ==
    /\ loop.pc = "blocked"
    /\ loop.wake < clock \/ (loop.wake = clock /\ queued = 0)
    /\ loop' = [loop EXCEPT !.pc = "back"]
    /\ UNCHANGED <<clock, queued, timerDeadline, widgets>>

\* The rest of the loop: the timer, the deadline, or another round
ReceiveBack ==
    /\ loop.pc = "back"
    /\ CASE timerDeadline <= clock ->
              timerDeadline' = NEVER /\ loop' = InLoop("run")
         [] timerDeadline > clock /\ loop.deadline < clock ->
              loop' = InLoop("run") /\ UNCHANGED timerDeadline
         [] OTHER ->
              /\ loop' = [loop EXCEPT !.pc = "ioctl", !.upTime = clock,
                                      !.remaining = Remaining(loop.deadline, clock)]
              /\ UNCHANGED timerDeadline
    /\ UNCHANGED <<clock, queued, widgets>>

-----------------------------------------------------------------------------
(* win_dispatch *)

\* win_background_procedure; all: a message every widget is sent
WinDispatch(all) ==
    /\ loop.pc = "run"
    /\ loop' = [loop EXCEPT !.pc = "proc"]
    /\ widgets' = IF all THEN [i \in DOMAIN widgets |-> WidgetSent(widgets[i])] ELSE widgets
    /\ UNCHANGED <<clock, queued, timerDeadline>>

DispatchWidgets ==
    /\ loop.pc = "proc"
    /\ loop' = [loop EXCEPT !.pc = "run"]
    /\ widgets' = [i \in DOMAIN widgets |-> WidgetServed(widgets[i])]
    /\ UNCHANGED <<clock, queued, timerDeadline>>

\* External: time passes, and the window manager sends messages.
ClockTick ==
    /\ clock < ClockMax
    /\ clock' = clock + 1
    /\ UNCHANGED <<loop, queued, timerDeadline, widgets>>

MessageArrives ==
    /\ queued < QueueMax
    /\ queued' = queued + 1
    /\ UNCHANGED <<clock, loop, timerDeadline, widgets>>

\* win_new
WinInit ==
    /\ clock = 0
    /\ loop = InLoop("run")
    /\ queued = 0
    /\ timerDeadline = NEVER
    /\ widgets = <<>>

WinNext ==
    \/ \E timeout \in Timeout \cup {NEVER} : TimerSet(timeout) \/ Receive(timeout)
    \/ \E id \in WidgetId : WidgetNew(id)
    \/ \E i \in DOMAIN widgets : WidgetFree(i) \/ WidgetSend(i)
    \/ \E all \in BOOLEAN : WinDispatch(all)
    \/ ReceiveEnter \/ ReceiveMessage \/ ReceiveNone \/ ReceiveBack
    \/ DispatchWidgets \/ ClockTick \/ MessageArrives

WinSpec == WinInit /\ [][WinNext]_winVars

-----------------------------------------------------------------------------
(* Properties *)

\* A timer or a timeout that had passed by one nanosecond when win_receive looked
\* at the time: what remains is NEVER.
OneLate == \E d \in {loop.deadline, timerDeadline} : d # NEVER /\ loop.upTime = d + 1

\* A client asleep in win_receive wakes for its timer and for its timeout, late by
\* no more than the time between the look at the clock and the sleep; a
\* deadline that has passed already, and wrapped around, wakes it too.
TimerWakes == loop.pc = "blocked" /\ ~OneLate =>
    \A d \in {loop.deadline, timerDeadline} : d # NEVER =>
        loop.wake <= (IF d > loop.upTime THEN d ELSE loop.upTime) + loop.entered - loop.upTime

\* win_widget, which stops at the first larger id, finds every widget, and no
\* two have one id.
WidgetsFound == \A i, j \in DOMAIN widgets :
    WidgetFind(widgets, widgets[i].id) /\ (widgets[i].id = widgets[j].id => i = j)

\* As long as fewer messages than the ring has entries were sent to a widget
\* since the last win_dispatch, all of them are in the ring.
WidgetRingWhole == \A i \in DOMAIN widgets :
    LET w == widgets[i]
    IN  w.due < WIN_WIDGET_MAX_MSG => (w.write - w.read) % WIN_WIDGET_MAX_MSG = w.due

\* Widgets are found, and get what was sent to them as long as it fits.
WidgetsServed == WinTypeOK /\ WidgetsFound /\ WidgetRingWhole
=============================================================================
