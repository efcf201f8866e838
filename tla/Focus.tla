------------------------------- MODULE Focus --------------------------------
(***************************************************************************)
(* Who gets the input: the selection of src/kernel/dwm/dwm.c, the mouse    *)
(* and keyboard it reads, the message queues of the windows, and the       *)
(* clients that read them: src/stdlib/win/win.c, with the title bar by     *)
(* which a window is dragged and the button that closes it.                *)
(*                                                                         *)
(* All of it but the queues is guarded by the lock of the manager.  The    *)
(* queues are those module EventRing implements.                           *)
(***************************************************************************)
EXTENDS Sequences, Naturals

CONSTANTS
    Window,         \* windows and panels
    MSG_QUEUE_MAX,
    None

ASSUME FocusAssumption ==
    /\ MSG_QUEUE_MAX \in Nat \ {0, 1}
    /\ None \notin Window

VARIABLES
    focus,          \* selected of dwm.c
    client,         \* the windows, their queues, and what their clients know
    button,         \* the button of the mouse
    batch,          \* what dwm_poll_mouse has to add up: any event, any with the button down
    oldButtons

focusVars == <<focus, client, button, batch, oldButtons>>

\* Where the mouse is in the window: on the title bar, on the close button
Place == {"topbar", "close", "client"}

\* msg_t; the fields after the type are those of msg_mouse_t.  Keys, redraws and the
\* like are "OTHER": the window itself does nothing with them.
Message == [type: {"SELECT", "DESELECT", "QUIT", "OTHER"}] \cup
           [type: {"MOUSE"}, held: BOOLEAN, pressed: BOOLEAN, released: BOOLEAN, place: Place]

Msg(type) == [type |-> type]

ClientRecord == [
    open: BOOLEAN,
    queue: UNION {[1 .. n -> Message] : n \in 0 .. MSG_QUEUE_MAX - 1},
    lapped: BOOLEAN,        \* messages have been lost
    selected: BOOLEAN, moving: BOOLEAN, closeButtonPressed: BOOLEAN]    \* of win_t

NoClient == [open |-> FALSE, queue |-> <<>>, lapped |-> FALSE,
             selected |-> FALSE, moving |-> FALSE, closeButtonPressed |-> FALSE]

FocusTypeOK ==
    /\ focus \in Window \cup {None}
    /\ client \in [Window -> ClientRecord]
    /\ button \in BOOLEAN /\ oldButtons \in BOOLEAN
    /\ batch \in [any: BOOLEAN, down: BOOLEAN]

-----------------------------------------------------------------------------
\* msg_queue_push: at the limit the write index meets the read index, and the
\* queue is empty.
QueuePush(r, m) ==
    IF Len(r.queue) + 1 = MSG_QUEUE_MAX THEN [r EXCEPT !.queue = <<>>, !.lapped = TRUE]
    ELSE [r EXCEPT !.queue = Append(@, m)]

\* Mutant: the window that loses the selection is not told.
SelectSilently(cs, w) ==
    IF w = focus THEN cs
    ELSE [x \in Window |-> IF x = w THEN QueuePush(cs[x], Msg("SELECT")) ELSE cs[x]]

\* dwm_select: what the windows become
DwmSelect(cs, w) ==
    IF w = focus THEN cs
    ELSE [x \in Window |->
            CASE x = focus -> QueuePush(cs[x], Msg("DESELECT"))
              [] x = w -> QueuePush(cs[x], Msg("SELECT"))
              [] OTHER -> cs[x]]

WindowCreate(w) ==
    /\ ~client[w].open
    /\ client' = DwmSelect([client EXCEPT ![w] = [NoClient EXCEPT !.open = TRUE]], w)
    /\ focus' = w
    /\ UNCHANGED <<button, batch, oldButtons>>

\* dwm_window_cleanup: nobody is selected, until a click.
WindowClose(w) ==
    /\ client[w].open
    /\ client' = [client EXCEPT ![w] = NoClient]
    /\ focus' = IF focus = w THEN None ELSE focus
    /\ UNCHANGED <<button, batch, oldButtons>>

-----------------------------------------------------------------------------
(* The mouse and the keyboard *)

MouseEvent(down) ==
    /\ button' = down
    /\ batch' = [any |-> TRUE, down |-> batch.down \/ down]
    /\ UNCHANGED <<focus, client, oldButtons>>

\* Mutant: the buttons of the last message are not kept.
HandleMouseForgets(w, place) ==
    LET press == batch.down /\ ~oldButtons
        target == IF press THEN w ELSE focus
        told == IF press THEN DwmSelect(client, w) ELSE client
        mouse == [type |-> "MOUSE", held |-> batch.down, pressed |-> press,
                  released |-> oldButtons /\ ~batch.down, place |-> place]
    IN  /\ batch.any
        /\ press \/ w = None
        /\ focus' = target
        /\ client' = IF target = None THEN told
                     ELSE [told EXCEPT ![target] = QueuePush(@, mouse)]
        /\ batch' = [any |-> FALSE, down |-> FALSE]
        /\ UNCHANGED <<button, oldButtons>>

\* dwm_poll_mouse and dwm_handle_mouse_message; a press selects w, the window under
\* the cursor.
HandleMouse(w, place) ==
    LET press == batch.down /\ ~oldButtons
        target == IF press THEN w ELSE focus
        told == IF press THEN DwmSelect(client, w) ELSE client
        mouse == [type |-> "MOUSE", held |-> batch.down, pressed |-> press,
                  released |-> oldButtons /\ ~batch.down, place |-> place]
    IN  /\ batch.any
        /\ press \/ w = None
        /\ focus' = target
        /\ client' = IF target = None THEN told
                     ELSE [told EXCEPT ![target] = QueuePush(@, mouse)]
        /\ oldButtons' = batch.down
        /\ batch' = [any |-> FALSE, down |-> FALSE]
        /\ UNCHANGED button

\* dwm_poll_keyboard
HandleKeyboard ==
    /\ focus # None
    /\ client' = [client EXCEPT ![focus] = QueuePush(@, Msg("OTHER"))]
    /\ UNCHANGED <<focus, button, batch, oldButtons>>

-----------------------------------------------------------------------------
(* The clients *)

\* IOCTL_WINDOW_SEND: LMSG_REDRAW and the like, to oneself
WindowSend(w) ==
    /\ client[w].open
    /\ client' = [client EXCEPT ![w] = QueuePush(@, Msg("OTHER"))]
    /\ UNCHANGED <<focus, button, batch, oldButtons>>

\* win_handle_drag_and_close_button
Drag(r, m) ==
    CASE r.moving -> [r EXCEPT !.moving = m.held]
      [] ~r.moving /\ r.closeButtonPressed ->
            IF m.place # "close" THEN [r EXCEPT !.closeButtonPressed = FALSE]
            ELSE IF m.released THEN QueuePush(r, Msg("QUIT")) ELSE r
      [] ~r.moving /\ ~r.closeButtonPressed /\ m.pressed ->
            [r EXCEPT !.moving = m.place = "topbar", !.closeButtonPressed = m.place = "close"]
      [] OTHER -> r

\* win_background_procedure
Dispatch(r, m) ==
    CASE m.type = "MOUSE" -> Drag(r, m)
      [] m.type = "SELECT" -> [r EXCEPT !.selected = TRUE]
      [] m.type = "DESELECT" -> [r EXCEPT !.selected = FALSE]
      [] OTHER -> r

\* IOCTL_WINDOW_RECEIVE and win_dispatch; a client that reads LMSG_QUIT closes.
WindowReceive(w) ==
    LET m == Head(client[w].queue)
    IN  /\ client[w].queue # <<>>
        /\ m.type # "QUIT"
        /\ client' = [client EXCEPT ![w] =
               Dispatch([client[w] EXCEPT !.queue = Tail(client[w].queue)], m)]
        /\ UNCHANGED <<focus, button, batch, oldButtons>>

-----------------------------------------------------------------------------
FocusInit ==
    /\ focus = None
    /\ client = [w \in Window |-> NoClient]
    /\ button = FALSE /\ oldButtons = FALSE
    /\ batch = [any |-> FALSE, down |-> FALSE]

FocusNext ==
    \/ \E down \in BOOLEAN : MouseEvent(down)
    \/ \E w \in {x \in Window : client[x].open} \cup {None}, place \in Place : HandleMouse(w, place)
    \/ HandleKeyboard
    \/ \E w \in Window :
        WindowCreate(w) \/ WindowClose(w) \/ WindowSend(w) \/ WindowReceive(w)

FocusSpec == FocusInit /\ [][FocusNext]_focusVars

-----------------------------------------------------------------------------
(* Properties *)

(***************************************************************************)
(* A client that has read all its messages, and never fell behind by a     *)
(* whole queue, draws its title bar as selected exactly when the manager   *)
(* sends it the input, whatever was created, closed and clicked meanwhile. *)
(***************************************************************************)
FocusKnown ==
    \A w \in Window :
        client[w].open /\ client[w].queue = <<>> /\ ~client[w].lapped =>
            (client[w].selected <=> focus = w)

(***************************************************************************)
(* A window that is dragged lets go: once it has read its messages, and is *)
(* the selected one, it moves with the mouse only while the manager takes  *)
(* the button to be down, although the release may have been sent to a     *)
(* window that was created meanwhile.                                      *)
(***************************************************************************)
DragEnds ==
    \A w \in Window :
        client[w].moving /\ client[w].queue = <<>> /\ ~client[w].lapped /\ focus = w => oldButtons

(***************************************************************************)
(* The manager adds up the events of a batch with OR, so it may believe    *)
(* that a button is still down when it is up (a click within one batch),   *)
(* but never that one that is held is up: a drag does not end early.       *)
(***************************************************************************)
HeldIsSeen == button /\ ~batch.any => oldButtons

(***************************************************************************)
(* A drag lasts as long as the button is held: it does not end early, and  *)
(* it does not outlive the release.                                        *)
(***************************************************************************)
DragsFollow == FocusTypeOK /\ DragEnds /\ HeldIsSeen
=============================================================================
