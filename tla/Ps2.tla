-------------------------------- MODULE Ps2 ---------------------------------
(***************************************************************************)
(* The PS/2 interrupt handlers: src/kernel/ps2/mouse.c, which puts three   *)
(* bytes together into an event, and src/kernel/ps2/kbd.c, which decodes   *)
(* one scan code at a time, with the modifiers kept by src/kernel/kbd.c.   *)
(*                                                                         *)
(* The devices are external.  A mouse reports buttons and a movement of    *)
(* nine bits in each direction; a key sends a code when it is pressed and  *)
(* the code with bit 7 set when it is released, after the byte E0 if it is *)
(* one of the extended keys.  A byte may be lost on its way: the           *)
(* controller holds one.                                                   *)
(***************************************************************************)
EXTENDS Integers, Sequences

CONSTANTS
    Motion,         \* reports of the mouse: [left, right, middle, x, y]
    Key             \* keys: [code, extended]

ASSUME MotionAssumption ==
    Motion \subseteq [left: BOOLEAN, right: BOOLEAN, middle: BOOLEAN, x: -256 .. 255, y: -256 .. 255]

ASSUME KeyAssumption == Key \subseteq [code: 0 .. 127, extended: BOOLEAN]

VARIABLES
    report,         \* the mouse: what it last reported,
    aux,            \* and the bytes of it that are still to come
    index, packet,  \* the static variables of ps2_mouse_irq
    event,          \* the event ps2_mouse_handle_packet last pushed
    skew,           \* bytes lost so far, modulo 3
    whole,          \* no byte of the report was lost
    held,           \* the keyboard: keys that are down,
    codes,          \* and the bytes that are still to come
    kbdMods,        \* kbd->mods
    missed          \* modifiers of which the last release was lost

mouseVars == <<report, aux, index, packet, event, skew, whole>>
kbdVars == <<held, codes, kbdMods, missed>>

Byte == 0 .. 255
Still == [left |-> FALSE, right |-> FALSE, middle |-> FALSE, x |-> 0, y |-> 0]
Modifier == {"caps", "shift", "ctrl", "alt"}

\* The bit of a mask 1 << i
Bit(n, mask) == (n \div mask) % 2

Ps2TypeOK ==
    /\ report \in Motion \cup {Still}
    /\ aux \in Seq(Byte) /\ Len(aux) <= 3
    /\ index \in 0 .. 2
    /\ packet \in [flags: Byte, deltaX: Byte, deltaY: Byte]
    /\ event \in [left: BOOLEAN, right: BOOLEAN, middle: BOOLEAN, x: -256 .. 255, y: -255 .. 256]
    /\ skew \in 0 .. 2 /\ whole \in BOOLEAN
    /\ held \subseteq Key
    /\ codes \in Seq(Byte) /\ Len(codes) <= 2
    /\ kbdMods \subseteq Modifier /\ missed \subseteq Modifier

-----------------------------------------------------------------------------
(* The mouse *)

\* The device: y grows upwards on it, and downwards on the screen.
Flags(m) ==
    (IF m.left THEN 1 ELSE 0) + (IF m.right THEN 2 ELSE 0) + (IF m.middle THEN 4 ELSE 0) + 8
        + (IF m.x < 0 THEN 16 ELSE 0) + (IF m.y < 0 THEN 32 ELSE 0)

Report(m) ==
    /\ aux = <<>>
    /\ report' = m
    /\ aux' = <<Flags(m), m.x % 256, m.y % 256>>
    /\ whole' = TRUE
    /\ UNCHANGED <<index, packet, event, skew>>

ByteLost ==
    /\ aux # <<>>
    /\ aux' = Tail(aux)
    /\ skew' = (skew + 1) % 3
    /\ whole' = FALSE
    /\ UNCHANGED <<report, index, packet, event>>

\* Mutant: the sign of y is taken from the bit of x.
HandlePacketOneSign(p) ==
    [left |-> Bit(p.flags, 1) = 1, right |-> Bit(p.flags, 2) = 1, middle |-> Bit(p.flags, 4) = 1,
     x |-> p.deltaX - 256 * Bit(p.flags, 16), y |-> -(p.deltaY - 256 * Bit(p.flags, 16))]

\* ps2_mouse_handle_packet
HandlePacket(p) ==
    [left |-> Bit(p.flags, 1) = 1, right |-> Bit(p.flags, 2) = 1, middle |-> Bit(p.flags, 4) = 1,
     x |-> p.deltaX - 256 * Bit(p.flags, 16), y |-> -(p.deltaY - 256 * Bit(p.flags, 32))]

\* ps2_mouse_irq, with a byte in the buffer; without one it returns
MouseIrq ==
    /\ aux # <<>>
    /\ aux' = Tail(aux)
    /\ index' = (index + 1) % 3
    /\ LET data == Head(aux)
       IN  packet' = CASE index = 0 -> [packet EXCEPT !.flags = data]
                       [] index = 1 -> [packet EXCEPT !.deltaX = data]
                       [] index = 2 -> [packet EXCEPT !.deltaY = data]
    /\ event' = IF index = 2 THEN HandlePacket(packet') ELSE event
    /\ UNCHANGED <<report, skew, whole>>

-----------------------------------------------------------------------------
(* The keyboard *)

KeyBytes(k, released) ==
    (IF k.extended THEN <<224>> ELSE <<>>) \o <<k.code + IF released THEN 128 ELSE 0>>

KeyMoves(k) ==
    /\ codes = <<>>
    /\ codes' = KeyBytes(k, k \in held)
    /\ held' = IF k \in held THEN held \ {k} ELSE held \cup {k}
    /\ UNCHANGED <<kbdMods, missed>>

\* scanmap, and the switch of kbd_push: the modifier of a scan code
ModOf(code) ==
    CASE code = 58 -> {"caps"}
      [] code \in {42, 54} -> {"shift"}
      [] code = 29 -> {"ctrl"}
      [] code = 56 -> {"alt"}
      [] OTHER -> {}

CodeLost ==
    /\ codes # <<>>
    /\ codes' = Tail(codes)
    /\ missed' = IF Head(codes) >= 128 THEN missed \cup ModOf(Head(codes) - 128) ELSE missed
    /\ UNCHANGED <<held, kbdMods>>

\* ps2_kbd_irq, kbd_push and kbd_update_mod: E0 is a release of no key.
KbdDecode(code) ==
    IF code >= 128 THEN kbdMods \ ModOf(code - 128) ELSE kbdMods \cup ModOf(code)

KbdIrq ==
    /\ codes # <<>>
    /\ codes' = Tail(codes)
    /\ kbdMods' = KbdDecode(Head(codes))
    /\ missed' = IF Head(codes) >= 128 THEN missed \ ModOf(Head(codes) - 128) ELSE missed
    /\ UNCHANGED held

-----------------------------------------------------------------------------
Ps2Init ==
    /\ report = Still
    /\ aux = <<>> /\ index = 0
    /\ packet = [flags |-> 0, deltaX |-> 0, deltaY |-> 0]
    /\ event = Still
    /\ skew = 0 /\ whole = TRUE
    /\ held = {} /\ codes = <<>> /\ kbdMods = {} /\ missed = {}

MouseNext == (\E m \in Motion : Report(m)) \/ ByteLost \/ MouseIrq

KbdNext == (\E k \in Key : KeyMoves(k)) \/ CodeLost \/ KbdIrq

Ps2Next == (MouseNext /\ UNCHANGED kbdVars) \/ (KbdNext /\ UNCHANGED mouseVars)

Ps2Spec == Ps2Init /\ [][Ps2Next]_<<mouseVars, kbdVars>>

-----------------------------------------------------------------------------
(* Properties *)

(***************************************************************************)
(* Nothing in the handler finds the first byte of a packet: it counts to   *)
(* three.  When the mouse rests, the handler is past as many bytes of a    *)
(* packet as were not lost; and an event is what the mouse reported when   *)
(* the bytes lost before it are a multiple of three and none of its own    *)
(* was lost.                                                               *)
(***************************************************************************)
MouseInStep ==
    aux = <<>> =>
        /\ index = (-skew) % 3
        /\ skew = 0 /\ whole => event = [report EXCEPT !.y = -report.y]

(***************************************************************************)
(* A modifier that the keyboard driver reports has a key that is down, or  *)
(* one whose release was lost, and until that key is released again the    *)
(* modifier stays.                                                         *)
(***************************************************************************)
ModsHeld ==
    codes = <<>> => \A m \in kbdMods \ missed : \E k \in held : m \in ModOf(k.code)

(***************************************************************************)
(* The handlers decode what the devices send, lost bytes aside: events are *)
(* those the mouse reported, modifiers those of keys that are down.        *)
(***************************************************************************)
InputDecoded == Ps2TypeOK /\ MouseInStep /\ ModsHeld
=============================================================================
