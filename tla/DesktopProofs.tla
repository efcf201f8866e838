--------------------------- MODULE DesktopProofs ----------------------------
(***************************************************************************)
(* Theorems about what the desktop is built on: the interrupt handlers of  *)
(* the mouse and of the keyboard (Ps2), the event rings they and the       *)
(* window manager push into (EventRing, which implements EventQueue), the  *)
(* window manager itself (Dwm) and what it leaves on the screen            *)
(* (Compositor).                                                           *)
(***************************************************************************)
EXTENDS Ps2, EventRing, Dwm, Compositor, PlacementProofs

-----------------------------------------------------------------------------
(* The PS/2 handlers, for any reports and keys *)

\* The packet that holds the bytes f, x and y
PacketOf(f, x, y) == [flags |-> f, deltaX |-> x, deltaY |-> y]

\* What the flags of a packet say, bit by bit
IsPacked(n, a, b, c, d, e) ==
    /\ n \in Byte
    /\ Bit(n, 1) = a /\ Bit(n, 2) = b /\ Bit(n, 4) = c /\ Bit(n, 16) = d /\ Bit(n, 32) = e

(***************************************************************************)
(* The bits of the flags that ps2_mouse_handle_packet looks at do not      *)
(* disturb each other.                                                     *)
(***************************************************************************)
LEMMA BitsApart ==
    ASSUME NEW a \in 0 .. 1, NEW b \in 0 .. 1, NEW c \in 0 .. 1, NEW d \in 0 .. 1, NEW e \in 0 .. 1
    PROVE  IsPacked(a + 2 * b + 4 * c + 8 + 16 * d + 32 * e, a, b, c, d, e)
BY DEF IsPacked, Bit, Byte

\* A movement in one direction, from its low byte and its sign
Signed(low, sign) == low - 256 * sign

(***************************************************************************)
(* Nine bits hold every movement the mouse can report.                     *)
(***************************************************************************)
LEMMA SignRestores ==
    ASSUME NEW x \in -256 .. 255
    PROVE  Signed(x % 256, IF x < 0 THEN 1 ELSE 0) = x /\ x % 256 \in Byte
BY DEF Signed, Byte

(***************************************************************************)
(* ps2_mouse_handle_packet inverts what the mouse does to a report, up to  *)
(* the direction of y: nine bits are put together again from a byte and a  *)
(* flag, over the whole range of both movements.                           *)
(***************************************************************************)
LEMMA PacketDecodes ==
    ASSUME NEW m \in [left: BOOLEAN, right: BOOLEAN, middle: BOOLEAN, x: -256 .. 255, y: -256 .. 255]
    PROVE  /\ HandlePacket(PacketOf(Flags(m), m.x % 256, m.y % 256)) = [m EXCEPT !.y = -m.y]
           /\ Flags(m) \in Byte /\ m.x % 256 \in Byte /\ m.y % 256 \in Byte
<1> DEFINE One(p) == IF p THEN 1 ELSE 0
           a == One(m.left)
           b == One(m.right)
           c == One(m.middle)
           d == One(m.x < 0)
           e == One(m.y < 0)
<1>1. \A p : One(p) \in 0 .. 1
  OBVIOUS
<1>2. Flags(m) = a + 2 * b + 4 * c + 8 + 16 * d + 32 * e
  <2>1. /\ (IF m.left THEN 1 ELSE 0) = a /\ (IF m.right THEN 2 ELSE 0) = 2 * b
        /\ (IF m.middle THEN 4 ELSE 0) = 4 * c
        /\ (IF m.x < 0 THEN 16 ELSE 0) = 16 * d /\ (IF m.y < 0 THEN 32 ELSE 0) = 32 * e
    OBVIOUS
  <2> QED BY <2>1 DEF Flags
<1> HIDE DEF a, b, c, d, e
<1>3. a \in 0 .. 1 /\ b \in 0 .. 1 /\ c \in 0 .. 1 /\ d \in 0 .. 1 /\ e \in 0 .. 1
  BY <1>1 DEF a, b, c, d, e
<1>4. IsPacked(Flags(m), a, b, c, d, e)
  BY <1>2, <1>3, BitsApart
<1>5. Signed(m.x % 256, d) = m.x /\ m.x % 256 \in Byte
  <2>1. m.x \in -256 .. 255 OBVIOUS
  <2> QED BY <2>1, SignRestores DEF d
<1>6. Signed(m.y % 256, e) = m.y /\ m.y % 256 \in Byte
  <2>1. m.y \in -256 .. 255 OBVIOUS
  <2> QED BY <2>1, SignRestores DEF e
<1>7. (a = 1) = m.left /\ (b = 1) = m.right /\ (c = 1) = m.middle
  BY DEF a, b, c
<1>8. HandlePacket(PacketOf(Flags(m), m.x % 256, m.y % 256)) =
        [left |-> (a = 1), right |-> (b = 1), middle |-> (c = 1),
         x |-> Signed(m.x % 256, d), y |-> -Signed(m.y % 256, e)]
  BY <1>4 DEF HandlePacket, PacketOf, IsPacked, Signed
<1>9. [m EXCEPT !.y = -m.y] = [left |-> m.left, right |-> m.right, middle |-> m.middle, x |-> m.x, y |-> -m.y]
  OBVIOUS
<1> QED BY <1>4, <1>5, <1>6, <1>7, <1>8, <1>9 DEF IsPacked

(***************************************************************************)
(* Any three bytes make an event.                                          *)
(***************************************************************************)
LEMMA PacketTyped ==
    ASSUME NEW p \in [flags: Byte, deltaX: Byte, deltaY: Byte]
    PROVE  HandlePacket(p) \in [left: BOOLEAN, right: BOOLEAN, middle: BOOLEAN, x: -256 .. 255, y: -255 .. 256]
<1>1. p.flags \in Byte /\ p.deltaX \in Byte /\ p.deltaY \in Byte
  OBVIOUS
<1>2. \A n \in Byte : Bit(n, 16) \in 0 .. 1 /\ Bit(n, 32) \in 0 .. 1
  BY DEF Bit, Byte
<1>3. PICK d \in 0 .. 1, e \in 0 .. 1 : d = Bit(p.flags, 16) /\ e = Bit(p.flags, 32)
  BY <1>1, <1>2
<1>4. p.deltaX - 256 * d \in -256 .. 255 /\ -(p.deltaY - 256 * e) \in -255 .. 256
  <2>1. ASSUME NEW u \in Byte, NEW g \in 0 .. 1 PROVE u - 256 * g \in -256 .. 255 /\ -(u - 256 * g) \in -255 .. 256
    <3>1. CASE g = 0 BY <3>1 DEF Byte
    <3>2. CASE g = 1 BY <3>2 DEF Byte
    <3> QED BY <3>1, <3>2
  <2>2. PICK u \in Byte, v \in Byte : u = p.deltaX /\ v = p.deltaY BY <1>1
  <2>3. u - 256 * d \in -256 .. 255 BY <1>3, <2>1
  <2>4. -(v - 256 * e) \in -255 .. 256 BY <1>3, <2>1
  <2> QED BY <2>2, <2>3, <2>4
<1>5. \A u, v : (u = v) \in BOOLEAN
  OBVIOUS
<1>6. PICK l \in BOOLEAN, r \in BOOLEAN, k \in BOOLEAN :
        l = (Bit(p.flags, 1) = 1) /\ r = (Bit(p.flags, 2) = 1) /\ k = (Bit(p.flags, 4) = 1)
  BY <1>5
<1>7. HandlePacket(p) = [left |-> l, right |-> r, middle |-> k,
                         x |-> p.deltaX - 256 * d, y |-> -(p.deltaY - 256 * e)]
  BY <1>3, <1>6 DEF HandlePacket
<1> QED BY <1>4, <1>6, <1>7

-----------------------------------------------------------------------------
(* The mouse, between two bytes *)

Reports == [left: BOOLEAN, right: BOOLEAN, middle: BOOLEAN, x: -256 .. 255, y: -256 .. 255]

\* The last n of the bytes f, x and y
Coming(n, f, x, y) ==
    CASE n = 3 -> <<f, x, y>> [] n = 2 -> <<x, y>> [] n = 1 -> <<y>> [] n = 0 -> <<>>

\* n bytes of a report are still to come.  The handler has counted the
\* others, those that were lost aside; and as long as all of them arrive
\* in step, the packet fills with the report's.
InStep(i, n, k) == (i + n + k) % 3 = 0

MouseAt(n, f, x, y) ==
    /\ aux = Coming(n, f, x, y)
    /\ InStep(index, n, skew)
    /\ whole /\ skew = 0 =>
        /\ n > 0 => f = Flags(report) /\ x = report.x % 256 /\ y = report.y % 256
        /\ n <= 2 => packet.flags = f
        /\ n <= 1 => packet.deltaX = x
        /\ n = 0 => event = [report EXCEPT !.y = -report.y]

MouseType ==
    /\ report \in Motion \cup {Still} /\ report \in Reports
    /\ index \in 0 .. 2
    /\ packet \in [flags: Byte, deltaX: Byte, deltaY: Byte]
    /\ event \in [left: BOOLEAN, right: BOOLEAN, middle: BOOLEAN, x: -256 .. 255, y: -255 .. 256]
    /\ skew \in 0 .. 2
    /\ whole \in BOOLEAN

MouseInv ==
    /\ MouseType
    /\ \E n \in 0 .. 3, f \in Byte, x \in Byte, y \in Byte : MouseAt(n, f, x, y)

\* What the handlers do to bytes that come in: take the first one.
IsQueue(s, first, rest) == s # <<>> /\ Head(s) = first /\ Tail(s) = rest /\ Len(s) = Len(rest) + 1

(***************************************************************************)
(* Queues of one, two and three bytes, and their ends.                     *)
(***************************************************************************)
LEMMA ShortQueues ==
    ASSUME NEW a \in Byte, NEW b \in Byte, NEW c \in Byte
    PROVE  /\ IsQueue(<<a>>, a, <<>>) /\ <<a>> \in Seq(Byte) /\ Len(<<a>>) = 1
           /\ IsQueue(<<a, b>>, a, <<b>>) /\ <<a, b>> \in Seq(Byte) /\ Len(<<a, b>>) = 2
           /\ IsQueue(<<a, b, c>>, a, <<b, c>>) /\ <<a, b, c>> \in Seq(Byte) /\ Len(<<a, b, c>>) = 3
           /\ <<>> \in Seq(Byte) /\ Len(<<>>) = 0
<1>1. <<a>> \in Seq(Byte) /\ <<a, b>> \in Seq(Byte) /\ <<a, b, c>> \in Seq(Byte) /\ <<>> \in Seq(Byte)
  OBVIOUS
<1>2. Len(<<a>>) = 1 /\ Len(<<a, b>>) = 2 /\ Len(<<a, b, c>>) = 3 /\ Len(<<>>) = 0
  OBVIOUS
<1>3. Head(<<a>>) = a /\ Head(<<a, b>>) = a /\ Head(<<a, b, c>>) = a
  OBVIOUS
<1>4. Tail(<<a>>) = <<>>
  OBVIOUS
<1>5. Tail(<<a, b>>) = <<b>>
  OBVIOUS
<1>6. Tail(<<a, b, c>>) = <<b, c>>
  OBVIOUS
<1>7. Len(<<b, c>>) = 2 /\ Len(<<b>>) = 1
  OBVIOUS
<1>8. <<a>> # <<>> /\ <<a, b>> # <<>> /\ <<a, b, c>> # <<>>
  BY <1>2
<1> QED BY <1>1, <1>2, <1>3, <1>4, <1>5, <1>6, <1>7, <1>8 DEF IsQueue

IsComing(s, n, f, x, y) ==
    /\ s \in Seq(Byte)
    /\ Len(s) = n
    /\ s = <<>> <=> n = 0
    /\ n > 0 => Tail(s) = Coming(n - 1, f, x, y) /\ Head(s) = IF n = 3 THEN f ELSE IF n = 2 THEN x ELSE y

\* The first byte that is still to come is the one after those that came.
LEMMA ComingShape ==
    ASSUME NEW f \in Byte, NEW x \in Byte, NEW y \in Byte, NEW n \in 0 .. 3
    PROVE  IsComing(Coming(n, f, x, y), n, f, x, y)
<1>0. /\ IsQueue(<<y>>, y, <<>>) /\ <<y>> \in Seq(Byte) /\ Len(<<y>>) = 1
      /\ IsQueue(<<x, y>>, x, <<y>>) /\ <<x, y>> \in Seq(Byte) /\ Len(<<x, y>>) = 2
      /\ IsQueue(<<f, x, y>>, f, <<x, y>>) /\ <<f, x, y>> \in Seq(Byte) /\ Len(<<f, x, y>>) = 3
      /\ <<>> \in Seq(Byte) /\ Len(<<>>) = 0
  BY ShortQueues, Zenon
<1>1. CASE n = 0
  <2>1. Coming(n, f, x, y) = <<>> BY <1>1 DEF Coming
  <2>2. PICK s : s = <<>> OBVIOUS
  <2>3. IsComing(s, n, f, x, y) BY <1>0, <1>1, <2>2 DEF IsComing
  <2> QED BY <2>1, <2>2, <2>3
<1>2. CASE n = 1
  <2>1. Coming(n, f, x, y) = <<y>> BY <1>2 DEF Coming
  <2>2. Coming(n - 1, f, x, y) = <<>> BY <1>2 DEF Coming
  <2>3. PICK s : s = <<y>> OBVIOUS
  <2>4. IsComing(s, n, f, x, y) BY <1>0, <1>2, <2>2, <2>3 DEF IsComing, IsQueue
  <2> QED BY <2>1, <2>3, <2>4
<1>3. CASE n = 2
  <2>1. Coming(n, f, x, y) = <<x, y>> BY <1>3 DEF Coming
  <2>2. Coming(n - 1, f, x, y) = <<y>> BY <1>3 DEF Coming
  <2>3. PICK s : s = <<x, y>> OBVIOUS
  <2>4. IsComing(s, n, f, x, y) BY <1>0, <1>3, <2>2, <2>3 DEF IsComing, IsQueue
  <2> QED BY <2>1, <2>3, <2>4
<1>4. CASE n = 3
  <2>1. Coming(n, f, x, y) = <<f, x, y>> BY <1>4 DEF Coming
  <2>2. Coming(n - 1, f, x, y) = <<x, y>> BY <1>4 DEF Coming
  <2>3. PICK s : s = <<f, x, y>> OBVIOUS
  <2>4. IsComing(s, n, f, x, y) BY <1>0, <1>4, <2>2, <2>3 DEF IsComing, IsQueue
  <2> QED BY <2>1, <2>3, <2>4
<1>5. n = 0 \/ n = 1 \/ n = 2 \/ n = 3
  OBVIOUS
<1> QED BY <1>1, <1>2, <1>3, <1>4, <1>5, Zenon

\* The mouse at rest after the start.
LEMMA MouseInitially == Ps2Init => MouseInv
<1> SUFFICES ASSUME Ps2Init PROVE MouseInv OBVIOUS
<1>1. MouseType
  <2>1. Still \in Reports BY DEF Still, Reports
  <2>2. event \in [left: BOOLEAN, right: BOOLEAN, middle: BOOLEAN, x: -256 .. 255, y: -255 .. 256]
    BY DEF Ps2Init, Still
  <2> QED BY <2>1, <2>2 DEF Ps2Init, MouseType, Byte
<1>2. [Still EXCEPT !.y = -Still.y] = Still
  <2>1. -Still.y = Still.y
    <3>1. Still.y = 0 BY DEF Still
    <3>2. \A z \in Int : z + z = 0 => -z = z OBVIOUS
    <3>3. Still.y \in Int /\ Still.y + Still.y = 0 BY <3>1
    <3> QED BY <3>2, <3>3, Zenon
  <2>2. [Still EXCEPT !.y = Still.y] = Still BY DEF Still
  <2> QED BY <2>1, <2>2
<1>3. 0 \in Byte BY DEF Byte
<1>4. Coming(0, 0, 0, 0) = <<>> BY DEF Coming
<1>5. InStep(0, 0, 0) BY DEF InStep
<1>6. MouseAt(0, 0, 0, 0)
  BY <1>2, <1>4, <1>5 DEF MouseAt, Ps2Init
<1> QED BY <1>1, <1>3, <1>6 DEF MouseInv

\* Every byte that is sent, lost or taken keeps the count.
LEMMA MouseSteps == MouseInv /\ [MouseNext]_mouseVars => MouseInv'
<1> SUFFICES ASSUME MouseInv, [MouseNext]_mouseVars PROVE MouseInv' OBVIOUS
<1>1. PICK n \in 0 .. 3, f \in Byte, x \in Byte, y \in Byte : MouseAt(n, f, x, y)
  BY DEF MouseInv
<1>t. MouseType BY DEF MouseInv
<1>s. IsComing(aux, n, f, x, y)
  BY <1>1, ComingShape DEF MouseAt
<1>2. ASSUME NEW m \in Motion, Report(m) PROVE MouseInv'
  <2>1. m \in Reports BY MotionAssumption DEF Reports
  <2>2. /\ Flags(m) \in Byte /\ m.x % 256 \in Byte /\ m.y % 256 \in Byte
    BY <2>1, PacketDecodes, ZenonT(30) DEF Reports
  <2>3. MouseType' BY <1>t, <1>2, <2>1 DEF MouseType, Report
  <2>4. n = 0
    BY <1>1, <1>2, <1>s DEF IsComing, Report
  <2>5. InStep(index, 3, skew)
    BY <1>1, <1>t, <2>4 DEF MouseAt, MouseType, InStep
  <2>6. Coming(3, Flags(m), m.x % 256, m.y % 256) = <<Flags(m), m.x % 256, m.y % 256>>
    BY DEF Coming
  <2>7. MouseAt(3, Flags(m), m.x % 256, m.y % 256)'
    BY <1>2, <2>5, <2>6 DEF MouseAt, Report
  <2> QED BY <2>2, <2>3, <2>7 DEF MouseInv
<1>3. ASSUME ByteLost PROVE MouseInv'
  <2>1. n > 0
    BY <1>1, <1>3, <1>s DEF IsComing, ByteLost
  <2>2. aux' = Coming(n - 1, f, x, y)
    BY <1>1, <1>3, <2>1, <1>s DEF IsComing, ByteLost
  <2>3. InStep(index, n - 1, (skew + 1) % 3) /\ (skew + 1) % 3 \in 0 .. 2
    BY <1>1, <1>t, <2>1 DEF MouseAt, MouseType, InStep
  <2>4. MouseAt(n - 1, f, x, y)'
    <3>1. ~whole' BY <1>3 DEF ByteLost
    <3>2. InStep(index', n - 1, skew') BY <1>3, <2>3 DEF ByteLost
    <3> QED BY <2>2, <3>1, <3>2 DEF MouseAt
  <2>5. MouseType'
    BY <1>t, <1>3, <2>3 DEF MouseType, ByteLost
  <2> QED BY <1>1, <2>1, <2>4, <2>5 DEF MouseInv
<1>4. ASSUME MouseIrq PROVE MouseInv'
  <2>1. n > 0
    BY <1>1, <1>4, <1>s DEF IsComing, MouseIrq
  <2>2. /\ aux' = Coming(n - 1, f, x, y)
        /\ Head(aux) = IF n = 3 THEN f ELSE IF n = 2 THEN x ELSE y
    BY <1>1, <1>4, <2>1, <1>s DEF IsComing, MouseIrq
  <2>3. Head(aux) \in Byte
    BY <2>2
  <2>4. /\ index = 0 => packet' = [packet EXCEPT !.flags = Head(aux)]
        /\ index = 1 => packet' = [packet EXCEPT !.deltaX = Head(aux)]
        /\ index = 2 => packet' = [packet EXCEPT !.deltaY = Head(aux)]
    BY <1>4 DEF MouseIrq
  <2>5. packet' \in [flags: Byte, deltaX: Byte, deltaY: Byte]
    BY <1>t, <2>3, <2>4 DEF MouseType
  <2>6. HandlePacket(packet') \in [left: BOOLEAN, right: BOOLEAN, middle: BOOLEAN, x: -256 .. 255, y: -255 .. 256]
    BY <2>5, PacketTyped
  <2>7. (index + 1) % 3 \in 0 .. 2 /\ InStep((index + 1) % 3, n - 1, skew)
    BY <1>1, <1>t, <2>1 DEF MouseAt, MouseType, InStep
  <2>8. event' = IF index = 2 THEN HandlePacket(packet') ELSE event
    BY <1>4 DEF MouseIrq
  <2>9. MouseType'
    <3>1. event' \in [left: BOOLEAN, right: BOOLEAN, middle: BOOLEAN, x: -256 .. 255, y: -255 .. 256]
      BY <1>t, <2>6, <2>8 DEF MouseType
    <3> QED BY <1>t, <1>4, <2>5, <2>7, <3>1 DEF MouseType, MouseIrq
  <2>10. ASSUME whole, skew = 0
         PROVE  /\ n - 1 > 0 => f = Flags(report) /\ x = report.x % 256 /\ y = report.y % 256
                /\ n - 1 <= 2 => packet'.flags = f
                /\ n - 1 <= 1 => packet'.deltaX = x
                /\ n - 1 = 0 => event' = [report EXCEPT !.y = -report.y]
    <3>1. f = Flags(report) /\ x = report.x % 256 /\ y = report.y % 256
      BY <1>1, <2>1, <2>10 DEF MouseAt
    <3>2. index = 3 - n
      BY <1>1, <1>t, <2>1, <2>10 DEF MouseAt, MouseType, InStep
    <3>3. /\ n <= 2 => packet.flags = f
          /\ n <= 1 => packet.deltaX = x
      BY <1>1, <2>10 DEF MouseAt
    <3>4. packet'.flags = f
      BY <1>t, <2>1, <2>2, <2>4, <3>2, <3>3 DEF MouseType
    <3>5. n - 1 <= 1 => packet'.deltaX = x
      BY <1>t, <2>1, <2>2, <2>4, <3>2, <3>3 DEF MouseType
    <3>6. ASSUME n - 1 = 0 PROVE event' = [report EXCEPT !.y = -report.y]
      <4>1. packet'.deltaY = y
        BY <1>t, <2>2, <2>4, <3>2, <3>6 DEF MouseType
      <4>2. packet' = PacketOf(f, x, y)
        BY <2>5, <3>4, <3>5, <3>6, <4>1 DEF PacketOf
      <4>3. HandlePacket(PacketOf(f, x, y)) = [report EXCEPT !.y = -report.y]
        BY <1>t, <3>1, PacketDecodes DEF MouseType, Reports
      <4> QED BY <2>8, <3>2, <3>6, <4>2, <4>3
    <3> QED BY <3>1, <3>4, <3>5, <3>6
  <2>11. MouseAt(n - 1, f, x, y)'
    BY <1>4, <2>2, <2>7, <2>10 DEF MouseAt, MouseIrq
  <2> QED BY <1>1, <2>1, <2>9, <2>11 DEF MouseInv
<1>5. CASE UNCHANGED mouseVars
  <2>1. MouseType' BY <1>t, <1>5 DEF MouseType, mouseVars
  <2>2. MouseAt(n, f, x, y)' BY <1>1, <1>5 DEF MouseAt, mouseVars
  <2> QED BY <1>1, <2>1, <2>2 DEF MouseInv
<1> QED BY <1>2, <1>3, <1>4, <1>5 DEF MouseNext

\* What the invariant says when nothing more is to come.
LEMMA MouseCounts == MouseInv => MouseInStep /\ aux \in Seq(Byte) /\ Len(aux) <= 3
<1> SUFFICES ASSUME MouseInv PROVE MouseInStep /\ aux \in Seq(Byte) /\ Len(aux) <= 3 OBVIOUS
<1>1. PICK n \in 0 .. 3, f \in Byte, x \in Byte, y \in Byte : MouseAt(n, f, x, y)
  BY DEF MouseInv
<1>2. aux \in Seq(Byte) /\ Len(aux) = n /\ (n > 0 => aux # <<>>)
  <2>1. IsComing(aux, n, f, x, y) BY <1>1, ComingShape DEF MouseAt
  <2> QED BY <1>1, <2>1 DEF IsComing
<1>3. ASSUME aux = <<>> PROVE index = (-skew) % 3 /\ (skew = 0 /\ whole => event = [report EXCEPT !.y = -report.y])
  <2>1. n = 0 BY <1>2, <1>3
  <2>2. index = (-skew) % 3 BY <1>1, <2>1 DEF MouseAt, MouseInv, MouseType, InStep
  <2> QED BY <1>1, <2>1, <2>2 DEF MouseAt
<1> QED BY <1>2, <1>3 DEF MouseInStep

-----------------------------------------------------------------------------
(* The keyboard, between two bytes *)

\* The byte b of a key is still to come, after E0 or without it, or nothing is.
KbdAt(b) ==
    /\ codes = <<>> \/ codes = <<b>> \/ codes = <<224, b>>
    /\ \A m \in kbdMods \ missed :
        \/ \E k \in held : m \in ModOf(k.code)
        \/ codes # <<>> /\ b >= 128 /\ m \in ModOf(b - 128)
    /\ codes # <<>> /\ b < 128 => \E k \in held : k.code = b

KbdType == held \subseteq Key /\ kbdMods \subseteq Modifier /\ missed \subseteq Modifier

KbdInv == KbdType /\ \E b \in Byte : KbdAt(b)

\* A scan code stands for modifiers of kbd_push.
LEMMA ModTyped == ASSUME NEW c PROVE ModOf(c) \subseteq Modifier
BY DEF ModOf, Modifier

\* E0, taken for the release of a key, is the release of no modifier.
LEMMA PrefixSilent == ModOf(224 - 128) = {}
<1>1. 224 - 128 = 96 OBVIOUS
<1> QED BY <1>1 DEF ModOf

\* The two bytes of an extended key.
LEMMA Appended ==
    ASSUME NEW a \in Byte, NEW c \in Byte
    PROVE  <<a>> \o <<c>> = <<a, c>>
<1> DEFINE s == <<a>> \o <<c>>
           t == <<a, c>>
<1>1. s \in Seq(Byte) /\ Len(s) = 2 /\ s[1] = a /\ s[2] = c
  OBVIOUS
<1>2. t \in Seq(Byte) /\ Len(t) = 2 /\ t[1] = a /\ t[2] = c
  OBVIOUS
<1> HIDE DEF s, t
<1>3. s = t BY <1>1, <1>2
<1> QED BY <1>3 DEF s, t

\* Every byte of a key that is sent, lost or taken keeps the modifiers accounted for.
LEMMA KbdSteps == KbdInv /\ [KbdNext]_kbdVars => KbdInv'
<1> SUFFICES ASSUME KbdInv, [KbdNext]_kbdVars PROVE KbdInv' OBVIOUS
<1>1. PICK b \in Byte : KbdAt(b) BY DEF KbdInv
<1>t. KbdType BY DEF KbdInv
<1>q. 224 \in Byte BY DEF Byte
<1>s. /\ IsQueue(<<b>>, b, <<>>) /\ IsQueue(<<224, b>>, 224, <<b>>)
  BY <1>q, ShortQueues, ZenonT(30)
<1>2. ASSUME NEW k \in Key, KeyMoves(k) PROVE KbdInv'
  <2>1. k.code \in 0 .. 127 BY KeyAssumption
  <2>2. PICK c \in Byte : c = k.code + IF k \in held THEN 128 ELSE 0
    BY <2>1 DEF Byte
  <2>3. codes' = <<c>> \/ codes' = <<224, c>>
    <3>1. CASE k.extended
      <4>1. codes' = <<224>> \o <<c>> BY <1>2, <2>2, <3>1 DEF KeyMoves, KeyBytes
      <4>2. <<224>> \o <<c>> = <<224, c>> BY <1>q, <2>2, Appended
      <4> QED BY <4>1, <4>2, Zenon
    <3>2. CASE ~k.extended
      <4>1. codes' = <<>> \o <<c>> BY <1>2, <2>2, <3>2 DEF KeyMoves, KeyBytes
      <4>2. <<>> \o <<c>> = <<c>> OBVIOUS
      <4> QED BY <4>1, <4>2, Zenon
    <3> QED BY <3>1, <3>2
  <2>4. \A m \in kbdMods \ missed : \E j \in held : m \in ModOf(j.code)
    BY <1>1, <1>2 DEF KbdAt, KeyMoves
  <2>5. KbdType' BY <1>t, <1>2 DEF KbdType, KeyMoves
  <2>6. codes' # <<>>
    BY <1>q, <2>2, <2>3, ShortQueues, SMTT(30) DEF IsQueue
  <2>7. CASE k \in held
    <3>1. c >= 128 /\ c - 128 = k.code /\ ~(c < 128) BY <2>1, <2>2, <2>7 DEF Byte
    <3>2. held' = held \ {k} /\ kbdMods' = kbdMods /\ missed' = missed BY <1>2, <2>7 DEF KeyMoves
    <3>3. \A m \in kbdMods' \ missed' :
            (\E j \in held' : m \in ModOf(j.code)) \/ (codes' # <<>> /\ c >= 128 /\ m \in ModOf(c - 128))
      BY <2>4, <2>6, <3>1, <3>2
    <3>4. KbdAt(c)' BY <2>3, <3>1, <3>3 DEF KbdAt
    <3> QED BY <2>2, <2>5, <3>4 DEF KbdInv
  <2>8. CASE k \notin held
    <3>1. c < 128 /\ c = k.code BY <2>1, <2>2, <2>8 DEF Byte
    <3>2. held' = held \cup {k} /\ kbdMods' = kbdMods /\ missed' = missed BY <1>2, <2>8 DEF KeyMoves
    <3>3. \A m \in kbdMods' \ missed' : \E j \in held' : m \in ModOf(j.code)
      BY <2>4, <3>2
    <3>4. \E j \in held' : j.code = c
      BY <3>1, <3>2
    <3>5. KbdAt(c)' BY <2>3, <3>3, <3>4 DEF KbdAt
    <3> QED BY <2>2, <2>5, <3>5 DEF KbdInv
  <2> QED BY <2>7, <2>8
<1>3. ASSUME CodeLost PROVE KbdInv'
  <2>1. held' = held /\ kbdMods' = kbdMods BY <1>3 DEF CodeLost
  <2>2. CASE codes = <<b>>
    <3>1. codes' = <<>> /\ Head(codes) = b BY <1>3, <1>s, <2>2 DEF CodeLost, IsQueue
    <3>2. missed' = IF b >= 128 THEN missed \cup ModOf(b - 128) ELSE missed BY <1>3, <3>1 DEF CodeLost
    <3>3. KbdType' BY <1>t, <2>1, <3>2, ModTyped DEF KbdType
    <3>4. \A m \in kbdMods' \ missed' : \E k \in held' : m \in ModOf(k.code)
      BY <1>1, <2>1, <3>2 DEF KbdAt
    <3>5. KbdAt(b)' BY <3>1, <3>4 DEF KbdAt
    <3> QED BY <1>1, <3>3, <3>5 DEF KbdInv
  <2>3. CASE codes = <<224, b>>
    <3>1. codes' = <<b>> /\ Head(codes) = 224 /\ codes # <<>> /\ codes' # <<>>
      BY <1>3, <1>s, <2>3 DEF CodeLost, IsQueue
    <3>2. missed' = missed BY <1>3, <3>1, PrefixSilent DEF CodeLost
    <3>3. KbdType' BY <1>t, <2>1, <3>2 DEF KbdType
    <3>4. KbdAt(b)' BY <1>1, <2>1, <3>1, <3>2 DEF KbdAt
    <3> QED BY <1>1, <3>3, <3>4 DEF KbdInv
  <2> QED BY <1>1, <1>3, <2>2, <2>3 DEF KbdAt, CodeLost
<1>4. ASSUME KbdIrq PROVE KbdInv'
  <2>1. held' = held BY <1>4 DEF KbdIrq
  <2>2. CASE codes = <<b>>
    <3>1. codes' = <<>> /\ Head(codes) = b /\ codes # <<>> BY <1>4, <1>s, <2>2 DEF KbdIrq, IsQueue
    <3>2. CASE b >= 128
      <4>1. kbdMods' = kbdMods \ ModOf(b - 128) /\ missed' = missed \ ModOf(b - 128)
        BY <1>4, <3>1, <3>2 DEF KbdIrq, KbdDecode
      <4>2. KbdType' BY <1>t, <2>1, <4>1 DEF KbdType
      <4>3. \A m \in kbdMods' \ missed' : \E k \in held' : m \in ModOf(k.code)
        BY <1>1, <2>1, <4>1 DEF KbdAt
      <4>4. KbdAt(b)' BY <3>1, <4>3 DEF KbdAt
      <4> QED BY <1>1, <4>2, <4>4 DEF KbdInv
    <3>3. CASE ~(b >= 128)
      <4>1. kbdMods' = kbdMods \cup ModOf(b) /\ missed' = missed
        BY <1>4, <3>1, <3>3 DEF KbdIrq, KbdDecode
      <4>2. KbdType' BY <1>t, <2>1, <4>1, ModTyped DEF KbdType
      <4>3. PICK k \in held : k.code = b
        <5>1. b < 128 BY <3>3 DEF Byte
        <5> QED BY <1>1, <3>1, <5>1 DEF KbdAt
      <4>4. \A m \in kbdMods' \ missed' : \E j \in held' : m \in ModOf(j.code)
        BY <1>1, <2>1, <3>3, <4>1, <4>3 DEF KbdAt
      <4>5. KbdAt(b)' BY <3>1, <4>4 DEF KbdAt
      <4> QED BY <1>1, <4>2, <4>5 DEF KbdInv
    <3> QED BY <3>2, <3>3
  <2>3. CASE codes = <<224, b>>
    <3>1. codes' = <<b>> /\ Head(codes) = 224 /\ codes # <<>> /\ codes' # <<>>
      BY <1>4, <1>s, <2>3 DEF KbdIrq, IsQueue
    <3>2. missed' = missed /\ kbdMods' = kbdMods
      BY <1>4, <3>1, PrefixSilent DEF KbdIrq, KbdDecode
    <3>3. KbdType' BY <1>t, <2>1, <3>2 DEF KbdType
    <3>4. KbdAt(b)' BY <1>1, <2>1, <3>1, <3>2 DEF KbdAt
    <3> QED BY <1>1, <3>3, <3>4 DEF KbdInv
  <2> QED BY <1>1, <1>4, <2>2, <2>3 DEF KbdAt, KbdIrq
<1>5. CASE UNCHANGED kbdVars
  <2>1. KbdType' BY <1>t, <1>5 DEF KbdType, kbdVars
  <2>2. KbdAt(b)' BY <1>1, <1>5 DEF KbdAt, kbdVars
  <2> QED BY <1>1, <2>1, <2>2 DEF KbdInv
<1> QED BY <1>2, <1>3, <1>4, <1>5 DEF KbdNext

(***************************************************************************)
(* For every set of reports in the range of nine bits and every set of     *)
(* keys, and however bytes are lost: the mouse handler stays in step with  *)
(* the bytes it gets and turns a report that arrives whole and in step     *)
(* into its event, and a modifier of the keyboard has a key that is down   *)
(* or one whose release was lost.                                          *)
(***************************************************************************)
THEOREM Ps2InputDecoded == Ps2Spec => []InputDecoded
<1>1. Ps2Init => MouseInv /\ KbdInv
  <2>1. ASSUME Ps2Init PROVE KbdInv
    <3>1. 0 \in Byte BY DEF Byte
    <3>2. KbdAt(0) BY <2>1 DEF KbdAt, Ps2Init
    <3>3. KbdType BY <2>1 DEF KbdType, Ps2Init
    <3> QED BY <3>1, <3>2, <3>3 DEF KbdInv
  <2> QED BY <2>1, MouseInitially
<1>2. MouseInv /\ KbdInv /\ [Ps2Next]_<<mouseVars, kbdVars>> => (MouseInv /\ KbdInv)'
  <2> SUFFICES ASSUME MouseInv, KbdInv, [Ps2Next]_<<mouseVars, kbdVars>> PROVE MouseInv' /\ KbdInv'
    OBVIOUS
  <2>1. [MouseNext]_mouseVars /\ [KbdNext]_kbdVars BY DEF Ps2Next
  <2> QED BY <2>1, MouseSteps, KbdSteps
<1>3. MouseInv /\ KbdInv => InputDecoded
  <2> SUFFICES ASSUME MouseInv, KbdInv PROVE InputDecoded OBVIOUS
  <2>1. ModsHeld BY DEF KbdInv, KbdAt, ModsHeld
  <2>2. codes \in Seq(Byte) /\ Len(codes) <= 2
    <3>1. PICK b \in Byte : codes = <<>> \/ codes = <<b>> \/ codes = <<224, b>> BY DEF KbdInv, KbdAt
    <3>2. 224 \in Byte BY DEF Byte
    <3>3. /\ <<b>> \in Seq(Byte) /\ Len(<<b>>) = 1 /\ <<>> \in Seq(Byte) /\ Len(<<>>) = 0
          /\ <<224, b>> \in Seq(Byte) /\ Len(<<224, b>>) = 2
      BY <3>1, <3>2, ShortQueues, ZenonT(30)
    <3>4. CASE codes = <<>> BY <3>3, <3>4
    <3>5. CASE codes = <<b>> BY <3>3, <3>5
    <3>6. CASE codes = <<224, b>> BY <3>3, <3>6
    <3> QED BY <3>1, <3>4, <3>5, <3>6
  <2>3. report \in Motion \cup {Still} BY DEF MouseInv, MouseType
  <2>4. Ps2TypeOK BY <2>2, <2>3, MouseCounts DEF Ps2TypeOK, MouseInv, MouseType, KbdInv, KbdType
  <2> QED BY <2>1, <2>4, MouseCounts DEF InputDecoded
<1> QED BY <1>1, <1>2, <1>3, PTL DEF Ps2Spec

-----------------------------------------------------------------------------
(* The event rings, for any number of readers and any size of ring *)

\* An index into the ring; opaque to the provers but for the next two lemmas
RingAt(a) == a % RING_MAX

\* What a reader at position p has still to read of a ring s, written up to w
UnreadFrom(s, w, p) ==
    [i \in 1 .. RingAt(w - p) |-> s[RingAt(p + i - 1)]]

\* An index that leaves the ring by at most one turn
LEMMA RingMod ==
    ASSUME NEW a \in Int
    PROVE  /\ a \in 0 .. RING_MAX - 1 => RingAt(a) = a
           /\ a \in RING_MAX .. 2 * RING_MAX - 1 => RingAt(a) = a - RING_MAX
           /\ a \in (0 - RING_MAX) .. 0 - 1 => RingAt(a) = a + RING_MAX
           /\ RingAt(a) \in 0 .. RING_MAX - 1
BY RingAssumption DEF RingAt

\* An index into two turns of the ring.
LEMMA RingTurn ==
    ASSUME NEW a, a \in Int, a >= 0, a < 2 * RING_MAX
    PROVE  /\ RingAt(a) = IF a < RING_MAX THEN a ELSE a - RING_MAX
           /\ RingAt(a) \in Slot
<1>1. RING_MAX \in Nat /\ RING_MAX > 0
  BY RingAssumption
<1>2. a \in 0 .. RING_MAX - 1 \/ a \in RING_MAX .. 2 * RING_MAX - 1
  BY <1>1
<1> QED
  BY <1>1, <1>2, RingMod DEF Slot

IsUnread(u, S, s, w, p) ==
    /\ u \in Seq(S) /\ Len(u) = RingAt(w - p)
    /\ \A i \in 1 .. RingAt(w - p) : u[i] = s[RingAt(p + i - 1)]

\* What a reader has still to read lies in the ring.
LEMMA UnreadType ==
    ASSUME NEW S, NEW s \in [Slot -> S], NEW w \in Slot, NEW p \in Slot
    PROVE  IsUnread(UnreadFrom(s, w, p), S, s, w, p)
<1> DEFINE n == RingAt(w - p)
<1>1. RING_MAX \in Nat /\ w \in Int /\ p \in Int
  BY RingAssumption DEF Slot
<1>2. n \in 0 .. RING_MAX - 1 /\ n \in Nat
  BY <1>1, RingMod
<1> HIDE DEF n
<1>3. \A i \in 1 .. n : RingAt(p + i - 1) \in Slot
  <2> TAKE i \in 1 .. n
  <2>1. p + i - 1 \in Int /\ p + i - 1 >= 0 /\ p + i - 1 < 2 * RING_MAX
    BY <1>1, <1>2 DEF Slot
  <2> QED
    BY <2>1, RingTurn, Zenon
<1>4. [i \in 1 .. n |-> s[RingAt(p + i - 1)]] \in [1 .. n -> S]
  BY <1>3
<1>5. UnreadFrom(s, w, p) = [i \in 1 .. n |-> s[RingAt(p + i - 1)]]
  BY DEF UnreadFrom, n
<1>6. UnreadFrom(s, w, p) \in Seq(S) /\ Len(UnreadFrom(s, w, p)) = n
  BY <1>2, <1>4, <1>5
<1> QED
  BY <1>2, <1>5, <1>6 DEF n, IsUnread

IsPushed(new, old, e) == new = IF Len(old) + 1 = RING_MAX THEN <<>> ELSE Append(old, e)

IsTaken(new, old, e) == old # <<>> /\ Head(old) = e /\ new = Tail(old)

\* A push appends to what a reader has to read, or laps it.
LEMMA PushUnread ==
    ASSUME NEW S, NEW s \in [Slot -> S], NEW w \in Slot, NEW p \in Slot, NEW e \in S,
           NEW t \in [Slot -> S], t = [s EXCEPT ![w] = e],
           NEW v \in Slot, v = RingAt(w + 1)
    PROVE  IsPushed(UnreadFrom(t, v, p), UnreadFrom(s, w, p), e)
<1> DEFINE n == RingAt(w - p)
           m == RingAt(v - p)
           old == UnreadFrom(s, w, p)
           new == UnreadFrom(t, v, p)
<1>1. /\ RING_MAX \in Nat /\ RING_MAX > 1
      /\ w \in Int /\ w >= 0 /\ w < RING_MAX /\ p \in Int /\ p >= 0 /\ p < RING_MAX
  BY RingAssumption DEF Slot
<1>2. n = IF p <= w THEN w - p ELSE w - p + RING_MAX
  BY <1>1, RingMod
<1>3. v \in Slot /\ v = IF w + 1 = RING_MAX THEN 0 ELSE w + 1
  <2>1. w + 1 \in Int /\ w + 1 >= 0 /\ w + 1 < 2 * RING_MAX
    BY <1>1
  <2>2. PICK a : a = w + 1
    OBVIOUS
  <2>3. RingAt(a) \in Slot /\ RingAt(a) = IF a < RING_MAX THEN a ELSE a - RING_MAX
    BY <2>1, <2>2, RingTurn
  <2> QED
    BY <1>1, <2>2, <2>3
<1>4. v \in Int /\ v >= 0 /\ v < RING_MAX
  BY <1>1, <1>3 DEF Slot
<1>5. m = IF p <= v THEN v - p ELSE v - p + RING_MAX
  BY <1>1, <1>4, RingMod
<1>6. m = (IF n + 1 = RING_MAX THEN 0 ELSE n + 1) /\ n \in 0 .. RING_MAX - 1
  BY <1>1, <1>2, <1>3, <1>5
<1>7. t \in [Slot -> S] /\ \A i \in Slot : t[i] = IF i = w THEN e ELSE s[i]
  OBVIOUS
<1>8. /\ old \in Seq(S) /\ Len(old) = n /\ \A i \in 1 .. n : old[i] = s[RingAt(p + i - 1)]
  <2>1. IsUnread(UnreadFrom(s, w, p), S, s, w, p)
    BY UnreadType
  <2> QED
    BY <2>1 DEF IsUnread
<1>9. /\ new \in Seq(S) /\ Len(new) = m /\ \A i \in 1 .. m : new[i] = t[RingAt(p + i - 1)]
  <2>1. IsUnread(UnreadFrom(t, v, p), S, t, v, p)
    BY UnreadType
  <2> QED
    BY <2>1 DEF IsUnread
<1>10. \A i \in 1 .. n : RingAt(p + i - 1) \in Slot /\ RingAt(p + i - 1) # w
  <2> TAKE i \in 1 .. n
  <2>1. i \in Int /\ p + i - 1 \in Int /\ i >= 1 /\ i <= n /\ p + i - 1 >= 0 /\ p + i - 1 < 2 * RING_MAX
    BY <1>1, <1>6
  <2>2. PICK a : a = p + i - 1
    OBVIOUS
  <2>3. RingAt(a) \in Slot /\ RingAt(a) = IF a < RING_MAX THEN a ELSE a - RING_MAX
    BY <2>1, <2>2, RingTurn
  <2> HIDE DEF n
  <2>4. RingAt(a) # w
    BY <1>1, <1>2, <2>1, <2>2, <2>3
  <2> QED
    BY <2>2, <2>3, <2>4
<1>11. RingAt(p + (n + 1) - 1) = w
  <2>1. p + (n + 1) - 1 = IF p <= w THEN w ELSE w + RING_MAX
    BY <1>1, <1>2
  <2> QED
    BY <1>1, <2>1, RingMod
<1> HIDE DEF old, new
<1>12. CASE n + 1 = RING_MAX
  <2>1. Len(new) = 0
    BY <1>6, <1>9, <1>12
  <2>2. new = <<>>
    BY <1>9, <2>1
  <2> QED
    BY <1>8, <1>12, <2>2 DEF old, new, IsPushed
<1>13. CASE n + 1 # RING_MAX
  <2>1. m = n + 1 /\ n \in Nat
    BY <1>1, <1>6, <1>13
  <2> DEFINE app == Append(old, e)
  <2>2. /\ app \in Seq(S) /\ Len(app) = n + 1 /\ app[n + 1] = e
        /\ \A i \in 1 .. n : app[i] = old[i]
    BY <1>8, AppendProperties
  <2> HIDE DEF app, m, n
  <2>3. ASSUME NEW i \in 1 .. n + 1 PROVE new[i] = app[i]
    <3>1. i \in 1 .. n \/ i = n + 1
      BY <2>1
    <3>2. new[i] = t[RingAt(p + i - 1)]
      BY <1>9, <2>1
    <3>3. CASE i \in 1 .. n
      BY <1>7, <1>8, <1>10, <2>2, <3>2, <3>3
    <3>4. CASE i = n + 1
      <4>1. new[i] = t[w]
        BY <1>11, <3>2, <3>4
      <4> QED
        BY <1>7, <2>2, <3>4, <4>1
    <3> QED
      BY <3>1, <3>3, <3>4
  <2>4. new = app
    BY <1>9, <2>1, <2>2, <2>3, SeqEqual
  <2> QED
    BY <1>8, <1>13, <2>4 DEF old, new, app, IsPushed
<1> QED
  BY <1>12, <1>13

\* A read takes the first.
LEMMA TakeUnread ==
    ASSUME NEW S, NEW s \in [Slot -> S], NEW w \in Slot, NEW p \in Slot, p # w,
           NEW q \in Slot, q = RingAt(p + 1)
    PROVE  IsTaken(UnreadFrom(s, w, q), UnreadFrom(s, w, p), s[p])
<1> DEFINE n == RingAt(w - p)
           m == RingAt(w - q)
           old == UnreadFrom(s, w, p)
           new == UnreadFrom(s, w, q)
<1>1. /\ RING_MAX \in Nat /\ RING_MAX > 1
      /\ w \in Int /\ w >= 0 /\ w < RING_MAX /\ p \in Int /\ p >= 0 /\ p < RING_MAX
  BY RingAssumption DEF Slot
<1>2. n = IF p <= w THEN w - p ELSE w - p + RING_MAX
  BY <1>1, RingMod
<1>3. q \in Slot /\ q = IF p + 1 = RING_MAX THEN 0 ELSE p + 1
  <2>1. p + 1 \in Int /\ p + 1 >= 0 /\ p + 1 < 2 * RING_MAX
    BY <1>1
  <2>2. PICK a : a = p + 1
    OBVIOUS
  <2>3. RingAt(a) \in Slot /\ RingAt(a) = IF a < RING_MAX THEN a ELSE a - RING_MAX
    BY <2>1, <2>2, RingTurn
  <2> QED
    BY <1>1, <2>2, <2>3
<1>4. q \in Int /\ q >= 0 /\ q < RING_MAX
  BY <1>1, <1>3 DEF Slot
<1>5. m = IF q <= w THEN w - q ELSE w - q + RING_MAX
  BY <1>1, <1>4, RingMod
<1>6. n = m + 1 /\ m \in Nat /\ n < RING_MAX
  BY <1>1, <1>2, <1>3, <1>5
<1>7. /\ old \in Seq(S) /\ Len(old) = n /\ \A i \in 1 .. n : old[i] = s[RingAt(p + i - 1)]
  <2>1. IsUnread(UnreadFrom(s, w, p), S, s, w, p)
    BY UnreadType
  <2> QED
    BY <2>1 DEF IsUnread
<1>8. /\ new \in Seq(S) /\ Len(new) = m /\ \A i \in 1 .. m : new[i] = s[RingAt(q + i - 1)]
  <2>1. IsUnread(UnreadFrom(s, w, q), S, s, w, q)
    BY UnreadType
  <2> QED
    BY <2>1 DEF IsUnread
<1>9. RingAt(p + 1 - 1) = p
  BY <1>1, RingMod
<1> HIDE DEF m, n, old, new
<1>10. old # <<>> /\ Head(old) = old[1] /\ old[1] = s[p]
  <2>1. old # <<>> /\ Head(old) = old[1] /\ 1 \in 1 .. n
    BY <1>6, <1>7
  <2> QED
    BY <1>7, <1>9, <2>1
<1>11. /\ Tail(old) \in Seq(S) /\ Len(Tail(old)) = m
       /\ \A i \in 1 .. m : Tail(old)[i] = old[i + 1]
  BY <1>6, <1>7, <1>10, HeadTailProperties
<1>12. ASSUME NEW i \in 1 .. m PROVE new[i] = Tail(old)[i]
  <2>1. i \in Int /\ i >= 1 /\ i <= m /\ i + 1 \in 1 .. n
    BY <1>6
  <2>2. RingAt(p + (i + 1) - 1) = RingAt(q + i - 1)
    <3>1. /\ p + (i + 1) - 1 \in Int /\ q + i - 1 \in Int /\ p + (i + 1) - 1 >= 0 /\ q + i - 1 >= 0
          /\ p + (i + 1) - 1 < 2 * RING_MAX /\ q + i - 1 < 2 * RING_MAX
      BY <1>1, <1>4, <1>6, <2>1
    <3>2. PICK a, b : a = p + (i + 1) - 1 /\ b = q + i - 1
      OBVIOUS
    <3>3. RingAt(a) = IF a < RING_MAX THEN a ELSE a - RING_MAX
      BY <3>1, <3>2, RingTurn
    <3>4. RingAt(b) = IF b < RING_MAX THEN b ELSE b - RING_MAX
      BY <3>1, <3>2, RingTurn
    <3>5. RingAt(a) = RingAt(b)
      BY <1>1, <1>3, <1>4, <1>6, <2>1, <3>1, <3>2, <3>3, <3>4
    <3> QED
      BY <3>2, <3>5
  <2> QED
    BY <1>7, <1>8, <1>11, <2>1, <2>2
<1>13. new = Tail(old)
  BY <1>8, <1>11, <1>12, SeqEqual
<1> QED
  BY <1>3, <1>10, <1>13 DEF old, new, IsTaken

-----------------------------------------------------------------------------
(* One step per action *)

\* Unread of the model, in both states of a step.
LEMMA UnreadIs ==
    ASSUME NEW r
    PROVE  /\ Unread(r) = UnreadFrom(slots, writeIndex, ereader[r].pos)
           /\ Unread(r)' = UnreadFrom(slots', writeIndex', ereader'[r].pos)
BY DEF Unread, UnreadFrom, RingAt

\* The step of EventTake moves the reader on, and every other step of a reader
\* leaves its position and what it got alone.
LEMMA WaitStep ==
    ASSUME RingTypeOK, NEW r \in EventReader,
           EventRead(r) \/ EventWait(r) \/ EventBlock(r) \/ EventTimeout(r)
    PROVE  /\ RingTypeOK'
           /\ UNCHANGED <<kind, slots, writeIndex, mods, put>>
           /\ \A s \in EventReader : ereader'[s].pos = ereader[s].pos /\ ereader'[s].got = ereader[s].got
<1>1. PICK pc \in {"idle", "test", "release", "blocked"} :
          ereader' = [ereader EXCEPT ![r] = [ereader[r] EXCEPT !.pc = pc]]
  BY DEF EventRead, EventWait, EventBlock, EventTimeout
<1>2. UNCHANGED <<kind, slots, writeIndex, mods, put>>
  BY DEF EventRead, EventWait, EventBlock, EventTimeout
<1>3. ereader \in [EventReader -> EventReaderRecord]
  BY DEF RingTypeOK
<1>4. /\ ereader' \in [EventReader -> EventReaderRecord]
      /\ \A s \in EventReader : ereader'[s].pos = ereader[s].pos /\ ereader'[s].got = ereader[s].got
  BY <1>1, <1>3 DEF EventReaderRecord
<1> QED
  BY <1>2, <1>4 DEF RingTypeOK

\* A push into the ring is a push into every queue.
LEMMA PushStep ==
    ASSUME RingTypeOK, NEW e \in BOOLEAN, Pushed(e), ereader' = Woken, put' = e,
           UNCHANGED kind, mods' \in BOOLEAN
    PROVE  RingTypeOK' /\ Queue!EQPush(e)
<1>1. /\ slots \in [Slot -> BOOLEAN] /\ writeIndex \in Slot
      /\ ereader \in [EventReader -> EventReaderRecord]
  BY DEF RingTypeOK
<1>2. slots' \in [Slot -> BOOLEAN] /\ slots' = [slots EXCEPT ![writeIndex] = e]
  BY <1>1 DEF Pushed
<1>3. writeIndex' \in Slot /\ writeIndex' = RingAt(writeIndex + 1)
  <2>1. writeIndex + 1 \in Int
    BY <1>1, RingAssumption DEF Slot
  <2>2. RingAt(writeIndex + 1) \in 0 .. RING_MAX - 1
    BY <2>1, RingMod
  <2> QED
    BY <2>2 DEF Pushed, RingAt, Slot
<1>4. /\ ereader' \in [EventReader -> EventReaderRecord]
      /\ \A s \in EventReader : ereader'[s].pos = ereader[s].pos /\ ereader'[s].got = ereader[s].got
  BY <1>1 DEF Woken, EventReaderRecord
<1>5. RingTypeOK'
  BY <1>2, <1>3, <1>4 DEF RingTypeOK
<1>6. ASSUME NEW r \in EventReader
      PROVE  Unread(r)' = IF Len(Unread(r)) + 1 = RING_MAX THEN <<>> ELSE Append(Unread(r), e)
  <2>1. PICK p \in Slot : p = ereader[r].pos /\ p = ereader'[r].pos
    BY <1>1, <1>4 DEF EventReaderRecord
  <2>2. IsPushed(UnreadFrom(slots', writeIndex', p), UnreadFrom(slots, writeIndex, p), e)
    <3>1. PICK S, x : S = BOOLEAN /\ x = e
      OBVIOUS
    <3>2. PICK t, v : t = slots' /\ v = writeIndex'
      OBVIOUS
    <3>3. /\ slots \in [Slot -> S] /\ writeIndex \in Slot /\ x \in S /\ p \in Slot
          /\ t \in [Slot -> S] /\ t = [slots EXCEPT ![writeIndex] = x]
          /\ v \in Slot /\ v = RingAt(writeIndex + 1)
      BY <1>1, <1>2, <1>3, <2>1, <3>1, <3>2, Zenon
    <3>4. IsPushed(UnreadFrom(t, v, p), UnreadFrom(slots, writeIndex, p), x)
      BY <3>3, PushUnread
    <3> QED
      BY <3>1, <3>2, <3>4, Zenon
  <2> QED
    BY <2>1, <2>2, UnreadIs DEF IsPushed
<1>7. [r \in EventReader |-> ereader'[r].got] = [r \in EventReader |-> ereader[r].got]
  BY <1>4
<1>8. [r \in EventReader |-> Unread(r)'] =
          [r \in EventReader |-> IF Len(Unread(r)) + 1 = RING_MAX THEN <<>> ELSE Append(Unread(r), e)]
  BY <1>6, Zenon
<1>9. Queue!EQPush(e)
  BY <1>7, <1>8 DEF Queue!EQPush
<1> QED
  BY <1>5, <1>9

\* A read from the ring is a read from the queue of the reader.
LEMMA TakeStep ==
    ASSUME RingTypeOK, NEW r \in EventReader, EventTake(r)
    PROVE  RingTypeOK' /\ Queue!EQRead(r)
<1>1. /\ slots \in [Slot -> BOOLEAN] /\ writeIndex \in Slot
      /\ ereader \in [EventReader -> EventReaderRecord]
  BY DEF RingTypeOK
<1>2. PICK p \in Slot : p = ereader[r].pos
  BY <1>1 DEF EventReaderRecord
<1>3. PICK q \in Slot : q = RingAt(p + 1)
  <2>1. p + 1 \in Int
    BY <1>2, RingAssumption DEF Slot
  <2> QED
    BY <2>1, RingMod DEF Slot
<1>4. /\ ereader' = [ereader EXCEPT ![r] = [pc |-> "idle", pos |-> q, got |-> <<slots[p]>>]]
      /\ p # writeIndex /\ UNCHANGED <<kind, slots, writeIndex, mods, put>>
  BY <1>2, <1>3 DEF EventTake, RingAt
<1>5. slots[p] \in BOOLEAN
  BY <1>1, <1>2
<1>6. [pc |-> "idle", pos |-> q, got |-> <<slots[p]>>] \in EventReaderRecord
  BY <1>3, <1>5, Zenon DEF EventReaderRecord
<1>7. /\ ereader' \in [EventReader -> EventReaderRecord]
      /\ ereader'[r].pos = q /\ ereader'[r].got = <<slots[p]>>
      /\ \A s \in EventReader : s # r => ereader'[s] = ereader[s]
  BY <1>1, <1>4, <1>6
<1>8. RingTypeOK'
  BY <1>4, <1>7 DEF RingTypeOK
<1>9. /\ Unread(r) # <<>> /\ Head(Unread(r)) = slots[p]
      /\ Unread(r)' = Tail(Unread(r))
  <2>1. IsTaken(UnreadFrom(slots, writeIndex, q), UnreadFrom(slots, writeIndex, p), slots[p])
    BY <1>1, <1>2, <1>3, <1>4, TakeUnread
  <2> QED
    BY <1>2, <1>4, <1>7, <2>1, UnreadIs DEF IsTaken
<1>10. \A s \in EventReader : s # r => Unread(s)' = Unread(s)
  BY <1>4, <1>7 DEF Unread
<1>11. [s \in EventReader |-> Unread(s)'] =
           [[s \in EventReader |-> Unread(s)] EXCEPT ![r] = Tail(Unread(r))]
  BY <1>9, <1>10
<1>12. [s \in EventReader |-> ereader'[s].got] =
           [[s \in EventReader |-> ereader[s].got] EXCEPT ![r] = <<Head(Unread(r))>>]
  BY <1>7, <1>9
<1>13. Queue!EQRead(r)
  BY <1>4, <1>9, <1>11, <1>12 DEF Queue!EQRead
<1> QED
  BY <1>8, <1>13

\* Every step of the ring keeps the indexes in it and is a step of the queue or
\* none.
LEMMA RingNextStep ==
    ASSUME RingTypeOK, [RingNext]_ringVars
    PROVE  RingTypeOK' /\ [Queue!EQNext]_(<<put, [r \in EventReader |-> Unread(r)],
                                             [r \in EventReader |-> ereader[r].got]>>)
<1> DEFINE qv == <<put, [r \in EventReader |-> Unread(r)], [r \in EventReader |-> ereader[r].got]>>
<1>1. ASSUME UNCHANGED ringVars PROVE RingTypeOK' /\ UNCHANGED qv
  BY <1>1 DEF ringVars, RingTypeOK, Unread
<1>2. ASSUME NEW type \in {"press", "release", "none"}, KbdPush(type)
      PROVE  RingTypeOK' /\ Queue!EQNext
  <2>1. PICK e \in BOOLEAN : e = mods'
    BY <1>2 DEF KbdPush, RingTypeOK
  <2>2. RingTypeOK' /\ Queue!EQPush(e)
    BY <1>2, <2>1, PushStep DEF KbdPush
  <2> QED
    BY <2>1, <2>2 DEF Queue!EQNext
<1>3. ASSUME NEW e \in BOOLEAN, MousePush(e) \/ MsgQueuePush(e)
      PROVE  RingTypeOK' /\ Queue!EQNext
  <2>1. RingTypeOK' /\ Queue!EQPush(e)
    BY <1>3, PushStep DEF MousePush, MsgQueuePush, RingTypeOK
  <2> QED
    BY <2>1 DEF Queue!EQNext
<1>4. ASSUME NEW r \in EventReader, EventTake(r) PROVE RingTypeOK' /\ Queue!EQNext
  BY <1>4, TakeStep DEF Queue!EQNext
<1>5. ASSUME NEW r \in EventReader,
             EventRead(r) \/ EventWait(r) \/ EventBlock(r) \/ EventTimeout(r)
      PROVE  RingTypeOK' /\ UNCHANGED qv
  <2>1. /\ RingTypeOK'
        /\ UNCHANGED <<kind, slots, writeIndex, mods, put>>
        /\ \A s \in EventReader : ereader'[s].pos = ereader[s].pos /\ ereader'[s].got = ereader[s].got
    BY <1>5, WaitStep
  <2>2. [s \in EventReader |-> ereader'[s].got] = [s \in EventReader |-> ereader[s].got]
    BY <2>1
  <2>3. \A s \in EventReader : Unread(s)' = Unread(s)
    BY <2>1 DEF Unread
  <2>4. [s \in EventReader |-> Unread(s)'] = [s \in EventReader |-> Unread(s)]
    BY <2>3, Zenon
  <2> QED
    BY <2>1, <2>2, <2>4
<1> QED
  BY <1>1, <1>2, <1>3, <1>4, <1>5 DEF RingNext

\* The ring starts as empty queues.
LEMMA RingInitStep == RingInit => RingTypeOK /\ Queue!EQInit
<1> SUFFICES ASSUME RingInit PROVE RingTypeOK /\ Queue!EQInit
  OBVIOUS
<1>1. 0 \in Slot /\ RING_MAX \in Nat /\ RING_MAX > 0
  BY RingAssumption DEF Slot
<1>2. RingTypeOK
  BY <1>1 DEF RingInit, RingTypeOK, EventReaderRecord
<1>3. ASSUME NEW r \in EventReader PROVE Unread(r) = <<>>
  <2>1. ereader[r].pos = 0 /\ writeIndex = 0 /\ slots \in [Slot -> BOOLEAN]
    BY <1>2 DEF RingInit, RingTypeOK
  <2>2. RingAt(0 - 0) = 0
    BY <1>1, RingMod
  <2>3. IsUnread(UnreadFrom(slots, 0, 0), BOOLEAN, slots, 0, 0)
    BY <1>1, <2>1, UnreadType
  <2>4. UnreadFrom(slots, 0, 0) \in Seq(BOOLEAN) /\ Len(UnreadFrom(slots, 0, 0)) = 0
    BY <2>2, <2>3 DEF IsUnread
  <2>5. UnreadFrom(slots, 0, 0) = <<>>
    BY <2>4, EmptySeq
  <2> QED
    BY <2>1, <2>5, UnreadIs
<1>4. [r \in EventReader |-> Unread(r)] = [r \in EventReader |-> <<>>]
  BY <1>3, Zenon
<1>5. [r \in EventReader |-> ereader[r].got] = [r \in EventReader |-> <<>>]
  BY DEF RingInit
<1>6. Queue!EQInit
  BY <1>2, <1>4, <1>5 DEF RingInit, Queue!EQInit
<1> QED
  BY <1>2, <1>6

\* The rings of the keyboard, the mouse and the windows are queues that drop what
\* a lapped reader had not read, for any size and any number of readers.
THEOREM RingImplementsQueue == RingSpec => RingIsQueue
<1>1. RingInit => RingTypeOK /\ Queue!EQInit
  BY RingInitStep
<1>2. RingTypeOK /\ [RingNext]_ringVars
        => RingTypeOK' /\ [Queue!EQNext]_(<<put, [r \in EventReader |-> Unread(r)],
                                             [r \in EventReader |-> ereader[r].got]>>)
  BY RingNextStep
<1> QED
  BY <1>1, <1>2, PTL DEF RingSpec, RingIsQueue, Queue!EQSpec

-----------------------------------------------------------------------------
(* The window manager, for any set of windows *)

\* The window is there, and its file has not begun to close it.
Alive(r) == r.life \notin {"none", "closing"}

Clean(r) == ~r.moved /\ ~r.invalid

DwmRecord == [pc: {"draw", "windows", "poll", "block", "input", "fault"}, todo: Seq(Win)]

DwmShape ==
    /\ windows \in Seq(Win) /\ Distinct(windows)
    /\ {selected, cursor, wall} \subseteq Win \cup {NULL}
    /\ win \in [Win -> WinRecord]
    /\ dwm \in DwmRecord /\ Distinct(dwm.todo)
    /\ redrawNeeded \in BOOLEAN /\ unasked \in BOOLEAN

\* Every window that the thread reaches is there; the windows of a pass that are
\* still to be drawn are in the list, which nobody changes during the pass.
Reached ==
    /\ \A w \in Range(windows) : Alive(win[w]) /\ Listed(w)
    /\ dwm.pc # "windows" => dwm.todo = <<>>
    /\ Range(dwm.todo) \subseteq Range(windows)
    /\ selected # NULL => selected \in Range(windows)
    /\ cursor # NULL => Alive(win[cursor]) /\ TypeOf[cursor] = "cursor"
    /\ wall # NULL => Alive(win[wall]) /\ TypeOf[wall] = "wall"

\* Unless a pass is about to begin or is asked for, what is behind the pass is
\* drawn, but for the windows whose client is about to ask.
Drawn ==
    \/ dwm.pc = "draw" \/ redrawNeeded \/ unasked \/ wall = NULL
    \/ \A w \in Range(windows) \cup {wall} :
            w \notin Range(dwm.todo) => (WinUnlocked(w) => Clean(win[w]))

DwmInv == DwmShape /\ Reached /\ Drawn

-----------------------------------------------------------------------------
(* One step per action *)

\* The list of windows at the start, and of a pass at its end.
LEMMA EmptyList ==
    /\ <<>> \in Seq(Win) /\ Distinct(<<>>) /\ Range(<<>>) = {}
<1>1. <<>> \in Seq(Win) /\ Len(<<>>) = 0 /\ \A i \in 1 .. 0 : FALSE
  OBVIOUS
<1> QED
  BY <1>1, RangeOf DEF Distinct

\* A step on the windows' flags and lives, of a client or of the thread, that
\* ends the life of none
LEMMA FlagsStep ==
    ASSUME DwmInv, UNCHANGED <<windows, selected, cursor, wall>>,
           win' \in [Win -> WinRecord], \A w \in Win : Alive(win[w]) => Alive(win'[w]),
           dwm' \in DwmRecord, Distinct(dwm'.todo), Range(dwm'.todo) \subseteq Range(windows),
           dwm'.pc # "windows" => dwm'.todo = <<>>,
           redrawNeeded' \in BOOLEAN, unasked' \in BOOLEAN
    PROVE  DwmShape' /\ Reached'
<1>1. Range(windows) \subseteq Win
  BY RangeOf DEF DwmInv, DwmShape
<1>2. DwmShape'
  BY DEF DwmInv, DwmShape
<1>3. Reached'
  BY <1>1 DEF DwmInv, DwmShape, Reached, Listed
<1> QED
  BY <1>2, <1>3

\* A client changes the record of its window.
LEMMA RecordStep ==
    ASSUME DwmInv, NEW w \in Win, NEW r \in WinRecord, win' = [win EXCEPT ![w] = r],
           Alive(win[w]) => Alive(r),
           r.life \in {"flushing", "moving"} \/ redrawNeeded' = TRUE \/ ~Alive(win[w]),
           UNCHANGED <<windows, selected, cursor, wall, dwm, unasked>>,
           redrawNeeded' \in {redrawNeeded, TRUE}
    PROVE  DwmInv'
<1>1. /\ win \in [Win -> WinRecord] /\ dwm \in DwmRecord /\ redrawNeeded \in BOOLEAN
      /\ Range(windows) \subseteq Win
  BY RangeOf DEF DwmInv, DwmShape
<1>2. /\ win' \in [Win -> WinRecord] /\ win'[w] = r
      /\ \A x \in Win : x # w => win'[x] = win[x]
  BY <1>1
<1>3. DwmShape' /\ Reached'
  BY <1>1, <1>2, FlagsStep DEF DwmInv, DwmShape, Reached
<1>4. Drawn'
  <2>1. CASE redrawNeeded'
    BY <2>1 DEF Drawn
  <2>2. CASE ~redrawNeeded'
    <3>1. ~redrawNeeded
      BY <1>1, <2>2
    <3>2. CASE dwm.pc = "draw" \/ unasked \/ wall = NULL
      BY <3>2 DEF Drawn
    <3>3. CASE ~(dwm.pc = "draw" \/ unasked \/ wall = NULL)
      <4>1. ASSUME NEW x \in Range(windows) \cup {wall}, x \notin Range(dwm.todo),
                   win'[x].life \notin {"flushing", "moving"}
            PROVE  Clean(win'[x])
        <5>1. x \in Win /\ Alive(win[x])
          BY <1>1, <3>3, <4>1 DEF DwmInv, DwmShape, Reached
        <5>2. x # w
          BY <1>2, <2>2, <4>1, <5>1
        <5> QED
          BY <1>2, <3>1, <3>3, <4>1, <5>1, <5>2 DEF DwmInv, Drawn, WinUnlocked
      <4> QED
        BY <4>1 DEF Drawn, WinUnlocked
    <3> QED
      BY <3>2, <3>3
  <2> QED
    BY <2>1, <2>2
<1> QED
  BY <1>3, <1>4 DEF DwmInv

\* What a client does to its own window.
LEMMA ClientStep ==
    ASSUME DwmInv, NEW w \in Win,
           CursorRequest(w) \/ Flush(w) \/ FlushRequest(w) \/ Move(w) \/ MoveRequest(w) \/ Free(w)
    PROVE  DwmInv'
<1>1. win \in [Win -> WinRecord] /\ win[w] \in WinRecord /\ redrawNeeded \in BOOLEAN
  BY DEF DwmInv, DwmShape
<1>2. CASE CursorRequest(w)
  <2>1. win' = [win EXCEPT ![w] = win[w]] /\ redrawNeeded' = TRUE
    BY <1>1, <1>2 DEF CursorRequest
  <2> QED
    BY <1>1, <1>2, <2>1, RecordStep DEF CursorRequest
<1>3. CASE Flush(w)
  <2>1. PICK r \in WinRecord : r = [win[w] EXCEPT !.life = "flushing", !.invalid = TRUE]
    BY <1>1 DEF WinRecord
  <2>2. win' = [win EXCEPT ![w] = r] /\ r.life = "flushing" /\ Alive(r)
    BY <1>1, <1>3, <2>1 DEF Flush, Alive, WinRecord
  <2> QED
    BY <1>3, <2>1, <2>2, RecordStep DEF Flush
<1>4. CASE FlushRequest(w)
  <2>1. PICK r \in WinRecord : r = [win[w] EXCEPT !.life = "live"]
    BY <1>1 DEF WinRecord
  <2>2. win' = [win EXCEPT ![w] = r] /\ Alive(r) /\ redrawNeeded' = TRUE
    BY <1>1, <1>4, <2>1 DEF FlushRequest, Alive, WinRecord
  <2> QED
    BY <1>4, <2>1, <2>2, RecordStep DEF FlushRequest
<1>5. CASE Move(w)
  <2>1. PICK r \in WinRecord : r = [win[w] EXCEPT !.life = "moving", !.moved = TRUE]
    BY <1>1 DEF WinRecord
  <2>2. win' = [win EXCEPT ![w] = r] /\ r.life = "moving" /\ Alive(r)
    BY <1>1, <1>5, <2>1 DEF Move, Alive, WinRecord
  <2> QED
    BY <1>5, <2>1, <2>2, RecordStep DEF Move
<1>6. CASE MoveRequest(w)
  <2>1. PICK r \in WinRecord : r = [win[w] EXCEPT !.life = IF TypeOf[w] = "panel" THEN "moved" ELSE "live"]
    BY <1>1 DEF WinRecord
  <2>2. win' = [win EXCEPT ![w] = r] /\ Alive(r) /\ redrawNeeded' = TRUE
    BY <1>1, <1>6, <2>1 DEF MoveRequest, Alive, WinRecord
  <2> QED
    BY <1>6, <2>1, <2>2, RecordStep DEF MoveRequest
<1>7. CASE Free(w)
  <2>1. NoWindow \in WinRecord
    BY DEF NoWindow, WinRecord
  <2>2. win' = [win EXCEPT ![w] = NoWindow] /\ ~Alive(win[w])
    BY <1>7 DEF Free, Alive
  <2> QED
    BY <1>7, <2>1, <2>2, RecordStep DEF Free
<1> QED
  BY <1>2, <1>3, <1>4, <1>5, <1>6, <1>7

\* Marking windows leaves their lives alone.
LEMMA MarkMovedIs ==
    ASSUME NEW ws \in [Win -> WinRecord], NEW list
    PROVE  /\ MarkMoved(ws, list) \in [Win -> WinRecord]
           /\ \A x \in Win : MarkMoved(ws, list)[x].life = ws[x].life
           /\ \A x \in Win : x \notin Range(list) => MarkMoved(ws, list)[x] = ws[x]
BY DEF MarkMoved, WinRecord

\* A moved panel moves the area that it leaves to the windows.
LEMMA UpdateClientRectStep ==
    ASSUME DwmInv, NEW w \in Win, UpdateClientRect(w)
    PROVE  DwmInv'
<1>1. /\ win \in [Win -> WinRecord] /\ dwm \in DwmRecord /\ redrawNeeded \in BOOLEAN
  BY DEF DwmInv, DwmShape
<1> DEFINE ws == [win EXCEPT ![w].life = "live"]
<1>2. ws \in [Win -> WinRecord] /\ \A x \in Win : Alive(win[x]) => Alive(ws[x])
  BY <1>1 DEF WinRecord, Alive
<1>3. win' = MarkMoved(ws, windows) /\ unasked' = TRUE
  BY DEF UpdateClientRect
<1> HIDE DEF ws
<1>4. win' \in [Win -> WinRecord] /\ \A x \in Win : Alive(win[x]) => Alive(win'[x])
  BY <1>2, <1>3, MarkMovedIs DEF Alive
<1>5. DwmShape' /\ Reached'
  BY <1>1, <1>3, <1>4, FlagsStep DEF UpdateClientRect, DwmInv, DwmShape, Reached
<1> QED
  BY <1>3, <1>5 DEF DwmInv, Drawn

\* A window that is not there is in no list and is nobody's.
LEMMA NewWindow ==
    ASSUME DwmInv, NEW w \in Win, win[w].life = "none"
    PROVE  w \notin Range(windows) /\ w # selected /\ w # cursor /\ w # wall /\ w # NULL
BY DwmAssumption DEF DwmInv, Reached, Alive

\* The cursor and the wall are held by a pointer each.
LEMMA CreateOneStep ==
    ASSUME DwmInv, NEW w \in Win, CreateCursor(w) \/ CreateWall(w)
    PROVE  DwmInv'
<1>1. /\ win \in [Win -> WinRecord] /\ Range(windows) \subseteq Win
  BY RangeOf DEF DwmInv, DwmShape
<1>2. PICK r \in WinRecord : r = [NoWindow EXCEPT !.life = "live", !.moved = TRUE]
  BY DEF NoWindow, WinRecord
<1>3. /\ win' = [win EXCEPT ![w] = r] /\ win[w].life = "none" /\ redrawNeeded' = TRUE
      /\ UNCHANGED <<windows, selected, dwm, unasked>>
      /\ \/ TypeOf[w] = "cursor" /\ cursor' = w /\ UNCHANGED wall
         \/ TypeOf[w] = "wall" /\ wall' = w /\ UNCHANGED cursor
  BY <1>2 DEF CreateCursor, CreateWall
<1>4. Alive(r)
  BY <1>2 DEF NoWindow, Alive
<1>5. /\ win' \in [Win -> WinRecord] /\ win'[w] = r
      /\ \A x \in Win : x # w => win'[x] = win[x]
  BY <1>1, <1>3
<1>6. \A x \in Win : Alive(win[x]) => Alive(win'[x])
  BY <1>4, <1>5
<1>7. DwmShape'
  BY <1>3, <1>5 DEF DwmInv, DwmShape
<1>8. Reached'
  BY <1>1, <1>3, <1>4, <1>5, <1>6, DwmAssumption DEF DwmInv, DwmShape, Reached, Listed
<1> QED
  BY <1>3, <1>7, <1>8 DEF DwmInv, Drawn

\* dwm_select keeps the windows of the list.
LEMMA RaiseIs ==
    ASSUME NEW list \in Seq(Win), Distinct(list), NEW w \in Range(list) \cup {NULL}
    PROVE  Raise(list, w) \in Seq(Win) /\ Distinct(Raise(list, w)) /\ Range(Raise(list, w)) = Range(list)
<1>1. CASE w \in {selected, NULL}
  BY <1>1 DEF Raise
<1>2. CASE w \notin {selected, NULL}
  <2>1. w \in Range(list) /\ w \in Win
    BY <1>2, RangeOf
  <2> DEFINE rest == RemoveFirst(list, w)
  <2>2. rest \in Seq(Win) /\ Distinct(rest) /\ Range(rest) = Range(list) \ {w}
    BY RemoveFirstUnlinks
  <2> HIDE DEF rest
  <2>3. /\ Append(rest, w) \in Seq(Win) /\ Distinct(Append(rest, w))
        /\ Range(Append(rest, w)) = Range(rest) \cup {w}
    BY <2>1, <2>2, AppendLinks
  <2>4. Raise(list, w) = Append(rest, w)
    BY <1>2 DEF Raise, rest
  <2> QED
    BY <2>1, <2>2, <2>3, <2>4
<1> QED
  BY <1>1, <1>2

\* The selection of a window changes its flags only.
LEMMA SelectIs ==
    ASSUME NEW ws \in [Win -> WinRecord], NEW w
    PROVE  /\ Select(ws, w) \in [Win -> WinRecord]
           /\ \A x \in Win : Select(ws, w)[x].life = ws[x].life
BY DEF Select, WinRecord

\* A new window or panel is linked into the list.
LEMMA CreateListedStep ==
    ASSUME DwmInv, NEW w \in Win, CreateListed(w)
    PROVE  DwmInv'
<1>1. /\ win \in [Win -> WinRecord] /\ Range(windows) \subseteq Win /\ windows \in Seq(Win)
      /\ Distinct(windows)
  BY RangeOf DEF DwmInv, DwmShape
<1>2. PICK r \in WinRecord : r = [NoWindow EXCEPT !.life = "live", !.moved = TRUE]
  BY DEF NoWindow, WinRecord
<1> DEFINE new == [win EXCEPT ![w] = r]
           list == Append(windows, w)
<1>3. /\ win[w].life = "none" /\ Listed(w) /\ Unlocked /\ selected' = w /\ redrawNeeded' = TRUE
      /\ windows' = Raise(list, w)
      /\ win' = Select(IF TypeOf[w] = "panel" THEN MarkMoved(new, list) ELSE new, w)
      /\ UNCHANGED <<cursor, wall, dwm, unasked>>
  BY <1>2 DEF CreateListed
<1>4. w \notin Range(windows) /\ w # selected
  BY <1>3, NewWindow
<1>5. list \in Seq(Win) /\ Distinct(list) /\ Range(list) = Range(windows) \cup {w}
  BY <1>1, <1>4, AppendLinks
<1>6. /\ new \in [Win -> WinRecord] /\ new[w].life = "live"
      /\ \A x \in Win : Alive(win[x]) => Alive(new[x])
  BY <1>1, <1>2 DEF NoWindow, Alive
<1> HIDE DEF new, list
<1>7. windows' \in Seq(Win) /\ Distinct(windows') /\ Range(windows') = Range(windows) \cup {w}
  BY <1>3, <1>5, RaiseIs
<1>8. PICK ws \in [Win -> WinRecord] :
          ws = (IF TypeOf[w] = "panel" THEN MarkMoved(new, list) ELSE new) /\ \A x \in Win : ws[x].life = new[x].life
  BY <1>6, MarkMovedIs
<1>9. win' \in [Win -> WinRecord] /\ \A x \in Win : win'[x].life = new[x].life
  BY <1>3, <1>8, SelectIs
<1>10. Alive(win'[w]) /\ \A x \in Win : Alive(win[x]) => Alive(win'[x])
  BY <1>6, <1>9 DEF Alive
<1>11. DwmShape'
  BY <1>3, <1>7, <1>9 DEF DwmInv, DwmShape
<1>12. Reached'
  BY <1>1, <1>3, <1>7, <1>10 DEF DwmInv, DwmShape, Reached, Listed, Unlocked
<1> QED
  BY <1>3, <1>11, <1>12 DEF DwmInv, Drawn

\* The cleanup unlinks the window from whatever holds it.
LEMMA CleanupStep ==
    ASSUME DwmInv, NEW w \in Win, Cleanup(w)
    PROVE  DwmInv'
<1>1. /\ win \in [Win -> WinRecord] /\ Range(windows) \subseteq Win /\ windows \in Seq(Win)
      /\ Distinct(windows) /\ dwm.todo = <<>> /\ dwm.pc # "windows"
  BY RangeOf DEF DwmInv, DwmShape, Reached, Cleanup, Unlocked
<1>2. /\ selected' = (IF selected = w THEN NULL ELSE selected)
      /\ cursor' = (IF cursor = w THEN NULL ELSE cursor)
      /\ wall' = (IF wall = w THEN NULL ELSE wall)
      /\ windows' = RemoveFirst(windows, w) /\ redrawNeeded' = TRUE
      /\ UNCHANGED <<dwm, unasked>>
  BY DEF Cleanup
<1>3. windows' \in Seq(Win) /\ Distinct(windows') /\ Range(windows') = Range(windows) \ {w}
  BY <1>1, <1>2, RemoveFirstUnlinks
<1> DEFINE closing == [win EXCEPT ![w].life = "closing"]
           rest == IF TypeOf[w] = "panel" THEN MarkMoved(closing, windows') ELSE closing
<1>4. closing \in [Win -> WinRecord] /\ \A x \in Win : x # w => closing[x] = win[x]
  BY <1>1 DEF WinRecord
<1>5. win' = [x \in Win |-> IF x = wall' THEN [rest[x] EXCEPT !.moved = TRUE] ELSE rest[x]]
  BY DEF Cleanup
<1> HIDE DEF closing
<1>6. rest \in [Win -> WinRecord] /\ \A x \in Win : rest[x].life = closing[x].life
  BY <1>4, MarkMovedIs
<1> HIDE DEF rest
<1>7. win' \in [Win -> WinRecord] /\ \A x \in Win : win'[x].life = rest[x].life
  BY <1>5, <1>6 DEF WinRecord
<1>8. \A x \in Win : x # w /\ Alive(win[x]) => Alive(win'[x])
  BY <1>4, <1>6, <1>7 DEF Alive
<1>9. DwmShape'
  BY <1>2, <1>3, <1>7 DEF DwmInv, DwmShape
<1>10. Reached'
  BY <1>1, <1>2, <1>3, <1>8, EmptyList DEF DwmInv, DwmShape, Reached, Listed
<1> QED
  BY <1>2, <1>9, <1>10 DEF DwmInv, Drawn

\* The thread outside of a pass
LEMMA ThreadStep ==
    ASSUME DwmInv, DrawNothing \/ Poll \/ Wake \/ NoInput
    PROVE  DwmInv'
<1>1. /\ win \in [Win -> WinRecord] /\ dwm \in DwmRecord /\ redrawNeeded \in BOOLEAN
      /\ dwm.todo = <<>> /\ dwm.pc # "windows"
  BY DEF DwmInv, DwmShape, Reached, DrawNothing, Poll, Wake, NoInput
<1>2. PICK pc \in {"draw", "poll", "block", "input"} : dwm' = [dwm EXCEPT !.pc = pc]
  BY DEF DrawNothing, Poll, Wake, NoInput
<1>3. dwm' \in DwmRecord /\ dwm'.pc = pc /\ dwm'.todo = dwm.todo
  BY <1>1, <1>2 DEF DwmRecord
<1>4. UNCHANGED <<windows, selected, cursor, wall, win, unasked>> /\ redrawNeeded' \in BOOLEAN
  BY <1>1 DEF DrawNothing, Poll, Wake, NoInput
<1>5. DwmShape' /\ Reached'
  BY <1>1, <1>3, <1>4, FlagsStep DEF DwmInv, DwmShape, Reached
<1>6. Drawn'
  <2>1. CASE DrawNothing
    BY <1>4, <2>1 DEF DrawNothing, Drawn
  <2>2. CASE Poll /\ redrawNeeded
    BY <1>1, <2>2 DEF Poll, Drawn, DwmRecord
  <2>3. CASE Poll /\ ~redrawNeeded
    <3>1. ~redrawNeeded /\ ~redrawNeeded' /\ dwm.pc # "draw"
      BY <1>1, <2>3 DEF Poll
    <3> QED
      BY <1>3, <1>4, <3>1 DEF DwmInv, Drawn, WinUnlocked
  <2>4. CASE Wake \/ NoInput
    <3>1. redrawNeeded' = redrawNeeded /\ dwm.pc # "draw"
      BY <1>1, <2>4 DEF Wake, NoInput
    <3> QED
      BY <1>3, <1>4, <3>1 DEF DwmInv, Drawn, WinUnlocked
  <2> QED
    BY <2>1, <2>2, <2>3, <2>4
<1> QED
  BY <1>5, <1>6 DEF DwmInv

\* The pass begins with the wall.
LEMMA DrawWallStep ==
    ASSUME DwmInv, DrawWall
    PROVE  DwmInv'
<1>1. /\ win \in [Win -> WinRecord] /\ dwm \in DwmRecord /\ redrawNeeded \in BOOLEAN
      /\ wall \in Win /\ TypeOf[wall] = "wall" /\ windows \in Seq(Win) /\ Distinct(windows)
  BY DEF DwmInv, DwmShape, Reached, DrawWall
<1>2. /\ dwm' = [dwm EXCEPT !.pc = "windows", !.todo = windows] /\ unasked' = FALSE
      /\ UNCHANGED <<windows, selected, cursor, wall, redrawNeeded>>
  BY DEF DrawWall
<1>3. dwm' \in DwmRecord /\ dwm'.pc = "windows" /\ dwm'.todo = windows
  BY <1>1, <1>2 DEF DwmRecord
<1> DEFINE drawn == [win EXCEPT ![wall].moved = FALSE, ![wall].invalid = FALSE]
           dirty == win[wall].moved \/ win[wall].invalid
<1>4. /\ drawn \in [Win -> WinRecord] /\ Clean(drawn[wall])
      /\ \A x \in Win : drawn[x].life = win[x].life
  <2>1. PICK r : r = [win[wall] EXCEPT !.moved = FALSE, !.invalid = FALSE]
    OBVIOUS
  <2>2. r \in WinRecord /\ Clean(r) /\ r.life = win[wall].life
    BY <1>1, <2>1 DEF WinRecord, Clean
  <2>3. drawn = [win EXCEPT ![wall] = r]
    BY <1>1, <2>1 DEF WinRecord
  <2> HIDE DEF drawn
  <2> QED
    BY <1>1, <2>2, <2>3
<1>5. win' = IF dirty THEN MarkMoved(drawn, windows) ELSE win
  BY DEF DrawWall
<1>6. wall \notin Range(windows)
  BY <1>1 DEF DwmInv, Reached, Listed
<1>7. ~dirty => Clean(win[wall])
  BY DEF Clean
<1> HIDE DEF drawn, dirty
<1>8. /\ win' \in [Win -> WinRecord] /\ Clean(win'[wall])
      /\ \A x \in Win : win'[x].life = win[x].life
  <2>1. CASE dirty
    <3>1. /\ MarkMoved(drawn, windows) \in [Win -> WinRecord]
          /\ \A x \in Win : MarkMoved(drawn, windows)[x].life = drawn[x].life
          /\ MarkMoved(drawn, windows)[wall] = drawn[wall]
      <4>1. PICK d \in [Win -> WinRecord] : d = drawn
        BY <1>4
      <4>2. /\ MarkMoved(d, windows) \in [Win -> WinRecord]
            /\ \A x \in Win : MarkMoved(d, windows)[x].life = d[x].life
            /\ MarkMoved(d, windows)[wall] = d[wall]
        BY <1>1, <1>6, <4>1, MarkMovedIs
      <4> QED
        BY <4>1, <4>2
    <3> QED
      BY <1>4, <1>5, <2>1, <3>1
  <2>2. CASE ~dirty
    BY <1>1, <1>5, <1>7, <2>2
  <2> QED
    BY <2>1, <2>2
<1>9. DwmShape' /\ Reached'
  BY <1>1, <1>2, <1>3, <1>8, FlagsStep DEF Alive
<1>10. Drawn'
  BY <1>2, <1>3, <1>8 DEF Drawn
<1> QED
  BY <1>9, <1>10 DEF DwmInv

\* The pass draws one window after the other.
LEMMA DrawWindowStep ==
    ASSUME DwmInv, DrawWindow
    PROVE  DwmInv'
<1> DEFINE w == Head(dwm.todo)
<1>1. /\ win \in [Win -> WinRecord] /\ dwm \in DwmRecord /\ dwm.todo \in Seq(Win)
      /\ Distinct(dwm.todo) /\ Range(dwm.todo) \subseteq Range(windows)
      /\ Range(windows) \subseteq Win /\ redrawNeeded \in BOOLEAN /\ unasked \in BOOLEAN
  BY RangeOf DEF DwmInv, DwmShape, Reached, DwmRecord
<1>2. /\ Tail(dwm.todo) \in Seq(Win) /\ Distinct(Tail(dwm.todo)) /\ w \in Range(dwm.todo)
      /\ Range(Tail(dwm.todo)) = Range(dwm.todo) \ {w}
  BY <1>1, TailUnlinks DEF DrawWindow
<1>3. /\ dwm' = [dwm EXCEPT !.todo = Tail(dwm.todo)] /\ dwm.pc = "windows"
      /\ UNCHANGED <<windows, selected, cursor, wall, redrawNeeded, unasked>>
  BY DEF DrawWindow
<1>4. dwm' \in DwmRecord /\ dwm'.pc = "windows" /\ dwm'.todo = Tail(dwm.todo)
  BY <1>1, <1>2, <1>3 DEF DwmRecord
<1>5. PICK v \in Win : v = w
  BY <1>1, <1>2
<1>6. /\ win' \in [Win -> WinRecord] /\ Clean(win'[v])
      /\ \A x \in Win : win'[x].life = win[x].life
      /\ \A x \in Win : x # v /\ x \notin Range(Tail(dwm.todo)) => win'[x] = win[x]
  <2>1. CASE win[v].moved \/ win[v].invalid
    <3> DEFINE D(x) == [win[x] EXCEPT !.moved = FALSE, !.invalid = FALSE]
               I(x) == [win[x] EXCEPT !.invalid = TRUE]
    <3>1. PICK above \in SUBSET Above :
                win' = [x \in Win |-> CASE x = v -> D(x) [] x \in above -> I(x) [] OTHER -> win[x]]
      BY <1>5, <2>1, ZenonT(30) DEF DrawWindow
    <3>2. ASSUME NEW x \in Win
          PROVE  /\ D(x) \in WinRecord /\ Clean(D(x)) /\ D(x).life = win[x].life
                 /\ I(x) \in WinRecord /\ I(x).life = win[x].life
      BY <1>1 DEF WinRecord, Clean
    <3> HIDE DEF D, I
    <3>3. /\ \A x \in Win : win'[x] = IF x = v THEN D(x) ELSE IF x \in above THEN I(x) ELSE win[x]
          /\ win' = [x \in Win |-> win'[x]]
      <4> DEFINE F(x) == CASE x = v -> D(x) [] x \in above -> I(x) [] OTHER -> win[x]
      <4>1. win' = [x \in Win |-> F(x)]
        BY <3>1
      <4>2. \A x : F(x) = IF x = v THEN D(x) ELSE IF x \in above THEN I(x) ELSE win[x]
        <5>1. v \notin above
          BY <1>2, <1>5, <3>1 DEF Above
        <5> QED
          BY <5>1
      <4> HIDE DEF F
      <4> QED
        BY <4>1, <4>2
    <3>4. ASSUME NEW x \in Win PROVE win'[x] \in WinRecord /\ win'[x].life = win[x].life
      BY <1>1, <3>2, <3>3
    <3>5. win' \in [Win -> WinRecord]
      BY <3>3, <3>4
    <3>6. Clean(win'[v])
      BY <1>5, <3>2, <3>3
    <3>7. \A x \in Win : x # v /\ x \notin Range(Tail(dwm.todo)) => win'[x] = win[x]
      BY <3>1, <3>3 DEF Above
    <3> QED
      BY <3>4, <3>5, <3>6, <3>7
  <2>2. CASE ~(win[v].moved \/ win[v].invalid)
    <3>1. win' = win /\ Clean(win[v])
      BY <1>5, <2>2 DEF DrawWindow, Clean
    <3> QED
      BY <1>1, <3>1
  <2> QED
    BY <2>1, <2>2
<1>7. DwmShape' /\ Reached'
  BY <1>1, <1>2, <1>3, <1>4, <1>6, FlagsStep DEF Alive
<1>8. Drawn'
  <2>1. CASE redrawNeeded \/ unasked \/ wall = NULL
    BY <1>3, <2>1 DEF Drawn
  <2>2. CASE ~(redrawNeeded \/ unasked \/ wall = NULL)
    <3>1. ASSUME NEW x \in Range(windows) \cup {wall}, x \notin Range(Tail(dwm.todo)),
                 win'[x].life \notin {"flushing", "moving"}
          PROVE  Clean(win'[x])
      <4>1. x \in Win
        BY <1>1, <2>2, <3>1 DEF DwmInv, DwmShape
      <4>2. CASE x = v
        BY <1>6, <4>2
      <4>3. CASE x # v
        <5>1. win'[x] = win[x] /\ x \notin Range(dwm.todo)
          BY <1>2, <1>5, <1>6, <3>1, <4>1, <4>3
        <5> QED
          BY <1>3, <2>2, <3>1, <5>1 DEF DwmInv, Drawn, WinUnlocked
      <4> QED
        BY <4>2, <4>3
    <3> QED
      BY <1>3, <1>4, <3>1 DEF Drawn, WinUnlocked
  <2> QED
    BY <2>1, <2>2
<1> QED
  BY <1>7, <1>8 DEF DwmInv

\* The pass ends with every window drawn.
LEMMA DrawEndStep ==
    ASSUME DwmInv, DrawEnd
    PROVE  DwmInv'
<1>1. dwm \in DwmRecord /\ dwm.todo = <<>> /\ dwm.pc = "windows"
  BY DEF DwmInv, DwmShape, DrawEnd
<1>2. dwm' \in DwmRecord /\ dwm'.pc = "poll" /\ dwm'.todo = <<>>
  BY <1>1 DEF DrawEnd, DwmRecord
<1>3. UNCHANGED <<windows, selected, cursor, wall, win, redrawNeeded, unasked>>
  BY DEF DrawEnd
<1>4. DwmShape' /\ Reached'
  BY <1>1, <1>2, <1>3, FlagsStep DEF DwmInv, DwmShape, Reached
<1>5. Drawn'
  BY <1>1, <1>2, <1>3 DEF DwmInv, Drawn, WinUnlocked
<1> QED
  BY <1>4, <1>5 DEF DwmInv

\* A button of the mouse selects a window.
LEMMA MouseStep ==
    ASSUME DwmInv, NEW press \in BOOLEAN, NEW moved \in BOOLEAN,
           NEW w \in Range(windows) \cup {NULL}, Mouse(press, moved, w)
    PROVE  DwmInv'
<1>1. /\ win \in [Win -> WinRecord] /\ dwm \in DwmRecord /\ dwm.todo = <<>> /\ dwm.pc = "input"
      /\ Range(windows) \subseteq Win /\ windows \in Seq(Win) /\ Distinct(windows)
      /\ redrawNeeded \in BOOLEAN
      /\ UNCHANGED <<cursor, wall, unasked>>
  BY RangeOf DEF DwmInv, DwmShape, Reached, Mouse
<1>2. PICK pc \in {"poll", "fault"} : dwm' = [dwm EXCEPT !.pc = pc]
  BY DEF Mouse
<1>3. dwm' \in DwmRecord /\ dwm'.pc = pc /\ dwm'.todo = <<>>
  BY <1>1, <1>2 DEF DwmRecord
<1>4. CASE UNCHANGED <<windows, selected, win, redrawNeeded>>
  <2>1. DwmShape' /\ Reached'
    BY <1>1, <1>3, <1>4, FlagsStep DEF DwmInv, DwmShape, Reached
  <2>2. Drawn'
    BY <1>1, <1>3, <1>4 DEF DwmInv, Drawn, WinUnlocked
  <2> QED
    BY <2>1, <2>2 DEF DwmInv
<1>5. CASE /\ press /\ windows' = Raise(windows, w) /\ selected' = w /\ win' = Select(win, w)
           /\ redrawNeeded' = (redrawNeeded \/ w \notin {selected, NULL})
  <2>1. windows' \in Seq(Win) /\ Distinct(windows') /\ Range(windows') = Range(windows)
    BY <1>1, <1>5, RaiseIs
  <2>2. win' \in [Win -> WinRecord] /\ \A x \in Win : win'[x].life = win[x].life
    BY <1>1, <1>5, SelectIs
  <2>3. redrawNeeded' \in BOOLEAN
    BY <1>5
  <2>4. DwmShape'
    BY <1>1, <1>3, <1>5, <2>1, <2>2, <2>3, EmptyList DEF DwmInv, DwmShape
  <2>5. Reached'
    BY <1>1, <1>3, <1>5, <2>1, <2>2, EmptyList DEF DwmInv, DwmShape, Reached, Listed, Alive
  <2>6. Drawn'
    <3>1. CASE w \notin {selected, NULL}
      BY <1>5, <3>1 DEF Drawn
    <3>2. CASE w \in {selected, NULL}
      <4>1. win' = win /\ redrawNeeded' = redrawNeeded
        BY <1>1, <1>5, <3>2 DEF Select
      <4> QED
        BY <1>1, <1>3, <2>1, <4>1 DEF DwmInv, Drawn, WinUnlocked
    <3> QED
      BY <3>1, <3>2
  <2> QED
    BY <2>4, <2>5, <2>6 DEF DwmInv
<1>6. \/ UNCHANGED <<windows, selected, win, redrawNeeded>>
      \/ /\ press /\ windows' = Raise(windows, w) /\ selected' = w /\ win' = Select(win, w)
         /\ redrawNeeded' = (redrawNeeded \/ w \notin {selected, NULL})
  BY <1>1 DEF Mouse
<1> QED
  BY <1>4, <1>5, <1>6

\* Nothing is there at the start.
LEMMA DwmInitInv == DwmInit => DwmInv
<1> SUFFICES ASSUME DwmInit PROVE DwmInv
  OBVIOUS
<1>1. win \in [Win -> WinRecord] /\ dwm \in DwmRecord /\ dwm.pc = "draw" /\ dwm.todo = <<>>
  BY EmptyList DEF DwmInit, NoWindow, WinRecord, DwmRecord
<1>2. DwmShape
  BY <1>1, EmptyList DEF DwmInit, DwmShape
<1>3. Reached
  BY <1>1, EmptyList DEF DwmInit, Reached
<1> QED
  BY <1>1, <1>2, <1>3 DEF DwmInv, Drawn

\* Every step of a client and of the thread keeps the invariant.
LEMMA DwmNextInv == DwmInv /\ [DwmNext]_dwmVars => DwmInv'
<1> SUFFICES ASSUME DwmInv, [DwmNext]_dwmVars PROVE DwmInv'
  OBVIOUS
<1>1. ASSUME UNCHANGED dwmVars PROVE DwmInv'
  BY <1>1 DEF dwmVars, DwmInv, DwmShape, Reached, Drawn, WinUnlocked
<1>2. ASSUME DwmStep PROVE DwmInv'
  BY <1>2, ThreadStep, DrawWallStep, DrawWindowStep, DrawEndStep DEF DwmStep
<1>3. ASSUME NEW press \in BOOLEAN, NEW moved \in BOOLEAN, NEW w \in Range(windows) \cup {NULL},
             Mouse(press, moved, w)
      PROVE  DwmInv'
  BY <1>3, MouseStep
<1>4. ASSUME NEW w \in Win, CreateListed(w) \/ CreateCursor(w) \/ CreateWall(w) PROVE DwmInv'
  BY <1>4, CreateListedStep, CreateOneStep
<1>5. ASSUME NEW w \in Win,
             \/ CursorRequest(w) \/ Flush(w) \/ FlushRequest(w) \/ Move(w) \/ MoveRequest(w)
             \/ UpdateClientRect(w) \/ Cleanup(w) \/ Free(w)
      PROVE  DwmInv'
  BY <1>5, ClientStep, UpdateClientRectStep, CleanupStep
<1> QED
  BY <1>1, <1>2, <1>3, <1>4, <1>5 DEF DwmNext

\* The list, the selection, the cursor, the wall and the pass of the thread never
\* name a window that was freed or that is being closed, for any set of windows.
THEOREM DwmNoDangling == DwmSpec => []NoDangling
<1>1. DwmInit => DwmInv
  BY DwmInitInv
<1>2. DwmInv /\ [DwmNext]_dwmVars => DwmInv'
  BY DwmNextInv
<1>3. DwmInv => NoDangling
  <2> SUFFICES ASSUME DwmInv PROVE NoDangling
    OBVIOUS
  <2>1. /\ windows \in BoundedSeq(Win, Cardinality(Win))
        /\ dwm.todo \in BoundedSeq(Win, Cardinality(Win))
    BY DistinctLength, DwmAssumption DEF DwmInv, DwmShape, DwmRecord
  <2>2. DwmTypeOK
    BY <2>1 DEF DwmInv, DwmShape, DwmRecord, DwmTypeOK
  <2>3. ASSUME NEW w \in Win, w \in Range(windows) \cup Range(dwm.todo) \cup {selected, cursor, wall}
        PROVE  win[w].life \notin {"none", "closing"}
    BY <2>3, DwmAssumption DEF DwmInv, Reached, Alive
  <2> QED
    BY <2>2, <2>3 DEF NoDangling
<1> QED
  BY <1>1, <1>2, <1>3, PTL DEF DwmSpec

\* The thread never goes to sleep over something to draw, whichever flags the
\* clients set while it drew.
THEOREM DwmNothingLeft == DwmSpec => []NothingLeftToDraw
<1>1. DwmInit => DwmInv
  BY DwmInitInv
<1>2. DwmInv /\ [DwmNext]_dwmVars => DwmInv'
  BY DwmNextInv
<1>3. DwmInv => NothingLeftToDraw
  <2> SUFFICES ASSUME DwmInv, dwm.pc \in {"block", "input"}, ~redrawNeeded, ~unasked, wall # NULL
               PROVE  \A w \in Range(windows) \cup {wall} :
                          WinUnlocked(w) => ~win[w].moved /\ ~win[w].invalid
    BY DEF NothingLeftToDraw
  <2>1. dwm.todo = <<>>
    BY DEF DwmInv, Reached
  <2> QED
    BY <2>1, EmptyList DEF DwmInv, Drawn, Clean
<1> QED
  BY <1>1, <1>2, <1>3, PTL DEF DwmSpec

-----------------------------------------------------------------------------
(***************************************************************************)
(* What is on the screen (Compositor).                                     *)
(*                                                                         *)
(* Pixel by pixel, unless the wall is to be drawn or a fragment was left   *)
(* behind: the backbuffer shows the highest of the windows that are not    *)
(* to be moved (Right), or that window waits to be drawn there (Pending),  *)
(* or a window that is to be moved was drawn there (Left), or one is shown *)
(* there before its turn (Early).  A pass turns the last three into the    *)
(* first.  The loops of the code are folds, of which FoldExists gives the  *)
(* steps.                                                                  *)
(***************************************************************************)

(* Types *)

RectInt == [left: Int, top: Int, right: Int, bottom: Int]
Owner == Pane \cup {Wall, Cursor}
BufferInt == [pixels: [Pixel -> Owner \X Colour], invalidRect: RectInt]

\* One step of dwm_update_client_rect_unlocked
CutBy(ps, rect, w) == IF w \in Panel THEN PanelCut(rect, ps[w].rect) ELSE rect

\* What a panel leaves of a rectangle is a rectangle.
LEMMA PanelCutType ==
    ASSUME NEW rect \in RectInt, NEW p \in RectInt
    PROVE  PanelCut(rect, p) \in RectInt
  BY DEF PanelCut, RectInt

\* The loop of dwm_update_client_rect_unlocked, step by step
LEMMA ClientRectSteps ==
    ASSUME NEW list \in Seq(Pane), NEW ps, \A w \in Pane : ps[w].rect \in RectInt
    PROVE  \E f : /\ f[0] = ScreenRect
                  /\ \A i \in 1 .. Len(list) : f[i] = CutBy(ps, f[i - 1], list[i])
                  /\ f[Len(list)] = ClientRect(list, ps)
<1> DEFINE n == Len(list)
           S == RectInt
           g == [x \in S \X (1 .. n) |-> CutBy(ps, x[1], list[x[2]])]
           Solves(f) == f = [s \in SUBSET (DOMAIN list) |->
                                IF s = {} THEN ScreenRect ELSE CutBy(ps, f[s \ {Max(s)}], list[Max(s)])]
           iter == CHOOSE f : Solves(f)
<1>1. n \in Nat /\ DOMAIN list = 1 .. n
  OBVIOUS
<1>2. ScreenRect \in S
  BY CompositorAssumption DEF ScreenRect, RectInit, RectInt
<1>3. \A r \in S, w \in Pane : CutBy(ps, r, w) \in S
  BY PanelCutType DEF CutBy
<1>4. ClientRect(list, ps) = iter[DOMAIN list]
  BY DEF ClientRect, FoldLeft, MapThenFoldSet, CutBy
<1>5. g \in [S \X (1 .. n) -> S]
  BY <1>1, <1>3
<1>6. \A r \in S, i \in 1 .. n : g[<<r, i>>] = CutBy(ps, r, list[i])
  OBVIOUS
<1> HIDE DEF g
<1>7. PICK F : IsFold(S, ScreenRect, g, n, F)
  BY <1>1, <1>2, <1>5, FoldExists
<1>8. Solves(F)
  <2>1. /\ F \in [SUBSET (1 .. n) -> S]
        /\ F[{}] = ScreenRect
        /\ \A s \in SUBSET (1 .. n) : s # {} => F[s] = g[<<F[s \ {Max(s)}], Max(s)>>]
    BY <1>7 DEF IsFold
  <2>2. ASSUME NEW s \in SUBSET (1 .. n), s # {}
        PROVE  F[s] = CutBy(ps, F[s \ {Max(s)}], list[Max(s)])
    <3>1. Max(s) \in s
      BY <1>1, <2>2, MaxIn
    <3>2. F[s \ {Max(s)}] \in S
      BY <2>1
    <3> QED
      BY <1>6, <2>1, <2>2, <3>1, <3>2
  <2>3. F = [s \in SUBSET (1 .. n) |-> F[s]]
    BY <2>1
  <2>4. [s \in SUBSET (1 .. n) |-> F[s]]
            = [s \in SUBSET (1 .. n) |-> IF s = {} THEN ScreenRect ELSE CutBy(ps, F[s \ {Max(s)}], list[Max(s)])]
    BY <2>1, <2>2
  <2> QED
    BY <1>1, <2>3, <2>4
<1>9. Solves(iter)
  <2> HIDE DEF Solves
  <2> QED
    BY <1>8
<1> HIDE DEF iter
<1>10. /\ iter[{}] = ScreenRect
       /\ \A s \in SUBSET (1 .. n) : s # {} => iter[s] = CutBy(ps, iter[s \ {Max(s)}], list[Max(s)])
  BY <1>1, <1>9
<1> DEFINE f == [i \in 0 .. n |-> iter[1 .. i]]
<1>11. f[0] = ScreenRect
  BY <1>1, <1>10
<1>12. ASSUME NEW i \in 1 .. n PROVE f[i] = CutBy(ps, f[i - 1], list[i])
  <2>1. i - 1 \in 0 .. n /\ i \in 0 .. n
    BY <1>1
  <2>2. f[i] = iter[1 .. i] /\ f[i - 1] = iter[1 .. i - 1]
    BY <2>1
  <2>3. 1 .. i \in SUBSET (1 .. n) /\ 1 .. i # {} /\ Max(1 .. i) = i /\ (1 .. i) \ {i} = 1 .. i - 1
    BY <1>1, FirstNumbers
  <2>4. iter[1 .. i] = CutBy(ps, iter[(1 .. i) \ {i}], list[i])
    <3> HIDE DEF n
    <3> QED
      BY <1>10, <2>3
  <2> HIDE DEF f
  <2> QED
    BY <2>2, <2>3, <2>4
<1>13. f[n] = ClientRect(list, ps)
  BY <1>1, <1>4
<1> QED
  <2> HIDE DEF f
  <2> QED
    BY <1>11, <1>12, <1>13

\* The side of the screen that a panel leaves free
Keeps(r, p) ==
    LET left == r.right
        top == r.bottom
        right == ScreenWidth - r.left
        bottom == ScreenHeight - r.top
        Least(d) == \A e \in {left, top, right, bottom} : d <= e
    IN  CASE Least(left) -> p.x >= r.right
          [] ~Least(left) /\ Least(top) -> p.y >= r.bottom
          [] ~Least(left) /\ ~Least(top) /\ Least(right) -> p.x < r.left
          [] OTHER -> p.y < r.top

\* Pixels are points of the screen.
LEMMA PixelType ==
    ASSUME NEW p \in Pixel
    PROVE  p.x \in 0 .. ScreenWidth - 1 /\ p.y \in 0 .. ScreenHeight - 1 /\ p.x \in Int /\ p.y \in Int
           /\ ContainsPoint(ScreenRect, p)
<1>1. p.x \in 0 .. ScreenWidth - 1 /\ p.y \in 0 .. ScreenHeight - 1
  BY DEF Pixel
<1> QED
  BY <1>1, CompositorAssumption DEF ContainsPoint, ScreenRect, RectInit

\* A panel cuts exactly the points beyond it off.
LEMMA PanelCutPoints ==
    ASSUME NEW rect \in RectInt, NEW r \in RectInt, NEW p \in Pixel
    PROVE  ContainsPoint(PanelCut(rect, r), p) <=> ContainsPoint(rect, p) /\ Keeps(r, p)
<1>1. /\ rect.left \in Int /\ rect.top \in Int /\ rect.right \in Int /\ rect.bottom \in Int
      /\ r.left \in Int /\ r.top \in Int /\ r.right \in Int /\ r.bottom \in Int
      /\ p.x \in Int /\ p.y \in Int
  BY PixelType DEF RectInt
<1> DEFINE left == r.right
           top == r.bottom
           right == ScreenWidth - r.left
           bottom == ScreenHeight - r.top
           Least(d) == \A e \in {left, top, right, bottom} : d <= e
<1>2. CASE Least(left)
  <2>1. Keeps(r, p) <=> p.x >= r.right
    BY <1>2 DEF Keeps
  <2>2. PanelCut(rect, r) = [rect EXCEPT !.left = IF r.right > @ THEN r.right ELSE @]
    BY <1>2 DEF PanelCut
  <2> QED
    BY <1>1, <2>1, <2>2 DEF ContainsPoint, RectInt
<1>3. CASE ~Least(left) /\ Least(top)
  <2>1. Keeps(r, p) <=> p.y >= r.bottom
    BY <1>3 DEF Keeps
  <2>2. PanelCut(rect, r) = [rect EXCEPT !.top = IF r.bottom > @ THEN r.bottom ELSE @]
    BY <1>3 DEF PanelCut
  <2> QED
    BY <1>1, <2>1, <2>2 DEF ContainsPoint, RectInt
<1>4. CASE ~Least(left) /\ ~Least(top) /\ Least(right)
  <2>1. Keeps(r, p) <=> p.x < r.left
    BY <1>4 DEF Keeps
  <2>2. PanelCut(rect, r) = [rect EXCEPT !.right = IF r.left < @ THEN r.left ELSE @]
    BY <1>4 DEF PanelCut
  <2> QED
    BY <1>1, <2>1, <2>2 DEF ContainsPoint, RectInt
<1>5. CASE ~Least(left) /\ ~Least(top) /\ ~Least(right)
  <2>1. Keeps(r, p) <=> p.y < r.top
    BY <1>5 DEF Keeps
  <2>2. PanelCut(rect, r) = [rect EXCEPT !.bottom = IF r.top < @ THEN r.top ELSE @]
    BY <1>5 DEF PanelCut
  <2> QED
    BY <1>1, <2>1, <2>2 DEF ContainsPoint, RectInt
<1> QED
  BY <1>2, <1>3, <1>4, <1>5

\* The client rectangle is what all panels leave free, in whatever order they are cut
\* off.
LEMMA ClientRectPoints ==
    ASSUME NEW list \in Seq(Pane), NEW ps, \A w \in Pane : ps[w].rect \in RectInt
    PROVE  /\ ClientRect(list, ps) \in RectInt
           /\ \A p \in Pixel : ContainsPoint(ClientRect(list, ps), p) <=>
                \A i \in 1 .. Len(list) : list[i] \in Panel => Keeps(ps[list[i]].rect, p)
<1>1. PICK f : /\ f[0] = ScreenRect
               /\ \A i \in 1 .. Len(list) : f[i] = CutBy(ps, f[i - 1], list[i])
               /\ f[Len(list)] = ClientRect(list, ps)
  BY ClientRectSteps
<1> DEFINE n == Len(list)
           P == {i \in Nat : i <= n => f[i] \in RectInt /\ \A p \in Pixel :
                    ContainsPoint(f[i], p) <=> \A j \in 1 .. i : list[j] \in Panel => Keeps(ps[list[j]].rect, p)}
<1>2. n \in Nat
  OBVIOUS
<1>3. 0 \in P
  <2>1. f[0] \in RectInt
    BY <1>1, CompositorAssumption DEF ScreenRect, RectInit, RectInt
  <2>2. \A p \in Pixel : ContainsPoint(f[0], p)
    BY <1>1, PixelType
  <2> QED
    BY <2>1, <2>2
<1>4. ASSUME NEW i \in 1 .. n, i - 1 \in P PROVE i \in P
  <2>1. f[i - 1] \in RectInt /\ \A p \in Pixel :
            ContainsPoint(f[i - 1], p) <=> \A j \in 1 .. i - 1 : list[j] \in Panel => Keeps(ps[list[j]].rect, p)
    BY <1>4
  <2>2. f[i] = CutBy(ps, f[i - 1], list[i]) /\ list[i] \in Pane
    BY <1>1
  <2>3. f[i] \in RectInt
    BY <2>1, <2>2, PanelCutType DEF CutBy
  <2>4. ASSUME NEW p \in Pixel
        PROVE  ContainsPoint(f[i], p) <=> \A j \in 1 .. i : list[j] \in Panel => Keeps(ps[list[j]].rect, p)
    <3>1. ContainsPoint(f[i], p) <=> ContainsPoint(f[i - 1], p) /\ (list[i] \in Panel => Keeps(ps[list[i]].rect, p))
      BY <2>1, <2>2, PanelCutPoints DEF CutBy
    <3>2. 1 .. i = (1 .. i - 1) \cup {i}
      OBVIOUS
    <3> QED
      BY <2>1, <3>1, <3>2
  <2> QED
    BY <2>3, <2>4
<1>5. n \in P
  <2> HIDE DEF P, n
  <2>1. \A i \in 0 .. n : i \in P
    BY <1>2, <1>3, <1>4, UpTo
  <2> QED
    BY <1>2, <2>1
<1> QED
  BY <1>1, <1>5

-----------------------------------------------------------------------------
(* Rectangles *)

\* The fields of a rectangle
LEMMA RectType ==
    ASSUME NEW r \in RectInt
    PROVE  /\ r.left \in Int /\ r.top \in Int /\ r.right \in Int /\ r.bottom \in Int
           /\ r = RectInit(r.left, r.top, r.right, r.bottom)
  BY DEF RectInt, RectInit

\* RECT_INIT makes a rectangle.
LEMMA RectInitType ==
    ASSUME NEW l \in Int, NEW t \in Int, NEW r \in Int, NEW b \in Int
    PROVE  RectInit(l, t, r, b) \in RectInt
  BY DEF RectInt, RectInit

\* The empty rectangle has no pixel.
LEMMA EmptyType == Empty \in RectInt /\ \A p \in Pixel : ~ContainsPoint(Empty, p)
<1>1. \A p \in Pixel : p.x \in Int /\ p.y \in Int
  BY PixelType
<1> QED
  BY <1>1 DEF Empty, RectInt, RectInit, ContainsPoint

\* CLAMP of coordinates
LEMMA ClampType ==
    ASSUME NEW x \in Int, NEW low \in Int, NEW high \in Int
    PROVE  Clamp(x, low, high) \in Int
  BY DEF Clamp

\* RECT_FIT is the intersection, also when there is none.
LEMMA FitPoints ==
    ASSUME NEW r \in RectInt, NEW q \in RectInt
    PROVE  /\ Fit(r, q) \in RectInt
           /\ \A p \in Pixel : ContainsPoint(Fit(r, q), p) <=> ContainsPoint(r, p) /\ ContainsPoint(q, p)
<1>1. /\ r.left \in Int /\ r.top \in Int /\ r.right \in Int /\ r.bottom \in Int
      /\ q.left \in Int /\ q.top \in Int /\ q.right \in Int /\ q.bottom \in Int
  BY RectType
<1>2. Fit(r, q) \in RectInt
  BY <1>1, ClampType, RectInitType DEF Fit
<1>3. ASSUME NEW p \in Pixel
      PROVE  ContainsPoint(Fit(r, q), p) <=> ContainsPoint(r, p) /\ ContainsPoint(q, p)
  <2>1. p.x \in Int /\ p.y \in Int
    BY PixelType
  <2>2. p.x >= Clamp(r.left, q.left, q.right) /\ p.x < Clamp(r.right, q.left, q.right)
            <=> p.x >= r.left /\ p.x < r.right /\ p.x >= q.left /\ p.x < q.right
    BY <1>1, <2>1 DEF Clamp
  <2>3. p.y >= Clamp(r.top, q.top, q.bottom) /\ p.y < Clamp(r.bottom, q.top, q.bottom)
            <=> p.y >= r.top /\ p.y < r.bottom /\ p.y >= q.top /\ p.y < q.bottom
    BY <1>1, <2>1 DEF Clamp
  <2> QED
    BY <2>2, <2>3 DEF ContainsPoint, Fit, RectInit
<1> QED
  BY <1>2, <1>3

\* Rectangles with a common pixel overlap.
LEMMA OverlapPoints ==
    ASSUME NEW r \in RectInt, NEW q \in RectInt, NEW p \in Pixel, ContainsPoint(r, p), ContainsPoint(q, p)
    PROVE  Overlap(r, q)
  BY RectType, PixelType DEF ContainsPoint, Overlap

\* gfx_invalidate forgets nothing.
LEMMA AroundPoints ==
    ASSUME NEW r \in RectInt, NEW q \in RectInt
    PROVE  /\ Around(r, q) \in RectInt
           /\ \A p \in Pixel : ContainsPoint(r, p) \/ ContainsPoint(q, p) => ContainsPoint(Around(r, q), p)
<1>1. /\ r.left \in Int /\ r.top \in Int /\ r.right \in Int /\ r.bottom \in Int
      /\ q.left \in Int /\ q.top \in Int /\ q.right \in Int /\ q.bottom \in Int
  BY RectType
<1>2. Around(r, q) \in RectInt
  BY <1>1, RectInitType DEF Around
<1>3. ASSUME NEW p \in Pixel, ContainsPoint(r, p) \/ ContainsPoint(q, p) PROVE ContainsPoint(Around(r, q), p)
  <2>1. p.x \in Int /\ p.y \in Int
    BY PixelType
  <2> QED
    BY <1>1, <1>3, <2>1 DEF ContainsPoint, Around, RectInit
<1> QED
  BY <1>2, <1>3

\* A rectangle that is shifted
LEMMA ShiftType ==
    ASSUME NEW r \in RectInt, NEW dx \in Int, NEW dy \in Int
    PROVE  Shift(r, dx, dy) \in RectInt
<1>1. r.left \in Int /\ r.top \in Int /\ r.right \in Int /\ r.bottom \in Int
  BY RectType
<1>2. r.left + dx \in Int /\ r.top + dy \in Int /\ r.right + dx \in Int /\ r.bottom + dy \in Int
  BY <1>1
<1> QED
  BY <1>2, RectInitType DEF Shift

\* RECT_SUBTRACT returns nothing only when nothing is uncovered.
LEMMA SubtractNone ==
    ASSUME NEW r \in RectInt, NEW q \in RectInt, Subtract(r, q) = <<>>,
           NEW p \in Pixel, ContainsPoint(r, p)
    PROVE  ContainsPoint(q, p)
<1>1. /\ r.left \in Int /\ r.top \in Int /\ r.right \in Int /\ r.bottom \in Int
      /\ q.left \in Int /\ q.top \in Int /\ q.right \in Int /\ q.bottom \in Int
      /\ p.x \in Int /\ p.y \in Int
  BY RectType, PixelType
<1> DEFINE a == IF q.top > r.top THEN <<RectInit(r.left, r.top, r.right, q.top)>> ELSE <<>>
           b == IF q.bottom < r.bottom THEN <<RectInit(r.left, q.bottom, r.right, r.bottom)>> ELSE <<>>
           c == IF q.left > r.left THEN <<RectInit(r.left, q.top, q.left, q.bottom)>> ELSE <<>>
           d == IF q.right < r.right THEN <<RectInit(q.right, q.top, r.right, q.bottom)>> ELSE <<>>
<1>2. Overlap(r, q)
  <2>1. <<r>> # <<>>
    OBVIOUS
  <2> QED
    BY <2>1 DEF Subtract
<1>3. a \o b \o c \o d = <<>>
  BY <1>2 DEF Subtract
<1>4. a \in Seq(RectInt) /\ b \in Seq(RectInt) /\ c \in Seq(RectInt) /\ d \in Seq(RectInt)
  BY <1>1, RectInitType
<1>5. a = <<>> /\ b = <<>> /\ c = <<>> /\ d = <<>>
  <2> HIDE DEF a, b, c, d
  <2>1. a \o b \in Seq(RectInt)
    BY <1>4, ConcatProperties
  <2>2. (a \o b) \o c \in Seq(RectInt)
    BY <1>4, <2>1, ConcatProperties
  <2>3. (a \o b) \o c = <<>> /\ d = <<>>
    BY <1>3, <1>4, <2>2, ConcatEqualIffEmpty
  <2>4. a \o b = <<>> /\ c = <<>>
    BY <1>4, <2>1, <2>3, ConcatEqualIffEmpty
  <2> QED
    BY <1>4, <2>3, <2>4, ConcatEqualIffEmpty
<1>6. ~(q.top > r.top) /\ ~(q.bottom < r.bottom) /\ ~(q.left > r.left) /\ ~(q.right < r.right)
  BY <1>5
<1> QED
  BY <1>1, <1>6 DEF ContainsPoint

-----------------------------------------------------------------------------
(* Painting *)

\* All that differs from a is in what b copies to the screen, and so is all that was.
Extends(a, b) ==
    \A q \in Pixel : /\ ContainsPoint(a.invalidRect, q) => ContainsPoint(b.invalidRect, q)
                     /\ b.pixels[q] # a.pixels[q] => ContainsPoint(b.invalidRect, q)

\* Drawing twice extends twice.
LEMMA ExtendsTwice ==
    ASSUME NEW a, NEW b, NEW c, Extends(a, b), Extends(b, c)
    PROVE  Extends(a, c)
  BY DEF Extends

\* gfx_transfer changes the pixels of the rectangle, and notes them for the swap.
LEMMA PaintFacts ==
    ASSUME NEW b \in BufferInt, NEW r \in RectInt, NEW o \in Owner, NEW c \in Colour
    PROVE  /\ Paint(b, r, o, c) \in BufferInt
           /\ \A q \in Pixel : Paint(b, r, o, c).pixels[q] = IF ContainsPoint(r, q) THEN <<o, c>> ELSE b.pixels[q]
           /\ Extends(b, Paint(b, r, o, c))
<1> DEFINE n == Paint(b, r, o, c)
           px == [q \in Pixel |-> IF ContainsPoint(r, q) THEN <<o, c>> ELSE b.pixels[q]]
<1>1. b.pixels \in [Pixel -> Owner \X Colour] /\ b.invalidRect \in RectInt
  BY DEF BufferInt
<1>2. n = [pixels |-> px, invalidRect |-> Around(b.invalidRect, r)]
  BY DEF Paint
<1>3. px \in [Pixel -> Owner \X Colour]
  BY <1>1
<1>4. Around(b.invalidRect, r) \in RectInt
      /\ \A p \in Pixel : ContainsPoint(b.invalidRect, p) \/ ContainsPoint(r, p)
                            => ContainsPoint(Around(b.invalidRect, r), p)
  BY <1>1, AroundPoints
<1>5. \A q \in Pixel : px[q] = IF ContainsPoint(r, q) THEN <<o, c>> ELSE b.pixels[q]
  OBVIOUS
<1> HIDE DEF px, n
<1>6. n.pixels = px /\ n.invalidRect = Around(b.invalidRect, r)
  BY <1>2
<1>7. n \in BufferInt
  BY <1>2, <1>3, <1>4 DEF BufferInt
<1>8. Extends(b, n)
  BY <1>4, <1>5, <1>6 DEF Extends
<1> QED
  BY <1>5, <1>6, <1>7, <1>8 DEF n

\* What the proof knows of windows: their rectangles and colours, and where they are
\* allowed to draw
PanesOK ==
    /\ stack \in Seq(Pane) /\ clientRect \in RectInt
    /\ \A o \in Pane : pane[o].rect \in RectInt /\ pane[o].colour \in Colour
    /\ wallpaper.colour \in Colour

Covers(o, p) == ContainsPoint(pane[o].rect, p) /\ ContainsPoint(FitRect(o), p)

\* One window of dwm_redraw_others
PaintOther(b, w, rect, o) ==
    IF o # w /\ Overlap(rect, pane[o].rect)
    THEN Paint(b, Fit(Fit(rect, pane[o].rect), FitRect(o)), o, pane[o].colour)
    ELSE b

\* Where a window is allowed to draw is a rectangle.
LEMMA FitRectType ==
    ASSUME PanesOK, NEW o \in Pane
    PROVE  FitRect(o) \in RectInt
<1>1. ScreenRect \in RectInt
  BY CompositorAssumption DEF ScreenRect, RectInit, RectInt
<1> QED
  BY <1>1 DEF FitRect, PanesOK

\* One window of dwm_redraw_others is drawn where it shows in the rectangle.
LEMMA PaintOtherFacts ==
    ASSUME PanesOK, NEW b \in BufferInt, NEW w, NEW rect \in RectInt, NEW o \in Pane
    PROVE  /\ PaintOther(b, w, rect, o) \in BufferInt
           /\ Extends(b, PaintOther(b, w, rect, o))
           /\ \A q \in Pixel : PaintOther(b, w, rect, o).pixels[q] =
                IF o # w /\ Covers(o, q) /\ ContainsPoint(rect, q) THEN <<o, pane[o].colour>> ELSE b.pixels[q]
<1>1. pane[o].rect \in RectInt /\ pane[o].colour \in Colour /\ o \in Owner /\ FitRect(o) \in RectInt
  BY FitRectType DEF PanesOK, Owner
<1> DEFINE r == Fit(Fit(rect, pane[o].rect), FitRect(o))
<1>2. r \in RectInt /\ \A q \in Pixel : ContainsPoint(r, q) <=> ContainsPoint(rect, q) /\ Covers(o, q)
  <2>1. Fit(rect, pane[o].rect) \in RectInt
        /\ \A q \in Pixel : ContainsPoint(Fit(rect, pane[o].rect), q) <=> ContainsPoint(rect, q) /\ ContainsPoint(pane[o].rect, q)
    BY <1>1, FitPoints
  <2> QED
    BY <1>1, <2>1, FitPoints DEF Covers
<1> HIDE DEF r
<1>3. CASE o # w /\ Overlap(rect, pane[o].rect)
  <2>1. PaintOther(b, w, rect, o) = Paint(b, r, o, pane[o].colour)
    BY <1>3 DEF PaintOther, r
  <2> QED
    BY <1>1, <1>2, <1>3, <2>1, PaintFacts
<1>4. CASE ~(o # w /\ Overlap(rect, pane[o].rect))
  <2>1. PaintOther(b, w, rect, o) = b
    BY <1>4 DEF PaintOther
  <2>2. \A q \in Pixel : ~(o # w /\ Covers(o, q) /\ ContainsPoint(rect, q))
    BY <1>1, <1>4, OverlapPoints DEF Covers
  <2> QED
    BY <2>1, <2>2 DEF Extends
<1> QED
  BY <1>3, <1>4

\* The loop of dwm_redraw_others, step by step
LEMMA RedrawSteps ==
    ASSUME PanesOK, NEW buffer \in BufferInt, NEW w, NEW rect \in RectInt
    PROVE  \E f : /\ f[0] = Paint(buffer, rect, Wall, wallpaper.colour)
                  /\ \A i \in 1 .. Len(stack) : f[i] = PaintOther(f[i - 1], w, rect, stack[i])
                  /\ f[Len(stack)] = RedrawOthers(buffer, w, rect)
<1> DEFINE n == Len(stack)
           S == BufferInt
           base == Paint(buffer, rect, Wall, wallpaper.colour)
           g == [x \in S \X (1 .. n) |-> PaintOther(x[1], w, rect, stack[x[2]])]
           Solves(f) == f = [s \in SUBSET (DOMAIN stack) |->
                                IF s = {} THEN base ELSE PaintOther(f[s \ {Max(s)}], w, rect, stack[Max(s)])]
           iter == CHOOSE f : Solves(f)
<1>0. stack \in Seq(Pane) /\ wallpaper.colour \in Colour /\ Wall \in Owner
  BY DEF PanesOK, Owner
<1>1. n \in Nat /\ DOMAIN stack = 1 .. n
  BY <1>0
<1>2. base \in S
  BY <1>0, PaintFacts
<1>3. \A b \in S, o \in Pane : PaintOther(b, w, rect, o) \in S
  BY PaintOtherFacts
<1>4. RedrawOthers(buffer, w, rect) = iter[DOMAIN stack]
  BY DEF RedrawOthers, FoldLeft, MapThenFoldSet, PaintOther
<1>5. g \in [S \X (1 .. n) -> S]
  <2>1. \A x \in S \X (1 .. n) : x[1] \in S /\ stack[x[2]] \in Pane
    BY <1>0, <1>1
  <2> HIDE DEF S, n
  <2> QED
    BY <1>3, <2>1
<1>6. \A b \in S, i \in 1 .. n : g[<<b, i>>] = PaintOther(b, w, rect, stack[i])
  <2> HIDE DEF S, n
  <2> QED
    OBVIOUS
<1> HIDE DEF g, base, S
<1>7. PICK F : IsFold(S, base, g, n, F)
  BY <1>1, <1>2, <1>5, FoldExists
<1>8. Solves(F)
  <2>1. /\ F \in [SUBSET (1 .. n) -> S]
        /\ F[{}] = base
        /\ \A s \in SUBSET (1 .. n) : s # {} => F[s] = g[<<F[s \ {Max(s)}], Max(s)>>]
    BY <1>7 DEF IsFold
  <2>2. ASSUME NEW s \in SUBSET (1 .. n), s # {}
        PROVE  F[s] = PaintOther(F[s \ {Max(s)}], w, rect, stack[Max(s)])
    <3>1. Max(s) \in s
      BY <1>1, <2>2, MaxIn
    <3>2. F[s \ {Max(s)}] \in S
      BY <2>1
    <3> QED
      BY <1>6, <2>1, <2>2, <3>1, <3>2
  <2>3. F = [s \in SUBSET (1 .. n) |-> F[s]]
    BY <2>1
  <2>4. [s \in SUBSET (1 .. n) |-> F[s]]
            = [s \in SUBSET (1 .. n) |-> IF s = {} THEN base ELSE PaintOther(F[s \ {Max(s)}], w, rect, stack[Max(s)])]
    BY <2>1, <2>2
  <2> QED
    BY <1>1, <2>3, <2>4
<1>9. Solves(iter)
  <2> HIDE DEF Solves
  <2> QED
    BY <1>8
<1> HIDE DEF iter
<1>10. /\ iter[{}] = base
       /\ \A s \in SUBSET (1 .. n) : s # {} => iter[s] = PaintOther(iter[s \ {Max(s)}], w, rect, stack[Max(s)])
  BY <1>1, <1>9
<1> DEFINE f == [i \in 0 .. n |-> iter[1 .. i]]
<1>11. f[0] = base
  BY <1>1, <1>10
<1>12. ASSUME NEW i \in 1 .. n PROVE f[i] = PaintOther(f[i - 1], w, rect, stack[i])
  <2>1. i - 1 \in 0 .. n /\ i \in 0 .. n
    BY <1>1
  <2>2. f[i] = iter[1 .. i] /\ f[i - 1] = iter[1 .. i - 1]
    BY <2>1
  <2>3. 1 .. i \in SUBSET (1 .. n) /\ 1 .. i # {} /\ Max(1 .. i) = i /\ (1 .. i) \ {i} = 1 .. i - 1
    BY <1>1, FirstNumbers
  <2>4. iter[1 .. i] = PaintOther(iter[(1 .. i) \ {i}], w, rect, stack[i])
    <3> HIDE DEF n
    <3> QED
      BY <1>10, <2>3
  <2> HIDE DEF f
  <2> QED
    BY <2>2, <2>3, <2>4
<1>13. f[n] = RedrawOthers(buffer, w, rect)
  BY <1>1, <1>4
<1> QED
  <2> HIDE DEF f
  <2> QED
    BY <1>11, <1>12, <1>13 DEF base


\* In a list, v is u or below it.
Below(s, v, u) == \E i, j \in DOMAIN s : i <= j /\ s[i] = v /\ s[j] = u

\* Appending at the head of the stack leaves the order of the others as it is.
LEMMA AppendFacts ==
    ASSUME NEW s \in Seq(Pane), NEW w \in Pane
    PROVE  /\ Append(s, w) \in Seq(Pane)
           /\ Range(Append(s, w)) = Range(s) \cup {w}
           /\ \A v, u : Below(s, v, u) => Below(Append(s, w), v, u)
           /\ IsInjective(s) /\ w \notin Range(s) => IsInjective(Append(s, w))
<1> DEFINE n == Len(s)
           r == Append(s, w)
<1>1. /\ r \in Seq(Pane) /\ n \in Nat /\ DOMAIN s = 1 .. n /\ DOMAIN r = 1 .. n + 1
      /\ r[n + 1] = w /\ \A i \in 1 .. n : r[i] = s[i]
  OBVIOUS
<1> HIDE DEF n, r
<1>2. 1 .. n + 1 = (1 .. n) \cup {n + 1} /\ n + 1 \notin 1 .. n
  BY <1>1
<1>3. Range(r) = Range(s) \cup {w}
  BY <1>1, <1>2 DEF Range
<1>4. ASSUME NEW v, NEW u, Below(s, v, u) PROVE Below(r, v, u)
  BY <1>1, <1>2, <1>4 DEF Below
<1>5. ASSUME IsInjective(s), w \notin Range(s) PROVE IsInjective(r)
  BY <1>1, <1>2, <1>5 DEF IsInjective, Range
<1> QED
  BY <1>1, <1>3, <1>4, <1>5 DEF r

\* list_remove leaves the others in their order.
LEMMA RemoveFacts ==
    ASSUME NEW s \in Seq(Pane), NEW w \in Range(s), IsInjective(s)
    PROVE  /\ ListRemove(s, w) \in Seq(Pane)
           /\ Range(ListRemove(s, w)) = Range(s) \ {w}
           /\ \A v, u : v # w /\ u # w /\ Below(s, v, u) => Below(ListRemove(s, w), v, u)
           /\ IsInjective(ListRemove(s, w))
<1> DEFINE n == Len(s)
           r == ListRemove(s, w)
           k == CHOOSE i \in DOMAIN s : s[i] = w
           a == SubSeq(s, 1, k - 1)
           b == SubSeq(s, k + 1, n)
<1>1. n \in Nat /\ DOMAIN s = 1 .. n /\ k \in 1 .. n /\ s[k] = w
  BY DEF Range
<1>2. r = a \o b
  BY DEF ListRemove, RemoveAt
<1> HIDE DEF k, r
<1>3. a \in Seq(Pane) /\ Len(a) = k - 1 /\ \A i \in 1 .. k - 1 : a[i] = s[i]
  BY <1>1
<1>4. b \in Seq(Pane) /\ Len(b) = n - k /\ \A i \in 1 .. n - k : b[i] = s[k + i]
  <2>1. k + 1 \in 1 .. Len(s) + 1 /\ n \in (k + 1) - 1 .. Len(s) /\ n - (k + 1) + 1 = n - k
        /\ \A i \in 1 .. n - k : (k + 1) + i - 1 = k + i
    BY <1>1
  <2> QED
    BY <2>1, SubSeqProperties
<1> HIDE DEF a, b, n
<1>5. /\ r \in Seq(Pane) /\ DOMAIN r = 1 .. n - 1
      /\ \A i \in 1 .. n - 1 : r[i] = IF i < k THEN s[i] ELSE s[i + 1]
  <2>1. r \in Seq(Pane) /\ Len(r) = n - 1
    <3>1. r \in Seq(Pane) /\ Len(r) = Len(a) + Len(b)
      BY <1>2, <1>3, <1>4, ConcatProperties
    <3>2. (k - 1) + (n - k) = n - 1
      BY <1>1
    <3> QED
      BY <1>3, <1>4, <3>1, <3>2
  <2>2. ASSUME NEW i \in 1 .. n - 1 PROVE r[i] = IF i < k THEN s[i] ELSE s[i + 1]
    <3>1. CASE i < k
      BY <1>1, <1>2, <1>3, <1>4, <3>1
    <3>2. CASE ~(i < k)
      <4>1. i - (k - 1) \in 1 .. n - k /\ k + (i - (k - 1)) = i + 1
        BY <1>1, <3>2
      <4>2. r[i] = b[i - (k - 1)]
        BY <1>1, <1>2, <1>3, <1>4, <3>2
      <4> QED
        BY <1>4, <3>2, <4>1, <4>2
    <3> QED
      BY <3>1, <3>2
  <2> QED
    BY <2>1, <2>2
<1>6. \A i, j \in 1 .. n : s[i] = s[j] => i = j
  BY <1>1 DEF IsInjective
<1>7. ASSUME NEW i \in 1 .. n, i # k
      PROVE  /\ (IF i < k THEN i ELSE i - 1) \in 1 .. n - 1
             /\ r[IF i < k THEN i ELSE i - 1] = s[i]
  BY <1>1, <1>5, <1>7
<1>8. ASSUME NEW i \in 1 .. n - 1
      PROVE  \E j \in 1 .. n : j # k /\ r[i] = s[j] /\ i = IF j < k THEN j ELSE j - 1
  <2>1. CASE i < k
    BY <1>1, <1>5, <2>1
  <2>2. CASE ~(i < k)
    <3>1. i + 1 \in 1 .. n /\ i + 1 # k /\ ~(i + 1 < k) /\ (i + 1) - 1 = i /\ r[i] = s[i + 1]
      BY <1>1, <1>5, <2>2
    <3> QED
      BY <3>1
  <2> QED
    BY <2>1, <2>2
<1>9. Range(r) = Range(s) \ {w}
  <2>1. ASSUME NEW v \in Range(r) PROVE v \in Range(s) /\ v # w
    <3>1. PICK i \in 1 .. n - 1 : r[i] = v
      BY <1>5 DEF Range
    <3>2. PICK j \in 1 .. n : j # k /\ r[i] = s[j]
      BY <1>8
    <3> QED
      BY <1>1, <1>6, <3>1, <3>2 DEF Range
  <2>2. ASSUME NEW v \in Range(s), v # w PROVE v \in Range(r)
    <3>1. PICK i \in 1 .. n : s[i] = v
      BY <1>1 DEF Range
    <3>2. i # k
      BY <1>1, <2>2, <3>1
    <3> QED
      BY <1>5, <1>7, <3>1, <3>2 DEF Range
  <2> QED
    BY <2>1, <2>2
<1>10. ASSUME NEW v, NEW u, v # w, u # w, Below(s, v, u) PROVE Below(r, v, u)
  <2>1. PICK i \in 1 .. n, j \in 1 .. n : i <= j /\ s[i] = v /\ s[j] = u
    BY <1>1, <1>10 DEF Below
  <2>2. i # k /\ j # k
    BY <1>1, <1>10, <2>1
  <2>3. (IF i < k THEN i ELSE i - 1) <= (IF j < k THEN j ELSE j - 1)
    BY <1>1, <2>1, <2>2
  <2> QED
    BY <1>5, <1>7, <2>1, <2>2, <2>3 DEF Below
<1>11. IsInjective(r)
  <2> SUFFICES ASSUME NEW i \in 1 .. n - 1, NEW j \in 1 .. n - 1, r[i] = r[j] PROVE i = j
    BY <1>5 DEF IsInjective
  <2>1. PICK ii \in 1 .. n : ii # k /\ r[i] = s[ii] /\ i = IF ii < k THEN ii ELSE ii - 1
    BY <1>8
  <2>2. PICK jj \in 1 .. n : jj # k /\ r[j] = s[jj] /\ j = IF jj < k THEN jj ELSE jj - 1
    BY <1>8
  <2>3. ii = jj
    BY <1>6, <2>1, <2>2
  <2> QED
    BY <2>1, <2>2, <2>3
<1> QED
  BY <1>5, <1>9, <1>10, <1>11 DEF r

\* Of the windows of a list that have something, one is the highest.
LEMMA HighestExists ==
    ASSUME NEW s \in Seq(Pane), NEW S, NEW x \in S, x \in Range(s)
    PROVE  \E v \in S \cap Range(s) : \A u \in S \cap Range(s) : Below(s, u, v)
<1> DEFINE n == Len(s)
           T == {d \in 0 .. n : \E i \in 1 .. n : d = n - i /\ s[i] \in S}
<1>1. n \in Nat /\ DOMAIN s = 1 .. n
  OBVIOUS
<1> HIDE DEF n
<1>2. PICK k \in 1 .. n : s[k] = x
  BY <1>1 DEF Range
<1>3. n - k \in 0 .. n
  BY <1>1
<1>4. T \in SUBSET Nat /\ T # {}
  <2>1. n - k \in T
    BY <1>2, <1>3
  <2>2. 0 .. n \subseteq Nat
    BY <1>1
  <2> QED
    BY <2>1, <2>2
<1>5. PICK d \in T : \A e \in T : d <= e
  BY <1>4, LeastOf
<1>6. PICK i \in 1 .. n : d = n - i /\ s[i] \in S
  BY <1>5
<1>7. ASSUME NEW u \in S \cap Range(s) PROVE Below(s, u, s[i])
  <2>1. PICK j \in 1 .. n : s[j] = u
    BY <1>1 DEF Range
  <2>2. n - j \in T
    BY <1>1, <2>1
  <2>3. n - i <= n - j
    BY <1>5, <1>6, <2>2
  <2>4. j <= i
    BY <1>1, <2>3
  <2> QED
    BY <1>1, <2>1, <2>4 DEF Below
<1>8. s[i] \in Range(s)
  BY <1>1, <1>6 DEF Range
<1> QED
  BY <1>6, <1>7, <1>8

\* What dwm_redraw_others leaves at a pixel: the highest of the other windows
\* there, or the wall
Redrawn(c, w, p) ==
    \/ \E v \in Range(stack) \ {w} :
        /\ Covers(v, p) /\ c = <<v, pane[v].colour>>
        /\ \A u \in Range(stack) \ {w} : Covers(u, p) => Below(stack, u, v)
    \/ (\A v \in Range(stack) \ {w} : ~Covers(v, p)) /\ c = <<Wall, wallpaper.colour>>

\* The same of the first i of the stack
RedrawnOf(c, w, p, i) ==
    \/ \E k \in 1 .. i :
        /\ stack[k] # w /\ Covers(stack[k], p) /\ c = <<stack[k], pane[stack[k]].colour>>
        /\ \A j \in 1 .. i : stack[j] # w /\ Covers(stack[j], p) => j <= k
    \/ (\A j \in 1 .. i : ~(stack[j] # w /\ Covers(stack[j], p))) /\ c = <<Wall, wallpaper.colour>>

\* dwm_redraw_others leaves the highest of the other windows at every pixel of the
\* rectangle, and the rest as it is.
LEMMA RedrawPoints ==
    ASSUME PanesOK, NEW buffer \in BufferInt, NEW w, NEW rect \in RectInt
    PROVE  /\ RedrawOthers(buffer, w, rect) \in BufferInt
           /\ Extends(buffer, RedrawOthers(buffer, w, rect))
           /\ \A p \in Pixel : IF ContainsPoint(rect, p)
                THEN Redrawn(RedrawOthers(buffer, w, rect).pixels[p], w, p)
                ELSE RedrawOthers(buffer, w, rect).pixels[p] = buffer.pixels[p]
<1>0. stack \in Seq(Pane) /\ wallpaper.colour \in Colour /\ Wall \in Owner
  BY DEF PanesOK, Owner
<1>1. PICK f : /\ f[0] = Paint(buffer, rect, Wall, wallpaper.colour)
               /\ \A i \in 1 .. Len(stack) : f[i] = PaintOther(f[i - 1], w, rect, stack[i])
               /\ f[Len(stack)] = RedrawOthers(buffer, w, rect)
  BY RedrawSteps
<1> DEFINE n == Len(stack)
           P == {i \in Nat : i <= n => /\ f[i] \in BufferInt /\ Extends(buffer, f[i])
                                       /\ \A p \in Pixel : IF ContainsPoint(rect, p) THEN RedrawnOf(f[i].pixels[p], w, p, i)
                                                           ELSE f[i].pixels[p] = buffer.pixels[p]}
<1>2. n \in Nat /\ DOMAIN stack = 1 .. n
  BY <1>0
<1>3. 0 \in P
  <2>1. f[0] \in BufferInt /\ Extends(buffer, f[0])
        /\ \A q \in Pixel : f[0].pixels[q] = IF ContainsPoint(rect, q) THEN <<Wall, wallpaper.colour>> ELSE buffer.pixels[q]
    BY <1>0, <1>1, PaintFacts
  <2>2. \A p \in Pixel : RedrawnOf(<<Wall, wallpaper.colour>>, w, p, 0)
    BY DEF RedrawnOf
  <2> QED
    BY <2>1, <2>2
<1>4. ASSUME NEW i \in 1 .. n, i - 1 \in P PROVE i \in P
  <2>1. /\ f[i - 1] \in BufferInt /\ Extends(buffer, f[i - 1])
        /\ \A p \in Pixel : IF ContainsPoint(rect, p) THEN RedrawnOf(f[i - 1].pixels[p], w, p, i - 1)
                            ELSE f[i - 1].pixels[p] = buffer.pixels[p]
    BY <1>4
  <2>2. f[i] = PaintOther(f[i - 1], w, rect, stack[i]) /\ stack[i] \in Pane
    BY <1>0, <1>1
  <2>3. /\ f[i] \in BufferInt /\ Extends(f[i - 1], f[i])
        /\ \A q \in Pixel : f[i].pixels[q] =
                IF stack[i] # w /\ Covers(stack[i], q) /\ ContainsPoint(rect, q)
                THEN <<stack[i], pane[stack[i]].colour>> ELSE f[i - 1].pixels[q]
    BY <2>1, <2>2, PaintOtherFacts
  <2>4. Extends(buffer, f[i])
    BY <2>1, <2>3, ExtendsTwice
  <2>5. 1 .. i = (1 .. i - 1) \cup {i} /\ i \in Int /\ \A j \in 1 .. i : j <= i
    OBVIOUS
  <2>6. ASSUME NEW p \in Pixel
        PROVE  IF ContainsPoint(rect, p) THEN RedrawnOf(f[i].pixels[p], w, p, i)
               ELSE f[i].pixels[p] = buffer.pixels[p]
    <3>1. CASE ~ContainsPoint(rect, p)
      BY <2>1, <2>3, <3>1
    <3>2. CASE ContainsPoint(rect, p) /\ stack[i] # w /\ Covers(stack[i], p)
      BY <2>3, <2>5, <3>2 DEF RedrawnOf
    <3>3. CASE ContainsPoint(rect, p) /\ ~(stack[i] # w /\ Covers(stack[i], p))
      <4>1. RedrawnOf(f[i].pixels[p], w, p, i - 1)
        BY <2>1, <2>3, <3>3
      <4> QED
        BY <2>5, <3>3, <4>1 DEF RedrawnOf
    <3> QED
      BY <3>1, <3>2, <3>3
  <2> QED
    BY <2>3, <2>4, <2>6
<1>5. n \in P
  <2> HIDE DEF P, n
  <2>1. \A i \in 0 .. n : i \in P
    BY <1>2, <1>3, <1>4, UpTo
  <2> QED
    BY <1>2, <2>1
<1>6. ASSUME NEW c, NEW p, RedrawnOf(c, w, p, n) PROVE Redrawn(c, w, p)
  <2> HIDE DEF n
  <2>1. \A j \in 1 .. n : stack[j] \in Range(stack)
    BY <1>2 DEF Range
  <2>2. \A v \in Range(stack) : \E j \in 1 .. n : stack[j] = v
    BY <1>2 DEF Range
  <2>3. CASE \A j \in 1 .. n : ~(stack[j] # w /\ Covers(stack[j], p))
    <3>1. \A v \in Range(stack) \ {w} : ~Covers(v, p)
      BY <2>2, <2>3
    <3>2. c = <<Wall, wallpaper.colour>>
      BY <1>6, <2>3 DEF RedrawnOf
    <3> QED
      BY <3>1, <3>2 DEF Redrawn
  <2>4. CASE \E k \in 1 .. n :
                /\ stack[k] # w /\ Covers(stack[k], p) /\ c = <<stack[k], pane[stack[k]].colour>>
                /\ \A j \in 1 .. n : stack[j] # w /\ Covers(stack[j], p) => j <= k
    <3>1. PICK k \in 1 .. n :
                /\ stack[k] # w /\ Covers(stack[k], p) /\ c = <<stack[k], pane[stack[k]].colour>>
                /\ \A j \in 1 .. n : stack[j] # w /\ Covers(stack[j], p) => j <= k
      BY <2>4
    <3>2. ASSUME NEW u \in Range(stack) \ {w}, Covers(u, p) PROVE Below(stack, u, stack[k])
      <4>1. PICK j \in 1 .. n : stack[j] = u
        BY <2>2
      <4> QED
        BY <1>2, <3>1, <3>2, <4>1 DEF Below
    <3> QED
      BY <2>1, <3>1, <3>2 DEF Redrawn
  <2> QED
    BY <1>6, <2>3, <2>4 DEF RedrawnOf
<1> HIDE DEF n
<1>7. /\ f[n] \in BufferInt /\ Extends(buffer, f[n])
      /\ \A p \in Pixel : IF ContainsPoint(rect, p) THEN RedrawnOf(f[n].pixels[p], w, p, n)
                          ELSE f[n].pixels[p] = buffer.pixels[p]
  BY <1>2, <1>5
<1>8. f[n] = RedrawOthers(buffer, w, rect)
  BY <1>1 DEF n
<1> QED
  BY <1>6, <1>7, <1>8


PaneRec == [rect: RectInt, prevRect: RectInt, moved: BOOLEAN, invalid: BOOLEAN, colour: Colour,
            invalidRect: RectInt]

Wide(r) == r.left <= r.right /\ r.top <= r.bottom

DrawTypes ==
    /\ stack \in Seq(Pane) /\ IsInjective(stack)
    /\ pane \in [Pane -> PaneRec]
    /\ \A w \in Pane : pane[w].rect \in PaneRect[w] \cup {Empty}
    /\ wallpaper \in [moved: BOOLEAN, invalid: BOOLEAN, colour: Colour]
    /\ clientRect \in RectInt
    /\ pointer \in PointerPixel
    /\ back \in BufferInt
    /\ front \in [Pixel -> Owner \X Colour]
    /\ pass \in [pc: {"idle", "windows"}, todo: Seq(Pane)]
    /\ ahead \in SUBSET Pane
    /\ torn \in BOOLEAN
    /\ ops \in 0 .. OpMax

\* A window of the stack that no pass has to move shows at a pixel.
Stays(v, p) == v \in Range(stack) /\ ~pane[v].moved /\ Covers(v, p)

Top(v, p) == Stays(v, p) /\ \A u \in Pane : Stays(u, p) => Below(stack, u, v)

Waits(v, p) ==
    /\ pane[v].invalid
    /\ ContainsPoint(Shift(pane[v].invalidRect, pane[v].rect.left, pane[v].rect.top), p)

\* The pixel shows the highest of them, or the wall.
Right(p) ==
    \/ \E v \in Pane : Top(v, p) /\ back.pixels[p] = <<v, pane[v].colour>>
    \/ /\ \A v \in Pane : ~Stays(v, p)
       /\ ContainsPoint(clientRect, p) => back.pixels[p] = <<Wall, wallpaper.colour>>

\* The highest of them will be drawn there.
Pending(p) == \E v \in Pane : Top(v, p) /\ Waits(v, p)

\* A window that left it will uncover it.
Left(p) == \E v \in Range(stack) : pane[v].moved /\ ContainsPoint(pane[v].prevRect, p)

\* A window that is to be moved there is shown there already.
Early(p) == \E v \in Range(stack) : v \in ahead /\ pane[v].moved /\ Covers(v, p)

Fine(p) == Right(p) \/ Pending(p) \/ Left(p) \/ Early(p)

Excused == torn \/ wallpaper.moved \/ wallpaper.invalid

PictureKept == Excused \/ \A p \in Pixel : p = pointer \/ Fine(p)

Within(r, rect) ==
    /\ r.left >= 0 /\ r.top >= 0
    /\ r.right <= rect.right - rect.left /\ r.bottom <= rect.bottom - rect.top

\* A window that is not to be moved was last drawn where it is.
PlacesKept ==
    \A v \in Range(stack) : ~pane[v].moved =>
        /\ \A p \in Pixel : Covers(v, p) => ContainsPoint(pane[v].prevRect, p)
        /\ Within(pane[v].invalidRect, pane[v].rect)

\* A pass has the upper part of the stack before it.
TodoKept ==
    pass.pc = "windows" => \E k \in Nat :
        /\ k + Len(pass.todo) = Len(stack)
        /\ \A i \in 1 .. Len(pass.todo) : pass.todo[i] = stack[k + i]

ClientKept ==
    \A p \in Pixel : ContainsPoint(clientRect, p) <=>
        \A v \in Range(stack) : v \in Panel => Keeps(pane[v].rect, p)

SwapPixels == \A p \in Pixel : back.pixels[p] # front[p] => ContainsPoint(back.invalidRect, p)

SwapKept == SwapPixels /\ (pass.pc = "idle" => back.invalidRect = Empty)

CursorKept == pass.pc = "idle" /\ ~wallpaper.moved => back.pixels[pointer] = <<Cursor, 0>>

CompositorInv ==
    DrawTypes /\ PlacesKept /\ TodoKept /\ ClientKept /\ SwapKept /\ CursorKept /\ PictureKept

-----------------------------------------------------------------------------

\* The rectangles of windows have no negative size.
LEMMA RectOfPane ==
    ASSUME NEW w \in Pane, NEW r \in PaneRect[w] \cup {Empty}
    PROVE  r \in RectInt /\ Wide(r)
<1>1. CASE r \in PaneRect[w]
  BY <1>1, CompositorAssumption DEF RectInt, Wide
<1>2. CASE r = Empty
  BY <1>2, EmptyType DEF Wide, Empty, RectInit
<1> QED
  BY <1>1, <1>2

\* A new window is to be moved.
LEMMA NewPaneType ==
    ASSUME NEW r \in RectInt
    PROVE  /\ NewPane(r) \in PaneRec /\ NewPane(r).rect = r /\ NewPane(r).moved
<1>1. r.left \in Int /\ r.top \in Int /\ -r.left \in Int /\ -r.top \in Int
  BY RectType
<1>2. Shift(r, -r.left, -r.top) \in RectInt
  BY <1>1, ShiftType
<1>3. 0 \in Colour
  BY DEF Colour
<1> QED
  BY <1>2, <1>3, EmptyType DEF NewPane, PaneRec

\* The fields of a window
LEMMA PaneFields ==
    ASSUME NEW r \in PaneRec
    PROVE  /\ r.rect \in RectInt /\ r.prevRect \in RectInt /\ r.invalidRect \in RectInt
           /\ r.moved \in BOOLEAN /\ r.invalid \in BOOLEAN /\ r.colour \in Colour
  BY DEF PaneRec

\* What the proof needs of the types
LEMMA TypesGood ==
    ASSUME DrawTypes
    PROVE  PanesOK /\ Range(stack) \subseteq Pane
<1>1. \A w \in Pane : pane[w] \in PaneRec
  BY DEF DrawTypes
<1>2. \A w \in Pane : pane[w].rect \in RectInt /\ pane[w].colour \in Colour
  BY <1>1, PaneFields
<1>3. wallpaper.colour \in Colour
  BY DEF DrawTypes
<1>4. Range(stack) \subseteq Pane
  BY DEF DrawTypes, Range
<1> QED
  BY <1>2, <1>3, <1>4 DEF DrawTypes, PanesOK

\* list of windows all moved
LEMMA MovedFacts ==
    ASSUME NEW ps \in [Pane -> PaneRec], NEW list
    PROVE  /\ Moved(ps, list) \in [Pane -> PaneRec]
           /\ \A w \in Pane :
                /\ Moved(ps, list)[w].rect = ps[w].rect
                /\ Moved(ps, list)[w].prevRect = ps[w].prevRect
                /\ w \in Range(list) => Moved(ps, list)[w].moved
                /\ w \notin Range(list) => Moved(ps, list)[w] = ps[w]
<1>1. \A w \in Pane : ps[w] \in PaneRec
  OBVIOUS
<1>2. \A w \in Pane : /\ [ps[w] EXCEPT !.moved = TRUE] \in PaneRec
                      /\ [ps[w] EXCEPT !.moved = TRUE].rect = ps[w].rect
                      /\ [ps[w] EXCEPT !.moved = TRUE].prevRect = ps[w].prevRect
                      /\ [ps[w] EXCEPT !.moved = TRUE].moved
  BY <1>1 DEF PaneRec
<1> QED
  BY <1>1, <1>2 DEF Moved

\* dwm_start establishes the invariant.
LEMMA CompositorInitInv == CompositorInit => CompositorInv
<1> SUFFICES ASSUME CompositorInit PROVE CompositorInv
  OBVIOUS
<1> USE DEF CompositorInit
<1>1. Range(stack) = {} /\ DOMAIN stack = {}
  BY DEF Range
<1>2. ScreenRect \in RectInt /\ \A p \in Pixel : ContainsPoint(ScreenRect, p)
  <2>1. ScreenRect \in RectInt
    BY CompositorAssumption DEF ScreenRect, RectInit, RectInt
  <2> QED
    BY <2>1, PixelType
<1>3. DrawTypes
  <2>1. 0 \in Colour /\ Wall \in Owner /\ 0 \in 0 .. OpMax
    BY CompositorAssumption DEF Colour, Owner
  <2>2. [p \in Pixel |-> <<Wall, 0>>] \in [Pixel -> Owner \X Colour]
    BY <2>1
  <2>3. back \in BufferInt /\ front \in [Pixel -> Owner \X Colour]
    BY <2>2, EmptyType DEF BufferInt
  <2>4. Empty \in RectInt /\ NewPane(Empty) \in PaneRec /\ NewPane(Empty).rect = Empty
    BY EmptyType, NewPaneType
  <2>5. pane \in [Pane -> PaneRec] /\ \A w \in Pane : pane[w].rect = Empty
    BY <2>4
  <2>6. IsInjective(stack)
    BY <1>1 DEF IsInjective
  <2>7. pointer \in PointerPixel
    BY CompositorAssumption
  <2>8. wallpaper \in [moved: BOOLEAN, invalid: BOOLEAN, colour: Colour]
    BY <2>1
  <2>9. pass \in [pc: {"idle", "windows"}, todo: Seq(Pane)] /\ stack \in Seq(Pane)
    OBVIOUS
  <2> QED
    BY <1>2, <2>1, <2>3, <2>5, <2>6, <2>7, <2>8, <2>9 DEF DrawTypes
<1>4. PlacesKept /\ ClientKept
  BY <1>1, <1>2 DEF PlacesKept, ClientKept
<1>5. TodoKept /\ CursorKept
  BY DEF TodoKept, CursorKept
<1>6. PictureKept
  BY DEF PictureKept, Excused
<1>7. SwapKept
  BY DEF SwapKept, SwapPixels
<1> QED
  BY <1>3, <1>4, <1>5, <1>6, <1>7 DEF CompositorInv

-----------------------------------------------------------------------------

\* When a step leaves a pixel as it is, and moves no window without saying so, the
\* pixel is as fine as it was.
LEMMA FineKept ==
    ASSUME NEW p \in Pixel, Fine(p), DrawTypes,
           back'.pixels[p] = back.pixels[p], wallpaper'.colour = wallpaper.colour,
           ContainsPoint(clientRect', p) => ContainsPoint(clientRect, p),
           \A u \in Pane : Stays(u, p)' => Stays(u, p),
           \A u, v \in Pane : Stays(u, p)' /\ Stays(v, p)' /\ Below(stack, u, v) => Below(stack', u, v),
           \A v \in Pane : Stays(v, p) =>
                \/ Left(p)'
                \/ /\ Stays(v, p)'
                   /\ pane'[v].colour = pane[v].colour \/ Waits(v, p)'
                   /\ Waits(v, p) => Waits(v, p)',
           Left(p) => Left(p)',
           Early(p) => Early(p)' \/ Right(p)'
    PROVE  Fine(p)'
<1>1. ASSUME NEW v \in Pane, Top(v, p), Stays(v, p)' PROVE Top(v, p)'
  BY <1>1 DEF Top
<1>2. CASE Right(p)
  <2>1. CASE \E v \in Pane : Top(v, p) /\ back.pixels[p] = <<v, pane[v].colour>>
    <3>1. PICK v \in Pane : Top(v, p) /\ back.pixels[p] = <<v, pane[v].colour>>
      BY <2>1
    <3>2. Stays(v, p)
      BY <3>1 DEF Top
    <3>3. CASE Left(p)'
      BY <3>3 DEF Fine
    <3>4. CASE ~Left(p)'
      <4>1. Stays(v, p)' /\ (pane'[v].colour = pane[v].colour \/ Waits(v, p)')
        BY <3>2, <3>4
      <4>2. Top(v, p)'
        BY <1>1, <3>1, <4>1
      <4>3. CASE pane'[v].colour = pane[v].colour
        <5>1. back'.pixels[p] = <<v, pane'[v].colour>>
          BY <3>1, <4>3
        <5>2. Right(p)'
          BY <4>2, <5>1 DEF Right
        <5> QED
          BY <5>2 DEF Fine
      <4>4. CASE Waits(v, p)'
        BY <4>2, <4>4 DEF Fine, Pending
      <4> QED
        BY <4>1, <4>3, <4>4
    <3> QED
      BY <3>3, <3>4
  <2>2. CASE /\ \A v \in Pane : ~Stays(v, p)
             /\ ContainsPoint(clientRect, p) => back.pixels[p] = <<Wall, wallpaper.colour>>
    <3>1. (\A v \in Pane : ~Stays(v, p))'
      BY <2>2
    <3>2. (ContainsPoint(clientRect, p) => back.pixels[p] = <<Wall, wallpaper.colour>>)'
      BY <2>2
    <3> QED
      BY <3>1, <3>2 DEF Fine, Right
  <2> QED
    BY <1>2, <2>1, <2>2 DEF Right
<1>3. CASE Pending(p)
  <2>1. PICK v \in Pane : Top(v, p) /\ Waits(v, p)
    BY <1>3 DEF Pending
  <2>2. Stays(v, p)
    BY <2>1 DEF Top
  <2>3. CASE Left(p)'
    BY <2>3 DEF Fine
  <2>4. CASE ~Left(p)'
    <3>1. Stays(v, p)' /\ Waits(v, p)'
      BY <2>1, <2>2, <2>4
    <3>2. Top(v, p)'
      BY <1>1, <2>1, <3>1
    <3> QED
      BY <3>1, <3>2 DEF Fine, Pending
  <2> QED
    BY <2>3, <2>4
<1>4. CASE Left(p) \/ Early(p)
  BY <1>4 DEF Fine
<1> QED
  BY <1>2, <1>3, <1>4 DEF Fine


\* A window's coordinates and back
LEMMA ShiftBack ==
    ASSUME NEW r \in RectInt, NEW dx \in Int, NEW dy \in Int
    PROVE  Shift(Shift(r, -dx, -dy), dx, dy) = r
<1>1. r.left \in Int /\ r.top \in Int /\ r.right \in Int /\ r.bottom \in Int
      /\ r = RectInit(r.left, r.top, r.right, r.bottom)
  BY RectType
<1>2. /\ (r.left + -dx) + dx = r.left /\ (r.top + -dy) + dy = r.top
      /\ (r.right + -dx) + dx = r.right /\ (r.bottom + -dy) + dy = r.bottom
  BY <1>1
<1> QED
  BY <1>1, <1>2 DEF Shift, RectInit

\* gfx_invalidate forgets nothing, in the coordinates of a window either.
LEMMA ShiftAround ==
    ASSUME NEW r \in RectInt, NEW q \in RectInt, NEW dx \in Int, NEW dy \in Int, NEW p \in Pixel,
           ContainsPoint(Shift(r, dx, dy), p) \/ ContainsPoint(Shift(q, dx, dy), p)
    PROVE  ContainsPoint(Shift(Around(r, q), dx, dy), p)
<1>1. /\ r.left \in Int /\ r.top \in Int /\ r.right \in Int /\ r.bottom \in Int
      /\ q.left \in Int /\ q.top \in Int /\ q.right \in Int /\ q.bottom \in Int
      /\ p.x \in Int /\ p.y \in Int
  BY RectType, PixelType
<1> QED
  BY <1>1 DEF ContainsPoint, Shift, Around, RectInit

\* Two parts of a window make a part of the window.
LEMMA WithinAround ==
    ASSUME NEW r \in RectInt, NEW q \in RectInt, NEW rect \in RectInt, Within(r, rect), Within(q, rect)
    PROVE  Within(Around(r, q), rect)
<1>1. /\ r.left \in Int /\ r.top \in Int /\ r.right \in Int /\ r.bottom \in Int
      /\ q.left \in Int /\ q.top \in Int /\ q.right \in Int /\ q.bottom \in Int
      /\ rect.left \in Int /\ rect.top \in Int /\ rect.right \in Int /\ rect.bottom \in Int
  BY RectType
<1> QED
  BY <1>1 DEF Within, Around, RectInit

\* All of a window is a part of it,
LEMMA WithinOwn ==
    ASSUME NEW rect \in RectInt
    PROVE  Within(Shift(rect, -rect.left, -rect.top), rect)
<1>1. rect.left \in Int /\ rect.top \in Int /\ rect.right \in Int /\ rect.bottom \in Int
  BY RectType
<1> QED
  BY <1>1 DEF Within, Shift, RectInit

\* so is what RECT_FIT leaves in it,
LEMMA WithinFit ==
    ASSUME NEW r \in RectInt, NEW rect \in RectInt, Wide(rect)
    PROVE  Within(Shift(Fit(r, rect), -rect.left, -rect.top), rect)
<1>1. /\ r.left \in Int /\ r.top \in Int /\ r.right \in Int /\ r.bottom \in Int
      /\ rect.left \in Int /\ rect.top \in Int /\ rect.right \in Int /\ rect.bottom \in Int
  BY RectType
<1>2. \A x, low, high \in Int : low <= high => Clamp(x, low, high) \in Int /\ low <= Clamp(x, low, high) /\ Clamp(x, low, high) <= high
  BY DEF Clamp
<1>3. rect.left <= rect.right /\ rect.top <= rect.bottom
  BY DEF Wide
<1> DEFINE a == Clamp(r.left, rect.left, rect.right)
           b == Clamp(r.top, rect.top, rect.bottom)
           c == Clamp(r.right, rect.left, rect.right)
           d == Clamp(r.bottom, rect.top, rect.bottom)
<1>4. /\ a \in Int /\ rect.left <= a /\ a <= rect.right /\ c \in Int /\ rect.left <= c /\ c <= rect.right
      /\ b \in Int /\ rect.top <= b /\ b <= rect.bottom /\ d \in Int /\ rect.top <= d /\ d <= rect.bottom
  BY <1>1, <1>2, <1>3
<1>5. Fit(r, rect) = RectInit(a, b, c, d)
  BY DEF Fit
<1> HIDE DEF a, b, c, d
<1> QED
  BY <1>1, <1>4, <1>5 DEF Within, Shift, RectInit

\* and nothing of it.
LEMMA WithinEmpty ==
    ASSUME NEW rect \in RectInt, Wide(rect)
    PROVE  Within(Empty, rect)
<1>1. rect.left \in Int /\ rect.top \in Int /\ rect.right \in Int /\ rect.bottom \in Int
  BY RectType
<1> QED
  BY <1>1 DEF Within, Wide, Empty, RectInit

\* What is drawn of a window is in its rectangle.
LEMMA WithinPoints ==
    ASSUME NEW r \in RectInt, NEW rect \in RectInt, Within(r, rect), NEW p \in Pixel,
           ContainsPoint(Shift(r, rect.left, rect.top), p)
    PROVE  ContainsPoint(rect, p)
<1>1. /\ r.left \in Int /\ r.top \in Int /\ r.right \in Int /\ r.bottom \in Int
      /\ rect.left \in Int /\ rect.top \in Int /\ rect.right \in Int /\ rect.bottom \in Int
      /\ p.x \in Int /\ p.y \in Int
  BY RectType, PixelType
<1> QED
  BY <1>1 DEF ContainsPoint, Within, Shift, RectInit

\* The cursor covers the pixel it is on.
LEMMA CursorPoints ==
    ASSUME NEW c \in Pixel
    PROVE  CursorRect(c) \in RectInt /\ \A p \in Pixel : ContainsPoint(CursorRect(c), p) <=> p = c
<1> DEFINE r == RectInit(c.x, c.y, c.x + 1, c.y + 1)
<1>1. c.x \in Int /\ c.y \in Int /\ c.x + 1 \in Int /\ c.y + 1 \in Int
  BY PixelType
<1>2. r \in RectInt
  BY <1>1, RectInitType
<1>3. ScreenRect \in RectInt /\ \A p \in Pixel : ContainsPoint(ScreenRect, p)
  <2>1. ScreenRect \in RectInt
    BY CompositorAssumption DEF ScreenRect, RectInit, RectInt
  <2> QED
    BY <2>1, PixelType
<1>4. \A p \in Pixel : ContainsPoint(r, p) <=> p = c
  <2>1. ASSUME NEW p \in Pixel PROVE ContainsPoint(r, p) <=> p = c
    <3>1. p.x \in Int /\ p.y \in Int
      BY PixelType
    <3>2. ContainsPoint(r, p) <=> p.x = c.x /\ p.y = c.y
      BY <1>1, <3>1 DEF ContainsPoint, RectInit
    <3>3. p.x = c.x /\ p.y = c.y <=> p = c
      BY DEF Pixel
    <3> QED
      BY <3>2, <3>3
  <2> QED
    BY <2>1
<1> HIDE DEF r
<1>5. Fit(r, ScreenRect) \in RectInt
      /\ \A p \in Pixel : ContainsPoint(Fit(r, ScreenRect), p) <=> ContainsPoint(r, p) /\ ContainsPoint(ScreenRect, p)
  BY <1>2, <1>3, FitPoints
<1> QED
  BY <1>3, <1>4, <1>5 DEF CursorRect, r

\* Drawing extends what is to be copied to the screen.
LEMMA SwapExtends ==
    ASSUME SwapPixels, NEW b, Extends(back, b)
    PROVE  \A p \in Pixel : b.pixels[p] # front[p] => ContainsPoint(b.invalidRect, p)
  BY DEF SwapPixels, Extends

\* After gfx_swap the screen is the backbuffer.
LEMMA SwappedAll ==
    ASSUME DrawTypes, SwapPixels, NEW b \in BufferInt, Extends(back, b)
    PROVE  Swapped(b) = b.pixels
<1>1. \A p \in Pixel : ~ContainsPoint(b.invalidRect, p) => b.pixels[p] = front[p]
  BY SwapExtends
<1>2. b.pixels \in [Pixel -> Owner \X Colour]
  BY DEF BufferInt
<1>3. Swapped(b) = [p \in Pixel |-> b.pixels[p]]
  BY <1>1 DEF Swapped
<1> QED
  BY <1>2, <1>3

-----------------------------------------------------------------------------

\* Operations of clients are counted.
LEMMA OperationType ==
    ASSUME DrawTypes, Operation
    PROVE  ops' \in 0 .. OpMax
  BY CompositorAssumption DEF DrawTypes, Operation

\* window_flush: the pixels the window shows wait for the next pass.
LEMMA PaneFlushInv ==
    ASSUME CompositorInv, NEW w \in Pane, PaneFlush(w)
    PROVE  CompositorInv'
<1> USE DEF CompositorInv
<1>0. /\ w \in Range(stack) /\ Operation
      /\ pane' = [pane EXCEPT ![w].colour = 1 - @, ![w].invalid = TRUE,
                  ![w].invalidRect = Around(@, Shift(pane[w].rect, -pane[w].rect.left, -pane[w].rect.top))]
      /\ UNCHANGED <<stack, wallpaper, clientRect, pointer, back, front, pass, ahead, torn>>
  BY DEF PaneFlush
<1>1. pane \in [Pane -> PaneRec] /\ pane[w] \in PaneRec
  BY DEF DrawTypes
<1>2. pane[w].rect \in RectInt /\ pane[w].invalidRect \in RectInt /\ pane[w].colour \in Colour
  BY <1>1, PaneFields
<1> DEFINE own == Shift(pane[w].rect, -pane[w].rect.left, -pane[w].rect.top)
           new == Around(pane[w].invalidRect, own)
<1>3. pane[w].rect.left \in Int /\ pane[w].rect.top \in Int /\ -pane[w].rect.left \in Int /\ -pane[w].rect.top \in Int
  BY <1>2, RectType
<1>4. own \in RectInt /\ new \in RectInt
  <2>1. own \in RectInt
    BY <1>2, <1>3, ShiftType
  <2> QED
    BY <1>2, <2>1, AroundPoints
<1>5. 1 - pane[w].colour \in Colour
  BY <1>2 DEF Colour
<1> HIDE DEF own, new
<1>6. pane' = [pane EXCEPT ![w] = [pane[w] EXCEPT !.colour = 1 - pane[w].colour, !.invalid = TRUE, !.invalidRect = new]]
  BY <1>0, <1>1 DEF new, own
<1>7. pane'[w] = [pane[w] EXCEPT !.colour = 1 - pane[w].colour, !.invalid = TRUE, !.invalidRect = new]
  BY <1>1, <1>6
<1>8. /\ pane'[w] \in PaneRec /\ pane'[w].rect = pane[w].rect /\ pane'[w].prevRect = pane[w].prevRect
      /\ pane'[w].moved = pane[w].moved /\ pane'[w].invalid /\ pane'[w].invalidRect = new
  BY <1>1, <1>4, <1>5, <1>7 DEF PaneRec
<1>9. pane' \in [Pane -> PaneRec] /\ \A v \in Pane : v # w => pane'[v] = pane[v]
  BY <1>1, <1>6, <1>7, <1>8
<1>10. \A v \in Pane : /\ pane'[v].rect = pane[v].rect /\ pane'[v].prevRect = pane[v].prevRect
                       /\ pane'[v].moved = pane[v].moved
  BY <1>8, <1>9
<1> HIDE DEF CompositorInv
<1>11. DrawTypes /\ PlacesKept /\ TodoKept /\ ClientKept /\ SwapKept /\ CursorKept /\ PictureKept
  BY DEF CompositorInv
<1>12. Range(stack) \subseteq Pane /\ Range(stack)' = Range(stack)
  BY <1>0, <1>11, TypesGood
<1>13. \A v \in Pane, p \in Pixel : Covers(v, p)' <=> Covers(v, p)
  BY <1>0, <1>10 DEF Covers, FitRect
<1>14. \A v \in Pane, p \in Pixel : Stays(v, p)' <=> Stays(v, p)
  BY <1>10, <1>12, <1>13 DEF Stays
<1>15. DrawTypes'
  BY <1>0, <1>9, <1>10, <1>11, OperationType DEF DrawTypes
<1>16. PlacesKept'
  <2> SUFFICES ASSUME NEW v \in Range(stack), ~pane[v].moved
               PROVE  /\ \A p \in Pixel : Covers(v, p) => ContainsPoint(pane[v].prevRect, p)
                      /\ Within(pane'[v].invalidRect, pane[v].rect)
    BY <1>10, <1>12, <1>13 DEF PlacesKept
  <2>1. /\ \A p \in Pixel : Covers(v, p) => ContainsPoint(pane[v].prevRect, p)
        /\ Within(pane[v].invalidRect, pane[v].rect)
    BY <1>11 DEF PlacesKept
  <2>2. CASE v = w
    <3>1. Within(own, pane[w].rect)
      BY <1>2, WithinOwn DEF own
    <3>2. Within(new, pane[w].rect)
      BY <1>2, <1>4, <2>1, <2>2, <3>1, WithinAround DEF new
    <3> QED
      BY <1>8, <2>1, <2>2, <3>2
  <2>3. CASE v # w
    BY <1>9, <1>12, <2>1, <2>3
  <2> QED
    BY <2>2, <2>3
<1>17. TodoKept' /\ SwapKept' /\ CursorKept'
  BY <1>0, <1>11 DEF TodoKept, SwapKept, SwapPixels, CursorKept
<1>18. ClientKept'
  BY <1>0, <1>10, <1>11, <1>12 DEF ClientKept
<1>19. PictureKept'
  <2>1. CASE Excused
    BY <1>0, <2>1 DEF Excused, PictureKept
  <2>2. CASE ~Excused
    <3> SUFFICES ASSUME NEW p \in Pixel, p # pointer PROVE Fine(p)'
      BY <1>0 DEF PictureKept
    <3>1. Fine(p)
      BY <1>11, <2>2 DEF PictureKept
    <3>2. ASSUME NEW v \in Pane, Waits(v, p) PROVE Waits(v, p)'
      <4>1. CASE v = w
        <5>1. ContainsPoint(Shift(new, pane[w].rect.left, pane[w].rect.top), p)
          BY <1>2, <1>3, <1>4, <3>2, <4>1, ShiftAround DEF new, Waits
        <5> QED
          BY <1>8, <4>1, <5>1 DEF Waits
      <4>2. CASE v # w
        BY <1>9, <3>2, <4>2 DEF Waits
      <4> QED
        BY <4>1, <4>2
    <3>3. ASSUME Stays(w, p) PROVE Waits(w, p)'
      <4>1. ContainsPoint(pane[w].rect, p)
        BY <3>3 DEF Stays, Covers
      <4>2. Shift(own, pane[w].rect.left, pane[w].rect.top) = pane[w].rect
        BY <1>2, <1>3, ShiftBack DEF own
      <4>3. ContainsPoint(Shift(new, pane[w].rect.left, pane[w].rect.top), p)
        BY <1>2, <1>3, <1>4, <4>1, <4>2, ShiftAround DEF new
      <4> QED
        BY <1>8, <4>3 DEF Waits
    <3>4. \A v \in Pane : Stays(v, p) =>
                /\ Stays(v, p)'
                /\ pane'[v].colour = pane[v].colour \/ Waits(v, p)'
                /\ Waits(v, p) => Waits(v, p)'
      BY <1>9, <1>14, <3>2, <3>3
    <3>5. Left(p) => Left(p)'
      BY <1>10, <1>12 DEF Left
    <3>6. Early(p) => Early(p)'
      BY <1>0, <1>10, <1>12, <1>13 DEF Early
    <3>7. back'.pixels[p] = back.pixels[p] /\ wallpaper'.colour = wallpaper.colour /\ stack' = stack /\ clientRect' = clientRect
      BY <1>0
    <3> QED
      BY <1>11, <1>14, <3>1, <3>4, <3>5, <3>6, <3>7, FineKept
  <2> QED
    BY <2>1, <2>2
<1> QED
  BY <1>15, <1>16, <1>17, <1>18, <1>19 DEF CompositorInv


\* A window that is moved from now on leaves what it showed to the next pass.
LEMMA LeftByMoved ==
    ASSUME PlacesKept, NEW p \in Pixel, NEW v, Stays(v, p), v \in Range(stack)',
           pane'[v].moved, pane'[v].prevRect = pane[v].prevRect
    PROVE  Left(p)'
<1>1. ContainsPoint(pane[v].prevRect, p)
  BY DEF PlacesKept, Stays
<1> QED
  BY <1>1 DEF Left

\* IOCTL_WINDOW_MOVE: the pixels the window showed are in its prevRect.
LEMMA PaneMoveInv ==
    ASSUME CompositorInv, NEW w \in Pane, NEW rect \in PaneRect[w], PaneMove(w, rect)
    PROVE  CompositorInv'
<1>0. /\ w \in Range(stack) /\ w \notin Panel /\ Operation
      /\ pane' = [pane EXCEPT ![w].rect = rect, ![w].moved = TRUE]
      /\ torn' = (torn \/ w \in ahead)
      /\ UNCHANGED <<stack, wallpaper, clientRect, pointer, back, front, pass, ahead>>
  BY DEF PaneMove
<1>1. DrawTypes /\ PlacesKept /\ TodoKept /\ ClientKept /\ SwapKept /\ CursorKept /\ PictureKept
  BY DEF CompositorInv
<1>2. pane \in [Pane -> PaneRec] /\ pane[w] \in PaneRec /\ rect \in RectInt
  BY <1>1, RectOfPane DEF DrawTypes
<1>3. pane' = [pane EXCEPT ![w] = [pane[w] EXCEPT !.rect = rect, !.moved = TRUE]]
  BY <1>0, <1>2
<1>4. /\ pane'[w] \in PaneRec /\ pane'[w].rect = rect /\ pane'[w].moved
      /\ pane'[w].prevRect = pane[w].prevRect
  <2>1. pane'[w] = [pane[w] EXCEPT !.rect = rect, !.moved = TRUE]
    BY <1>2, <1>3
  <2> QED
    BY <1>2, <2>1 DEF PaneRec
<1>5. pane' \in [Pane -> PaneRec] /\ \A v \in Pane : v # w => pane'[v] = pane[v]
  BY <1>2, <1>3, <1>4
<1>6. Range(stack) \subseteq Pane /\ Range(stack)' = Range(stack)
  BY <1>0, <1>1, TypesGood
<1>7. \A v \in Pane, p \in Pixel : v # w => (Covers(v, p)' <=> Covers(v, p))
  BY <1>0, <1>5 DEF Covers, FitRect
<1>8. \A v \in Pane, p \in Pixel : Stays(v, p)' <=> v # w /\ Stays(v, p)
  BY <1>4, <1>5, <1>6, <1>7 DEF Stays
<1>9. DrawTypes'
  <2>1. \A v \in Pane : pane'[v].rect \in PaneRect[v] \cup {Empty}
    BY <1>1, <1>4, <1>5 DEF DrawTypes
  <2>2. torn' \in BOOLEAN
    BY <1>0, <1>1 DEF DrawTypes
  <2> QED
    BY <1>0, <1>1, <1>5, <2>1, <2>2, OperationType DEF DrawTypes
<1>10. PlacesKept'
  BY <1>1, <1>4, <1>5, <1>6, <1>7 DEF PlacesKept
<1>11. TodoKept' /\ SwapKept' /\ CursorKept'
  BY <1>0, <1>1 DEF TodoKept, SwapKept, SwapPixels, CursorKept
<1>12. ClientKept'
  BY <1>0, <1>1, <1>5, <1>6 DEF ClientKept
<1>13. PictureKept'
  <2>1. CASE Excused'
    BY <2>1 DEF PictureKept
  <2>2. CASE ~Excused'
    <3> SUFFICES ASSUME NEW p \in Pixel, p # pointer PROVE Fine(p)'
      BY <1>0 DEF PictureKept
    <3>1. Fine(p) /\ w \notin ahead
      BY <1>0, <1>1, <2>2 DEF PictureKept, Excused
    <3>2. \A v \in Pane : v # w => (Waits(v, p)' <=> Waits(v, p))
      BY <1>5 DEF Waits
    <3>3. Stays(w, p) => Left(p)'
      BY <1>0, <1>1, <1>4, <1>6, LeftByMoved
    <3>4. \A v \in Pane : Stays(v, p) =>
                \/ Left(p)'
                \/ /\ Stays(v, p)'
                   /\ pane'[v].colour = pane[v].colour \/ Waits(v, p)'
                   /\ Waits(v, p) => Waits(v, p)'
      BY <1>5, <1>8, <3>2, <3>3
    <3>5. Left(p) => Left(p)'
      BY <1>4, <1>5, <1>6 DEF Left
    <3>6. Early(p) => Early(p)'
      BY <1>0, <1>5, <1>6, <1>7, <3>1 DEF Early
    <3>7. back'.pixels[p] = back.pixels[p] /\ wallpaper'.colour = wallpaper.colour /\ stack' = stack /\ clientRect' = clientRect
      BY <1>0
    <3> QED
      BY <1>1, <1>8, <3>1, <3>4, <3>5, <3>6, <3>7, FineKept
  <2> QED
    BY <2>1, <2>2
<1> QED
  BY <1>9, <1>10, <1>11, <1>12, <1>13 DEF CompositorInv

\* A flush of the wall asks for everything to be drawn.
LEMMA WallFlushInv ==
    ASSUME CompositorInv, WallFlush
    PROVE  CompositorInv'
<1>0. /\ Operation
      /\ wallpaper' = [wallpaper EXCEPT !.colour = 1 - @, !.invalid = TRUE]
      /\ UNCHANGED <<stack, pane, clientRect, pointer, back, front, pass, ahead, torn>>
  BY DEF WallFlush
<1>1. DrawTypes /\ PlacesKept /\ TodoKept /\ ClientKept /\ SwapKept /\ CursorKept
  BY DEF CompositorInv
<1>2. /\ wallpaper' \in [moved: BOOLEAN, invalid: BOOLEAN, colour: Colour]
      /\ wallpaper'.invalid /\ wallpaper'.moved = wallpaper.moved
  <2>1. wallpaper \in [moved: BOOLEAN, invalid: BOOLEAN, colour: Colour]
    BY <1>1 DEF DrawTypes
  <2>2. 1 - wallpaper.colour \in Colour
    BY <2>1 DEF Colour
  <2> QED
    BY <1>0, <2>1, <2>2
<1>3. DrawTypes'
  BY <1>0, <1>1, <1>2, OperationType DEF DrawTypes
<1>4. \A v, p : Covers(v, p)' <=> Covers(v, p)
  BY <1>0 DEF Covers, FitRect
<1>5. PlacesKept' /\ ClientKept'
  BY <1>0, <1>1, <1>4 DEF PlacesKept, ClientKept
<1>6. TodoKept' /\ SwapKept' /\ CursorKept'
  BY <1>0, <1>1, <1>2 DEF TodoKept, SwapKept, SwapPixels, CursorKept
<1>7. PictureKept'
  BY <1>2 DEF PictureKept, Excused
<1> QED
  BY <1>3, <1>5, <1>6, <1>7 DEF CompositorInv

\* dwm_select: the window is drawn again, the others keep their order.
LEMMA PaneRaiseInv ==
    ASSUME CompositorInv, NEW w \in Pane, PaneRaise(w)
    PROVE  CompositorInv'
<1>0. /\ w \in Range(stack) /\ Operation /\ pass.pc = "idle"
      /\ stack' = Append(ListRemove(stack, w), w)
      /\ pane' = [pane EXCEPT ![w].moved = TRUE]
      /\ UNCHANGED <<wallpaper, clientRect, pointer, back, front, pass, ahead, torn>>
  BY DEF PaneRaise
<1>1. DrawTypes /\ PlacesKept /\ TodoKept /\ ClientKept /\ SwapKept /\ CursorKept /\ PictureKept
  BY DEF CompositorInv
<1>2. pane \in [Pane -> PaneRec] /\ pane[w] \in PaneRec /\ stack \in Seq(Pane) /\ IsInjective(stack)
  BY <1>1 DEF DrawTypes
<1>3. pane' = [pane EXCEPT ![w] = [pane[w] EXCEPT !.moved = TRUE]]
  BY <1>0, <1>2
<1>4. /\ pane'[w] \in PaneRec /\ pane'[w].rect = pane[w].rect /\ pane'[w].moved
      /\ pane'[w].prevRect = pane[w].prevRect
  <2>1. pane'[w] = [pane[w] EXCEPT !.moved = TRUE]
    BY <1>2, <1>3
  <2> QED
    BY <1>2, <2>1 DEF PaneRec
<1>5. /\ pane' \in [Pane -> PaneRec] /\ \A v \in Pane : v # w => pane'[v] = pane[v]
      /\ \A v \in Pane : pane'[v].rect = pane[v].rect /\ pane'[v].prevRect = pane[v].prevRect
  BY <1>2, <1>3, <1>4
<1> DEFINE list == ListRemove(stack, w)
<1>6. /\ list \in Seq(Pane) /\ Range(list) = Range(stack) \ {w} /\ IsInjective(list)
      /\ \A v, u : v # w /\ u # w /\ Below(stack, v, u) => Below(list, v, u)
  BY <1>0, <1>2, RemoveFacts
<1>7. /\ stack' \in Seq(Pane) /\ Range(stack') = Range(list) \cup {w} /\ IsInjective(stack')
      /\ \A v, u : Below(list, v, u) => Below(stack', v, u)
  <2> HIDE DEF list
  <2>1. w \notin Range(list)
    BY <1>6
  <2>2. stack' = Append(list, w)
    BY <1>0 DEF list
  <2> QED
    BY <1>6, <2>1, <2>2, AppendFacts
<1> HIDE DEF list
<1>8. Range(stack) \subseteq Pane /\ Range(stack') = Range(stack)
  BY <1>0, <1>1, <1>6, <1>7, TypesGood
<1>9. \A v \in Pane, p \in Pixel : Covers(v, p)' <=> Covers(v, p)
  BY <1>0, <1>5 DEF Covers, FitRect
<1>10. \A v \in Pane, p \in Pixel : Stays(v, p)' <=> v # w /\ Stays(v, p)
  BY <1>4, <1>5, <1>8, <1>9 DEF Stays
<1>11. DrawTypes'
  <2>1. \A v \in Pane : pane'[v].rect \in PaneRect[v] \cup {Empty}
    BY <1>1, <1>5 DEF DrawTypes
  <2>2. pane' \in [Pane -> PaneRec] /\ ops' \in 0 .. OpMax
    BY <1>0, <1>1, <1>5, OperationType
  <2> QED
    BY <1>0, <1>1, <1>7, <2>1, <2>2 DEF DrawTypes
<1>12. PlacesKept'
  BY <1>1, <1>4, <1>5, <1>8, <1>9 DEF PlacesKept
<1>13. TodoKept' /\ SwapKept' /\ CursorKept'
  BY <1>0, <1>1 DEF TodoKept, SwapKept, SwapPixels, CursorKept
<1>14. ClientKept'
  BY <1>0, <1>1, <1>5, <1>8 DEF ClientKept
<1>15. PictureKept'
  <2>1. CASE Excused'
    BY <2>1 DEF PictureKept
  <2>2. CASE ~Excused'
    <3> SUFFICES ASSUME NEW p \in Pixel, p # pointer PROVE Fine(p)'
      BY <1>0 DEF PictureKept
    <3>1. Fine(p)
      BY <1>0, <1>1, <2>2 DEF PictureKept, Excused
    <3>2. \A v \in Pane : v # w => (Waits(v, p)' <=> Waits(v, p))
      BY <1>5 DEF Waits
    <3>3. Stays(w, p) => Left(p)'
      BY <1>0, <1>1, <1>4, <1>8, LeftByMoved
    <3>4. \A v \in Pane : Stays(v, p) =>
                \/ Left(p)'
                \/ /\ Stays(v, p)'
                   /\ pane'[v].colour = pane[v].colour \/ Waits(v, p)'
                   /\ Waits(v, p) => Waits(v, p)'
      BY <1>5, <1>10, <3>2, <3>3
    <3>5. Left(p) => Left(p)'
      BY <1>4, <1>5, <1>8 DEF Left
    <3>6. Early(p) => Early(p)'
      BY <1>0, <1>4, <1>5, <1>8, <1>9 DEF Early
    <3>7. back'.pixels[p] = back.pixels[p] /\ wallpaper'.colour = wallpaper.colour /\ clientRect' = clientRect
      BY <1>0
    <3>8. \A u, v \in Pane : Stays(u, p)' /\ Stays(v, p)' /\ Below(stack, u, v) => Below(stack', u, v)
      BY <1>6, <1>7, <1>10
    <3> QED
      BY <1>1, <1>10, <3>1, <3>4, <3>5, <3>6, <3>7, <3>8, FineKept
  <2> QED
    BY <2>1, <2>2
<1> QED
  BY <1>11, <1>12, <1>13, <1>14, <1>15 DEF CompositorInv


\* The panels of a stack decide what the client rectangle is.
LEMMA ClientRectKept ==
    ASSUME NEW list \in Seq(Pane), NEW ps \in [Pane -> PaneRec]
    PROVE  /\ ClientRect(list, ps) \in RectInt
           /\ \A p \in Pixel : ContainsPoint(ClientRect(list, ps), p) <=>
                \A v \in Range(list) : v \in Panel => Keeps(ps[v].rect, p)
<1>1. \A w \in Pane : ps[w] \in PaneRec
  OBVIOUS
<1>2. \A w \in Pane : ps[w].rect \in RectInt
  BY <1>1, PaneFields
<1>3. /\ ClientRect(list, ps) \in RectInt
      /\ \A p \in Pixel : ContainsPoint(ClientRect(list, ps), p) <=>
            \A i \in 1 .. Len(list) : list[i] \in Panel => Keeps(ps[list[i]].rect, p)
  BY <1>2, ClientRectPoints
<1>4. DOMAIN list = 1 .. Len(list)
  OBVIOUS
<1>5. \A p : (\A i \in 1 .. Len(list) : list[i] \in Panel => Keeps(ps[list[i]].rect, p))
                <=> \A v \in Range(list) : v \in Panel => Keeps(ps[v].rect, p)
  BY <1>4 DEF Range
<1> QED
  BY <1>3, <1>5

\* IOCTL_DWM_CREATE: a new window waits to be moved, a new panel makes all others wait.
LEMMA PaneCreateInv ==
    ASSUME CompositorInv, NEW w \in Pane, NEW rect \in PaneRect[w], PaneCreate(w, rect)
    PROVE  CompositorInv'
<1> DEFINE new == [pane EXCEPT ![w] = NewPane(rect)]
           list == Append(stack, w)
<1>0. /\ Operation /\ pass.pc = "idle" /\ w \notin Range(stack)
      /\ stack' = list
      /\ clientRect' = IF w \in Panel THEN ClientRect(list, new) ELSE clientRect
      /\ pane' = IF w \in Panel THEN Moved(new, list) ELSE new
      /\ UNCHANGED <<wallpaper, pointer, back, front, pass, ahead, torn>>
  BY DEF PaneCreate
<1>1. DrawTypes /\ PlacesKept /\ TodoKept /\ ClientKept /\ SwapKept /\ CursorKept /\ PictureKept
  BY DEF CompositorInv
<1>2. pane \in [Pane -> PaneRec] /\ stack \in Seq(Pane) /\ IsInjective(stack) /\ rect \in RectInt
  BY <1>1, RectOfPane DEF DrawTypes
<1>3. NewPane(rect) \in PaneRec /\ NewPane(rect).rect = rect /\ NewPane(rect).moved
  BY <1>2, NewPaneType
<1>4. /\ new \in [Pane -> PaneRec] /\ new[w] = NewPane(rect)
      /\ \A v \in Pane : v # w => new[v] = pane[v]
  BY <1>2, <1>3
<1>5. /\ list \in Seq(Pane) /\ Range(list) = Range(stack) \cup {w} /\ IsInjective(list)
      /\ \A v, u : Below(stack, v, u) => Below(list, v, u)
  BY <1>0, <1>2, AppendFacts
<1> HIDE DEF new, list
<1>6. Range(stack) \subseteq Pane
  BY <1>1, TypesGood
<1>7. /\ ClientRect(list, new) \in RectInt
      /\ \A p \in Pixel : ContainsPoint(ClientRect(list, new), p) <=>
            \A v \in Range(list) : v \in Panel => Keeps(new[v].rect, p)
  BY <1>4, <1>5, ClientRectKept
<1>8. /\ Moved(new, list) \in [Pane -> PaneRec]
      /\ \A v \in Pane :
            /\ Moved(new, list)[v].rect = new[v].rect
            /\ Moved(new, list)[v].prevRect = new[v].prevRect
            /\ v \in Range(list) => Moved(new, list)[v].moved
            /\ v \notin Range(list) => Moved(new, list)[v] = new[v]
  BY <1>4, MovedFacts
<1>9. /\ pane' \in [Pane -> PaneRec]
      /\ \A v \in Pane : pane'[v].rect = new[v].rect /\ pane'[v].prevRect = new[v].prevRect
      /\ pane'[w].moved
      /\ w \in Panel => \A v \in Range(list) : pane'[v].moved
      /\ w \notin Panel => pane' = new
  BY <1>0, <1>3, <1>4, <1>5, <1>6, <1>8
<1>10. /\ clientRect' \in RectInt
       /\ \A p \in Pixel : ContainsPoint(clientRect', p) => ContainsPoint(clientRect, p)
       /\ \A p \in Pixel : ContainsPoint(clientRect', p) <=>
            \A v \in Range(list) : v \in Panel => Keeps(new[v].rect, p)
  <2>1. \A p \in Pixel : ContainsPoint(clientRect, p) <=>
            \A v \in Range(stack) : v \in Panel => Keeps(pane[v].rect, p)
    BY <1>1 DEF ClientKept
  <2>2. \A v \in Range(stack) : v \in Range(list) /\ new[v] = pane[v]
    BY <1>0, <1>4, <1>5, <1>6
  <2>3. CASE w \in Panel
    BY <1>0, <1>7, <2>1, <2>2, <2>3
  <2>4. CASE w \notin Panel
    <3>1. clientRect' = clientRect /\ clientRect \in RectInt
      BY <1>0, <1>1, <2>4 DEF DrawTypes
    <3> QED
      BY <1>5, <2>1, <2>2, <2>4, <3>1
  <2> QED
    BY <2>3, <2>4
<1>11. Range(stack)' = Range(stack) \cup {w}
  BY <1>0, <1>5
<1>12. DrawTypes'
  <2>1. \A v \in Pane : pane'[v].rect \in PaneRect[v] \cup {Empty}
    BY <1>1, <1>3, <1>4, <1>9 DEF DrawTypes
  <2>2. ops' \in 0 .. OpMax
    BY <1>0, <1>1, OperationType
  <2> QED
    BY <1>0, <1>1, <1>5, <1>9, <1>10, <2>1, <2>2 DEF DrawTypes
<1>13. ClientKept'
  BY <1>0, <1>5, <1>6, <1>9, <1>10 DEF ClientKept
<1>14. TodoKept' /\ SwapKept' /\ CursorKept'
  BY <1>0, <1>1 DEF TodoKept, SwapKept, SwapPixels, CursorKept
<1>15. CASE w \in Panel
  <2>1. \A v \in Range(stack)' : pane'[v].moved
    BY <1>0, <1>9, <1>15
  <2>2. PlacesKept'
    BY <2>1 DEF PlacesKept
  <2>3. PictureKept'
    <3>1. CASE Excused'
      BY <3>1 DEF PictureKept
    <3>2. CASE ~Excused'
      <4> SUFFICES ASSUME NEW p \in Pixel, p # pointer PROVE Fine(p)'
        BY <1>0 DEF PictureKept
      <4>1. Fine(p)
        BY <1>0, <1>1, <3>2 DEF PictureKept, Excused
      <4>2. \A v \in Pane : ~Stays(v, p)'
        BY <2>1 DEF Stays
      <4>3. \A v \in Range(stack) : v \in Range(stack)' /\ pane'[v].moved
                /\ pane'[v].rect = pane[v].rect /\ pane'[v].prevRect = pane[v].prevRect
        BY <1>0, <1>4, <1>6, <1>9, <1>11, <2>1
      <4>4. \A v \in Pane : Stays(v, p) => Left(p)'
        BY <1>1, <4>3, LeftByMoved DEF Stays
      <4>5. Left(p) => Left(p)'
        BY <4>3 DEF Left
      <4>6. Early(p) => Early(p)' \/ Right(p)'
        <5> SUFFICES ASSUME Early(p), ~Early(p)' PROVE Right(p)'
          OBVIOUS
        <5>1. PICK v \in Range(stack) : v \in ahead /\ pane[v].moved /\ Covers(v, p)
          BY DEF Early
        <5>2. v \in Range(stack)' /\ v \in ahead' /\ pane'[v].moved /\ ~Covers(v, p)'
          BY <1>0, <4>3, <5>1 DEF Early
        <5>3. ~ContainsPoint(clientRect', p)
          BY <4>3, <5>1, <5>2 DEF Covers, FitRect
        <5> QED
          BY <4>2, <5>3 DEF Right
      <4>7. back'.pixels[p] = back.pixels[p] /\ wallpaper'.colour = wallpaper.colour
        BY <1>0
      <4>8. ContainsPoint(clientRect', p) => ContainsPoint(clientRect, p)
        BY <1>10
      <4> QED
        BY <1>1, <4>1, <4>2, <4>4, <4>5, <4>6, <4>7, <4>8, FineKept
    <3> QED
      BY <3>1, <3>2
  <2> QED
    BY <1>12, <1>13, <1>14, <2>2, <2>3 DEF CompositorInv
<1>16. CASE w \notin Panel
  <2>1. \A v \in Range(stack) : pane'[v] = pane[v] /\ v \in Range(stack)'
    BY <1>0, <1>4, <1>6, <1>9, <1>11, <1>16
  <2>2. clientRect' = clientRect
    BY <1>0, <1>16
  <2>3. \A v \in Range(stack), p \in Pixel : Covers(v, p)' <=> Covers(v, p)
    BY <2>1, <2>2 DEF Covers, FitRect
  <2>4. PlacesKept'
    BY <1>1, <1>9, <1>11, <2>1, <2>3 DEF PlacesKept
  <2>5. PictureKept'
    <3>1. CASE Excused'
      BY <3>1 DEF PictureKept
    <3>2. CASE ~Excused'
      <4> SUFFICES ASSUME NEW p \in Pixel, p # pointer PROVE Fine(p)'
        BY <1>0 DEF PictureKept
      <4>1. Fine(p)
        BY <1>0, <1>1, <3>2 DEF PictureKept, Excused
      <4>2. \A v \in Pane : Stays(v, p)' <=> Stays(v, p)
        BY <1>9, <1>11, <2>1, <2>3 DEF Stays
      <4>3. \A v \in Range(stack) : Waits(v, p)' <=> Waits(v, p)
        BY <2>1 DEF Waits
      <4>4. \A v \in Pane : Stays(v, p) =>
                /\ Stays(v, p)'
                /\ pane'[v].colour = pane[v].colour \/ Waits(v, p)'
                /\ Waits(v, p) => Waits(v, p)'
        BY <2>1, <4>2, <4>3 DEF Stays
      <4>5. Left(p) => Left(p)'
        BY <2>1 DEF Left
      <4>6. Early(p) => Early(p)'
        BY <1>0, <2>1, <2>3 DEF Early
      <4>7. back'.pixels[p] = back.pixels[p] /\ wallpaper'.colour = wallpaper.colour
        BY <1>0
      <4>8. \A u, v : Below(stack, u, v) => Below(stack', u, v)
        BY <1>0, <1>5
      <4> QED
        BY <1>1, <2>2, <4>1, <4>2, <4>4, <4>5, <4>6, <4>7, <4>8, FineKept
    <3> QED
      BY <3>1, <3>2
  <2> QED
    BY <1>12, <1>13, <1>14, <2>4, <2>5 DEF CompositorInv
<1> QED
  BY <1>15, <1>16

\* dwm_window_cleanup asks for everything to be drawn.
LEMMA PaneCloseInv ==
    ASSUME CompositorInv, NEW w \in Pane, PaneClose(w)
    PROVE  CompositorInv'
<1> DEFINE list == ListRemove(stack, w)
           rest == [pane EXCEPT ![w] = NewPane(Empty)]
<1>0. /\ Operation /\ pass.pc = "idle" /\ w \in Range(stack)
      /\ stack' = list
      /\ clientRect' = IF w \in Panel THEN ClientRect(list, pane) ELSE clientRect
      /\ pane' = IF w \in Panel THEN Moved(rest, list) ELSE rest
      /\ wallpaper' = [wallpaper EXCEPT !.moved = TRUE]
      /\ ahead' = ahead \ {w}
      /\ UNCHANGED <<pointer, back, front, pass, torn>>
  BY DEF PaneClose
<1>1. DrawTypes /\ PlacesKept /\ TodoKept /\ ClientKept /\ SwapKept /\ CursorKept /\ PictureKept
  BY DEF CompositorInv
<1>2. pane \in [Pane -> PaneRec] /\ stack \in Seq(Pane) /\ IsInjective(stack)
  BY <1>1 DEF DrawTypes
<1>3. NewPane(Empty) \in PaneRec /\ NewPane(Empty).rect = Empty
  BY NewPaneType, EmptyType
<1>4. /\ rest \in [Pane -> PaneRec] /\ rest[w] = NewPane(Empty)
      /\ \A v \in Pane : v # w => rest[v] = pane[v]
  BY <1>2, <1>3
<1>5. list \in Seq(Pane) /\ Range(list) = Range(stack) \ {w} /\ IsInjective(list)
  BY <1>0, <1>2, RemoveFacts
<1> HIDE DEF rest, list
<1>6. Range(stack) \subseteq Pane
  BY <1>1, TypesGood
<1>7. /\ ClientRect(list, pane) \in RectInt
      /\ \A p \in Pixel : ContainsPoint(ClientRect(list, pane), p) <=>
            \A v \in Range(list) : v \in Panel => Keeps(pane[v].rect, p)
  BY <1>2, <1>5, ClientRectKept
<1>8. /\ Moved(rest, list) \in [Pane -> PaneRec]
      /\ \A v \in Pane :
            /\ Moved(rest, list)[v].rect = rest[v].rect
            /\ v \in Range(list) => Moved(rest, list)[v].moved
  BY <1>4, MovedFacts
<1>9. /\ pane' \in [Pane -> PaneRec]
      /\ \A v \in Pane : pane'[v].rect = rest[v].rect
      /\ w \in Panel => \A v \in Range(list) : pane'[v].moved
      /\ w \notin Panel => pane' = rest
  BY <1>0, <1>4, <1>5, <1>6, <1>8
<1>10. Range(stack)' = Range(list) /\ \A v \in Range(list) : v \in Range(stack) /\ v \in Pane /\ rest[v] = pane[v]
  BY <1>0, <1>4, <1>5, <1>6
<1>11. ClientKept' /\ clientRect' \in RectInt
  <2>1. \A v \in Range(list) : pane'[v].rect = pane[v].rect
    BY <1>9, <1>10
  <2>2. CASE w \in Panel
    BY <1>0, <1>7, <1>10, <2>1, <2>2 DEF ClientKept
  <2>3. CASE w \notin Panel
    <3>1. clientRect' = clientRect /\ clientRect \in RectInt
      BY <1>0, <1>1, <2>3 DEF DrawTypes
    <3>2. \A p \in Pixel : (\A v \in Range(stack) : v \in Panel => Keeps(pane[v].rect, p))
                            <=> \A v \in Range(list) : v \in Panel => Keeps(pane'[v].rect, p)
      BY <1>5, <2>1, <2>3
    <3> QED
      BY <1>1, <1>10, <3>1, <3>2 DEF ClientKept
  <2> QED
    BY <2>2, <2>3
<1>12. /\ wallpaper' \in [moved: BOOLEAN, invalid: BOOLEAN, colour: Colour]
       /\ wallpaper'.moved
  <2>1. wallpaper \in [moved: BOOLEAN, invalid: BOOLEAN, colour: Colour]
    BY <1>1 DEF DrawTypes
  <2> QED
    BY <1>0, <2>1
<1>13. DrawTypes'
  <2>1. \A v \in Pane : pane'[v].rect \in PaneRect[v] \cup {Empty}
    BY <1>1, <1>3, <1>4, <1>9 DEF DrawTypes
  <2>2. ops' \in 0 .. OpMax /\ ahead' \in SUBSET Pane
    BY <1>0, <1>1, OperationType DEF DrawTypes
  <2> QED
    BY <1>0, <1>1, <1>5, <1>9, <1>11, <1>12, <2>1, <2>2 DEF DrawTypes
<1>14. PlacesKept'
  <2>1. CASE w \in Panel
    BY <1>9, <1>10, <2>1 DEF PlacesKept
  <2>2. CASE w \notin Panel
    <3>1. \A v \in Range(list) : pane'[v] = pane[v]
      BY <1>9, <1>10, <2>2
    <3>2. clientRect' = clientRect
      BY <1>0, <2>2
    <3>3. \A v \in Range(list), p \in Pixel : Covers(v, p)' <=> Covers(v, p)
      BY <3>1, <3>2 DEF Covers, FitRect
    <3> QED
      BY <1>1, <1>10, <3>1, <3>3 DEF PlacesKept
  <2> QED
    BY <2>1, <2>2
<1>15. TodoKept' /\ SwapKept' /\ CursorKept'
  BY <1>0, <1>1, <1>12 DEF TodoKept, SwapKept, SwapPixels, CursorKept
<1>16. PictureKept'
  BY <1>12 DEF PictureKept, Excused
<1> QED
  BY <1>11, <1>13, <1>14, <1>15, <1>16 DEF CompositorInv


\* A pixel that shows the same, of windows that stay the same, is as fine as it was.
LEMMA FineSame ==
    ASSUME NEW p \in Pixel, Fine(p), stack' = stack, pane' = pane, clientRect' = clientRect,
           wallpaper'.colour = wallpaper.colour, back'.pixels[p] = back.pixels[p],
           ahead \subseteq ahead'
    PROVE  Fine(p)'
<1>1. \A v : (Covers(v, p)' <=> Covers(v, p)) /\ (Stays(v, p)' <=> Stays(v, p)) /\ (Waits(v, p)' <=> Waits(v, p))
  BY DEF Covers, FitRect, Stays, Waits
<1>2. \A v : Top(v, p)' <=> Top(v, p)
  BY <1>1 DEF Top
<1>3. Right(p) => Right(p)'
  BY <1>1, <1>2 DEF Right
<1>4. Pending(p) => Pending(p)'
  BY <1>1, <1>2 DEF Pending
<1>5. Left(p) => Left(p)'
  BY DEF Left
<1>6. Early(p) => Early(p)'
  BY <1>1 DEF Early
<1> QED
  BY <1>3, <1>4, <1>5, <1>6 DEF Fine

\* The rectangle of the screen holds every pixel.
LEMMA ScreenType ==
    ScreenRect \in RectInt /\ \A p \in Pixel : ContainsPoint(ScreenRect, p)
<1>1. ScreenRect \in RectInt
  BY CompositorAssumption DEF ScreenRect, RectInit, RectInt
<1> QED
  BY <1>1, PixelType

\* dwm_draw_wall: the wall, with every window to be drawn on it, or nothing
LEMMA PassBeginInv ==
    ASSUME CompositorInv, PassBegin
    PROVE  CompositorInv'
<1> DEFINE dirty == wallpaper.moved \/ wallpaper.invalid
           rect == Fit(ScreenRect, clientRect)
<1>0. /\ pass.pc = "idle"
      /\ wallpaper' = [wallpaper EXCEPT !.moved = FALSE, !.invalid = FALSE]
      /\ back' = IF dirty THEN Paint(back, rect, Wall, wallpaper.colour) ELSE back
      /\ pane' = IF dirty THEN Moved(pane, stack) ELSE pane
      /\ pass' = [pc |-> "windows", todo |-> stack]
      /\ torn' = (torn /\ ~dirty)
      /\ UNCHANGED <<stack, clientRect, pointer, front, ahead, ops>>
  BY DEF PassBegin
<1>1. DrawTypes /\ PlacesKept /\ TodoKept /\ ClientKept /\ SwapKept /\ CursorKept /\ PictureKept
  BY DEF CompositorInv
<1>2. /\ pane \in [Pane -> PaneRec] /\ stack \in Seq(Pane) /\ clientRect \in RectInt /\ back \in BufferInt
      /\ wallpaper \in [moved: BOOLEAN, invalid: BOOLEAN, colour: Colour] /\ torn \in BOOLEAN
  BY <1>1 DEF DrawTypes
<1>3. /\ wallpaper' \in [moved: BOOLEAN, invalid: BOOLEAN, colour: Colour]
      /\ wallpaper'.colour = wallpaper.colour /\ wallpaper.colour \in Colour
  BY <1>0, <1>2
<1>4. rect \in RectInt /\ \A p \in Pixel : ContainsPoint(rect, p) <=> ContainsPoint(clientRect, p)
  BY <1>2, ScreenType, FitPoints
<1>5. /\ Paint(back, rect, Wall, wallpaper.colour) \in BufferInt
      /\ \A q \in Pixel : Paint(back, rect, Wall, wallpaper.colour).pixels[q]
            = IF ContainsPoint(rect, q) THEN <<Wall, wallpaper.colour>> ELSE back.pixels[q]
      /\ Extends(back, Paint(back, rect, Wall, wallpaper.colour))
  <2>1. Wall \in Owner
    BY DEF Owner
  <2> HIDE DEF rect
  <2> QED
    BY <1>2, <1>3, <1>4, <2>1, PaintFacts
<1>6. back' \in BufferInt /\ Extends(back, back')
  <2>1. Extends(back, back)
    BY DEF Extends
  <2> QED
    BY <1>0, <1>2, <1>5, <2>1
<1>7. /\ Moved(pane, stack) \in [Pane -> PaneRec]
      /\ \A v \in Pane :
            /\ Moved(pane, stack)[v].rect = pane[v].rect
            /\ v \in Range(stack) => Moved(pane, stack)[v].moved
  BY <1>2, MovedFacts
<1> HIDE DEF rect
<1>8. /\ pane' \in [Pane -> PaneRec]
      /\ \A v \in Pane : pane'[v].rect = pane[v].rect
      /\ dirty => \A v \in Pane : v \in Range(stack) => pane'[v].moved
      /\ ~dirty => pane' = pane
  BY <1>0, <1>2, <1>7
<1>9. Range(stack) \subseteq Pane /\ Range(stack)' = Range(stack)
  BY <1>0, <1>1, TypesGood
<1>10. DrawTypes'
  <2>1. \A v \in Pane : pane'[v].rect \in PaneRect[v] \cup {Empty}
    BY <1>1, <1>8 DEF DrawTypes
  <2>2. torn' \in BOOLEAN
    BY <1>0, <1>2
  <2>3. pass' \in [pc: {"idle", "windows"}, todo: Seq(Pane)]
    BY <1>0, <1>2
  <2> QED
    BY <1>0, <1>1, <1>3, <1>6, <1>8, <2>1, <2>2, <2>3 DEF DrawTypes
<1>11. ClientKept'
  BY <1>0, <1>1, <1>8, <1>9 DEF ClientKept
<1>12. TodoKept'
  <2>1. Len(stack) \in Nat /\ 0 \in Nat /\ 0 + Len(stack) = Len(stack)
        /\ \A i \in 1 .. Len(stack) : 0 + i = i
    BY <1>2
  <2>2. pass'.todo = stack /\ stack' = stack
    BY <1>0
  <2> QED
    BY <2>1, <2>2 DEF TodoKept
<1>13. CursorKept'
  BY <1>0 DEF CursorKept
<1>14. SwapKept'
  <2>1. \A p \in Pixel : back'.pixels[p] # front[p] => ContainsPoint(back'.invalidRect, p)
    BY <1>1, <1>6, SwapExtends DEF SwapKept
  <2> QED
    BY <1>0, <2>1 DEF SwapKept, SwapPixels
<1>15. CASE dirty
  <2>1. PlacesKept'
    BY <1>8, <1>9, <1>15 DEF PlacesKept
  <2>2. ASSUME NEW p \in Pixel PROVE Fine(p)'
    <3>1. \A v \in Pane : ~Stays(v, p)'
      BY <1>8, <1>9, <1>15 DEF Stays
    <3>2. ContainsPoint(clientRect', p) => back'.pixels[p] = <<Wall, wallpaper'.colour>>
      BY <1>0, <1>3, <1>4, <1>5, <1>15
    <3> QED
      BY <3>1, <3>2 DEF Right, Fine
  <2>3. PictureKept'
    BY <2>2 DEF PictureKept
  <2> QED
    BY <1>10, <1>11, <1>12, <1>13, <1>14, <2>1, <2>3 DEF CompositorInv
<1>16. CASE ~dirty
  <2>1. pane' = pane /\ back' = back
    BY <1>0, <1>8, <1>16
  <2>2. \A v, p : Covers(v, p)' <=> Covers(v, p)
    BY <1>0, <2>1 DEF Covers, FitRect
  <2>3. PlacesKept'
    BY <1>1, <1>9, <2>1, <2>2 DEF PlacesKept
  <2>4. PictureKept'
    <3>1. CASE Excused'
      BY <3>1 DEF PictureKept
    <3>2. CASE ~Excused'
      <4> SUFFICES ASSUME NEW p \in Pixel, p # pointer PROVE Fine(p)'
        BY <1>0 DEF PictureKept
      <4>1. Fine(p)
        BY <1>0, <1>1, <1>16, <3>2 DEF PictureKept, Excused
      <4> QED
        BY <1>0, <1>3, <2>1, <4>1, FineSame
    <3> QED
      BY <3>1, <3>2
  <2> QED
    BY <1>10, <1>11, <1>12, <1>13, <1>14, <2>3, <2>4 DEF CompositorInv
<1> QED
  BY <1>15, <1>16

\* What the end of a pass and the handling of the mouse have in common: the
\* screen becomes the backbuffer, with the cursor where it is.
LEMMA CursorDrawn ==
    ASSUME DrawTypes, SwapPixels, NEW b \in BufferInt, Extends(back, b), NEW c \in PointerPixel,
           LET n == Paint(b, CursorRect(c), Cursor, 0)
           IN  front' = Swapped(n) /\ back' = [n EXCEPT !.invalidRect = Empty],
           pointer' = c
    PROVE  /\ back' \in BufferInt /\ front' \in [Pixel -> Owner \X Colour]
           /\ SwapKept' /\ CursorKept'
           /\ \A p \in Pixel : p # c => back'.pixels[p] = b.pixels[p]
<1> DEFINE n == Paint(b, CursorRect(c), Cursor, 0)
<1>0. front' = Swapped(n) /\ back' = [n EXCEPT !.invalidRect = Empty]
  OBVIOUS
<1>1. c \in Pixel
  BY CompositorAssumption
<1>2. CursorRect(c) \in RectInt /\ \A p \in Pixel : ContainsPoint(CursorRect(c), p) <=> p = c
  BY <1>1, CursorPoints
<1>3. Cursor \in Owner /\ 0 \in Colour
  BY DEF Owner, Colour
<1>4. /\ n \in BufferInt /\ Extends(b, n)
      /\ \A q \in Pixel : n.pixels[q] = IF ContainsPoint(CursorRect(c), q) THEN <<Cursor, 0>> ELSE b.pixels[q]
  BY <1>2, <1>3, PaintFacts
<1> HIDE DEF n
<1>5. Extends(back, n)
  BY <1>4, ExtendsTwice
<1>6. front' = n.pixels
  BY <1>0, <1>4, <1>5, SwappedAll
<1>7. back' \in BufferInt /\ back'.pixels = n.pixels /\ back'.invalidRect = Empty
  BY <1>0, <1>4, EmptyType DEF BufferInt
<1>8. n.pixels \in [Pixel -> Owner \X Colour]
  BY <1>4 DEF BufferInt
<1>9. SwapKept'
  BY <1>6, <1>7 DEF SwapKept, SwapPixels
<1>10. CursorKept'
  BY <1>1, <1>2, <1>4, <1>7 DEF CursorKept
<1>11. \A p \in Pixel : p # c => back'.pixels[p] = b.pixels[p]
  BY <1>2, <1>4, <1>7
<1> QED
  BY <1>6, <1>7, <1>8, <1>9, <1>10, <1>11

\* The end of a pass: the cursor, and dwm_swap
LEMMA PassEndInv ==
    ASSUME CompositorInv, PassEnd
    PROVE  CompositorInv'
<1>0. /\ pass.pc = "windows"
      /\ pass' = [pass EXCEPT !.pc = "idle"]
      /\ LET n == Paint(back, CursorRect(pointer), Cursor, 0)
         IN  front' = Swapped(n) /\ back' = [n EXCEPT !.invalidRect = Empty]
      /\ ops' = IF ~Dirty THEN 0 ELSE ops
      /\ UNCHANGED <<stack, pane, wallpaper, clientRect, pointer, ahead, torn>>
  BY DEF PassEnd
<1>1. DrawTypes /\ PlacesKept /\ TodoKept /\ ClientKept /\ SwapKept /\ CursorKept /\ PictureKept
  BY DEF CompositorInv
<1>2. back \in BufferInt /\ pointer \in PointerPixel /\ pass \in [pc: {"idle", "windows"}, todo: Seq(Pane)]
  BY <1>1 DEF DrawTypes
<1>3. Extends(back, back) /\ SwapPixels
  BY <1>1 DEF Extends, SwapKept
<1>4. /\ back' \in BufferInt /\ front' \in [Pixel -> Owner \X Colour]
      /\ SwapKept' /\ CursorKept'
      /\ \A p \in Pixel : p # pointer => back'.pixels[p] = back.pixels[p]
  BY <1>0, <1>1, <1>2, <1>3, CursorDrawn
<1>5. pass' \in [pc: {"idle", "windows"}, todo: Seq(Pane)] /\ pass'.pc = "idle"
  BY <1>0, <1>2
<1>6. ops' \in 0 .. OpMax
  BY <1>0, <1>1, CompositorAssumption DEF DrawTypes
<1>7. DrawTypes'
  BY <1>0, <1>1, <1>4, <1>5, <1>6 DEF DrawTypes
<1>8. \A v, p : Covers(v, p)' <=> Covers(v, p)
  BY <1>0 DEF Covers, FitRect
<1>9. PlacesKept' /\ ClientKept'
  BY <1>0, <1>1, <1>8 DEF PlacesKept, ClientKept
<1>10. TodoKept'
  BY <1>5 DEF TodoKept
<1>11. PictureKept'
  <2>1. CASE Excused
    BY <1>0, <2>1 DEF Excused, PictureKept
  <2>2. CASE ~Excused
    <3> SUFFICES ASSUME NEW p \in Pixel, p # pointer PROVE Fine(p)'
      BY <1>0 DEF PictureKept
    <3>1. Fine(p)
      BY <1>1, <2>2 DEF PictureKept
    <3> QED
      BY <1>0, <1>4, <3>1, FineSame
  <2> QED
    BY <2>1, <2>2
<1> QED
  BY <1>4, <1>7, <1>9, <1>10, <1>11 DEF CompositorInv

\* A pixel dwm_redraw_others has drawn shows the highest window that is to stay,
\* or one that was moved and not drawn yet.
LEMMA FineRedrawn ==
    ASSUME DrawTypes, NEW p \in Pixel, NEW w, NEW rect \in RectInt, ContainsPoint(rect, p),
           NEW c, Redrawn(c, w, p), back'.pixels[p] = c,
           stack' = stack, clientRect' = clientRect, wallpaper'.colour = wallpaper.colour,
           \A v \in Range(stack) \ {w} : /\ pane'[v].moved = pane[v].moved /\ pane'[v].rect = pane[v].rect
                                         /\ pane'[v].colour = pane[v].colour,
           ~Stays(w, p)',
           ShownAhead(w, rect) \subseteq ahead'
    PROVE  Fine(p)'
<1>1. Range(stack) \subseteq Pane /\ Range(stack') = Range(stack) /\ PanesOK
  BY TypesGood
<1>2. \A v \in Range(stack) \ {w} : Covers(v, p)' <=> Covers(v, p)
  BY DEF Covers, FitRect
<1>3. \A v \in Pane : Stays(v, p)' => v \in Range(stack) \ {w} /\ Covers(v, p)
  BY <1>1, <1>2 DEF Stays
<1>4. CASE (\A v \in Range(stack) \ {w} : ~Covers(v, p)) /\ c = <<Wall, wallpaper.colour>>
  <2>1. \A v \in Pane : ~Stays(v, p)'
    BY <1>3, <1>4
  <2> QED
    BY <1>4, <2>1 DEF Right, Fine
<1>5. CASE \E v \in Range(stack) \ {w} :
            /\ Covers(v, p) /\ c = <<v, pane[v].colour>>
            /\ \A u \in Range(stack) \ {w} : Covers(u, p) => Below(stack, u, v)
  <2>1. PICK v \in Range(stack) \ {w} :
            /\ Covers(v, p) /\ c = <<v, pane[v].colour>>
            /\ \A u \in Range(stack) \ {w} : Covers(u, p) => Below(stack, u, v)
    BY <1>5
  <2>2. CASE pane[v].moved
    <3>1. pane[v].rect \in RectInt /\ ContainsPoint(pane[v].rect, p)
      BY <1>1, <2>1 DEF PanesOK, Covers
    <3>2. Overlap(rect, pane[v].rect)
      BY <3>1, OverlapPoints
    <3>3. v \in ahead'
      BY <2>1, <2>2, <3>2 DEF ShownAhead
    <3>4. Early(p)'
      BY <1>1, <1>2, <2>1, <2>2, <3>3 DEF Early
    <3> QED
      BY <3>4 DEF Fine
  <2>3. CASE ~pane[v].moved
    <3>1. Stays(v, p)'
      BY <1>1, <1>2, <2>1, <2>3 DEF Stays
    <3>2. Top(v, p)'
      BY <1>3, <2>1, <3>1 DEF Top
    <3>3. back'.pixels[p] = <<v, pane'[v].colour>>
      BY <2>1
    <3> QED
      BY <1>1, <2>1, <3>2, <3>3 DEF Right, Fine
  <2> QED
    BY <2>2, <2>3
<1> QED
  BY <1>4, <1>5 DEF Redrawn

\* dwm_handle_mouse_message restores what the cursor covered.
LEMMA PointerMoveInv ==
    ASSUME CompositorInv, NEW c \in PointerPixel, PointerMove(c)
    PROVE  CompositorInv'
<1> DEFINE old == CursorRect(pointer)
           b == RedrawOthers(back, Cursor, old)
<1>0. /\ pass.pc = "idle" /\ pointer' = c
      /\ LET n == Paint(b, CursorRect(c), Cursor, 0)
         IN  front' = Swapped(n) /\ back' = [n EXCEPT !.invalidRect = Empty]
      /\ ahead' = ahead \cup ShownAhead(Cursor, old)
      /\ UNCHANGED <<stack, pane, wallpaper, clientRect, pass, torn, ops>>
  BY DEF PointerMove
<1>1. DrawTypes /\ PlacesKept /\ TodoKept /\ ClientKept /\ SwapKept /\ CursorKept /\ PictureKept
  BY DEF CompositorInv
<1>2. back \in BufferInt /\ pointer \in Pixel /\ PanesOK /\ SwapPixels /\ Range(stack) \subseteq Pane
  BY <1>1, CompositorAssumption, TypesGood DEF DrawTypes, SwapKept
<1>3. old \in RectInt /\ \A p \in Pixel : ContainsPoint(old, p) <=> p = pointer
  BY <1>2, CursorPoints
<1>4. /\ b \in BufferInt /\ Extends(back, b)
      /\ \A p \in Pixel : IF ContainsPoint(old, p) THEN Redrawn(b.pixels[p], Cursor, p)
                          ELSE b.pixels[p] = back.pixels[p]
  BY <1>2, <1>3, RedrawPoints
<1> HIDE DEF b, old
<1>5. /\ back' \in BufferInt /\ front' \in [Pixel -> Owner \X Colour]
      /\ SwapKept' /\ CursorKept'
      /\ \A p \in Pixel : p # c => back'.pixels[p] = b.pixels[p]
  BY <1>0, <1>1, <1>2, <1>4, CursorDrawn
<1>6. ahead' \in SUBSET Pane /\ ahead \subseteq ahead' /\ ShownAhead(Cursor, old) \subseteq ahead'
  BY <1>0, <1>1, <1>2 DEF DrawTypes, ShownAhead
<1>7. DrawTypes'
  BY <1>0, <1>1, <1>5, <1>6 DEF DrawTypes
<1>8. \A v, p : Covers(v, p)' <=> Covers(v, p)
  BY <1>0 DEF Covers, FitRect
<1>9. PlacesKept' /\ ClientKept' /\ TodoKept'
  BY <1>0, <1>1, <1>8 DEF PlacesKept, ClientKept, TodoKept
<1>10. PictureKept'
  <2>1. CASE Excused
    BY <1>0, <2>1 DEF Excused, PictureKept
  <2>2. CASE ~Excused
    <3> SUFFICES ASSUME NEW p \in Pixel, p # c PROVE Fine(p)'
      BY <1>0 DEF PictureKept
    <3>1. CASE p = pointer
      <4>1. ContainsPoint(old, p) /\ Redrawn(b.pixels[p], Cursor, p) /\ back'.pixels[p] = b.pixels[p]
        BY <1>3, <1>4, <1>5, <3>1
      <4>2. ~Stays(Cursor, p)'
        BY <1>0, <1>2, CompositorAssumption DEF Stays
      <4> QED
        BY <1>0, <1>1, <1>3, <1>6, <4>1, <4>2, FineRedrawn
    <3>2. CASE p # pointer
      <4>1. Fine(p)
        BY <1>1, <2>2, <3>2 DEF PictureKept
      <4>2. back'.pixels[p] = back.pixels[p]
        BY <1>3, <1>4, <1>5, <3>2
      <4> QED
        BY <1>0, <1>6, <4>1, <4>2, FineSame
    <3> QED
      BY <3>1, <3>2
  <2> QED
    BY <2>1, <2>2
<1> QED
  BY <1>5, <1>7, <1>9, <1>10 DEF CompositorInv


\* What remains of a pass is the window it draws and all that are above it.
LEMMA TodoHead ==
    ASSUME DrawTypes, TodoKept, pass.pc = "windows", pass.todo # <<>>
    PROVE  /\ Head(pass.todo) \in Range(stack)
           /\ Tail(pass.todo) \in Seq(Pane)
           /\ \A v : v \in Range(Tail(pass.todo)) <=>
                /\ v \in Range(stack) /\ v # Head(pass.todo)
                /\ Below(stack, Head(pass.todo), v)
           /\ \E k \in Nat : /\ k + Len(Tail(pass.todo)) = Len(stack)
                             /\ \A i \in 1 .. Len(Tail(pass.todo)) : Tail(pass.todo)[i] = stack[k + i]
<1> DEFINE s == stack
           t == pass.todo
           n == Len(s)
           m == Len(t)
           w == Head(t)
           u == Tail(t)
<1>1. s \in Seq(Pane) /\ t \in Seq(Pane) /\ t # <<>> /\ \A i, j \in DOMAIN s : s[i] = s[j] => i = j
  BY DEF DrawTypes, IsInjective
<1>2. PICK k \in Nat : k + m = n /\ \A i \in 1 .. m : t[i] = s[k + i]
  BY DEF TodoKept
<1>3. n \in Nat /\ DOMAIN s = 1 .. n /\ m \in Nat /\ m >= 1
  BY <1>1
<1>4. w = t[1] /\ u \in Seq(Pane) /\ Len(u) = m - 1 /\ \A i \in 1 .. m - 1 : u[i] = t[i + 1]
  BY <1>1
<1> HIDE DEF n, m, w, u, t, s
<1>5. k + 1 \in 1 .. n /\ w = s[k + 1]
  BY <1>2, <1>3, <1>4
<1>6. \A i \in 1 .. m - 1 : i + 1 \in 1 .. m /\ k + (i + 1) = (k + 1) + i /\ (k + 1) + i \in 1 .. n
  BY <1>2, <1>3
<1>7. \A i \in 1 .. m - 1 : u[i] = s[(k + 1) + i]
  BY <1>2, <1>4, <1>6
<1>8. (k + 1) + (m - 1) = n /\ k + 1 \in Nat
  BY <1>2, <1>3
<1>9. DOMAIN u = 1 .. m - 1
  BY <1>3, <1>4
<1>10. ASSUME NEW v \in Range(u) PROVE v \in Range(s) /\ v # w /\ Below(s, w, v)
  <2>1. PICK i \in 1 .. m - 1 : u[i] = v
    BY <1>9 DEF Range
  <2>2. v = s[(k + 1) + i] /\ (k + 1) + i \in 1 .. n /\ k + 1 <= (k + 1) + i /\ k + 1 # (k + 1) + i
    BY <1>2, <1>6, <1>7, <2>1
  <2>3. v # w
    BY <1>1, <1>3, <1>5, <2>2
  <2> QED
    BY <1>3, <1>5, <2>2, <2>3 DEF Range, Below
<1>11. ASSUME NEW v \in Range(s), v # w, Below(s, w, v) PROVE v \in Range(u)
  <2>1. PICK i \in 1 .. n, j \in 1 .. n : i <= j /\ s[i] = w /\ s[j] = v
    BY <1>3, <1>11 DEF Below
  <2>2. i = k + 1
    BY <1>1, <1>3, <1>5, <2>1
  <2>3. j # k + 1
    BY <1>5, <1>11, <2>1
  <2>4. j - (k + 1) \in 1 .. m - 1 /\ (k + 1) + (j - (k + 1)) = j
    BY <1>2, <1>3, <2>1, <2>2, <2>3
  <2>5. u[j - (k + 1)] = v
    BY <1>7, <2>1, <2>4
  <2> QED
    BY <1>9, <2>4, <2>5 DEF Range
<1>12. w \in Range(s)
  BY <1>3, <1>5 DEF Range
<1>13. \E kk \in Nat : kk + Len(u) = n /\ \A i \in 1 .. Len(u) : u[i] = s[kk + i]
  BY <1>4, <1>7, <1>8
<1>14. w = Head(pass.todo) /\ u = Tail(pass.todo) /\ s = stack /\ n = Len(stack)
  BY DEF w, u, s, n, t
<1> QED
  BY <1>4, <1>10, <1>11, <1>12, <1>13, <1>14

\* dwm_invalidate_above makes the windows above wait for what is drawn below them,
\* and takes nothing back.
LEMMA InvalidateFacts ==
    ASSUME NEW ps \in [Pane -> PaneRec], NEW above, NEW rect \in RectInt
    PROVE  LET n == InvalidateAbove(ps, above, rect) IN
           /\ n \in [Pane -> PaneRec]
           /\ \A o \in Pane :
                /\ n[o].rect = ps[o].rect /\ n[o].prevRect = ps[o].prevRect
                /\ n[o].moved = ps[o].moved /\ n[o].colour = ps[o].colour
                /\ o \notin above => n[o] = ps[o]
                /\ Wide(ps[o].rect) /\ Within(ps[o].invalidRect, ps[o].rect)
                        => Within(n[o].invalidRect, ps[o].rect)
                /\ ps[o].invalid => n[o].invalid
                /\ \A p \in Pixel :
                    /\ ContainsPoint(Shift(ps[o].invalidRect, ps[o].rect.left, ps[o].rect.top), p)
                        => ContainsPoint(Shift(n[o].invalidRect, ps[o].rect.left, ps[o].rect.top), p)
                    /\ o \in above /\ ContainsPoint(rect, p) /\ ContainsPoint(ps[o].rect, p)
                        => /\ n[o].invalid
                           /\ ContainsPoint(Shift(n[o].invalidRect, ps[o].rect.left, ps[o].rect.top), p)
<1> DEFINE n == InvalidateAbove(ps, above, rect)
           part(o) == Shift(Fit(rect, ps[o].rect), -ps[o].rect.left, -ps[o].rect.top)
           new(o) == Around(ps[o].invalidRect, part(o))
<1>1. ASSUME NEW o \in Pane
      PROVE  /\ ps[o] \in PaneRec /\ ps[o].rect \in RectInt /\ ps[o].invalidRect \in RectInt
             /\ ps[o].rect.left \in Int /\ ps[o].rect.top \in Int
             /\ -ps[o].rect.left \in Int /\ -ps[o].rect.top \in Int
  <2>1. ps[o] \in PaneRec
    OBVIOUS
  <2>2. ps[o].rect \in RectInt /\ ps[o].invalidRect \in RectInt
    BY <2>1, PaneFields
  <2> QED
    BY <2>1, <2>2, RectType
<1>2. ASSUME NEW o \in Pane PROVE part(o) \in RectInt /\ new(o) \in RectInt
  <2>1. Fit(rect, ps[o].rect) \in RectInt
    BY <1>1, FitPoints
  <2>2. part(o) \in RectInt
    BY <1>1, <2>1, ShiftType
  <2> QED
    BY <1>1, <2>2, AroundPoints
<1>3. \A o \in Pane : n[o] = IF o \in above /\ Overlap(rect, ps[o].rect)
                             THEN [ps[o] EXCEPT !.invalid = TRUE, !.invalidRect = new(o)]
                             ELSE ps[o]
  BY DEF InvalidateAbove
<1>4. n = [o \in Pane |-> n[o]]
  BY DEF InvalidateAbove
<1> HIDE DEF n, new
<1>5. ASSUME NEW o \in Pane
      PROVE  LET q == [ps[o] EXCEPT !.invalid = TRUE, !.invalidRect = new(o)]
             IN  /\ q \in PaneRec /\ q.rect = ps[o].rect /\ q.prevRect = ps[o].prevRect /\ q.moved = ps[o].moved
                 /\ q.colour = ps[o].colour /\ q.invalid /\ q.invalidRect = new(o)
  <2>1. ps[o] \in PaneRec /\ new(o) \in RectInt
    BY <1>1, <1>2
  <2> QED
    BY <2>1 DEF PaneRec
<1>6. ASSUME NEW o \in Pane
      PROVE  /\ n[o] \in PaneRec
             /\ n[o].rect = ps[o].rect /\ n[o].prevRect = ps[o].prevRect
             /\ n[o].moved = ps[o].moved /\ n[o].colour = ps[o].colour
             /\ o \notin above => n[o] = ps[o]
             /\ Wide(ps[o].rect) /\ Within(ps[o].invalidRect, ps[o].rect)
                        => Within(n[o].invalidRect, ps[o].rect)
             /\ ps[o].invalid => n[o].invalid
             /\ \A p \in Pixel :
                    /\ ContainsPoint(Shift(ps[o].invalidRect, ps[o].rect.left, ps[o].rect.top), p)
                        => ContainsPoint(Shift(n[o].invalidRect, ps[o].rect.left, ps[o].rect.top), p)
                    /\ o \in above /\ ContainsPoint(rect, p) /\ ContainsPoint(ps[o].rect, p)
                        => /\ n[o].invalid
                           /\ ContainsPoint(Shift(n[o].invalidRect, ps[o].rect.left, ps[o].rect.top), p)
  <2>1. CASE o \in above /\ Overlap(rect, ps[o].rect)
    <3>1. n[o] = [ps[o] EXCEPT !.invalid = TRUE, !.invalidRect = new(o)]
      BY <1>3, <2>1
    <3>2. /\ n[o] \in PaneRec /\ n[o].rect = ps[o].rect /\ n[o].prevRect = ps[o].prevRect /\ n[o].moved = ps[o].moved
          /\ n[o].colour = ps[o].colour /\ n[o].invalid /\ n[o].invalidRect = new(o)
      BY <1>5, <3>1
    <3>3. ASSUME Wide(ps[o].rect), Within(ps[o].invalidRect, ps[o].rect) PROVE Within(new(o), ps[o].rect)
      <4>1. Within(part(o), ps[o].rect)
        BY <1>1, <3>3, WithinFit
      <4> QED
        BY <1>1, <1>2, <3>3, <4>1, WithinAround DEF new
    <3>4. ASSUME NEW p \in Pixel, ContainsPoint(Shift(ps[o].invalidRect, ps[o].rect.left, ps[o].rect.top), p)
          PROVE  ContainsPoint(Shift(new(o), ps[o].rect.left, ps[o].rect.top), p)
      BY <1>1, <1>2, <3>4, ShiftAround DEF new
    <3>5. ASSUME NEW p \in Pixel, ContainsPoint(rect, p), ContainsPoint(ps[o].rect, p)
          PROVE  ContainsPoint(Shift(new(o), ps[o].rect.left, ps[o].rect.top), p)
      <4>1. Fit(rect, ps[o].rect) \in RectInt /\ ContainsPoint(Fit(rect, ps[o].rect), p)
        BY <1>1, <3>5, FitPoints
      <4>2. Shift(part(o), ps[o].rect.left, ps[o].rect.top) = Fit(rect, ps[o].rect)
        BY <1>1, <4>1, ShiftBack
      <4> QED
        BY <1>1, <1>2, <4>1, <4>2, ShiftAround DEF new
    <3> QED
      BY <2>1, <3>2, <3>3, <3>4, <3>5
  <2>2. CASE ~(o \in above /\ Overlap(rect, ps[o].rect))
    <3>1. n[o] = ps[o]
      BY <1>3, <2>2
    <3>2. ASSUME NEW p \in Pixel, o \in above, ContainsPoint(rect, p), ContainsPoint(ps[o].rect, p) PROVE FALSE
      BY <1>1, <2>2, <3>2, OverlapPoints
    <3> QED
      BY <1>1, <3>1, <3>2
  <2> QED
    BY <2>1, <2>2
<1>7. n \in [Pane -> PaneRec]
  BY <1>4, <1>6
<1> QED
  BY <1>6, <1>7 DEF n

-----------------------------------------------------------------------------

\* One window of dwm_draw_windows: where it is drawn it is the highest or one above it
\* waits; where it was, the others are redrawn; elsewhere nothing changes.
LEMMA PassWindowInv ==
    ASSUME CompositorInv, PassWindow
    PROVE  CompositorInv'
<1>w. PICK w : w = Head(pass.todo)
  OBVIOUS
<1> DEFINE r == pane[w]
           full == Fit(r.rect, FitRect(w))
           part == Fit(Shift(r.invalidRect, r.rect.left, r.rect.top), FitRect(w))
           rect == IF r.moved THEN full ELSE part
           uncovered == r.moved /\ Subtract(r.prevRect, full) # <<>>
           clean == [pane EXCEPT ![w].moved = FALSE, ![w].invalid = FALSE, ![w].invalidRect = Empty,
                              ![w].prevRect = IF r.moved THEN full ELSE @]
           above == Range(Tail(pass.todo))
           b == IF uncovered THEN RedrawOthers(back, w, r.prevRect) ELSE back
<1>0. /\ pass.pc = "windows" /\ pass.todo # <<>>
      /\ pass' = [pass EXCEPT !.todo = Tail(@)]
      /\ IF r.moved \/ r.invalid
         THEN /\ back' = Paint(b, rect, w, r.colour)
              /\ pane' = InvalidateAbove(clean, above, rect)
              /\ ahead' = (IF uncovered THEN ahead \cup ShownAhead(w, r.prevRect) ELSE ahead) \ {w}
         ELSE UNCHANGED <<back, pane, ahead>>
      /\ UNCHANGED <<stack, wallpaper, clientRect, pointer, front, torn, ops>>
  BY <1>w DEF PassWindow
<1>1. DrawTypes /\ PlacesKept /\ TodoKept /\ ClientKept /\ SwapKept /\ CursorKept /\ PictureKept
  BY DEF CompositorInv
<1>2. /\ pane \in [Pane -> PaneRec] /\ stack \in Seq(Pane) /\ back \in BufferInt
      /\ pass \in [pc: {"idle", "windows"}, todo: Seq(Pane)]
      /\ PanesOK /\ Range(stack) \subseteq Pane /\ Range(stack)' = Range(stack) /\ SwapPixels
  BY <1>0, <1>1, TypesGood DEF DrawTypes, SwapKept
<1>3. /\ w \in Range(stack) /\ Tail(pass.todo) \in Seq(Pane)
      /\ \A v : v \in above <=> v \in Range(stack) /\ v # w /\ Below(stack, w, v)
      /\ \E k \in Nat : /\ k + Len(Tail(pass.todo)) = Len(stack)
                        /\ \A i \in 1 .. Len(Tail(pass.todo)) : Tail(pass.todo)[i] = stack[k + i]
  BY <1>0, <1>1, <1>w, TodoHead
<1>4. pass'.todo = Tail(pass.todo) /\ pass'.pc = "windows" /\ pass' \in [pc: {"idle", "windows"}, todo: Seq(Pane)]
  BY <1>0, <1>2, <1>3
<1>5. TodoKept' /\ CursorKept'
  BY <1>0, <1>3, <1>4 DEF TodoKept, CursorKept
<1>6. /\ w \in Pane /\ r \in PaneRec /\ r.rect \in RectInt /\ r.prevRect \in RectInt /\ r.invalidRect \in RectInt
      /\ r.moved \in BOOLEAN /\ r.invalid \in BOOLEAN /\ r.colour \in Colour /\ w \in Owner
  <2>1. w \in Pane /\ r \in PaneRec
    BY <1>2, <1>3
  <2> QED
    BY <2>1, PaneFields DEF Owner
<1>7. CASE ~(r.moved \/ r.invalid)
  <2>1. UNCHANGED <<back, pane, ahead, stack, wallpaper, clientRect, pointer, front, torn, ops>>
    BY <1>0, <1>7
  <2>2. DrawTypes'
    BY <1>1, <1>4, <2>1 DEF DrawTypes
  <2>3. \A v, p : Covers(v, p)' <=> Covers(v, p)
    BY <2>1 DEF Covers, FitRect
  <2>4. PlacesKept' /\ ClientKept'
    BY <1>1, <2>1, <2>3 DEF PlacesKept, ClientKept
  <2>5. SwapKept'
    BY <1>2, <1>4, <2>1 DEF SwapKept, SwapPixels
  <2>6. PictureKept'
    <3>1. CASE Excused
      BY <2>1, <3>1 DEF Excused, PictureKept
    <3>2. CASE ~Excused
      BY <1>1, <2>1, <3>2, FineSame DEF PictureKept
    <3> QED
      BY <3>1, <3>2
  <2> QED
    BY <1>5, <2>2, <2>4, <2>5, <2>6 DEF CompositorInv
<1>8. CASE r.moved \/ r.invalid
  <2>1. /\ back' = Paint(b, rect, w, r.colour)
        /\ pane' = InvalidateAbove(clean, above, rect)
        /\ ahead' = (IF uncovered THEN ahead \cup ShownAhead(w, r.prevRect) ELSE ahead) \ {w}
        /\ UNCHANGED <<stack, wallpaper, clientRect, pointer, front, torn, ops>>
    BY <1>0, <1>8
  <2>2. Wide(r.rect) /\ r.rect.left \in Int /\ r.rect.top \in Int
    BY <1>1, <1>6, RectOfPane, RectType DEF DrawTypes
  <2>3. FitRect(w) \in RectInt /\ Shift(r.invalidRect, r.rect.left, r.rect.top) \in RectInt
    BY <1>2, <1>6, <2>2, FitRectType, ShiftType
  <2>4. /\ full \in RectInt /\ part \in RectInt
        /\ \A p \in Pixel : ContainsPoint(full, p) <=> Covers(w, p)
        /\ \A p \in Pixel : ContainsPoint(part, p) <=>
                /\ ContainsPoint(Shift(r.invalidRect, r.rect.left, r.rect.top), p)
                /\ ContainsPoint(FitRect(w), p)
    BY <1>6, <2>3, FitPoints DEF Covers
  <2> HIDE DEF full, part
  <2>5. rect \in RectInt
    BY <2>4
  <2>6. \A p \in Pixel : ContainsPoint(rect, p) => Covers(w, p)
    <3>1. CASE r.moved
      BY <2>4, <3>1
    <3>2. CASE ~r.moved
      <4>1. Within(r.invalidRect, r.rect)
        BY <1>1, <1>3, <3>2 DEF PlacesKept
      <4>2. \A p \in Pixel : ContainsPoint(part, p) => ContainsPoint(r.rect, p)
        BY <1>6, <2>4, <4>1, WithinPoints
      <4> QED
        BY <2>4, <3>2, <4>2 DEF Covers
    <3> QED
      BY <3>1, <3>2
  <2>7. /\ b \in BufferInt /\ Extends(back, b)
        /\ \A p \in Pixel : IF uncovered /\ ContainsPoint(r.prevRect, p) THEN Redrawn(b.pixels[p], w, p)
                            ELSE b.pixels[p] = back.pixels[p]
    <3>1. CASE uncovered
      BY <1>2, <1>6, <3>1, RedrawPoints
    <3>2. CASE ~uncovered
      BY <1>2, <3>2 DEF Extends
    <3> QED
      BY <3>1, <3>2
  <2> HIDE DEF b
  <2>8. /\ back' \in BufferInt /\ Extends(b, back')
        /\ \A q \in Pixel : back'.pixels[q] = IF ContainsPoint(rect, q) THEN <<w, r.colour>> ELSE b.pixels[q]
    <3> HIDE DEF r, rect
    <3> QED
      BY <1>6, <2>1, <2>5, <2>7, PaintFacts
  <2>9. Extends(back, back')
    BY <2>7, <2>8, ExtendsTwice
  <2> DEFINE prev == IF r.moved THEN full ELSE r.prevRect
             q == [pane[w] EXCEPT !.moved = FALSE, !.invalid = FALSE, !.invalidRect = Empty, !.prevRect = prev]
  <2>10. clean = [pane EXCEPT ![w] = q]
    BY <1>2, <1>6
  <2>11. /\ q \in PaneRec /\ q.rect = r.rect /\ q.prevRect = prev /\ ~q.moved /\ ~q.invalid
         /\ q.invalidRect = Empty /\ q.colour = r.colour
    <3>1. prev \in RectInt
      BY <1>6, <2>4
    <3> QED
      BY <1>6, <3>1, EmptyType DEF PaneRec
  <2>12. /\ clean \in [Pane -> PaneRec] /\ clean[w] = q
         /\ \A v \in Pane : v # w => clean[v] = pane[v]
    <3> HIDE DEF q, clean
    <3> QED
      BY <1>2, <1>6, <2>10, <2>11
  <2> HIDE DEF clean, q, prev
  <2>13. /\ pane' \in [Pane -> PaneRec]
         /\ \A o \in Pane :
                /\ pane'[o].rect = clean[o].rect /\ pane'[o].prevRect = clean[o].prevRect
                /\ pane'[o].moved = clean[o].moved /\ pane'[o].colour = clean[o].colour
                /\ o \notin above => pane'[o] = clean[o]
                /\ Wide(clean[o].rect) /\ Within(clean[o].invalidRect, clean[o].rect)
                        => Within(pane'[o].invalidRect, clean[o].rect)
                /\ clean[o].invalid => pane'[o].invalid
                /\ \A p \in Pixel :
                    /\ ContainsPoint(Shift(clean[o].invalidRect, clean[o].rect.left, clean[o].rect.top), p)
                        => ContainsPoint(Shift(pane'[o].invalidRect, clean[o].rect.left, clean[o].rect.top), p)
                    /\ o \in above /\ ContainsPoint(rect, p) /\ ContainsPoint(clean[o].rect, p)
                        => /\ pane'[o].invalid
                           /\ ContainsPoint(Shift(pane'[o].invalidRect, clean[o].rect.left, clean[o].rect.top), p)
    <3> HIDE DEF above, rect
    <3> QED
      BY <2>1, <2>5, <2>12, InvalidateFacts
  <2>14. /\ \A v \in Pane : pane'[v].rect = pane[v].rect /\ pane'[v].colour = pane[v].colour
         /\ \A v \in Pane : v # w => pane'[v].moved = pane[v].moved /\ pane'[v].prevRect = pane[v].prevRect
         /\ pane'[w].moved = FALSE /\ pane'[w].prevRect = prev
    BY <1>6, <2>11, <2>12, <2>13
  <2>15. w \notin above
    BY <1>3
  <2>16. DrawTypes'
    <3>1. \A v \in Pane : pane'[v].rect \in PaneRect[v] \cup {Empty}
      BY <1>1, <2>14 DEF DrawTypes
    <3>2. ahead' \in SUBSET Pane
      BY <1>1, <1>2, <2>1 DEF DrawTypes, ShownAhead
    <3> QED
      BY <1>1, <1>4, <2>1, <2>8, <2>13, <3>1, <3>2 DEF DrawTypes
  <2>17. \A v \in Pane, p \in Pixel : Covers(v, p)' <=> Covers(v, p)
    BY <2>1, <2>14 DEF Covers, FitRect
  <2>18. ClientKept'
    BY <1>1, <1>2, <2>1, <2>14 DEF ClientKept
  <2>19. SwapKept'
    <3>1. \A p \in Pixel : back'.pixels[p] # front[p] => ContainsPoint(back'.invalidRect, p)
      BY <1>2, <2>9, SwapExtends
    <3> QED
      BY <1>4, <2>1, <3>1 DEF SwapKept, SwapPixels
  <2>20. PlacesKept'
    <3> SUFFICES ASSUME NEW v \in Range(stack), ~pane'[v].moved
                 PROVE  /\ \A p \in Pixel : Covers(v, p) => ContainsPoint(pane'[v].prevRect, p)
                        /\ Within(pane'[v].invalidRect, pane'[v].rect)
      BY <1>2, <2>17 DEF PlacesKept
    <3>1. CASE v = w
      <4>1. pane'[w].invalidRect = Empty /\ pane'[w].rect = r.rect
        BY <1>6, <2>11, <2>12, <2>13, <2>15
      <4>2. Within(Empty, r.rect)
        BY <1>6, <2>2, WithinEmpty
      <4>3. \A p \in Pixel : Covers(w, p) => ContainsPoint(prev, p)
        <5>1. CASE r.moved
          BY <2>4, <5>1 DEF prev
        <5>2. CASE ~r.moved
          BY <1>1, <1>3, <5>2 DEF prev, PlacesKept
        <5> QED
          BY <5>1, <5>2
      <4> QED
        BY <2>14, <3>1, <4>1, <4>2, <4>3
    <3>2. CASE v # w
      <4>1. v \in Pane /\ clean[v] = pane[v] /\ ~pane[v].moved /\ pane'[v].prevRect = pane[v].prevRect
            /\ pane'[v].rect = pane[v].rect
        BY <1>2, <2>12, <2>14, <3>2
      <4>2. /\ \A p \in Pixel : Covers(v, p) => ContainsPoint(pane[v].prevRect, p)
            /\ Within(pane[v].invalidRect, pane[v].rect)
        BY <1>1, <4>1 DEF PlacesKept
      <4>3. Wide(pane[v].rect)
        BY <1>1, <4>1, RectOfPane DEF DrawTypes
      <4>4. Within(pane'[v].invalidRect, pane[v].rect)
        BY <2>13, <4>1, <4>2, <4>3
      <4> QED
        BY <4>1, <4>2, <4>4
    <3> QED
      BY <3>1, <3>2
  <2>21. ASSUME NEW p \in Pixel, ~Excused, p # pointer PROVE Fine(p)'
    <3>1. Fine(p)
      BY <1>1, <2>21 DEF PictureKept
    <3>2. \A v \in Pane : Stays(v, p)' <=> v \in Range(stack) /\ (v = w \/ ~pane[v].moved) /\ Covers(v, p)
      BY <1>2, <2>14, <2>17 DEF Stays
    <3>3. \A v \in Pane : v # w /\ Waits(v, p) => Waits(v, p)'
      BY <2>12, <2>13, <2>14 DEF Waits
    <3>4. CASE ContainsPoint(rect, p)
      <4>1. Stays(w, p)' /\ back'.pixels[p] = <<w, pane'[w].colour>>
        BY <1>3, <1>6, <2>6, <2>8, <2>14, <3>2, <3>4
      <4> DEFINE S == {v \in Pane : Stays(v, p)'}
      <4>2. PICK v \in S \cap Range(stack) : \A u \in S \cap Range(stack) : Below(stack, u, v)
        <5>1. w \in S /\ w \in Range(stack)
          BY <1>3, <1>6, <4>1
        <5> HIDE DEF S
        <5> QED
          BY <1>2, <5>1, HighestExists
      <4>3. Top(v, p)' /\ v \in Pane
        BY <2>1, <3>2, <4>2 DEF Top
      <4>4. CASE v = w
        BY <4>1, <4>3, <4>4 DEF Right, Fine
      <4>5. CASE v # w
        <5>1. Below(stack, w, v)
          BY <1>3, <1>6, <4>1, <4>2
        <5>2. v \in above
          BY <1>3, <4>2, <4>5, <5>1
        <5>3. ContainsPoint(pane[v].rect, p) /\ clean[v] = pane[v]
          BY <2>12, <3>2, <4>2, <4>5 DEF Covers
        <5>4. Waits(v, p)'
          BY <2>13, <2>14, <3>4, <4>3, <5>2, <5>3 DEF Waits
        <5> QED
          BY <4>3, <5>4 DEF Pending, Fine
      <4> QED
        BY <4>4, <4>5
    <3>5. CASE ~ContainsPoint(rect, p) /\ uncovered /\ ContainsPoint(r.prevRect, p)
      <4>1. Redrawn(b.pixels[p], w, p) /\ back'.pixels[p] = b.pixels[p]
        BY <2>7, <2>8, <3>5
      <4>2. ~Stays(w, p)'
        BY <1>6, <2>4, <3>2, <3>5
      <4>3. ShownAhead(w, r.prevRect) \subseteq ahead'
        BY <2>1, <3>5 DEF ShownAhead
      <4>4. \A v \in Range(stack) \ {w} : /\ pane'[v].moved = pane[v].moved /\ pane'[v].rect = pane[v].rect
                                          /\ pane'[v].colour = pane[v].colour
        BY <1>2, <2>14
      <4>5. stack' = stack /\ clientRect' = clientRect /\ wallpaper'.colour = wallpaper.colour
        BY <2>1
      <4> HIDE DEF r
      <4> QED
        BY <1>1, <1>6, <3>5, <4>1, <4>2, <4>3, <4>4, <4>5, FineRedrawn
    <3>6. CASE ~ContainsPoint(rect, p) /\ ~(uncovered /\ ContainsPoint(r.prevRect, p))
      <4>1. back'.pixels[p] = back.pixels[p]
        BY <2>7, <2>8, <3>6
      <4>2. r.moved => ~Covers(w, p) /\ ~ContainsPoint(r.prevRect, p)
        <5> SUFFICES ASSUME r.moved PROVE ~Covers(w, p) /\ ~ContainsPoint(r.prevRect, p)
          OBVIOUS
        <5>1. ~Covers(w, p) /\ ~ContainsPoint(full, p)
          BY <2>4, <3>6
        <5>2. ASSUME ContainsPoint(r.prevRect, p) PROVE FALSE
          <6>1. Subtract(r.prevRect, full) = <<>>
            BY <3>6, <5>2
          <6> QED
            BY <1>6, <2>4, <5>1, <5>2, <6>1, SubtractNone
        <5> QED
          BY <5>1, <5>2
      <4>3. \A v \in Pane : Stays(v, p)' <=> Stays(v, p)
        BY <3>2, <4>2 DEF Stays
      <4>4. ASSUME Stays(w, p), Waits(w, p) PROVE FALSE
        <5>1. ~r.moved /\ ContainsPoint(FitRect(w), p)
          BY <4>4 DEF Stays, Covers
        <5>2. ContainsPoint(part, p)
          BY <2>4, <4>4, <5>1 DEF Waits
        <5> QED
          BY <3>6, <5>1, <5>2
      <4>5. \A v \in Pane : Stays(v, p) =>
                /\ Stays(v, p)'
                /\ pane'[v].colour = pane[v].colour \/ Waits(v, p)'
                /\ Waits(v, p) => Waits(v, p)'
        BY <2>14, <3>3, <4>3, <4>4
      <4>6. Left(p) => Left(p)'
        BY <1>2, <2>14, <4>2 DEF Left
      <4>7. Early(p) => Early(p)'
        <5> SUFFICES ASSUME Early(p) PROVE Early(p)'
          OBVIOUS
        <5>1. PICK v \in Range(stack) : v \in ahead /\ pane[v].moved /\ Covers(v, p)
          BY DEF Early
        <5>2. v # w /\ v \in Pane
          BY <1>2, <4>2, <5>1
        <5>3. v \in ahead'
          BY <2>1, <5>1, <5>2
        <5> QED
          BY <1>2, <2>14, <2>17, <5>1, <5>2, <5>3 DEF Early
      <4>8. stack' = stack /\ clientRect' = clientRect /\ wallpaper'.colour = wallpaper.colour
        BY <2>1
      <4> QED
        BY <1>1, <3>1, <4>1, <4>3, <4>5, <4>6, <4>7, <4>8, FineKept
    <3> QED
      BY <3>4, <3>5, <3>6
  <2>22. PictureKept'
    BY <2>1, <2>21 DEF PictureKept, Excused
  <2> QED
    BY <1>5, <2>16, <2>18, <2>19, <2>20, <2>22 DEF CompositorInv
<1> QED
  BY <1>7, <1>8

-----------------------------------------------------------------------------

\* Every step of the manager and of its clients keeps the invariant.
LEMMA CompositorStep == CompositorInv /\ [CompositorNext]_drawVars => CompositorInv'
<1> SUFFICES ASSUME CompositorInv, [CompositorNext]_drawVars PROVE CompositorInv'
  OBVIOUS
<1>1. CASE CompositorNext
  BY <1>1, PaneCreateInv, PaneMoveInv, PaneRaiseInv, PaneCloseInv, PaneFlushInv, WallFlushInv, PassBeginInv,
     PassWindowInv, PassEndInv, PointerMoveInv DEF CompositorNext
<1>2. CASE UNCHANGED drawVars
  <2>1. \A v, p : Covers(v, p)' <=> Covers(v, p)
    BY <1>2 DEF drawVars, Covers, FitRect
  <2>2. DrawTypes' /\ PlacesKept' /\ TodoKept' /\ ClientKept' /\ SwapKept' /\ CursorKept'
    BY <1>2, <2>1 DEF CompositorInv, drawVars, DrawTypes, PlacesKept, TodoKept, ClientKept, SwapKept, SwapPixels, CursorKept
  <2>3. PictureKept'
    <3>1. CASE Excused
      BY <1>2, <3>1 DEF drawVars, Excused, PictureKept
    <3>2. CASE ~Excused
      BY <1>2, <3>2, FineSame DEF drawVars, CompositorInv, PictureKept
    <3> QED
      BY <3>1, <3>2
  <2> QED
    BY <2>2, <2>3 DEF CompositorInv
<1> QED
  BY <1>1, <1>2

\* With nothing left to draw, the invariant says that the picture is right.
LEMMA CompositorInvRight == CompositorInv => ScreenRight
<1> SUFFICES ASSUME CompositorInv PROVE ScreenRight
  OBVIOUS
<1>1. DrawTypes /\ PlacesKept /\ TodoKept /\ ClientKept /\ SwapKept /\ CursorKept /\ PictureKept
  BY DEF CompositorInv
<1>2. Range(stack) \subseteq Pane /\ PanesOK
  BY <1>1, TypesGood
<1>3. CompositorTypeOK
  <2>1. DOMAIN back.pixels = Pixel /\ DOMAIN front = Pixel
    BY <1>1 DEF DrawTypes, BufferInt
  <2>2. pass.pc \in {"idle", "windows"} /\ Range(pass.todo) \subseteq Pane
    BY <1>1 DEF DrawTypes, Range
  <2>3. \A w \in Pane : pane[w].rect \in PaneRect[w] \cup {Empty} /\ pane[w].colour \in Colour
    BY <1>1, <1>2 DEF DrawTypes, PanesOK
  <2> QED
    BY <1>1, <1>2, <2>1, <2>2, <2>3 DEF CompositorTypeOK, DrawTypes
<1>4. SwapComplete
  <2> SUFFICES ASSUME pass.pc = "idle" PROVE front = back.pixels
    BY DEF SwapComplete
  <2>1. \A p \in Pixel : back.pixels[p] = front[p]
    BY <1>1, EmptyType DEF SwapKept, SwapPixels
  <2>2. back.pixels \in [Pixel -> Owner \X Colour] /\ front \in [Pixel -> Owner \X Colour]
    BY <1>1 DEF DrawTypes, BufferInt
  <2> QED
    BY <2>1, <2>2
<1>5. Composed
  <2> SUFFICES ASSUME Settled, NEW p \in Pixel, ContainsPoint(clientRect, p) \/ Shown(p)[1] # Wall
               PROVE  front[p] = Shown(p)
    BY DEF Composed
  <2>1. pass.pc = "idle" /\ ~Excused /\ ~wallpaper.moved /\ \A v \in Range(stack) : ~pane[v].moved /\ ~pane[v].invalid
    BY DEF Settled, Dirty, Excused
  <2>2. front = back.pixels
    BY <1>4, <2>1 DEF SwapComplete
  <2>3. CASE p = pointer
    BY <1>1, <2>1, <2>2, <2>3 DEF CursorKept, Shown
  <2>4. CASE p # pointer
    <3>1. Fine(p)
      BY <1>1, <2>1, <2>4 DEF PictureKept
    <3>2. Right(p)
      <4>1. ~Left(p) /\ ~Early(p)
        BY <2>1 DEF Left, Early
      <4>2. ~Pending(p)
        BY <2>1 DEF Pending, Top, Stays, Waits
      <4> QED
        BY <3>1, <4>1, <4>2 DEF Fine
    <3> DEFINE there == {i \in DOMAIN stack : ContainsPoint(Fit(pane[stack[i]].rect, FitRect(stack[i])), p)}
               top == CHOOSE i \in there : \A j \in there : j <= i
    <3>3. stack \in Seq(Pane) /\ DOMAIN stack = 1 .. Len(stack) /\ Len(stack) \in Nat
          /\ \A i, j \in DOMAIN stack : stack[i] = stack[j] => i = j
      BY <1>1 DEF DrawTypes, IsInjective
    <3>4. \A i \in DOMAIN stack : stack[i] \in Range(stack) /\ stack[i] \in Pane
      BY <3>3 DEF Range
    <3>5. \A v \in Pane : ContainsPoint(Fit(pane[v].rect, FitRect(v)), p) <=> Covers(v, p)
      <4>1. \A v \in Pane : pane[v].rect \in RectInt /\ FitRect(v) \in RectInt
        BY <1>2, FitRectType DEF PanesOK
      <4> QED
        BY <4>1, FitPoints DEF Covers
    <3>6. \A i \in DOMAIN stack : i \in there <=> Stays(stack[i], p)
      BY <2>1, <3>4, <3>5 DEF Stays
    <3>7. Shown(p) = IF there # {} THEN <<stack[top], pane[stack[top]].colour>> ELSE <<Wall, wallpaper.colour>>
      BY <2>4 DEF Shown
    <3>8. there \subseteq 1 .. Len(stack)
      BY <3>3
    <3> HIDE DEF there
    <3>9. CASE \E v \in Pane : Top(v, p) /\ back.pixels[p] = <<v, pane[v].colour>>
      <4>1. PICK v \in Pane : Top(v, p) /\ back.pixels[p] = <<v, pane[v].colour>>
        BY <3>9
      <4>2. PICK k \in DOMAIN stack : stack[k] = v
        BY <4>1 DEF Top, Stays, Range
      <4>3. k \in there
        BY <3>6, <4>1, <4>2 DEF Top
      <4>4. ASSUME NEW j \in there PROVE j <= k
        <5>1. j \in DOMAIN stack /\ Stays(stack[j], p) /\ stack[j] \in Pane
          BY <3>3, <3>4, <3>6, <3>8
        <5>2. Below(stack, stack[j], stack[k])
          BY <4>1, <4>2, <5>1 DEF Top
        <5> QED
          BY <3>3, <4>2, <5>1, <5>2 DEF Below
      <4>5. top \in there /\ \A j \in there : j <= top
        BY <4>3, <4>4
      <4>6. top = k
        BY <3>8, <4>3, <4>4, <4>5
      <4> HIDE DEF top
      <4> QED
        BY <2>2, <3>7, <4>1, <4>2, <4>3, <4>6
    <3>10. CASE /\ \A v \in Pane : ~Stays(v, p)
                /\ ContainsPoint(clientRect, p) => back.pixels[p] = <<Wall, wallpaper.colour>>
      <4>1. there = {}
        BY <3>3, <3>4, <3>6, <3>8, <3>10
      <4>2. Shown(p) = <<Wall, wallpaper.colour>>
        BY <3>7, <4>1
      <4>3. ContainsPoint(clientRect, p)
        BY <4>2
      <4> QED
        BY <2>2, <3>10, <4>2, <4>3
    <3> QED
      BY <3>2, <3>9, <3>10 DEF Right
  <2> QED
    BY <2>3, <2>4
<1> QED
  BY <1>3, <1>4, <1>5 DEF ScreenRight

\* What is on the screen is right, for any windows and panels, any rectangles they take,
\* screens of any size and passes interleaved with the operations of clients in any way:
\* dwm_swap copies all that was drawn, and when nothing is left to draw every pixel shows
\* the cursor, the highest window there or the wall.
THEOREM CompositorScreenRight == CompositorSpec => []ScreenRight
  BY CompositorInitInv, CompositorStep, CompositorInvRight, PTL DEF CompositorSpec
=============================================================================
