---------------------------- MODULE TerminalProofs ----------------------------
(***************************************************************************)
(* Proofs about the console and the keyboard, for every size of the screen  *)
(* and every set of keys.                                                   *)
(***************************************************************************)
EXTENDS Terminal, TLAPS

-----------------------------------------------------------------------------
(* The shift keys. *)

(* What sets the flag comes from a shift key that is down, or from the      *)
(* mouse; what a shift key that went up last still has to send clears it.   *)
ShiftInv ==
    /\ bytes \in Seq(0 .. 255)
    /\ (\E i \in DOMAIN bytes : bytes[i] \in {42, 54}) => down \cap K!ShiftKey # {}
    /\ m_shift => \/ down \cap K!ShiftKey # {}
                  \/ \E i \in DOMAIN bytes : bytes[i] \in {170, 182}
                  \/ stray

LEMMA FourAreSequence ==
    ASSUME NEW S, NEW a \in S, NEW b \in S, NEW c \in S, NEW d \in S
    PROVE  <<a, b, c, d>> \in Seq(S) /\ DOMAIN <<a, b, c, d>> = 1 .. 4
OBVIOUS

(* The bytes of a key: those of no other key than the shift keys set the    *)
(* flag, when it is pressed; those of a shift key clear it when released.   *)
LEMMA KeyBytes ==
    ASSUME NEW k \in K!Key
    PROVE  /\ k.make \in Seq(0 .. 255) /\ k.break \in Seq(0 .. 255)
           /\ \A i \in DOMAIN k.make : k.make[i] \in {42, 54} => k \in K!ShiftKey
           /\ \A i \in DOMAIN k.break : k.break[i] \notin {42, 54}
           /\ k \in K!ShiftKey => \E i \in DOMAIN k.break : k.break[i] \in {170, 182}
<1>1. ASSUME NEW c \in Plain, k = K!PlainKey(c)
      PROVE  /\ k.make = <<c>> /\ k.break = <<c + 128>> /\ c \in 0 .. 127
             /\ c \in {42, 54} => k \in K!ShiftKey
  BY <1>1, KeyboardAssumption DEF K!PlainKey, K!ShiftKey, K!LSHIFT, K!RSHIFT
<1>2. ASSUME NEW c \in Extended, k = K!ExtendedKey(c)
      PROVE  /\ k.make = <<224, c>> /\ k.break = <<224, c + 128>> /\ c \in 0 .. 127
             /\ c \notin {42, 54}
  BY <1>2, KeyboardAssumption DEF K!ExtendedKey
<1>3. k = K!PrintScreen =>
          /\ k.make = <<224, 42, 224, 55>> /\ k.break = <<224, 183, 224, 170>>
          /\ k \in K!ShiftKey
  BY DEF K!PrintScreen, K!ShiftKey
<1>4. k \in K!ShiftKey =>
          k.break \in {<<170>>, <<182>>, <<224, 183, 224, 170>>}
  BY DEF K!ShiftKey, K!PlainKey, K!PrintScreen, K!LSHIFT, K!RSHIFT
<1>5. k \in K!ShiftKey => \E i \in DOMAIN k.break : k.break[i] \in {170, 182}
  <2>1. CASE k.break = <<170>> \/ k.break = <<182>>
    <3>1. 1 \in DOMAIN k.break /\ k.break[1] \in {170, 182}
      BY <2>1
    <3> QED
      BY <3>1
  <2>2. CASE k.break = <<224, 183, 224, 170>>
    <3>1. 4 \in DOMAIN k.break /\ k.break[4] = 170
      BY <2>2
    <3> QED
      BY <3>1
  <2> QED
    BY <1>4, <2>1, <2>2
<1> DEFINE Bytes ==
             /\ k.make \in Seq(0 .. 255) /\ k.break \in Seq(0 .. 255)
             /\ \A i \in DOMAIN k.make : k.make[i] \in {42, 54} => k \in K!ShiftKey
             /\ \A i \in DOMAIN k.break : k.break[i] \notin {42, 54}
<1>6. Bytes
  <2>1. ASSUME NEW c \in Plain, k = K!PlainKey(c) PROVE Bytes
    <3>1. /\ k.make = <<c>> /\ k.break = <<c + 128>> /\ c \in 0 .. 127
          /\ c \in {42, 54} => k \in K!ShiftKey
      BY <1>1, <2>1
    <3>2. c + 128 \in 128 .. 255
      BY <3>1
    <3> QED
      BY <3>1, <3>2
  <2>2. ASSUME NEW c \in Extended, k = K!ExtendedKey(c) PROVE Bytes
    <3>1. /\ k.make = <<224, c>> /\ k.break = <<224, c + 128>> /\ c \in 0 .. 127
          /\ c \notin {42, 54}
      BY <1>2, <2>2
    <3>2. c + 128 \in 128 .. 255
      BY <3>1
    <3> QED
      BY <3>1, <3>2
  <2>3. CASE k = K!PrintScreen
    <3>1. {224, 42, 55, 183, 170} \subseteq 0 .. 255
      OBVIOUS
    <3>2. <<224, 42, 224, 55>> \in Seq(0 .. 255)
      BY <3>1, FourAreSequence
    <3>3. <<224, 183, 224, 170>> \in Seq(0 .. 255) /\ DOMAIN <<224, 183, 224, 170>> = 1 .. 4
      BY <3>1, FourAreSequence
    <3>4. \A i \in 1 .. 4 : k.break[i] \notin {42, 54}
      BY <1>3, <2>3
    <3>5. k.make \in Seq(0 .. 255)
      BY <1>3, <2>3, <3>2, Zenon
    <3>6. k.break \in Seq(0 .. 255) /\ DOMAIN k.break = 1 .. 4
      BY <1>3, <2>3, <3>3, Zenon
    <3> QED
      BY <1>3, <2>3, <3>4, <3>5, <3>6
  <2> QED
    BY <2>1, <2>2, <2>3 DEF K!Key
<1> QED
  BY <1>5, <1>6

LEMMA ShiftInvInit == TermInit => ShiftInv
BY DEF TermInit, K!Init, ShiftInv

LEMMA ShiftInvNext ==
    ASSUME ShiftInv, [TermNext]_termVars
    PROVE  ShiftInv'
<1> USE DEF ShiftInv
<1>1. CASE UNCHANGED keyVars
  BY <1>1 DEF keyVars
<1>2. CASE K!Interrupt
  <2>1. bytes # <<>> /\ bytes' = Tail(bytes) /\ down' = down
    BY <1>2 DEF K!Interrupt
  <2>2. /\ bytes' \in Seq(0 .. 255)
        /\ Len(bytes') = Len(bytes) - 1
        /\ \A i \in DOMAIN bytes' : i + 1 \in DOMAIN bytes /\ bytes'[i] = bytes[i + 1]
        /\ \A i \in DOMAIN bytes \ {1} : i - 1 \in DOMAIN bytes' /\ bytes'[i - 1] = bytes[i]
        /\ 1 \in DOMAIN bytes /\ Head(bytes) = bytes[1]
    BY <2>1
  <2>3. CASE bytes[1] \in {42, 54}
    <3>1. down' \cap K!ShiftKey # {}
      BY <2>1, <2>2, <2>3
    <3> QED
      BY <2>2, <3>1
  <2>4. CASE bytes[1] \in {170, 182}
    <3>1. m_shift' = FALSE
      BY <1>2, <2>2, <2>4 DEF K!Interrupt, K!ShiftAfter, K!LSHIFT, K!RSHIFT
    <3> QED
      BY <2>1, <2>2, <3>1
  <2>5. CASE bytes[1] \notin {42, 54, 170, 182}
    <3>1. Head(bytes) \notin {K!LSHIFT, K!RSHIFT, K!LSHIFT + 128, K!RSHIFT + 128}
      BY <2>2, <2>5 DEF K!LSHIFT, K!RSHIFT
    <3>2. m_shift' = m_shift
      BY <1>2, <3>1, Zenon DEF K!Interrupt, K!ShiftAfter
    <3>5. stray /\ m_shift => stray'
      <4>1. stray' = (stray /\ m_shift' /\ Head(bytes) \notin {K!LSHIFT, K!RSHIFT})
        BY <1>2, Zenon DEF K!Interrupt
      <4>2. Head(bytes) \notin {K!LSHIFT, K!RSHIFT}
        BY <3>1
      <4> QED
        BY <3>2, <4>1, <4>2, Zenon
    <3>3. ASSUME NEW i \in DOMAIN bytes, bytes[i] \in {170, 182}
          PROVE  \E j \in DOMAIN bytes' : bytes'[j] \in {170, 182}
      BY <2>2, <2>5, <3>3
    <3>4. ASSUME NEW i \in DOMAIN bytes', bytes'[i] \in {42, 54}
          PROVE  \E j \in DOMAIN bytes : bytes[j] \in {42, 54}
      BY <2>2, <3>4
    <3> QED
      BY <2>1, <3>2, <3>3, <3>4, <3>5
  <2> QED
    BY <2>3, <2>4, <2>5
<1>3. ASSUME NEW k \in K!Key, K!Press(k)
      PROVE  ShiftInv'
  BY <1>3, KeyBytes DEF K!Press
<1>4. ASSUME NEW k \in K!Key, K!Release(k)
      PROVE  ShiftInv'
  <2>1. bytes = <<>> /\ bytes' = k.break /\ down' = down \ {k} /\ m_shift' = m_shift
    BY <1>4 DEF K!Release
  <2>2. m_shift => down \cap K!ShiftKey # {} \/ stray
    BY <2>1
  <2>5. stray' = stray
    BY <1>4 DEF K!Release
  <2>3. CASE k \in K!ShiftKey
    BY <2>1, <2>3, <2>5, KeyBytes
  <2>4. CASE k \notin K!ShiftKey
    <3>1. down' \cap K!ShiftKey = down \cap K!ShiftKey
      BY <2>1, <2>4
    <3> QED
      BY <2>1, <2>2, <2>5, <3>1, KeyBytes
  <2> QED
    BY <2>3, <2>4
<1>5. ASSUME NEW code \in MouseBytes, K!MouseByte(code)
      PROVE  ShiftInv'
  <2>1. bytes' = bytes /\ down' = down
    BY <1>5 DEF K!MouseByte
  <2>2. CASE code \in {K!LSHIFT, K!RSHIFT}
    BY <1>5, <2>1, <2>2 DEF K!MouseByte
  <2>3. CASE code \notin {K!LSHIFT, K!RSHIFT}
    <3>1. m_shift' = FALSE \/ m_shift' = m_shift
      BY <1>5, <2>3, Zenon DEF K!MouseByte, K!ShiftAfter
    <3>2. stray /\ m_shift' => stray'
      BY <1>5, Zenon DEF K!MouseByte
    <3> QED
      BY <2>1, <3>1, <3>2
  <2> QED
    BY <2>2, <2>3
<1> QED
  BY <1>1, <1>2, <1>3, <1>4, <1>5 DEF TermNext, KeyInterrupt, KeyMoves, termVars, keyVars

(* With all bytes of the keyboard handled, the driver's flag is set only    *)
(* while a key is down that sends a shift code (keyboard.cpp: m_shift), or  *)
(* if a byte of the mouse has set it since a key last did; whichever keys   *)
(* the keyboard has and in whatever order they move.                        *)
THEOREM ShiftReleased == TermSpec => []ShiftLetsGo
<1>1. TermInit => ShiftInv
  BY ShiftInvInit
<1>2. ShiftInv /\ [TermNext]_termVars => ShiftInv'
  BY ShiftInvNext
<1>3. ShiftInv => ShiftLetsGo
  BY DEF ShiftInv, ShiftLetsGo, K!ShiftLetsGo
<1> QED
  BY <1>1, <1>2, <1>3, PTL DEF TermSpec
-----------------------------------------------------------------------------
(* The cursor. *)

Position == [x : Nat, y : Nat]
OnScreen == [x : 0 .. (Width - 1), y : 0 .. (Height - 1)]

(* One turn of printf's loop, in one go, puts the cursor on the screen from *)
(* wherever it was.                                                        *)
LEMMA TurnOnScreen ==
    ASSUME NEW pos \in Position
    PROVE  Newline(pos) \in OnScreen /\ Character(pos) \in OnScreen
<1> USE ScreenAssumption
<1>1. ASSUME NEW p \in [x : 0 .. (Width - 1), y : Nat]
      PROVE  Wrapped(p) \in OnScreen
  <2>1. p.x \in 0 .. (Width - 1) /\ p.y \in Nat /\ p = [x |-> p.x, y |-> p.y]
    BY <1>1
  <2>2. CASE p.y >= Height
    BY <2>2 DEF Wrapped, OnScreen
  <2>3. CASE ~(p.y >= Height)
    BY <2>1, <2>3 DEF Wrapped, OnScreen
  <2> QED
    BY <2>2, <2>3
<1>2. Newline(pos) \in OnScreen
  BY <1>1 DEF Newline, Position
<1>3. CASE pos.x + 1 >= Width
  BY <1>1, <1>2, <1>3 DEF Character, Position
<1>4. CASE ~(pos.x + 1 >= Width)
  BY <1>1, <1>2, <1>4 DEF Character, Position
<1> QED
  BY <1>2, <1>3, <1>4

(* The cursor after each of the characters of a number: the function After  *)
(* exists, as its values can be listed.                                     *)
LEMMA AfterUnfolds ==
    /\ After[0] = Cursor
    /\ \A n \in 1 .. NumberLength : After[n] = Character(After[n - 1])
<1> DEFINE c0 == Cursor          c1 == Character(c0)    c2 == Character(c1)
           c3 == Character(c2)   c4 == Character(c3)    c5 == Character(c4)
           c6 == Character(c5)   c7 == Character(c6)    c8 == Character(c7)
           c9 == Character(c8)   c10 == Character(c9)   c11 == Character(c10)
           c12 == Character(c11) c13 == Character(c12)  c14 == Character(c13)
           values == <<c1, c2, c3, c4, c5, c6, c7, c8, c9, c10, c11, c12, c13, c14>>
           g == [n \in 0 .. NumberLength |-> IF n = 0 THEN c0 ELSE values[n]]
           Unfolds(f) == f = [n \in 0 .. NumberLength |->
                                  IF n = 0 THEN Cursor ELSE Character(f[n - 1])]
<1>1. Unfolds(g)
  <2>1. \A n \in 1 .. NumberLength : g[n] = Character(g[n - 1])
    <3>1. g[0] = c0
      BY DEF NumberLength
    <3> HIDE DEF c0, c1, c2, c3, c4, c5, c6, c7, c8, c9, c10, c11, c12, c13, c14
    <3>2. /\ g[1] = c1 /\ g[2] = c2 /\ g[3] = c3 /\ g[4] = c4 /\ g[5] = c5
          /\ g[6] = c6 /\ g[7] = c7 /\ g[8] = c8 /\ g[9] = c9 /\ g[10] = c10
          /\ g[11] = c11 /\ g[12] = c12 /\ g[13] = c13 /\ g[14] = c14
      BY DEF NumberLength
    <3> HIDE DEF g
    <3> QED
      BY <3>1, <3>2 DEF NumberLength,
         c1, c2, c3, c4, c5, c6, c7, c8, c9, c10, c11, c12, c13, c14
  <2>2. g[0] = Cursor
    BY DEF NumberLength
  <2>3. g = [n \in 0 .. NumberLength |-> g[n]]
    OBVIOUS
  <2> HIDE DEF g
  <2> QED
    BY <2>1, <2>2, <2>3 DEF NumberLength
<1>2. After = CHOOSE f : Unfolds(f)
  BY DEF After
<1> HIDE DEF g, Unfolds
<1>3. Unfolds(After)
  BY <1>1, <1>2
<1> QED
  BY <1>3 DEF Unfolds, NumberLength

(* So a number, too, leaves the cursor on the screen, and its last          *)
(* character is put where the cursor was, or on the screen.                 *)
LEMMA NumberOnScreen ==
    ASSUME Cursor \in Position
    PROVE  /\ After[1] \in OnScreen /\ After[NumberLength] \in OnScreen
           /\ After[0] = Cursor /\ After[NumberLength - 1] \in OnScreen
<1>1. OnScreen \subseteq Position
  BY ScreenAssumption DEF OnScreen, Position
<1>2. \A n \in 1 .. NumberLength : After[n - 1] \in Position => After[n] \in OnScreen
  BY AfterUnfolds, TurnOnScreen
<1>3. After[0] = Cursor
  BY AfterUnfolds
<1>4. After[1] \in OnScreen /\ After[2] \in OnScreen /\ After[3] \in OnScreen
  BY <1>1, <1>2, <1>3 DEF NumberLength
<1>5. After[4] \in OnScreen /\ After[5] \in OnScreen /\ After[6] \in OnScreen
  BY <1>1, <1>2, <1>4 DEF NumberLength
<1>6. After[7] \in OnScreen /\ After[8] \in OnScreen /\ After[9] \in OnScreen
  BY <1>1, <1>2, <1>5 DEF NumberLength
<1>7. After[10] \in OnScreen /\ After[11] \in OnScreen /\ After[12] \in OnScreen
  BY <1>1, <1>2, <1>6 DEF NumberLength
<1>8. After[13] \in OnScreen /\ After[14] \in OnScreen
  BY <1>1, <1>2, <1>7 DEF NumberLength
<1> QED
  BY <1>3, <1>4, <1>8 DEF NumberLength

(* Where the kernel's context is, how far the cursor may be off the screen, *)
(* and what its register holds: a handler in between only brings the cursor *)
(* back.                                                                   *)
CursorInv ==
    /\ pc \in {"idle", "loadRow", "put", "loadX", "storeX", "testX", "zeroX",
               "loadY", "storeY", "testY", "homeX", "homeY"}
    /\ x \in Nat /\ y \in Nat
    /\ x < Width \/ (x = Width /\ pc \in {"testX", "zeroX"})
    /\ y < Height \/ (y = Height /\ pc \in {"testY", "homeX", "homeY"})
    /\ pc = "put" => reg \in 0 .. (Height - 1)
    /\ pc = "storeX" => reg \in 1 .. Width
    /\ pc = "storeY" => reg \in 1 .. Height

CellInv == cell \in Int /\ cell < Width * (Height + 1)

(* The cells of the screen and of the row below it.                         *)
LEMMA CellInRow ==
    ASSUME NEW r \in Nat, NEW c \in Nat,
           \/ r <= Height /\ c < Width
           \/ r < Height /\ c <= Width
    PROVE  Width * r + c \in Int /\ Width * r + c < Width * (Height + 1)
<1> USE ScreenAssumption
<1>1. Width * r \in Int /\ Width * Height \in Int
  OBVIOUS
<1>2. Width * (Height + 1) = Width * Height + Width
  OBVIOUS
<1>3. CASE r <= Height /\ c < Width
  <2>1. Width * r <= Width * Height
    BY <1>3
  <2> QED
    BY <1>1, <1>2, <1>3, <2>1
<1>4. CASE r < Height /\ c <= Width
  <2>1. Width * (r + 1) <= Width * Height
    BY <1>4
  <2>2. Width * (r + 1) = Width * r + Width
    OBVIOUS
  <2> QED
    BY <1>1, <1>2, <1>4, <2>1, <2>2
<1> QED
  BY <1>3, <1>4

LEMMA CursorCell ==
    ASSUME CursorInv
    PROVE  Width * y + x \in Int /\ Width * y + x < Width * (Height + 1)
<1>1. /\ x \in Nat /\ y \in Nat
      /\ \/ y <= Height /\ x < Width
         \/ y < Height /\ x <= Width
  BY ScreenAssumption DEF CursorInv
<1> QED
  BY <1>1, CellInRow

(* What a handler prints, in whatever state of the kernel's context.        *)
LEMMA HandlerKeeps ==
    ASSUME CursorInv, CellInv, UNCHANGED <<pc, reg>>,
           NEW pos \in OnScreen, MoveTo(pos),
           \/ cell' = cell \/ cell' = Width * y + x
           \/ \E p \in OnScreen : cell' = Width * p.y + p.x
    PROVE  CursorInv' /\ CellInv'
<1>1. x' \in 0 .. (Width - 1) /\ y' \in 0 .. (Height - 1)
  BY DEF MoveTo, OnScreen
<1>2. CursorInv'
  BY <1>1, ScreenAssumption DEF CursorInv
<1>3. ASSUME NEW p \in OnScreen
      PROVE  Width * p.y + p.x \in Int /\ Width * p.y + p.x < Width * (Height + 1)
  <2>1. p.y \in Nat /\ p.x \in Nat /\ p.y <= Height /\ p.x < Width
    BY ScreenAssumption DEF OnScreen
  <2> QED
    BY <2>1, CellInRow
<1>4. CellInv'
  BY <1>3, CursorCell DEF CellInv
<1> QED
  BY <1>2, <1>4

LEMMA CursorInvInit == TermInit => CursorInv /\ CellInv
<1>1. 0 < Width * (Height + 1)
  BY ScreenAssumption
<1> QED
  BY <1>1, ScreenAssumption DEF TermInit, Init, CursorInv, CellInv

LEMMA CursorInvNext ==
    ASSUME CursorInv, CellInv, [TermNext]_termVars
    PROVE  CursorInv' /\ CellInv'
<1>1. Cursor \in Position /\ Cursor.x = x /\ Cursor.y = y
  BY DEF CursorInv, Cursor, Position
<1>2. CASE UNCHANGED vars
  BY <1>2 DEF vars, CursorInv, CellInv
<1>3. CASE HandlerPrints
  <2>1. Newline(Cursor) \in OnScreen /\ Character(Cursor) \in OnScreen
    BY <1>1, TurnOnScreen
  <2> QED
    BY <1>3, <2>1, HandlerKeeps DEF HandlerPrints
<1>4. CASE KeyInterrupt
  <2>1. UNCHANGED <<pc, reg>>
    BY <1>4 DEF KeyInterrupt
  <2>2. CASE UNCHANGED <<x, y, cell>>
    BY <2>1, <2>2 DEF CursorInv, CellInv
  <2>3. CASE MoveTo(Newline(Cursor)) /\ UNCHANGED cell
    BY <1>1, <2>1, <2>3, TurnOnScreen, HandlerKeeps
  <2>4. CASE PutCharacters(1)
    <3>1. cell' = Width * y + x
      BY <1>1, <2>4, NumberOnScreen DEF PutCharacters
    <3> QED
      BY <1>1, <2>1, <2>4, <3>1, NumberOnScreen, HandlerKeeps DEF PutCharacters
  <2>5. CASE PutCharacters(NumberLength)
    BY <1>1, <2>1, <2>5, NumberOnScreen, HandlerKeeps DEF PutCharacters
  <2> QED
    BY <1>4, <2>2, <2>3, <2>4, <2>5 DEF KeyInterrupt, Echo
<1>5. CASE Begin \/ Kernel
  <2>1. CursorInv'
    BY <1>5, ScreenAssumption DEF CursorInv, Begin, Kernel, Goto, LoadRow, Put, LoadX, StoreX,
       TestX, ZeroX, LoadY, StoreY, TestY, HomeX, HomeY
  <2>2. CASE Put
    <3>1. reg \in Nat /\ reg <= Height /\ x \in Nat /\ x < Width
      BY <2>2, ScreenAssumption DEF CursorInv, Put, Goto
    <3> QED
      BY <2>1, <2>2, <3>1, CellInRow DEF Put, CellInv
  <2>3. CASE cell' = cell
    BY <2>1, <2>3 DEF CellInv
  <2> QED
    BY <1>5, <2>2, <2>3 DEF Begin, Kernel, LoadRow, LoadX, StoreX,
       TestX, ZeroX, LoadY, StoreY, TestY, HomeX, HomeY
<1> QED
  BY <1>2, <1>3, <1>4, <1>5 DEF TermNext, termVars, vars, KeyMoves

-----------------------------------------------------------------------------
(* Whatever handlers print between the kernel's accesses to the cursor      *)
(* (kernel.cpp: the static variables of printf), it is on the screen when   *)
(* the kernel's context is done with its character.                         *)
THEOREM CursorComesBack == TermSpec => []CursorRecovers
<1>1. TermInit => CursorInv /\ CellInv
  BY CursorInvInit
<1>2. CursorInv /\ CellInv /\ [TermNext]_termVars => CursorInv' /\ CellInv'
  BY CursorInvNext
<1>3. CursorInv => CursorRecovers
  BY ScreenAssumption DEF CursorInv, CursorRecovers
<1> QED
  BY <1>1, <1>2, <1>3, PTL DEF TermSpec

(* No character lands beyond the row that follows the screen in the video   *)
(* memory, however loads and stores interleave.                             *)
THEOREM CharactersStayNear == TermSpec => []StraysOneRow
<1>1. TermInit => CursorInv /\ CellInv
  BY CursorInvInit
<1>2. CursorInv /\ CellInv /\ [TermNext]_termVars => CursorInv' /\ CellInv'
  BY CursorInvNext
<1>3. CellInv => StraysOneRow
  BY DEF CellInv, StraysOneRow
<1> QED
  BY <1>1, <1>2, <1>3, PTL DEF TermSpec
=============================================================================
