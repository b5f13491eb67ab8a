----------------------------- MODULE MouseProofs -----------------------------
(***************************************************************************)
(* Proofs about the mouse driver with its two handlers, for every size of   *)
(* the screens and the windows, every sensitivity, every stream of bytes    *)
(* and every number of lost ones.                                           *)
(***************************************************************************)
EXTENDS Mouse, NumberLemmas, SequenceTheorems, TLAPS

-----------------------------------------------------------------------------
(* The calls of an interrupt. *)

ButtonCall == {Up(b) : b \in Button} \cup {Down(b) : b \in Button}
Calling == {Move(dx, dy) : dx \in Int, dy \in Int} \cup ButtonCall

(* Only the first call tells of a motion. *)
MotionFirst(cs) == \A i \in 1 .. Len(cs) : i # 1 => cs[i] \in ButtonCall

DriverInv ==
    /\ buf \in Seq(Byte) /\ Len(buf) < 3
    /\ held \subseteq Button

(* Of button 1, an interrupt tells the handler what the driver then holds.  *)
Told ==
    /\ calls' \in Seq(Calling) /\ MotionFirst(calls')
    /\ (\E i \in 1 .. Len(calls') : calls'[i] = Down(1)) => 1 \in held'
    /\ 1 \in held /\ 1 \notin held' => \E i \in 1 .. Len(calls') : calls'[i] = Up(1)

LEMMA CallKinds ==
    /\ \A c \in ButtonCall : c \in Calling /\ c.call # "on_move"
    /\ \A b \in Button : Up(b) \in ButtonCall /\ Down(b) \in ButtonCall
    /\ \A dx, dy, b : Move(dx, dy) # Down(b)
    /\ \A a, b : Up(a) # Down(b) /\ (a # b => Up(a) # Up(b) /\ Down(a) # Down(b))
BY DEF ButtonCall, Calling, Up, Down, Move, Button

LEMMA ChangeIs ==
    ASSUME NEW b \in Button, NEW f
    PROVE  /\ Change(b, f) \in Seq(ButtonCall)
           /\ \A i \in 1 .. Len(Change(b, f)) :
                 /\ Change(b, f)[i] \in {Up(b), Down(b)}
                 /\ Change(b, f)[i] = Down(b) => b \in HeldIn(f)
           /\ b \in held /\ b \notin HeldIn(f) => Change(b, f) = <<Up(b)>>
<1>1. Up(b) \in ButtonCall /\ Down(b) \in ButtonCall /\ Up(b) # Down(b)
  BY CallKinds
<1>2. CASE b \in HeldIn(f) <=> b \in held
  BY <1>2 DEF Change
<1>3. CASE b \in held /\ b \notin HeldIn(f)
  <2>1. Change(b, f) = <<Up(b)>>
    BY <1>3 DEF Change
  <2> QED
    BY <1>1, <1>3, <2>1
<1>4. CASE b \notin held /\ b \in HeldIn(f)
  <2>1. Change(b, f) = <<Down(b)>>
    BY <1>4 DEF Change
  <2> QED
    BY <1>1, <1>4, <2>1
<1> QED
  BY <1>2, <1>3, <1>4

(* The calls t of buttons, after the calls s. *)
LEMMA Joined ==
    ASSUME NEW s \in Seq(Calling), MotionFirst(s),
           NEW t \in Seq(Calling), \A i \in 1 .. Len(t) : t[i] \in ButtonCall
    PROVE  /\ s \o t \in Seq(Calling) /\ MotionFirst(s \o t)
           /\ \A i \in 1 .. Len(s \o t) :
                 \/ \E j \in 1 .. Len(s) : (s \o t)[i] = s[j]
                 \/ \E j \in 1 .. Len(t) : (s \o t)[i] = t[j]
           /\ \A j \in 1 .. Len(s) : \E i \in 1 .. Len(s \o t) : (s \o t)[i] = s[j]
           /\ \A j \in 1 .. Len(t) : \E i \in 1 .. Len(s \o t) : (s \o t)[i] = t[j]
<1> DEFINE u == s \o t   m == Len(s)   n == Len(t)
<1>1. m \in Nat /\ n \in Nat
  BY LenProperties
<1>2. /\ u \in Seq(Calling) /\ Len(u) = m + n
      /\ \A i \in 1 .. m + n : u[i] = IF i <= m THEN s[i] ELSE t[i - m]
  BY ConcatProperties, Zenon
<1> HIDE DEF u
<1>3. ASSUME NEW i \in 1 .. Len(u)
      PROVE  \/ i \in 1 .. m /\ u[i] = s[i]
             \/ i # 1 /\ i - m \in 1 .. n /\ u[i] = t[i - m]
             \/ m = 0 /\ i \in 1 .. n /\ u[i] = t[i]
  <2> HIDE DEF m, n
  <2> QED
    BY <1>1, <1>2
<1>4. MotionFirst(u)
  <2> SUFFICES ASSUME NEW i \in 1 .. Len(u), i # 1 PROVE u[i] \in ButtonCall
    BY DEF MotionFirst
  <2> QED
    BY <1>3 DEF MotionFirst
<1>5. ASSUME NEW j \in 1 .. m PROVE j \in 1 .. Len(u) /\ u[j] = s[j]
  <2> HIDE DEF m, n
  <2> QED
    BY <1>1, <1>2
<1>6. ASSUME NEW j \in 1 .. n PROVE j + m \in 1 .. Len(u) /\ u[j + m] = t[j]
  <2> HIDE DEF m, n
  <2>1. j + m \in 1 .. Len(u) /\ ~(j + m <= m) /\ (j + m) - m = j
    BY <1>1, <1>2
  <2> QED
    BY <1>2, <2>1
<1>7. /\ u \in Seq(Calling) /\ MotionFirst(u)
      /\ \A i \in 1 .. Len(u) :
            (\E j \in 1 .. m : u[i] = s[j]) \/ (\E j \in 1 .. n : u[i] = t[j])
      /\ \A j \in 1 .. m : \E i \in 1 .. Len(u) : u[i] = s[j]
      /\ \A j \in 1 .. n : \E i \in 1 .. Len(u) : u[i] = t[j]
  BY <1>2, <1>3, <1>4, <1>5, <1>6
<1> QED
  BY <1>7 DEF u

LEMMA Bytes ==
    ASSUME NEW v \in Byte
    PROVE  Signed(v) \in Int /\ Negated(v) \in Int
BY MouseAssumption DEF Byte, Signed, Negated

LEMMA CallsAre ==
    ASSUME NEW p, p[2] \in Byte, p[3] \in Byte
    PROVE  /\ CallsOf(p) \in Seq(Calling) /\ MotionFirst(CallsOf(p))
           /\ \A i \in 1 .. Len(CallsOf(p)) : CallsOf(p)[i] = Down(1) => 1 \in HeldIn(p[1])
           /\ 1 \in held /\ 1 \notin HeldIn(p[1]) =>
                 \E i \in 1 .. Len(CallsOf(p)) : CallsOf(p)[i] = Up(1)
<1> DEFINE m == IF p[2] # 0 \/ p[3] # 0 THEN <<Move(Signed(p[2]), Negated(p[3]))>> ELSE <<>>
           a == Change(1, p[1])   b == Change(2, p[1])   c == Change(3, p[1])
           ma == m \o a   mab == ma \o b   mabc == mab \o c
<1>1. /\ m \in Seq(Calling) /\ MotionFirst(m)
      /\ \A i \in 1 .. Len(m) : m[i] # Down(1)
  <2> DEFINE dx == Signed(p[2])   dy == Negated(p[3])
  <2>1. Move(dx, dy) \in Calling /\ Move(dx, dy) # Down(1)
    <3>1. dx \in Int /\ dy \in Int
      BY Bytes
    <3> HIDE DEF dx, dy
    <3> QED
      BY <3>1, CallKinds DEF Calling
  <2> HIDE DEF dx, dy
  <2>2. CASE m = <<Move(dx, dy)>>
    BY <2>1, <2>2 DEF MotionFirst
  <2>3. CASE m = <<>>
    BY <2>3 DEF MotionFirst
  <2> QED
    BY <2>2, <2>3 DEF dx, dy
<1>2. a \in Seq(ButtonCall) /\ b \in Seq(ButtonCall) /\ c \in Seq(ButtonCall)
  BY ChangeIs DEF Button
<1>3. /\ \A i \in 1 .. Len(a) : a[i] = Down(1) => 1 \in HeldIn(p[1])
      /\ \A i \in 1 .. Len(b) : b[i] # Down(1)
      /\ \A i \in 1 .. Len(c) : c[i] # Down(1)
      /\ 1 \in held /\ 1 \notin HeldIn(p[1]) => a = <<Up(1)>>
  <2>1. ASSUME NEW i \in 1 .. Len(b) PROVE b[i] # Down(1)
    <3>1. b[i] \in {Up(2), Down(2)}
      BY ChangeIs DEF Button
    <3> QED
      BY <3>1, CallKinds
  <2>2. ASSUME NEW i \in 1 .. Len(c) PROVE c[i] # Down(1)
    <3>1. c[i] \in {Up(3), Down(3)}
      BY ChangeIs DEF Button
    <3> QED
      BY <3>1, CallKinds
  <2> QED
    BY <2>1, <2>2, ChangeIs DEF Button
<1> HIDE DEF m, a, b, c
<1>4. /\ a \in Seq(Calling) /\ \A i \in 1 .. Len(a) : a[i] \in ButtonCall
      /\ b \in Seq(Calling) /\ \A i \in 1 .. Len(b) : b[i] \in ButtonCall
      /\ c \in Seq(Calling) /\ \A i \in 1 .. Len(c) : c[i] \in ButtonCall
  <2>1. ButtonCall \subseteq Calling
    BY DEF Calling
  <2> QED
    BY <1>2, <2>1, SeqMonotonic, ElementOfSeq
<1>5. ma \in Seq(Calling) /\ MotionFirst(ma)
  BY <1>1, <1>4, Joined
<1>6. /\ \A i \in 1 .. Len(ma) : ma[i] = Down(1) => 1 \in HeldIn(p[1])
      /\ 1 \in held /\ 1 \notin HeldIn(p[1]) => \E i \in 1 .. Len(ma) : ma[i] = Up(1)
  <2>1. /\ \A i \in 1 .. Len(ma) :
              \/ \E j \in 1 .. Len(m) : ma[i] = m[j]
              \/ \E j \in 1 .. Len(a) : ma[i] = a[j]
        /\ \A j \in 1 .. Len(a) : \E i \in 1 .. Len(ma) : ma[i] = a[j]
    BY <1>1, <1>4, Joined, Zenon
  <2> HIDE DEF ma
  <2>2. a = <<Up(1)>> => 1 \in 1 .. Len(a) /\ a[1] = Up(1)
    OBVIOUS
  <2> QED
    BY <1>1, <1>3, <2>1, <2>2
<1> HIDE DEF ma
<1>7. mab \in Seq(Calling) /\ MotionFirst(mab)
  BY <1>4, <1>5, Joined
<1>8. /\ \A i \in 1 .. Len(mab) : mab[i] = Down(1) => 1 \in HeldIn(p[1])
      /\ 1 \in held /\ 1 \notin HeldIn(p[1]) => \E i \in 1 .. Len(mab) : mab[i] = Up(1)
  <2>1. /\ \A i \in 1 .. Len(mab) :
              \/ \E j \in 1 .. Len(ma) : mab[i] = ma[j]
              \/ \E j \in 1 .. Len(b) : mab[i] = b[j]
        /\ \A j \in 1 .. Len(ma) : \E i \in 1 .. Len(mab) : mab[i] = ma[j]
    BY <1>4, <1>5, Joined, Zenon
  <2> HIDE DEF mab
  <2> QED
    BY <1>3, <1>6, <2>1
<1> HIDE DEF mab
<1>9. mabc \in Seq(Calling) /\ MotionFirst(mabc)
  BY <1>4, <1>7, Joined
<1>10. /\ \A i \in 1 .. Len(mabc) : mabc[i] = Down(1) => 1 \in HeldIn(p[1])
       /\ 1 \in held /\ 1 \notin HeldIn(p[1]) => \E i \in 1 .. Len(mabc) : mabc[i] = Up(1)
  <2>1. /\ \A i \in 1 .. Len(mabc) :
              \/ \E j \in 1 .. Len(mab) : mabc[i] = mab[j]
              \/ \E j \in 1 .. Len(c) : mabc[i] = c[j]
        /\ \A j \in 1 .. Len(mab) : \E i \in 1 .. Len(mabc) : mabc[i] = mab[j]
    BY <1>4, <1>7, Joined, Zenon
  <2> HIDE DEF mabc
  <2> QED
    BY <1>3, <1>8, <2>1
<1>11. CallsOf(p) = mabc
  BY DEF CallsOf, m, a, b, c, ma, mab
<1> HIDE DEF mabc
<1> QED
  BY <1>9, <1>10, <1>11

LEMMA DriverStep ==
    ASSUME DriverInv, Interrupt \/ Lose
    PROVE  DriverInv' /\ Told
<1>1. CASE Lose
  <2>1. calls' = <<>> /\ buf' = buf /\ held' = held
    BY <1>1 DEF Lose
  <2>2. <<>> \in Seq(Calling) /\ Len(<<>>) = 0
    BY EmptySeq
  <2> QED
    BY <2>1, <2>2 DEF DriverInv, Told, MotionFirst
<1>2. CASE Interrupt
  <2>1. PICK byte \in Byte : Receive(byte)
    BY <1>2 DEF Interrupt
  <2> DEFINE frame == Append(buf, byte)
  <2>2. /\ frame \in Seq(Byte) /\ Len(frame) = Len(buf) + 1 /\ Len(buf) \in Nat
        /\ Len(frame) = 3 => frame[2] \in Byte /\ frame[3] \in Byte
    BY DEF DriverInv
  <2> HIDE DEF frame
  <2>3. IF Len(frame) < 3
        THEN buf' = frame /\ calls' = <<>> /\ held' = held
        ELSE buf' = <<>> /\ calls' = CallsOf(frame) /\ held' = HeldIn(frame[1])
    BY <2>1 DEF Receive, frame
  <2>4. CASE Len(frame) < 3
    <3>1. <<>> \in Seq(Calling) /\ Len(<<>>) = 0
      BY EmptySeq
    <3> QED
      BY <2>2, <2>3, <2>4, <3>1 DEF DriverInv, Told, MotionFirst
  <2>5. CASE ~(Len(frame) < 3)
    <3>1. Len(frame) = 3
      BY <2>2, <2>5 DEF DriverInv
    <3>2. <<>> \in Seq(Byte) /\ Len(<<>>) = 0 /\ HeldIn(frame[1]) \subseteq Button
      BY EmptySeq DEF HeldIn
    <3>3. DriverInv'
      BY <2>3, <2>5, <3>2 DEF DriverInv
    <3>4. Told
      BY <2>2, <2>3, <2>5, <3>1, CallsAre DEF Told
    <3> QED
      BY <3>3, <3>4
  <2> QED
    BY <2>4, <2>5
<1> QED
  BY <1>1, <1>2

-----------------------------------------------------------------------------
(* The text screen. *)

MouseAt == [x : 0 .. (Width - 1), y : 0 .. (Height - 1), accumX : Int, accumY : Int]
Colours == {"plain", "inverse", "white"}
Colouring == [T!Cell -> Colours]
TextState == [mouse : MouseAt, colour : Colouring, clicked : SUBSET T!Cell]

(* Outside W the cells of S, and no others, have their colours swapped.      *)
Inverted(colours, S, W) ==
    \A c \in T!Cell \ W : colours[c] = IF c \in S THEN "inverse" ELSE "plain"

Trails(s, W) == Inverted(s.colour, T!Toggled(s.clicked, T!At(s.mouse)), W)

LEMMA TextSizes ==
    /\ Width \in Nat \ {0} /\ Height \in Nat \ {0} /\ Sens \in Nat \ {0}
    /\ MaxPrints \in Nat
BY HandlersAssumption DEF T!TextAssumption

LEMMA Toggles ==
    ASSUME NEW S, NEW c, NEW d
    PROVE  /\ T!Toggled(T!Toggled(S, c), c) = S
           /\ T!Toggled(T!Toggled(S, c), d) = T!Toggled(T!Toggled(S, d), c)
BY DEF T!Toggled, T!SymDiff

LEMMA SwapShows ==
    ASSUME NEW colours \in Colouring, NEW d \in T!Cell, NEW S, NEW W
    PROVE  /\ T!Swapped(colours, d) \in Colouring
           /\ Inverted(colours, S, W) => Inverted(T!Swapped(colours, d), T!Toggled(S, d), W)
<1>1. \A k \in Colours : T!SwapOf[k] = IF k = "plain" THEN "inverse"
                                       ELSE IF k = "inverse" THEN "plain" ELSE "white"
  BY DEF T!SwapOf, Colours
<1>2. \A c \in T!Cell : /\ colours[c] \in Colours
                       /\ T!Swapped(colours, d)[c] = IF c = d THEN T!SwapOf[colours[d]]
                                                    ELSE colours[c]
  BY DEF T!Swapped, Colouring
<1>3. T!Swapped(colours, d) \in Colouring
  <2>1. T!SwapOf[colours[d]] \in Colours
    BY <1>1, <1>2 DEF Colours
  <2> QED
    BY <2>1 DEF T!Swapped, Colouring
<1>4. ASSUME Inverted(colours, S, W), NEW c \in T!Cell \ W
      PROVE  T!Swapped(colours, d)[c] = IF c \in T!Toggled(S, d) THEN "inverse" ELSE "plain"
  <2>1. colours[c] = IF c \in S THEN "inverse" ELSE "plain"
    BY <1>4 DEF Inverted
  <2>2. c \in T!Toggled(S, d) <=> IF c = d THEN c \notin S ELSE c \in S
    BY DEF T!Toggled, T!SymDiff
  <2>3. CASE c = d
    BY <1>1, <1>2, <2>1, <2>2, <2>3 DEF Colours
  <2>4. CASE c # d
    BY <1>2, <2>1, <2>2, <2>4
  <2> QED
    BY <2>3, <2>4
<1> QED
  BY <1>3, <1>4 DEF Inverted

LEMMA MouseCell == ASSUME NEW m \in MouseAt PROVE T!At(m) \in T!Cell
BY DEF MouseAt, T!At, T!Cell

LEMMA TurnsTyped ==
    ASSUME NEW a \in Int, NEW s \in Nat \ {0}
    PROVE  T!Turns(a, s) \in Int
BY DEF T!Turns

LEMMA MovedTyped ==
    ASSUME NEW m \in MouseAt, NEW dx \in Int, NEW dy \in Int
    PROVE  T!Moved(m, dx, dy) \in MouseAt
<1> DEFINE ax == m.accumX + dx   ay == m.accumY + dy
           tx == T!Turns(ax, Sens)   ty == T!Turns(ay, 2 * Sens)
<1>1. ax \in Int /\ ay \in Int /\ Sens \in Nat \ {0} /\ 2 * Sens \in Nat \ {0}
  BY TextSizes DEF MouseAt
<1> HIDE DEF ax, ay
<1>2. tx \in Int /\ ty \in Int
  BY <1>1, TurnsTyped
<1> HIDE DEF tx, ty
<1>3. /\ T!Clamped(m.x + tx, Width) \in 0 .. (Width - 1)
      /\ T!Clamped(m.y + ty, Height) \in 0 .. (Height - 1)
  BY <1>2, TextSizes DEF T!Clamped, MouseAt
<1>4. ax - Sens * tx \in Int /\ ay - 2 * Sens * ty \in Int
  BY <1>1, <1>2
<1>5. T!Moved(m, dx, dy) = [x |-> T!Clamped(m.x + tx, Width), y |-> T!Clamped(m.y + ty, Height),
                            accumX |-> ax - Sens * tx, accumY |-> ay - 2 * Sens * ty]
  BY Zenon DEF T!Moved, ax, ay, tx, ty
<1> QED
  BY <1>3, <1>4, <1>5 DEF MouseAt

(* A call leaves no trail but that of a click.                              *)
LEMMA TextCall ==
    ASSUME NEW s \in TextState, NEW c \in Calling, NEW W
    PROVE  /\ T!Call(s, c) \in TextState
           /\ Trails(s, W) => Trails(T!Call(s, c), W)
           /\ T!Call(s, c).mouse = IF c.call = "on_move" THEN T!Moved(s.mouse, c.dx, c.dy)
                                   ELSE s.mouse
<1> DEFINE at == T!At(s.mouse)
<1>1. s.mouse \in MouseAt /\ s.colour \in Colouring /\ s.clicked \subseteq T!Cell
  BY DEF TextState
<1>2. at \in T!Cell
  BY <1>1, MouseCell
<1>3. CASE c.call = "on_move"
  <2>1. PICK dx \in Int, dy \in Int : c = Move(dx, dy)
    BY <1>3, CallKinds DEF Calling
  <2> DEFINE m == T!Moved(s.mouse, dx, dy)
             K == T!Swapped(s.colour, at)
             L == T!Swapped(K, T!At(m))
  <2>2. c.dx = dx /\ c.dy = dy
    BY <2>1 DEF Move
  <2>3. m \in MouseAt /\ T!At(m) \in T!Cell
    BY <1>1, MovedTyped, MouseCell
  <2>4. T!Call(s, c) = [s EXCEPT !.mouse = m, !.colour = L]
    BY <1>3, <2>2, Zenon DEF T!Call, T!OnMove
  <2> HIDE DEF m, at
  <2>5. K \in Colouring
    BY <1>1, <1>2, SwapShows
  <2>6. ASSUME Trails(s, W) PROVE Inverted(K, s.clicked, W)
    <3>1. Inverted(s.colour, T!Toggled(s.clicked, at), W)
      BY <2>6 DEF Trails, at
    <3>2. Inverted(K, T!Toggled(T!Toggled(s.clicked, at), at), W)
      BY <1>1, <1>2, <3>1, SwapShows
    <3> QED
      BY <3>2, Toggles
  <2> HIDE DEF K
  <2>7. L \in Colouring /\ (Inverted(K, s.clicked, W) => Inverted(L, T!Toggled(s.clicked, T!At(m)), W))
    BY <2>3, <2>5, SwapShows
  <2> HIDE DEF L
  <2>8. /\ T!Call(s, c) \in TextState /\ T!Call(s, c).mouse = m
        /\ T!Call(s, c).colour = L /\ T!Call(s, c).clicked = s.clicked
    BY <2>3, <2>4, <2>7 DEF TextState
  <2> QED
    BY <1>3, <2>2, <2>6, <2>7, <2>8 DEF Trails, m
<1>4. CASE c.call # "on_move"
  <2> DEFINE K == T!Swapped(s.colour, at)   C == T!Toggled(s.clicked, at)
  <2>1. T!Call(s, c) = [s EXCEPT !.colour = K, !.clicked = C]
    BY <1>4, Zenon DEF T!Call, T!OnButton
  <2> HIDE DEF at
  <2>2. C \in SUBSET T!Cell
    BY <1>1, <1>2 DEF T!Toggled, T!SymDiff
  <2>3. K \in Colouring /\ (Inverted(s.colour, C, W) => Inverted(K, T!Toggled(C, at), W))
    BY <1>1, <1>2, SwapShows
  <2>4. Trails(s, W) => Inverted(s.colour, C, W)
    BY DEF Trails, at
  <2> HIDE DEF K, C
  <2>5. /\ T!Call(s, c) \in TextState /\ T!Call(s, c).mouse = s.mouse
        /\ T!Call(s, c).colour = K /\ T!Call(s, c).clicked = C
    BY <2>1, <2>2, <2>3 DEF TextState
  <2> QED
    BY <1>4, <2>3, <2>4, <2>5 DEF Trails, at
<1> QED
  BY <1>3, <1>4

(* So do the calls of an interrupt, of which only the first can move the    *)
(* cursor.                                                                  *)
LEMMA TextCalls ==
    ASSUME NEW s \in TextState, NEW cs \in Seq(Calling), MotionFirst(cs), NEW W
    PROVE  /\ T!Called(s, cs) \in TextState
           /\ Trails(s, W) => Trails(T!Called(s, cs), W)
           /\ cs = <<>> => T!Called(s, cs) = s
           /\ \/ cs # <<>> /\ cs[1].call = "on_move"
                 /\ T!Called(s, cs).mouse = T!Moved(s.mouse, cs[1].dx, cs[1].dy)
              \/ (cs = <<>> \/ cs[1].call # "on_move") /\ T!Called(s, cs).mouse = s.mouse
<1> DEFINE N == Len(cs)
           f == [i \in 1 .. N |-> [t \in TextState |-> T!Call(t, cs[i])]]
           Defines(w) == w = [n \in 0 .. Len(cs) |-> IF n = 0 THEN s ELSE T!Call(w[n - 1], cs[n])]
<1>1. N \in Nat /\ \A i \in 1 .. N : cs[i] \in Calling
  BY LenProperties, ElementOfSeq
<1>2. f \in [1 .. N -> [TextState -> TextState]]
  BY <1>1, TextCall
<1>3. PICK g \in [0 .. N -> TextState] : Composes(g, N, f, s)
  <2> HIDE DEF N, f
  <2> QED
    BY <1>1, <1>2, ComposeStays
<1>4. Defines(g)
  <2>1. ASSUME NEW n \in 0 .. N
        PROVE  (IF n = 0 THEN s ELSE f[n][g[n - 1]])
                   = (IF n = 0 THEN s ELSE T!Call(g[n - 1], cs[n]))
    <3>1. n # 0 => n \in 1 .. N /\ n - 1 \in 0 .. N
      BY <1>1
    <3> QED
      BY <1>3, <3>1
  <2>2. g = [n \in 0 .. N |-> IF n = 0 THEN s ELSE f[n][g[n - 1]]]
    BY <1>3 DEF Composes
  <2> HIDE DEF f
  <2> QED
    BY <1>1, <2>1, <2>2
<1> DEFINE w == CHOOSE v : Defines(v)
<1>5. Defines(w)
  <2> HIDE DEF Defines
  <2> QED
    BY <1>4
<1>6. T!Called(s, cs) = w[N]
  BY Zenon DEF T!Called
<1> HIDE DEF w, f
<1>7. w[0] = s /\ \A n \in 1 .. N : w[n] = T!Call(w[n - 1], cs[n])
  BY <1>1, <1>5
<1> HIDE DEF Defines
<1> DEFINE Moves == cs[1].call = "on_move"
           m == IF Moves THEN T!Moved(s.mouse, cs[1].dx, cs[1].dy) ELSE s.mouse
           S == {n \in 0 .. N : /\ w[n] \in TextState
                                /\ Trails(s, W) => Trails(w[n], W)
                                /\ w[n].mouse = IF n = 0 THEN s.mouse ELSE m}
<1>8. 0 \in S
  BY <1>1, <1>7
<1>9. ASSUME NEW n \in 1 .. N, n - 1 \in S
      PROVE  n \in S
  <2>1. cs[n] \in Calling /\ w[n] = T!Call(w[n - 1], cs[n])
    BY <1>1, <1>7
  <2>2. /\ w[n - 1] \in TextState
        /\ Trails(s, W) => Trails(w[n - 1], W)
        /\ w[n - 1].mouse = IF n = 1 THEN s.mouse ELSE m
    BY <1>1, <1>9
  <2>3. n # 1 => cs[n].call # "on_move"
    BY <1>1, CallKinds DEF MotionFirst
  <2>4. /\ w[n] \in TextState
        /\ Trails(w[n - 1], W) => Trails(w[n], W)
        /\ w[n].mouse = IF cs[n].call = "on_move"
                        THEN T!Moved(w[n - 1].mouse, cs[n].dx, cs[n].dy) ELSE w[n - 1].mouse
    <3> DEFINE t == w[n - 1]   c == cs[n]
    <3>1. t \in TextState /\ c \in Calling /\ w[n] = T!Call(t, c)
      BY <2>1, <2>2
    <3> HIDE DEF t, c
    <3>2. /\ w[n] \in TextState
          /\ Trails(t, W) => Trails(w[n], W)
          /\ w[n].mouse = IF c.call = "on_move" THEN T!Moved(t.mouse, c.dx, c.dy) ELSE t.mouse
      BY <3>1, TextCall
    <3> QED
      BY <3>2 DEF t, c
  <2>5. w[n].mouse = m
    BY <2>2, <2>3, <2>4
  <2>6. n \in 0 .. N /\ n # 0
    BY <1>1
  <2> QED
    BY <2>2, <2>4, <2>5, <2>6, Zenon
<1> HIDE DEF S
<1>10. 0 .. N \subseteq S
  BY <1>1, <1>8, <1>9, UpTo
<1>11. N \in S
  BY <1>1, <1>10
<1>12. cs = <<>> <=> N = 0
  BY EmptySeq
<1> QED
  BY <1>6, <1>7, <1>11, <1>12 DEF S

(* The driver is the same in both handlers' modules.                        *)
LEMMA TextDriver ==
    /\ T!Interrupt <=> Interrupt
    /\ T!Lose <=> Lose
<1>1. T!Byte = Byte /\ T!Packet = Packet
  BY DEF T!Byte, Byte, T!Packet, Packet
<1>2. \A byte : T!Sends(byte) <=> Sends(byte)
  BY <1>1, Zenon DEF T!Sends, Sends
<1>3. \A f : T!HeldIn(f) = HeldIn(f)
  BY Zenon DEF T!HeldIn, HeldIn, T!Button, Button
<1>4. \A b, f : T!Change(b, f) = Change(b, f)
  BY <1>3, Zenon DEF T!Change, Change, T!Up, Up, T!Down, Down
<1>5. \A v : T!Signed(v) = Signed(v) /\ T!Negated(v) = Negated(v)
  BY Zenon DEF T!Signed, Signed, T!Negated, Negated
<1>6. \A p : T!CallsOf(p) = CallsOf(p)
  BY <1>4, <1>5, Zenon DEF T!CallsOf, CallsOf, T!Move, Move
<1>7. \A byte : T!Receive(byte) <=> Receive(byte)
  BY <1>3, <1>6, Zenon DEF T!Receive, Receive
<1>8. T!Interrupt <=> Interrupt
  BY <1>1, <1>2, <1>7, Zenon DEF T!Interrupt, Interrupt
<1>9. T!Lose <=> Lose
  BY <1>1, <1>2, Zenon DEF T!Lose, Lose
<1> QED
  BY <1>8, <1>9

(* What a print has loaded is what its cell holds, until a handler hits it.  *)
TextInv ==
    /\ mouse \in MouseAt /\ colour \in Colouring /\ clicked \subseteq T!Cell
    /\ printing \in [active : BOOLEAN, cell : T!Cell, colour : Colours, hit : BOOLEAN]
    /\ Inverted(colour, T!Toggled(clicked, T!At(mouse)), overwritten)
    /\ printing.active /\ ~printing.hit => colour[printing.cell] = printing.colour

Handler == [mouse |-> mouse, colour |-> colour, clicked |-> clicked]

LEMMA NotPrintingTyped ==
    T!NotPrinting \in [active : {FALSE}, cell : T!Cell, colour : Colours, hit : {FALSE}]
BY TextSizes DEF T!NotPrinting, T!Cell, Colours

LEMMA TextStart == T!Init => DriverInv /\ TextInv
<1> SUFFICES ASSUME T!Init PROVE DriverInv /\ TextInv
  OBVIOUS
<1>1. /\ buf = <<>> /\ held = {} /\ clicked = {} /\ printing = T!NotPrinting
      /\ colour = [c \in T!Cell |-> IF c = T!At(mouse) THEN "inverse" ELSE "plain"]
  BY DEF T!Init, T!DriverInit
<1>2. mouse = [x |-> Width \div 2, y |-> Height \div 2, accumX |-> 0, accumY |-> 0]
  BY DEF T!Init
<1>3. Width \div 2 \in 0 .. (Width - 1) /\ Height \div 2 \in 0 .. (Height - 1)
  BY TextSizes
<1>4. mouse \in MouseAt
  BY <1>2, <1>3 DEF MouseAt
<1>5. DriverInv
  BY <1>1, EmptySeq DEF DriverInv
<1>6. colour \in Colouring /\ Inverted(colour, T!Toggled(clicked, T!At(mouse)), overwritten)
  BY <1>1 DEF Colouring, Colours, Inverted, T!Toggled, T!SymDiff
<1> QED
  BY <1>1, <1>4, <1>5, <1>6, NotPrintingTyped DEF TextInv

(* What an interrupt does to the text screen.                               *)
LEMMA TextMouseStep ==
    ASSUME DriverInv, TextInv, T!MouseStep
    PROVE  /\ DriverInv' /\ TextInv'
           /\ Told
           /\ \/ calls' # <<>> /\ calls'[1].call = "on_move"
                 /\ mouse' = T!Moved(mouse, calls'[1].dx, calls'[1].dy)
              \/ (calls' = <<>> \/ calls'[1].call # "on_move") /\ mouse' = mouse
<1>1. DriverInv' /\ Told
  <2>1. Interrupt \/ Lose
    BY TextDriver DEF T!MouseStep
  <2> QED
    BY <2>1, DriverStep
<1> DEFINE after == T!Called(Handler, calls')
<1>2. Handler \in TextState /\ Trails(Handler, overwritten) /\ Handler.mouse = mouse
  BY DEF Handler, TextState, TextInv, Trails
<1>3. calls' \in Seq(Calling) /\ MotionFirst(calls')
  BY <1>1 DEF Told
<1>4. /\ after \in TextState /\ Trails(after, overwritten)
      /\ calls' = <<>> => after = Handler
      /\ \/ calls' # <<>> /\ calls'[1].call = "on_move"
            /\ after.mouse = T!Moved(Handler.mouse, calls'[1].dx, calls'[1].dy)
         \/ (calls' = <<>> \/ calls'[1].call # "on_move") /\ after.mouse = Handler.mouse
  BY <1>2, <1>3, TextCalls
<1>5. mouse' = after.mouse /\ colour' = after.colour /\ clicked' = after.clicked
  BY Zenon DEF T!MouseStep, T!Handle, Handler
<1> HIDE DEF after
<1>6. /\ mouse' \in MouseAt /\ colour' \in Colouring /\ clicked' \subseteq T!Cell
      /\ Inverted(colour', T!Toggled(clicked', T!At(mouse')), overwritten)
      /\ calls' = <<>> => colour' = colour
  BY <1>4, <1>5 DEF TextState, Trails, Handler
<1>7. /\ overwritten' = overwritten
      /\ printing' = [printing EXCEPT !.hit = printing.active /\ (@ \/ calls' # <<>>)]
  BY DEF T!MouseStep
<1>8. /\ printing' \in [active : BOOLEAN, cell : T!Cell, colour : Colours, hit : BOOLEAN]
      /\ printing'.active = printing.active
      /\ printing'.cell = printing.cell /\ printing'.colour = printing.colour
      /\ printing'.hit = (printing.active /\ (printing.hit \/ calls' # <<>>))
  BY <1>7 DEF TextInv
<1>9. printing'.active /\ ~printing'.hit => colour'[printing'.cell] = printing'.colour
  BY <1>6, <1>8 DEF TextInv
<1>10. TextInv'
  BY <1>6, <1>7, <1>8, <1>9 DEF TextInv
<1> QED
  BY <1>1, <1>2, <1>4, <1>5, <1>10

(* A step of printf changes colours only of the cells it overwrites.        *)
LEMMA TextPrintStep ==
    ASSUME TextInv,
           \/ \E c \in T!Cell : T!PrintReads(c)
           \/ \E c \in T!Cell, high \in BOOLEAN : T!PrintWrites(c, high)
           \/ T!HandlerPrints
    PROVE  TextInv'
<1> USE DEF TextInv
<1>1. mouse' = mouse /\ clicked' = clicked
  BY DEF T!PrintReads, T!PrintWrites, T!HandlerPrints, T!NoCalls
<1>2. ASSUME NEW c \in T!Cell, T!PrintReads(c) PROVE TextInv'
  <2>1. colour' = colour /\ overwritten' = overwritten
    BY <1>2 DEF T!PrintReads
  <2>2. printing' = [active |-> TRUE, cell |-> c, colour |-> colour[c], hit |-> FALSE]
    BY <1>2 DEF T!PrintReads
  <2>3. colour[c] \in Colours
    BY DEF Colouring
  <2> QED
    BY <1>1, <2>1, <2>2, <2>3
<1>3. ASSUME NEW c \in T!Cell, NEW high \in BOOLEAN, T!PrintWrites(c, high) PROVE TextInv'
  <2>1. /\ printing.active /\ (c = printing.cell \/ printing.hit)
        /\ colour' = [colour EXCEPT ![c] = IF high THEN "white" ELSE printing.colour]
        /\ overwritten' = IF high \/ printing.hit THEN overwritten \cup {c} ELSE overwritten
        /\ printing' = T!NotPrinting
    BY <1>3 DEF T!PrintWrites
  <2>2. colour' \in Colouring
    BY <2>1 DEF Colouring, Colours
  <2>3. \A d \in T!Cell \ overwritten' : d \notin overwritten /\ colour'[d] = colour[d]
    BY <2>1 DEF Colouring
  <2>4. Inverted(colour', T!Toggled(clicked, T!At(mouse)), overwritten')
    BY <2>3 DEF Inverted
  <2> QED
    BY <1>1, <2>1, <2>2, <2>4, NotPrintingTyped
<1>4. ASSUME T!HandlerPrints PROVE TextInv'
  <2>1. printing' = [printing EXCEPT !.hit = printing.active]
    BY <1>4 DEF T!HandlerPrints
  <2>2. /\ printing' \in [active : BOOLEAN, cell : T!Cell, colour : Colours, hit : BOOLEAN]
        /\ printing'.active => printing'.hit
    BY <2>1
  <2>3. /\ colour' \in Colouring
        /\ \A d \in T!Cell \ overwritten' : d \notin overwritten /\ colour'[d] = colour[d]
    <3>1. CASE colour' = colour /\ overwritten' = overwritten
      BY <3>1
    <3>2. ASSUME NEW c \in T!Cell, colour' = [colour EXCEPT ![c] = "white"],
                 overwritten' = overwritten \cup {c}
          PROVE  /\ colour' \in Colouring
                 /\ \A d \in T!Cell \ overwritten' : d \notin overwritten /\ colour'[d] = colour[d]
      BY <3>2 DEF Colouring, Colours
    <3> QED
      BY <1>4, <3>1, <3>2 DEF T!HandlerPrints
  <2>4. Inverted(colour', T!Toggled(clicked, T!At(mouse)), overwritten')
    BY <2>3 DEF Inverted
  <2> QED
    BY <1>1, <2>2, <2>3, <2>4
<1> QED
  BY <1>2, <1>3, <1>4

(* What a step does to the text screen.                                     *)
LEMMA TextStep ==
    ASSUME DriverInv, TextInv, T!Next
    PROVE  /\ DriverInv' /\ TextInv'
           /\ Told
           /\ \/ calls' # <<>> /\ calls'[1].call = "on_move"
                 /\ mouse' = T!Moved(mouse, calls'[1].dx, calls'[1].dy)
              \/ (calls' = <<>> \/ calls'[1].call # "on_move") /\ mouse' = mouse
<1>1. CASE T!MouseStep
  BY <1>1, TextMouseStep
<1>2. CASE ~T!MouseStep
  <2>1. \/ \E c \in T!Cell : T!PrintReads(c)
        \/ \E c \in T!Cell, high \in BOOLEAN : T!PrintWrites(c, high)
        \/ T!HandlerPrints
    BY <1>2 DEF T!Next
  <2>2. calls' = <<>> /\ buf' = buf /\ held' = held /\ mouse' = mouse
    BY <2>1 DEF T!PrintReads, T!PrintWrites, T!HandlerPrints, T!NoCalls
  <2>3. DriverInv' /\ Told
    BY <2>2, EmptySeq DEF DriverInv, Told, MotionFirst
  <2> QED
    BY <2>1, <2>2, <2>3, TextPrintStep
<1> QED
  BY <1>1, <1>2

(* Along one axis: t cells of s each are taken from the motion d and what   *)
(* was left over, a.                                                        *)
LEMMA AxisSpent ==
    ASSUME NEW s \in Nat \ {0}, NEW W \in Nat \ {0}, NEW x \in 0 .. (W - 1),
           NEW t \in Int, NEW a \in Int, NEW d \in Int,
           NEW v, v = T!Clamped(x + t, W), NEW r, r = (a + d) - s * t
    PROVE  T!Spent(s * (v - x) + r - a, d, v, W - 1)
<1> DEFINE k == v - x   sk == s * k   st == s * t
<1>1. /\ v \in 0 .. (W - 1)
      /\ k = t \/ (v = 0 /\ k > t) \/ (v = W - 1 /\ k < t)
  BY DEF T!Clamped
<1>2. k \in Int
  BY <1>1
<1>3. sk \in Int /\ st \in Int /\ (k = t => sk = st) /\ (k > t => sk > st) /\ (k < t => sk < st)
  <2> HIDE DEF k
  <2>1. ASSUME k > t PROVE s * (k - t) > 0
    BY <1>2, <2>1
  <2>2. ASSUME k < t PROVE s * (t - k) > 0
    BY <1>2, <2>2
  <2> QED
    BY <1>2, <2>1, <2>2
<1> HIDE DEF k, sk, st
<1>4. r = (a + d) - st
  BY DEF st
<1>5. T!Spent(sk + r - a, d, v, W - 1)
  BY <1>1, <1>3, <1>4 DEF T!Spent
<1> QED
  BY <1>5 DEF k, sk

LEMMA MotionSpent ==
    ASSUME NEW m \in MouseAt, NEW dx \in Int, NEW dy \in Int,
           NEW n, n = T!Moved(m, dx, dy)
    PROVE  /\ T!Spent(Sens * (n.x - m.x) + n.accumX - m.accumX, dx, n.x, Width - 1)
           /\ T!Spent(2 * Sens * (n.y - m.y) + n.accumY - m.accumY, dy, n.y, Height - 1)
<1> DEFINE ax == m.accumX + dx   ay == m.accumY + dy
           tx == T!Turns(ax, Sens)   ty == T!Turns(ay, 2 * Sens)
<1>1. /\ Sens \in Nat \ {0} /\ 2 * Sens \in Nat \ {0}
      /\ Width \in Nat \ {0} /\ Height \in Nat \ {0}
      /\ m.x \in 0 .. (Width - 1) /\ m.y \in 0 .. (Height - 1)
      /\ m.accumX \in Int /\ m.accumY \in Int
  BY TextSizes DEF MouseAt
<1>2. ax \in Int /\ ay \in Int
  BY <1>1
<1> HIDE DEF ax, ay
<1>3. tx \in Int /\ ty \in Int
  BY <1>1, <1>2, TurnsTyped
<1> HIDE DEF tx, ty
<1>4. /\ n.x = T!Clamped(m.x + tx, Width) /\ n.accumX = ax - Sens * tx
      /\ n.y = T!Clamped(m.y + ty, Height) /\ n.accumY = ay - 2 * Sens * ty
  BY DEF T!Moved, ax, ay, tx, ty
<1>5. n.accumX = (m.accumX + dx) - Sens * tx /\ n.accumY = (m.accumY + dy) - 2 * Sens * ty
  BY <1>4 DEF ax, ay
<1>6. T!Spent(Sens * (n.x - m.x) + n.accumX - m.accumX, dx, n.x, Width - 1)
  BY <1>1, <1>3, <1>4, <1>5, AxisSpent, Zenon
<1>7. T!Spent(2 * Sens * (n.y - m.y) + n.accumY - m.accumY, dy, n.y, Height - 1)
  BY <1>1, <1>3, <1>4, <1>5, AxisSpent, Zenon
<1> QED
  BY <1>6, <1>7

LEMMA TextKeeps ==
    ASSUME DriverInv, TextInv, T!Next
    PROVE  T!KeepsMotion
<1>1. /\ Told
      /\ \/ calls' # <<>> /\ calls'[1].call = "on_move"
            /\ mouse' = T!Moved(mouse, calls'[1].dx, calls'[1].dy)
         \/ (calls' = <<>> \/ calls'[1].call # "on_move") /\ mouse' = mouse
  BY TextStep
<1>2. /\ calls' \in Seq(Calling)
      /\ \A i \in 1 .. Len(calls') : i # 1 => calls'[i] \in ButtonCall
  BY <1>1 DEF Told, MotionFirst
<1> SUFFICES ASSUME NEW i \in DOMAIN calls', calls'[i].call = "on_move"
             PROVE  /\ T!Spent(Sens * (mouse'.x - mouse.x) + mouse'.accumX - mouse.accumX,
                               calls'[i].dx, mouse'.x, Width - 1)
                    /\ T!Spent(2 * Sens * (mouse'.y - mouse.y) + mouse'.accumY - mouse.accumY,
                               calls'[i].dy, mouse'.y, Height - 1)
  BY Zenon DEF T!KeepsMotion
<1>3. i \in 1 .. Len(calls') /\ calls' # <<>> /\ calls'[i] \in Calling
  BY <1>2
<1>4. i = 1
  BY <1>2, <1>3, CallKinds
<1>5. PICK dx \in Int, dy \in Int : calls'[1] = Move(dx, dy)
  BY <1>3, <1>4, CallKinds DEF Calling
<1>6. calls'[1].dx = dx /\ calls'[1].dy = dy
  BY <1>5 DEF Move
<1>7. mouse' = T!Moved(mouse, dx, dy) /\ mouse \in MouseAt
  BY <1>1, <1>3, <1>4, <1>6 DEF TextInv
<1> QED
  BY <1>4, <1>6, <1>7, MotionSpent

LEMMA TextInvariant == Spec => [](~graphics => DriverInv /\ TextInv)
<1>1. Init => (~graphics => DriverInv /\ TextInv)
  BY TextStart DEF Init
<1>2. (~graphics => DriverInv /\ TextInv) /\ [Next]_vars => (~graphics => DriverInv /\ TextInv)'
  <2> SUFFICES ASSUME ~graphics => DriverInv /\ TextInv, [Next]_vars, ~graphics'
               PROVE  DriverInv' /\ TextInv'
    OBVIOUS
  <2>1. CASE Next
    <3>1. ~graphics /\ T!Next
      BY <2>1 DEF Next
    <3> QED
      BY <3>1, TextStep
  <2>2. CASE UNCHANGED vars
    BY <2>2 DEF vars, driverVars, textVars, DriverInv, TextInv
  <2> QED
    BY <2>1, <2>2
<1> QED
  BY <1>1, <1>2, PTL DEF Spec

(* A cell of the text screen is left with its colours swapped only where a  *)
(* button changed, however the bytes of the mouse are lost and wherever a    *)
(* character is printed in between.  Excepted are the cells that printf      *)
(* writes back after a handler has come in between, and those where it       *)
(* prints a character of 0x80 or above.                                      *)
THEOREM TrailsAtClicks == Spec => []TrailsOnlyAtClicks
<1>1. (~graphics => DriverInv /\ TextInv) => TrailsOnlyAtClicks
  BY DEF TextInv, Inverted, TrailsOnlyAtClicks, T!TrailsOnlyAtClicks
<1> QED
  BY <1>1, TextInvariant, PTL

(* No motion is lost to rounding: what is not turned into cells is kept.    *)
THEOREM MotionIsKept == Spec => MotionKept
<1>1. (~graphics => DriverInv /\ TextInv) /\ [Next]_vars
        => [~graphics => T!KeepsMotion]_vars
  BY TextKeeps DEF Next
<1>2. Spec => [][Next]_vars
  BY DEF Spec
<1> QED
  BY <1>1, <1>2, TextInvariant, PTL DEF MotionKept

-----------------------------------------------------------------------------
(* The desktop. *)

Child == 1 .. Len(Corners)
Point == [x : Int, y : Int]
Window == [x : Int, y : Int, dragged : BOOLEAN]
Windows == [Child -> Window]
DesktopState == [pointer : Point, windows : Windows]

LEMMA DesktopSizes ==
    /\ ScreenW \in Nat \ {0} /\ ScreenH \in Nat \ {0}
    /\ WindowW \in Nat \ {0} /\ WindowH \in Nat \ {0} /\ CursorArm \in Nat
    /\ Corners \in Seq(Nat \X Nat) /\ Len(Corners) \in Nat \ {0} /\ 1 \in Child
<1>1. Corners \in Seq(Nat \X Nat) /\ Corners # <<>>
  BY HandlersAssumption DEF D!DesktopAssumption
<1>2. Len(Corners) \in Nat \ {0}
  BY <1>1, EmptySeq
<1> QED
  BY <1>1, <1>2, HandlersAssumption DEF D!DesktopAssumption, Child

LEMMA WindowsAre ==
    ASSUME NEW ws \in Windows
    PROVE  Len(ws) = Len(Corners) /\ DOMAIN ws = Child
<1>1. ws \in Seq(Window)
  <2> DEFINE n == Len(Corners)
  <2>1. n \in Nat /\ ws \in [1 .. n -> Window]
    BY DesktopSizes DEF Windows, Child
  <2> HIDE DEF n
  <2> QED
    BY <2>1, SeqDef
<1> QED
  BY <1>1, DesktopSizes, LenProperties DEF Windows, Child

(* The child at p is the first one there.                                   *)
LEMMA ChildIs ==
    ASSUME NEW ws \in Windows, NEW p
    PROVE  \/ /\ D!ChildAt(ws, p) = 0
              /\ \A j \in Child : ~D!ContainsCoordinate(ws[j], p)
           \/ /\ D!ChildAt(ws, p) \in Child
              /\ D!ContainsCoordinate(ws[D!ChildAt(ws, p)], p)
              /\ \A j \in Child : j < D!ChildAt(ws, p) => ~D!ContainsCoordinate(ws[j], p)
<1> DEFINE I == {i \in Child : D!ContainsCoordinate(ws[i], p)}
<1>1. D!ChildAt(ws, p) = IF I # {} THEN D!Min(I) ELSE 0
  BY WindowsAre, Zenon DEF D!ChildAt, D!SelectInSeq, Child
<1>2. CASE I = {}
  BY <1>1, <1>2
<1>3. CASE I # {}
  <2>1. I \in SUBSET Nat
    BY DesktopSizes DEF Child
  <2>2. PICK n \in I : \A m \in I : n <= m
    BY <1>3, <2>1, LeastNumber
  <2> HIDE DEF I
  <2>3. D!Min(I) \in I /\ \A m \in I : D!Min(I) <= m
    BY <2>2 DEF D!Min
  <2> DEFINE c == D!Min(I)
  <2>4. D!ChildAt(ws, p) = c
    BY <1>1, <1>3
  <2> HIDE DEF c
  <2>5. c \in I /\ \A m \in I : c <= m
    BY <2>3 DEF c
  <2>6. \A j \in Child : j < c => j \notin I
    BY <2>1, <2>5 DEF Child
  <2> QED
    BY <2>4, <2>5, <2>6 DEF I
<1> QED
  BY <1>2, <1>3

LEMMA DraggedIs ==
    ASSUME NEW ws \in Windows, NEW i \in Child \cup {0}, NEW dx \in Int, NEW dy \in Int
    PROVE  /\ D!Dragged(ws, i, dx, dy) \in Windows
           /\ \A j \in Child :
                 IF j = i /\ ws[j].dragged
                 THEN D!Dragged(ws, i, dx, dy)[j] =
                         [x |-> ws[j].x + dx, y |-> ws[j].y + dy, dragged |-> TRUE]
                 ELSE D!Dragged(ws, i, dx, dy)[j] = ws[j]
<1>1. 0 \notin Child
  BY DEF Child
<1>2. CASE i # 0 /\ ws[i].dragged
  <2> DEFINE w == [x |-> ws[i].x + dx, y |-> ws[i].y + dy, dragged |-> TRUE]
  <2>1. i \in Child /\ ws[i] \in Window
    BY <1>2 DEF Windows
  <2>2. w \in Window
    BY <2>1 DEF Window
  <2>3. D!Dragged(ws, i, dx, dy) = [ws EXCEPT ![i] = w]
    BY <1>2 DEF D!Dragged
  <2> QED
    BY <1>2, <2>1, <2>2, <2>3 DEF Windows
<1>3. CASE ~(i # 0 /\ ws[i].dragged)
  <2>1. D!Dragged(ws, i, dx, dy) = ws
    BY <1>3 DEF D!Dragged
  <2> QED
    BY <1>1, <1>3, <2>1
<1> QED
  BY <1>2, <1>3

(* Window r is window w moved by dx, dy.                                    *)
Shifted(r, w, dx, dy) == r = [x |-> w.x + dx, y |-> w.y + dy, dragged |-> TRUE]

(* A motion moves a dragged window with the pointer, and no window twice.   *)
LEMMA MovedIs ==
    ASSUME NEW ws \in Windows, NEW old \in Point, NEW new \in Point
    PROVE  LET dx == new.x - old.x
               dy == new.y - old.y
               r == D!Moved(ws, old, new)
           IN  /\ r \in Windows
               /\ \A j \in Child : \/ r[j] = ws[j]
                                   \/ ws[j].dragged /\ Shifted(r[j], ws[j], dx, dy)
               /\ \A j \in Child : j = D!ChildAt(ws, old) /\ ws[j].dragged
                                      => Shifted(r[j], ws[j], dx, dy)
<1> DEFINE dx == new.x - old.x   dy == new.y - old.y
           first == D!ChildAt(ws, old)   left == D!Dragged(ws, first, dx, dy)
           second == D!ChildAt(left, new)   r == D!Moved(ws, old, new)
<1>1. dx \in Int /\ dy \in Int
  BY DEF Point
<1>2. first \in Child \cup {0}
  BY ChildIs
<1>3. r = IF second = first THEN left ELSE D!Dragged(left, second, dx, dy)
  BY Zenon DEF D!Moved
<1> HIDE DEF dx, dy, first, r
<1>4. /\ left \in Windows
      /\ \A j \in Child : IF j = first /\ ws[j].dragged THEN Shifted(left[j], ws[j], dx, dy)
                          ELSE left[j] = ws[j]
  BY <1>1, <1>2, DraggedIs DEF Shifted
<1> HIDE DEF left
<1>5. second \in Child \cup {0}
  BY <1>4, ChildIs
<1> HIDE DEF second
<1> DEFINE Goal == /\ r \in Windows
                   /\ \A j \in Child : \/ r[j] = ws[j]
                                       \/ ws[j].dragged /\ Shifted(r[j], ws[j], dx, dy)
                   /\ \A j \in Child : j = first /\ ws[j].dragged
                                          => Shifted(r[j], ws[j], dx, dy)
<1>6. ASSUME second = first PROVE Goal
  BY <1>3, <1>4, <1>6
<1>7. ASSUME second # first PROVE Goal
  <2> DEFINE d == D!Dragged(left, second, dx, dy)
  <2>1. /\ d \in Windows
        /\ \A j \in Child : IF j = second /\ left[j].dragged THEN Shifted(d[j], left[j], dx, dy)
                            ELSE d[j] = left[j]
    BY <1>1, <1>4, <1>5, DraggedIs DEF Shifted
  <2>2. r = d
    BY <1>3, <1>7
  <2> HIDE DEF d
  <2>3. ASSUME NEW j \in Child
        PROVE  /\ d[j] = ws[j] \/ (ws[j].dragged /\ Shifted(d[j], ws[j], dx, dy))
               /\ j = first /\ ws[j].dragged => Shifted(d[j], ws[j], dx, dy)
    <3>1. CASE j = first
      BY <1>4, <1>7, <2>1, <3>1
    <3>2. CASE j # first
      <4>1. left[j] = ws[j]
        BY <1>4, <3>2
      <4> QED
        BY <2>1, <3>2, <4>1
    <3> QED
      BY <3>1, <3>2
  <2> QED
    BY <2>1, <2>2, <2>3
<1>8. Goal
  BY <1>6, <1>7
<1> QED
  BY <1>8, Zenon DEF dx, dy, first, r

(* A dragged first window has the pointer on it.                            *)
Over(s) == s.windows[1].dragged => D!ContainsCoordinate(s.windows[1], s.pointer)

(* From state s to state t window i follows the pointer; it stays.          *)
Follows(s, t, i) ==
    /\ t.windows[i].x - s.windows[i].x = t.pointer.x - s.pointer.x
    /\ t.windows[i].y - s.windows[i].y = t.pointer.y - s.pointer.y
Stays(s, t, i) ==
    t.windows[i].x = s.windows[i].x /\ t.windows[i].y = s.windows[i].y

(* MovesAsPointer, of two states.                                           *)
MovesAs(s, t) ==
    \A i \in Child :
        \/ Follows(s, t, i)
        \/ Stays(s, t, i) /\ ~(s.windows[i].dragged /\ D!ChildAt(s.windows, s.pointer) = i)

(* The calls that tell of a button leave everything in its place.           *)
InPlaces(s, t) == t.pointer = s.pointer /\ \A i \in Child : Stays(s, t, i)

LEMMA StateIs ==
    ASSUME NEW s \in DesktopState
    PROVE  /\ s.pointer \in Point /\ s.pointer.x \in Int /\ s.pointer.y \in Int
           /\ s.windows \in Windows
           /\ \A i \in Child : /\ s.windows[i] \in Window
                               /\ s.windows[i].x \in Int /\ s.windows[i].y \in Int
BY DEF DesktopState, Point, Windows, Window

LEMMA MoveCall ==
    ASSUME NEW s \in DesktopState, NEW dx \in Int, NEW dy \in Int
    PROVE  /\ D!OnMove(s, dx, dy) \in DesktopState
           /\ Over(s) => Over(D!OnMove(s, dx, dy))
           /\ D!OnMove(s, dx, dy).windows[1].dragged => s.windows[1].dragged
           /\ MovesAs(s, D!OnMove(s, dx, dy))
<1> DEFINE new == [x |-> D!Clamped(s.pointer.x + dx, ScreenW),
                   y |-> D!Clamped(s.pointer.y + dy, ScreenH)]
           t == D!OnMove(s, dx, dy)   ws == D!Moved(s.windows, s.pointer, new)
           ddx == new.x - s.pointer.x   ddy == new.y - s.pointer.y
<1>1. new \in Point
  BY StateIs, DesktopSizes DEF Point, D!Clamped
<1>2. t = [pointer |-> new, windows |-> ws]
  BY Zenon DEF D!OnMove
<1> HIDE DEF new, t
<1>3. /\ ws \in Windows
      /\ \A j \in Child : \/ ws[j] = s.windows[j]
                          \/ s.windows[j].dragged /\ Shifted(ws[j], s.windows[j], ddx, ddy)
      /\ \A j \in Child : j = D!ChildAt(s.windows, s.pointer) /\ s.windows[j].dragged
                             => Shifted(ws[j], s.windows[j], ddx, ddy)
  BY <1>1, StateIs, MovedIs, Zenon
<1> HIDE DEF ws
<1>4. t \in DesktopState /\ t.pointer = new /\ t.windows = ws
  BY <1>1, <1>2, <1>3 DEF DesktopState
<1>5. new.x \in Int /\ new.y \in Int
  BY <1>1 DEF Point
<1>6. ASSUME Over(s), ws[1].dragged
      PROVE  D!ContainsCoordinate(ws[1], new)
  <2>1. s.windows[1].dragged
    BY <1>3, <1>6, DesktopSizes
  <2>2. D!ContainsCoordinate(s.windows[1], s.pointer)
    BY <1>6, <2>1 DEF Over
  <2>3. D!ChildAt(s.windows, s.pointer) = 1
    <3>1. ~(1 < D!ChildAt(s.windows, s.pointer)) /\ D!ChildAt(s.windows, s.pointer) \in Child
      BY <2>2, ChildIs, StateIs, DesktopSizes
    <3> QED
      BY <3>1, DesktopSizes DEF Child
  <2>4. Shifted(ws[1], s.windows[1], ddx, ddy)
    BY <1>3, <2>1, <2>3, DesktopSizes
  <2>5. ws[1].x = s.windows[1].x + ddx /\ ws[1].y = s.windows[1].y + ddy
    BY <2>4 DEF Shifted
  <2>6. /\ s.windows[1].x \in Int /\ s.windows[1].y \in Int
        /\ s.pointer.x \in Int /\ s.pointer.y \in Int
        /\ WindowW \in Int /\ WindowH \in Int
    BY StateIs, DesktopSizes
  <2> QED
    BY <1>5, <2>2, <2>5, <2>6 DEF D!ContainsCoordinate
<1>7. ASSUME NEW i \in Child
      PROVE  \/ Follows(s, t, i)
             \/ Stays(s, t, i) /\ ~(s.windows[i].dragged /\ D!ChildAt(s.windows, s.pointer) = i)
  <2>1. CASE Shifted(ws[i], s.windows[i], ddx, ddy)
    <3>1. ws[i].x = s.windows[i].x + ddx /\ ws[i].y = s.windows[i].y + ddy
      BY <2>1 DEF Shifted
    <3> QED
      BY <1>4, <1>5, <3>1, StateIs DEF Follows
  <2>2. CASE ~Shifted(ws[i], s.windows[i], ddx, ddy)
    <3>1. ws[i] = s.windows[i]
      BY <1>3, <2>2
    <3>2. ~(s.windows[i].dragged /\ D!ChildAt(s.windows, s.pointer) = i)
      BY <1>3, <2>2
    <3> QED
      BY <1>4, <3>1, <3>2 DEF Stays
  <2> QED
    BY <2>1, <2>2
<1>8. ws[1].dragged => s.windows[1].dragged
  BY <1>3, DesktopSizes
<1>9. Over(s) => Over(t)
  BY <1>4, <1>6 DEF Over
<1>10. MovesAs(s, t)
  BY <1>7 DEF MovesAs
<1> QED
  BY <1>4, <1>8, <1>9, <1>10 DEF t

Flagged(s, i, b) == [s EXCEPT !.windows[i].dragged = b]

LEMMA FlagSet ==
    ASSUME NEW s \in DesktopState, NEW i \in Child, NEW b \in BOOLEAN,
           NEW t, t = Flagged(s, i, b)
    PROVE  /\ t \in DesktopState /\ t.pointer = s.pointer
           /\ \A j \in Child : IF j = i THEN t.windows[j] = [s.windows[j] EXCEPT !.dragged = b]
                               ELSE t.windows[j] = s.windows[j]
<1> DEFINE w == [s.windows[i] EXCEPT !.dragged = b]   ws == [s.windows EXCEPT ![i] = w]
<1>1. w \in Window
  BY StateIs DEF Window
<1>2. t = [s EXCEPT !.windows = ws]
  BY DEF Flagged
<1>3. ws \in Windows /\ \A j \in Child : ws[j] = IF j = i THEN w ELSE s.windows[j]
  <2> HIDE DEF w
  <2> QED
    BY <1>1, StateIs DEF Windows
<1> HIDE DEF ws
<1>4. t \in DesktopState /\ t.pointer = s.pointer /\ t.windows = ws
  BY <1>2, <1>3 DEF DesktopState
<1> QED
  BY <1>3, <1>4

(* A call that tells of a button leaves the first window dragged only if it *)
(* was, or if button 1 came down; a release there ends it.                  *)
LEMMA ButtonMakes ==
    ASSUME NEW s \in DesktopState, NEW c \in ButtonCall
    PROVE  /\ D!Call(s, c) \in DesktopState
           /\ Over(s) => Over(D!Call(s, c))
           /\ Over(s) /\ D!Call(s, c).windows[1].dragged =>
                 c = Down(1) \/ (s.windows[1].dragged /\ c # Up(1))
           /\ InPlaces(s, D!Call(s, c))
<1> DEFINE i == D!ChildAt(s.windows, s.pointer)   t == D!Call(s, c)
<1>1. \/ i = 0 /\ \A j \in Child : ~D!ContainsCoordinate(s.windows[j], s.pointer)
      \/ /\ i \in Child /\ D!ContainsCoordinate(s.windows[i], s.pointer)
         /\ \A j \in Child : j < i => ~D!ContainsCoordinate(s.windows[j], s.pointer)
  BY StateIs, ChildIs
<1> HIDE DEF i
<1>2. 0 \notin Child /\ 1 \in Child
  BY DesktopSizes DEF Child
<1> DEFINE Pressed == Flagged(s, i, TRUE)   Released == Flagged(s, i, FALSE)
<1>3. \/ c = Down(1) /\ i # 0 /\ t = Pressed
      \/ c \notin {Down(1), Up(1)} /\ t = s
      \/ i = 0 /\ t = s
      \/ c # Down(1) /\ i # 0 /\ t = Released
  <2>1. PICK b \in Button : c = Up(b) \/ c = Down(b)
    BY DEF ButtonCall
  <2>2. CASE c = Up(b)
    <3>1. c.call = "on_up" /\ c # Down(1)
      BY <2>2, CallKinds DEF Up
    <3>2. t = D!OnUp(s, c.button)
      BY <3>1 DEF D!Call
    <3> QED
      BY <3>1, <3>2, Zenon DEF D!OnUp, Flagged, i
  <2>3. CASE c = Down(b)
    <3>1. c.call = "on_down" /\ c.button = b /\ c # Up(1) /\ (b # 1 => c # Down(1))
      BY <2>3, CallKinds DEF Down
    <3>2. t = D!OnDown(s, b)
      BY <3>1 DEF D!Call
    <3> QED
      BY <2>3, <3>1, <3>2, Zenon DEF D!OnDown, Flagged, i
  <2> QED
    BY <2>1, <2>2, <2>3
<1> HIDE DEF t
<1> DEFINE Goal == /\ t \in DesktopState
                   /\ Over(s) => Over(t)
                   /\ Over(s) /\ t.windows[1].dragged =>
                         c = Down(1) \/ (s.windows[1].dragged /\ c # Up(1))
                   /\ InPlaces(s, t)
<1>4. ASSUME c = Down(1), i # 0, t = Pressed PROVE Goal
  <2>1. i \in Child
    BY <1>1, <1>4
  <2>2. /\ t \in DesktopState /\ t.pointer = s.pointer
        /\ \A j \in Child : IF j = i THEN t.windows[j] = [s.windows[j] EXCEPT !.dragged = TRUE]
                            ELSE t.windows[j] = s.windows[j]
    <3>1. PICK b \in BOOLEAN : b = TRUE
      OBVIOUS
    <3>2. t = Flagged(s, i, b)
      BY <1>4, <3>1
    <3>3. /\ t \in DesktopState /\ t.pointer = s.pointer
          /\ \A j \in Child : IF j = i THEN t.windows[j] = [s.windows[j] EXCEPT !.dragged = b]
                              ELSE t.windows[j] = s.windows[j]
      BY <2>1, <3>2, FlagSet
    <3> QED
      BY <3>1, <3>3
  <2>3. InPlaces(s, t)
    BY <2>2, StateIs DEF InPlaces, Stays, Window
  <2>4. Over(s) => Over(t)
    <3>1. CASE i = 1
      <4>1. D!ContainsCoordinate(s.windows[1], s.pointer)
        BY <1>1, <1>2, <3>1
      <4> QED
        BY <1>2, <2>2, <2>3, <4>1 DEF Over, InPlaces, Stays, D!ContainsCoordinate
    <3>2. CASE i # 1
      <4>1. t.windows[1] = s.windows[1]
        BY <1>2, <2>2, <3>2
      <4> QED
        BY <2>2, <4>1 DEF Over
    <3> QED
      BY <3>1, <3>2
  <2> QED
    BY <1>4, <2>2, <2>3, <2>4
<1>5. ASSUME c \notin {Down(1), Up(1)}, t = s PROVE Goal
  BY <1>5 DEF InPlaces, Stays
<1>6. ASSUME i = 0, t = s PROVE Goal
  <2>1. Over(s) => ~s.windows[1].dragged
    BY <1>1, <1>2, <1>6 DEF Over
  <2> QED
    BY <1>6, <2>1 DEF InPlaces, Stays
<1>7. ASSUME c # Down(1), i # 0, t = Released PROVE Goal
  <2>1. i \in Child
    BY <1>1, <1>7
  <2>2. /\ t \in DesktopState /\ t.pointer = s.pointer
        /\ \A j \in Child : IF j = i THEN t.windows[j] = [s.windows[j] EXCEPT !.dragged = FALSE]
                            ELSE t.windows[j] = s.windows[j]
    <3>1. PICK b \in BOOLEAN : b = FALSE
      OBVIOUS
    <3>2. t = Flagged(s, i, b)
      BY <1>7, <3>1
    <3>3. /\ t \in DesktopState /\ t.pointer = s.pointer
          /\ \A j \in Child : IF j = i THEN t.windows[j] = [s.windows[j] EXCEPT !.dragged = b]
                              ELSE t.windows[j] = s.windows[j]
      BY <2>1, <3>2, FlagSet
    <3> QED
      BY <3>1, <3>3
  <2>3. InPlaces(s, t)
    BY <2>2, StateIs DEF InPlaces, Stays, Window
  <2>4. CASE i = 1
    <3>1. ~t.windows[1].dragged
      BY <1>2, <2>2, <2>4, StateIs DEF Window
    <3> QED
      BY <2>2, <2>3, <3>1 DEF Over
  <2>5. CASE i # 1
    <3>1. t.windows[1] = s.windows[1]
      BY <1>2, <2>2, <2>5
    <3>2. Over(s) => Over(t)
      BY <2>2, <3>1 DEF Over
    <3>3. Over(s) => ~s.windows[1].dragged
      <4>1. i \in Nat
        BY <2>1 DEF Child
      <4>2. ~D!ContainsCoordinate(s.windows[1], s.pointer)
        BY <1>1, <1>2, <1>7, <2>5, <4>1 DEF Child
      <4> QED
        BY <4>2 DEF Over
    <3> QED
      BY <2>2, <2>3, <3>1, <3>2, <3>3
  <2> QED
    BY <2>4, <2>5
<1>8. Goal
  BY <1>3, <1>4, <1>5, <1>6, <1>7
<1> QED
  BY <1>8 DEF t

LEMMA DesktopCalls ==
    ASSUME NEW s \in DesktopState, NEW cs \in Seq(Calling), MotionFirst(cs), Over(s)
    PROVE  /\ D!Called(s, cs) \in DesktopState
           /\ Over(D!Called(s, cs))
           /\ D!Called(s, cs).windows[1].dragged =>
                 \/ \E i \in 1 .. Len(cs) : cs[i] = Down(1)
                 \/ s.windows[1].dragged /\ \A i \in 1 .. Len(cs) : cs[i] # Up(1)
           /\ MovesAs(s, D!Called(s, cs))
<1> DEFINE N == Len(cs)
           f == [i \in 1 .. N |-> [t \in DesktopState |-> D!Call(t, cs[i])]]
           Defines(w) == w = [n \in 0 .. Len(cs) |-> IF n = 0 THEN s ELSE D!Call(w[n - 1], cs[n])]
<1>1. N \in Nat /\ \A i \in 1 .. N : cs[i] \in Calling
  BY LenProperties, ElementOfSeq
<1>2. ASSUME NEW t \in DesktopState, NEW c \in Calling
      PROVE  /\ D!Call(t, c) \in DesktopState
             /\ Over(t) => Over(D!Call(t, c))
             /\ Over(t) /\ D!Call(t, c).windows[1].dragged =>
                   c = Down(1) \/ (t.windows[1].dragged /\ c # Up(1))
             /\ c \notin ButtonCall => MovesAs(t, D!Call(t, c))
             /\ c \in ButtonCall => InPlaces(t, D!Call(t, c))
  <2>1. CASE c \in ButtonCall
    BY <2>1, ButtonMakes
  <2>2. CASE c \notin ButtonCall
    <3>1. PICK dx \in Int, dy \in Int : c = Move(dx, dy)
      BY <2>2 DEF Calling
    <3>2. c.call = "on_move" /\ c.dx = dx /\ c.dy = dy /\ c # Up(1)
      BY <3>1 DEF Move, Up
    <3>3. D!Call(t, c) = D!OnMove(t, dx, dy)
      BY <3>2 DEF D!Call
    <3> QED
      BY <2>2, <3>2, <3>3, MoveCall
  <2> QED
    BY <2>1, <2>2
<1>3. f \in [1 .. N -> [DesktopState -> DesktopState]]
  BY <1>1, <1>2
<1>4. PICK g \in [0 .. N -> DesktopState] : Composes(g, N, f, s)
  <2> HIDE DEF N, f
  <2> QED
    BY <1>1, <1>3, ComposeStays
<1>5. Defines(g)
  <2>1. ASSUME NEW n \in 0 .. N
        PROVE  (IF n = 0 THEN s ELSE f[n][g[n - 1]])
                   = (IF n = 0 THEN s ELSE D!Call(g[n - 1], cs[n]))
    <3>1. n # 0 => n \in 1 .. N /\ n - 1 \in 0 .. N
      BY <1>1
    <3> QED
      BY <1>4, <3>1
  <2>2. g = [n \in 0 .. N |-> IF n = 0 THEN s ELSE f[n][g[n - 1]]]
    BY <1>4 DEF Composes
  <2> HIDE DEF f
  <2> QED
    BY <1>1, <2>1, <2>2
<1> DEFINE w == CHOOSE v : Defines(v)
<1>6. Defines(w)
  <2> HIDE DEF Defines
  <2> QED
    BY <1>5
<1>7. D!Called(s, cs) = w[N]
  BY Zenon DEF D!Called
<1> HIDE DEF w, f
<1>8. w[0] = s /\ \A n \in 1 .. N : w[n] = D!Call(w[n - 1], cs[n])
  BY <1>1, <1>6
<1> HIDE DEF Defines
<1> DEFINE Held(n) == w[n].windows[1].dragged =>
                         \/ \E i \in 1 .. n : cs[i] = Down(1)
                         \/ s.windows[1].dragged /\ \A i \in 1 .. n : cs[i] # Up(1)
           S == {n \in 0 .. N : /\ w[n] \in DesktopState /\ Over(w[n])
                                /\ Held(n) /\ MovesAs(s, w[n])}
<1>9. 0 \in S
  <2>1. MovesAs(s, s)
    BY StateIs DEF MovesAs, Follows
  <2> QED
    BY <1>1, <1>8, <2>1
<1>10. ASSUME NEW n \in 1 .. N, n - 1 \in S
       PROVE  n \in S
  <2> DEFINE t == w[n - 1]   c == cs[n]
  <2>1. t \in DesktopState /\ Over(t) /\ c \in Calling /\ w[n] = D!Call(t, c)
    BY <1>1, <1>8, <1>10
  <2>2. Held(n - 1) /\ MovesAs(s, t)
    BY <1>10
  <2>3. n = 1 => t = s
    BY <1>8
  <2>4. n # 1 => c \in ButtonCall
    BY <1>1 DEF MotionFirst
  <2> HIDE DEF t, c
  <2>5. /\ w[n] \in DesktopState /\ Over(w[n])
        /\ w[n].windows[1].dragged => c = Down(1) \/ (t.windows[1].dragged /\ c # Up(1))
        /\ c \notin ButtonCall => MovesAs(t, w[n])
        /\ c \in ButtonCall => InPlaces(t, w[n])
    BY <1>2, <2>1
  <2>6. Held(n)
    <3> SUFFICES ASSUME w[n].windows[1].dragged
                 PROVE  \/ \E i \in 1 .. n : cs[i] = Down(1)
                        \/ s.windows[1].dragged /\ \A i \in 1 .. n : cs[i] # Up(1)
      OBVIOUS
    <3>1. CASE c = Down(1)
      BY <3>1 DEF c
    <3>2. CASE c # Down(1)
      <4>1. t.windows[1].dragged /\ cs[n] # Up(1)
        BY <2>5, <3>2 DEF c
      <4>2. \/ \E i \in 1 .. (n - 1) : cs[i] = Down(1)
            \/ s.windows[1].dragged /\ \A i \in 1 .. (n - 1) : cs[i] # Up(1)
        BY <2>2, <4>1 DEF t
      <4>3. \A i \in 1 .. n : i = n \/ i \in 1 .. (n - 1)
        OBVIOUS
      <4>4. \A i \in 1 .. (n - 1) : i \in 1 .. n
        OBVIOUS
      <4> QED
        BY <4>1, <4>2, <4>3, <4>4
    <3> QED
      BY <3>1, <3>2
  <2>7. MovesAs(s, w[n])
    <3>1. CASE c \in ButtonCall
      BY <2>2, <2>5, <3>1 DEF MovesAs, InPlaces, Follows, Stays
    <3>2. CASE c \notin ButtonCall
      BY <2>3, <2>4, <2>5, <3>2
    <3> QED
      BY <3>1, <3>2
  <2> HIDE DEF Held
  <2> QED
    BY <2>5, <2>6, <2>7
<1> HIDE DEF S
<1>11. 0 .. N \subseteq S
  BY <1>1, <1>9, <1>10, UpTo
<1>12. N \in S
  BY <1>1, <1>11
<1>13. w[N] \in DesktopState /\ Over(w[N]) /\ Held(N) /\ MovesAs(s, w[N])
  <2> HIDE DEF Held
  <2> QED
    BY <1>12 DEF S
<1> QED
  BY <1>7, <1>13

LEMMA DesktopDriver ==
    /\ D!Interrupt <=> Interrupt
    /\ D!Lose <=> Lose
<1>1. D!Byte = Byte /\ D!Packet = Packet
  BY DEF D!Byte, Byte, D!Packet, Packet
<1>2. \A byte : D!Sends(byte) <=> Sends(byte)
  BY <1>1, Zenon DEF D!Sends, Sends
<1>3. \A f : D!HeldIn(f) = HeldIn(f)
  BY Zenon DEF D!HeldIn, HeldIn, D!Button, Button
<1>4. \A b, f : D!Change(b, f) = Change(b, f)
  BY <1>3, Zenon DEF D!Change, Change, D!Up, Up, D!Down, Down
<1>5. \A v : D!Signed(v) = Signed(v) /\ D!Negated(v) = Negated(v)
  BY Zenon DEF D!Signed, Signed, D!Negated, Negated
<1>6. \A p : D!CallsOf(p) = CallsOf(p)
  BY <1>4, <1>5, Zenon DEF D!CallsOf, CallsOf, D!Move, Move
<1>7. \A byte : D!Receive(byte) <=> Receive(byte)
  BY <1>3, <1>6, Zenon DEF D!Receive, Receive
<1>8. D!Interrupt <=> Interrupt
  BY <1>1, <1>2, <1>7, Zenon DEF D!Interrupt, Interrupt
<1>9. D!Lose <=> Lose
  BY <1>1, <1>2, Zenon DEF D!Lose, Lose
<1> QED
  BY <1>8, <1>9

Screen == [pointer |-> pointer, windows |-> windows]

(* The driver holds button 1 as long as the first window is dragged, and    *)
(* the pointer is on the window, so that the release reaches it.            *)
DesktopInv ==
    /\ Screen \in DesktopState
    /\ windows[1].dragged => 1 \in held
    /\ Over(Screen)

LEMMA DesktopStart == D!Init => DriverInv /\ DesktopInv
<1> SUFFICES ASSUME D!Init PROVE DriverInv /\ DesktopInv
  OBVIOUS
<1>1. buf = <<>> /\ held = {}
  BY DEF D!Init, D!DriverInit
<1>2. DriverInv
  BY <1>1, EmptySeq DEF DriverInv
<1>3. DOMAIN Corners = Child /\ \A i \in Child : Corners[i] \in Nat \X Nat
  BY DesktopSizes, LenProperties, ElementOfSeq DEF Child
<1>4. pointer \in Point
  <2>1. ScreenW \div 2 \in Int /\ ScreenH \div 2 \in Int
    BY DesktopSizes
  <2> QED
    BY <2>1 DEF D!Init, Point
<1>5. windows = [i \in Child |-> [x |-> Corners[i][1], y |-> Corners[i][2], dragged |-> FALSE]]
  BY <1>3 DEF D!Init
<1>6. windows \in Windows /\ ~windows[1].dragged
  <2>1. ASSUME NEW i \in Child
        PROVE  [x |-> Corners[i][1], y |-> Corners[i][2], dragged |-> FALSE] \in Window
    BY <1>3 DEF Window
  <2> QED
    BY <1>5, <2>1, DesktopSizes DEF Windows
<1> QED
  BY <1>2, <1>4, <1>6 DEF DesktopInv, Screen, DesktopState, Over

(* What an interrupt does to the desktop.                                   *)
LEMMA DesktopStep ==
    ASSUME DriverInv, DesktopInv, D!Next
    PROVE  DriverInv' /\ DesktopInv' /\ MovesAs(Screen, Screen')
<1>1. DriverInv' /\ Told
  BY DesktopDriver, DriverStep DEF D!Next
<1> DEFINE after == D!Called(Screen, calls')
<1>2. /\ after \in DesktopState /\ Over(after) /\ MovesAs(Screen, after)
      /\ after.windows[1].dragged =>
            \/ \E i \in 1 .. Len(calls') : calls'[i] = Down(1)
            \/ Screen.windows[1].dragged /\ \A i \in 1 .. Len(calls') : calls'[i] # Up(1)
  <2>1. Screen \in DesktopState /\ Over(Screen)
    BY DEF DesktopInv
  <2>2. calls' \in Seq(Calling) /\ MotionFirst(calls')
    BY <1>1 DEF Told
  <2> QED
    BY <2>1, <2>2, DesktopCalls
<1>3. pointer' = after.pointer /\ windows' = after.windows
  BY Zenon DEF D!Next, D!Handle, Screen
<1> HIDE DEF after
<1>4. Screen' = after
  BY <1>2, <1>3 DEF Screen, DesktopState
<1>5. windows'[1].dragged => 1 \in held'
  <2> SUFFICES ASSUME windows'[1].dragged, 1 \notin held' PROVE FALSE
    OBVIOUS
  <2>1. ~\E i \in 1 .. Len(calls') : calls'[i] = Down(1)
    BY <1>1 DEF Told
  <2>2. windows[1].dragged /\ \A i \in 1 .. Len(calls') : calls'[i] # Up(1)
    BY <1>2, <1>3, <2>1 DEF Screen
  <2>3. 1 \in held
    BY <2>2 DEF DesktopInv
  <2> QED
    BY <1>1, <2>2, <2>3 DEF Told
<1> QED
  BY <1>1, <1>2, <1>4, <1>5 DEF DesktopInv

LEMMA DesktopInvariant == Spec => [](graphics => DriverInv /\ DesktopInv)
<1>1. Init => (graphics => DriverInv /\ DesktopInv)
  BY DesktopStart DEF Init
<1>2. (graphics => DriverInv /\ DesktopInv) /\ [Next]_vars => (graphics => DriverInv /\ DesktopInv)'
  <2> SUFFICES ASSUME graphics => DriverInv /\ DesktopInv, [Next]_vars, graphics'
               PROVE  DriverInv' /\ DesktopInv'
    OBVIOUS
  <2>1. CASE Next
    <3>1. graphics /\ D!Next
      BY <2>1 DEF Next
    <3> QED
      BY <3>1, DesktopStep
  <2>2. CASE UNCHANGED vars
    BY <2>2 DEF vars, driverVars, desktopVars, DriverInv, DesktopInv, Screen
  <2> QED
    BY <2>1, <2>2
<1> QED
  BY <1>1, <1>2, PTL DEF Spec

(* The topmost window is dragged only while button 1 is down and the        *)
(* pointer is on it, whatever the lost bytes make of motion and buttons.    *)
THEOREM FirstLetsGo == Spec => []FirstWindowLetsGo
<1>1. (graphics => DriverInv /\ DesktopInv) => FirstWindowLetsGo
  BY DEF FirstWindowLetsGo, D!FirstWindowLetsGo, DesktopInv, Over, Screen
<1> QED
  BY <1>1, DesktopInvariant, PTL

(* A dragged window moves exactly as the pointer does.                      *)
THEOREM WindowsFollow == Spec => MovesWithPointer
<1>1. MovesAs(Screen, Screen') /\ DesktopInv => D!MovesAsPointer
  <2> SUFFICES ASSUME MovesAs(Screen, Screen'), DesktopInv PROVE D!MovesAsPointer
    OBVIOUS
  <2>1. DOMAIN windows = Child
    BY DEF DesktopInv, Screen, DesktopState, Windows
  <2> QED
    BY <2>1, Zenon DEF MovesAs, Follows, Stays, Screen, D!MovesAsPointer
<1>2. (graphics => DriverInv /\ DesktopInv) /\ [Next]_vars
        => [graphics => D!MovesAsPointer]_vars
  BY <1>1, DesktopStep DEF Next
<1>3. Spec => [][Next]_vars
  BY DEF Spec
<1> QED
  BY <1>2, <1>3, DesktopInvariant, PTL DEF MovesWithPointer

(* The children that fill_rectangle draws at p, if any other lets them.     *)
SeenAt(p) ==
    {i \in Child : /\ D!ContainsCoordinate(windows[i], p)
                   /\ windows[i].x >= 0 /\ windows[i].y >= 0}

(* With the children drawn from the last down to number from, p shows v.    *)
Shows(p, v, from) ==
    \/ v = 0 /\ \A j \in SeenAt(p) : j < from
    \/ v \in SeenAt(p) /\ v >= from /\ \A j \in SeenAt(p) : j >= from => v <= j

(* The children are drawn from the last to the first.                       *)
LEMMA FrameShows ==
    ASSUME windows \in Windows, NEW p \in D!Pixel
    PROVE  \/ D!Frame[p] = -1 /\ p \in D!Cursor
           \/ Shows(p, D!Frame[p], 1)
<1> DEFINE N == Len(windows)
           Screens == [D!Pixel -> Int]
           f == [k \in 1 .. N |-> [s \in Screens |-> D!Filled(s, windows[D!Drawn(k)], D!Drawn(k))]]
           Defines(w) == w = [k \in 0 .. Len(windows) |->
                                IF k = 0 THEN [q \in D!Pixel |-> 0]
                                ELSE D!Filled(w[k - 1], windows[D!Drawn(k)], D!Drawn(k))]
           blank == [q \in D!Pixel |-> 0]
<1>1. N \in Nat /\ Child = 1 .. N
  BY WindowsAre, DesktopSizes DEF Child
<1>2. \A k \in 1 .. N : D!Drawn(k) \in Child /\ D!Drawn(k) = N + 1 - k /\ D!Drawn(k) \in Int
  BY <1>1 DEF D!Drawn
<1>3. ASSUME NEW s \in Screens, NEW w, NEW i \in Int
      PROVE  /\ D!Filled(s, w, i) \in Screens
             /\ D!Filled(s, w, i)[p] =
                   IF w.x < 0 \/ w.y < 0 \/ ~D!ContainsCoordinate(w, p) THEN s[p] ELSE i
  BY DEF D!Filled
<1>4. f \in [1 .. N -> [Screens -> Screens]] /\ blank \in Screens
  BY <1>2, <1>3
<1>5. PICK g \in [0 .. N -> Screens] : Composes(g, N, f, blank)
  <2> HIDE DEF N, Screens, f, blank
  <2> QED
    BY <1>1, <1>4, ComposeStays
<1>6. Defines(g)
  <2>1. ASSUME NEW k \in 0 .. N
        PROVE  (IF k = 0 THEN blank ELSE f[k][g[k - 1]])
                   = (IF k = 0 THEN blank
                      ELSE D!Filled(g[k - 1], windows[D!Drawn(k)], D!Drawn(k)))
    <3>1. k # 0 => k \in 1 .. N /\ k - 1 \in 0 .. N
      BY <1>1
    <3> QED
      BY <1>5, <3>1
  <2>2. g = [k \in 0 .. N |-> IF k = 0 THEN blank ELSE f[k][g[k - 1]]]
    BY <1>5 DEF Composes
  <2> HIDE DEF f
  <2> QED
    BY <1>1, <2>1, <2>2
<1> DEFINE w == CHOOSE v : Defines(v)
<1>7. Defines(w)
  <2> HIDE DEF Defines
  <2> QED
    BY <1>6
<1>8. D!Frame[p] = IF p \in D!Cursor THEN -1 ELSE w[N][p]
  <2>1. D!Frame = [q \in D!Pixel |-> IF q \in D!Cursor THEN -1 ELSE w[N][q]]
    BY Zenon DEF D!Frame
  <2> HIDE DEF w
  <2> QED
    BY <2>1
<1> HIDE DEF w, f
<1>9. /\ w[0] = blank
      /\ \A k \in 1 .. N : w[k] = D!Filled(w[k - 1], windows[D!Drawn(k)], D!Drawn(k))
  BY <1>1, <1>7
<1> HIDE DEF Defines
<1> DEFINE S == {k \in 0 .. N : w[k] \in Screens /\ Shows(p, w[k][p], N + 1 - k)}
<1>10. 0 \in S
  <2>1. \A j \in SeenAt(p) : j < N + 1
    BY <1>1 DEF SeenAt
  <2>2. w[0] \in Screens /\ w[0][p] = 0
    BY <1>9
  <2> QED
    BY <1>1, <2>1, <2>2 DEF Shows
<1>11. ASSUME NEW k \in 1 .. N, k - 1 \in S
       PROVE  k \in S
  <2> DEFINE d == N + 1 - k   v == w[k - 1][p]   u == w[k][p]
  <2>1. d \in Child /\ d \in Int /\ D!Drawn(k) = d
    BY <1>1, <1>2
  <2>2. w[k - 1] \in Screens /\ Shows(p, v, d + 1)
    BY <1>1, <1>11
  <2>3. /\ w[k] \in Screens
        /\ u = IF windows[d].x < 0 \/ windows[d].y < 0 \/ ~D!ContainsCoordinate(windows[d], p)
               THEN v ELSE d
    BY <1>3, <1>9, <2>1, <2>2
  <2> HIDE DEF d, u, v
  <2>4. windows[d].x \in Int /\ windows[d].y \in Int
    BY <2>1 DEF Windows, Window
  <2>5. u = IF d \in SeenAt(p) THEN d ELSE v
    BY <2>1, <2>3, <2>4 DEF SeenAt
  <2>6. SeenAt(p) \subseteq Int
    BY <1>1 DEF SeenAt
  <2>7. Shows(p, u, d)
    BY <2>1, <2>2, <2>5, <2>6 DEF Shows
  <2> HIDE DEF Screens
  <2> QED
    BY <1>1, <2>3, <2>7 DEF d, u
<1> HIDE DEF S
<1>12. 0 .. N \subseteq S
  BY <1>1, <1>10, <1>11, UpTo
<1>13. N \in S /\ N + 1 - N = 1
  BY <1>1, <1>12
<1>14. Shows(p, w[N][p], 1)
  <2> HIDE DEF Screens, N
  <2> QED
    BY <1>13 DEF S
<1> QED
  BY <1>8, <1>14

(* What is seen is what a click reaches, whatever was dragged where.        *)
THEOREM ScreenIsTrue == Spec => []ScreenTrue
<1>1. ASSUME windows \in Windows PROVE D!SeenIsReached
  <2> SUFFICES ASSUME NEW p \in D!Pixel \ D!Cursor
               PROVE  LET i == D!ChildAt(windows, p)
                      IN  IF i = 0 THEN D!Frame[p] = 0
                          ELSE D!Frame[p] = i <=> windows[i].x >= 0 /\ windows[i].y >= 0
    BY Zenon DEF D!SeenIsReached
  <2> DEFINE i == D!ChildAt(windows, p)   v == D!Frame[p]
  <2>1. Shows(p, v, 1)
    BY <1>1, FrameShows
  <2>2. \/ i = 0 /\ \A j \in Child : ~D!ContainsCoordinate(windows[j], p)
        \/ /\ i \in Child /\ D!ContainsCoordinate(windows[i], p)
           /\ \A j \in Child : j < i => ~D!ContainsCoordinate(windows[j], p)
    BY <1>1, ChildIs
  <2> HIDE DEF i, v
  <2>3. 0 \notin Child /\ Child \subseteq Int /\ \A j \in Child : j >= 1
    BY DEF Child
  <2>4. CASE i = 0
    <3>1. SeenAt(p) = {}
      BY <2>2, <2>3, <2>4 DEF SeenAt
    <3>2. v = 0
      BY <2>1, <3>1 DEF Shows
    <3> QED
      BY <2>4, <3>2 DEF i, v
  <2>5. CASE i # 0
    <3>1. i \in Child /\ \A j \in SeenAt(p) : j >= i
      <4>1. i \in Child /\ i \in Int
        BY <2>2, <2>3, <2>5
      <4>2. ASSUME NEW j \in SeenAt(p) PROVE j >= i
        <5>1. j \in Child /\ D!ContainsCoordinate(windows[j], p) /\ j \in Int
          BY <2>3 DEF SeenAt
        <5>2. ~(j < i)
          BY <2>2, <2>5, <5>1
        <5> QED
          BY <4>1, <5>1, <5>2
      <4> QED
        BY <4>1, <4>2
    <3>2. i \in SeenAt(p) <=> windows[i].x >= 0 /\ windows[i].y >= 0
      BY <2>2, <2>5, <3>1 DEF SeenAt
    <3>3. SeenAt(p) \subseteq Child
      BY DEF SeenAt
    <3>4. v = i <=> i \in SeenAt(p)
      <4>1. ASSUME v = i PROVE i \in SeenAt(p)
        BY <2>1, <2>5, <4>1 DEF Shows
      <4>2. ASSUME i \in SeenAt(p) PROVE v = i
        <5>1. i \in Int /\ i >= 1
          BY <2>3, <3>1
        <5>2. v \in SeenAt(p) /\ v <= i
          BY <2>1, <4>2, <5>1 DEF Shows
        <5>3. v \in Int /\ v >= i
          BY <2>3, <3>1, <3>3, <5>2
        <5> QED
          BY <5>1, <5>2, <5>3
      <4> QED
        BY <4>1, <4>2
    <3> QED
      BY <2>5, <3>2, <3>4 DEF i, v
  <2> QED
    BY <2>4, <2>5
<1>2. (graphics => DriverInv /\ DesktopInv) => ScreenTrue
  BY <1>1 DEF ScreenTrue, DesktopInv, Screen, DesktopState
<1> QED
  BY <1>2, DesktopInvariant, PTL
=============================================================================
