---------------------------- MODULE NetworkProofs ----------------------------
(***************************************************************************)
(* Proofs about the network driver and its two rings, for every size of the *)
(* rings, every set of packets and every outcome of the allocations.        *)
(***************************************************************************)
EXTENDS Network, NumberLemmas, TLAPS

-----------------------------------------------------------------------------
(* The transmit ring. *)

(* How far behind descriptor i descriptor j is. *)
Dist(i, j) == IF j >= i THEN j - i ELSE j - i + RingSize

TxTyped ==
    /\ tdh \in Descriptor /\ tdt \in Descriptor
    /\ done \in [Descriptor -> BOOLEAN]
    /\ buffer \in [Descriptor -> Packet \cup {None}]
    /\ pc \in {"idle", "copy", "mark", "tail"}
    /\ pc # "idle" => packet \in Packet
    /\ wire \in Packet \cup {None}

(* The descriptors that are not done are those that wait for the card, and  *)
(* the one that send_packet has marked and not yet given to it.             *)
MarkedWaits ==
    \A i \in Descriptor :
        ~done[i] <=> (Dist(tdh, i) < Waiting \/ (pc = "tail" /\ i = tdt))

(* What waits is a packet; so is what send_packet has copied.               *)
PacketsWait ==
    /\ \A i \in Descriptor : Dist(tdh, i) < Waiting => buffer[i] \in Packet
    /\ pc \in {"mark", "tail"} => buffer[tdt] \in Packet

(* send_packet has found room, and the card has fetched what waits.         *)
RoomFound ==
    /\ pc \in {"copy", "mark"} => done[tdt]
    /\ pc = "tail" => Waiting < RingSize
    /\ wire # None => Waiting > 0

TxInv == TxTyped /\ MarkedWaits /\ PacketsWait /\ RoomFound

LEMMA DistTyped ==
    ASSUME NEW i \in Descriptor, NEW j \in Descriptor
    PROVE  /\ Dist(i, j) \in 0 .. (RingSize - 1)
           /\ (j - i) % RingSize = Dist(i, j)
           /\ Dist(i, j) = 0 <=> i = j
<1> DEFINE a == j - i
<1>1. /\ a \in Int /\ RingSize \in Nat \ {0}
      /\ -RingSize <= a /\ a < RingSize /\ a < 2 * RingSize
  BY RingAssumption DEF Descriptor
<1> HIDE DEF a
<1>2. /\ a < 0 => a % RingSize = a + RingSize
      /\ 0 <= a /\ a < RingSize => a % RingSize = a
  BY <1>1, ModSmall, Zenon
<1> QED
  BY <1>1, <1>2, RingAssumption DEF Dist, Descriptor, a

LEMMA AfterIs ==
    ASSUME NEW i \in Descriptor
    PROVE  /\ After(i) \in Descriptor /\ After(i) # i
           /\ After(i) = IF i = RingSize - 1 THEN 0 ELSE i + 1
<1> DEFINE a == i + 1
<1>1. /\ a \in Int /\ RingSize \in Nat \ {0}
      /\ 0 <= a /\ -RingSize <= a /\ a < 2 * RingSize
  BY RingAssumption DEF Descriptor
<1> HIDE DEF a
<1>2. /\ 0 <= a /\ a < RingSize => a % RingSize = a
      /\ RingSize <= a => a % RingSize = a - RingSize
  BY <1>1, ModSmall, Zenon
<1> QED
  BY <1>1, <1>2, RingAssumption DEF Descriptor, After, a

(* One step round the ring.                                                 *)
LEMMA DistAfter ==
    ASSUME NEW i \in Descriptor, NEW j \in Descriptor
    PROVE  /\ Dist(i, After(j)) = IF After(j) = i THEN 0 ELSE Dist(i, j) + 1
           /\ After(j) = i <=> Dist(i, j) = RingSize - 1
           /\ Dist(After(i), j) = IF i = j THEN RingSize - 1 ELSE Dist(i, j) - 1
BY AfterIs, RingAssumption DEF Dist, Descriptor

LEMMA WaitingIs ==
    ASSUME TxTyped
    PROVE  /\ Waiting = IF Jammed THEN RingSize ELSE Dist(tdh, tdt)
           /\ Waiting \in 0 .. RingSize
BY DistTyped, RingAssumption DEF TxTyped, Waiting

(* The tail's descriptor waits only once the ring is jammed.                *)
LEMMA TailFree ==
    ASSUME TxTyped, Dist(tdh, tdt) < Waiting
    PROVE  Jammed
BY WaitingIs, DistTyped DEF TxTyped

LEMMA TxInitInv == Init => TxInv
<1> SUFFICES ASSUME Init PROVE TxInv
  OBVIOUS
<1>1. TxTyped
  BY RingAssumption DEF Init, TxTyped, Descriptor
<1>2. 0 \in Descriptor /\ Dist(0, 0) = 0
  BY RingAssumption DEF Descriptor, Dist
<1>3. ~Jammed
  BY <1>2 DEF Init, Jammed
<1>4. Waiting = 0
  BY <1>1, <1>2, <1>3, WaitingIs DEF Init
<1> QED
  BY <1>1, <1>2, <1>4, DistTyped DEF Init, TxInv, MarkedWaits, PacketsWait, RoomFound

LEMMA SendKeeps ==
    ASSUME TxInv, NEW p \in Packet, Send(p)
    PROVE  TxInv' /\ Queue' = Queue
<1>1. Waiting' = Waiting
  BY DEF Send, Waiting, Jammed
<1>2. TxInv'
  BY <1>1 DEF Send, TxInv, TxTyped, MarkedWaits, PacketsWait, RoomFound
<1>3. Queue' = Queue
  BY <1>1 DEF Send, Queue
<1> QED
  BY <1>2, <1>3

(* A descriptor of the queue, by its place there.                           *)
LEMMA QueueIndex ==
    ASSUME TxInv, NEW k \in 1 .. (Waiting - (IF wire = None THEN 0 ELSE 1))
    PROVE  LET fetched == IF wire = None THEN 0 ELSE 1
               i == (tdh + fetched + k - 1) % RingSize
           IN  /\ i \in Descriptor
               /\ Dist(tdh, i) = fetched + k - 1
               /\ Dist(tdh, i) < Waiting
<1> DEFINE fetched == IF wire = None THEN 0 ELSE 1
           a == tdh + fetched + k - 1
           i == a % RingSize
<1>1. Waiting \in 0 .. RingSize /\ tdh \in Descriptor
  BY WaitingIs DEF TxInv, TxTyped
<1>2. fetched \in {0, 1} /\ k \in Nat /\ k >= 1 /\ fetched + k <= Waiting
  BY <1>1
<1> HIDE DEF fetched
<1>3. /\ RingSize \in Nat \ {0} /\ a \in Int /\ tdh <= a /\ a < tdh + RingSize
      /\ 0 <= tdh /\ tdh < RingSize
      /\ 0 <= a /\ -RingSize <= a /\ a < 2 * RingSize
  BY <1>1, <1>2, RingAssumption DEF Descriptor
<1>4. /\ 0 <= a /\ a < RingSize => i = a
      /\ RingSize <= a => i = a - RingSize
  <2> HIDE DEF a
  <2> QED
    BY <1>3, ModSmall, Zenon
<1>5. i \in Descriptor /\ Dist(tdh, i) = fetched + k - 1
  <2> HIDE DEF i
  <2> QED
    BY <1>1, <1>2, <1>3, <1>4 DEF Dist, Descriptor
<1> QED
  BY <1>1, <1>2, <1>5 DEF fetched

(* The bounds of the queue, and what it holds.                              *)
Fetched == IF wire = None THEN 0 ELSE 1

LEMMA QueueTyped ==
    ASSUME TxInv
    PROVE  /\ Fetched \in {0, 1} /\ Waiting - Fetched \in 0 .. RingSize
           /\ Queue \in Seq(Packet) /\ Len(Queue) = Waiting - Fetched
           /\ \A k \in 1 .. (Waiting - Fetched) :
                  Queue[k] = buffer[(tdh + Fetched + k - 1) % RingSize]
<1>1. Fetched \in {0, 1} /\ Waiting - Fetched \in 0 .. RingSize
  BY WaitingIs, RingAssumption DEF Fetched, TxInv, RoomFound
<1>2. Queue = [k \in 1 .. (Waiting - Fetched) |->
                  buffer[(tdh + Fetched + k - 1) % RingSize]]
  BY DEF Queue, Fetched
<1>3. \A k \in 1 .. (Waiting - Fetched) :
          buffer[(tdh + Fetched + k - 1) % RingSize] \in Packet
  BY QueueIndex, Zenon DEF TxInv, PacketsWait, Fetched
<1> QED
  BY <1>1, <1>2, <1>3

(* send_packet writes to the buffer at the tail, which does not wait.       *)
LEMMA CopyKeeps ==
    ASSUME TxInv, Copy
    PROVE  TxInv' /\ Queue' = Queue
<1>1. /\ pc = "copy" /\ pc' = "mark" /\ packet \in Packet /\ done[tdt]
      /\ tdt \in Descriptor /\ buffer' = [buffer EXCEPT ![tdt] = packet]
      /\ UNCHANGED <<tdh, tdt, done, packet, wire>>
  BY DEF Copy, TxInv, TxTyped, RoomFound
<1>2. Waiting' = Waiting
  BY <1>1 DEF Waiting, Jammed
<1>3. ~(Dist(tdh, tdt) < Waiting)
  BY <1>1 DEF TxInv, MarkedWaits
<1>4. TxInv'
  BY <1>1, <1>2, <1>3 DEF TxInv, TxTyped, MarkedWaits, PacketsWait, RoomFound
<1>5. \A k \in 1 .. (Waiting - Fetched) :
          LET i == (tdh + Fetched + k - 1) % RingSize
          IN  buffer'[i] = buffer[i]
  BY <1>1, <1>3, QueueIndex DEF Fetched, TxInv, TxTyped
<1>6. Queue' = Queue
  BY <1>1, <1>2, <1>5 DEF Queue, Fetched
<1> QED
  BY <1>4, <1>6

(* One descriptor that is marked does not jam a ring of two or more.        *)
LEMMA MarkKeeps ==
    ASSUME TxInv, Mark
    PROVE  TxInv' /\ Queue' = Queue
<1>1. /\ pc = "mark" /\ pc' = "tail" /\ done[tdt]
      /\ tdt \in Descriptor /\ tdh \in Descriptor /\ done' = [done EXCEPT ![tdt] = FALSE]
      /\ UNCHANGED <<tdh, tdt, buffer, packet, wire>> /\ TxTyped
  BY DEF Mark, TxInv, TxTyped, RoomFound
<1>2. ~Jammed /\ Waiting = Dist(tdh, tdt)
  BY <1>1, WaitingIs DEF Jammed
<1>3. ~Jammed'
  <2>1. CASE tdh = tdt
    <3>1. After(tdt) \in Descriptor /\ After(tdt) # tdt
      BY <1>1, AfterIs
    <3>2. ~(Dist(tdh, After(tdt)) < Waiting)
      BY <1>1, <1>2, <2>1, <3>1, DistTyped
    <3>3. done'[After(tdt)]
      BY <1>1, <3>1, <3>2 DEF TxInv, TxTyped, MarkedWaits
    <3> QED
      BY <3>1, <3>3 DEF Jammed
  <2> QED
    BY <1>1, <2>1 DEF Jammed
<1>4. TxTyped'
  BY <1>1 DEF TxTyped
<1>5. Waiting' = Waiting
  BY <1>1, <1>2, <1>3 DEF Waiting
<1>6. Waiting < RingSize
  BY <1>1, <1>2, DistTyped, RingAssumption
<1>7. MarkedWaits'
  BY <1>1, <1>2, <1>5 DEF TxInv, TxTyped, MarkedWaits
<1>8. TxInv'
  BY <1>1, <1>4, <1>5, <1>6, <1>7 DEF TxInv, PacketsWait, RoomFound
<1>9. Queue' = Queue
  BY <1>1, <1>5 DEF Queue
<1> QED
  BY <1>8, <1>9

(* The tail moves on: one more descriptor waits, and if it is the last one  *)
(* the ring is jammed.                                                      *)
LEMMA TailWaiting ==
    ASSUME TxInv, MoveTail
    PROVE  Waiting = Dist(tdh, tdt) /\ Waiting < RingSize /\ Waiting' = Waiting + 1
<1>1. /\ pc = "tail" /\ tdt' = After(tdt) /\ UNCHANGED <<tdh, done>>
      /\ tdt \in Descriptor /\ tdh \in Descriptor /\ TxTyped /\ Waiting < RingSize
  BY DEF MoveTail, TxInv, TxTyped, RoomFound
<1>2. ~Jammed /\ Waiting = Dist(tdh, tdt)
  BY <1>1, WaitingIs, RingAssumption
<1>3. Dist(tdh, tdt) \in 0 .. (RingSize - 1)
  BY <1>1, DistTyped
<1>4. CASE After(tdt) = tdh
  <2>1. Waiting = RingSize - 1
    BY <1>1, <1>2, <1>4, DistAfter
  <2>2. ASSUME NEW i \in Descriptor PROVE ~done[i]
    <3>1. Dist(tdh, i) \in 0 .. (RingSize - 1)
      BY <1>1, DistTyped
    <3>2. CASE Dist(tdh, i) < Waiting
      BY <3>2 DEF TxInv, MarkedWaits
    <3>3. CASE Dist(tdh, i) = Dist(tdh, tdt)
      <4>1. i = tdt
        BY <1>1, <3>3, RingAssumption DEF Dist, Descriptor
      <4> QED
        BY <1>1, <4>1 DEF TxInv, MarkedWaits
    <3> QED
      BY <1>2, <2>1, <3>1, <3>2, <3>3, RingAssumption
  <2>3. Jammed'
    BY <1>1, <1>4, <2>2 DEF Jammed
  <2> QED
    BY <1>1, <1>2, <2>1, <2>3, RingAssumption DEF Waiting
<1>5. CASE After(tdt) # tdh
  <2>1. ~Jammed'
    BY <1>1, <1>5 DEF Jammed
  <2>2. Waiting' = (After(tdt) - tdh) % RingSize
    BY <1>1, <2>1 DEF Waiting
  <2>3. Waiting' = Dist(tdh, After(tdt))
    BY <1>1, <2>2, AfterIs, DistTyped
  <2> QED
    BY <1>1, <1>2, <1>5, <2>3, DistAfter
<1> QED
  BY <1>1, <1>2, <1>4, <1>5

LEMMA MoveTailKeeps ==
    ASSUME TxInv, MoveTail
    PROVE  TxInv' /\ Fifo!Accept(buffer[tdt]) /\ buffer[tdt] \in Packet
<1>1. /\ pc = "tail" /\ pc' = "idle" /\ tdt' = After(tdt)
      /\ UNCHANGED <<tdh, done, buffer, wire>>
      /\ tdt \in Descriptor /\ tdh \in Descriptor /\ TxTyped
      /\ buffer[tdt] \in Packet
  BY DEF MoveTail, TxInv, TxTyped, PacketsWait
<1>2. Waiting = Dist(tdh, tdt) /\ Waiting < RingSize /\ Waiting' = Waiting + 1
  BY TailWaiting
<1>3. Waiting \in Nat /\ RingSize \in Nat
  BY <1>1, WaitingIs, RingAssumption
<1>4. \A i \in Descriptor :
          /\ Dist(tdh, i) \in Nat
          /\ Dist(tdh, i) < Waiting' <=> Dist(tdh, i) < Waiting \/ i = tdt
  <2> TAKE i \in Descriptor
  <2>1. Dist(tdh, i) \in Nat
    BY <1>1, DistTyped
  <2>2. Dist(tdh, i) = Dist(tdh, tdt) <=> i = tdt
    BY <1>1, RingAssumption DEF Dist, Descriptor
  <2> QED
    BY <1>2, <1>3, <2>1, <2>2
<1>5. TxTyped'
  BY <1>1, AfterIs DEF TxTyped
<1>6. MarkedWaits'
  BY <1>1, <1>4 DEF TxInv, MarkedWaits
<1>7. PacketsWait' /\ RoomFound'
  BY <1>1, <1>2, <1>3, <1>4 DEF TxInv, PacketsWait, RoomFound
<1>8. TxInv'
  BY <1>5, <1>6, <1>7 DEF TxInv
<1>9. Queue' = Append(Queue, buffer[tdt])
  <2>1. Fetched' = Fetched /\ Fetched \in {0, 1} /\ Waiting - Fetched \in Nat
        /\ Queue \in Seq(Packet) /\ Len(Queue) = Waiting - Fetched
        /\ Queue = [k \in 1 .. (Waiting - Fetched) |->
                       buffer[(tdh + Fetched + k - 1) % RingSize]]
    BY <1>1, QueueTyped DEF Fetched, Queue
  <2>2. Queue' = [k \in 1 .. (Waiting - Fetched + 1) |->
                     buffer[(tdh + Fetched + k - 1) % RingSize]]
    BY <1>1, <1>2, <1>3, <2>1 DEF Queue, Fetched
  <2>3. (tdh + Waiting) % RingSize = tdt
    <3> DEFINE a == tdh + Waiting
    <3>1. a \in Int /\ -RingSize <= a /\ 0 <= a /\ a < 2 * RingSize
          /\ RingSize \in Nat \ {0}
          /\ tdt = IF a < RingSize THEN a ELSE a - RingSize
      BY <1>1, <1>2, <1>3, RingAssumption DEF Descriptor, Dist
    <3> HIDE DEF a
    <3>2. /\ 0 <= a /\ a < RingSize => a % RingSize = a
          /\ RingSize <= a => a % RingSize = a - RingSize
      BY <3>1, ModSmall, Zenon
    <3> QED
      BY <3>1, <3>2 DEF a
  <2>4. tdh + Fetched + (Waiting - Fetched + 1) - 1 = tdh + Waiting
    BY <1>1, <1>3, <2>1 DEF Descriptor
  <2>5. Queue'[Waiting - Fetched + 1] = buffer[tdt]
    BY <2>1, <2>2, <2>3, <2>4
  <2> QED
    BY <1>1, <2>1, <2>2, <2>5
<1>10. Len(Queue) < RingSize
  BY <1>2, <1>3, QueueTyped
<1> QED
  BY <1>1, <1>8, <1>9, <1>10 DEF Fifo!Accept

(* The card fetches the packet at the head, which is then the next one to   *)
(* go out and no longer in the queue.                                       *)
LEMMA FetchKeeps ==
    ASSUME TxInv, Fetch
    PROVE  TxInv' /\ Fifo!Transmit
<1>1. /\ wire = None /\ tdh # tdt /\ wire' = buffer[tdh]
      /\ UNCHANGED <<tdh, tdt, done, buffer, pc, packet>>
      /\ tdh \in Descriptor /\ tdt \in Descriptor /\ TxTyped
  BY DEF Fetch, TxInv, TxTyped
<1>2. Waiting' = Waiting /\ Waiting \in Nat /\ Waiting > 0
  <2>1. Waiting' = Waiting
    BY <1>1 DEF Waiting, Jammed
  <2>2. Waiting = Dist(tdh, tdt)
    BY <1>1, WaitingIs DEF Jammed
  <2> QED
    BY <1>1, <2>1, <2>2, DistTyped
<1>3. Dist(tdh, tdh) = 0 /\ tdh \in Int
  BY <1>1, DistTyped DEF Descriptor
<1>4. buffer[tdh] \in Packet /\ wire' # None
  BY <1>1, <1>2, <1>3, RingAssumption DEF TxInv, PacketsWait
<1>5. TxInv'
  BY <1>1, <1>2, <1>4 DEF TxInv, TxTyped, MarkedWaits, PacketsWait, RoomFound
<1>6. Fetched = 0 /\ Fetched' = 1
  BY <1>1, <1>4 DEF Fetched
<1>7. /\ Queue \in Seq(Packet) /\ Len(Queue) = Waiting
      /\ \A k \in 1 .. Waiting : Queue[k] = buffer[(tdh + k - 1) % RingSize]
  BY <1>2, <1>3, <1>6, QueueTyped
<1>8. Queue' = [k \in 1 .. (Waiting - 1) |-> buffer[(tdh + k) % RingSize]]
  BY <1>1, <1>2, <1>3, <1>6 DEF Queue, Fetched
<1>9. Head(Queue) = buffer[tdh]
  <2>1. tdh % RingSize = tdh
    BY <1>1, RingAssumption DEF Descriptor
  <2> QED
    BY <1>2, <1>3, <1>7, <2>1
<1>10. Queue' = Tail(Queue)
  <2> DEFINE t == Tail(Queue)
  <2>1. Queue # <<>>
    BY <1>2, <1>7
  <2>2. /\ t \in Seq(Packet) /\ Len(t) = Waiting - 1
        /\ \A k \in 1 .. (Waiting - 1) : t[k] = Queue[k + 1]
    BY <1>2, <1>7, <2>1
  <2>3. \A k \in 1 .. (Waiting - 1) : Queue[k + 1] = buffer[(tdh + k) % RingSize]
    BY <1>2, <1>3, <1>7
  <2> HIDE DEF t
  <2>4. t = [k \in 1 .. (Waiting - 1) |-> t[k]]
    BY <2>2
  <2> QED
    BY <1>8, <2>2, <2>3, <2>4 DEF t
<1>11. Queue # <<>>
  BY <1>2, <1>7
<1> QED
  BY <1>1, <1>5, <1>9, <1>10, <1>11 DEF Fifo!Transmit

(* The card reports the packet sent: its descriptor waits no longer.        *)
LEMMA ReportWaiting ==
    ASSUME TxInv, Report
    PROVE  /\ Waiting' = Waiting - 1
           /\ ~(pc = "tail" /\ tdt = tdh)
<1>1. /\ wire # None /\ done' = [done EXCEPT ![tdh] = TRUE] /\ tdh' = After(tdh)
      /\ tdt' = tdt /\ tdh \in Descriptor /\ tdt \in Descriptor /\ TxTyped
      /\ Waiting > 0
  BY DEF Report, TxInv, TxTyped, RoomFound
<1>2. ~Jammed'
  BY <1>1, AfterIs DEF Jammed, TxTyped
<1>3. Waiting' = Dist(After(tdh), tdt)
  <2>1. Waiting' = (tdt - After(tdh)) % RingSize
    BY <1>1, <1>2 DEF Waiting
  <2> QED
    BY <1>1, <2>1, AfterIs, DistTyped
<1>4. CASE Jammed
  <2>1. Waiting = RingSize /\ tdt = tdh
    BY <1>1, <1>4, WaitingIs DEF Jammed
  <2>2. pc # "tail"
    BY <2>1, RingAssumption DEF TxInv, RoomFound
  <2> QED
    BY <1>1, <1>3, <2>1, <2>2, DistAfter
<1>5. CASE ~Jammed
  <2>1. Waiting = Dist(tdh, tdt)
    BY <1>1, <1>5, WaitingIs
  <2>2. tdt # tdh
    BY <1>1, <2>1, DistTyped
  <2> QED
    BY <1>1, <1>3, <2>1, <2>2, DistAfter
<1> QED
  BY <1>4, <1>5

LEMMA ReportKeeps ==
    ASSUME TxInv, Report
    PROVE  TxInv' /\ Fifo!Sent
<1>1. /\ wire # None /\ done' = [done EXCEPT ![tdh] = TRUE] /\ tdh' = After(tdh)
      /\ wire' = None /\ UNCHANGED <<tdt, buffer, pc, packet>>
      /\ tdh \in Descriptor /\ tdt \in Descriptor /\ TxTyped
      /\ Waiting > 0
  BY DEF Report, TxInv, TxTyped, RoomFound
<1>2. Waiting' = Waiting - 1 /\ ~(pc = "tail" /\ tdt = tdh)
  BY ReportWaiting
<1>3. Waiting \in 0 .. RingSize /\ RingSize \in Nat /\ tdh \in Nat
  BY <1>1, WaitingIs, RingAssumption DEF Descriptor
<1>4. \A i \in Descriptor :
          Dist(After(tdh), i) < Waiting - 1 <=> Dist(tdh, i) < Waiting /\ i # tdh
  <2> TAKE i \in Descriptor
  <2>1. Dist(tdh, i) \in 0 .. (RingSize - 1)
        /\ Dist(After(tdh), i) = IF tdh = i THEN RingSize - 1 ELSE Dist(tdh, i) - 1
    BY <1>1, DistTyped, DistAfter
  <2> QED
    BY <1>3, <2>1
<1>5. TxTyped'
  BY <1>1, AfterIs DEF TxTyped
<1>6. MarkedWaits'
  <2> SUFFICES ASSUME NEW i \in Descriptor
               PROVE  ~done'[i] <=> (Dist(After(tdh), i) < Waiting - 1
                                        \/ (pc = "tail" /\ i = tdt))
    BY <1>1, <1>2 DEF MarkedWaits, Dist
  <2>1. CASE i = tdh
    BY <1>1, <1>2, <1>4, <2>1 DEF TxTyped
  <2>2. CASE i # tdh
    BY <1>1, <1>4, <2>2 DEF TxInv, TxTyped, MarkedWaits
  <2> QED
    BY <2>1, <2>2
<1>7. PacketsWait'
  <2> SUFFICES /\ \A i \in Descriptor : Dist(After(tdh), i) < Waiting - 1 => buffer[i] \in Packet
               /\ pc \in {"mark", "tail"} => buffer[tdt] \in Packet
    BY <1>1, <1>2 DEF PacketsWait, Dist
  <2> QED
    BY <1>4 DEF TxInv, PacketsWait
<1>8. RoomFound'
  <2>1. pc \in {"copy", "mark"} => done'[tdt]
    BY <1>1 DEF TxInv, TxTyped, RoomFound
  <2> QED
    BY <1>1, <1>2, <1>3, <2>1 DEF TxInv, RoomFound
<1>9. Queue' = Queue
  <2>1. Fetched = 1 /\ Fetched' = 0
    BY <1>1 DEF Fetched
  <2>2. Queue = [k \in 1 .. (Waiting - 1) |-> buffer[(tdh + 1 + k - 1) % RingSize]]
    BY <2>1 DEF Queue, Fetched
  <2>3. Queue' = [k \in 1 .. (Waiting - 1) |-> buffer[(After(tdh) + 0 + k - 1) % RingSize]]
    BY <1>1, <1>2, <1>3, <2>1 DEF Queue, Fetched
  <2>4. ASSUME NEW k \in 1 .. (Waiting - 1)
        PROVE  (After(tdh) + 0 + k - 1) % RingSize = (tdh + 1 + k - 1) % RingSize
    <3> DEFINE a == After(tdh) + 0 + k - 1
               b == tdh + 1 + k - 1
    <3>1. After(tdh) = IF tdh = RingSize - 1 THEN 0 ELSE tdh + 1
      BY <1>1, AfterIs
    <3>2. /\ a \in Int /\ -RingSize <= a /\ 0 <= a /\ a < 2 * RingSize
          /\ b \in Int /\ -RingSize <= b /\ 0 <= b /\ b < 2 * RingSize
          /\ RingSize \in Nat \ {0}
          /\ (a = b \/ (a = b - RingSize /\ a < RingSize /\ RingSize <= b))
      BY <1>1, <1>3, <3>1, RingAssumption DEF Descriptor
    <3> HIDE DEF a, b
    <3>3. /\ 0 <= a /\ a < RingSize => a % RingSize = a
          /\ RingSize <= b => b % RingSize = b - RingSize
      BY <3>2, ModSmall, Zenon
    <3>4. a % RingSize = b % RingSize
      BY <3>2, <3>3
    <3> QED
      BY <3>4 DEF a, b
  <2> QED
    BY <2>2, <2>3, <2>4
<1>10. TxInv'
  BY <1>5, <1>6, <1>7, <1>8 DEF TxInv
<1> QED
  BY <1>1, <1>9, <1>10 DEF Fifo!Sent

(* A step of the ring is a step of the queue, or none that it sees.         *)
LEMMA TxNextInv ==
    ASSUME TxInv, [Next]_vars
    PROVE  TxInv' /\ [Fifo!Next]_(Fifo!vars)
<1> USE DEF Fifo!Next, Fifo!vars
<1>1. CASE UNCHANGED vars
  <2>1. Waiting' = Waiting
    BY <1>1 DEF vars, Waiting, Jammed
  <2>2. Queue' = Queue
    BY <1>1, <2>1 DEF vars, Queue
  <2>3. TxInv'
    BY <1>1, <2>1 DEF vars, TxInv, TxTyped, MarkedWaits, PacketsWait, RoomFound
  <2> QED
    BY <1>1, <2>2, <2>3 DEF vars
<1>2. ASSUME NEW p \in Packet, Send(p) PROVE TxInv' /\ UNCHANGED <<Queue, wire>>
  BY <1>2, SendKeeps DEF Send
<1>3. CASE Copy
  BY <1>3, CopyKeeps DEF Copy
<1>4. CASE Mark
  BY <1>4, MarkKeeps DEF Mark
<1>5. CASE MoveTail
  BY <1>5, MoveTailKeeps
<1>6. CASE Fetch
  BY <1>6, FetchKeeps
<1>7. CASE Report
  BY <1>7, ReportKeeps
<1> QED
  BY <1>1, <1>2, <1>3, <1>4, <1>5, <1>6, <1>7 DEF Next, Driver, Card

LEMMA FifoInit == Init => Fifo!Init
<1> SUFFICES ASSUME Init PROVE Queue = <<>> /\ wire = None
  BY DEF Fifo!Init
<1>1. TxInv /\ wire = None
  BY TxInitInv DEF Init
<1>2. ~Jammed /\ tdh = tdt /\ tdh \in Descriptor
  BY RingAssumption DEF Init, Jammed, Descriptor
<1>3. Waiting = 0
  BY <1>1, <1>2, WaitingIs, DistTyped DEF TxInv
<1>4. Queue \in Seq(Packet) /\ Len(Queue) = 0
  BY <1>1, <1>3, QueueTyped DEF Fetched
<1> QED
  BY <1>1, <1>4

(* The ring implements the queue, for every size of it: packets go out in   *)
(* the order they were accepted, unchanged, each once (intel_82540em.cpp:   *)
(* send_packet tests the status, copies, and moves the tail last).          *)
THEOREM RingIsQueue == Spec => FifoRefined
<1>1. Init => TxInv /\ Fifo!Init
  BY TxInitInv, FifoInit
<1>2. TxInv /\ [Next]_vars => TxInv' /\ [Fifo!Next]_(Fifo!vars)
  BY TxNextInv
<1> QED
  BY <1>1, <1>2, PTL DEF Spec, FifoRefined, Fifo!Spec

-----------------------------------------------------------------------------
(* Both rings at work. *)

LEMMA NetStepsTx ==
    ASSUME [NetNext]_netVars
    PROVE  [Next]_vars
BY DEF NetNext, netVars, vars, SetUp, RxSetup, TxSetup, Activate, CardReceives, CardSends,
   HandlerRuns, SendPacket, SendRuns, Next

(* So it does while the driver is set up, and interrupted to receive.       *)
THEOREM DriverIsQueue == NetSpec => FifoRefined
<1>1. NetInit => Init
  BY DEF NetInit
<1>2. [NetNext]_netVars => [Next]_vars
  BY NetStepsTx
<1>3. NetSpec => Spec
  BY <1>1, <1>2, PTL DEF NetSpec, Spec
<1> QED
  BY <1>3, RingIsQueue

-----------------------------------------------------------------------------
(* The receive ring. *)

RxTyped ==
    /\ rdh \in Rx!Descriptor /\ rdt \in Rx!Descriptor /\ next \in Rx!Descriptor
    /\ rxDone \in [Rx!Descriptor -> BOOLEAN] /\ unread \in [Rx!Descriptor -> BOOLEAN]

(* A descriptor that is done holds a packet that is not printed yet, but    *)
(* for the one just printed, whose status is still to be cleared.           *)
DoneUnread ==
    /\ \A i \in Rx!Descriptor : rxDone[i] => unread[i] \/ (handlerPc = "clear" /\ i = next)
    /\ handlerPc = "print" => rxDone[next]

RxInv == RxTyped /\ DoneUnread

LEMMA RxAfter ==
    ASSUME NEW i \in Rx!Descriptor
    PROVE  Rx!After(i) \in Rx!Descriptor
<1>1. i + 1 \in Int /\ RxRingSize \in Nat \ {0}
  BY NetworkAssumption DEF Rx!Descriptor
<1> QED
  BY <1>1 DEF Rx!After, Rx!Descriptor

LEMMA RxInitInv == Rx!Init => RxInv
BY NetworkAssumption DEF Rx!Init, RxInv, RxTyped, DoneUnread, Rx!Descriptor

LEMMA RxNextInv ==
    ASSUME RxInv, Rx!Receive \/ Rx!Handler \/ UNCHANGED <<rdh, rdt, rxDone, handlerPc, next, unread>>
    PROVE  RxInv'
<1> USE DEF RxInv, RxTyped, DoneUnread
<1>1. CASE Rx!Receive
  BY <1>1, RxAfter DEF Rx!Receive
<1>2. CASE Rx!Interrupt \/ Rx!WriteTail
  BY <1>2 DEF Rx!Interrupt, Rx!WriteTail
<1>3. CASE Rx!ReadTail
  BY <1>3, RxAfter DEF Rx!ReadTail
<1>4. CASE Rx!CheckDone
  BY <1>4 DEF Rx!CheckDone
<1>5. CASE Rx!PrintPacket
  BY <1>5 DEF Rx!PrintPacket
<1>6. CASE Rx!ClearDone
  BY <1>6, RxAfter DEF Rx!ClearDone
<1> QED
  BY <1>1, <1>2, <1>3, <1>4, <1>5, <1>6 DEF Rx!Handler

(* What the driver has set up before it lets the card run.                  *)
SetUpInv ==
    /\ stage \in {"rx", "tx", "activate", "on"}
    /\ rxOn => stage # "rx" /\ rxBuffers = RxRingSize
    /\ txOn => stage \notin {"rx", "tx"} /\ txBuffers = RingSize
    /\ \A i \in Rx!Descriptor : unread[i] => rxOn
    /\ wire # None => txOn

NetInv == TxInv /\ RxInv /\ SetUpInv

LEMMA NetInitInv == NetInit => NetInv
<1> SUFFICES ASSUME NetInit PROVE NetInv
  OBVIOUS
<1>1. TxInv /\ RxInv
  BY TxInitInv, RxInitInv DEF NetInit
<1>2. SetUpInv
  BY DEF NetInit, SetUpInv, Init, Rx!Init
<1> QED
  BY <1>1, <1>2 DEF NetInv

LEMMA SetUpNext ==
    ASSUME NetInv, [NetNext]_netVars
    PROVE  SetUpInv'
<1> USE DEF NetInv, SetUpInv
<1>1. CASE UNCHANGED netVars
  BY <1>1 DEF netVars
<1>2. CASE RxSetup
  BY <1>2 DEF RxSetup, Enabled, vars, rxVars
<1>3. CASE TxSetup
  BY <1>3 DEF TxSetup, Enabled, vars, rxVars
<1>4. CASE Activate
  BY <1>4 DEF Activate, vars
<1>5. CASE CardReceives
  BY <1>5 DEF CardReceives, vars, setupVars
<1>6. CASE CardSends
  BY <1>6 DEF CardSends, rxVars, setupVars
<1>7. CASE HandlerRuns
  <2>1. \A i \in Rx!Descriptor : unread'[i] => unread[i]
    BY <1>7 DEF HandlerRuns, Rx!Handler, Rx!Interrupt, Rx!ReadTail, Rx!CheckDone,
       Rx!PrintPacket, Rx!ClearDone, Rx!WriteTail, RxInv, RxTyped
  <2> QED
    BY <1>7, <2>1 DEF HandlerRuns, vars, setupVars
<1>8. CASE SendPacket \/ SendRuns
  <2>1. wire' = wire
    BY <1>8 DEF SendPacket, Send, SendRuns, Driver, Copy, Mark, MoveTail
  <2> QED
    BY <1>8, <2>1 DEF SendPacket, SendRuns, rxVars, setupVars
<1> QED
  BY <1>1, <1>2, <1>3, <1>4, <1>5, <1>6, <1>7, <1>8 DEF NetNext, SetUp

LEMMA NetStepsRx ==
    ASSUME [NetNext]_netVars
    PROVE  Rx!Receive \/ Rx!Handler \/ UNCHANGED <<rdh, rdt, rxDone, handlerPc, next, unread>>
BY DEF NetNext, netVars, rxVars, SetUp, RxSetup, TxSetup, Activate, CardReceives, CardSends,
   HandlerRuns, SendPacket, SendRuns

LEMMA NetNextInv ==
    ASSUME NetInv, [NetNext]_netVars
    PROVE  NetInv'
BY SetUpNext, NetStepsTx, NetStepsRx, TxNextInv, RxNextInv DEF NetInv

LEMMA NetInvariant == NetSpec => []NetInv
<1>1. NetInit => NetInv
  BY NetInitInv
<1>2. NetInv /\ [NetNext]_netVars => NetInv'
  BY NetNextInv
<1> QED
  BY <1>1, <1>2, PTL DEF NetSpec

(* No packet is printed twice, in rings of any size, though the card stores *)
(* packets between any two steps of the handler (intel_82540em.cpp:         *)
(* handle_rx prints, then clears the status, then moves on).                *)
THEOREM PacketsPrintedOnce == NetSpec => []PrintedOnce
<1>1. NetInv => PrintedOnce
  BY DEF NetInv, RxInv, RxTyped, DoneUnread, PrintedOnce, Rx!PrintedOnce
<1> QED
  BY <1>1, NetInvariant, PTL

(* The card touches no descriptor without a buffer, though the constructor  *)
(* goes on after an allocation that failed (intel_82540em.cpp: rx_setup and *)
(* tx_setup write the control registers last).                              *)
THEOREM BuffersThere == NetSpec => []BuffersBehindPackets
<1>1. NetInv => BuffersBehindPackets
  <2> SUFFICES ASSUME NetInv PROVE BuffersBehindPackets
    OBVIOUS
  <2>1. \A i \in Rx!Descriptor : unread[i] => i < rxBuffers
    BY NetworkAssumption DEF NetInv, SetUpInv, Rx!Descriptor
  <2>2. wire # None => tdh < txBuffers
    BY RingAssumption DEF NetInv, SetUpInv, TxInv, TxTyped, Descriptor
  <2> QED
    BY <2>1, <2>2 DEF BuffersBehindPackets
<1> QED
  BY <1>1, NetInvariant, PTL
=============================================================================
