------------------------------ MODULE BootProofs ------------------------------
(***************************************************************************)
(* Proofs about the PCI scan and the disk driver as the kernel runs them at *)
(* boot, for every bus, every function on it and every size of a sector.    *)
(***************************************************************************)
EXTENDS Boot, NumberLemmas, TLAPS

-----------------------------------------------------------------------------
(* The disk driver, and whoever calls it. *)

AnyCall == {"read", "write", "identify", "flush"}
AtaNext == Work \/ Driver \/ \E c \in AnyCall : Call(c) \/ Refuse(c)

(* A read that the drive took is the one that read_28 is in: the drive      *)
(* still has all of its words while read_28 polls, and those that are not   *)
(* moved while it moves them; what read_28 last saw of the drive is true.   *)
ReadInv ==
    /\ word \in 0 .. Words /\ left \in Int
    /\ drive = "absent" => job # "read"
    /\ job = "read" =>
         \/ pc = "idle" /\ drive \in {"ready", "error"}
         \/ /\ pc = "read" /\ left = Words /\ word = 0 /\ moved = 0
            /\ drive \in {"busy", "pending", "data", "error"}
            /\ status \in {"unread", "busy", "ready", "data", "error"}
            /\ status \in {"data", "error"} => drive = status
         \/ /\ pc = "readWords" /\ moved = word /\ left = Words - word
            /\ drive = IF left > 0 THEN "data" ELSE "ready"

AtaInv == ReadInv /\ ReadGetsSector

LEMMA AtaInitInv == Init => AtaInv
BY AtaAssumption DEF Init, AtaInv, ReadInv, ReadGetsSector, Succeeded

(* A drive that has nothing of a read left to do takes the next command.    *)
LEMMA CallKeeps ==
    ASSUME AtaInv, NEW c \in AnyCall, Call(c)
    PROVE  AtaInv'
<1> USE AtaAssumption DEF AtaInv
<1>1. ReadGetsSector'
  BY DEF Call, ReadGetsSector, Succeeded, AnyCall
<1>2. CASE drive \in {"ready", "pending", "error"}
  <2>1. /\ job' = c /\ word' = 0 /\ moved' = 0 /\ status' = "unread"
        /\ left' = (IF c = "flush" THEN 0 ELSE Words)
        /\ drive' = "busy" \/ (c = "write" /\ drive' = "data")
    BY <1>2 DEF Call, Command
  <2>2. c = "read" => pc' = "read"
    BY DEF Call
  <2> QED
    BY <1>1, <2>1, <2>2 DEF ReadInv
<1>3. CASE drive \notin {"ready", "pending", "error"}
  <2>1. UNCHANGED <<drive, job, left>> /\ word' = 0 /\ pc = "idle"
    BY <1>3 DEF Call, Command
  <2> QED
    BY <1>1, <1>3, <2>1 DEF ReadInv
<1> QED
  BY <1>2, <1>3

LEMMA RefuseKeeps ==
    ASSUME AtaInv, NEW c \in AnyCall, Refuse(c)
    PROVE  AtaInv'
BY DEF AtaInv, ReadInv, ReadGetsSector, Succeeded, Refuse, Return

LEMMA WorkKeeps ==
    ASSUME AtaInv, Work
    PROVE  AtaInv'
BY AtaAssumption DEF AtaInv, ReadInv, ReadGetsSector, Succeeded, Work

(* The driver polls, and decides on what it has read of the port.           *)
LEMMA PollKeeps ==
    ASSUME AtaInv, ReadStatus \/ Decide
    PROVE  AtaInv'
<1> USE AtaAssumption DEF AtaInv
<1>1. CASE ReadStatus
  BY <1>1 DEF ReadStatus, Observed, ReadInv, ReadGetsSector, Succeeded
<1>2. CASE Decide
  <2>1. /\ pc \in {"read", "identify", "flush"} /\ status \notin Polls(pc)
        /\ UNCHANGED <<drive, job, left, status, word, moved>>
    BY <1>2 DEF Decide
  <2>2. job = "read" => pc = "read" /\ status \in {"data", "error"}
    BY <2>1 DEF ReadInv, Polls
  <2>3. \/ status = "error" /\ pc' = "idle" /\ ret'.err # "SUCCESS"
        \/ pc = "flush" /\ pc' = "idle" /\ ret'.call = "flush"
        \/ pc' = "idle" /\ status = "absent" /\ ret'.err # "SUCCESS"
        \/ pc = "read" /\ pc' = "readWords" /\ status \notin {"error", "absent"}
        \/ pc = "identify" /\ pc' = "identifyWords"
    BY <1>2, <2>1 DEF Decide, Return
  <2>4. ReadInv'
    BY <2>1, <2>2, <2>3 DEF ReadInv
  <2>5. ReadGetsSector'
    BY <2>1, <2>2, <2>3 DEF ReadGetsSector, Succeeded
  <2> QED
    BY <2>4, <2>5
<1> QED
  BY <1>1, <1>2

LEMMA NextWordKeeps ==
    ASSUME AtaInv, NextWord
    PROVE  AtaInv'
<1> USE AtaAssumption DEF AtaInv
<1>1. pc \in {"readWords", "writeWords", "identifyWords"} /\ job' = job /\ status' = status
  BY DEF NextWord
<1>2. CASE word < Words
  <2>1. pc' = pc /\ ret' = ret /\ word' = word + 1
    BY <1>2 DEF NextWord, MoveWord
  <2>2. ReadGetsSector'
    BY <1>1, <2>1 DEF ReadGetsSector, Succeeded
  <2>3. left' \in Int /\ (drive = "absent" <=> drive' = "absent")
    BY <1>2 DEF NextWord, MoveWord, Moves, ReadInv
  <2>4. ASSUME job = "read"
        PROVE  /\ pc' = "readWords" /\ moved' = word' /\ left' = Words - word'
               /\ drive' = IF left' > 0 THEN "data" ELSE "ready"
    <3>1. /\ pc = "readWords" /\ moved = word /\ left = Words - word /\ left > 0
          /\ drive = "data"
      BY <1>1, <1>2, <2>4 DEF ReadInv
    <3>2. Moves({"read", "identify"})
      BY <2>4, <3>1 DEF Moves
    <3>3. MoveWord({"read", "identify"})
      BY <1>2, <3>1 DEF NextWord
    <3>4. /\ left' = left - 1 /\ moved' = moved + 1
          /\ drive' = IF left > 1 THEN "data" ELSE "ready"
      BY <2>4, <3>2, <3>3 DEF MoveWord
    <3> QED
      BY <1>2, <2>1, <3>1, <3>4 DEF ReadInv
  <2>5. ReadInv'
    BY <1>1, <1>2, <2>1, <2>3, <2>4 DEF ReadInv
  <2> QED
    BY <2>2, <2>5
<1>3. CASE ~(word < Words)
  <2>1. /\ pc' = "idle" /\ ret' = [call |-> CallOf, err |-> "SUCCESS"]
        /\ UNCHANGED <<drive, left, word, moved>>
    BY <1>3 DEF NextWord, Return
  <2>2. word = Words
    BY <1>3 DEF ReadInv
  <2>3. ReadInv' /\ ReadGetsSector'
    BY <1>1, <2>1, <2>2 DEF ReadInv, ReadGetsSector, Succeeded
  <2> QED
    BY <2>3
<1> QED
  BY <1>2, <1>3

LEMMA AtaNextInv ==
    ASSUME AtaInv, [AtaNext]_vars
    PROVE  AtaInv'
<1>1. CASE UNCHANGED vars
  BY <1>1 DEF vars, AtaInv, ReadInv, ReadGetsSector, Succeeded
<1> QED
  BY <1>1, CallKeeps, RefuseKeeps, WorkKeeps, PollKeeps, NextWordKeeps DEF AtaNext, Driver

LEMMA BootStepsAta ==
    ASSUME [BootNext]_allVars
    PROVE  [AtaNext]_vars
<1>1. "read" \in AnyCall /\ Calls \subseteq AnyCall
  BY AtaAssumption DEF AnyCall
<1>2. ASSUME NEW then, ReadSector(then) PROVE [AtaNext]_vars
  BY <1>1, <1>2 DEF ReadSector, AtaNext
<1>3. ASSUME NEW place, Goto(place) PROVE [AtaNext]_vars
  BY <1>3 DEF Goto
<1>4. CASE Scan \/ ActivateAll \/ UNCHANGED allVars
  BY <1>4 DEF Scan, ActivateAll, allVars
<1>5. CASE Kernel
  BY <1>2, <1>3, <1>5 DEF Kernel, ReadTable, Partition, Mounted, ReadDirectory, Entries,
     NextCluster, ReadFile
<1>6. CASE LaterCall \/ Disk
  BY <1>1, <1>6 DEF LaterCall, Disk, AtaNext
<1> QED
  BY <1>4, <1>5, <1>6 DEF BootNext

(* read_28 that succeeds has got its whole sector, of any number of words,  *)
(* if the drive took its command (ata.cpp: read_28 polls, then moves words  *)
(* without a look at the drive).                                            *)
THEOREM SectorsWhole == BootSpec => []ReadGetsSector
<1>1. BootInit => AtaInv
  BY AtaInitInv DEF BootInit
<1>2. AtaInv /\ [BootNext]_allVars => AtaInv'
  BY BootStepsAta, AtaNextInv
<1>3. AtaInv => ReadGetsSector
  BY DEF AtaInv
<1> QED
  BY <1>1, <1>2, <1>3, PTL DEF BootSpec

-----------------------------------------------------------------------------
(* The PCI scan. *)

BarsBelow(f, k) == {n \in MemoryBars(f) : n < k}

(* The descriptor once the BARs below k of the function were looked at.     *)
FirstOf(f, d, S) ==
    \/ S = {} /\ d = NoDevice
    \/ \E n \in S : /\ \A m \in S : n <= m
                    /\ d = [base |-> f.bars[n].value.addr, size |-> f.bars[n].size]

CardInv(c) == 2 \in c.command /\ (1 \in c.command \/ c.asked = {2})

(* Between two turns of the loop the function is as the firmware left it.   *)
ScanInv ==
    /\ stage \in {"function", "bars", "driver", "done"}
    /\ bar \in 0 .. NumBars /\ (stage # "bars" => bar = 0)
    /\ here = found
    /\ stage \in {"bars", "driver"} => found \in Functions
    /\ stage = "bars" /\ ~BeyondReach(found) => FirstOf(found, dev, BarsBelow(found, bar))
    /\ stage = "driver" /\ ~BeyondReach(found) => FirstOf(found, dev, MemoryBars(found))

CardsInv ==
    /\ cards \in Seq([line : Nat, command : SUBSET {1, 2}, asked : SUBSET {1, 2}])
    /\ \A i \in DOMAIN cards : CardInv(cards[i])

PciInv == ScanInv /\ CardsInv

LEMMA RegisterTyped ==
    ASSUME NEW f \in Functions, NEW n \in 0 .. NumBars
    PROVE  /\ f.bars[n] \in Register /\ WellMade(f, n)
           /\ f.header \in 0 .. 2 /\ MaxBars(f) \in Int /\ MaxBars(f) <= NumBars
           /\ f.bars \in [0 .. NumBars -> Register]
           /\ f = [f EXCEPT !.bars = f.bars]
BY PciAssumption DEF MaxBars, NumBars

(* Sizing leaves a register as it was: a BAR is written with ones and then  *)
(* with a multiple of its size, its own value.                              *)
LEMMA SizedRestores ==
    ASSUME NEW f \in Functions, NEW n \in 0 .. NumBars
    PROVE  Sized(f.bars[n]) = f.bars[n]
<1> DEFINE b == f.bars[n]
<1>1. b \in Register /\ WellMade(f, n)
  BY RegisterTyped
<1>2. /\ b = [kind |-> b.kind, size |-> b.size, value |-> b.value]
      /\ b.value = [addr |-> b.value.addr, low |-> b.value.low]
      /\ b.kind \in {"none", "bar", "high"} /\ b.value.addr \in Nat
  BY <1>1 DEF Register, Value
<1>3. CASE b.kind = "none"
  BY <1>3 DEF Sized, Written
<1>4. CASE b.kind = "high"
  BY <1>2, <1>4 DEF Sized, Written
<1>5. CASE b.kind = "bar"
  <2>1. b.value.addr - (b.value.addr % b.size) = b.value.addr
    BY <1>1, <1>2, <1>5 DEF WellMade
  <2>2. Written(Written(b, ONES), b.value) = [b EXCEPT !.value.addr = b.value.addr]
    BY <1>2, <1>5, <2>1 DEF Written
  <2> QED
    BY <1>2, <2>2 DEF Sized
<1> QED
  BY <1>2, <1>3, <1>4, <1>5

(* The ones that stick stand for a BAR's size, unless it spans everything.  *)
LEMMA SizeOfBar ==
    ASSUME NEW f \in Functions, NEW n \in 0 .. NumBars, f.bars[n].kind = "bar",
           SizeOf(f.bars[n]) # 0
    PROVE  SizeOf(f.bars[n]) = f.bars[n].size
<1> DEFINE b == f.bars[n]
<1>1. b \in Register /\ WellMade(f, n)
  BY RegisterTyped
<1>2. b.size \in 1 .. Top /\ Top \in Nat \ {0} /\ Top % b.size = 0
  BY <1>1, PciAssumption DEF Register, WellMade
<1>3. Written(b, ONES).value.addr = (Top - 1) - ((Top - 1) % b.size)
  BY <1>1 DEF Written, ONES, Register, Value
<1>4. (Top - 1) % b.size = b.size - 1
  BY <1>2, BeforeMultiple
<1>5. SizeOf(b) = b.size % Top
  BY <1>2, <1>3, <1>4 DEF SizeOf
<1> QED
  BY <1>2, <1>5

LEMMA PciInitInv == PciInit => PciInv
BY DEF PciInit, PciInv, ScanInv, CardsInv, NumBars

(* One turn of the loop leaves the function as it is, and the descriptor is *)
(* that of the first BAR below.                                             *)
LEMMA ProbeKeeps ==
    ASSUME PciInv, ProbeBar
    PROVE  PciInv'
<1> DEFINE b == here.bars[bar]
           wide == Mode(b.value) = 2
           beyond == wide /\ here.bars[bar + 1].value # ZERO
<1>1. /\ stage = "bars" /\ bar \in 0 .. (NumBars - 1) /\ here = found
      /\ found \in Functions /\ CardsInv
      /\ stage' = "bars" /\ bar' = bar + 1 /\ found' = found /\ cards' = cards
  BY DEF ProbeBar, PciInv, ScanInv, NumBars, scanVars
<1>2. bar \in 0 .. NumBars /\ bar + 1 \in 0 .. NumBars /\ NumBars = 6
  BY <1>1 DEF NumBars
<1>3. /\ \A n \in 0 .. NumBars : Sized(found.bars[n]) = found.bars[n]
      /\ found.bars \in [0 .. NumBars -> Register]
      /\ found = [found EXCEPT !.bars = found.bars]
  <2>1. 0 \in 0 .. NumBars
    BY DEF NumBars
  <2> QED
    BY <1>1, <2>1, SizedRestores, RegisterTyped
<1>4. CASE bar >= MaxBars(here) \/ IsIO(b.value)
  <2>1. here' = here /\ dev' = dev
    BY <1>1, <1>4 DEF ProbeBar
  <2>2. MaxBars(found) \in Int
    BY <1>1, RegisterTyped, <1>2
  <2>3. BarsBelow(found, bar + 1) = BarsBelow(found, bar)
    BY <1>1, <1>4, <2>2 DEF BarsBelow, MemoryBars
  <2> QED
    BY <1>1, <1>2, <2>1, <2>3 DEF PciInv, ScanInv, CardsInv, FirstOf
<1>5. CASE ~(bar >= MaxBars(here) \/ IsIO(b.value))
  <2> DEFINE sized == IF wide /\ ~beyond THEN SizedPair(bar) ELSE SizedOne(bar)
  <2>1. /\ here' = [here EXCEPT !.bars = sized]
        /\ dev' = IF Takes(b) /\ ~beyond /\ Mode(b.value) # 3
                  THEN [base |-> b.value.addr, size |-> SizeOf(b)]
                  ELSE dev
    BY <1>1, <1>5 DEF ProbeBar
  <2>2. here' = found
    <3>1. SizedPair(bar) = found.bars
      BY <1>1, <1>2, <1>3 DEF SizedPair
    <3>2. SizedOne(bar) = found.bars
      BY <1>1, <1>2, <1>3 DEF SizedOne
    <3>3. sized = found.bars
      BY <1>1, <3>1, <3>2
    <3> QED
      BY <1>1, <1>3, <2>1, <3>3
  <2>3. ASSUME ~BeyondReach(found)
        PROVE  FirstOf(found, dev', BarsBelow(found, bar + 1))
    <3>1. FirstOf(found, dev, BarsBelow(found, bar))
      BY <1>1, <2>3 DEF PciInv, ScanInv
    <3>2. b \in Register /\ WellMade(found, bar) /\ MaxBars(found) \in Int
      BY <1>1, <1>2, RegisterTyped
    <3>3. bar < MaxBars(found) /\ ~IsIO(b.value) /\ bar \in 0 .. (MaxBars(found) - 1)
      BY <1>1, <1>5, <3>2
    <3>4. b.kind # "bar" => b.value.addr = 0
      <4>1. CASE b.kind = "none"
        BY <1>1, <1>2, <3>2, <3>3, <4>1 DEF WellMade
      <4>2. CASE b.kind = "high"
        <5>1. bar - 1 \in 0 .. (NumBars - 1) /\ found.bars[(bar - 1) + 1] = b
          BY <1>1, <1>2, <3>2, <4>2 DEF WellMade
        <5>2. b.value = ZERO
          BY <2>3, <4>2, <5>1 DEF BeyondReach
        <5> QED
          BY <5>2 DEF ZERO
      <4> QED
        BY <3>2, <4>1, <4>2 DEF Register
    <3>5. bar \in MemoryBars(found) <=>
             b.value.addr # 0 /\ SizeOf(b) # 0 /\ ~beyond /\ Mode(b.value) # 3
      BY <1>1, <3>3, <3>4 DEF MemoryBars
    <3>6. \A n \in MemoryBars(found) : n \in Nat /\ n <= NumBars /\ found.bars[n].value.addr # 0
      BY <1>1, <1>2, <3>2, RegisterTyped DEF MemoryBars
    <3> HIDE DEF b, beyond, wide
    <3>7. CASE bar \notin MemoryBars(found)
      <4>1. BarsBelow(found, bar + 1) = BarsBelow(found, bar)
        BY <1>2, <3>6, <3>7 DEF BarsBelow
      <4>2. dev' = dev
        BY <2>1, <3>5, <3>7 DEF Takes
      <4> QED
        BY <1>1, <3>1, <4>1, <4>2 DEF FirstOf
    <3>8. CASE bar \in MemoryBars(found)
      <4>1. BarsBelow(found, bar + 1) = BarsBelow(found, bar) \cup {bar}
        BY <1>2, <3>6, <3>8 DEF BarsBelow
      <4>2. CASE BarsBelow(found, bar) = {}
        <5>1. dev = NoDevice
          BY <3>1, <4>2 DEF FirstOf
        <5>2. dev' = [base |-> b.value.addr, size |-> SizeOf(b)]
          BY <2>1, <3>5, <3>8, <5>1 DEF Takes, NoDevice
        <5>3. SizeOf(b) = b.size
          BY <1>1, <1>2, <3>4, <3>5, <3>8, SizeOfBar DEF b
        <5>4. dev' = [base |-> found.bars[bar].value.addr, size |-> found.bars[bar].size]
          BY <1>1, <5>2, <5>3 DEF b
        <5>5. BarsBelow(found, bar + 1) = {bar} /\ bar <= bar
          BY <1>2, <4>1, <4>2
        <5> QED
          BY <5>4, <5>5 DEF FirstOf
      <4>3. CASE BarsBelow(found, bar) # {}
        <5>1. PICK n \in BarsBelow(found, bar) :
                 /\ \A m \in BarsBelow(found, bar) : n <= m
                 /\ dev = [base |-> found.bars[n].value.addr, size |-> found.bars[n].size]
          BY <3>1, <4>3 DEF FirstOf
        <5>2. n \in Nat /\ n < bar /\ dev.base # 0
          BY <3>6, <5>1 DEF BarsBelow
        <5>3. dev' = dev
          BY <2>1, <5>2 DEF Takes
        <5>4. n \in BarsBelow(found, bar + 1) /\ \A m \in BarsBelow(found, bar + 1) : n <= m
          BY <1>2, <4>1, <5>1, <5>2
        <5> QED
          BY <5>1, <5>3, <5>4 DEF FirstOf
      <4> QED
        BY <4>2, <4>3
    <3> QED
      BY <3>7, <3>8
  <2> QED
    BY <1>1, <1>2, <2>2, <2>3 DEF PciInv, ScanInv, CardsInv
<1> QED
  BY <1>4, <1>5

LEMMA OnwardsKeeps ==
    ASSUME PciInv, NEW m \in BOOLEAN, Onwards(m), bar' = bar, bar = 0, CardsInv'
    PROVE  PciInv'
BY DEF PciInv, ScanInv, Onwards

(* A function that is found is looked at from its first BAR on.             *)
LEMMA FindKeeps ==
    ASSUME PciInv, several \in BOOLEAN, FindFunction
    PROVE  PciInv'
<1>1. stage = "function" /\ bar = 0 /\ bar' = bar /\ cards' = cards
  BY DEF FindFunction, PciInv, ScanInv
<1>2. CardsInv'
  BY <1>1 DEF PciInv, CardsInv
<1>3. CASE \E m \in BOOLEAN : Onwards(m)
  BY <1>1, <1>2, <1>3, OnwardsKeeps
<1>4. ASSUME NEW f \in Functions, found' = f, here' = f, dev' = NoDevice, stage' = "bars"
      PROVE  PciInv'
  <2>1. BarsBelow(f, 0) = {}
    BY DEF BarsBelow, MemoryBars
  <2> QED
    BY <1>1, <1>2, <1>4, <2>1 DEF PciInv, ScanInv, FirstOf
<1> QED
  BY <1>3, <1>4 DEF FindFunction

LEMMA ProbedKeeps ==
    ASSUME PciInv, BarsProbed
    PROVE  PciInv'
<1>1. /\ stage = "bars" /\ bar = NumBars /\ bar' = 0 /\ stage' = "driver"
      /\ UNCHANGED <<found, here, dev, cards>> /\ found \in Functions
  BY DEF BarsProbed, PciInv, ScanInv
<1>2. BarsBelow(found, NumBars) = MemoryBars(found)
  <2>1. 0 \in 0 .. NumBars
    BY DEF NumBars
  <2>2. MaxBars(found) \in Int /\ MaxBars(found) <= NumBars
    BY <1>1, <2>1, RegisterTyped
  <2> QED
    BY <2>2 DEF BarsBelow, MemoryBars, NumBars
<1> QED
  BY <1>1, <1>2 DEF PciInv, ScanInv, CardsInv, NumBars

(* The command register of a card that gets its driver.                     *)
LEMMA GetDriverKeeps ==
    ASSUME PciInv, several \in BOOLEAN, GetDriver
    PROVE  PciInv'
<1>1. stage = "driver" /\ bar = 0 /\ bar' = bar /\ Onwards(several)
  BY DEF GetDriver, PciInv, ScanInv
<1>2. CardsInv'
  <2>1. CASE cards' = cards
    BY <2>1 DEF PciInv, CardsInv
  <2>2. CASE cards' # cards
    <3> DEFINE c == [line |-> here.line, command |-> CommandAfter(here.command),
                     asked |-> here.command]
    <3>1. cards' = Append(cards, c)
      BY <2>2 DEF GetDriver
    <3>2. here.command \in SUBSET {1, 2} /\ here.line \in Nat
      BY <1>1, PciAssumption DEF PciInv, ScanInv
    <3>3. c \in [line : Nat, command : SUBSET {1, 2}, asked : SUBSET {1, 2}] /\ CardInv(c)
      BY <3>2 DEF CardInv, CommandAfter
    <3> HIDE DEF c
    <3> QED
      BY <3>1, <3>3 DEF PciInv, CardsInv
  <2> QED
    BY <2>1, <2>2
<1> QED
  BY <1>1, <1>2, OnwardsKeeps

LEMMA PciNextInv ==
    ASSUME PciInv, several \in BOOLEAN, [PciNext]_pciVars
    PROVE  PciInv' /\ several' \in BOOLEAN
<1>1. PciInv'
  <2>1. CASE UNCHANGED pciVars
    BY <2>1 DEF pciVars, PciInv, ScanInv, CardsInv
  <2> QED
    BY <2>1, FindKeeps, ProbeKeeps, ProbedKeeps, GetDriverKeeps DEF PciNext
<1>2. several' \in BOOLEAN
  BY DEF PciNext, FindFunction, ProbeBar, BarsProbed, GetDriver, pciVars, scanVars
<1> QED
  BY <1>1, <1>2

LEMMA BootStepsPci ==
    ASSUME [BootNext]_allVars
    PROVE  [PciNext]_pciVars
BY DEF BootNext, Scan, ActivateAll, Kernel, LaterCall, Disk, allVars

LEMMA BootPciInv == BootSpec => [](PciInv /\ several \in BOOLEAN)
<1>1. BootInit => PciInv /\ several \in BOOLEAN
  BY PciInitInv DEF BootInit, PciInit
<1>2. PciInv /\ several \in BOOLEAN /\ [BootNext]_allVars => (PciInv /\ several \in BOOLEAN)'
  BY BootStepsPci, PciNextInv
<1> QED
  BY <1>1, <1>2, PTL DEF BootSpec

(* Sizing leaves each register of a function as the firmware set it up      *)
(* (pci.cpp: get_base_address_register writes ones and writes back), the    *)
(* high halves that are looked at twice too, whatever BARs there are.       *)
THEOREM SizingRestores == BootSpec => []BarsRestored
<1>1. PciInv => BarsRestored
  BY DEF PciInv, ScanInv, BarsRestored
<1> QED
  BY <1>1, BootPciInv, PTL

(* A card's driver gets the first of its BARs that maps memory, and a       *)
(* command register with which the card is a bus master (pci.cpp:           *)
(* get_driver).                                                             *)
THEOREM CardsDriven == BootSpec => []RegistersFound
<1>1. PciInv => RegistersFound
  BY DEF PciInv, ScanInv, CardsInv, CardInv, FirstOf, RegistersFound
<1> QED
  BY <1>1, BootPciInv, PTL
=============================================================================
