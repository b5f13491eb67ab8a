--------------------------------- MODULE Pci ---------------------------------
(***************************************************************************)
(* The PCI controller (src/hardware_communication/pci.cpp) and the driver   *)
(* manager (src/drivers/driver.cpp): the scan of the bus at boot, which      *)
(* sizes the base address registers (BARs) of every function and makes a    *)
(* driver for each network card.  It runs alone, before interrupts are       *)
(* enabled, so that one BAR is one action.                                  *)
(*                                                                         *)
(* The functions are external; only the one being scanned is kept.  A       *)
(* register's value is [addr, low]: the bits above the low four, in units   *)
(* of 16 bytes, and the low four, which a BAR has hard-wired:               *)
(*   bit 0  an I/O BAR,     bits 1, 2  the mode: 2 has the 32 bits above in  *)
(*   the register that follows.                                             *)
(* A BAR keeps of what is written to addr the multiples of its size.        *)
(***************************************************************************)
EXTENDS Integers, Sequences

CONSTANTS
    NumDevices,      \* on all busses, 8 * 32
    NumFunctions,    \* of a device that has several, 8
    Top,             \* addr is below this: 2^28
    Functions,       \* the functions there may be
    MaxDrivers,      \* 255
    MaxCards,        \* bound on the number of network cards, for TLC
    Outcomes         \* of malloc

NumBars == 6
Value == [addr : 0 .. (Top - 1), low : 0 .. 15]
Register == [kind : {"none", "bar", "high"}, size : 1 .. Top, value : Value]

MaxBars(f) == 6 - 4 * f.header

(* What a function's registers are to the bus: a BAR has a size that is a   *)
(* power of two, and holds a multiple of it; one that is not there reads as *)
(* zero; the first is not the high half of another.                        *)
WellMade(f, n) ==
    LET b == f.bars[n]
    IN  /\ b.kind = "bar" => Top % b.size = 0 /\ b.value.addr % b.size = 0
        /\ b.kind = "none" /\ n < MaxBars(f) => b.value = [addr |-> 0, low |-> 0]
        /\ b.kind = "high" => n > 0

(* line is the dword at 0x3C; command the bits of the command register that *)
(* are set: 1 decodes memory, 2 masters the bus.  bars has one more register*)
(* than there are BARs, the one that follows them.                          *)
ASSUME PciAssumption ==
    /\ {NumDevices, NumFunctions, Top} \subseteq Nat \ {0}
    /\ MaxDrivers \in Nat /\ MaxCards \in Nat
    /\ Functions \subseteq [network : BOOLEAN, header : 0 .. 2, line : Nat,
                            command : SUBSET {1, 2}, bars : [0 .. NumBars -> Register]]
    /\ \A f \in Functions, n \in 0 .. NumBars : WellMade(f, n)
    /\ Outcomes \subseteq BOOLEAN /\ Outcomes # {}

VARIABLES
    stage,       \* of the scan: "function", "bars", "driver" or "done"
    device,      \* the loops' device and function
    function,
    several,     \* device_has_functions of the device
    found,       \* the function scanned, as the firmware left it
    here,        \* the same function as it is now
    bar,         \* the loop's BAR
    dev,         \* its PCIDeviceDescriptor: [base, size]
    drivers,     \* m_drivers
    handler,     \* handlers of the interrupt manager: vector -> driver
    cards        \* the network cards that have a driver, in order

scanVars == <<device, function, several>>
pciVars == <<stage, device, function, several, found, here, bar, dev,
             drivers, handler, cards>>

-----------------------------------------------------------------------------
ZERO == [addr |-> 0, low |-> 0]
ONES == [addr |-> Top - 1, low |-> 15]
NoRegister == [kind |-> "none", size |-> 1, value |-> ZERO]
Nothing == [network |-> FALSE, header |-> 0, line |-> 0, command |-> {},
            bars |-> [n \in 0 .. NumBars |-> NoRegister]]
NoDevice == [base |-> 0, size |-> 0]

(* The hardware: what register r is once v is written to it. *)
Written(r, v) ==
    CASE r.kind = "none" -> r
      [] r.kind = "bar" -> [r EXCEPT !.value.addr = v.addr - (v.addr % r.size)]
      [] r.kind = "high" -> [r EXCEPT !.value = v]

IsIO(v) == v.low % 2 = 1
Mode(v) == (v.low \div 2) % 4

INTERRUPTS_BASE == 32
Vector(line) == (line + INTERRUPTS_BASE) % 256

(* The drivers: the mouse on line 12, the keyboard on line 1, then cards.   *)
MOUSE == 1
KEYBOARD == 2
Card(i) == i + 2

(* The first two are made, and added, before the scan. *)
PciInit ==
    /\ stage = "function"
    /\ device = 0 /\ function = 0 /\ several = FALSE
    /\ found = Nothing /\ here = Nothing /\ bar = 0 /\ dev = NoDevice
    /\ drivers = <<MOUSE, KEYBOARD>>
    /\ handler = [v \in {Vector(12), Vector(1)} |->
                    IF v = Vector(12) THEN MOUSE ELSE KEYBOARD]
    /\ cards = <<>>

-----------------------------------------------------------------------------
(* On to the next function, or to the next device if m is FALSE or this was *)
(* the last.                                                               *)
Onwards(m) ==
    LET last == function + 1 = (IF m THEN NumFunctions ELSE 1)
    IN  /\ function' = (IF last THEN 0 ELSE function + 1)
        /\ device' = (IF last THEN device + 1 ELSE device)
        /\ stage' = (IF last /\ device + 1 = NumDevices THEN "done" ELSE "function")
        /\ found' = Nothing /\ here' = Nothing /\ dev' = NoDevice

(* The header type of function 0 tells whether the device has others.  A    *)
(* function that is not there reads as ones, so a device that is not there  *)
(* is taken for one with several functions, none of them there.             *)
FindFunction ==
    /\ stage = "function"
    /\ \E m \in (IF function = 0 THEN BOOLEAN ELSE {several}) :
        /\ several' = m
        /\ \/ (function = 0 => m) /\ Onwards(m)
           \/ \E f \in Functions :
                /\ f.network => Len(cards) < MaxCards
                /\ found' = f /\ here' = f /\ dev' = NoDevice
                /\ stage' = "bars"
                /\ UNCHANGED <<device, function>>
    /\ UNCHANGED <<bar, drivers, handler, cards>>

-----------------------------------------------------------------------------
(* get_base_address_register: how many BARs a header has, above; what a BAR *)
(* is once it was written with ones, read and written back; and the size    *)
(* the ones that stuck stand for.                                           *)
Sized(r) == Written(Written(r, ONES), r.value)
SizeOf(r) == (Top - Written(r, ONES).value.addr) % Top

(* Mutant: the high half is not written back. *)
SizedPairHighOnes(n) ==
    [here.bars EXCEPT ![n] = Sized(@), ![n + 1] = Written(@, ONES)]

SizedOne(n) == [here.bars EXCEPT ![n] = Sized(@)]
SizedPair(n) == [here.bars EXCEPT ![n] = Sized(@), ![n + 1] = Sized(@)]

(* Mutant: a later BAR takes the place of the first one found. *)
TakesAny(b) == b.value.addr # 0 /\ SizeOf(b) # 0

(* The first memory BAR that is set up is taken for the card's registers. *)
Takes(b) == b.value.addr # 0 /\ SizeOf(b) # 0 /\ dev.base = 0

(* One turn of the loop over the BARs.  An I/O BAR is given no size, and so *)
(* is never taken; of a 64-bit one above 4 GB only the low half is sized.   *)
(* The high half is then looked at as a BAR of its own.                     *)
ProbeBar ==
    /\ stage = "bars" /\ bar < NumBars
    /\ bar' = bar + 1
    /\ LET b == here.bars[bar]
           wide == Mode(b.value) = 2
           beyond == wide /\ here.bars[bar + 1].value # ZERO
       IN  IF bar >= MaxBars(here) \/ IsIO(b.value)
           THEN UNCHANGED <<here, dev>>
           ELSE /\ here' = [here EXCEPT !.bars =
                              IF wide /\ ~beyond THEN SizedPair(bar) ELSE SizedOne(bar)]
                /\ dev' = IF Takes(b) /\ ~beyond /\ Mode(b.value) # 3
                          THEN [base |-> b.value.addr, size |-> SizeOf(b)]
                          ELSE dev
    /\ UNCHANGED <<stage, scanVars, found, drivers, handler, cards>>

BarsProbed ==
    /\ stage = "bars" /\ bar = NumBars
    /\ bar' = 0 /\ stage' = "driver"
    /\ UNCHANGED <<scanVars, found, here, dev, drivers, handler, cards>>

-----------------------------------------------------------------------------
(* get_driver turns both bits on if both are off, and the constructor of    *)
(* the network driver the second one in any case.                           *)
CommandAfter(c) == (IF c = {} THEN {1, 2} ELSE c) \cup {2}

(* add_driver *)
Added(d) == IF Len(drivers) < MaxDrivers THEN Append(drivers, d) ELSE drivers

(* get_driver, the constructor's registration with the interrupt manager,   *)
(* and add_driver.  That the constructor sets the card up is in the module  *)
(* Network.                                                                *)
GetDriver ==
    /\ stage = "driver"
    /\ \/ /\ here.network => FALSE \in Outcomes
          /\ UNCHANGED <<drivers, handler, cards>>
       \/ /\ here.network /\ TRUE \in Outcomes
          /\ LET d == Card(Len(cards) + 1)
                 v == Vector(here.line)
             IN  /\ drivers' = Added(d)
                 /\ handler' = [u \in DOMAIN handler \cup {v} |->
                                  IF u = v THEN d ELSE handler[u]]
          /\ cards' = Append(cards, [line |-> here.line, command |-> CommandAfter(here.command),
                                     asked |-> here.command])
    /\ Onwards(several)
    /\ UNCHANGED <<several, bar>>

PciNext == FindFunction \/ ProbeBar \/ BarsProbed \/ GetDriver

-----------------------------------------------------------------------------
(* The sizing leaves every register of the function as the firmware set it  *)
(* up, the high halves that are looked at twice and what is no BAR too.     *)
BarsRestored == stage = "driver" => here.bars = found.bars

(* The BARs of f that map registers a 32-bit processor reaches. *)
MemoryBars(f) ==
    {n \in 0 .. (MaxBars(f) - 1) :
        LET b == f.bars[n]
        IN  /\ b.kind = "bar" /\ ~IsIO(b.value) /\ Mode(b.value) # 3
            /\ b.value.addr # 0 /\ SizeOf(b) # 0
            /\ Mode(b.value) = 2 => f.bars[n + 1].value = ZERO}

BeyondReach(f) ==
    \E n \in 0 .. (NumBars - 1) :
        f.bars[n + 1].kind = "high" /\ f.bars[n + 1].value # ZERO

(* A card is driven through the first of its BARs that maps memory, and one *)
(* without any through address 0: the high half of a 64-bit BAR is not      *)
(* taken for a BAR, unless the BAR lies above 4 GB.  It masters the bus,    *)
(* and decodes its memory if the firmware let it or had not turned on the   *)
(* one without the other.                                                   *)
RegistersFound ==
    /\ stage = "driver" /\ ~BeyondReach(found) =>
           LET S == MemoryBars(found)
           IN  \/ S = {} /\ dev = NoDevice
               \/ \E n \in S : /\ \A m \in S : n <= m
                               /\ dev = [base |-> found.bars[n].value.addr,
                                          size |-> found.bars[n].size]
    /\ \A i \in DOMAIN cards :
           2 \in cards[i].command /\ (1 \in cards[i].command \/ cards[i].asked = {2})
=============================================================================
