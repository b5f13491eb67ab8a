------------------------------- MODULE Console -------------------------------
(***************************************************************************)
(* printf of src/kernel.cpp: characters are put at the cursor, which is a   *)
(* pair of static variables that the kernel's own context shares with every *)
(* interrupt handler.                                                      *)
(*                                                                         *)
(* The kernel's context prints with interrupts enabled once the interrupt   *)
(* manager is active (the partition table, the disk driver), so a handler   *)
(* may print between any two of its accesses to the cursor; x++ is compiled *)
(* without optimisation to a load and a store.  A handler runs with         *)
(* interrupts disabled, to its end: what it prints is printed at once.      *)
(* Which characters they are does not matter, only whether one is '\n'.     *)
(***************************************************************************)
EXTENDS Integers

CONSTANTS
    Width, Height    \* of the screen, 80 and 25

ASSUME ScreenAssumption == Width \in Nat \ {0} /\ Height \in Nat \ {0}

VARIABLES
    x, y,      \* the static variables of printf
    pc, reg,   \* where the kernel's context is in printf, and its register
    cell       \* index of the cell written last, -1 before the first

vars == <<x, y, pc, reg, cell>>

Init == x = 0 /\ y = 0 /\ pc = "idle" /\ reg = 0 /\ cell = -1

-----------------------------------------------------------------------------
(* One turn of printf's loop, in one go. *)

(* y >= HEIGHT clears the screen and takes the cursor home. *)
Wrapped(pos) == IF pos.y >= Height THEN [x |-> 0, y |-> 0] ELSE pos

Newline(pos) == Wrapped([x |-> 0, y |-> pos.y + 1])

Character(pos) ==
    Wrapped(IF pos.x + 1 >= Width THEN [x |-> 0, y |-> pos.y + 1]
            ELSE [x |-> pos.x + 1, y |-> pos.y])

Cursor == [x |-> x, y |-> y]
MoveTo(pos) == x' = pos.x /\ y' = pos.y

(* An interrupt handler other than the keyboard's prints. *)
HandlerPrints ==
    /\ \/ MoveTo(Newline(Cursor)) /\ UNCHANGED cell
       \/ MoveTo(Character(Cursor)) /\ cell' = Width * y + x
    /\ UNCHANGED <<pc, reg>>

-----------------------------------------------------------------------------
(* The kernel's context, one access to the cursor at a time. *)

Goto(from, to) == pc = from /\ pc' = to

Begin ==
    /\ \/ Goto("idle", "zeroX")         \* case '\n'
       \/ Goto("idle", "loadRow")       \* default
    /\ UNCHANGED <<x, y, reg, cell>>

LoadRow ==
    /\ Goto("loadRow", "put")
    /\ reg' = y
    /\ UNCHANGED <<x, y, cell>>

Put ==
    /\ Goto("put", "loadX")
    /\ cell' = Width * reg + x
    /\ UNCHANGED <<x, y, reg>>

LoadX ==
    /\ Goto("loadX", "storeX")
    /\ reg' = x + 1
    /\ UNCHANGED <<x, y, cell>>

StoreX ==
    /\ Goto("storeX", "testX")
    /\ x' = reg
    /\ UNCHANGED <<y, reg, cell>>

(* Mutant: > where >= is meant. *)
TestXBeyond ==
    /\ \/ x > Width /\ Goto("testX", "zeroX")
       \/ x <= Width /\ Goto("testX", "testY")
    /\ UNCHANGED <<x, y, reg, cell>>

TestX ==
    /\ \/ x >= Width /\ Goto("testX", "zeroX")
       \/ x < Width /\ Goto("testX", "testY")
    /\ UNCHANGED <<x, y, reg, cell>>

ZeroX ==
    /\ Goto("zeroX", "loadY")
    /\ x' = 0
    /\ UNCHANGED <<y, reg, cell>>

LoadY ==
    /\ Goto("loadY", "storeY")
    /\ reg' = y + 1
    /\ UNCHANGED <<x, y, cell>>

StoreY ==
    /\ Goto("storeY", "testY")
    /\ y' = reg
    /\ UNCHANGED <<x, reg, cell>>

(* Mutant: > where >= is meant. *)
TestYBeyond ==
    /\ \/ y > Height /\ Goto("testY", "homeX")
       \/ y <= Height /\ Goto("testY", "idle")
    /\ UNCHANGED <<x, y, reg, cell>>

(* The clearing of the cells changes no cursor. *)
TestY ==
    /\ \/ y >= Height /\ Goto("testY", "homeX")
       \/ y < Height /\ Goto("testY", "idle")
    /\ UNCHANGED <<x, y, reg, cell>>

HomeX ==
    /\ Goto("homeX", "homeY")
    /\ x' = 0
    /\ UNCHANGED <<y, reg, cell>>

HomeY ==
    /\ Goto("homeY", "idle")
    /\ y' = 0
    /\ UNCHANGED <<x, reg, cell>>

Kernel ==
    \/ LoadRow \/ Put \/ LoadX \/ StoreX \/ TestX \/ ZeroX \/ LoadY \/ StoreY
    \/ TestY \/ HomeX \/ HomeY

-----------------------------------------------------------------------------
(* Whatever handlers printed meanwhile, the cursor is back on the screen    *)
(* when the kernel's context is done with its character.                    *)
CursorRecovers == pc = "idle" => x \in 0 .. (Width - 1) /\ y \in 0 .. (Height - 1)

(* A character that goes off the screen goes to the one row below it, in    *)
(* the video memory that follows, however loads and stores interleave.      *)
StraysOneRow == cell < Width * (Height + 1)
=============================================================================
