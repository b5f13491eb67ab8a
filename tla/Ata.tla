--------------------------------- MODULE Ata ---------------------------------
(***************************************************************************)
(* The disk driver (src/drivers/ata.cpp): commands, the polling of the      *)
(* status port and the transfer of a sector word by word.  One context calls *)
(* it at a time, but the drive works between any two accesses of a port.     *)
(*                                                                         *)
(* The drive is external.  Its status is one of                             *)
(*   "ready"  no bit of interest,   "busy"  BSY,    "data"   DRQ,            *)
(*   "error"  ERR,                  "absent"  zero, there is no drive;       *)
(* "pending" reads as "ready": BSY is clear and DRQ is still to come, which *)
(* is why read_28 waits for the one and then for the other.  A command is   *)
(* taken unless BSY or DRQ is set, a word when DRQ is set for that           *)
(* direction; anything else written to the drive is dropped.  A packet       *)
(* drive answers identify with an error, and says what it is.               *)
(***************************************************************************)
EXTENDS Integers

CONSTANTS
    Words,      \* in a sector, 256
    Calls       \* what callers call, of {"read", "write", "identify", "flush"}

ASSUME AtaAssumption ==
    /\ Words \in Nat \ {0}
    /\ Calls \subseteq {"read", "write", "identify", "flush"}

VARIABLES
    drive,      \* the drive: its status
    job,        \* the drive: its command, "none" when it has none
    left,       \* the drive: words of its sector still to move
    pc,         \* the driver: the call it is in, or moving its words
    status,     \* the driver: its variable of this name, "unread" at first
    word,       \* the driver: the words its loop has moved
    moved,      \* history: those of them that the drive moved too
    ret         \* the last call that returned, and its DiskErr

vars == <<drive, job, left, pc, status, word, moved, ret>>

Init ==
    /\ drive \in {"ready", "absent"} /\ job = "none" /\ left = 0
    /\ pc = "idle" /\ status = "unread" /\ word = 0 /\ moved = 0
    /\ ret = [call |-> "none", err |-> "SUCCESS"]

-----------------------------------------------------------------------------
(* The drive. *)

Command(c) ==
    IF drive \in {"ready", "pending", "error"}
    THEN /\ job' = c
         /\ left' = (IF c = "flush" THEN 0 ELSE Words)
         /\ \/ drive' = "busy"
            \/ c = "write" /\ drive' = "data"
    ELSE UNCHANGED <<drive, job, left>>

(* What the status port reads. *)
Observed == IF drive = "pending" THEN "ready" ELSE drive

(* Is the drive moving words for one of these commands? *)
Moves(jobs) == drive = "data" /\ job \in jobs

MoveWord(jobs) ==
    /\ word' = word + 1
    /\ IF Moves(jobs)
       THEN /\ left' = left - 1 /\ moved' = moved + 1
            /\ IF left > 1 THEN drive' = "data"
               ELSE drive' = "ready" \/ (job = "write" /\ drive' = "busy")
       ELSE UNCHANGED <<drive, left, moved>>

(* The drive gets on with its command. *)
Work ==
    /\ \/ drive = "busy" /\ drive' = (IF left > 0 THEN "pending" ELSE "ready")
       \/ drive \in {"busy", "pending"} /\ left > 0 /\ drive' = "data"
       \/ drive \in {"busy", "pending"} /\ drive' = "error"
    /\ UNCHANGED <<job, left, pc, status, word, moved, ret>>

-----------------------------------------------------------------------------
(* The driver. *)

Return(call, err) == pc' = "idle" /\ ret' = [call |-> call, err |-> err]

Call(c) ==
    /\ pc = "idle"
    /\ pc' = (IF c = "write" THEN "writeWords" ELSE c)
    /\ status' = "unread" /\ word' = 0 /\ moved' = 0
    /\ Command(c)
    /\ UNCHANGED ret

(* read_28 and write_28 of a sector or of a size that cannot be: no port is *)
(* touched.                                                                *)
Refuse(c) ==
    /\ pc = "idle" /\ c \in {"read", "write"}
    /\ \E err \in {"INVALID_SECTOR", "INVALID_SIZE"} : Return(c, err)
    /\ UNCHANGED <<drive, job, left, status, word, moved>>

(* Mutant: the loop ends when BSY clears, DRQ or not. *)
PollsBusyOnly(c) == IF c = "flush" THEN {"unread"} ELSE {"unread", "busy"}

(* Mutant: the loop goes on after an error. *)
PollsOnError(c) ==
    IF c = "read" THEN {"unread", "busy", "ready", "error"}
    ELSE IF c = "identify" THEN {"unread", "busy"} ELSE {"unread"}

(* The values of status that each call reads the port again for: read_28    *)
(* waits for BSY to clear, then for DRQ; identify for BSY to clear only,     *)
(* since its loop at line 68 wants DRQ and ERR both; flush for nothing,      *)
(* since its loop wants BSY and ERR both.                                   *)
Polls(c) ==
    CASE c = "read" -> {"unread", "busy", "ready"}
      [] c = "identify" -> {"unread", "busy"}
      [] c = "flush" -> {"unread"}

ReadStatus ==
    /\ pc \in {"read", "identify", "flush"} /\ status \in Polls(pc)
    /\ status' = Observed
    /\ UNCHANGED <<drive, job, left, pc, word, moved, ret>>

Decide ==
    /\ pc \in {"read", "identify", "flush"} /\ status \notin Polls(pc)
    /\ IF status = "error"
       THEN Return(pc, "OTHER") \/ (pc = "identify" /\ Return(pc, "NOT_ATA"))
       ELSE IF pc = "flush" THEN Return(pc, "SUCCESS")
       ELSE IF status = "absent" THEN Return(pc, "DNE")
       ELSE /\ pc' = (IF pc = "read" THEN "readWords" ELSE "identifyWords")
            /\ UNCHANGED ret
    /\ UNCHANGED <<drive, job, left, status, word, moved>>

CallOf == CASE pc = "readWords" -> "read"
            [] pc = "writeWords" -> "write"
            [] pc = "identifyWords" -> "identify"

(* The loops over the words: those the caller wants, then the rest. *)
NextWord ==
    /\ pc \in {"readWords", "writeWords", "identifyWords"}
    /\ IF word < Words
       THEN /\ MoveWord(IF pc = "writeWords" THEN {"write"} ELSE {"read", "identify"})
            /\ UNCHANGED <<pc, ret>>
       ELSE /\ Return(CallOf, "SUCCESS")
            /\ UNCHANGED <<drive, left, word, moved>>
    /\ UNCHANGED <<job, status>>

Driver == ReadStatus \/ Decide \/ NextWord

-----------------------------------------------------------------------------
Succeeded(c) == pc = "idle" /\ ret = [call |-> c, err |-> "SUCCESS"]

(* read_28 that succeeds got its whole sector, however long the drive took  *)
(* to offer it and whatever was called before, if the drive took its        *)
(* command: the driver never looks whether it did.                          *)
ReadGetsSector == Succeeded("read") /\ job = "read" => moved = Words

(* Every call returns, when the drive fails or is absent too, except        *)
(* read_28 whose command the drive dropped: a write it has not stored yet,  *)
(* or an identify it still has words of, leaves read_28 waiting for DRQ.    *)
CallsReturn == pc # "idle" ~> pc = "idle" \/ (pc = "read" /\ job # "read")
=============================================================================
