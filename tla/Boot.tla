-------------------------------- MODULE Boot --------------------------------
(***************************************************************************)
(* What the kernel does once it is loaded (pingu_kernel_main in             *)
(* src/kernel.cpp): the PCI scan makes the network drivers, all drivers are *)
(* activated, interrupts are enabled, and the partitions of the disk are    *)
(* mounted, listed and read from (src/filesystem/msdospart.cpp) before the  *)
(* kernel comes to its endless loop.  Each sector read is one call of       *)
(* read_28, polled and moved word by word as in Ata.                        *)
(*                                                                         *)
(* What is on the disk is chosen when it is read.  A sector that could not  *)
(* be read leaves the buffer as it was, and the code looks at it all the    *)
(* same: what it finds there is any of the things it could have found.       *)
(***************************************************************************)
EXTENDS Ata, Pci

CONSTANTS
    Partitions,     \* in the table, 4
    DirClusters     \* of a root directory whose chain ends, as a bound

ASSUME BootAssumption == {Partitions, DirClusters} \subseteq Nat \ {0}

VARIABLES
    at,          \* where the kernel is
    part,        \* read_partitions: the loop's partition
    walk,        \* the directory walked: clusters left, a bound, or Endless
    misread      \* history: a sector of a directory was not read

bootVars == <<at, part, walk, misread>>

(* The chain of the directory comes back to itself. *)
Endless == 0

BootInit ==
    /\ Init /\ PciInit
    /\ at = "scan" /\ part = 0 /\ walk = DirClusters /\ misread = FALSE

-----------------------------------------------------------------------------
Scan ==
    /\ at = "scan"
    /\ IF stage = "done" THEN at' = "activate" /\ UNCHANGED pciVars
       ELSE PciNext /\ UNCHANGED at
    /\ UNCHANGED <<vars, part, walk, misread>>

(* activate_all, and the interrupt manager's activate. *)
ActivateAll ==
    /\ at = "activate" /\ at' = "mbr"
    /\ UNCHANGED <<vars, pciVars, part, walk, misread>>

-----------------------------------------------------------------------------
(* The kernel reads a sector, any sector of its disk or a number that is    *)
(* none, and goes on at `then` when the call has returned.                  *)
ReadSector(then) == at' = then /\ (Call("read") \/ Refuse("read"))

Goto(place) == at' = place /\ UNCHANGED vars

ReadTable ==
    /\ pc = "idle" /\ at = "mbr"
    /\ ReadSector("table")
    /\ UNCHANGED <<part, walk, misread>>

(* A partition without an id is passed over. *)
Partition ==
    /\ pc = "idle"
    /\ \/ at = "table" /\ Goto("loop") /\ UNCHANGED part
       \/ at = "table" /\ part' = 1 /\ Goto("partition")
       \/ at = "partition" /\ part <= Partitions /\ part' = part + 1 /\ Goto("partition")
       \/ at = "partition" /\ part <= Partitions /\ ReadSector("mounted") /\ UNCHANGED part
       \/ at = "partition" /\ part > Partitions /\ Goto("loop") /\ UNCHANGED part
    /\ UNCHANGED <<walk, misread>>

(* Either what was read is a FAT32 boot sector, or no further partition is  *)
(* looked at.  The chain of its root directory ends or does not.  The       *)
(* listing is left out if there is no memory for its iterator.              *)
Mounted ==
    /\ pc = "idle" /\ at = "mounted"
    /\ \/ Goto("loop") /\ UNCHANGED walk
       \/ Goto("list") /\ walk' \in {DirClusters, Endless}
       \/ FALSE \in Outcomes /\ Goto("open") /\ walk' \in {DirClusters, Endless}
    /\ UNCHANGED <<part, misread>>

(* The iterator reads a cluster of the directory ... *)
ReadDirectory ==
    /\ pc = "idle" /\ at \in {"list", "open"}
    /\ ReadSector(IF at = "list" THEN "listEntries" ELSE "openEntries")
    /\ UNCHANGED <<part, walk, misread>>

(* ... finds its end, or the entry that open looks for, or none of them and *)
(* then reads the table.                                                    *)
Misread == misread' = (misread \/ ret.err # "SUCCESS")

(* open begins at the first cluster again. *)
FromStart == walk' = IF walk = Endless THEN Endless ELSE DirClusters

Entries ==
    /\ pc = "idle" /\ at \in {"listEntries", "openEntries"}
    /\ \/ at = "listEntries" /\ Goto("open") /\ FromStart
       \/ at = "openEntries" /\ Goto("loop") /\ UNCHANGED walk
       \/ at = "openEntries" /\ Goto("file") /\ UNCHANGED walk
       \/ /\ ReadSector(IF at = "listEntries" THEN "listLink" ELSE "openLink")
          /\ UNCHANGED walk
    /\ Misread
    /\ UNCHANGED part

(* Mutant: the end of the chain is not looked for. *)
LastClusterNever == FALSE

(* A chain that ends does so where it should, as long as it is read.        *)
LastCluster == walk = 1 /\ ~misread'

NextCluster ==
    /\ pc = "idle" /\ at \in {"listLink", "openLink"}
    /\ Misread
    /\ \/ at = "listLink" /\ Goto("open") /\ FromStart
       \/ at = "openLink" /\ Goto("loop") /\ UNCHANGED walk
       \/ /\ ~LastCluster
          /\ Goto(IF at = "listLink" THEN "list" ELSE "open")
          /\ walk' = IF walk \in {1, Endless} THEN walk ELSE walk - 1
    /\ UNCHANGED part

(* read of the file: a sector, a part of one that lacks its buffer, or      *)
(* nothing.  If it fails no further partition is looked at.                 *)
ReadFile ==
    /\ pc = "idle" /\ at = "file"
    /\ \/ Goto("loop") /\ FALSE \in Outcomes /\ UNCHANGED part
       \/ part' = part + 1 /\ ReadSector("partition")
       \/ part' = part + 1 /\ Goto("partition")
    /\ UNCHANGED <<walk, misread>>

Kernel ==
    /\ ReadTable \/ Partition \/ Mounted \/ ReadDirectory \/ Entries \/ NextCluster \/ ReadFile
    /\ UNCHANGED pciVars

(* Whatever calls the disk driver later on. *)
LaterCall ==
    /\ at = "loop"
    /\ \E c \in Calls : Call(c) \/ Refuse(c)
    /\ UNCHANGED <<pciVars, bootVars>>

Disk ==
    /\ Work \/ Driver
    /\ UNCHANGED <<pciVars, bootVars>>

BootNext == Scan \/ ActivateAll \/ Kernel \/ LaterCall \/ Disk

allVars == <<vars, pciVars, bootVars>>

(* The processor goes on, and the drive does not stay busy for ever. *)
BootSpec ==
    /\ BootInit /\ [][BootNext]_allVars
    /\ WF_allVars(Scan \/ ActivateAll \/ Kernel \/ (Driver /\ UNCHANGED <<pciVars, bootVars>>))
    /\ WF_allVars(Work /\ UNCHANGED <<pciVars, bootVars>>)

-----------------------------------------------------------------------------
(* The kernel comes to its loop, whatever the firmware and the disk hold,   *)
(* and though the drive may be slow, absent or fail; but it goes round a    *)
(* directory for ever if the chain of its clusters comes back to itself     *)
(* and no entry ends it, or if a sector of a directory is not read and what *)
(* the buffer held leads on.                                                *)
KernelReachesLoop ==
    <>(at = "loop") \/ []<>(at \in {"list", "open"} /\ (walk = Endless \/ misread))
=============================================================================
