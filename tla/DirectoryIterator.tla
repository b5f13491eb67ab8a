-------------------------- MODULE DirectoryIterator --------------------------
(***************************************************************************)
(* The directory iterator (FAT32DirectoryIterator in src/filesystem/fat.cpp) *)
(* a caller holds open while other calls change the directory.             *)
(*                                                                         *)
(* The iterator reads a whole cluster of the directory into its buffer and  *)
(* returns entries from there: it sees what happens in the clusters ahead   *)
(* of it and not what happens in its own.  Here it lists the root           *)
(* directory: the cluster of a made directory is never cleared, and what    *)
(* such a directory lists is whatever the cluster held.                     *)
(***************************************************************************)
EXTENDS Fat32

VARIABLES
    iter,      \* memory: the iterator
    times,     \* how often each slot was returned since the listing began
    steady     \* the slots listed, with the same entry, ever since it began

listVars == <<iter, times, steady>>

-----------------------------------------------------------------------------
SlotsOf(d) == FirstSlot(d) .. (FirstSlot(d + 1) - 1)

(* at is the last slot passed: m_current_cluster and m_entry_index in one.  *)
Closed == [open |-> FALSE, finished |-> FALSE, at |-> 0, cluster |-> 1, buf |-> <<>>]

Load(d) == [q \in SlotsOf(d) |-> dir[q]]

(* What the iterator finds in slot p: of its own cluster, what was there    *)
(* when it was loaded.                                                      *)
Seen(p) == IF DirCluster(p) = iter.cluster THEN iter.buf[p] ELSE dir[p]

Ahead == {p \in Slot : iter.at < p /\ Seen(p).name # DELETED}

ListInit ==
    /\ Init
    /\ iter = Closed
    /\ times = [p \in Slot |-> 0]
    /\ steady = {}

(* The constructor, and reset. *)
Start ==
    /\ iter' = [open |-> TRUE, finished |-> FALSE, at |-> 0, cluster |-> 1, buf |-> Load(1)]
    /\ times' = [p \in Slot |-> 0]
    /\ steady' = Listed(1)
    /\ UNCHANGED vars

(* open_directory of "/". *)
OpenDirectory ==
    /\ Ready /\ ~iter.open
    /\ \/ Start
       \/ FALSE \in MallocOutcomes /\ UNCHANGED <<vars, listVars>>

(* next: deleted entries are passed over, an END or the end of the chain    *)
(* finishes the listing.                                                    *)
NextEntry ==
    /\ Ready /\ iter.open /\ ~iter.finished
    /\ \/ /\ \/ Ahead = {}
             \/ \E p \in Slot : FirstOf(Ahead, p) /\ Seen(p).name = END
          /\ iter' = [iter EXCEPT !.finished = TRUE]
          /\ UNCHANGED times
       \/ \E p \in Slot :
             /\ FirstOf(Ahead, p) /\ Seen(p).name # END
             /\ iter' = [iter EXCEPT !.at = p, !.cluster = DirCluster(p),
                           !.buf = IF DirCluster(p) = iter.cluster THEN @
                                   ELSE Load(DirCluster(p))]
             /\ times' = [times EXCEPT ![p] = LeastOf(@ + 1, 2)]
    /\ UNCHANGED <<vars, steady>>

(* Mutant: reset leaves the buffer as it is. *)
ResetUnloaded ==
    /\ Ready /\ iter.open
    /\ iter' = [iter EXCEPT !.finished = FALSE, !.at = 0, !.cluster = 1,
                  !.buf = [q \in SlotsOf(1) |-> iter.buf[q + FirstSlot(iter.cluster) - 1]]]
    /\ times' = [p \in Slot |-> 0]
    /\ steady' = Listed(1)
    /\ UNCHANGED vars

Reset == Ready /\ iter.open /\ Start

CloseDirectory ==
    /\ Ready /\ iter.open
    /\ iter' = Closed /\ times' = [p \in Slot |-> 0] /\ steady' = {}
    /\ UNCHANGED vars

-----------------------------------------------------------------------------
(* The other calls leave the iterator alone. *)
OtherCall ==
    /\ Operation
    /\ steady' = {p \in steady : p \in Listed(1)' /\ dir'[p].first = dir[p].first}
    /\ UNCHANGED <<iter, times>>

ListCrash ==
    /\ Crash
    /\ iter' = Closed /\ times' = [p \in Slot |-> 0] /\ steady' = {}

ListNext ==
    OpenDirectory \/ NextEntry \/ Reset \/ CloseDirectory \/ OtherCall \/ ListCrash

ListSpec == ListInit /\ [][ListNext]_<<vars, listVars>>

-----------------------------------------------------------------------------
(* When next reports the end, every entry that was there all along has been *)
(* returned, and none twice, whatever was made, written and deleted between *)
(* the calls, in the cluster the iterator holds a copy of and elsewhere.    *)
ListingComplete ==
    /\ iter.finished => \A p \in steady : times[p] = 1
    /\ \A p \in Slot : times[p] <= 1
=============================================================================
