-------------------------------- MODULE Fat32 --------------------------------
(***************************************************************************)
(* The FAT32 driver (src/filesystem/fat.cpp): the allocation table, the     *)
(* root directory and the file handles.                                    *)
(*                                                                         *)
(* An operation that writes the disk more than once is one action per      *)
(* disk write, so that Crash (a reset between two writes) can fall between  *)
(* any two of them.  The kernel runs one operation at a time: `op` is the   *)
(* operation in progress.  Bytes of files are not kept, only how many there *)
(* are and in which clusters.  A name is its 8.3 form (base), whether it    *)
(* was longer than that (cut) and whether it was given with a dot (dot).    *)
(*                                                                         *)
(* Each call of malloc yields one of MallocOutcomes: FALSE is a null        *)
(* pointer.                                                                *)
(***************************************************************************)
EXTENDS Integers, FiniteSets

CONSTANTS
    NumClusters,     \* clusters of the data area: 2 .. NumClusters + 1
    RootClusters,    \* clusters of the root directory as formatted
    ClusterSlots,    \* directory entries in a cluster
    SectorSlots,     \* directory entries in a sector
    ClusterBytes,    \* bytes in a cluster
    SectorBytes,     \* bytes in a sector
    Handles,         \* the FileHandle objects callers have
    Names,           \* the names callers pass, [base, cut, dot]
    WriteSizes,      \* the sizes callers write
    ReadSizes,       \* the sizes callers read
    SeekPositions,   \* the positions callers seek
    MaxSize,         \* bound on a file's recorded size, for TLC
    Kinds,           \* what callers make: FALSE for files, TRUE for directories
    MallocOutcomes   \* {TRUE}, or {TRUE, FALSE} when malloc may fail

(* The root directory leaves clusters for files; entries do not straddle    *)
(* sectors nor sectors clusters; at least one call of malloc may succeed.   *)
ASSUME FatAssumption ==
    /\ {NumClusters, RootClusters, ClusterSlots, SectorSlots, ClusterBytes,
        SectorBytes} \subseteq Nat \ {0}
    /\ RootClusters < NumClusters
    /\ ClusterSlots % SectorSlots = 0 /\ ClusterBytes % SectorBytes = 0
    /\ WriteSizes \cup ReadSizes \cup SeekPositions \subseteq Nat /\ MaxSize \in Nat
    /\ Names \subseteq [base : {n.base : n \in Names}, cut : BOOLEAN, dot : BOOLEAN]
    /\ Kinds \subseteq BOOLEAN
    /\ TRUE \in MallocOutcomes /\ MallocOutcomes \subseteq BOOLEAN

VARIABLES
    fat,       \* disk: the allocation table, one word per cluster
    dir,       \* disk: the slots of the root directory, in order
    handle,    \* memory: the FileHandle of each handle
    op,        \* memory: the locals of the operation in progress
    ret        \* the last operation that returned and its FSError

vars == <<fat, dir, handle, op, ret>>

-----------------------------------------------------------------------------
FREE == 0
EOC == -1     \* 0x0FFFFFFF, written by allocate_cluster
CUT == -2     \* 0x0FFFFF, written by unlink_cluster

Cluster == 2 .. (NumClusters + 1)
Word == Cluster \cup {FREE, EOC, CUT}

(* IS_END_OF_CHAIN, c >= 0x0FFFF8, holds of both marks; read and the        *)
(* directory iterator test c >= 0x0FFFFFF8, which holds of EOC only.        *)
IsEnd(c) == c \in {EOC, CUT}

Slot == 1 .. (RootClusters * ClusterSlots)
Base == {n.base : n \in Names}
END == "end"             \* name[0] = 0x00
DELETED == "deleted"     \* name[0] = 0xE5

Entry == [name : Base \cup {END, DELETED}, isDir : BOOLEAN,
          first : Cluster \cup {0}, size : 0 .. MaxSize]
ZeroEntry == [name |-> END, isDir |-> FALSE, first |-> 0, size |-> 0]

FileHandle == [valid : BOOLEAN, cluster : Word, start : Cluster \cup {0},
               parent : 1 .. RootClusters, position : 0 .. MaxSize,
               size : 0 .. MaxSize]
NoFile == [valid |-> FALSE, cluster |-> 0, start |-> 0, parent |-> 1,
           position |-> 0, size |-> 0]

NoHandle == "none"

(* The marks are no names, nor is the absent handle a handle. *)
ASSUME MarksAssumption == {END, DELETED} \cap Base = {} /\ NoHandle \notin Handles

(* pc is the next disk write of the operation; h, n, name, isDir, parent    *)
(* and slot are what it works on, cur, new and k its loop variables.        *)
Idle == [pc |-> "idle", h |-> NoHandle, n |-> 0, slot |-> 1,
         name |-> END, isDir |-> FALSE, parent |-> 1, cur |-> 0, new |-> 0, k |-> 0]

-----------------------------------------------------------------------------
(* Directory slots.  Directory cluster d holds the slots FirstSlot(d) up to *)
(* FirstSlot(d + 1) - 1.                                                    *)
FirstSlot(d) == (d - 1) * ClusterSlots + 1
DirCluster(p) == ((p - 1) \div ClusterSlots) + 1
SameSector(p, q) == (p - 1) \div SectorSlots = (q - 1) \div SectorSlots
Used(e) == e.name \notin {END, DELETED}

(* The slots an iterator started at directory cluster d returns: it skips   *)
(* deleted entries and stops at the first END.                              *)
Listed(d) ==
    {p \in Slot : /\ FirstSlot(d) <= p /\ Used(dir[p])
                  /\ \A q \in FirstSlot(d) .. p : dir[q].name # END}

FirstOf(S, p) == p \in S /\ \A q \in S : p <= q

(* convert_entry puts a dot before the extension, even of a name that has   *)
(* none, and cannot put back what 8.3 cut off.                              *)
Shown(e) == [base |-> e.name, cut |-> FALSE, dot |-> TRUE]

(* The slots whose name stat finds equal to n. *)
Matches(n) == {p \in Listed(1) : Shown(dir[p]) = n}

(* Mutant: does not read the bytes before the entry either. *)
PutEntryUnread(p, e) ==
    [q \in Slot |-> IF q = p THEN e
                    ELSE IF SameSector(p, q) THEN ZeroEntry ELSE dir[q]]

(* write_cluster of one 32-byte entry: a partial sector write reads the     *)
(* bytes before the entry and fills the ones after it with zeros.           *)
PutEntry(p, e) ==
    [q \in Slot |-> IF q = p THEN e
                    ELSE IF SameSector(p, q) /\ p < q THEN ZeroEntry
                    ELSE dir[q]]

(* No caller of write_cluster looks at whether it wrote: an entry that is   *)
(* not the first of its sector needs a buffer.                              *)
PutsEntry(p, e) ==
    \/ dir' = PutEntry(p, e)
    \/ FALSE \in MallocOutcomes /\ (p - 1) % SectorSlots # 0 /\ dir' = dir

(* delete_dir_entry marks the slot the iterator would read next, in the     *)
(* same cluster; past the last slot it marks nothing.                       *)
MarkAfter(p) ==
    IF p + 1 \in Slot /\ DirCluster(p + 1) = DirCluster(p)
    THEN [dir EXCEPT ![p + 1].name = DELETED]
    ELSE dir

-----------------------------------------------------------------------------
(* The table.  Walk(s)[i] is the word i links after s. *)
Walk(s) ==
    LET w[i \in 0 .. NumClusters] ==
            IF i = 0 THEN s
            ELSE LET c == w[i - 1] IN IF c \in Cluster THEN fat[c] ELSE c
    IN w

Chain(s) == LET w == Walk(s) IN {w[i] : i \in 0 .. NumClusters} \cap Cluster
ChainLength(s) == Cardinality(Chain(s))

(* Mutant: takes the mark of unlink_cluster for a free word. *)
FreeOrCut(c) == c \in Cluster /\ fat[c] \in {FREE, CUT}

(* allocate_cluster takes the lowest free cluster; it may lack its buffer.  *)
Free(c) == c \in Cluster /\ fat[c] = FREE
LowestFree(c) == Free(c) /\ \A d \in Cluster : Free(d) => c <= d
CannotAllocate == FALSE \in MallocOutcomes \/ \A c \in Cluster : ~Free(c)

(* get_next_cluster: outside the table it reads some other sector.  The     *)
(* word found there is taken to be no cluster of the root directory, whose  *)
(* chain stays as formatted.                                                *)
RootCluster == 2 .. (RootClusters + 1)
NextOf(c) == IF c \in Cluster THEN {fat[c]} ELSE Word \ RootCluster

-----------------------------------------------------------------------------
Init ==
    /\ fat = [c \in Cluster |->
                IF c < RootClusters + 1 THEN c + 1
                ELSE IF c = RootClusters + 1 THEN EOC ELSE FREE]
    /\ dir = [p \in Slot |-> ZeroEntry]
    /\ handle = [h \in Handles |-> NoFile]
    /\ op = Idle
    /\ ret = [call |-> "mount", err |-> "SUCCESS"]

Ready == op.pc = "idle"

Return(call, err) == op' = Idle /\ ret' = [call |-> call, err |-> err]

Fails(call, err) == Return(call, err) /\ UNCHANGED <<fat, dir, handle>>

-----------------------------------------------------------------------------
(* open, close, seek, delete_file, delete_directory *)

Open(h, n) ==
    /\ Ready
    /\ \/ /\ Matches(n) = {}
          /\ Fails("open", "NOT_FOUND")
       \/ \E p \in Slot :
            /\ FirstOf(Matches(n), p)
            /\ IF dir[p].isDir THEN Fails("open", "NOT_A_FILE")
               ELSE /\ handle' = [handle EXCEPT ![h] =
                         [valid |-> TRUE, cluster |-> dir[p].first,
                          start |-> dir[p].first, parent |-> DirCluster(p),
                          position |-> 0, size |-> dir[p].size]]
                    /\ Return("open", "SUCCESS")
                    /\ UNCHANGED <<fat, dir>>

Close(h) ==
    /\ Ready /\ handle[h].valid
    /\ handle' = [handle EXCEPT ![h].valid = FALSE]
    /\ Return("close", "SUCCESS")
    /\ UNCHANGED <<fat, dir>>

(* The handle goes to a position, which is taken to lie in cluster c. *)
Moved(h, c, pos) ==
    [handle EXCEPT ![h] = [handle[h] EXCEPT !.cluster = c, !.position = pos]]

(* Where i links after the handle's current cluster may lead. *)
SeekReach(h) ==
    LET r[i \in 0 .. MaxSize] ==
            IF i = 0 THEN {handle[h].cluster}
            ELSE UNION {NextOf(c) : c \in IF i = 1 THEN r[0]
                                          ELSE {d \in r[i - 1] : ~IsEnd(d)}}
    IN r

Seek(h, pos) ==
    /\ Ready /\ handle[h].valid
    /\ IF pos > handle[h].size THEN Fails("seek", "INVALID_PATH")
       ELSE IF pos = 0
       THEN /\ handle' = Moved(h, handle[h].start, 0)
            /\ Return("seek", "SUCCESS") /\ UNCHANGED <<fat, dir>>
       ELSE LET links == pos \div ClusterBytes
            IN \/ \E i \in 1 .. links : \E c \in SeekReach(h)[i] :
                    IsEnd(c) /\ Fails("seek", "END_OF_CHAIN")
               \/ \E c \in SeekReach(h)[links] :
                    /\ links = 0 \/ ~IsEnd(c)
                    /\ handle' = Moved(h, c, pos)
                    /\ Return("seek", "SUCCESS") /\ UNCHANGED <<fat, dir>>

(* Of a handle that was opened: whether it was closed since is not looked   *)
(* at.  The clusters of the file stay allocated.                            *)
DeleteFile(h) ==
    /\ Ready /\ handle[h].start # 0
    /\ LET S == {p \in Listed(handle[h].parent) : dir[p].first = handle[h].start}
       IN \/ S = {} /\ Fails("delete_file", "NOT_FOUND")
          \/ \E p \in Slot :
                /\ FirstOf(S, p)
                /\ dir' = MarkAfter(p)
                /\ Return("delete_file", "SUCCESS")
                /\ UNCHANGED <<fat, handle>>

(* Of a path that stat finds: otherwise the code reads an unset FileEntry.  *)
DeleteDirectory(n) ==
    /\ Ready
    /\ \E p \in Slot : FirstOf(Matches(n), p) /\ dir' = MarkAfter(p)
    /\ Return("delete_directory", "SUCCESS")
    /\ UNCHANGED <<fat, handle>>

-----------------------------------------------------------------------------
(* read: one step per turn of its loop. *)

LeastOf(a, b) == IF a < b THEN a ELSE b

Read(h, n) ==
    /\ Ready /\ handle[h].valid
    /\ IF handle[h].position >= handle[h].size THEN Fails("read", "SUCCESS")
       ELSE /\ op' = [Idle EXCEPT !.pc = "read", !.h = h,
                        !.n = LeastOf(n, handle[h].size - handle[h].position)]
            /\ UNCHANGED <<fat, dir, handle, ret>>

(* Mutant: goes on to the next cluster after every turn.                    *)
FollowsAlways(pos, m) == TRUE

(* The loop follows the chain only if it has to read on. *)
Follows(pos, m) == pos % ClusterBytes = 0 /\ op.n > m

ReadStep ==
    /\ op.pc = "read"
    /\ LET h == op.h
           at == handle[h].position % ClusterBytes
           m == LeastOf(op.n, ClusterBytes - at)
           pos == handle[h].position + m
       IN IF op.n = 0 \/ handle[h].cluster = EOC
          THEN Return("read", "SUCCESS") /\ UNCHANGED <<fat, dir, handle>>
          ELSE \/ /\ at % SectorBytes # 0 \/ m % SectorBytes # 0
                  /\ FALSE \in MallocOutcomes
                  /\ Fails("read", "OUT_OF_MEMORY")
               \/ \E c \in IF Follows(pos, m)
                           THEN NextOf(handle[h].cluster)
                           ELSE {handle[h].cluster} :
                    /\ handle' = Moved(h, c, pos)
                    /\ op' = [op EXCEPT !.n = op.n - m]
                    /\ UNCHANGED <<fat, dir, ret>>

-----------------------------------------------------------------------------
(* write *)

(* find_directory_entry compares first clusters only, from the handle's     *)
(* directory cluster on; it looks at deleted slots and past END.            *)
EntrySlots(h) ==
    {p \in Slot : FirstSlot(handle[h].parent) <= p /\ dir[p].first = handle[h].start}

(* No slot matches: the search follows links past the end of the directory  *)
(* and does not come back.                                                  *)
WriteHangs(h) ==
    /\ Ready /\ handle[h].valid /\ EntrySlots(h) = {}
    /\ op' = [Idle EXCEPT !.pc = "lost", !.h = h]
    /\ UNCHANGED <<fat, dir, handle, ret>>

WriteNoBuffer(h) ==
    /\ Ready /\ handle[h].valid /\ FALSE \in MallocOutcomes
    /\ Fails("write", "NOT_FOUND")

(* INSERT writes the entry back with the handle's size, and nothing else. *)
WriteInsert(h) ==
    /\ Ready /\ handle[h].valid
    /\ \E p \in Slot :
          /\ FirstOf(EntrySlots(h), p)
          /\ PutsEntry(p, [dir[p] EXCEPT !.size = handle[h].size])
    /\ Return("write", "NOT_IMPLEMENTED")
    /\ UNCHANGED <<fat, handle>>

ClustersNeeded(n) == (n \div ClusterBytes) + 1

(* WRITE: how many clusters the file has and how many it needs decide       *)
(* whether the chain is cut, grown or left alone.                           *)
Write(h, n) ==
    /\ Ready /\ handle[h].valid /\ handle[h].size + n <= MaxSize
    /\ \E p \in Slot :
        /\ FirstOf(EntrySlots(h), p)
        /\ LET start == handle[h].start
               have == ChainLength(start)
               need == ClustersNeeded(n)
               begin == [Idle EXCEPT !.h = h, !.n = n, !.slot = p]
           IN op' = IF have > need
                    THEN [begin EXCEPT !.pc = "cut", !.cur = Walk(start)[need - 1]]
                    ELSE IF have < need
                    THEN [begin EXCEPT !.pc = "grow", !.cur = Walk(start)[have - 1],
                                       !.k = need - have]
                    ELSE [begin EXCEPT !.pc = "store"]
    /\ UNCHANGED <<fat, dir, handle, ret>>

(* Mutants: the mark goes to the first cluster that is not needed; no mark. *)
CutStepBeyond ==
    /\ op.pc = "cut"
    /\ fat' = [fat EXCEPT ![fat[op.cur]] = CUT]
    /\ op' = [op EXCEPT !.pc = "free", !.cur = fat[op.cur]]
    /\ UNCHANGED <<dir, handle, ret>>

CutStepUnmarked ==
    /\ op.pc = "cut"
    /\ op' = [op EXCEPT !.pc = "free", !.cur = fat[op.cur]]
    /\ UNCHANGED <<fat, dir, handle, ret>>

(* unlink_cluster *)
CutStep ==
    /\ op.pc = "cut"
    /\ fat' = [fat EXCEPT ![op.cur] = CUT]
    /\ op' = [op EXCEPT !.pc = "free", !.cur = fat[op.cur]]
    /\ UNCHANGED <<dir, handle, ret>>

(* Mutant: del_cluster = next_cluster is missing. *)
FreeStepStays ==
    /\ op.pc = "free"
    /\ IF IsEnd(op.cur)
       THEN op' = [op EXCEPT !.pc = "store"] /\ fat' = fat
       ELSE op' = op /\ fat' = [fat EXCEPT ![op.cur] = FREE]
    /\ UNCHANGED <<dir, handle, ret>>

(* deallocate_cluster; without its buffer it leaves the cluster allocated.  *)
FreeStep ==
    /\ op.pc = "free"
    /\ IF IsEnd(op.cur)
       THEN op' = [op EXCEPT !.pc = "store"] /\ fat' = fat
       ELSE /\ op' = [op EXCEPT !.cur = fat[op.cur]]
            /\ \E ok \in MallocOutcomes :
                  fat' = IF ok THEN [fat EXCEPT ![op.cur] = FREE] ELSE fat
    /\ UNCHANGED <<dir, handle, ret>>

(* allocate_cluster, on behalf of the write loops. *)
GrowStep ==
    /\ op.pc \in {"grow", "append"}
    /\ \/ CannotAllocate /\ Fails("write", "DISK_FULL")
       \/ \E c \in Cluster :
            /\ LowestFree(c)
            /\ fat' = [fat EXCEPT ![c] = EOC]
            /\ op' = [op EXCEPT !.new = c,
                        !.pc = IF op.pc = "grow" THEN "growLink" ELSE "appendLink"]
            /\ UNCHANGED <<dir, handle, ret>>

(* Mutant: fat_offset is one too high. *)
LinkNextWord(c, d) == IF c + 1 \in Cluster THEN [fat EXCEPT ![c + 1] = d] ELSE fat

(* link_next_cluster; of a cluster outside the table it rewrites a word      *)
(* elsewhere on the disk, taken to be none of those kept here.              *)
Link(c, d) == IF c \in Cluster THEN [fat EXCEPT ![c] = d] ELSE fat

GrowLinkStep ==
    /\ op.pc = "growLink"
    /\ fat' = Link(op.cur, op.new)
    /\ op' = [op EXCEPT !.cur = op.new, !.k = op.k - 1,
                !.pc = IF op.k = 1 THEN "store" ELSE "grow"]
    /\ UNCHANGED <<dir, handle, ret>>

(* The data is stored along the chain, and the size is added to the old one.*)
StoreStep ==
    /\ op.pc = "store"
    /\ handle' = [handle EXCEPT ![op.h] =
                    [handle[op.h] EXCEPT !.size = handle[op.h].size + op.n,
                              !.cluster = handle[op.h].start, !.position = 0]]
    /\ op' = [op EXCEPT !.pc = "entry"]
    /\ UNCHANGED <<fat, dir, ret>>

(* APPEND: what fits in the rest of the handle's cluster, then new clusters.*)
(* If that cluster is 0 or an end mark the data goes to a sector elsewhere  *)
(* on the disk, taken to hold neither table nor directory.                  *)
Append(h, n) ==
    /\ Ready /\ handle[h].valid /\ handle[h].size + n <= MaxSize
    /\ \E p \in Slot :
        /\ FirstOf(EntrySlots(h), p)
        /\ LET at == handle[h].size % ClusterBytes
               m == LeastOf(n, ClusterBytes - at)
           IN \/ /\ at % SectorBytes # 0 /\ m > 0 /\ FALSE \in MallocOutcomes
                 /\ Fails("write", "OUT_OF_MEMORY")
              \/ /\ handle' = [handle EXCEPT ![h].size = handle[h].size + m]
                 /\ op' = [Idle EXCEPT !.h = h, !.n = n - m, !.slot = p,
                             !.pc = IF n > m THEN "append" ELSE "entry"]
                 /\ UNCHANGED <<fat, dir, ret>>

AppendLinkStep ==
    /\ op.pc = "appendLink"
    /\ LET m == LeastOf(op.n, ClusterBytes)
       IN /\ fat' = Link(handle[op.h].cluster, op.new)
          /\ handle' = [handle EXCEPT ![op.h] =
                          [handle[op.h] EXCEPT !.cluster = op.new,
                                               !.size = handle[op.h].size + m]]
          /\ op' = [op EXCEPT !.n = op.n - m,
                      !.pc = IF op.n > m THEN "append" ELSE "entry"]
    /\ UNCHANGED <<dir, ret>>

(* The entry goes back with its new size. *)
EntryStep ==
    /\ op.pc = "entry"
    /\ PutsEntry(op.slot, [dir[op.slot] EXCEPT !.size = handle[op.h].size])
    /\ Return("write", "SUCCESS")
    /\ UNCHANGED <<fat, handle>>

-----------------------------------------------------------------------------
(* make_file, make_directory *)

CallOf(isDir) == IF isDir THEN "make_directory" ELSE "make_file"

(* In path "/", or in the path of an entry of directory cluster d: then the *)
(* new entry goes beside that one, not into it, and whether n "exists" is   *)
(* read from whatever that entry's cluster holds.  A path that stat does    *)
(* not find is left out: make_file stops there, make_directory goes on with *)
(* an unset parent_cluster.                                                 *)
Make(n, isDir, d) ==
    /\ Ready
    /\ \/ /\ d = 1 /\ Matches(n) # {}
          /\ Fails(CallOf(isDir), "ALREADY_EXISTS")
       \/ /\ \E p \in Listed(1) : DirCluster(p) = d /\ dir[p].isDir
          /\ Fails(CallOf(isDir), "ALREADY_EXISTS")
       \/ /\ \/ d = 1 /\ Matches(n) = {}
             \/ \E p \in Listed(1) : DirCluster(p) = d
          /\ \/ CannotAllocate /\ Fails(CallOf(isDir), "DISK_FULL")
             \/ \E c \in Cluster :
                  /\ LowestFree(c)
                  /\ fat' = [fat EXCEPT ![c] = EOC]
                  /\ op' = [Idle EXCEPT !.pc = "create", !.name = n.base, !.new = c,
                                        !.isDir = isDir, !.parent = d]
                  /\ UNCHANGED <<dir, handle, ret>>

(* Mutant: the search starts one slot late. *)
VacantFromNext(d) == {p \in Slot : FirstSlot(d) < p /\ dir[p].name \in {END, DELETED}}

Vacant(d) == {p \in Slot : FirstSlot(d) <= p /\ dir[p].name \in {END, DELETED}}

(* create_directory_entry takes the first slot that is free.  Its result is *)
(* not looked at, so that make_file succeeds without an entry too.          *)
CreateStep ==
    /\ op.pc = "create"
    /\ UNCHANGED <<fat, handle>>
    /\ \/ /\ FALSE \in MallocOutcomes
          /\ Return(CallOf(op.isDir), "SUCCESS") /\ dir' = dir
       \/ \E p \in Slot :
            /\ FirstOf(Vacant(op.parent), p)
            /\ dir' = [dir EXCEPT ![p] = [name |-> op.name, isDir |-> op.isDir,
                                          first |-> op.new, size |-> 0]]
            /\ Return(CallOf(op.isDir), "SUCCESS")
       \/ /\ Vacant(op.parent) = {}
          /\ op' = [op EXCEPT !.pc = "extend"] /\ UNCHANGED <<dir, ret>>

(* The directory is full: a cluster is allocated ...                        *)
ExtendStep ==
    /\ op.pc = "extend"
    /\ \/ CannotAllocate /\ Fails(CallOf(op.isDir), "SUCCESS")
       \/ \E c \in Cluster :
            /\ LowestFree(c)
            /\ fat' = [fat EXCEPT ![c] = EOC]
            /\ op' = [op EXCEPT !.pc = "selfLink", !.new = c]
            /\ UNCHANGED <<dir, handle, ret>>

(* ... and linked after itself, not after the directory.  The entry goes    *)
(* there if what the cluster held leaves a slot; else the search goes round *)
(* the cluster for ever.                                                    *)
SelfLinkStep ==
    /\ op.pc = "selfLink"
    /\ fat' = Link(op.new, op.new)
    /\ UNCHANGED <<dir, handle>>
    /\ \/ Return(CallOf(op.isDir), "SUCCESS")
       \/ op' = [op EXCEPT !.pc = "circling"] /\ UNCHANGED ret

-----------------------------------------------------------------------------
(* A reset: the disk stays as the last write left it, memory is lost. *)
Crash ==
    /\ op.pc # "idle"
    /\ handle' = [h \in Handles |-> NoFile]
    /\ op' = Idle
    /\ ret' = [call |-> "mount", err |-> "SUCCESS"]
    /\ UNCHANGED <<fat, dir>>

Step ==
    \/ ReadStep \/ CutStep \/ FreeStep \/ GrowStep \/ GrowLinkStep \/ StoreStep
    \/ AppendLinkStep \/ EntryStep \/ CreateStep \/ ExtendStep \/ SelfLinkStep

HandleCall(h) ==
    \/ \E n \in Names : Open(h, n)
    \/ \E n \in WriteSizes : Write(h, n) \/ Append(h, n)
    \/ \E n \in ReadSizes : Read(h, n)
    \/ \E pos \in SeekPositions : Seek(h, pos)
    \/ Close(h) \/ DeleteFile(h) \/ WriteInsert(h) \/ WriteHangs(h)
    \/ WriteNoBuffer(h)

PathCall ==
    \/ \E n \in Names, isDir \in Kinds, d \in 1 .. RootClusters : Make(n, isDir, d)
    \/ \E n \in Names : DeleteDirectory(n)

Operation == Step \/ PathCall \/ \E h \in Handles : HandleCall(h)

Next == Operation \/ Crash

Spec == Init /\ [][Next]_vars

(* The processor goes on executing the operation it is in. *)
FairSpec == Spec /\ WF_vars(Step)

-----------------------------------------------------------------------------
(* The first clusters of the root directory and of the files and            *)
(* directories that entries and open handles name.                          *)
Starts ==
    ({2} \cup {dir[p].first : p \in Slot}
        \cup {handle[h].start : h \in {g \in Handles : handle[g].valid}}) \ {0}

(* Link by link: no two clusters link to the same one, none links to a free *)
(* one or to the start of a file, and no file's start is free or another's. *)
(* Whatever order operations come in, with stale handles, after a reset     *)
(* between any two writes of the disk.                                      *)
LinksSound ==
    /\ \A c, d \in Cluster : fat[c] \in Cluster /\ fat[c] = fat[d] => c = d
    /\ \A c \in Cluster : fat[c] \in Cluster => fat[fat[c]] # FREE
    /\ \A s \in Starts : fat[s] # FREE /\ \A c \in Cluster : fat[c] # s
    /\ \A p, q \in Slot : dir[p].first = dir[q].first /\ p # q => dir[p].first = 0

(* Followed to the end, the chain of every file ends in an end mark without *)
(* meeting a free cluster, and shares no cluster with the chain of another. *)
(* write's count of clusters loops for ever on a chain that does not end.   *)
ChainsSound ==
    /\ \A s \in Starts : IsEnd(Walk(s)[NumClusters])
    /\ LET chain == [s \in Starts |-> Chain(s)]
       IN \A s, t \in Starts : s < t => chain[s] \cap chain[t] = {}

(* When write stores the data the chain has exactly the clusters it counted *)
(* on: the branch that allocates one more while storing is never taken.     *)
StoreFits ==
    op.pc = "store" =>
        LET start == handle[op.h].start
        IN  ChainLength(start) = ClustersNeeded(op.n)

(* A cluster is freed only once no file's chain holds it: unlink comes      *)
(* before free, so a reset in between never leaves a free cluster in use.   *)
FreesOnlyDetached ==
    [][\A c \in Cluster : fat[c] # FREE /\ fat'[c] = FREE =>
            \A s \in Starts : c \notin Chain(s)]_fat

(* An operation on one file leaves the chains of the others alone, unless   *)
(* it appends through a handle whose cluster is no longer of its file (read *)
(* past the end of the chain, or cut off through another handle).           *)
OtherChainsKept ==
    [][fat' # fat => \A s \in Starts :
            \/ Chain(s)' = Chain(s)
            \/ /\ op.h # NoHandle
               /\ \/ s = handle[op.h].start
                  \/ handle[op.h].cluster \notin Chain(handle[op.h].start)]_fat

(* Every operation returns, whatever malloc yields and whenever a reset     *)
(* falls, but in two cases: a write looks for an entry when none names the  *)
(* first cluster of its file, and make finds its directory full and no slot *)
(* in the cluster that it has linked to itself.                             *)
OperationsReturn ==
    ~Ready ~> \/ Ready
              \/ op.pc = "lost" /\ EntrySlots(op.h) = {}
              \/ op.pc = "circling" /\ Vacant(op.parent) = {}

(* The cluster of the handle's file that holds byte number n.               *)
ClusterOfByte(h, n) == Walk(handle[h].start)[n \div ClusterBytes]

(* The handle's cluster is the one its position lies in: reads rely on it.  *)
InPlace(h) ==
    /\ handle[h].valid /\ handle[h].position \div ClusterBytes \in 0 .. NumClusters
    /\ handle[h].cluster = ClusterOfByte(h, handle[h].position)

(* The cluster of a handle stays the one its position lies in, until it has *)
(* read past the end of the chain, and but for four operations: a read that *)
(* ends at the end of a cluster, a seek that starts anywhere but in the     *)
(* first cluster, an append that went on to a new cluster, and a write that *)
(* has cut the chain and not stored yet.                                    *)
PlaceKept ==
    [][\A h \in Handles : InPlace(h) /\ handle[h].cluster \in Cluster =>
            \/ InPlace(h)' \/ ~handle'[h].valid
            \/ /\ op.pc = "read" /\ op'.n = 0
               /\ handle'[h].position % ClusterBytes = 0
            \/ /\ ret'.call = "seek" /\ Ready /\ Ready'
               /\ handle[h].cluster # handle[h].start
            \/ op.pc = "appendLink"
            \/ op.pc = "cut"]_vars

(* What was listed stays listed with its first cluster, unless delete marks *)
(* it, or a write puts an entry back before it and so wipes it, or an entry *)
(* before it: the wiped one ends the directory.  So write finds the entry   *)
(* it looks for, whose search would otherwise not end.                      *)
EntriesKept ==
    [][\A p \in Listed(1) :
            \/ p \in Listed(1)' /\ dir'[p].first = dir[p].first
            \/ dir'[p].name = DELETED /\ ret'.call \in {"delete_file", "delete_directory"}
            \/ /\ ret'.call = "write"
               /\ \E q, r \in Slot : /\ q < r /\ r <= p /\ SameSector(q, r)
                                     /\ dir'[r] = ZeroEntry]_dir

(* When make returns SUCCESS what it made is listed: the search for a slot  *)
(* and the iterator agree on where the directory ends.  Two cases are       *)
(* excepted, where the code succeeds all the same: no buffer for the search *)
(* (no entry is written), and a full directory, whose new entry is dropped  *)
(* or goes to a cluster that no directory links to.                         *)
MadeIsListed ==
    [][~Ready /\ Ready' /\ ret'.call \in {CallOf(TRUE), CallOf(FALSE)} =>
            \/ \E p \in Listed(1)' : dir'[p].first = op.new /\ dir[p].first # op.new
            \/ FALSE \in MallocOutcomes /\ dir' = dir
            \/ Vacant(op.parent) = {}]_vars

-----------------------------------------------------------------------------
(* What a comment or a test of the repository says of the driver and its    *)
(* code does not keep.                                                      *)

(* test_fat32.cpp:488, "ensure dir entry is marked as deleted": the entry   *)
(* that delete_file found is the one it marks.                              *)
DeleteMarksEntry ==
    [][\A h \in Handles : DeleteFile(h) /\ ret'.err = "SUCCESS" =>
            \E p \in Slot : /\ dir[p].first = handle[h].start /\ Used(dir[p])
                            /\ dir'[p].name = DELETED]_vars

(* fat.cpp:249, "Append to the end of the file = handle.size": the first    *)
(* byte appended goes to the cluster that holds the byte at handle.size.    *)
AppendsAtEnd ==
    [][\A h \in Handles, n \in WriteSizes : Append(h, n) /\ handle' # handle =>
            handle[h].cluster = ClusterOfByte(h, handle[h].size)]_vars
=============================================================================
