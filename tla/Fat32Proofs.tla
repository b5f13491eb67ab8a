----------------------------- MODULE Fat32Proofs -----------------------------
(***************************************************************************)
(* Proofs about the FAT32 driver, for every size of the disk and every set  *)
(* of handles, names and sizes, with resets between any two writes, and     *)
(* about a directory iterator held open while the driver works.             *)
(***************************************************************************)
EXTENDS DirectoryIterator, NumberLemmas, FiniteSetTheorems, TLAPS

-----------------------------------------------------------------------------
(* Walks over a table that does not change.  Path(f, s) is Walk(s) where f  *)
(* is the table.                                                            *)

Index == 0 .. NumClusters

Path(f, s) ==
    CHOOSE w : w = [i \in Index |->
                      IF i = 0 THEN s
                      ELSE IF w[i - 1] \in Cluster THEN f[w[i - 1]] ELSE w[i - 1]]

Table == [Cluster -> Word]

(* R holds the starts S of the chains of table f and all they lead to: no   *)
(* free cluster, none linked to twice, no start linked to.                  *)
Holds(f, S, R) ==
    /\ S \subseteq R /\ R \subseteq Cluster
    /\ \A c \in R : f[c] \in R \cup {EOC, CUT} /\ f[c] \notin S
    /\ \A c, d \in R : f[c] = f[d] /\ f[c] \in Cluster => c = d

LEMMA Constants ==
    /\ NumClusters \in Nat \ {0} /\ RootClusters \in Nat \ {0} /\ ClusterSlots \in Nat \ {0}
    /\ SectorSlots \in Nat \ {0} /\ ClusterBytes \in Nat \ {0} /\ SectorBytes \in Nat \ {0}
    /\ RootClusters < NumClusters /\ MaxSize \in Nat
    /\ 2 \in Cluster /\ FREE \notin Cluster /\ EOC \notin Cluster /\ CUT \notin Cluster
    /\ FREE # EOC /\ FREE # CUT
BY FatAssumption DEF Cluster, FREE, EOC, CUT

LEMMA ClustersFinite == IsFiniteSet(Cluster) /\ Cardinality(Cluster) = NumClusters
<1>1. 2 \in Int /\ NumClusters + 1 \in Int /\ ~(2 > NumClusters + 1)
  BY Constants
<1> QED
  BY <1>1, Constants, FS_Interval DEF Cluster

LEMMA PathSteps ==
    ASSUME NEW f \in Table, NEW s \in Word
    PROVE  /\ Path(f, s) \in [Index -> Word]
           /\ Path(f, s)[0] = s
           /\ \A i \in 1 .. NumClusters :
                Path(f, s)[i] = IF Path(f, s)[i - 1] \in Cluster
                                THEN f[Path(f, s)[i - 1]] ELSE Path(f, s)[i - 1]
           /\ \A i \in Index : Path(f, s)[i] \in Word
<1> DEFINE F == [c \in Word |-> IF c \in Cluster THEN f[c] ELSE c]
           Defines(w) == w = [i \in Index |->
                                IF i = 0 THEN s
                                ELSE IF w[i - 1] \in Cluster THEN f[w[i - 1]] ELSE w[i - 1]]
<1>1. PICK g : g = [i \in Index |-> IF i = 0 THEN s ELSE F[g[i - 1]]]
  <2> HIDE DEF F
  <2>1. NumClusters \in Nat
    BY Constants
  <2>2. \E g : Iterates(g, NumClusters, F, s)
    BY <2>1, IterateExists
  <2> QED
    BY <2>2 DEF Index, Iterates
<1>2. \A i \in Index : g[i] \in Word
  <2> DEFINE S == {i \in Index : g[i] \in Word}
  <2>1. 0 \in S
    BY <1>1, Constants DEF Index
  <2>2. ASSUME NEW i \in 1 .. NumClusters, i - 1 \in S
        PROVE  i \in S
    <3>1. i \in Index /\ i # 0 /\ g[i - 1] \in Word
      BY <2>2, Constants DEF Index
    <3>2. g[i] = F[g[i - 1]]
      BY <1>1, <3>1
    <3>3. F[g[i - 1]] \in Word
      BY <3>1 DEF Table
    <3> QED
      BY <3>1, <3>2, <3>3
  <2> HIDE DEF S
  <2>3. 0 .. NumClusters \subseteq S
    BY <2>1, <2>2, Constants, UpTo
  <2> QED
    BY <2>3 DEF S, Index
<1>3. Defines(g)
  <2>1. ASSUME NEW i \in Index
        PROVE  g[i] = IF i = 0 THEN s
                      ELSE IF g[i - 1] \in Cluster THEN f[g[i - 1]] ELSE g[i - 1]
    <3>1. CASE i = 0
      BY <1>1, <3>1
    <3>2. CASE i # 0
      <4>1. g[i - 1] \in Word
        BY <1>2, <3>2, Constants DEF Index
      <4>2. g[i] = F[g[i - 1]]
        BY <1>1, <3>2
      <4> QED
        BY <3>2, <4>1, <4>2
    <3> QED
      BY <3>1, <3>2
  <2>2. g = [i \in Index |-> g[i]]
    BY <1>1
  <2> QED
    BY <2>1, <2>2
<1>4. Path(f, s) = CHOOSE w : Defines(w)
  BY DEF Path
<1> DEFINE w == Path(f, s)
<1>5. Defines(w)
  <2> HIDE DEF Defines
  <2> QED
    BY <1>3, <1>4
<1>6. \A i \in Index : w[i] = IF i = 0 THEN s
                              ELSE IF w[i - 1] \in Cluster THEN f[w[i - 1]] ELSE w[i - 1]
  <2> HIDE DEF w
  <2> QED
    BY <1>5
<1>7. w = [i \in Index |-> w[i]]
  <2> HIDE DEF w
  <2> QED
    BY <1>5
<1> HIDE DEF w
<1>8. 0 \in Index /\ w[0] = s
  BY <1>6, Constants DEF Index
<1>9. \A i \in 1 .. NumClusters :
          i \in Index /\ w[i] = IF w[i - 1] \in Cluster THEN f[w[i - 1]] ELSE w[i - 1]
  BY <1>6, Constants DEF Index
<1>10. \A i \in Index : w[i] \in Word
  <2> DEFINE S == {i \in Index : w[i] \in Word}
  <2>1. 0 \in S
    BY <1>8
  <2>2. ASSUME NEW i \in 1 .. NumClusters, i - 1 \in S
        PROVE  i \in S
    BY <1>9, <2>2 DEF Table
  <2> HIDE DEF S
  <2>3. 0 .. NumClusters \subseteq S
    BY <2>1, <2>2, Constants, UpTo
  <2> QED
    BY <2>3 DEF S, Index
<1> QED
  BY <1>7, <1>8, <1>9, <1>10 DEF w
(* Once a walk has left the clusters it stays where it is. *)
LEMMA PathFrozen ==
    ASSUME NEW f \in Table, NEW s \in Word, NEW i \in Index,
           Path(f, s)[i] \notin Cluster
    PROVE  \A j \in Index : i <= j => Path(f, s)[j] = Path(f, s)[i]
<1> DEFINE w == Path(f, s)
           S == {j \in Index : i <= j => w[j] = w[i]}
<1>1. 0 \in S
  BY Constants DEF Index
<1>2. ASSUME NEW j \in 1 .. NumClusters, j - 1 \in S
      PROVE  j \in S
  <2>1. w[j] = IF w[j - 1] \in Cluster THEN f[w[j - 1]] ELSE w[j - 1]
    BY PathSteps
  <2> HIDE DEF w
  <2>2. i <= j - 1 \/ i = j \/ i > j
    BY DEF Index
  <2>3. w[i] \notin Cluster
    BY DEF w
  <2> QED
    BY <1>2, <2>1, <2>2, <2>3, Constants DEF Index
<1> HIDE DEF S
<1>3. 0 .. NumClusters \subseteq S
  BY <1>1, <1>2, Constants, UpTo
<1> QED
  BY <1>3 DEF S, Index

(* A walk that starts in a set closed under the links stays there, until it *)
(* leaves the clusters.                                                     *)
LEMMA PathStays ==
    ASSUME NEW f \in Table, NEW X, NEW s \in Word, s \in X \/ s \notin Cluster,
           \A c \in Cluster \cap X : f[c] \in X \/ f[c] \notin Cluster
    PROVE  \A i \in Index : Path(f, s)[i] \in X \/ Path(f, s)[i] \notin Cluster
<1> DEFINE w == Path(f, s)
           S == {j \in Index : w[j] \in X \/ w[j] \notin Cluster}
<1>1. 0 \in S
  BY Constants, PathSteps DEF Index
<1>2. ASSUME NEW j \in 1 .. NumClusters, j - 1 \in S
      PROVE  j \in S
  <2>1. w[j] = IF w[j - 1] \in Cluster THEN f[w[j - 1]] ELSE w[j - 1]
    BY PathSteps
  <2> HIDE DEF w
  <2> QED
    BY <1>2, <2>1, Constants DEF Index
<1> HIDE DEF S
<1>3. 0 .. NumClusters \subseteq S
  BY <1>1, <1>2, Constants, UpTo
<1> QED
  BY <1>3 DEF S, Index

(* Two walks from starts never meet, and none comes back to where it was.   *)
LEMMA PathsApart ==
    ASSUME NEW f \in Table, NEW S, NEW R, Holds(f, S, R),
           NEW s \in S, NEW t \in S, NEW i \in Index, NEW j \in Index, i <= j,
           Path(f, s)[i] = Path(f, t)[j], Path(f, t)[j] \in Cluster
    PROVE  i = j /\ s = t
<1> DEFINE v == Path(f, s)   w == Path(f, t)
           T == {m \in Index : \A n \in Index :
                   m <= n /\ v[m] = w[n] /\ w[n] \in Cluster => m = n /\ s = t}
<1>1. s \in R /\ t \in R /\ R \subseteq Cluster /\ R \subseteq Word
  BY DEF Holds, Word
<1>2. /\ v[0] = s /\ w[0] = t
      /\ \A n \in 1 .. NumClusters :
            /\ v[n] = IF v[n - 1] \in Cluster THEN f[v[n - 1]] ELSE v[n - 1]
            /\ w[n] = IF w[n - 1] \in Cluster THEN f[w[n - 1]] ELSE w[n - 1]
  <2>1. s \in Word /\ t \in Word
    BY <1>1
  <2> QED
    BY <2>1, PathSteps
<1>3. \A c \in R : f[c] \in R \/ f[c] \notin Cluster
  BY Constants DEF Holds
<1>4. \A n \in Index : /\ v[n] \in R \/ v[n] \notin Cluster
                       /\ w[n] \in R \/ w[n] \notin Cluster
  BY <1>1, <1>3, PathStays
<1> HIDE DEF v, w
<1>5. 0 \in T
  <2> SUFFICES ASSUME NEW n \in Index, v[0] = w[n], w[n] \in Cluster
               PROVE  0 = n /\ s = t
    BY Constants DEF Index
  <2>1. ASSUME n # 0 PROVE FALSE
    <3>1. n \in 1 .. NumClusters /\ n - 1 \in Index
      BY <2>1, Constants DEF Index
    <3>2. w[n - 1] \in Cluster /\ f[w[n - 1]] = s
      BY <1>2, <3>1
    <3>3. w[n - 1] \in R
      BY <1>4, <3>1, <3>2
    <3> QED
      BY <3>2, <3>3 DEF Holds
  <2> QED
    BY <1>2, <2>1
<1>6. ASSUME NEW m \in 1 .. NumClusters, m - 1 \in T
      PROVE  m \in T
  <2> SUFFICES ASSUME NEW n \in Index, m <= n, v[m] = w[n], w[n] \in Cluster
               PROVE  m = n /\ s = t
    BY Constants DEF Index
  <2>1. m - 1 \in Index /\ n - 1 \in Index /\ n \in 1 .. NumClusters
    BY Constants DEF Index
  <2>2. /\ v[m - 1] \in Cluster /\ f[v[m - 1]] = v[m]
        /\ w[n - 1] \in Cluster /\ f[w[n - 1]] = w[n]
    BY <1>2, <2>1
  <2>3. v[m - 1] \in R /\ w[n - 1] \in R
    BY <1>4, <2>1, <2>2
  <2>4. v[m - 1] = w[n - 1]
    BY <2>2, <2>3 DEF Holds
  <2>5. m - 1 <= n - 1
    BY Constants DEF Index
  <2>6. m - 1 = n - 1 /\ s = t
    BY <1>6, <2>1, <2>2, <2>4, <2>5
  <2> QED
    BY <2>6, Constants DEF Index
<1> HIDE DEF T
<1>7. 0 .. NumClusters \subseteq T
  BY <1>5, <1>6, Constants, UpTo
<1> QED
  BY <1>7 DEF T, Index, v, w

(* A walk from a start ends, at an end mark. *)
LEMMA PathEnds ==
    ASSUME NEW f \in Table, NEW S, NEW R, Holds(f, S, R), NEW s \in S
    PROVE  /\ Path(f, s)[NumClusters] \in {EOC, CUT}
           /\ \A i \in Index : Path(f, s)[i] \in R \cup {EOC, CUT}
<1> DEFINE w == Path(f, s)
<1>1. s \in R /\ R \subseteq Cluster /\ R \subseteq Word
  BY DEF Holds, Word
<1>2. \A c \in Cluster \cap (R \cup {EOC, CUT}) :
          f[c] \in R \cup {EOC, CUT} \/ f[c] \notin Cluster
  BY Constants DEF Holds
<1>3. /\ w[0] = s /\ w \in [Index -> Word]
      /\ \A n \in 1 .. NumClusters :
            w[n] = IF w[n - 1] \in Cluster THEN f[w[n - 1]] ELSE w[n - 1]
  BY <1>1, PathSteps
<1>4. \A i \in Index : w[i] \in R \cup {EOC, CUT}
  <2> DEFINE T == {i \in Index : w[i] \in R \cup {EOC, CUT}}
  <2>1. 0 \in T
    BY <1>1, <1>3, Constants DEF Index
  <2>2. ASSUME NEW i \in 1 .. NumClusters, i - 1 \in T
        PROVE  i \in T
    <3> HIDE DEF w
    <3> QED
      BY <1>1, <1>3, <2>2, Constants DEF Index, Holds
  <2> HIDE DEF T
  <2>3. 0 .. NumClusters \subseteq T
    BY <2>1, <2>2, Constants, UpTo
  <2> QED
    BY <2>3 DEF T, Index
<1>5. ASSUME w[NumClusters] \in Cluster PROVE FALSE
  <2>1. ASSUME NEW i \in Index PROVE w[i] \in Cluster
    <3>1. NumClusters \in Index /\ i <= NumClusters
      BY Constants DEF Index
    <3> QED
      BY <1>1, <1>5, <3>1, PathFrozen
  <2>2. ASSUME NEW i \in Index, NEW j \in Index, w[i] = w[j] PROVE i = j
    <3>1. i <= j \/ j <= i
      BY Constants DEF Index
    <3> QED
      BY <2>1, <2>2, <3>1, PathsApart
  <2> HIDE DEF w
  <2>3. w \in Injection(Index, Cluster)
    <3>1. w \in [Index -> Cluster]
      BY <1>3, <2>1
    <3> QED
      BY <2>2, <3>1 DEF Injection, IsInjective
  <2>4. Cardinality(Index) <= Cardinality(Cluster)
    BY <2>3, ClustersFinite, FS_Injection
  <2>5. 0 \in Int /\ NumClusters \in Int /\ ~(0 > NumClusters)
    BY Constants
  <2>6. Cardinality(Index) = NumClusters + 1
    BY <2>5, FS_Interval DEF Index
  <2> QED
    BY <2>4, <2>6, ClustersFinite, Constants
<1>6. NumClusters \in Index
  BY Constants DEF Index
<1> HIDE DEF w
<1>7. w[NumClusters] \in {EOC, CUT}
  BY <1>1, <1>4, <1>5, <1>6
<1> QED
  BY <1>4, <1>7 DEF w

(* Tables that agree where a walk passes give the same walk. *)
LEMMA PathAgrees ==
    ASSUME NEW f \in Table, NEW g \in Table, NEW s \in Word, NEW n \in Index,
           \A i \in 0 .. (n - 1) :
               Path(f, s)[i] \in Cluster => g[Path(f, s)[i]] = f[Path(f, s)[i]]
    PROVE  \A i \in 0 .. n : Path(g, s)[i] = Path(f, s)[i]
<1> DEFINE v == Path(f, s)   w == Path(g, s)
           T == {i \in 0 .. n : w[i] = v[i]}
<1>1. /\ v[0] = s /\ w[0] = s
      /\ \A i \in 1 .. NumClusters :
            /\ v[i] = IF v[i - 1] \in Cluster THEN f[v[i - 1]] ELSE v[i - 1]
            /\ w[i] = IF w[i - 1] \in Cluster THEN g[w[i - 1]] ELSE w[i - 1]
  BY PathSteps
<1>2. \A i \in 0 .. (n - 1) : v[i] \in Cluster => g[v[i]] = f[v[i]]
  OBVIOUS
<1>3. n \in Nat /\ 1 .. n \subseteq 1 .. NumClusters
  BY Constants DEF Index
<1> HIDE DEF v, w
<1>4. 0 \in T
  BY <1>1, <1>3
<1>5. ASSUME NEW i \in 1 .. n, i - 1 \in T
      PROVE  i \in T
  <2>1. i - 1 \in 0 .. (n - 1) /\ i \in 1 .. NumClusters
    BY <1>3
  <2> QED
    BY <1>1, <1>2, <1>5, <2>1
<1> HIDE DEF T
<1>6. 0 .. n \subseteq T
  BY <1>3, <1>4, <1>5, UpTo
<1> QED
  BY <1>6 DEF T, v, w

(* The chain of s has j clusters. *)
EndsAt(f, s, j) ==
    /\ j \in 1 .. NumClusters
    /\ Path(f, s)[j - 1] \in Cluster
    /\ f[Path(f, s)[j - 1]] \notin Cluster

Links(f, s) == {Path(f, s)[i] : i \in Index} \cap Cluster

LEMMA ChainHasEnd ==
    ASSUME NEW f \in Table, NEW S, NEW R, Holds(f, S, R), NEW s \in S
    PROVE  \E j \in 1 .. NumClusters : EndsAt(f, s, j)
<1> DEFINE w == Path(f, s)
           T == {i \in Index : w[i] \notin Cluster}
<1>1. s \in Cluster /\ s \in Word
  BY DEF Holds, Word
<1>2. NumClusters \in T /\ T \in SUBSET Nat
  BY PathEnds, Constants DEF Index
<1>3. /\ w[0] = s
      /\ \A n \in 1 .. NumClusters :
            w[n] = IF w[n - 1] \in Cluster THEN f[w[n - 1]] ELSE w[n - 1]
  BY <1>1, PathSteps
<1>4. PICK j \in T : \A m \in T : j <= m
  BY <1>2, LeastNumber
<1> HIDE DEF w
<1>5. j \in 1 .. NumClusters
  BY <1>1, <1>3, <1>4, Constants DEF Index
<1>6. j - 1 \notin T /\ j - 1 \in Index
  BY <1>4, <1>5, Constants DEF Index
<1>7. w[j - 1] \in Cluster /\ f[w[j - 1]] \notin Cluster
  BY <1>3, <1>4, <1>5, <1>6
<1> QED
  BY <1>5, <1>7 DEF EndsAt, w

LEMMA ChainCounted ==
    ASSUME NEW f \in Table, NEW S, NEW R, Holds(f, S, R), NEW s \in S,
           NEW j, EndsAt(f, s, j)
    PROVE  /\ Cardinality(Links(f, s)) = j
           /\ \A i \in Index : i < j <=> Path(f, s)[i] \in Cluster
           /\ \A i \in Index : i >= j => Path(f, s)[i] = Path(f, s)[j]
<1> DEFINE w == Path(f, s)
           C == Links(f, s)
           b == [i \in 0 .. (j - 1) |-> w[i]]
<1>1. s \in Cluster /\ s \in Word /\ j \in 1 .. NumClusters /\ j \in Index /\ j - 1 \in Index
  BY Constants DEF Holds, Word, EndsAt, Index
<1>2. w[j - 1] \in Cluster /\ w[j] \notin Cluster
  <2>1. w[j] = IF w[j - 1] \in Cluster THEN f[w[j - 1]] ELSE w[j - 1]
    BY <1>1, PathSteps
  <2> QED
    BY <2>1 DEF EndsAt
<1>3. \A i \in Index : i >= j => w[i] = w[j]
  BY <1>1, <1>2, PathFrozen
<1>4. ASSUME NEW i \in Index, w[i] \notin Cluster PROVE i >= j
  <2>1. ASSUME i <= j - 1 PROVE w[j - 1] = w[i]
    BY <1>1, <1>4, <2>1, PathFrozen
  <2> HIDE DEF w
  <2> QED
    BY <1>1, <1>2, <1>4, <2>1, Constants DEF Index
<1>5. \A i \in Index : i < j <=> w[i] \in Cluster
  <2> HIDE DEF w
  <2> QED
    BY <1>1, <1>2, <1>3, <1>4, Constants DEF Index
<1>6. b \in Bijection(0 .. (j - 1), C)
  <2>1. 0 .. (j - 1) \subseteq Index
    BY <1>1, Constants DEF Index
  <2>2. ASSUME NEW i \in 0 .. (j - 1) PROVE b[i] = w[i] /\ w[i] \in C
    <3>1. i \in Index /\ i < j
      BY <1>1, <2>1, Constants DEF Index
    <3>2. w[i] \in Cluster
      BY <1>5, <3>1
    <3> QED
      BY <3>1, <3>2 DEF Links
  <2>3. ASSUME NEW c \in C PROVE \E i \in 0 .. (j - 1) : b[i] = c
    <3>1. PICK i \in Index : w[i] = c /\ c \in Cluster
      BY DEF Links
    <3> HIDE DEF w
    <3>2. i \in 0 .. (j - 1)
      BY <1>1, <1>5, <3>1, Constants DEF Index
    <3> QED
      BY <3>1, <3>2
  <2>4. ASSUME NEW i \in 0 .. (j - 1), NEW k \in 0 .. (j - 1), b[i] = b[k]
        PROVE  i = k
    <3>1. w[i] = w[k] /\ w[i] \in Cluster /\ i \in Index /\ k \in Index
      BY <2>1, <2>2, <2>4 DEF Links
    <3>2. i <= k \/ k <= i
      BY <1>1, Constants DEF Index
    <3> QED
      BY <3>1, <3>2, PathsApart
  <2> HIDE DEF w, C
  <2>5. b \in [0 .. (j - 1) -> C]
    BY <2>2
  <2> HIDE DEF b
  <2> QED
    BY <2>3, <2>4, <2>5 DEF Bijection, Injection, Surjection, IsInjective
<1>7. 0 \in Int /\ j - 1 \in Int /\ ~(0 > j - 1) /\ j - 1 - 0 + 1 = j
  BY <1>1, Constants
<1>8. IsFiniteSet(0 .. (j - 1)) /\ Cardinality(0 .. (j - 1)) = j
  BY <1>7, FS_Interval
<1>9. Cardinality(C) = j
  <2> HIDE DEF C, b
  <2>1. ExistsBijection(0 .. (j - 1), C)
    BY <1>6 DEF ExistsBijection
  <2> QED
    BY <1>8, <2>1, FS_Bijection
<1> QED
  BY <1>3, <1>5, <1>9

-----------------------------------------------------------------------------
(* The inductive invariant. *)

(* The steps of a write that replaces the file, and of any call that works  *)
(* through a handle.                                                        *)
Replacing == {"cut", "free", "grow", "growLink", "store"}
Appending == {"append", "appendLink"}
OnHandle == Replacing \cup Appending \cup {"read", "entry"}

(* The steps at which op.new was allocated and nothing leads to it yet.     *)
Linking == {"create", "growLink", "appendLink", "selfLink"}

Control == OnHandle \cup Linking \cup {"idle", "lost", "circling", "extend"}

Operations ==
    [pc : Control, h : Handles \cup {NoHandle}, n : Nat, slot : Slot,
     name : Base \cup {END}, isDir : BOOLEAN, parent : 1 .. RootClusters,
     cur : Word, new : Cluster \cup {0}, k : Int]

TypeInv ==
    /\ fat \in Table /\ dir \in [Slot -> Entry] /\ handle \in [Handles -> FileHandle]
    /\ op \in Operations

(* The operation in progress works through an open handle, and does not run *)
(* past the sizes that fit.                                                 *)
HandleInv ==
    /\ op.pc \in OnHandle => op.h \in Handles /\ handle[op.h].valid
    /\ op.pc = "read" => handle[op.h].position + op.n <= handle[op.h].size
    /\ op.pc \in Replacing \cup Appending => handle[op.h].size + op.n <= MaxSize

(* Listed entries and open handles have a first cluster, entries each their *)
(* own; what make_file is about to enter has one and a name.                *)
EntryInv ==
    /\ \A p \in Slot : Used(dir[p]) => dir[p].first \in Cluster
    /\ \A p, q \in Slot : dir[p].first = dir[q].first /\ p # q => dir[p].first = 0
    /\ \A h \in Handles : handle[h].valid => handle[h].start \in Cluster
    /\ op.pc = "create" => op.name \in Base

(* D holds what is still to be freed, from c on. *)
Detached(f, D, c) ==
    /\ c \in D \cup {EOC, CUT}
    /\ \A d \in D : f[d] \in D \cup {EOC, CUT} /\ (c \in D => f[d] # c)
    /\ \A d, e \in D : f[d] = f[e] /\ f[d] \in Cluster => d = e

(* Some set holds all that the starts lead to, and neither the new cluster  *)
(* nor what is still to be freed.  No claim is made about other clusters:   *)
(* those that a reset or a lack of memory left allocated may lead anywhere. *)
ChainInv ==
    \E R \in SUBSET Cluster :
        /\ Holds(fat, Starts, R)
        /\ op.pc \in Linking => op.new \in Cluster \ R /\ fat[op.new] = EOC
        /\ op.pc = "free" => \E D \in SUBSET (Cluster \ R) : Detached(fat, D, op.cur)

Length(s, j) ==
    /\ j \in 1 .. NumClusters
    /\ Walk(s)[j - 1] \in Cluster /\ fat[Walk(s)[j - 1]] \notin Cluster

(* How far the chain is from the number of clusters that the write needs.   *)
LengthInv ==
    LET start == handle[op.h].start
        need == ClustersNeeded(op.n)
    IN  /\ op.pc = "cut" => /\ need \in 1 .. NumClusters
                            /\ op.cur = Walk(start)[need - 1]
                            /\ op.cur \in Cluster /\ fat[op.cur] \in Cluster
        /\ op.pc \in {"free", "store"} => Length(start, need)
        /\ op.pc \in {"grow", "growLink"} => /\ op.k >= 1 /\ Length(start, need - op.k)
                                             /\ op.cur = Walk(start)[need - op.k - 1]

Inv == TypeInv /\ HandleInv /\ EntryInv /\ ChainInv /\ LengthInv

-----------------------------------------------------------------------------
(* What a write to the table does to the set that holds the chains. *)

LEMMA HoldsFewer ==
    ASSUME NEW f, NEW S, NEW R, Holds(f, S, R), NEW T \in SUBSET S
    PROVE  Holds(f, T, R)
BY DEF Holds

LEMMA HoldsElsewhere ==
    ASSUME NEW f \in Table, NEW S, NEW R, Holds(f, S, R),
           NEW c, c \notin R, NEW d
    PROVE  Holds([f EXCEPT ![c] = d], S, R)
BY DEF Holds, Table

(* The end of a chain is linked to a new cluster, and whatever followed is  *)
(* lost.                                                                    *)
LEMMA HoldsLinked ==
    ASSUME NEW f \in Table, NEW S, NEW R, Holds(f, S, R),
           NEW n \in Cluster \ R, f[n] = EOC, NEW c \in R
    PROVE  Holds([f EXCEPT ![c] = n], S, R \cup {n})
<1> DEFINE g == [f EXCEPT ![c] = n]   Q == R \cup {n}
<1>1. R \subseteq Cluster /\ S \subseteq R /\ n \notin S /\ n # c
  BY DEF Holds
<1>2. g[c] = n /\ g[n] = EOC /\ \A d \in R : d # c => g[d] = f[d]
  BY <1>1 DEF Table
<1>3. \A d \in R : f[d] # n
  BY Constants DEF Holds
<1> HIDE DEF g
<1>4. \A d \in Q : g[d] \in Q \cup {EOC, CUT} /\ g[d] \notin S
  BY <1>1, <1>2, Constants DEF Holds
<1>5. \A d, e \in Q : g[d] = g[e] /\ g[d] \in Cluster => d = e
  BY <1>1, <1>2, <1>3, Constants DEF Holds
<1> QED
  BY <1>1, <1>4, <1>5 DEF Holds, g

(* A new cluster becomes a start. *)
LEMMA HoldsStart ==
    ASSUME NEW f \in Table, NEW S, NEW R, Holds(f, S, R),
           NEW n \in Cluster \ R, f[n] = EOC
    PROVE  Holds(f, S \cup {n}, R \cup {n})
BY Constants DEF Holds

(* A chain is cut behind c: what followed c is apart from then on. *)
LEMMA HoldsCut ==
    ASSUME NEW f \in Table, NEW S, NEW R, Holds(f, S, R),
           NEW s \in S, NEW i \in Index, NEW c \in Cluster, c = Path(f, s)[i]
    PROVE  \E Q \in SUBSET Cluster :
              /\ Holds([f EXCEPT ![c] = CUT], S, Q)
              /\ \E D \in SUBSET (Cluster \ Q) : Detached([f EXCEPT ![c] = CUT], D, f[c])
<1> DEFINE g == [f EXCEPT ![c] = CUT]   next == f[c]
<1>1. S \subseteq R /\ R \subseteq Cluster /\ s \in R /\ s \in Word
  BY DEF Holds, Word
<1>2. c \in R
  <2>1. Path(f, s)[i] \in R \cup {EOC, CUT}
    BY PathEnds
  <2> QED
    BY <2>1, Constants
<1>3. g[c] = CUT /\ \A d \in Cluster : d # c => g[d] = f[d]
  BY DEF Table
<1>4. CASE next \notin Cluster
  <2>1. next \in {EOC, CUT}
    BY <1>1, <1>2, <1>4 DEF Holds
  <2>2. Holds(g, S, R)
    BY <1>1, <1>3, Constants DEF Holds
  <2>3. {} \in SUBSET (Cluster \ R) /\ Detached(g, {}, next)
    BY <2>1 DEF Detached
  <2> HIDE DEF g, next
  <2>4. R \in SUBSET Cluster
    BY <1>1
  <2> QED
    BY <2>2, <2>3, <2>4 DEF g, next
<1>5. CASE next \in Cluster
  <2> DEFINE LinkedIn(X) == next \in X /\ \A d \in X : f[d] \in X \cup {EOC, CUT}
             D == {d \in R : \A X \in SUBSET R : LinkedIn(X) => d \in X}
             Q == R \ D
  <2>1. next \in R
    BY <1>1, <1>2, <1>5, Constants DEF Holds
  <2>2. LinkedIn(R) /\ R \in SUBSET R
    BY <2>1 DEF Holds
  <2>3. LinkedIn(D)
    BY <2>1, <2>2 DEF Holds
  <2>4. ASSUME NEW d \in D, d # next
        PROVE  \E e \in D : f[e] = d
    <3> SUFFICES ASSUME \A e \in D : f[e] # d PROVE FALSE
      OBVIOUS
    <3>1. LinkedIn(D \ {d})
      BY <2>3, <2>4
    <3>2. D \ {d} \in SUBSET R
      OBVIOUS
    <3>3. d \in D \ {d}
      BY <3>1, <3>2
    <3> QED
      BY <3>3
  <2> HIDE DEF D, Q
  <2>5. D \subseteq R /\ Q = R \ D
    BY DEF D, Q
  <2>6. ASSUME NEW d \in R, f[d] \in D
        PROVE  d = c \/ d \in D
    <3>1. f[d] \in Cluster
      BY <1>1, <2>5, <2>6
    <3>2. CASE f[d] = next
      BY <1>2, <2>6, <3>1, <3>2 DEF Holds
    <3>3. CASE f[d] # next
      <4>1. PICK e \in D : f[e] = f[d]
        BY <2>4, <2>6, <3>3
      <4>2. e = d
        BY <2>5, <2>6, <3>1, <4>1 DEF Holds
      <4> QED
        BY <4>1, <4>2
    <3> QED
      BY <3>2, <3>3
  <2>7. S \cap D = {}
    <3>1. ASSUME NEW d \in S, d \in D PROVE FALSE
      <4>1. next # d
        BY <1>2, <3>1 DEF Holds
      <4>2. PICK e \in D : f[e] = d
        BY <2>4, <3>1, <4>1
      <4> QED
        BY <2>5, <3>1, <4>2 DEF Holds
    <3> QED
      BY <3>1
  <2>8. c \notin D
    <3> SUFFICES ASSUME c \in D PROVE FALSE
      OBVIOUS
    <3>1. ASSUME NEW d \in Cluster \cap Q PROVE f[d] \in Q \/ f[d] \notin Cluster
      <4>1. d \in R /\ f[d] \notin D
        BY <2>5, <2>6
      <4>2. f[d] \in R \cup {EOC, CUT}
        BY <4>1 DEF Holds
      <4> QED
        BY <2>5, <4>1, <4>2, Constants
    <3>2. s \in Q
      BY <1>1, <2>5, <2>7
    <3>3. Path(f, s)[i] \in Q \/ Path(f, s)[i] \notin Cluster
      BY <1>1, <3>1, <3>2, PathStays
    <3> QED
      BY <2>5, <3>3
  <2>9. Holds(g, S, Q)
    <3>1. S \subseteq Q /\ Q \subseteq Cluster
      BY <1>1, <2>5, <2>7
    <3>2. ASSUME NEW d \in Q PROVE g[d] \in Q \cup {EOC, CUT} /\ g[d] \notin S
      <4>1. CASE d = c
        BY <1>1, <1>3, <4>1, Constants
      <4>2. CASE d # c
        <5>1. d \in R /\ d \notin D /\ g[d] = f[d]
          BY <1>1, <1>3, <2>5, <4>2
        <5>2. f[d] \notin D
          BY <2>6, <4>2, <5>1
        <5> QED
          BY <2>5, <5>1, <5>2 DEF Holds
      <4> QED
        BY <4>1, <4>2
    <3>3. ASSUME NEW d \in Q, NEW e \in Q, g[d] = g[e], g[d] \in Cluster
          PROVE  d = e
      <4>1. d # c /\ e # c
        BY <1>3, <3>3, Constants
      <4> QED
        BY <1>1, <1>3, <2>5, <3>3, <4>1 DEF Holds
    <3> QED
      BY <3>1, <3>2, <3>3 DEF Holds
  <2>10. Detached(g, D, next)
    <3>1. \A d \in D : g[d] = f[d] /\ d \in R
      BY <1>1, <1>3, <2>5, <2>8
    <3>2. ASSUME NEW d \in D PROVE f[d] # next
      BY <1>2, <1>5, <2>5, <2>8 DEF Holds
    <3>3. \A d, e \in D : g[d] = g[e] /\ g[d] \in Cluster => d = e
      BY <3>1 DEF Holds
    <3> HIDE DEF g, next, LinkedIn
    <3>4. next \in D /\ \A d \in D : f[d] \in D \cup {EOC, CUT}
      BY <2>3 DEF LinkedIn
    <3> QED
      BY <3>1, <3>2, <3>3, <3>4 DEF Detached
  <2>11. Q \in SUBSET Cluster /\ D \in SUBSET (Cluster \ Q)
    BY <1>1, <2>5
  <2> HIDE DEF g, next
  <2> QED
    BY <2>9, <2>10, <2>11 DEF g, next
<1> QED
  BY <1>4, <1>5

(* The next of the detached clusters is freed, or is not. *)
LEMMA DetachedNext ==
    ASSUME NEW f \in Table, NEW D \in SUBSET Cluster, NEW c \in Cluster, Detached(f, D, c),
           NEW v
    PROVE  f[c] \in Cluster \cup {EOC, CUT} /\ Detached([f EXCEPT ![c] = v], D \ {c}, f[c])
<1> DEFINE g == [f EXCEPT ![c] = v]   E == D \ {c}
<1>1. c \in D
  BY Constants DEF Detached
<1>2. \A d \in E : g[d] = f[d] /\ f[d] \in D \cup {EOC, CUT} /\ f[d] # c
  BY <1>1 DEF Detached, Table
<1>3. f[c] \in E \cup {EOC, CUT}
  BY <1>1 DEF Detached
<1>4. \A d \in E : f[c] \in E => f[d] # f[c]
  BY <1>1 DEF Detached
<1>5. \A d, e \in E : f[d] = f[e] /\ f[d] \in Cluster => d = e
  BY <1>1 DEF Detached
<1> HIDE DEF g
<1>6. Detached(g, E, f[c])
  BY <1>2, <1>3, <1>4, <1>5 DEF Detached
<1> QED
  BY <1>3, <1>6 DEF g

-----------------------------------------------------------------------------
(* Types. *)

LEMMA WalkIsPath == \A s : Walk(s) = Path(fat, s)
BY DEF Walk, Path, Index

LEMMA WalkIsPathNext == \A s : Walk(s)' = Path(fat', s)
BY DEF Walk, Path, Index

LEMMA ChainIsLinks == \A s : Chain(s) = Links(fat, s)
BY WalkIsPath DEF Chain, Links, Index

LEMMA ChainIsLinksNext == \A s : Chain(s)' = Links(fat', s)
BY DEF Chain, Links, Index, Walk, Path

LEMMA NeededTyped ==
    ASSUME NEW n \in Nat
    PROVE  ClustersNeeded(n) \in Nat \ {0}
<1>1. n \div ClusterBytes \in 0 .. n
  BY Constants, Quotient
<1> QED
  BY <1>1 DEF ClustersNeeded

(* A turn of a loop takes no more than is left, and no more than a cluster. *)
LEMMA TurnTyped ==
    ASSUME NEW n \in Nat, NEW pos \in Nat
    PROVE  /\ LeastOf(n, ClusterBytes - (pos % ClusterBytes)) \in 0 .. n
           /\ LeastOf(n, ClusterBytes) \in 0 .. n
<1>1. pos % ClusterBytes \in 0 .. (ClusterBytes - 1)
  BY Constants, Quotient
<1> DEFINE at == pos % ClusterBytes
<1> HIDE DEF at
<1>2. at \in 0 .. (ClusterBytes - 1)
  BY <1>1 DEF at
<1>3. LeastOf(n, ClusterBytes - at) \in 0 .. n /\ LeastOf(n, ClusterBytes) \in 0 .. n
  BY <1>2, Constants DEF LeastOf
<1> QED
  BY <1>3 DEF at

(* e is d but for entries that were wiped, marked or given another size.    *)
Fewer(d, e) ==
    /\ e \in [Slot -> Entry]
    /\ \A p \in Slot : /\ e[p].first \in {d[p].first, 0}
                       /\ Used(e[p]) => Used(d[p]) /\ e[p].first = d[p].first

LEMMA SlotsExist == 1 \in Slot /\ ZeroEntry \in Entry
<1>1. RootClusters * ClusterSlots >= 1
  BY Constants
<1>2. RootClusters * ClusterSlots \in Nat
  BY Constants
<1>3. 1 \in Slot
  BY <1>1, <1>2 DEF Slot
<1> QED
  BY <1>3, Constants DEF ZeroEntry, Entry

LEMMA SlotCluster == \A p \in Slot : DirCluster(p) \in 1 .. RootClusters
<1> SUFFICES ASSUME NEW p \in Slot PROVE DirCluster(p) \in 1 .. RootClusters
  OBVIOUS
<1> DEFINE a == p - 1   q == a \div ClusterSlots   r == a % ClusterSlots
<1>1. RootClusters * ClusterSlots \in Nat
  BY Constants
<1>2. a \in Nat /\ a < RootClusters * ClusterSlots
  BY <1>1 DEF Slot
<1> HIDE DEF a
<1>3. q \in 0 .. a /\ r \in 0 .. (ClusterSlots - 1) /\ a = ClusterSlots * q + r
  BY <1>2, Constants, Quotient
<1> HIDE DEF q, r
<1>4. q < RootClusters
  <2> SUFFICES ASSUME q >= RootClusters PROVE FALSE
    BY <1>2, <1>3, Constants
  <2>1. ClusterSlots * q >= ClusterSlots * RootClusters
    BY <1>2, <1>3, Constants
  <2>2. ClusterSlots * RootClusters = RootClusters * ClusterSlots
    BY Constants
  <2> QED
    BY <1>1, <1>2, <1>3, <2>1, <2>2, Constants
<1>5. q + 1 \in 1 .. RootClusters
  BY <1>2, <1>3, <1>4, Constants
<1> QED
  BY <1>5 DEF DirCluster, a, q

LEMMA FewerPut ==
    ASSUME dir \in [Slot -> Entry], NEW p \in Slot, NEW z \in 0 .. MaxSize
    PROVE  Fewer(dir, PutEntry(p, [dir[p] EXCEPT !.size = z]))
<1> DEFINE e == [dir[p] EXCEPT !.size = z]   d == PutEntry(p, e)
<1>1. dir[p] \in Entry
  OBVIOUS
<1>2. e \in Entry /\ e.first = dir[p].first /\ e.name = dir[p].name
  BY <1>1 DEF Entry
<1> HIDE DEF e
<1>3. d = [q \in Slot |-> IF q = p THEN e
                          ELSE IF SameSector(p, q) /\ p < q THEN ZeroEntry ELSE dir[q]]
  BY DEF PutEntry
<1>4. ~Used(ZeroEntry) /\ ZeroEntry.first = 0
  BY DEF Used, ZeroEntry
<1>5. Used(e) => Used(dir[p])
  BY <1>2 DEF Used
<1>6. ASSUME NEW q \in Slot
      PROVE  /\ d[q] \in Entry /\ d[q].first \in {dir[q].first, 0}
             /\ Used(d[q]) => Used(dir[q]) /\ d[q].first = dir[q].first
  <2>1. d[q] \in {e, ZeroEntry, dir[q]} /\ (d[q] = e => q = p \/ e = ZeroEntry \/ e = dir[q])
    BY <1>3
  <2>2. dir[q] \in Entry
    OBVIOUS
  <2>3. CASE d[q] = ZeroEntry
    BY <1>4, <2>3, SlotsExist
  <2>4. CASE d[q] = dir[q]
    BY <2>2, <2>4
  <2>5. CASE d[q] = e /\ q = p
    BY <1>2, <1>5, <2>5
  <2> QED
    BY <2>1, <2>3, <2>4, <2>5
<1>7. d \in [Slot -> Entry]
  <2>1. d = [q \in Slot |-> d[q]]
    BY <1>3
  <2> HIDE DEF d
  <2> QED
    BY <1>6, <2>1
<1> HIDE DEF d
<1>8. Fewer(dir, d)
  BY <1>6, <1>7 DEF Fewer
<1> QED
  BY <1>8 DEF d, e

LEMMA FewerMark ==
    ASSUME dir \in [Slot -> Entry], NEW p \in Slot
    PROVE  Fewer(dir, MarkAfter(p))
<1>1. CASE MarkAfter(p) = dir
  BY <1>1 DEF Fewer
<1>2. CASE p + 1 \in Slot /\ MarkAfter(p) = [dir EXCEPT ![p + 1].name = DELETED]
  <2> DEFINE d == MarkAfter(p)   q == p + 1
  <2>1. dir[q] \in Entry /\ q \in Slot
    BY <1>2
  <2> HIDE DEF d, q
  <2>2. d = [dir EXCEPT ![q].name = DELETED]
    BY <1>2 DEF d, q
  <2>3. /\ d[q] \in Entry /\ d[q].first = dir[q].first /\ d[q].name = DELETED
        /\ d \in [Slot -> Entry] /\ \A r \in Slot \ {q} : d[r] = dir[r]
    BY <2>1, <2>2 DEF Entry
  <2>4. ~Used(d[q])
    BY <2>3 DEF Used
  <2>5. Fewer(dir, d)
    BY <2>3, <2>4 DEF Fewer
  <2> QED
    BY <2>5 DEF d
<1> QED
  BY <1>1, <1>2 DEF MarkAfter

(* Where seek follows the links to. *)
LEMMA ReachTyped ==
    ASSUME TypeInv, NEW h \in Handles
    PROVE  /\ SeekReach(h)[0] = {handle[h].cluster}
           /\ \A i \in 1 .. MaxSize :
                SeekReach(h)[i] =
                  UNION {NextOf(c) : c \in IF i = 1 THEN SeekReach(h)[0]
                                           ELSE {d \in SeekReach(h)[i - 1] : ~IsEnd(d)}}
           /\ \A i \in 0 .. MaxSize : SeekReach(h)[i] \subseteq Word
<1> DEFINE s == {handle[h].cluster}
           From(i, S) == IF i = 1 THEN s ELSE {d \in S : ~IsEnd(d)}
           Reached(r, i) == UNION {NextOf(c) : c \in IF i = 1 THEN r[0]
                                                     ELSE {d \in r[i - 1] : ~IsEnd(d)}}
           Defines(r) == r = [i \in 0 .. MaxSize |-> IF i = 0 THEN s ELSE Reached(r, i)]
           F == [x \in Nat \X SUBSET Word |->
                    <<x[1] + 1, UNION {NextOf(c) : c \in From(x[1] + 1, x[2])}>>]
<1>1. s \subseteq Word
  BY DEF TypeInv, FileHandle
<1>2. \A c \in Word : NextOf(c) \subseteq Word
  BY DEF NextOf, TypeInv, Table
<1>3. \A i \in Nat, S \in SUBSET Word : UNION {NextOf(c) : c \in From(i, S)} \subseteq Word
  BY <1>1, <1>2
<1>4. PICK g : Iterates(g, MaxSize, F, <<0, s>>)
  <2> HIDE DEF F, s
  <2> QED
    BY Constants, IterateExists
<1>5. /\ g[0] = <<0, s>>
      /\ \A i \in 1 .. MaxSize : g[i] = F[g[i - 1]]
  <2> HIDE DEF F, s
  <2> QED
    BY <1>4, Constants, IterateSteps
<1>6. \A i \in 0 .. MaxSize : g[i] \in Nat \X SUBSET Word /\ g[i][1] = i
  <2> DEFINE T == {i \in 0 .. MaxSize : g[i] \in Nat \X SUBSET Word /\ g[i][1] = i}
  <2>1. 0 \in T
    <3> HIDE DEF s, F
    <3>1. <<0, s>> \in Nat \X SUBSET Word /\ <<0, s>>[1] = 0
      BY <1>1
    <3>2. g[0] = <<0, s>> /\ 0 \in 0 .. MaxSize
      BY <1>5, Constants
    <3> QED
      BY <3>1, <3>2, Zenon
  <2>2. ASSUME NEW i \in 1 .. MaxSize, i - 1 \in T
        PROVE  i \in T
    <3>1. g[i - 1] \in Nat \X SUBSET Word /\ g[i - 1][1] = i - 1
      BY <2>2
    <3>2. g[i] = <<g[i - 1][1] + 1, UNION {NextOf(c) : c \in From(g[i - 1][1] + 1, g[i - 1][2])}>>
      BY <1>5, <3>1
    <3> HIDE DEF From
    <3> QED
      BY <1>3, <3>1, <3>2, Constants
  <2> HIDE DEF T
  <2>3. 0 .. MaxSize \subseteq T
    BY <2>1, <2>2, Constants, UpTo
  <2> QED
    BY <2>3 DEF T
<1> DEFINE r == [i \in 0 .. MaxSize |-> g[i][2]]
<1>7. Defines(r)
  <2>1. ASSUME NEW i \in 1 .. MaxSize
        PROVE  r[i] = Reached(r, i)
    <3>1. /\ i - 1 \in 0 .. MaxSize /\ i \in 0 .. MaxSize /\ 0 \in 0 .. MaxSize
          /\ g[i - 1] \in Nat \X SUBSET Word /\ g[i - 1][1] = i - 1
      BY <1>6, Constants
    <3>2. g[i] = <<g[i - 1][1] + 1, UNION {NextOf(c) : c \in From(g[i - 1][1] + 1, g[i - 1][2])}>>
      BY <1>5, <3>1
    <3>3. g[i][2] = UNION {NextOf(c) : c \in From(i, g[i - 1][2])}
      BY <3>1, <3>2
    <3>4. r[i] = g[i][2] /\ r[i - 1] = g[i - 1][2] /\ r[0] = s
      BY <1>5, <3>1
    <3> HIDE DEF r
    <3> QED
      BY <3>3, <3>4
  <2>2. r[0] = s
    BY <1>5, Constants
  <2>3. r = [i \in 0 .. MaxSize |-> r[i]]
    OBVIOUS
  <2> HIDE DEF r, Reached, s
  <2>4. \A i \in 0 .. MaxSize : r[i] = IF i = 0 THEN s ELSE Reached(r, i)
    BY <2>1, <2>2, Constants
  <2> QED
    BY <2>3, <2>4
<1>8. SeekReach(h) = CHOOSE v : Defines(v)
  BY DEF SeekReach
<1> DEFINE v == SeekReach(h)
<1>9. Defines(v)
  <2> HIDE DEF Defines, r
  <2> QED
    BY <1>7, <1>8
<1>10. /\ v[0] = s
       /\ \A i \in 1 .. MaxSize : v[i] = Reached(v, i)
  <2> HIDE DEF v, Reached, s
  <2>1. \A i \in 0 .. MaxSize : v[i] = IF i = 0 THEN s ELSE Reached(v, i)
    BY <1>9
  <2> QED
    BY <2>1, Constants
<1> HIDE DEF v
<1>11. \A i \in 0 .. MaxSize : v[i] \subseteq Word
  <2> DEFINE T == {i \in 0 .. MaxSize : v[i] \subseteq Word}
  <2>1. 0 \in T
    BY <1>1, <1>10, Constants
  <2>2. ASSUME NEW i \in 1 .. MaxSize, i - 1 \in T
        PROVE  i \in T
    <3>1. v[i] = UNION {NextOf(c) : c \in From(i, v[i - 1])}
      BY <1>10
    <3>2. v[i - 1] \in SUBSET Word /\ i \in Nat
      BY <2>2
    <3>3. v[i] \subseteq Word
      BY <1>3, <3>1, <3>2
    <3> QED
      BY <3>3, Constants
  <2> HIDE DEF T
  <2>3. 0 .. MaxSize \subseteq T
    BY <2>1, <2>2, Constants, UpTo
  <2> QED
    BY <2>3 DEF T
<1> QED
  BY <1>10, <1>11 DEF v

LEMMA IdleTyped == Idle \in Operations /\ Idle.pc = "idle" /\ NoFile \in FileHandle
BY SlotsExist, Constants DEF Idle, Operations, Control, NoFile, FileHandle, Word, FREE

(* What the set of chains tells of a start's chain. *)
LEMMA StartsHeld ==
    ASSUME Inv
    PROVE  \E R \in SUBSET Cluster : Holds(fat, Starts, R)
BY DEF Inv, ChainInv

LEMMA OpenStarts ==
    ASSUME Inv, NEW h \in Handles, handle[h].valid
    PROVE  handle[h].start \in Starts /\ handle[h].start \in Cluster /\ handle[h].start \in Word
BY Constants DEF Inv, EntryInv, Starts, Word, FREE

(* What write finds out about the chain before it changes it. *)
LEMMA WriteCounts ==
    ASSUME Inv, NEW h \in Handles, handle[h].valid,
           NEW n \in Nat
    PROVE  LET start == handle[h].start
               have == ChainLength(start)
               need == ClustersNeeded(n)
           IN  /\ Length(start, have) /\ have \in 1 .. NumClusters
               /\ need \in Nat \ {0}
               /\ \A i \in 1 .. have : Walk(start)[i - 1] \in Cluster
               /\ have > need => /\ Walk(start)[need - 1] \in Cluster
                                 /\ fat[Walk(start)[need - 1]] \in Cluster
<1> DEFINE s == handle[h].start   w == Path(fat, s)
<1>1. fat \in Table
  BY DEF Inv, TypeInv
<1>2. s \in Starts /\ s \in Word
  BY OpenStarts
<1>3. PICK R \in SUBSET Cluster : Holds(fat, Starts, R)
  BY StartsHeld
<1> HIDE DEF s
<1>4. PICK j \in 1 .. NumClusters : EndsAt(fat, s, j)
  BY <1>1, <1>2, <1>3, ChainHasEnd
<1>5. Cardinality(Links(fat, s)) = j /\ \A i \in Index : i < j <=> w[i] \in Cluster
  BY <1>1, <1>2, <1>3, <1>4, ChainCounted
<1>6. ChainLength(s) = j
  BY <1>5, ChainIsLinks DEF ChainLength
<1>7. Walk(s) = w
  BY WalkIsPath
<1>8. Length(s, j)
  BY <1>4, <1>7 DEF Length, EndsAt
<1>9. ASSUME NEW i \in 1 .. j PROVE w[i - 1] \in Cluster
  <2>1. i - 1 \in Index /\ i - 1 < j
    BY Constants DEF Index
  <2> QED
    BY <1>5, <2>1
<1>10. ASSUME NEW i \in 1 .. NumClusters, i < j PROVE fat[w[i - 1]] \in Cluster
  <2>1. w[i] = IF w[i - 1] \in Cluster THEN fat[w[i - 1]] ELSE w[i - 1]
    BY <1>1, <1>2, PathSteps
  <2>2. i \in Index /\ i \in 1 .. j
    BY <1>10, Constants DEF Index
  <2> QED
    BY <1>5, <1>9, <1>10, <2>1, <2>2
<1>11. ClustersNeeded(n) \in Nat \ {0}
  BY NeededTyped
<1> DEFINE need == ClustersNeeded(n)
<1> HIDE DEF need
<1>12. need \in Nat \ {0}
  BY <1>11 DEF need
<1> HIDE DEF w
<1>13. j > need => w[need - 1] \in Cluster /\ fat[w[need - 1]] \in Cluster
  BY <1>9, <1>10, <1>12, Constants
<1> QED
  BY <1>6, <1>7, <1>8, <1>9, <1>12, <1>13 DEF s, need

LEMMA CurTyped ==
    ASSUME Inv
    PROVE  /\ op.pc = "cut" => fat[op.cur] \in Word /\ fat[op.cur] # FREE /\ op.cur \in Cluster
           /\ op.pc = "free" => op.cur \in Cluster \cup {EOC, CUT}
           /\ op.pc = "free" /\ op.cur \in Cluster => fat[op.cur] \in Cluster \cup {EOC, CUT}
<1>1. op.pc = "cut" => fat[op.cur] \in Word /\ fat[op.cur] # FREE /\ op.cur \in Cluster
  BY Constants DEF Inv, LengthInv, Word
<1>2. ASSUME op.pc = "free"
      PROVE  /\ op.cur \in Cluster \cup {EOC, CUT}
             /\ op.cur \in Cluster => fat[op.cur] \in Cluster \cup {EOC, CUT}
  <2>1. PICK R \in SUBSET Cluster : \E D \in SUBSET (Cluster \ R) : Detached(fat, D, op.cur)
    BY <1>2 DEF Inv, ChainInv
  <2>2. PICK D \in SUBSET (Cluster \ R) : Detached(fat, D, op.cur)
    BY <2>1
  <2> QED
    BY <2>2, Constants DEF Detached
<1> QED
  BY <1>1, <1>2

TypesKept == TypeInv' /\ HandleInv'

(* The calls that only look something up, or change a handle. *)
LEMMA MovedTyped ==
    ASSUME TypeInv, NEW h \in Handles, NEW c \in Word, NEW pos \in 0 .. MaxSize
    PROVE  /\ Moved(h, c, pos) \in [Handles -> FileHandle]
           /\ \A g \in Handles :
                /\ Moved(h, c, pos)[g].valid = handle[g].valid
                /\ Moved(h, c, pos)[g].start = handle[g].start
                /\ Moved(h, c, pos)[g].size = handle[g].size
                /\ g # h => Moved(h, c, pos)[g] = handle[g]
           /\ Moved(h, c, pos)[h].cluster = c /\ Moved(h, c, pos)[h].position = pos
<1> DEFINE f == [handle[h] EXCEPT !.cluster = c, !.position = pos]
<1>1. handle \in [Handles -> FileHandle] /\ handle[h] \in FileHandle
  BY DEF TypeInv
<1>2. /\ f \in FileHandle /\ f.cluster = c /\ f.position = pos
      /\ f.valid = handle[h].valid /\ f.start = handle[h].start /\ f.size = handle[h].size
  BY <1>1 DEF FileHandle
<1> HIDE DEF f
<1>3. Moved(h, c, pos) = [handle EXCEPT ![h] = f]
  BY DEF Moved, f
<1> QED
  BY <1>1, <1>2, <1>3

LEMMA CallTypes ==
    ASSUME Inv, NEW h \in Handles,
           \/ \E n \in Names : Open(h, n)
           \/ \E n \in ReadSizes : Read(h, n)
           \/ \E pos \in SeekPositions : Seek(h, pos)
           \/ Close(h) \/ WriteHangs(h) \/ WriteNoBuffer(h)
    PROVE  TypesKept
<1> USE IdleTyped DEF Inv, TypesKept
<1>t. TypeInv /\ handle[h] \in FileHandle /\ op \in Operations
  BY DEF TypeInv
<1>0. ASSUME op' = Idle, fat' = fat, dir' = dir, handle' \in [Handles -> FileHandle]
      PROVE  TypesKept
  BY <1>0, <1>t DEF TypeInv, HandleInv, OnHandle, Replacing, Appending
<1>f. ASSUME NEW call, NEW err, Fails(call, err) PROVE TypesKept
  BY <1>f, <1>0, <1>t DEF Fails, Return, TypeInv
<1>1. ASSUME NEW n \in Names, Open(h, n) PROVE TypesKept
  <2>1. CASE Fails("open", "NOT_FOUND") \/ Fails("open", "NOT_A_FILE")
    BY <1>f, <2>1
  <2>2. CASE \E p \in Slot :
               /\ handle' = [handle EXCEPT ![h] =
                     [valid |-> TRUE, cluster |-> dir[p].first,
                      start |-> dir[p].first, parent |-> DirCluster(p),
                      position |-> 0, size |-> dir[p].size]]
               /\ op' = Idle /\ UNCHANGED <<fat, dir>>
    <3>1. PICK p \in Slot :
               /\ handle' = [handle EXCEPT ![h] =
                     [valid |-> TRUE, cluster |-> dir[p].first,
                      start |-> dir[p].first, parent |-> DirCluster(p),
                      position |-> 0, size |-> dir[p].size]]
               /\ op' = Idle /\ UNCHANGED <<fat, dir>>
      BY <2>2
    <3>2. dir[p] \in Entry
      BY <1>t DEF TypeInv
    <3>3. DirCluster(p) \in 1 .. RootClusters
      BY SlotCluster
    <3>4. [valid |-> TRUE, cluster |-> dir[p].first, start |-> dir[p].first,
           parent |-> DirCluster(p), position |-> 0, size |-> dir[p].size] \in FileHandle
      BY <3>2, <3>3, Constants DEF Entry, FileHandle, Word, FREE
    <3> QED
      BY <1>0, <1>t, <3>1, <3>4 DEF TypeInv
  <2> QED
    BY <1>1, <2>1, <2>2 DEF Open, Return
<1>2. ASSUME NEW n \in ReadSizes, Read(h, n) PROVE TypesKept
  <2>3. handle[h].position \in Nat /\ handle[h].size \in Nat
    BY <1>t, Constants DEF FileHandle
  <2>1. CASE Fails("read", "SUCCESS")
    BY <1>f, <2>1
  <2>2. CASE /\ handle[h].position < handle[h].size
             /\ op' = [Idle EXCEPT !.pc = "read", !.h = h,
                         !.n = LeastOf(n, handle[h].size - handle[h].position)]
             /\ UNCHANGED <<fat, dir, handle, ret>>
    <3> DEFINE left == handle[h].size - handle[h].position
               m == LeastOf(n, left)
    <3>0. handle[h].valid
      BY <1>2, Zenon DEF Read
    <3>1. n \in Nat /\ left \in Nat /\ handle[h].valid
      BY <2>2, <2>3, <3>0, FatAssumption
    <3>2. m \in 0 .. left /\ m \in Nat
      <4> HIDE DEF left
      <4> QED
        BY <3>1 DEF LeastOf
    <3>3. op' \in Operations /\ op'.pc = "read" /\ op'.h = h /\ op'.n = m
      <4> HIDE DEF m
      <4>1. op' = [Idle EXCEPT !.pc = "read", !.h = h, !.n = m]
        BY <2>2 DEF m
      <4> QED
        BY <3>2, <4>1 DEF Operations, Control, OnHandle
    <3>4. TypeInv'
      BY <1>t, <2>2, <3>3 DEF TypeInv
    <3>5. handle[h].position + op'.n <= handle[h].size
      <4> HIDE DEF m
      <4> QED
        BY <2>3, <3>1, <3>2, <3>3
    <3> QED
      BY <2>2, <3>1, <3>3, <3>4, <3>5 DEF HandleInv, OnHandle, Replacing, Appending
  <2>4. ~(handle[h].position >= handle[h].size) => handle[h].position < handle[h].size
    BY <2>3
  <2> QED
    BY <1>2, <2>1, <2>2, <2>4, Zenon DEF Read
<1>3. ASSUME NEW pos \in SeekPositions, Seek(h, pos) PROVE TypesKept
  <2>1. CASE Fails("seek", "INVALID_PATH") \/ Fails("seek", "END_OF_CHAIN")
    BY <1>f, <2>1
  <2>2. CASE /\ handle' = Moved(h, handle[h].start, 0)
             /\ op' = Idle /\ UNCHANGED <<fat, dir>>
    <3>1. handle' \in [Handles -> FileHandle]
      <4>1. handle[h].start \in Word /\ 0 \in 0 .. MaxSize
        BY <1>t, Constants DEF FileHandle, Word, FREE
      <4> QED
        BY <1>t, <2>2, <4>1, MovedTyped
    <3> QED
      BY <1>0, <2>2, <3>1
  <2>3. CASE /\ pos <= handle[h].size
             /\ \E c \in SeekReach(h)[pos \div ClusterBytes] :
                   /\ handle' = Moved(h, c, pos)
                   /\ op' = Idle /\ UNCHANGED <<fat, dir>>
    <3>1. pos \in 0 .. MaxSize /\ pos \in Nat
      BY <1>t, <2>3, FatAssumption, Constants DEF FileHandle
    <3>2. pos \div ClusterBytes \in 0 .. MaxSize
      <4> DEFINE q == pos \div ClusterBytes
      <4>1. q \in 0 .. pos
        BY <3>1, Constants, Quotient
      <4> HIDE DEF q
      <4>2. q \in 0 .. MaxSize
        BY <3>1, <4>1, Constants
      <4> QED
        BY <4>2 DEF q
    <3>3. SeekReach(h)[pos \div ClusterBytes] \subseteq Word
      BY <1>t, <3>2, ReachTyped
    <3>4. PICK c \in Word :
                   /\ handle' = Moved(h, c, pos)
                   /\ op' = Idle /\ UNCHANGED <<fat, dir>>
      BY <2>3, <3>3
    <3>5. handle' \in [Handles -> FileHandle]
      BY <1>t, <3>1, <3>4, MovedTyped DEF TypeInv
    <3> QED
      BY <1>0, <3>4, <3>5
  <2>4. handle[h].size \in Nat /\ pos \in Nat
    BY <1>t, FatAssumption, Constants DEF FileHandle
  <2> QED
    BY <1>3, <2>1, <2>2, <2>3, <2>4 DEF Seek, Return
<1>4. CASE Close(h)
  <2>1. handle' \in [Handles -> FileHandle]
    BY <1>4, <1>t DEF Close, TypeInv, FileHandle
  <2> QED
    BY <1>0, <1>4, <2>1 DEF Close, Return
<1>5. CASE WriteHangs(h)
  <2>1. op' \in Operations /\ op'.pc = "lost"
    BY <1>5 DEF WriteHangs, Idle, Operations, Control
  <2> QED
    BY <1>5, <1>t, <2>1
    DEF WriteHangs, TypeInv, HandleInv, OnHandle, Replacing, Appending
<1>6. CASE WriteNoBuffer(h)
  BY <1>6, <1>f DEF WriteNoBuffer
<1> QED
  BY <1>1, <1>2, <1>3, <1>4, <1>5, <1>6

(* Calls that return at once, the table and the handles as they were.       *)
LEMMA IdleTypes ==
    ASSUME Inv, op' = Idle, fat' = fat, Fewer(dir, dir'), handle' = handle
    PROVE  TypesKept
BY IdleTyped
DEF Inv, TypesKept, TypeInv, HandleInv, Fewer, OnHandle, Replacing, Appending

LEMMA DirectoryTypes ==
    ASSUME Inv,
           \/ \E h \in Handles : DeleteFile(h) \/ WriteInsert(h)
           \/ \E n \in Names : DeleteDirectory(n)
           \/ EntryStep
    PROVE  TypesKept /\ fat' = fat /\ Fewer(dir, dir') /\ handle' = handle /\ op' = Idle
<1>t. /\ dir \in [Slot -> Entry] /\ handle \in [Handles -> FileHandle] /\ op \in Operations
      /\ TypeInv
  BY DEF Inv, TypeInv
<1>0. Fewer(dir, dir)
  BY <1>t DEF Fewer
<1>1. ASSUME NEW h \in Handles, DeleteFile(h)
      PROVE  fat' = fat /\ Fewer(dir, dir') /\ handle' = handle /\ op' = Idle
  <2>1. fat' = fat /\ handle' = handle /\ op' = Idle
    BY <1>1 DEF DeleteFile, Return, Fails
  <2>2. dir' = dir \/ \E p \in Slot : dir' = MarkAfter(p)
    BY <1>1, Zenon DEF DeleteFile, Return, Fails
  <2> QED
    BY <1>0, <1>t, <2>1, <2>2, FewerMark
<1>2. ASSUME NEW h \in Handles, WriteInsert(h)
      PROVE  fat' = fat /\ Fewer(dir, dir') /\ handle' = handle /\ op' = Idle
  <2>1. fat' = fat /\ handle' = handle /\ op' = Idle
    BY <1>2 DEF WriteInsert, Return
  <2>2. \/ dir' = dir
        \/ \E p \in Slot : dir' = PutEntry(p, [dir[p] EXCEPT !.size = handle[h].size])
    BY <1>2, Zenon DEF WriteInsert, PutsEntry
  <2>3. handle[h].size \in 0 .. MaxSize
    BY <1>t DEF FileHandle
  <2> QED
    BY <1>t, <1>0, <2>1, <2>2, <2>3, FewerPut
<1>3. ASSUME NEW n \in Names, DeleteDirectory(n)
      PROVE  fat' = fat /\ Fewer(dir, dir') /\ handle' = handle /\ op' = Idle
  <2>1. fat' = fat /\ handle' = handle /\ op' = Idle
    BY <1>3 DEF DeleteDirectory, Return
  <2>2. PICK p \in Slot : dir' = MarkAfter(p)
    BY <1>3, Zenon DEF DeleteDirectory
  <2> QED
    BY <1>t, <2>1, <2>2, FewerMark
<1>4. ASSUME EntryStep
      PROVE  fat' = fat /\ Fewer(dir, dir') /\ handle' = handle /\ op' = Idle
  <2>1. fat' = fat /\ handle' = handle /\ op' = Idle
    BY <1>4 DEF EntryStep, Return
  <2>2. op.h \in Handles /\ op.slot \in Slot
    BY <1>4, <1>t DEF EntryStep, Inv, HandleInv, OnHandle, Operations
  <2>3. handle[op.h].size \in 0 .. MaxSize
    BY <1>t, <2>2 DEF FileHandle
  <2>4. \/ dir' = dir
        \/ dir' = PutEntry(op.slot, [dir[op.slot] EXCEPT !.size = handle[op.h].size])
    BY <1>4 DEF EntryStep, PutsEntry
  <2> QED
    BY <1>t, <1>0, <2>1, <2>2, <2>3, <2>4, FewerPut
<1>5. fat' = fat /\ Fewer(dir, dir') /\ handle' = handle /\ op' = Idle
  BY <1>1, <1>2, <1>3, <1>4
<1> QED
  BY <1>5, IdleTypes

LEMMA ReadTypes ==
    ASSUME Inv, ReadStep
    PROVE  TypesKept
<1> DEFINE h == op.h
           m == LeastOf(op.n, ClusterBytes - (handle[h].position % ClusterBytes))
           pos == handle[h].position + m
<1>1. /\ TypeInv /\ fat \in Table /\ dir \in [Slot -> Entry]
      /\ handle \in [Handles -> FileHandle] /\ op \in Operations
  BY DEF Inv, TypeInv
<1>2. op.pc = "read" /\ h \in Handles /\ handle[h].position + op.n <= handle[h].size
  BY DEF ReadStep, Inv, HandleInv, OnHandle
<1>3. handle[h].valid
  BY <1>2, Zenon DEF Inv, HandleInv, OnHandle
<1>4. handle[h].position \in Nat /\ handle[h].size \in 0 .. MaxSize /\ op.n \in Nat
  BY <1>1, <1>2, Constants DEF FileHandle, Operations
<1>5. m \in 0 .. op.n
  BY <1>4, TurnTyped
<1>6. CASE Return("read", "SUCCESS") /\ UNCHANGED <<fat, dir, handle>>
  BY <1>1, <1>6, IdleTypes DEF Return, Fewer
<1>7. CASE Fails("read", "OUT_OF_MEMORY")
  BY <1>1, <1>7, IdleTypes DEF Return, Fewer, Fails
<1>8. CASE \E c \in Word :
              /\ handle' = Moved(h, c, pos)
              /\ op' = [op EXCEPT !.n = op.n - m]
              /\ UNCHANGED <<fat, dir, ret>>
  <2>1. PICK c \in Word :
              /\ handle' = Moved(h, c, pos)
              /\ op' = [op EXCEPT !.n = op.n - m]
              /\ UNCHANGED <<fat, dir, ret>>
    BY <1>8
  <2> HIDE DEF m
  <2>2. pos \in 0 .. MaxSize /\ op.n - m \in Nat /\ pos + (op.n - m) <= handle[h].size
    BY <1>2, <1>4, <1>5, Constants
  <2> HIDE DEF pos
  <2>3. /\ handle' \in [Handles -> FileHandle] /\ handle'[h].position = pos
        /\ handle'[h].size = handle[h].size
    BY <1>1, <1>2, <2>1, <2>2, MovedTyped
  <2>4. handle'[h].valid
    <3>1. handle'[h].valid = handle[h].valid
      BY <1>1, <1>2, <2>1, <2>2, MovedTyped
    <3> QED
      BY <1>3, <3>1
  <2>5. op' \in Operations /\ op'.h = h /\ op'.n = op.n - m /\ op'.pc = "read"
    BY <1>1, <1>2, <2>1, <2>2 DEF Operations
  <2>6. TypeInv'
    BY <1>1, <2>1, <2>3, <2>5 DEF TypeInv
  <2>7. HandleInv'
    <3>1. op'.pc \notin Replacing \cup Appending /\ op'.h \in Handles
      BY <1>2, <2>5 DEF Replacing, Appending
    <3>2. handle'[op'.h].position + op'.n <= handle'[op'.h].size
      BY <2>2, <2>3, <2>5
    <3>3. handle'[op'.h].valid
      BY <2>4, <2>5
    <3> QED
      BY <3>1, <3>2, <3>3 DEF HandleInv
  <2> QED
    BY <2>6, <2>7 DEF TypesKept
<1>9. \A c \in IF Follows(pos, m) THEN NextOf(handle[h].cluster)
                ELSE {handle[h].cluster} : c \in Word
  BY <1>1, <1>2 DEF NextOf, FileHandle, Table
<1> QED
  BY <1>6, <1>7, <1>8, <1>9, Zenon DEF ReadStep

LEMMA WriteTypes ==
    ASSUME Inv, NEW h \in Handles, NEW n \in WriteSizes, Write(h, n)
    PROVE  TypesKept /\ op'.h = h /\ op'.n = n
<1> DEFINE start == handle[h].start
           have == ChainLength(start)
           need == ClustersNeeded(n)
<1>1. /\ TypeInv /\ handle[h] \in FileHandle /\ op \in Operations
      /\ fat \in Table /\ n \in Nat
  BY FatAssumption DEF Inv, TypeInv
<1>2. /\ handle[h].valid
  BY Zenon DEF Write
<1>3. handle[h].size + n <= MaxSize
  BY Zenon DEF Write
<1>4. /\ have \in 1 .. NumClusters /\ need \in Nat \ {0}
      /\ \A i \in 1 .. have : Walk(start)[i - 1] \in Cluster
  BY <1>1, <1>2, WriteCounts
<1>5. UNCHANGED <<fat, dir, handle>>
  BY DEF Write
<1> HIDE DEF have, need, start
<1>6. PICK p \in Slot :
          LET begin == [Idle EXCEPT !.h = h, !.n = n, !.slot = p]
          IN op' = IF have > need
                   THEN [begin EXCEPT !.pc = "cut", !.cur = Walk(start)[need - 1]]
                   ELSE IF have < need
                   THEN [begin EXCEPT !.pc = "grow", !.cur = Walk(start)[have - 1],
                                      !.k = need - have]
                   ELSE [begin EXCEPT !.pc = "store"]
  BY Zenon DEF Write, have, need, start
<1> DEFINE begin == [Idle EXCEPT !.h = h, !.n = n, !.slot = p]
<1>7. begin \in Operations /\ begin.h = h /\ begin.n = n
  BY <1>1, IdleTyped DEF Operations
<1>8. \A c \in Cluster : c \in Word
  BY DEF Word
<1>9. op' \in Operations /\ op'.h = h /\ op'.n = n /\ op'.pc \in {"cut", "grow", "store"}
  <2> HIDE DEF begin
  <2>1. CASE have > need
    <3>1. op' = [begin EXCEPT !.pc = "cut", !.cur = Walk(start)[need - 1]]
      BY <1>6, <2>1, Zenon DEF begin
    <3>2. Walk(start)[need - 1] \in Word
      BY <1>4, <1>8, <2>1, Constants
    <3> QED
      BY <1>7, <3>1, <3>2 DEF Operations, Control, OnHandle, Replacing
  <2>2. CASE have < need
    <3>0. ~(have > need)
      BY <1>4, <2>2, Constants
    <3>1. op' = [begin EXCEPT !.pc = "grow", !.cur = Walk(start)[have - 1], !.k = need - have]
      BY <1>6, <2>2, <3>0, Zenon DEF begin
    <3>2. Walk(start)[have - 1] \in Word /\ need - have \in Int
      BY <1>4, <1>8, <2>2, Constants
    <3> QED
      BY <1>7, <3>1, <3>2 DEF Operations, Control, OnHandle, Replacing
  <2>3. CASE have = need
    <3>0. ~(have > need) /\ ~(have < need)
      BY <1>4, <2>3, Constants
    <3>1. op' = [begin EXCEPT !.pc = "store"]
      BY <1>6, <3>0, Zenon DEF begin
    <3> QED
      BY <1>7, <3>1 DEF Operations, Control, OnHandle, Replacing
  <2> QED
    BY <1>4, <2>1, <2>2, <2>3, Constants
<1>10. TypeInv'
  BY <1>1, <1>5, <1>9 DEF TypeInv
<1>11. HandleInv'
  <2>1. op'.pc # "read" /\ op'.h \in Handles
    BY <1>9
  <2>2. handle'[op'.h].valid
    BY <1>2, <1>5, <1>9
  <2>3. handle'[op'.h].size + op'.n <= MaxSize
    BY <1>3, <1>5, <1>9
  <2> QED
    BY <2>1, <2>2, <2>3 DEF HandleInv
<1> QED
  BY <1>9, <1>10, <1>11 DEF TypesKept

LEMMA AppendTypes ==
    ASSUME Inv, NEW h \in Handles, NEW n \in WriteSizes, Append(h, n)
    PROVE  TypesKept
<1> DEFINE m == LeastOf(n, ClusterBytes - (handle[h].size % ClusterBytes))
<1>1. /\ TypeInv /\ handle[h] \in FileHandle /\ handle \in [Handles -> FileHandle]
      /\ op \in Operations /\ n \in Nat /\ handle[h].size \in Nat
      /\ dir \in [Slot -> Entry]
  BY FatAssumption, Constants DEF Inv, TypeInv, FileHandle
<1>2. /\ handle[h].valid
  BY Zenon DEF Append
<1>3. handle[h].size + n <= MaxSize
  BY Zenon DEF Append
<1>4. m \in 0 .. n
  BY <1>1, TurnTyped
<1> HIDE DEF m
<1>5. CASE Fails("write", "OUT_OF_MEMORY")
  BY <1>1, <1>5, IdleTypes DEF Return, Fewer, Fails
<1>6. CASE \E p \in Slot :
              /\ handle' = [handle EXCEPT ![h].size = handle[h].size + m]
              /\ op' = [Idle EXCEPT !.h = h, !.n = n - m, !.slot = p,
                          !.pc = IF n > m THEN "append" ELSE "entry"]
              /\ UNCHANGED <<fat, dir, ret>>
  <2>1. PICK p \in Slot :
              /\ handle' = [handle EXCEPT ![h].size = handle[h].size + m]
              /\ op' = [Idle EXCEPT !.h = h, !.n = n - m, !.slot = p,
                          !.pc = IF n > m THEN "append" ELSE "entry"]
              /\ UNCHANGED <<fat, dir, ret>>
    BY <1>6
  <2> DEFINE z == handle[h].size + m   r == n - m
  <2>2. z \in 0 .. MaxSize /\ r \in Nat /\ z + r <= MaxSize
    BY <1>1, <1>3, <1>4, Constants
  <2> HIDE DEF z, r
  <2>3. /\ handle' \in [Handles -> FileHandle] /\ handle'[h].size = z
        /\ handle'[h].valid = handle[h].valid
    <3>1. handle' = [handle EXCEPT ![h].size = z]
      BY <2>1 DEF z
    <3> QED
      BY <1>1, <2>2, <3>1 DEF FileHandle
  <2>4. op' \in Operations /\ op'.h = h /\ op'.n = r /\ op'.pc \in {"append", "entry"}
    <3> DEFINE pc == IF n > m THEN "append" ELSE "entry"
    <3>1. pc \in {"append", "entry"}
      OBVIOUS
    <3> HIDE DEF pc
    <3>2. op' = [Idle EXCEPT !.h = h, !.n = r, !.slot = p, !.pc = pc]
      BY <2>1 DEF r, pc
    <3> QED
      BY <2>2, <3>1, <3>2, IdleTyped DEF Operations, Control, OnHandle, Appending
  <2>5. TypeInv'
    BY <1>1, <2>1, <2>3, <2>4 DEF TypeInv
  <2>6. HandleInv'
    <3>1. handle'[op'.h].valid
      BY <1>2, <2>3, <2>4
    <3>2. op'.h \in Handles /\ op'.pc # "read" /\ handle'[op'.h].size + op'.n <= MaxSize
      BY <2>2, <2>3, <2>4
    <3> QED
      BY <3>1, <3>2 DEF HandleInv
  <2> QED
    BY <2>5, <2>6 DEF TypesKept
<1> QED
  BY <1>5, <1>6, Zenon DEF Append, m

(* The steps of write. *)
LEMMA WriteStepTypes ==
    ASSUME Inv, CutStep \/ FreeStep \/ GrowStep \/ GrowLinkStep \/ StoreStep \/ AppendLinkStep
    PROVE  TypesKept
<1>1. /\ TypeInv /\ handle \in [Handles -> FileHandle] /\ op \in Operations
      /\ dir \in [Slot -> Entry] /\ fat \in Table
  BY DEF Inv, TypeInv
<1>2. op.pc \in Replacing \cup Appending /\ op.h \in Handles
  BY DEF CutStep, FreeStep, GrowStep, GrowLinkStep, StoreStep, AppendLinkStep,
         Replacing, Appending, Inv, HandleInv, OnHandle
<1>3. handle[op.h].valid
  BY <1>2, Zenon DEF Inv, HandleInv, OnHandle
<1>4. handle[op.h].size + op.n <= MaxSize /\ handle[op.h].size \in Nat /\ op.n \in Nat
  BY <1>1, <1>2, Constants DEF Inv, HandleInv, FileHandle, Operations
<1>a. ASSUME op' \in Operations, op'.pc \in Replacing \cup Appending,
             op'.h = op.h, op'.n = op.n, UNCHANGED <<dir, handle>>, fat' \in Table
      PROVE  TypesKept
  <2>1. TypeInv'
    BY <1>1, <1>a DEF TypeInv
  <2>2. handle'[op'.h].valid
    BY <1>3, <1>a
  <2>3. op'.h \in Handles /\ op'.pc # "read" /\ handle'[op'.h].size + op'.n <= MaxSize
    BY <1>2, <1>4, <1>a DEF Replacing, Appending
  <2>4. HandleInv'
    BY <2>2, <2>3 DEF HandleInv
  <2> QED
    BY <2>1, <2>4 DEF TypesKept
<1>5. CASE CutStep
  <2>1. fat[op.cur] \in Word /\ op.pc = "cut"
    BY <1>5, CurTyped DEF CutStep
  <2>2. /\ op' \in Operations /\ op'.pc \in Replacing /\ op'.h = op.h /\ op'.n = op.n
    BY <1>1, <1>5, <2>1 DEF CutStep, Operations, Control, OnHandle, Replacing
  <2>3. fat' \in Table /\ UNCHANGED <<dir, handle>>
    BY <1>1, <1>5 DEF CutStep, Table, Word
  <2> QED
    BY <1>a, <2>2, <2>3
<1>6. CASE FreeStep
  <2>1. CASE IsEnd(op.cur)
    <3>1. /\ op' = [op EXCEPT !.pc = "store"] /\ fat' = fat /\ UNCHANGED <<dir, handle>>
      BY <1>6, <2>1 DEF FreeStep
    <3>2. /\ op' \in Operations /\ op'.pc \in Replacing /\ op'.h = op.h /\ op'.n = op.n
      BY <1>1, <3>1 DEF Operations, Control, OnHandle, Replacing
    <3> QED
      BY <1>1, <1>a, <3>1, <3>2
  <2>2. CASE ~IsEnd(op.cur)
    <3>1. /\ op' = [op EXCEPT !.cur = fat[op.cur]] /\ UNCHANGED <<dir, handle>>
          /\ fat' = fat \/ fat' = [fat EXCEPT ![op.cur] = FREE]
          /\ op.pc = "free"
      BY <1>6, <2>2 DEF FreeStep
    <3>2. op.cur \in Cluster /\ fat[op.cur] \in Word
      BY <2>2, <3>1, CurTyped DEF IsEnd, Word
    <3>3. /\ op' \in Operations /\ op'.pc \in Replacing /\ op'.h = op.h /\ op'.n = op.n
      BY <1>1, <3>1, <3>2 DEF Operations, Replacing
    <3>4. fat' \in Table
      BY <1>1, <3>1 DEF Table, Word
    <3> QED
      BY <1>a, <3>1, <3>3, <3>4
  <2> QED
    BY <2>1, <2>2
<1>7. CASE GrowStep
  <2>1. CASE Fails("write", "DISK_FULL")
    BY <1>1, <2>1, IdleTypes DEF Return, Fewer, Fails
  <2>2. CASE \E c \in Cluster :
               /\ fat' = [fat EXCEPT ![c] = EOC]
               /\ op' = [op EXCEPT !.new = c,
                           !.pc = IF op.pc = "grow" THEN "growLink" ELSE "appendLink"]
               /\ UNCHANGED <<dir, handle, ret>>
    <3>1. PICK c \in Cluster :
               /\ fat' = [fat EXCEPT ![c] = EOC]
               /\ op' = [op EXCEPT !.new = c,
                           !.pc = IF op.pc = "grow" THEN "growLink" ELSE "appendLink"]
               /\ UNCHANGED <<dir, handle, ret>>
      BY <2>2
    <3>2. /\ op' \in Operations /\ op'.pc \in Replacing \cup Appending
          /\ op'.h = op.h /\ op'.n = op.n
      BY <1>1, <3>1 DEF Operations, Control, OnHandle, Replacing, Appending
    <3>3. fat' \in Table
      BY <1>1, <3>1 DEF Table, Word
    <3> QED
      BY <1>a, <3>1, <3>2, <3>3
  <2> QED
    BY <1>7, <2>1, <2>2 DEF GrowStep
<1>8. CASE GrowLinkStep
  <2>1. op.pc = "growLink" /\ op.new \in Cluster
    BY <1>8 DEF GrowLinkStep, Inv, ChainInv, Linking
  <2>2. fat' \in Table
    BY <1>1, <1>8, <2>1 DEF GrowLinkStep, Link, Table, Word
  <2> DEFINE pc == IF op.k = 1 THEN "store" ELSE "grow"
  <2>3. pc \in Replacing
    BY DEF Replacing
  <2> HIDE DEF pc
  <2>4. op' = [op EXCEPT !.cur = op.new, !.k = op.k - 1, !.pc = pc]
    BY <1>8 DEF GrowLinkStep, pc
  <2>5. /\ op' \in Operations /\ op'.pc \in Replacing /\ op'.h = op.h /\ op'.n = op.n
    <3> DEFINE k == op.k - 1
    <3>1. k \in Int /\ op.new \in Word /\ pc \in Control
      BY <1>1, <2>1, <2>3 DEF Operations, Control, OnHandle, Word
    <3> HIDE DEF k
    <3>2. op' = [op EXCEPT !.cur = op.new, !.k = k, !.pc = pc]
      BY <2>4 DEF k
    <3> QED
      BY <1>1, <2>3, <3>1, <3>2 DEF Operations
  <2>6. UNCHANGED <<dir, handle>>
    BY <1>8 DEF GrowLinkStep
  <2> QED
    BY <1>a, <2>2, <2>5, <2>6
<1>9. CASE StoreStep
  <2> DEFINE h == op.h   z == handle[h].size + op.n
             f == [handle[h] EXCEPT !.size = z, !.cluster = handle[h].start, !.position = 0]
  <2>1. z \in 0 .. MaxSize /\ handle[h] \in FileHandle
    BY <1>1, <1>2, <1>4, Constants
  <2> HIDE DEF z
  <2>2. f \in FileHandle /\ f.valid = handle[h].valid
    <3>1. handle[h].start \in Word /\ 0 \in 0 .. MaxSize
      BY <2>1, Constants DEF FileHandle, Word, FREE
    <3> HIDE DEF h
    <3> QED
      BY <2>1, <3>1 DEF FileHandle
  <2> HIDE DEF f
  <2>3. handle' = [handle EXCEPT ![h] = f]
    BY <1>9 DEF StoreStep, f, z
  <2>4. handle' \in [Handles -> FileHandle] /\ handle'[h].valid
    <3>1. handle' \in [Handles -> FileHandle] /\ handle'[h] = f
      BY <1>1, <1>2, <2>2, <2>3
    <3>2. handle'[h].valid = handle[h].valid
      BY <2>2, <3>1
    <3> QED
      BY <1>3, <3>1, <3>2
  <2>5. op' \in Operations /\ op'.pc = "entry" /\ op'.h = h
    BY <1>1, <1>9 DEF StoreStep, Operations, Control, OnHandle
  <2>6. TypeInv'
    BY <1>1, <1>9, <2>4, <2>5 DEF TypeInv, StoreStep
  <2>7. HandleInv'
    <3>1. handle'[op'.h].valid
      BY <2>4, <2>5
    <3> QED
      BY <1>2, <2>5, <3>1 DEF HandleInv, Replacing, Appending
  <2> QED
    BY <2>6, <2>7 DEF TypesKept
<1>10. CASE AppendLinkStep
  <2> DEFINE h == op.h   m == LeastOf(op.n, ClusterBytes)
             z == handle[h].size + m   r == op.n - m
             f == [handle[h] EXCEPT !.cluster = op.new, !.size = z]
             pc == IF op.n > m THEN "append" ELSE "entry"
  <2>1. m \in 0 .. op.n /\ handle[h] \in FileHandle
    BY <1>1, <1>2, <1>4, TurnTyped
  <2> HIDE DEF m
  <2>2. z \in 0 .. MaxSize /\ r \in Nat /\ z + r <= MaxSize
    BY <1>4, <2>1, Constants
  <2>3. pc \in {"append", "entry"} /\ op.pc = "appendLink" /\ op.new \in Cluster
    BY <1>10 DEF AppendLinkStep, Inv, ChainInv, Linking
  <2> HIDE DEF z, r, pc
  <2>4. f \in FileHandle /\ f.valid = handle[h].valid /\ f.size = z
    BY <2>1, <2>2, <2>3 DEF FileHandle, Word
  <2> HIDE DEF f
  <2>5. /\ handle' = [handle EXCEPT ![h] = f] /\ UNCHANGED dir
        /\ op' = [op EXCEPT !.n = r, !.pc = pc]
        /\ fat' = Link(handle[h].cluster, op.new)
    BY <1>10 DEF AppendLinkStep, f, z, m, r, pc
  <2>6. /\ handle' \in [Handles -> FileHandle] /\ handle'[h] = f
        /\ op' \in Operations /\ op'.pc = pc /\ op'.h = h /\ op'.n = r
    BY <1>1, <1>2, <2>2, <2>3, <2>4, <2>5 DEF Operations, Control, OnHandle, Appending
  <2>7. fat' \in Table
    BY <1>1, <2>3, <2>5 DEF Link, Table, Word
  <2>8. TypeInv'
    BY <1>1, <2>5, <2>6, <2>7 DEF TypeInv
  <2>9. HandleInv'
    <3>1. handle'[op'.h].valid
      BY <1>3, <2>4, <2>6
    <3>2. op'.h \in Handles /\ op'.pc # "read" /\ handle'[op'.h].size + op'.n <= MaxSize
      BY <1>2, <2>2, <2>3, <2>4, <2>6
    <3> QED
      BY <3>1, <3>2 DEF HandleInv
  <2> QED
    BY <2>8, <2>9 DEF TypesKept
<1> QED
  BY <1>5, <1>6, <1>7, <1>8, <1>9, <1>10

LEMMA MakeTypes ==
    ASSUME Inv,
           \/ \E n \in Names, isDir \in Kinds, d \in 1 .. RootClusters : Make(n, isDir, d)
           \/ CreateStep \/ ExtendStep \/ SelfLinkStep
    PROVE  TypesKept
<1>1. /\ TypeInv /\ handle \in [Handles -> FileHandle] /\ op \in Operations
      /\ dir \in [Slot -> Entry] /\ fat \in Table
  BY DEF Inv, TypeInv
<1>a. ASSUME op' \in Operations, op'.pc \notin OnHandle, handle' = handle,
             fat' \in Table, dir' \in [Slot -> Entry]
      PROVE  TypesKept
  BY <1>1, <1>a DEF TypesKept, TypeInv, HandleInv, OnHandle
<1>b. ASSUME op' = Idle, handle' = handle, fat' \in Table, dir' \in [Slot -> Entry]
      PROVE  TypesKept
  BY <1>a, <1>b, IdleTyped DEF OnHandle, Replacing, Appending
<1>2. ASSUME NEW n \in Names, NEW isDir \in Kinds, NEW d \in 1 .. RootClusters,
             Make(n, isDir, d)
      PROVE  TypesKept
  <2>1. CASE \E call, err : Fails(call, err)
    BY <1>1, <1>b, <2>1 DEF Fails, Return
  <2>2. CASE \E c \in Cluster :
               /\ fat' = [fat EXCEPT ![c] = EOC]
               /\ op' = [Idle EXCEPT !.pc = "create", !.name = n.base, !.new = c,
                                     !.isDir = isDir, !.parent = d]
               /\ UNCHANGED <<dir, handle, ret>>
    <3>1. PICK c \in Cluster :
               /\ fat' = [fat EXCEPT ![c] = EOC]
               /\ op' = [Idle EXCEPT !.pc = "create", !.name = n.base, !.new = c,
                                     !.isDir = isDir, !.parent = d]
               /\ UNCHANGED <<dir, handle, ret>>
      BY <2>2
    <3>2. n.base \in Base /\ isDir \in BOOLEAN
      BY FatAssumption DEF Base
    <3>3. op' \in Operations /\ op'.pc = "create"
      BY <3>1, <3>2, IdleTyped DEF Operations, Control, Linking
    <3>4. fat' \in Table
      BY <1>1, <3>1 DEF Table, Word
    <3> QED
      BY <1>1, <1>a, <3>1, <3>3, <3>4 DEF OnHandle, Replacing, Appending
  <2> QED
    BY <1>2, <2>1, <2>2, Zenon DEF Make
<1>3. CASE CreateStep
  <2>1. op.pc = "create" /\ op.new \in Cluster /\ op.name \in Base
    BY <1>3 DEF CreateStep, Inv, ChainInv, EntryInv, Linking
  <2>2. CASE op' = Idle /\ dir' = dir
    BY <1>1, <1>3, <1>b, <2>2 DEF CreateStep
  <2>3. CASE \E p \in Slot :
               /\ dir' = [dir EXCEPT ![p] = [name |-> op.name, isDir |-> op.isDir,
                                             first |-> op.new, size |-> 0]]
               /\ op' = Idle
    <3>1. [name |-> op.name, isDir |-> op.isDir, first |-> op.new, size |-> 0] \in Entry
      BY <1>1, <2>1, Constants DEF Operations, Entry
    <3>2. dir' \in [Slot -> Entry]
      BY <1>1, <2>3, <3>1
    <3> QED
      BY <1>1, <1>3, <1>b, <2>3, <3>2 DEF CreateStep
  <2>4. CASE op' = [op EXCEPT !.pc = "extend"] /\ dir' = dir
    <3>1. op' \in Operations /\ op'.pc = "extend"
      BY <1>1, <2>4 DEF Operations, Control
    <3> QED
      BY <1>1, <1>3, <1>a, <2>4, <3>1 DEF CreateStep, OnHandle, Replacing, Appending
  <2> QED
    BY <1>3, <2>2, <2>3, <2>4, Zenon DEF CreateStep, Return
<1>4. CASE ExtendStep
  <2>1. CASE \E call, err : Fails(call, err)
    BY <1>1, <1>b, <2>1 DEF Fails, Return
  <2>2. CASE \E c \in Cluster :
               /\ fat' = [fat EXCEPT ![c] = EOC]
               /\ op' = [op EXCEPT !.pc = "selfLink", !.new = c]
               /\ UNCHANGED <<dir, handle, ret>>
    <3>1. PICK c \in Cluster :
               /\ fat' = [fat EXCEPT ![c] = EOC]
               /\ op' = [op EXCEPT !.pc = "selfLink", !.new = c]
               /\ UNCHANGED <<dir, handle, ret>>
      BY <2>2
    <3>2. op' \in Operations /\ op'.pc = "selfLink"
      BY <1>1, <3>1 DEF Operations, Control, Linking
    <3>3. fat' \in Table
      BY <1>1, <3>1 DEF Table, Word
    <3> QED
      BY <1>1, <1>a, <3>1, <3>2, <3>3 DEF OnHandle, Replacing, Appending
  <2> QED
    BY <1>4, <2>1, <2>2, Zenon DEF ExtendStep
<1>5. CASE SelfLinkStep
  <2>1. op.pc = "selfLink" /\ op.new \in Cluster
    BY <1>5 DEF SelfLinkStep, Inv, ChainInv, Linking
  <2>2. fat' \in Table /\ UNCHANGED <<dir, handle>>
    BY <1>1, <1>5, <2>1 DEF SelfLinkStep, Link, Table, Word
  <2>3. CASE op' = Idle
    BY <1>1, <1>b, <2>2, <2>3
  <2>4. CASE op' = [op EXCEPT !.pc = "circling"]
    <3>1. op' \in Operations /\ op'.pc = "circling"
      BY <1>1, <2>4 DEF Operations, Control
    <3> QED
      BY <1>1, <1>a, <2>2, <3>1 DEF OnHandle, Replacing, Appending
  <2> QED
    BY <1>5, <2>3, <2>4 DEF SelfLinkStep, Return
<1> QED
  BY <1>2, <1>3, <1>4, <1>5

LEMMA TypesNext ==
    ASSUME Inv, [Next]_vars
    PROVE  TypeInv' /\ HandleInv'
<1>1. CASE UNCHANGED vars
  BY <1>1 DEF vars, Inv, TypeInv, HandleInv
<1>2. CASE Crash
  <2>1. handle' \in [Handles -> FileHandle] /\ op' \in Operations /\ op'.pc = "idle"
    BY <1>2, IdleTyped DEF Crash
  <2> QED
    BY <1>2, <2>1 DEF Crash, Inv, TypeInv, HandleInv, OnHandle, Replacing, Appending
<1>3. CASE Step
  BY <1>3, ReadTypes, WriteStepTypes, DirectoryTypes, MakeTypes DEF Step, TypesKept
<1>4. CASE PathCall
  BY <1>4, DirectoryTypes, MakeTypes DEF PathCall, TypesKept
<1>5. ASSUME NEW h \in Handles, HandleCall(h) PROVE TypeInv' /\ HandleInv'
  <2>1. ASSUME NEW n \in WriteSizes, Write(h, n) \/ Append(h, n)
        PROVE  TypeInv' /\ HandleInv'
    BY <2>1, WriteTypes, AppendTypes DEF TypesKept
  <2>2. CASE DeleteFile(h) \/ WriteInsert(h)
    BY <2>2, DirectoryTypes DEF TypesKept
  <2>3. CASE \/ \E n \in Names : Open(h, n)
             \/ \E n \in ReadSizes : Read(h, n)
             \/ \E pos \in SeekPositions : Seek(h, pos)
             \/ Close(h) \/ WriteHangs(h) \/ WriteNoBuffer(h)
    BY <2>3, CallTypes DEF TypesKept
  <2> QED
    BY <1>5, <2>1, <2>2, <2>3, Zenon DEF HandleCall
<1> QED
  BY <1>1, <1>2, <1>3, <1>4, <1>5 DEF Next, Operation

-----------------------------------------------------------------------------
(* Starts of chains. *)

(* Only open, close and a reset change which handles are open, and on what. *)
LEMMA OpenKept ==
    ASSUME Inv, [Next]_vars, ~Crash,
           \A h \in Handles : ~Close(h) /\ \A n \in Names : ~Open(h, n)
    PROVE  \A g \in Handles : /\ handle'[g].valid = handle[g].valid
                              /\ handle'[g].start = handle[g].start
<1> DEFINE Kept == \A g \in Handles : /\ handle'[g].valid = handle[g].valid
                                      /\ handle'[g].start = handle[g].start
<1>1. /\ TypeInv /\ handle \in [Handles -> FileHandle]
  BY DEF Inv, TypeInv
<1>0. handle' = handle => Kept
  OBVIOUS
<1>2. CASE UNCHANGED vars
  BY <1>0, <1>2 DEF vars
<1>3. ASSUME NEW h \in Handles, NEW c, NEW pos, handle' = Moved(h, c, pos)
      PROVE  Kept
  <2> DEFINE f == [handle[h] EXCEPT !.cluster = c, !.position = pos]
  <2>1. f.valid = handle[h].valid /\ f.start = handle[h].start
    BY <1>1 DEF FileHandle
  <2> HIDE DEF f
  <2>2. handle' = [handle EXCEPT ![h] = f]
    BY <1>3 DEF Moved, f
  <2> QED
    BY <1>1, <2>1, <2>2
<1>4. CASE ReadStep
  <2>1. op.h \in Handles
    BY <1>4 DEF ReadStep, Inv, HandleInv, OnHandle
  <2>2. handle' = handle \/ \E c, pos : handle' = Moved(op.h, c, pos)
    BY <1>4, Zenon DEF ReadStep, Fails
  <2> QED
    BY <1>0, <1>3, <2>1, <2>2
<1>5. ASSUME NEW h \in Handles, NEW pos \in SeekPositions, Seek(h, pos) PROVE Kept
  <2>1. handle' = handle \/ \E c, q : handle' = Moved(h, c, q)
    BY <1>5, Zenon DEF Seek, Fails
  <2> QED
    BY <1>0, <1>3, <2>1
<1>6. ASSUME NEW h \in Handles, NEW n \in WriteSizes, Append(h, n) PROVE Kept
  <2>1. handle' = handle \/ \E z : handle' = [handle EXCEPT ![h].size = z]
    BY <1>6, Zenon DEF Append, Fails
  <2> QED
    BY <1>0, <1>1, <2>1 DEF FileHandle
<1>7. CASE StoreStep
  <2>1. op.h \in Handles
    BY <1>7 DEF StoreStep, Inv, HandleInv, OnHandle, Replacing
  <2> DEFINE h == op.h
             f == [handle[h] EXCEPT !.size = handle[h].size + op.n,
                                    !.cluster = handle[h].start, !.position = 0]
  <2>2. f.valid = handle[h].valid /\ f.start = handle[h].start
    BY <1>1, <2>1 DEF FileHandle
  <2> HIDE DEF f
  <2>3. handle' = [handle EXCEPT ![h] = f]
    BY <1>7 DEF StoreStep, f
  <2> QED
    BY <1>1, <2>1, <2>2, <2>3
<1>8. CASE AppendLinkStep
  <2>1. op.h \in Handles
    BY <1>8 DEF AppendLinkStep, Inv, HandleInv, OnHandle, Appending
  <2> DEFINE h == op.h
             f == [handle[h] EXCEPT !.cluster = op.new,
                                    !.size = handle[h].size + LeastOf(op.n, ClusterBytes)]
  <2>2. f.valid = handle[h].valid /\ f.start = handle[h].start
    BY <1>1, <2>1 DEF FileHandle
  <2> HIDE DEF f
  <2>3. handle' = [handle EXCEPT ![h] = f]
    BY <1>8 DEF AppendLinkStep, f
  <2> QED
    BY <1>1, <2>1, <2>2, <2>3
<1>9. CASE Step
  <2>1. CASE CutStep \/ FreeStep \/ GrowStep \/ GrowLinkStep \/ EntryStep \/ CreateStep
               \/ ExtendStep \/ SelfLinkStep
    <3>1. handle' = handle
      BY <2>1 DEF CutStep, FreeStep, GrowStep, GrowLinkStep, EntryStep, CreateStep,
                  ExtendStep, SelfLinkStep, Fails
    <3> QED
      BY <1>0, <3>1
  <2> QED
    BY <1>4, <1>7, <1>8, <1>9, <2>1 DEF Step
<1>10. CASE PathCall
  <2>1. handle' = handle
    BY <1>10, Zenon DEF PathCall, Make, DeleteDirectory, Fails
  <2> QED
    BY <1>0, <2>1
<1>11. ASSUME NEW h \in Handles, HandleCall(h) PROVE Kept
  <2>1. ASSUME NEW n \in WriteSizes, Write(h, n) PROVE handle' = handle
    BY <2>1 DEF Write
  <2>2. ASSUME NEW n \in ReadSizes, Read(h, n) PROVE handle' = handle
    BY <2>2, Zenon DEF Read, Fails
  <2>3. CASE DeleteFile(h) \/ WriteInsert(h) \/ WriteHangs(h) \/ WriteNoBuffer(h)
    <3>1. handle' = handle
      BY <2>3, Zenon DEF DeleteFile, WriteInsert, WriteHangs, WriteNoBuffer, Fails
    <3> QED
      BY <1>0, <3>1
  <2> QED
    BY <1>0, <1>5, <1>6, <1>11, <2>1, <2>2, <2>3, Zenon DEF HandleCall
<1> QED
  BY <1>2, <1>9, <1>10, <1>11, Zenon DEF Next, Operation

LEMMA HandlesNext ==
    ASSUME Inv, [Next]_vars, NEW h \in Handles, handle'[h].valid
    PROVE  handle'[h].start \in Starts /\ handle'[h].start \in Cluster
<1>1. handle \in [Handles -> FileHandle] /\ dir \in [Slot -> Entry]
  BY DEF Inv, TypeInv
<1>2. ASSUME handle'[h].valid = handle[h].valid, handle'[h].start = handle[h].start
      PROVE  handle'[h].start \in Starts /\ handle'[h].start \in Cluster
  <2>1. handle[h].valid
    BY <1>2
  <2> QED
    BY <1>2, <2>1, OpenStarts
<1>3. CASE Crash
  <2>1. handle'[h] = NoFile
    BY <1>3 DEF Crash
  <2> QED
    BY <2>1 DEF NoFile
<1>4. ASSUME NEW g \in Handles, Close(g)
      PROVE  handle'[h].start \in Starts /\ handle'[h].start \in Cluster
  <2>1. handle' = [handle EXCEPT ![g].valid = FALSE]
    BY <1>4 DEF Close
  <2>2. g # h => handle'[h] = handle[h]
    BY <1>1, <2>1
  <2>3. g = h => handle'[h].valid = FALSE
    BY <1>1, <2>1 DEF FileHandle
  <2>4. g # h
    BY <2>3
  <2>5. handle'[h].valid = handle[h].valid /\ handle'[h].start = handle[h].start
    BY <2>2, <2>4
  <2> QED
    BY <1>2, <2>5
<1>5. ASSUME NEW g \in Handles, NEW n \in Names, Open(g, n)
      PROVE  handle'[h].start \in Starts /\ handle'[h].start \in Cluster
  <2>1. CASE handle' = handle
    BY <1>2, <2>1
  <2>2. CASE \E p \in Slot :
               /\ FirstOf(Matches(n), p)
               /\ handle' = [handle EXCEPT ![g] =
                         [valid |-> TRUE, cluster |-> dir[p].first,
                          start |-> dir[p].first, parent |-> DirCluster(p),
                          position |-> 0, size |-> dir[p].size]]
    <3>1. PICK p \in Slot :
               /\ FirstOf(Matches(n), p)
               /\ handle' = [handle EXCEPT ![g] =
                         [valid |-> TRUE, cluster |-> dir[p].first,
                          start |-> dir[p].first, parent |-> DirCluster(p),
                          position |-> 0, size |-> dir[p].size]]
      BY <2>2
    <3>2. dir[p].first \in Cluster
      BY <3>1 DEF FirstOf, Matches, Listed, Inv, EntryInv
    <3>3. dir[p].first \in Starts
      BY <3>2, Constants DEF Starts, FREE
    <3>4. CASE g = h
      <4>1. handle'[h].start = dir[p].first
        BY <1>1, <3>1, <3>4
      <4> QED
        BY <3>2, <3>3, <4>1
    <3>5. CASE g # h
      <4>1. handle'[h] = handle[h]
        BY <1>1, <3>1, <3>5
      <4> QED
        BY <1>2, <4>1
    <3> QED
      BY <3>4, <3>5
  <2> QED
    BY <1>5, <2>1, <2>2, Zenon DEF Open, Fails
<1>6. CASE /\ ~Crash
           /\ \A g \in Handles : ~Close(g) /\ \A n \in Names : ~Open(g, n)
  BY <1>2, <1>6, OpenKept
<1> QED
  BY <1>3, <1>4, <1>5, <1>6

(* create_directory_entry is the only one to add an entry. *)
Enters(p) ==
    /\ op.pc = "create" /\ op' = Idle /\ UNCHANGED <<fat, handle>>
    /\ dir[p].name \in {END, DELETED}
    /\ dir' = [dir EXCEPT ![p] = [name |-> op.name, isDir |-> op.isDir,
                                  first |-> op.new, size |-> 0]]

LEMMA EntriesNext ==
    ASSUME Inv, [Next]_vars
    PROVE  Fewer(dir, dir') \/ \E p \in Slot : Enters(p)
<1>1. dir \in [Slot -> Entry]
  BY DEF Inv, TypeInv
<1>2. dir' = dir => Fewer(dir, dir')
  BY <1>1 DEF Fewer
<1>3. CASE UNCHANGED vars \/ Crash
  BY <1>2, <1>3 DEF vars, Crash
<1>4. CASE CreateStep
  <2>1. CASE dir' = dir
    BY <1>2, <2>1
  <2>2. CASE \E p \in Slot :
               /\ FirstOf(Vacant(op.parent), p)
               /\ dir' = [dir EXCEPT ![p] = [name |-> op.name, isDir |-> op.isDir,
                                             first |-> op.new, size |-> 0]]
               /\ op' = Idle
    BY <1>4, <2>2 DEF Enters, CreateStep, FirstOf, Vacant
  <2> QED
    BY <1>4, <2>1, <2>2, Zenon DEF CreateStep, Return
<1>5. CASE Step
  <2>1. CASE CutStep \/ FreeStep \/ GrowStep \/ GrowLinkStep \/ StoreStep \/ AppendLinkStep
               \/ ExtendStep \/ SelfLinkStep
    <3>1. dir' = dir
      BY <2>1 DEF CutStep, FreeStep, GrowStep, GrowLinkStep, StoreStep, AppendLinkStep,
                  ExtendStep, SelfLinkStep, Fails
    <3> QED
      BY <1>2, <3>1
  <2>2. CASE ReadStep
    <3>1. dir' = dir
      BY <2>2, Zenon DEF ReadStep, Fails
    <3> QED
      BY <1>2, <3>1
  <2> QED
    BY <1>4, <1>5, <2>1, <2>2, DirectoryTypes DEF Step
<1>6. CASE PathCall
  <2>1. ASSUME NEW n \in Names, NEW isDir \in Kinds, NEW d \in 1 .. RootClusters,
               Make(n, isDir, d)
        PROVE  dir' = dir
    BY <2>1, Zenon DEF Make, Fails
  <2> QED
    BY <1>2, <1>6, <2>1, DirectoryTypes DEF PathCall
<1>7. ASSUME NEW h \in Handles, HandleCall(h) PROVE Fewer(dir, dir')
  <2>1. ASSUME NEW n \in WriteSizes, Write(h, n) \/ Append(h, n) PROVE dir' = dir
    <3>1. Write(h, n) => dir' = dir
      BY DEF Write
    <3>2. Append(h, n) => dir' = dir
      BY Zenon DEF Append, Fails
    <3> QED
      BY <2>1, <3>1, <3>2
  <2>2. ASSUME NEW n \in ReadSizes, Read(h, n) PROVE dir' = dir
    BY <2>2, Zenon DEF Read, Fails
  <2>3. ASSUME NEW pos \in SeekPositions, Seek(h, pos) PROVE dir' = dir
    BY <2>3, Zenon DEF Seek, Fails
  <2>4. ASSUME NEW n \in Names, Open(h, n) PROVE dir' = dir
    BY <2>4, Zenon DEF Open, Fails
  <2>5. CASE Close(h) \/ WriteHangs(h) \/ WriteNoBuffer(h)
    <3>1. dir' = dir
      BY <2>5, Zenon DEF Close, WriteHangs, WriteNoBuffer, Fails
    <3> QED
      BY <1>2, <3>1
  <2>6. CASE DeleteFile(h) \/ WriteInsert(h)
    BY <2>6, DirectoryTypes
  <2> QED
    BY <1>2, <1>7, <2>1, <2>2, <2>3, <2>4, <2>5, <2>6, Zenon DEF HandleCall
<1> QED
  BY <1>3, <1>5, <1>6, <1>7, Zenon DEF Next, Operation

-----------------------------------------------------------------------------
(* The steps, by what they do to the table. *)

Quiet == {"idle", "lost", "circling", "read", "append", "entry", "extend"}

(* An iterator that starts with the directory gets to cluster d. *)
NoEndBefore(d) == \A q \in Slot : q < FirstSlot(d) => dir[q].name # END

Allocates(c) ==
    /\ c \in Cluster /\ fat[c] = FREE /\ fat' = [fat EXCEPT ![c] = EOC]
    /\ op'.new = c /\ op'.pc \in Linking /\ UNCHANGED <<dir, handle>>
    /\ op'.pc = "create" => op'.name \in Base /\ NoEndBefore(op'.parent)
    /\ op'.pc = "growLink" => op.pc = "grow" /\ op'.h = op.h /\ op'.n = op.n
                              /\ op'.k = op.k /\ op'.cur = op.cur

Rests == fat' = fat /\ op'.pc \in Quiet

LEMMA SlotStart == \A p \in Slot : FirstSlot(DirCluster(p)) <= p
<1> SUFFICES ASSUME NEW p \in Slot PROVE FirstSlot(DirCluster(p)) <= p
  OBVIOUS
<1> DEFINE a == p - 1   q == a \div ClusterSlots   r == a % ClusterSlots
<1>1. RootClusters * ClusterSlots \in Nat
  BY Constants
<1>2. a \in Nat
  BY <1>1 DEF Slot
<1>3. q \in 0 .. a /\ r \in 0 .. (ClusterSlots - 1) /\ a = ClusterSlots * q + r
  <2> HIDE DEF a
  <2> QED
    BY <1>2, Constants, Quotient
<1>4. FirstSlot(DirCluster(p)) = ((q + 1) - 1) * ClusterSlots + 1
  BY DEF FirstSlot, DirCluster
<1>5. p = a + 1 /\ p \in Int
  BY DEF Slot
<1> HIDE DEF a, q, r
<1>6. ((q + 1) - 1) * ClusterSlots = ClusterSlots * q
  BY <1>2, <1>3, Constants
<1>7. ClusterSlots * q \in Int
  BY <1>2, <1>3, Constants
<1> QED
  BY <1>2, <1>3, <1>4, <1>5, <1>6, <1>7, Constants

LEMMA FirstSlots == FirstSlot(1) = 1 /\ \A d \in 1 .. RootClusters : FirstSlot(d) \in Nat \ {0}
<1>1. FirstSlot(1) = 1
  BY Constants DEF FirstSlot
<1>2. ASSUME NEW d \in 1 .. RootClusters PROVE FirstSlot(d) \in Nat \ {0}
  <2>1. d - 1 \in Nat
    BY Constants
  <2>2. (d - 1) * ClusterSlots \in Nat
    BY <2>1, Constants
  <2> QED
    BY <2>2 DEF FirstSlot
<1> QED
  BY <1>1, <1>2

LEMMA ListedReached ==
    ASSUME NEW d \in 1 .. RootClusters,
           d = 1 \/ \E p \in Listed(1) : DirCluster(p) = d
    PROVE  NoEndBefore(d)
<1> SUFFICES ASSUME NEW q \in Slot, q < FirstSlot(d) PROVE dir[q].name # END
  BY DEF NoEndBefore
<1>1. q \in Nat /\ q >= 1
  BY DEF Slot
<1>2. CASE d = 1
  BY <1>1, <1>2, FirstSlots
<1>3. CASE \E p \in Listed(1) : DirCluster(p) = d
  <2>1. PICK p \in Listed(1) : DirCluster(p) = d
    BY <1>3
  <2>2. p \in Slot /\ p \in Nat /\ \A r \in 1 .. p : dir[r].name # END
    BY <2>1, FirstSlots DEF Listed, Slot
  <2>3. FirstSlot(d) <= p /\ FirstSlot(d) \in Nat
    BY <2>1, <2>2, SlotStart, FirstSlots
  <2>4. q \in 1 .. p
    BY <1>1, <2>2, <2>3
  <2> QED
    BY <2>2, <2>4
<1> QED
  BY <1>2, <1>3

LEMMA TableNext ==
    ASSUME Inv, [Next]_vars
    PROVE  \/ UNCHANGED vars
           \/ Rests
           \/ \E h \in Handles, n \in WriteSizes : Write(h, n)
           \/ \E c \in Cluster : Allocates(c)
           \/ CutStep \/ FreeStep \/ GrowLinkStep \/ AppendLinkStep \/ SelfLinkStep
<1>1. op \in Operations
  BY DEF Inv, TypeInv
<1>2. op' = Idle /\ fat' = fat => Rests
  BY IdleTyped DEF Rests, Quiet
<1>f. ASSUME NEW call, NEW err, Fails(call, err) PROVE Rests
  BY <1>2, <1>f DEF Fails, Return
<1>3. CASE Crash
  BY <1>2, <1>3 DEF Crash
<1>4. CASE ReadStep
  <2>1. CASE op' = Idle /\ fat' = fat
    BY <1>2, <2>1
  <2>2. CASE fat' = fat /\ op.pc = "read" /\ \E r : op' = [op EXCEPT !.n = r]
    BY <1>1, <2>2 DEF Rests, Quiet, Operations
  <2> QED
    BY <1>4, <2>1, <2>2, Zenon DEF ReadStep, Fails, Return
<1>5. CASE StoreStep
  <2>1. op' = [op EXCEPT !.pc = "entry"] /\ fat' = fat
    BY <1>5 DEF StoreStep
  <2> QED
    BY <1>1, <2>1 DEF Rests, Quiet, Operations
<1>6. CASE GrowStep
  <2>1. CASE \E c \in Cluster :
               /\ LowestFree(c) /\ fat' = [fat EXCEPT ![c] = EOC]
               /\ op' = [op EXCEPT !.new = c,
                           !.pc = IF op.pc = "grow" THEN "growLink" ELSE "appendLink"]
               /\ UNCHANGED <<dir, handle, ret>>
    <3>1. PICK c \in Cluster :
               /\ LowestFree(c) /\ fat' = [fat EXCEPT ![c] = EOC]
               /\ op' = [op EXCEPT !.new = c,
                           !.pc = IF op.pc = "grow" THEN "growLink" ELSE "appendLink"]
               /\ UNCHANGED <<dir, handle, ret>>
      BY <2>1
    <3>2. Allocates(c)
      BY <1>1, <3>1 DEF Allocates, LowestFree, Free, Operations, Linking
    <3> QED
      BY <3>2
  <2> QED
    BY <1>6, <1>f, <2>1 DEF GrowStep
<1>7. CASE CreateStep
  <2>1. CASE op' = Idle
    BY <1>2, <1>7, <2>1 DEF CreateStep
  <2>2. CASE op' = [op EXCEPT !.pc = "extend"]
    BY <1>1, <1>7, <2>2 DEF CreateStep, Rests, Quiet, Operations
  <2> QED
    BY <1>7, <2>1, <2>2, Zenon DEF CreateStep, Return
<1>8. CASE ExtendStep
  <2>1. CASE \E c \in Cluster :
               /\ LowestFree(c) /\ fat' = [fat EXCEPT ![c] = EOC]
               /\ op' = [op EXCEPT !.pc = "selfLink", !.new = c]
               /\ UNCHANGED <<dir, handle, ret>>
    <3>1. PICK c \in Cluster :
               /\ LowestFree(c) /\ fat' = [fat EXCEPT ![c] = EOC]
               /\ op' = [op EXCEPT !.pc = "selfLink", !.new = c]
               /\ UNCHANGED <<dir, handle, ret>>
      BY <2>1
    <3>2. Allocates(c)
      BY <1>1, <3>1 DEF Allocates, LowestFree, Free, Operations, Linking
    <3> QED
      BY <3>2
  <2> QED
    BY <1>8, <1>f, <2>1, Zenon DEF ExtendStep
<1>9. CASE EntryStep
  BY <1>2, <1>9, DirectoryTypes
<1>10. CASE PathCall
  <2>1. ASSUME NEW n \in Names, NEW isDir \in Kinds, NEW d \in 1 .. RootClusters,
               Make(n, isDir, d)
        PROVE  Rests \/ \E c \in Cluster : Allocates(c)
    <3>1. CASE \E call, err : Fails(call, err)
      BY <1>f, <3>1
    <3>2. CASE /\ d = 1 \/ \E p \in Listed(1) : DirCluster(p) = d
               /\ \E c \in Cluster :
                     /\ LowestFree(c) /\ fat' = [fat EXCEPT ![c] = EOC]
                     /\ op' = [Idle EXCEPT !.pc = "create", !.name = n.base, !.new = c,
                                           !.isDir = isDir, !.parent = d]
                     /\ UNCHANGED <<dir, handle, ret>>
      <4>1. PICK c \in Cluster :
                 /\ LowestFree(c) /\ fat' = [fat EXCEPT ![c] = EOC]
                 /\ op' = [Idle EXCEPT !.pc = "create", !.name = n.base, !.new = c,
                                       !.isDir = isDir, !.parent = d]
                 /\ UNCHANGED <<dir, handle, ret>>
        BY <3>2
      <4>2. n.base \in Base
        BY DEF Base
      <4>3. op'.pc = "create" /\ op'.new = c /\ op'.name = n.base /\ op'.parent = d
        BY <4>1 DEF Idle
      <4>5. NoEndBefore(d)
        BY <3>2, ListedReached
      <4>4. Allocates(c)
        BY <4>1, <4>2, <4>3, <4>5 DEF Allocates, LowestFree, Free, Linking
      <4> QED
        BY <4>4
    <3> QED
      BY <2>1, <3>1, <3>2, Zenon DEF Make
  <2>2. ASSUME NEW n \in Names, DeleteDirectory(n) PROVE Rests
    BY <1>2, <2>2, DirectoryTypes
  <2> QED
    BY <1>10, <2>1, <2>2 DEF PathCall
<1>11. ASSUME NEW h \in Handles, HandleCall(h)
       PROVE  Rests \/ \E n \in WriteSizes : Write(h, n)
  <2>1. ASSUME NEW n \in WriteSizes, Append(h, n) PROVE Rests
    <3>1. CASE Fails("write", "OUT_OF_MEMORY")
      BY <1>f, <3>1
    <3>2. CASE /\ \E p, r, b : op' = [Idle EXCEPT !.h = h, !.n = r, !.slot = p,
                                        !.pc = IF b THEN "append" ELSE "entry"]
               /\ fat' = fat
      <4>1. op'.pc \in {"append", "entry"}
        BY <3>2 DEF Idle
      <4> QED
        BY <3>2, <4>1 DEF Rests, Quiet
    <3>3. Fails("write", "OUT_OF_MEMORY") \/ fat' = fat
      BY <2>1, Zenon DEF Append
    <3>4. \/ Fails("write", "OUT_OF_MEMORY")
          \/ \E p, r, b : op' = [Idle EXCEPT !.h = h, !.n = r, !.slot = p,
                                   !.pc = IF b THEN "append" ELSE "entry"]
      BY <2>1, Zenon DEF Append
    <3> QED
      BY <3>1, <3>2, <3>3, <3>4
  <2>2. ASSUME NEW n \in ReadSizes, Read(h, n) PROVE Rests
    <3>1. CASE /\ \E r : op' = [Idle EXCEPT !.pc = "read", !.h = h, !.n = r]
               /\ fat' = fat
      BY <3>1 DEF Idle, Rests, Quiet
    <3> QED
      BY <1>f, <2>2, <3>1, Zenon DEF Read
  <2>3. ASSUME NEW pos \in SeekPositions, Seek(h, pos) PROVE Rests
    <3>1. CASE op' = Idle /\ fat' = fat
      BY <1>2, <3>1
    <3> QED
      BY <1>f, <2>3, <3>1, Zenon DEF Seek, Return
  <2>4. ASSUME NEW n \in Names, Open(h, n) PROVE Rests
    <3>1. CASE op' = Idle /\ fat' = fat
      BY <1>2, <3>1
    <3> QED
      BY <1>f, <2>4, <3>1, Zenon DEF Open, Return
  <2>5. CASE Close(h) \/ WriteNoBuffer(h)
    BY <1>2, <1>f, <2>5 DEF Close, WriteNoBuffer, Return
  <2>6. CASE WriteHangs(h)
    BY <2>6 DEF WriteHangs, Rests, Quiet, Idle
  <2>7. CASE DeleteFile(h) \/ WriteInsert(h)
    BY <1>2, <2>7, DirectoryTypes
  <2> QED
    BY <1>11, <2>1, <2>2, <2>3, <2>4, <2>5, <2>6, <2>7, Zenon DEF HandleCall
<1>12. CASE Step
  BY <1>4, <1>5, <1>6, <1>7, <1>8, <1>9, <1>12 DEF Step
<1> QED
  BY <1>3, <1>10, <1>11, <1>12, Zenon DEF Next, Operation

(* What becomes of the steps of a write, and of a link to itself.           *)
LEMMA ControlNext ==
    ASSUME Inv
    PROVE  /\ CutStep => op'.pc = "free"
           /\ FreeStep => op'.pc \in {"free", "store"}
           /\ GrowLinkStep => op'.pc \in {"grow", "store"}
           /\ AppendLinkStep => op'.pc \in {"append", "entry"}
           /\ SelfLinkStep => op'.pc \in {"idle", "circling"}
           /\ \A h \in Handles, n \in WriteSizes : Write(h, n) => op'.pc \in {"cut", "grow", "store"}
<1>1. op \in Operations
  BY DEF Inv, TypeInv
<1>2. CutStep => op'.pc = "free"
  BY <1>1 DEF CutStep, Operations
<1>3. FreeStep => op'.pc \in {"free", "store"}
  BY <1>1 DEF FreeStep, Operations
<1>4. GrowLinkStep => op'.pc \in {"grow", "store"}
  <2>1. ASSUME GrowLinkStep
        PROVE  \E b, c, k : op' = [op EXCEPT !.cur = c, !.k = k,
                                     !.pc = IF b THEN "store" ELSE "grow"]
    BY <2>1, Zenon DEF GrowLinkStep
  <2> QED
    BY <1>1, <2>1 DEF Operations
<1>5. AppendLinkStep => op'.pc \in {"append", "entry"}
  <2>1. ASSUME AppendLinkStep
        PROVE  \E b, r : op' = [op EXCEPT !.n = r, !.pc = IF b THEN "append" ELSE "entry"]
    BY <2>1, Zenon DEF AppendLinkStep
  <2> QED
    BY <1>1, <2>1 DEF Operations
<1>6. SelfLinkStep => op'.pc \in {"idle", "circling"}
  BY <1>1, IdleTyped DEF SelfLinkStep, Return, Operations
<1>7. ASSUME NEW h \in Handles, NEW n \in WriteSizes, Write(h, n)
      PROVE  op'.pc \in {"cut", "grow", "store"}
  <2>1. \/ \E b, c : op' = [[Idle EXCEPT !.h = h, !.n = n, !.slot = b] EXCEPT !.pc = "cut", !.cur = c]
        \/ \E b, c, k : op' = [[Idle EXCEPT !.h = h, !.n = n, !.slot = b]
                                 EXCEPT !.pc = "grow", !.cur = c, !.k = k]
        \/ \E b : op' = [[Idle EXCEPT !.h = h, !.n = n, !.slot = b] EXCEPT !.pc = "store"]
    BY <1>7, Zenon DEF Write
  <2> QED
    BY <2>1 DEF Idle
<1> QED
  BY <1>2, <1>3, <1>4, <1>5, <1>6, <1>7

LEMMA StartsNext ==
    ASSUME Inv, [Next]_vars
    PROVE  /\ Fewer(dir, dir') => Starts' \subseteq Starts
           /\ \A p \in Slot : Enters(p) => /\ Starts' \subseteq Starts \cup {op.new}
                                           /\ op.new \in Cluster
<1>1. \A h \in Handles : handle'[h].valid => handle'[h].start \in Starts
  BY HandlesNext
<1>2. Starts' = ({2} \cup {dir'[p].first : p \in Slot}
                     \cup {handle'[h].start : h \in {g \in Handles : handle'[g].valid}}) \ {0}
  BY DEF Starts
<1>3. 2 \in Starts /\ \A p \in Slot : dir[p].first \in Starts \cup {0}
  BY DEF Starts
<1>4. ASSUME \A p \in Slot : dir'[p].first \in Starts \cup {0, op.new}
      PROVE  Starts' \subseteq Starts \cup {op.new}
  BY <1>1, <1>2, <1>3, <1>4
<1>5. ASSUME Fewer(dir, dir') PROVE Starts' \subseteq Starts
  <2>1. \A p \in Slot : dir'[p].first \in Starts \cup {0}
    BY <1>3, <1>5 DEF Fewer
  <2> QED
    BY <1>1, <1>2, <1>3, <2>1
<1>6. ASSUME NEW p \in Slot, Enters(p)
      PROVE  Starts' \subseteq Starts \cup {op.new} /\ op.new \in Cluster
  <2>1. op.new \in Cluster /\ dir \in [Slot -> Entry]
    BY <1>6 DEF Enters, Inv, TypeInv, ChainInv, Linking
  <2>2. \A q \in Slot : dir'[q].first \in {dir[q].first, op.new}
    BY <1>6, <2>1 DEF Enters
  <2>3. \A q \in Slot : dir'[q].first \in Starts \cup {0, op.new}
    BY <1>3, <2>2
  <2> QED
    BY <1>4, <2>1, <2>3
<1> QED
  BY <1>5, <1>6

LEMMA EntryInvNext ==
    ASSUME Inv, [Next]_vars
    PROVE  EntryInv'
<1>1. /\ dir \in [Slot -> Entry] /\ EntryInv
  BY DEF Inv, TypeInv
<1>2. \A h \in Handles : handle'[h].valid => handle'[h].start \in Cluster
  BY HandlesNext
<1>3. op'.pc = "create" => op'.name \in Base
  <2>1. CASE UNCHANGED vars
    BY <1>1, <2>1 DEF vars, EntryInv
  <2>2. CASE Rests
    BY <2>2 DEF Rests, Quiet
  <2>3. CASE \E c \in Cluster : Allocates(c)
    BY <2>3 DEF Allocates
  <2> QED
    BY <2>1, <2>2, <2>3, TableNext, ControlNext
<1>4. CASE Fewer(dir, dir')
  <2>1. \A p \in Slot : Used(dir'[p]) => dir'[p].first \in Cluster
    BY <1>1, <1>4 DEF Fewer, EntryInv
  <2>2. \A p, q \in Slot : dir'[p].first = dir'[q].first /\ p # q => dir'[p].first = 0
    BY <1>1, <1>4 DEF Fewer, EntryInv
  <2>3. \A p \in Slot : Used(dir[p])' <=> Used(dir'[p])
    BY DEF Used
  <2> QED
    BY <1>2, <1>3, <2>1, <2>2, <2>3 DEF EntryInv
<1>5. ASSUME NEW r \in Slot, Enters(r) PROVE EntryInv'
  <2>1. op.new \in Cluster /\ \A q \in Slot : dir[q].first # op.new
    <3>1. PICK R \in SUBSET Cluster : Holds(fat, Starts, R) /\ op.new \in Cluster \ R
      BY <1>5 DEF Inv, ChainInv, Enters, Linking
    <3>2. \A q \in Slot : dir[q].first \in Starts \cup {0}
      BY DEF Starts
    <3> QED
      BY <3>1, <3>2, Constants DEF Holds, FREE
  <2>2. /\ dir'[r].first = op.new /\ \A q \in Slot \ {r} : dir'[q] = dir[q]
    BY <1>1, <1>5 DEF Enters
  <2>3. \A p \in Slot : Used(dir'[p]) => dir'[p].first \in Cluster
    BY <1>1, <2>1, <2>2 DEF EntryInv
  <2>4. \A p, q \in Slot : dir'[p].first = dir'[q].first /\ p # q => dir'[p].first = 0
    BY <1>1, <2>1, <2>2 DEF EntryInv
  <2>5. \A p \in Slot : Used(dir[p])' <=> Used(dir'[p])
    BY DEF Used
  <2> QED
    BY <1>2, <1>3, <2>3, <2>4, <2>5 DEF EntryInv
<1> QED
  BY <1>4, <1>5, EntriesNext

LEMMA ChainInvNext ==
    ASSUME Inv, [Next]_vars
    PROVE  ChainInv'
<1>1. fat \in Table /\ op \in Operations
  BY DEF Inv, TypeInv
<1>2. PICK R \in SUBSET Cluster :
          /\ Holds(fat, Starts, R)
          /\ op.pc \in Linking => op.new \in Cluster \ R /\ fat[op.new] = EOC
          /\ op.pc = "free" => \E D \in SUBSET (Cluster \ R) : Detached(fat, D, op.cur)
  BY DEF Inv, ChainInv
<1>a. ASSUME NEW Q \in SUBSET Cluster, Holds(fat', Starts', Q),
             op'.pc \in Linking => op'.new \in Cluster \ Q /\ fat'[op'.new] = EOC,
             op'.pc = "free" => \E D \in SUBSET (Cluster \ Q) : Detached(fat', D, op'.cur)
      PROVE  ChainInv'
  BY <1>a DEF ChainInv
<1>b. ASSUME NEW Q \in SUBSET Cluster, Holds(fat', Starts', Q),
             op'.pc \notin Linking, op'.pc # "free"
      PROVE  ChainInv'
  BY <1>a, <1>b
<1>3. ASSUME UNCHANGED vars, Starts' \in SUBSET Starts PROVE ChainInv'
  <2>1. fat' = fat /\ op' = op
    BY <1>3 DEF vars
  <2>2. Holds(fat', Starts', R)
    BY <1>2, <1>3, <2>1, HoldsFewer
  <2> QED
    BY <1>2, <1>a, <2>1, <2>2
<1>4. ASSUME NEW p \in Slot, Enters(p) PROVE ChainInv'
  <2>1. op.pc = "create" /\ op' = Idle /\ fat' = fat
    BY <1>4 DEF Enters
  <2>2. op.new \in Cluster \ R /\ fat[op.new] = EOC
    BY <1>2, <2>1 DEF Linking
  <2>3. Holds(fat, Starts \cup {op.new}, R \cup {op.new})
    BY <1>1, <1>2, <2>2, HoldsStart
  <2>4. Starts' \in SUBSET (Starts \cup {op.new})
    BY <1>4, StartsNext
  <2>5. Holds(fat, Starts', R \cup {op.new})
    BY <2>3, <2>4, HoldsFewer
  <2>6. R \cup {op.new} \in SUBSET Cluster
    BY <2>2
  <2> QED
    BY <1>b, <2>1, <2>5, <2>6, IdleTyped DEF Linking
<1>5. CASE Fewer(dir, dir')
  <2>1. Starts' \in SUBSET Starts
    BY <1>5, StartsNext
  <2>2. CASE Rests
    <3>1. Holds(fat', Starts', R)
      BY <1>2, <2>1, <2>2, HoldsFewer DEF Rests
    <3> QED
      BY <1>b, <2>2, <3>1 DEF Rests, Quiet, Linking
  <2>3. ASSUME NEW h \in Handles, NEW n \in WriteSizes, Write(h, n) PROVE ChainInv'
    <3>1. op'.pc \in {"cut", "grow", "store"} /\ fat' = fat
      BY <2>3, ControlNext DEF Write
    <3>2. Holds(fat', Starts', R)
      BY <1>2, <2>1, <3>1, HoldsFewer
    <3> QED
      BY <1>b, <3>1, <3>2 DEF Linking
  <2>4. ASSUME NEW c \in Cluster, Allocates(c) PROVE ChainInv'
    <3>1. c \notin R
      BY <1>2, <2>4, Constants DEF Allocates, Holds
    <3>2. fat' = [fat EXCEPT ![c] = EOC] /\ op'.new = c /\ op'.pc # "free"
      BY <2>4 DEF Allocates, Linking
    <3>3. Holds(fat', Starts, R)
      BY <1>1, <1>2, <3>1, <3>2, HoldsElsewhere
    <3>4. Holds(fat', Starts', R)
      BY <2>1, <3>3, HoldsFewer
    <3>5. fat'[c] = EOC
      BY <1>1, <3>2 DEF Table
    <3> QED
      BY <1>a, <3>1, <3>2, <3>4, <3>5
  <2>5. CASE CutStep
    <3> DEFINE s == handle[op.h].start
    <3>1. op.pc = "cut" /\ fat' = [fat EXCEPT ![op.cur] = CUT] /\ op'.cur = fat[op.cur]
      BY <1>1, <2>5 DEF CutStep, Operations
    <3>2. s \in Starts
      <4>1. op.h \in Handles
        BY <3>1 DEF Inv, HandleInv, OnHandle, Replacing
      <4>2. handle[op.h].valid
        BY <3>1, Zenon DEF Inv, HandleInv, OnHandle, Replacing
      <4> QED
        BY <4>1, <4>2, OpenStarts
    <3>3. PICK i \in Index : op.cur = Path(fat, s)[i] /\ op.cur \in Cluster
      <4> DEFINE need == ClustersNeeded(op.n)
      <4>1. need \in 1 .. NumClusters /\ op.cur = Walk(s)[need - 1] /\ op.cur \in Cluster
        BY <3>1 DEF Inv, LengthInv
      <4> HIDE DEF need, s
      <4>2. need - 1 \in Index
        BY <4>1, Constants DEF Index
      <4> QED
        BY <4>1, <4>2, WalkIsPath
    <3> HIDE DEF s
    <3>4. PICK Q \in SUBSET Cluster :
              /\ Holds(fat', Starts, Q)
              /\ \E D \in SUBSET (Cluster \ Q) : Detached(fat', D, op'.cur)
      BY <1>1, <1>2, <3>1, <3>2, <3>3, HoldsCut
    <3>5. Holds(fat', Starts', Q)
      BY <2>1, <3>4, HoldsFewer
    <3>6. op'.pc = "free"
      BY <2>5, ControlNext
    <3> QED
      BY <1>a, <3>4, <3>5, <3>6 DEF Linking
  <2>6. CASE FreeStep
    <3>1. PICK D \in SUBSET (Cluster \ R) : Detached(fat, D, op.cur)
      BY <1>2, <2>6 DEF FreeStep
    <3>2. CASE IsEnd(op.cur)
      <4>1. fat' = fat /\ op'.pc = "store"
        BY <1>1, <2>6, <3>2 DEF FreeStep, Operations
      <4>2. Holds(fat', Starts', R)
        BY <1>2, <2>1, <4>1, HoldsFewer
      <4> QED
        BY <1>b, <4>1, <4>2 DEF Linking
    <3>3. CASE ~IsEnd(op.cur)
      <4>1. /\ op'.cur = fat[op.cur] /\ op'.pc = "free"
            /\ fat' = fat \/ fat' = [fat EXCEPT ![op.cur] = FREE]
        BY <1>1, <2>6, <3>3 DEF FreeStep, Operations
      <4>2. op.cur \in D
        BY <3>1, <3>3 DEF Detached, IsEnd
      <4>3. PICK v : fat' = [fat EXCEPT ![op.cur] = v]
        <5>1. fat = [fat EXCEPT ![op.cur] = fat[op.cur]]
          BY <1>1 DEF Table
        <5> QED
          BY <4>1, <5>1
      <4>4. Detached(fat', D \ {op.cur}, op'.cur)
        BY <1>1, <3>1, <4>1, <4>2, <4>3, DetachedNext
      <4>5. Holds(fat', Starts, R)
        BY <1>1, <1>2, <4>2, <4>3, HoldsElsewhere
      <4>6. Holds(fat', Starts', R)
        BY <2>1, <4>5, HoldsFewer
      <4>7. D \ {op.cur} \in SUBSET (Cluster \ R)
        OBVIOUS
      <4> QED
        BY <1>a, <4>1, <4>4, <4>6, <4>7 DEF Linking
    <3> QED
      BY <3>2, <3>3
  <2>7. ASSUME NEW c, op.pc \in Linking, fat' = Link(c, op.new),
               op'.pc \notin Linking, op'.pc # "free"
        PROVE  ChainInv'
    <3>1. op.new \in Cluster \ R /\ fat[op.new] = EOC
      BY <1>2, <2>7
    <3>2. CASE c \in R
      <4>1. fat' = [fat EXCEPT ![c] = op.new]
        BY <1>2, <2>7, <3>2 DEF Link
      <4>2. Holds(fat', Starts, R \cup {op.new})
        BY <1>1, <1>2, <3>1, <3>2, <4>1, HoldsLinked
      <4>3. Holds(fat', Starts', R \cup {op.new})
        BY <2>1, <4>2, HoldsFewer
      <4>4. R \cup {op.new} \in SUBSET Cluster
        BY <3>1
      <4> QED
        BY <1>b, <2>7, <4>3, <4>4
    <3>3. CASE c \notin R
      <4>1. fat' = fat \/ fat' = [fat EXCEPT ![c] = op.new]
        BY <2>7 DEF Link
      <4>2. Holds(fat', Starts, R)
        BY <1>1, <1>2, <3>3, <4>1, HoldsElsewhere
      <4>3. Holds(fat', Starts', R)
        BY <2>1, <4>2, HoldsFewer
      <4> QED
        BY <1>b, <2>7, <4>3
    <3> QED
      BY <3>2, <3>3
  <2>8. CASE GrowLinkStep
    <3>1. op.pc \in Linking /\ fat' = Link(op.cur, op.new)
      BY <2>8 DEF GrowLinkStep, Linking
    <3>2. op'.pc \in {"grow", "store"}
      BY <2>8, ControlNext
    <3> QED
      BY <2>7, <3>1, <3>2 DEF Linking
  <2>9. CASE AppendLinkStep
    <3>1. op.pc \in Linking /\ fat' = Link(handle[op.h].cluster, op.new)
      BY <2>9 DEF AppendLinkStep, Linking
    <3>2. op'.pc \in {"append", "entry"}
      BY <2>9, ControlNext
    <3> QED
      BY <2>7, <3>1, <3>2 DEF Linking
  <2>10. CASE SelfLinkStep
    <3>1. op.pc \in Linking /\ fat' = Link(op.new, op.new)
      BY <2>10 DEF SelfLinkStep, Linking
    <3>2. op'.pc \in {"idle", "circling"}
      BY <2>10, ControlNext
    <3> QED
      BY <2>7, <3>1, <3>2 DEF Linking
  <2> QED
    BY <1>3, <2>1, <2>2, <2>3, <2>4, <2>5, <2>6, <2>8, <2>9, <2>10, TableNext
<1> QED
  BY <1>4, <1>5, EntriesNext

-----------------------------------------------------------------------------
(* The length of the chain that a write works on. *)

LEMMA LengthIsEnd == \A s, j : Length(s, j) <=> EndsAt(fat, s, j)
BY WalkIsPath DEF Length, EndsAt

LEMMA LengthIsEndNext == \A s, j : Length(s, j)' <=> EndsAt(fat', s, j)
BY WalkIsPathNext DEF Length, EndsAt

(* A chain whose words are not changed ends where it did. *)
LEMMA EndKept ==
    ASSUME NEW f \in Table, NEW g \in Table, NEW S, NEW R, Holds(f, S, R),
           NEW s \in S, NEW j, EndsAt(f, s, j), \A c \in R : g[c] = f[c]
    PROVE  EndsAt(g, s, j) /\ \A i \in Index : Path(g, s)[i] = Path(f, s)[i]
<1>1. s \in Word /\ R \subseteq Cluster /\ NumClusters \in Index /\ NumClusters \in Nat
  BY Constants DEF Holds, Word, Index
<1>2. \A i \in Index : Path(f, s)[i] \in R \cup {EOC, CUT}
  BY PathEnds
<1>3. \A i \in 0 .. (NumClusters - 1) : i \in Index
  BY Constants DEF Index
<1>4. \A i \in 0 .. (NumClusters - 1) :
          Path(f, s)[i] \in Cluster => g[Path(f, s)[i]] = f[Path(f, s)[i]]
  BY <1>2, <1>3, Constants
<1>5. \A i \in 0 .. NumClusters : Path(g, s)[i] = Path(f, s)[i]
  BY <1>1, <1>4, PathAgrees
<1>6. j - 1 \in Index
  BY Constants DEF EndsAt, Index
<1>7. Path(g, s)[j - 1] = Path(f, s)[j - 1] /\ Path(f, s)[j - 1] \in R
  BY <1>2, <1>5, <1>6, Constants DEF EndsAt, Index
<1> QED
  BY <1>5, <1>7 DEF EndsAt, Index

(* Up to its last cluster a chain is the same if only that one's word, or   *)
(* one of no chain, is another.                                             *)
LEMMA EndChanged ==
    ASSUME NEW f \in Table, NEW g \in Table, NEW S, NEW R, Holds(f, S, R),
           NEW s \in S, NEW j \in 1 .. NumClusters, Path(f, s)[j - 1] \in Cluster,
           \A c \in R \ {Path(f, s)[j - 1]} : g[c] = f[c]
    PROVE  \A i \in 0 .. (j - 1) : i \in Index /\ Path(g, s)[i] = Path(f, s)[i]
<1>1. s \in Word /\ j - 1 \in Index /\ j - 1 \in Nat
  BY Constants DEF Holds, Word, Index
<1>2. \A i \in Index : Path(f, s)[i] \in R \cup {EOC, CUT}
  BY PathEnds
<1>3. ASSUME NEW i \in 0 .. (j - 1 - 1), Path(f, s)[i] \in Cluster
      PROVE  g[Path(f, s)[i]] = f[Path(f, s)[i]]
  <2>1. i \in Index /\ i <= j - 1 /\ i # j - 1
    BY <1>1, Constants DEF Index
  <2>2. Path(f, s)[i] \in R
    BY <1>2, <1>3, <2>1, Constants
  <2>3. Path(f, s)[i] # Path(f, s)[j - 1]
    BY <1>1, <2>1, PathsApart
  <2> QED
    BY <2>2, <2>3
<1>4. \A i \in 0 .. (j - 1) : Path(g, s)[i] = Path(f, s)[i]
  BY <1>1, <1>3, PathAgrees
<1> QED
  BY <1>4, Constants DEF Index

LEMMA LengthInvNext ==
    ASSUME Inv, [Next]_vars
    PROVE  LengthInv'
<1>1. fat \in Table /\ fat' \in Table /\ op \in Operations /\ op' \in Operations
  BY TypesNext DEF Inv, TypeInv
<1>2. PICK R \in SUBSET Cluster :
          /\ Holds(fat, Starts, R)
          /\ op.pc \in Linking => op.new \in Cluster \ R /\ fat[op.new] = EOC
          /\ op.pc = "free" => \E D \in SUBSET (Cluster \ R) : Detached(fat, D, op.cur)
  BY DEF Inv, ChainInv
<1>3. ASSUME op'.pc \notin Replacing PROVE LengthInv'
  BY <1>3 DEF LengthInv, Replacing
<1>4. PICK s, need : s = handle[op.h].start /\ need = ClustersNeeded(op.n)
  OBVIOUS
<1>5. op.pc \in Replacing => s \in Starts /\ s \in Word /\ need \in Nat \ {0}
  <2> SUFFICES ASSUME op.pc \in Replacing PROVE s \in Starts /\ s \in Word /\ need \in Nat \ {0}
    OBVIOUS
  <2>1. op.h \in Handles
    BY DEF Inv, HandleInv, OnHandle
  <2>2. handle[op.h].valid
    BY Zenon DEF Inv, HandleInv, OnHandle
  <2>3. op.n \in Nat
    BY <1>1 DEF Operations
  <2> QED
    BY <1>4, <2>1, <2>2, <2>3, OpenStarts, NeededTyped
<1>6. CASE UNCHANGED vars
  <2>1. fat' = fat /\ op' = op /\ handle' = handle
    BY <1>6 DEF vars
  <2>2. \A t, j : Length(t, j)' <=> Length(t, j)
    BY <2>1, LengthIsEnd, LengthIsEndNext
  <2>3. \A t : Walk(t)' = Walk(t)
    BY <2>1, WalkIsPath, WalkIsPathNext
  <2> QED
    BY <2>1, <2>2, <2>3 DEF Inv, LengthInv
<1>7. CASE Rests
  BY <1>3, <1>7 DEF Rests, Quiet, Replacing
<1>8. ASSUME NEW h \in Handles, NEW n \in WriteSizes, Write(h, n) PROVE LengthInv'
  <2> DEFINE t == handle[h].start   have == ChainLength(t)   want == ClustersNeeded(n)
  <2>1. n \in Nat /\ handle[h].valid
    BY <1>8, FatAssumption DEF Write
  <2>2. /\ Length(t, have) /\ have \in 1 .. NumClusters /\ want \in Nat \ {0}
        /\ have > want => /\ Walk(t)[want - 1] \in Cluster
                          /\ fat[Walk(t)[want - 1]] \in Cluster
    BY <2>1, WriteCounts
  <2>3. fat' = fat /\ handle' = handle /\ op'.h = h /\ op'.n = n
    BY <1>8, WriteTypes DEF Write
  <2>4. \/ op'.pc = "cut" /\ have > want /\ op'.cur = Walk(t)[want - 1]
        \/ /\ op'.pc = "grow" /\ have < want /\ op'.cur = Walk(t)[have - 1]
           /\ op'.k = want - have
        \/ op'.pc = "store" /\ have = want
    <3>1. have \in Int /\ want \in Int
      BY <2>2, Constants
    <3>2. \/ /\ have > want
             /\ op' = [[Idle EXCEPT !.h = h, !.n = n, !.slot = op'.slot]
                         EXCEPT !.pc = "cut", !.cur = Walk(t)[want - 1]]
          \/ /\ ~(have > want) /\ have < want
             /\ op' = [[Idle EXCEPT !.h = h, !.n = n, !.slot = op'.slot]
                         EXCEPT !.pc = "grow", !.cur = Walk(t)[have - 1], !.k = want - have]
          \/ /\ ~(have > want) /\ ~(have < want)
             /\ op' = [[Idle EXCEPT !.h = h, !.n = n, !.slot = op'.slot] EXCEPT !.pc = "store"]
      BY <1>8 DEF Write, Idle
    <3> DEFINE I == [Idle EXCEPT !.h = h, !.n = n, !.slot = op'.slot]
               low == Walk(t)[want - 1]   high == Walk(t)[have - 1]   more == want - have
    <3> HIDE DEF have, want, I, low, high, more
    <3>5. \/ have > want /\ op' = [I EXCEPT !.pc = "cut", !.cur = low]
          \/ have < want /\ op' = [I EXCEPT !.pc = "grow", !.cur = high, !.k = more]
          \/ have = want /\ op' = [I EXCEPT !.pc = "store"]
      BY <3>1, <3>2 DEF I, low, high, more
    <3>3. ASSUME op' = [I EXCEPT !.pc = "cut", !.cur = low]
          PROVE  op'.pc = "cut" /\ op'.cur = low
      BY <3>3 DEF I, Idle
    <3>4. ASSUME op' = [I EXCEPT !.pc = "grow", !.cur = high, !.k = more]
          PROVE  op'.pc = "grow" /\ op'.cur = high /\ op'.k = more
      BY <3>4 DEF I, Idle
    <3>6. ASSUME op' = [I EXCEPT !.pc = "store"]
          PROVE  op'.pc = "store"
      BY <3>6 DEF I, Idle
    <3> QED
      BY <3>3, <3>4, <3>6, <3>5 DEF low, high, more
  <2>5. \A u, j : Length(u, j)' <=> Length(u, j)
    BY <2>3, LengthIsEnd, LengthIsEndNext
  <2>6. \A u : Walk(u)' = Walk(u)
    BY <2>3, WalkIsPath, WalkIsPathNext
  <2>7. handle'[op'.h].start = t /\ ClustersNeeded(op'.n) = want
    BY <2>3
  <2> HIDE DEF t, have, want
  <2>8. CASE op'.pc = "cut" /\ have > want /\ op'.cur = Walk(t)[want - 1]
    BY <2>2, <2>3, <2>6, <2>7, <2>8, Constants DEF LengthInv
  <2>9. CASE /\ op'.pc = "grow" /\ have < want /\ op'.cur = Walk(t)[have - 1]
             /\ op'.k = want - have
    <3>1. op'.k >= 1 /\ want - op'.k = have
      BY <2>2, <2>9, Constants
    <3> QED
      BY <2>2, <2>5, <2>6, <2>7, <2>9, <3>1 DEF LengthInv
  <2>10. CASE op'.pc = "store" /\ have = want
    BY <2>2, <2>5, <2>7, <2>10 DEF LengthInv
  <2> QED
    BY <2>4, <2>8, <2>9, <2>10
<1>9. ASSUME NEW c \in Cluster, Allocates(c) PROVE LengthInv'
  <2>1. CASE op'.pc # "growLink"
    BY <1>3, <1>9, <2>1 DEF Allocates, Linking, Replacing
  <2>2. CASE op'.pc = "growLink"
    <3>1. /\ op.pc = "grow" /\ op'.h = op.h /\ op'.n = op.n /\ op'.k = op.k /\ op'.cur = op.cur
          /\ handle' = handle /\ fat[c] = FREE /\ fat' = [fat EXCEPT ![c] = EOC]
      BY <1>9, <2>2 DEF Allocates
    <3>2. s \in Starts /\ need \in Nat \ {0}
      BY <1>5, <3>1 DEF Replacing
    <3>3. op.k >= 1 /\ Length(s, need - op.k) /\ op.cur = Walk(s)[need - op.k - 1]
      BY <1>4, <3>1 DEF Inv, LengthInv
    <3>4. \A d \in R : fat'[d] = fat[d]
      BY <1>1, <1>2, <3>1, Constants DEF Holds, Table
    <3>11. PICK j : j = need - op.k
      OBVIOUS
    <3>5. j \in 1 .. NumClusters
      BY <3>3, <3>11 DEF Length
    <3>6. EndsAt(fat, s, j)
      BY <3>3, <3>11, LengthIsEnd
    <3>7. EndsAt(fat', s, j) /\ \A i \in Index : Path(fat', s)[i] = Path(fat, s)[i]
      BY <1>1, <1>2, <3>2, <3>4, <3>6, EndKept
    <3>8. j - 1 \in Index
      BY <3>5, Constants DEF Index
    <3>9. Length(s, j)' /\ op'.cur = Walk(s)'[j - 1]
      BY <3>1, <3>3, <3>7, <3>8, <3>11, LengthIsEndNext, WalkIsPath, WalkIsPathNext
    <3>10. handle'[op'.h].start = s /\ ClustersNeeded(op'.n) = need
      BY <1>4, <3>1
    <3> QED
      BY <2>2, <3>1, <3>3, <3>9, <3>10, <3>11 DEF LengthInv
  <2> QED
    BY <2>1, <2>2
<1>10. CASE CutStep
  <2>1. /\ op.pc = "cut" /\ op'.pc = "free" /\ op'.h = op.h /\ op'.n = op.n /\ handle' = handle
        /\ fat' = [fat EXCEPT ![op.cur] = CUT]
    BY <1>1, <1>10 DEF CutStep, Operations
  <2>2. s \in Starts
    BY <1>5, <2>1 DEF Replacing
  <2>3. /\ need \in 1 .. NumClusters /\ op.cur = Walk(s)[need - 1] /\ op.cur \in Cluster
    BY <1>4, <2>1 DEF Inv, LengthInv
  <2>4. handle'[op'.h].start = s /\ ClustersNeeded(op'.n) = need
    BY <1>4, <2>1
  <2>5. op.cur = Path(fat, s)[need - 1]
    BY <2>3, WalkIsPath
  <2>6. \A c \in R \ {op.cur} : fat'[c] = fat[c]
    BY <1>1, <2>1 DEF Table
  <2>7. \A i \in 0 .. (need - 1) : i \in Index /\ Path(fat', s)[i] = Path(fat, s)[i]
    BY <1>1, <1>2, <2>2, <2>3, <2>5, <2>6, EndChanged
  <2>8. need - 1 \in 0 .. (need - 1)
    BY <2>3, Constants
  <2>9. Path(fat', s)[need - 1] = op.cur /\ fat'[op.cur] = CUT
    BY <1>1, <2>1, <2>3, <2>5, <2>7, <2>8 DEF Table
  <2>10. EndsAt(fat', s, need)
    BY <2>3, <2>9, Constants DEF EndsAt
  <2> QED
    BY <2>1, <2>4, <2>10, LengthIsEndNext DEF LengthInv
<1>11. CASE FreeStep
  <2>1. /\ op.pc = "free" /\ op'.h = op.h /\ op'.n = op.n /\ handle' = handle
        /\ fat' = fat \/ (fat' = [fat EXCEPT ![op.cur] = FREE] /\ ~IsEnd(op.cur))
    BY <1>1, <1>11 DEF FreeStep, Operations
  <2>2. s \in Starts
    BY <1>5, <2>1 DEF Replacing
  <2>3. Length(s, need)
    BY <1>4, <2>1 DEF Inv, LengthInv
  <2>4. handle'[op'.h].start = s /\ ClustersNeeded(op'.n) = need
    BY <1>4, <2>1
  <2>5. op'.pc \in {"free", "store"}
    BY <1>11, ControlNext
  <2>6. \A c \in R : fat'[c] = fat[c]
    <3>1. PICK D \in SUBSET (Cluster \ R) : Detached(fat, D, op.cur)
      BY <1>2, <2>1
    <3> QED
      BY <1>1, <2>1, <3>1 DEF Detached, IsEnd, Table
  <2>7. EndsAt(fat', s, need)
    BY <1>1, <1>2, <2>2, <2>3, <2>6, EndKept, LengthIsEnd
  <2> QED
    BY <2>4, <2>5, <2>7, LengthIsEndNext DEF LengthInv
<1>12. CASE GrowLinkStep
  <2>1. /\ op.pc = "growLink" /\ op'.h = op.h /\ op'.n = op.n /\ handle' = handle
        /\ op'.cur = op.new /\ op'.k = op.k - 1
        /\ op'.pc = IF op.k = 1 THEN "store" ELSE "grow"
        /\ fat' = Link(op.cur, op.new)
    BY <1>1, <1>12 DEF GrowLinkStep, Operations
  <2>2. s \in Starts /\ s \in Word /\ need \in Nat \ {0}
    BY <1>5, <2>1 DEF Replacing
  <2>3. op.k >= 1 /\ Length(s, need - op.k) /\ op.cur = Walk(s)[need - op.k - 1]
    BY <1>4, <2>1 DEF Inv, LengthInv
  <2>4. handle'[op'.h].start = s /\ ClustersNeeded(op'.n) = need
    BY <1>4, <2>1
  <2>5. op.new \in Cluster \ R /\ fat[op.new] = EOC
    BY <1>2, <2>1 DEF Linking
  <2>21. PICK j : j = need - op.k
    OBVIOUS
  <2>6. j \in 1 .. NumClusters /\ op.k \in Int
    BY <1>1, <2>3, <2>21 DEF Length, Operations
  <2>7. EndsAt(fat, s, j) /\ op.cur = Path(fat, s)[j - 1] /\ op.cur \in Cluster
    BY <2>3, <2>21, LengthIsEnd, WalkIsPath DEF Length
  <2>8. op.cur \in R
    <3>1. j - 1 \in Index
      BY <2>6, Constants DEF Index
    <3> QED
      BY <1>1, <1>2, <2>2, <2>7, <3>1, Constants, PathEnds
  <2>9. fat' = [fat EXCEPT ![op.cur] = op.new]
    BY <2>1, <2>7 DEF Link
  <2>10. \A c \in R \ {op.cur} : fat'[c] = fat[c]
    BY <1>1, <2>9 DEF Table
  <2>11. \A i \in 0 .. (j - 1) : i \in Index /\ Path(fat', s)[i] = Path(fat, s)[i]
    BY <1>1, <1>2, <2>2, <2>6, <2>7, <2>10, EndChanged
  <2>12. j < NumClusters
    <3>1. Cardinality(Links(fat, s)) = j
      BY <1>1, <1>2, <2>2, <2>7, ChainCounted
    <3>2. Links(fat, s) \subseteq Cluster \ {op.new}
      <4>1. \A i \in Index : Path(fat, s)[i] \in R \cup {EOC, CUT}
        BY <1>1, <1>2, <2>2, PathEnds
      <4> QED
        BY <1>2, <2>5, <4>1, Constants DEF Links
    <3>3. /\ IsFiniteSet(Cluster \ {op.new})
          /\ Cardinality(Cluster \ {op.new}) = NumClusters - 1
      BY <2>5, ClustersFinite, FS_RemoveElement
    <3>4. Cardinality(Links(fat, s)) <= Cardinality(Cluster \ {op.new})
      BY <3>2, <3>3, FS_Subset
    <3> QED
      BY <2>6, <3>1, <3>3, <3>4, Constants
  <2>13. Path(fat', s)[j - 1] = op.cur
    <3>1. j - 1 \in 0 .. (j - 1)
      BY <2>6, Constants
    <3> QED
      BY <2>7, <2>11, <3>1
  <2>14. Path(fat', s)[j] = op.new
    <3>1. Path(fat', s)[j] = IF Path(fat', s)[j - 1] \in Cluster
                             THEN fat'[Path(fat', s)[j - 1]] ELSE Path(fat', s)[j - 1]
      BY <1>1, <2>2, <2>6, PathSteps
    <3> QED
      BY <1>1, <2>7, <2>9, <2>13, <3>1 DEF Table
  <2>15. fat'[op.new] = EOC
    BY <1>1, <2>5, <2>8, <2>9 DEF Table
  <2>16. j + 1 \in 1 .. NumClusters /\ (j + 1) - 1 = j
    BY <2>6, <2>12, Constants
  <2>17. EndsAt(fat', s, j + 1)
    BY <2>5, <2>14, <2>15, <2>16, Constants DEF EndsAt
  <2>18. Length(s, j + 1)' /\ Walk(s)'[j] = op.new
    BY <2>14, <2>17, LengthIsEndNext, WalkIsPathNext
  <2>19. CASE op.k = 1
    <3>1. j + 1 = need
      BY <2>2, <2>19, <2>21
    <3> QED
      BY <2>1, <2>4, <2>18, <2>19, <3>1 DEF LengthInv
  <2>20. CASE op.k # 1
    <3>1. j + 1 = need - op'.k /\ j = need - op'.k - 1 /\ op'.k >= 1
      BY <2>1, <2>2, <2>3, <2>6, <2>20, <2>21
    <3> QED
      BY <2>1, <2>4, <2>18, <2>20, <3>1 DEF LengthInv
  <2> QED
    BY <2>19, <2>20
<1>13. CASE AppendLinkStep \/ SelfLinkStep
  BY <1>3, <1>13, ControlNext DEF Replacing
<1> QED
  BY <1>6, <1>7, <1>8, <1>9, <1>10, <1>11, <1>12, <1>13, TableNext

-----------------------------------------------------------------------------
(* The formatted disk: the chain of the root directory and nothing else. *)
LEMMA InitInv ==
    ASSUME Init
    PROVE  Inv
<1>1. fat \in Table
  <2> SUFFICES ASSUME NEW c \in Cluster PROVE
          (IF c < RootClusters + 1 THEN c + 1
           ELSE IF c = RootClusters + 1 THEN EOC ELSE FREE) \in Word
    BY DEF Init, Table
  <2>1. CASE c < RootClusters + 1
    <3>1. c + 1 \in Cluster
      BY <2>1, Constants DEF Cluster
    <3> QED
      BY <2>1, <3>1 DEF Word
  <2>2. CASE ~(c < RootClusters + 1)
    BY <2>2 DEF Word
  <2> QED
    BY <2>1, <2>2
<1>2. dir \in [Slot -> Entry] /\ \A p \in Slot : dir[p] = ZeroEntry
  BY SlotsExist DEF Init
<1>3. handle \in [Handles -> FileHandle] /\ \A h \in Handles : handle[h] = NoFile
  BY IdleTyped DEF Init
<1>4. op = Idle /\ op \in Operations /\ op.pc = "idle"
  BY IdleTyped DEF Init
<1>5. TypeInv
  BY <1>1, <1>2, <1>3, <1>4 DEF TypeInv
<1>6. HandleInv
  BY <1>4 DEF HandleInv, OnHandle, Replacing, Appending
<1>7. \A p \in Slot : ~Used(dir[p]) /\ dir[p].first = 0
  BY <1>2 DEF Used, ZeroEntry
<1>8. \A h \in Handles : ~handle[h].valid
  BY <1>3 DEF NoFile
<1>9. EntryInv
  BY <1>4, <1>7, <1>8 DEF EntryInv
<1>10. Starts \subseteq {2}
  BY <1>7, <1>8 DEF Starts
<1>11. ChainInv
  <2>1. RootCluster \in SUBSET Cluster /\ 2 \in RootCluster
    BY Constants DEF RootCluster, Cluster
  <2>2. ASSUME NEW c \in RootCluster
        PROVE  /\ c < RootClusters + 1 => fat[c] = c + 1 /\ c + 1 \in RootCluster
               /\ ~(c < RootClusters + 1) => fat[c] = EOC /\ c = RootClusters + 1
               /\ fat[c] # 2
    <3>1. c \in Cluster /\ c \in Int /\ c >= 2 /\ c <= RootClusters + 1
      BY <2>1, Constants DEF RootCluster
    <3>2. fat[c] = IF c < RootClusters + 1 THEN c + 1
                   ELSE IF c = RootClusters + 1 THEN EOC ELSE FREE
      BY <3>1 DEF Init
    <3>3. RootClusters \in Int /\ EOC # 2
      BY Constants DEF EOC
    <3>4. CASE c < RootClusters + 1
      <4>1. fat[c] = c + 1
        BY <3>2, <3>4
      <4>2. c + 1 # 2 /\ c + 1 \in RootCluster
        BY <3>1, <3>3, <3>4 DEF RootCluster
      <4> QED
        BY <3>4, <4>1, <4>2
    <3>5. CASE ~(c < RootClusters + 1)
      <4>1. c = RootClusters + 1
        BY <3>1, <3>3, <3>5
      <4> QED
        BY <3>2, <3>3, <3>5, <4>1
    <3> QED
      BY <3>4, <3>5
  <2>3. \A c \in RootCluster : fat[c] \in RootCluster \cup {EOC, CUT} /\ fat[c] \notin Starts
    BY <1>10, <2>2
  <2>4. \A c, d \in RootCluster : fat[c] = fat[d] /\ fat[c] \in Cluster => c = d
    <3> SUFFICES ASSUME NEW c \in RootCluster, NEW d \in RootCluster,
                        fat[c] = fat[d], fat[c] \in Cluster
                 PROVE  c = d
      OBVIOUS
    <3>1. c \in Int /\ d \in Int
      BY DEF RootCluster
    <3>2. c < RootClusters + 1 /\ d < RootClusters + 1
      BY <2>2, Constants
    <3> QED
      BY <2>2, <3>1, <3>2
  <2>5. Holds(fat, Starts, RootCluster)
    BY <1>10, <2>1, <2>3, <2>4 DEF Holds
  <2> QED
    BY <1>4, <2>1, <2>5 DEF ChainInv, Linking
<1>12. LengthInv
  BY <1>4 DEF LengthInv
<1> QED
  BY <1>5, <1>6, <1>9, <1>11, <1>12 DEF Inv

(* The invariant holds whatever callers do and whenever the machine resets. *)
THEOREM Invariant == Spec => []Inv
<1>1. Init => Inv
  BY InitInv
<1>2. Inv /\ [Next]_vars => Inv'
  BY TypesNext, EntryInvNext, ChainInvNext, LengthInvNext DEF Inv
<1> QED
  BY <1>1, <1>2, PTL DEF Spec

(* Whatever order operations come in, with stale handles and resets between *)
(* two writes: every chain ends, in an end mark and without a free cluster, *)
(* and no two chains share a cluster.  write's count of clusters ends.      *)
THEOREM ChainsStaySound == Spec => []ChainsSound
<1>1. Inv => ChainsSound
  <2> SUFFICES ASSUME Inv PROVE ChainsSound
    OBVIOUS
  <2>1. PICK R \in SUBSET Cluster : Holds(fat, Starts, R)
    BY StartsHeld
  <2>2. fat \in Table
    BY DEF Inv, TypeInv
  <2>3. \A s \in Starts : IsEnd(Walk(s)[NumClusters])
    BY <2>1, <2>2, PathEnds, WalkIsPath DEF IsEnd
  <2>4. ASSUME NEW s \in Starts, NEW t \in Starts, s # t PROVE Chain(s) \cap Chain(t) = {}
    <3> SUFFICES ASSUME NEW c \in Chain(s), c \in Chain(t) PROVE FALSE
      OBVIOUS
    <3>1. PICK i \in Index : Path(fat, s)[i] = c /\ c \in Cluster
      BY ChainIsLinks DEF Links
    <3>2. PICK j \in Index : Path(fat, t)[j] = c
      BY ChainIsLinks DEF Links
    <3>3. i <= j \/ j <= i
      BY Constants DEF Index
    <3> QED
      BY <2>1, <2>2, <2>4, <3>1, <3>2, <3>3, PathsApart
  <2>5. \A s, t \in Starts : s < t => s # t
    <3>1. Starts \subseteq Int
      BY <2>1 DEF Holds, Cluster
    <3> QED
      BY <3>1
  <2> QED
    BY <2>3, <2>4, <2>5 DEF ChainsSound
<1> QED
  BY <1>1, Invariant, PTL

(* A write stores its data in a chain of exactly the clusters it counted on.*)
THEOREM StoresFit == Spec => []StoreFits
<1>1. Inv => StoreFits
  <2> SUFFICES ASSUME Inv, op.pc = "store" PROVE StoreFits
    BY DEF StoreFits
  <2> DEFINE s == handle[op.h].start
  <2>1. fat \in Table
    BY DEF Inv, TypeInv
  <2>2. PICK R \in SUBSET Cluster : Holds(fat, Starts, R)
    BY StartsHeld
  <2>3. s \in Starts
    <3>1. op.h \in Handles
      BY DEF Inv, HandleInv, OnHandle, Replacing
    <3>2. handle[op.h].valid
      BY Zenon DEF Inv, HandleInv, OnHandle, Replacing
    <3> QED
      BY <3>1, <3>2, OpenStarts
  <2>4. EndsAt(fat, s, ClustersNeeded(op.n))
    BY LengthIsEnd DEF Inv, LengthInv
  <2> QED
    BY <2>1, <2>2, <2>3, <2>4, ChainCounted, ChainIsLinks DEF StoreFits, ChainLength
<1> QED
  BY <1>1, Invariant, PTL

-----------------------------------------------------------------------------
(* Steps change one word of the table at most. *)

(* A set that holds the chains, as the invariant has it. *)
Keeps(R) ==
    /\ R \subseteq Cluster /\ Holds(fat, Starts, R)
    /\ op.pc \in Linking => op.new \in Cluster \ R /\ fat[op.new] = EOC
    /\ op.pc = "free" => \E D \in SUBSET (Cluster \ R) : Detached(fat, D, op.cur)

Changed(x) ==
    /\ x \in Cluster /\ fat' # fat
    /\ fat' \in Table /\ \A c \in Cluster \ {x} : fat'[c] = fat[c]

LinksNew(R, x) ==
    /\ fat'[x] = op.new /\ op.new \in Cluster \ R /\ op.pc \in Linking
    /\ \/ GrowLinkStep /\ x = op.cur
       \/ AppendLinkStep /\ x = handle[op.h].cluster
       \/ SelfLinkStep /\ x = op.new

LEMMA WordNext ==
    ASSUME Inv, [Next]_vars, NEW R, Keeps(R)
    PROVE  \/ fat' = fat
           \/ \E x \in Cluster :
                /\ Changed(x)
                /\ \/ Allocates(x) /\ x \notin R /\ fat[x] = FREE /\ fat'[x] = EOC
                   \/ CutStep /\ x = op.cur /\ op.pc = "cut" /\ fat'[x] = CUT
                   \/ FreeStep /\ x = op.cur /\ op.pc = "free" /\ x \notin R
                   \/ LinksNew(R, x)
<1>1. fat \in Table /\ fat' \in Table /\ op \in Operations
  BY TypesNext DEF Inv, TypeInv
<1>2. ASSUME NEW c, NEW v, fat' = [fat EXCEPT ![c] = v], fat' # fat
      PROVE  c \in Cluster /\ Changed(c) /\ fat'[c] = v
  <2>1. c \in Cluster
    <3>1. c \notin Cluster => [fat EXCEPT ![c] = v] = fat
      BY <1>1 DEF Table
    <3> QED
      BY <1>2, <3>1
  <2> QED
    BY <1>1, <1>2, <2>1 DEF Table, Changed
<1>3. CASE UNCHANGED vars \/ Rests \/ \E h \in Handles, n \in WriteSizes : Write(h, n)
  BY <1>3 DEF vars, Rests, Write
<1>4. ASSUME NEW c \in Cluster, Allocates(c), fat' # fat
      PROVE  Changed(c) /\ c \notin R /\ fat[c] = FREE /\ fat'[c] = EOC
  <2>1. c \notin R
    BY <1>4, Constants DEF Allocates, Holds, Keeps
  <2>2. fat' = [fat EXCEPT ![c] = EOC] /\ fat[c] = FREE
    BY <1>4 DEF Allocates
  <2> QED
    BY <1>2, <1>4, <2>1, <2>2
<1>5. ASSUME CutStep, fat' # fat
      PROVE  op.cur \in Cluster /\ Changed(op.cur) /\ op.pc = "cut" /\ fat'[op.cur] = CUT
  <2>1. fat' = [fat EXCEPT ![op.cur] = CUT] /\ op.pc = "cut"
    BY <1>5 DEF CutStep
  <2> QED
    BY <1>2, <1>5, <2>1
<1>6. ASSUME FreeStep, fat' # fat
      PROVE  op.cur \in Cluster /\ Changed(op.cur) /\ op.pc = "free" /\ op.cur \notin R
  <2>1. fat' = [fat EXCEPT ![op.cur] = FREE] /\ op.pc = "free"
    BY <1>6 DEF FreeStep
  <2>2. PICK D \in SUBSET (Cluster \ R) : Detached(fat, D, op.cur)
    BY <2>1 DEF Keeps
  <2>3. op.cur \in Cluster /\ Changed(op.cur)
    BY <1>2, <1>6, <2>1
  <2> QED
    BY <2>1, <2>2, <2>3, Constants DEF Detached
<1>7. ASSUME NEW c, op.pc \in Linking, fat' = Link(c, op.new), fat' # fat
      PROVE  c \in Cluster /\ Changed(c) /\ fat'[c] = op.new /\ op.new \in Cluster \ R
  <2>1. fat' = [fat EXCEPT ![c] = op.new]
    BY <1>7 DEF Link
  <2> QED
    BY <1>2, <1>7, <2>1 DEF Keeps
<1>8. ASSUME GrowLinkStep, fat' # fat
      PROVE  op.cur \in Cluster /\ Changed(op.cur) /\ LinksNew(R, op.cur)
  <2>1. op.pc \in Linking /\ fat' = Link(op.cur, op.new)
    BY <1>8 DEF GrowLinkStep, Linking
  <2> QED
    BY <1>7, <1>8, <2>1 DEF LinksNew
<1>9. ASSUME AppendLinkStep, fat' # fat
      PROVE  /\ handle[op.h].cluster \in Cluster /\ Changed(handle[op.h].cluster)
             /\ LinksNew(R, handle[op.h].cluster)
  <2>1. op.pc \in Linking /\ fat' = Link(handle[op.h].cluster, op.new)
    BY <1>9 DEF AppendLinkStep, Linking
  <2> QED
    BY <1>7, <1>9, <2>1 DEF LinksNew
<1>10. ASSUME SelfLinkStep, fat' # fat
       PROVE  op.new \in Cluster /\ Changed(op.new) /\ LinksNew(R, op.new)
  <2>1. op.pc \in Linking /\ fat' = Link(op.new, op.new)
    BY <1>10 DEF SelfLinkStep, Linking
  <2> QED
    BY <1>7, <1>10, <2>1 DEF LinksNew
<1> QED
  BY <1>3, <1>4, <1>5, <1>6, <1>8, <1>9, <1>10, TableNext

LEMMA KeepsSome ==
    ASSUME Inv
    PROVE  \E R \in SUBSET Cluster : Keeps(R)
BY DEF Inv, ChainInv, Keeps

(* What a chain passes, the set that holds the chains has. *)
LEMMA ChainKept ==
    ASSUME Inv, NEW R, Keeps(R), NEW s \in Starts
    PROVE  /\ s \in Word /\ Chain(s) \subseteq R
           /\ \A i \in Index : /\ Path(fat, s)[i] \in R \cup {EOC, CUT}
                               /\ Path(fat, s)[i] \in Cluster => Path(fat, s)[i] \in Chain(s)
<1>1. fat \in Table
  BY DEF Inv, TypeInv
<1>2. \A i \in Index : Path(fat, s)[i] \in R \cup {EOC, CUT}
  BY <1>1, PathEnds DEF Keeps
<1>3. s \in Word
  BY DEF Keeps, Holds, Word
<1> QED
  BY <1>2, <1>3, ChainIsLinks, Constants DEF Links

(* A word that a walk does not pass does not change the walk ...            *)
LEMMA PathKept ==
    ASSUME NEW f \in Table, NEW g \in Table, NEW s \in Word, NEW x,
           \A c \in Cluster \ {x} : g[c] = f[c],
           \A i \in Index : Path(f, s)[i] # x
    PROVE  \A i \in Index : Path(g, s)[i] = Path(f, s)[i]
<1>1. NumClusters \in Index /\ \A i \in 0 .. (NumClusters - 1) : i \in Index
  BY Constants DEF Index
<1>2. \A i \in 0 .. (NumClusters - 1) :
          Path(f, s)[i] \in Cluster => g[Path(f, s)[i]] = f[Path(f, s)[i]]
  BY <1>1
<1>3. \A i \in 0 .. NumClusters : Path(g, s)[i] = Path(f, s)[i]
  BY <1>1, <1>2, PathAgrees
<1> QED
  BY <1>3 DEF Index

(* ... nor does the word that ends it, up to there.                         *)
LEMMA PathUpTo ==
    ASSUME NEW f \in Table, NEW g \in Table, NEW s \in Word, NEW x,
           \A c \in Cluster \ {x} : g[c] = f[c],
           x \in Cluster => f[x] \notin Cluster,
           NEW i \in Index, Path(f, s)[i] \in Cluster
    PROVE  Path(g, s)[i] = Path(f, s)[i]
<1>1. ASSUME NEW m \in 0 .. (i - 1), Path(f, s)[m] \in Cluster
      PROVE  Path(f, s)[m] # x
  <2>1. m \in Index /\ m + 1 \in 1 .. NumClusters /\ m + 1 <= i /\ (m + 1) - 1 = m
    BY Constants DEF Index
  <2>2. PICK n \in 1 .. NumClusters : n <= i /\ n - 1 = m
    BY <2>1
  <2>3. n \in Index
    BY <2>1, <2>2, Constants DEF Index
  <2>4. Path(f, s)[n] = f[Path(f, s)[m]]
    BY <1>1, <2>2, PathSteps
  <2>5. Path(f, s)[n] \notin Cluster => Path(f, s)[i] = Path(f, s)[n]
    BY <2>2, <2>3, PathFrozen
  <2> QED
    BY <1>1, <2>4, <2>5
<1>2. \A m \in 0 .. (i - 1) :
          Path(f, s)[m] \in Cluster => g[Path(f, s)[m]] = f[Path(f, s)[m]]
  BY <1>1
<1>3. \A m \in 0 .. i : Path(g, s)[m] = Path(f, s)[m]
  BY <1>2, PathAgrees
<1>4. i \in 0 .. i
  BY Constants DEF Index
<1> QED
  BY <1>3, <1>4

(* A cluster is freed only when no chain holds it any more: a reset between *)
(* unlink and free leaves no free cluster in a chain.                       *)
THEOREM FreedIsDetached == Spec => FreesOnlyDetached
<1> DEFINE A == \A c \in Cluster : fat[c] # FREE /\ fat'[c] = FREE =>
                    \A s \in Starts : c \notin Chain(s)
<1>1. Inv /\ [Next]_vars => [A]_fat
  <2> SUFFICES ASSUME Inv, [Next]_vars, NEW c \in Cluster,
                      fat[c] # FREE, fat'[c] = FREE, NEW s \in Starts
               PROVE  c \notin Chain(s)
    OBVIOUS
  <2>1. PICK R \in SUBSET Cluster : Keeps(R)
    BY KeepsSome
  <2>2. c \notin R
    BY <2>1, WordNext, Constants DEF Changed, LinksNew
  <2> QED
    BY <2>1, <2>2, ChainKept
<1>2. Spec => [][A]_fat
  BY <1>1, Invariant, PTL DEF Spec
<1> QED
  BY <1>2 DEF FreesOnlyDetached

(* A step changes no chain but that of the file it works on, unless an      *)
(* append links through a handle whose cluster is not of its file any more. *)
THEOREM OthersUntouched == Spec => OtherChainsKept
<1> DEFINE A == fat' # fat => \A s \in Starts :
                  \/ Chain(s)' = Chain(s)
                  \/ /\ op.h # NoHandle
                     /\ \/ s = handle[op.h].start
                        \/ handle[op.h].cluster \notin Chain(handle[op.h].start)
<1>1. Inv /\ [Next]_vars => [A]_fat
  <2> SUFFICES ASSUME Inv, [Next]_vars, fat' # fat, NEW s \in Starts
               PROVE  \/ Chain(s)' = Chain(s)
                      \/ /\ op.h # NoHandle
                         /\ \/ s = handle[op.h].start
                            \/ handle[op.h].cluster \notin Chain(handle[op.h].start)
    OBVIOUS
  <2>1. PICK R \in SUBSET Cluster : Keeps(R)
    BY KeepsSome
  <2>2. PICK x \in Cluster :
            /\ Changed(x)
            /\ \/ x \notin R
               \/ CutStep /\ x = op.cur /\ op.pc = "cut"
               \/ LinksNew(R, x)
    BY <2>1, WordNext
  <2>3. fat \in Table /\ fat' \in Table /\ s \in Word
    BY <2>1, TypesNext, ChainKept DEF Inv, TypeInv
  <2>4. ASSUME x \notin Chain(s) PROVE Chain(s)' = Chain(s)
    <3>1. \A i \in Index : Path(fat, s)[i] # x
      BY <2>1, <2>4, ChainKept
    <3>2. \A i \in Index : Path(fat', s)[i] = Path(fat, s)[i]
      BY <2>2, <2>3, <3>1, PathKept DEF Changed
    <3> QED
      BY <3>2, ChainIsLinks, ChainIsLinksNext DEF Links
  <2>5. x \notin R => x \notin Chain(s)
    BY <2>1, ChainKept
  <2>6. CASE op.pc \in OnHandle
    <3> DEFINE t == handle[op.h].start
    <3>1. op.h \in Handles /\ op.h # NoHandle
      BY <2>6, MarksAssumption DEF Inv, HandleInv
    <3>2. handle[op.h].valid
      BY <2>6, Zenon DEF Inv, HandleInv
    <3>3. t \in Starts
      BY <3>1, <3>2, OpenStarts
    <3>4. ASSUME x \in Chain(t), s # t PROVE x \notin Chain(s)
      <4>1. \A i \in Index, j \in Index : i <= j \/ j <= i
        BY Constants DEF Index
      <4> HIDE DEF t
      <4> QED
        BY <2>1, <2>3, <3>3, <3>4, <4>1, PathsApart, ChainIsLinks DEF Links, Keeps
    <3>5. x = op.cur /\ op.pc \in {"cut", "growLink"} => x \in Chain(t)
      <4>1. op.n \in Nat /\ op.k \in Int
        BY DEF Inv, TypeInv, Operations
      <4>2. ClustersNeeded(op.n) \in Nat \ {0}
        BY <4>1, NeededTyped
      <4> DEFINE need == ClustersNeeded(op.n)
      <4>3. op.pc = "cut" => /\ need \in 1 .. NumClusters
                             /\ op.cur = Walk(t)[need - 1]
        BY DEF Inv, LengthInv
      <4>4. op.pc = "growLink" => /\ need - op.k \in 1 .. NumClusters
                                  /\ op.cur = Walk(t)[need - op.k - 1]
        BY DEF Inv, LengthInv, Length
      <4> HIDE DEF need, t
      <4>5. op.pc \in {"cut", "growLink"} => \E i \in Index : op.cur = Walk(t)[i]
        BY <4>1, <4>2, <4>3, <4>4, Constants DEF Index, need
      <4> QED
        BY <2>1, <3>3, <4>5, ChainKept, WalkIsPath
    <3>6. CASE CutStep /\ x = op.cur /\ op.pc = "cut"
      BY <2>4, <3>1, <3>4, <3>5, <3>6
    <3>7. CASE LinksNew(R, x)
      <4>1. CASE GrowLinkStep /\ x = op.cur
        <5>1. op.pc = "growLink"
          BY <4>1 DEF GrowLinkStep
        <5> QED
          BY <2>4, <3>1, <3>4, <3>5, <4>1, <5>1
      <4>2. CASE AppendLinkStep /\ x = handle[op.h].cluster
        BY <2>4, <3>1, <3>4, <4>2
      <4>3. CASE SelfLinkStep /\ x = op.new
        BY <2>4, <2>5, <3>7, <4>3 DEF LinksNew
      <4> QED
        BY <3>7, <4>1, <4>2, <4>3 DEF LinksNew
    <3> QED
      BY <2>2, <2>4, <2>5, <3>6, <3>7
  <2>7. CASE op.pc \notin OnHandle
    <3>1. x \notin R
      <4>1. CutStep => op.pc = "cut"
        BY DEF CutStep
      <4>2. GrowLinkStep => op.pc = "growLink"
        BY DEF GrowLinkStep
      <4>3. AppendLinkStep => op.pc = "appendLink"
        BY DEF AppendLinkStep
      <4> QED
        BY <2>2, <2>7, <4>1, <4>2, <4>3 DEF LinksNew, OnHandle, Replacing, Appending
    <3> QED
      BY <2>4, <2>5, <3>1
  <2> QED
    BY <2>6, <2>7
<1>2. Spec => [][A]_fat
  BY <1>1, Invariant, PTL DEF Spec
<1> QED
  BY <1>2 DEF OtherChainsKept

-----------------------------------------------------------------------------
(* Link by link, clusters that no file holds included.  Where malloc fails  *)
(* this does not hold: a cluster that deallocate_cluster had to leave keeps *)
(* its link to the next one, which is freed.                                *)

LinkInv ==
    /\ \A c, d \in Cluster : fat[c] \in Cluster /\ fat[c] = fat[d] => c = d
    /\ \A c \in Cluster : fat[c] \in Cluster => fat[fat[c]] # FREE
    /\ \A s \in Starts, c \in Cluster : fat[c] # s
    /\ op.pc \in Linking => \A c \in Cluster : fat[c] # op.new
    /\ op.pc = "free" /\ op.cur \in Cluster => \A c \in Cluster : fat[c] # op.cur

LEMMA LinkInvNext ==
    ASSUME MallocOutcomes = {TRUE}, Inv, LinkInv, [Next]_vars
    PROVE  LinkInv'
<1>1. fat \in Table /\ fat' \in Table /\ op \in Operations /\ op' \in Operations
  BY TypesNext DEF Inv, TypeInv
<1>2. PICK R \in SUBSET Cluster : Keeps(R)
  BY KeepsSome
<1>3. ASSUME fat' = fat, Starts' \subseteq Starts, op'.pc \notin Linking, op'.pc # "free"
      PROVE  LinkInv'
  BY <1>3 DEF LinkInv
<1>4. ASSUME NEW p \in Slot, Enters(p) PROVE LinkInv'
  <2>1. fat' = fat /\ op' = Idle /\ op.pc \in Linking
    BY <1>4 DEF Enters, Linking
  <2>2. Starts' \subseteq Starts \cup {op.new}
    BY <1>4, StartsNext
  <2> QED
    BY <2>1, <2>2, IdleTyped DEF LinkInv, Linking
<1>5. CASE Fewer(dir, dir')
  <2>1. Starts' \subseteq Starts
    BY <1>5, StartsNext
  <2>2. CASE UNCHANGED vars
    <3>1. fat' = fat /\ op' = op
      BY <2>2 DEF vars
    <3> QED
      BY <2>1, <3>1 DEF LinkInv
  <2>3. CASE Rests
    BY <1>3, <2>1, <2>3 DEF Rests, Quiet, Linking
  <2>4. ASSUME NEW h \in Handles, NEW n \in WriteSizes, Write(h, n) PROVE LinkInv'
    <3>1. op'.pc \in {"cut", "grow", "store"} /\ fat' = fat
      BY <2>4, ControlNext DEF Write
    <3> QED
      BY <1>3, <2>1, <3>1 DEF Linking
  <2>5. ASSUME NEW c \in Cluster, Allocates(c) PROVE LinkInv'
    <3>1. fat[c] = FREE /\ fat' = [fat EXCEPT ![c] = EOC] /\ op'.new = c /\ op'.pc # "free"
      BY <2>5 DEF Allocates, Linking
    <3>2. \A d \in Cluster : fat[d] # c
      BY <3>1 DEF LinkInv
    <3>3. fat'[c] = EOC /\ \A d \in Cluster \ {c} : fat'[d] = fat[d]
      BY <1>1, <3>1 DEF Table
    <3>4. \A s \in Starts : s \in Cluster
      BY <1>2 DEF Keeps, Holds
    <3> QED
      BY <2>1, <3>1, <3>2, <3>3, <3>4, Constants DEF LinkInv
  <2>6. CASE CutStep
    <3>1. /\ op.cur \in Cluster /\ fat' = [fat EXCEPT ![op.cur] = CUT] /\ op'.cur = fat[op.cur]
          /\ op'.pc = "free"
      BY <1>1, <2>6, CurTyped, ControlNext DEF CutStep, Operations
    <3>2. fat'[op.cur] = CUT /\ \A d \in Cluster \ {op.cur} : fat'[d] = fat[d]
      BY <1>1, <3>1 DEF Table
    <3>3. \A s \in Starts : s \in Cluster
      BY <1>2 DEF Keeps, Holds
    <3> QED
      BY <2>1, <3>1, <3>2, <3>3, Constants DEF LinkInv, Linking
  <2>7. CASE FreeStep
    <3>1. op.pc = "free" /\ op'.pc \in {"free", "store"}
      BY <2>7, ControlNext DEF FreeStep
    <3>2. CASE IsEnd(op.cur)
      <4>1. fat' = fat /\ op'.pc = "store"
        BY <1>1, <2>7, <3>2 DEF FreeStep, Operations
      <4> QED
        BY <1>3, <2>1, <4>1 DEF Linking
    <3>3. CASE ~IsEnd(op.cur)
      <4>1. op'.cur = fat[op.cur] /\ fat' = [fat EXCEPT ![op.cur] = FREE]
        BY <1>1, <2>7, <3>3 DEF FreeStep, Operations
      <4>2. op.cur \in Cluster
        BY <3>1, <3>3, CurTyped DEF IsEnd
      <4>3. fat'[op.cur] = FREE /\ \A d \in Cluster \ {op.cur} : fat'[d] = fat[d]
        BY <1>1, <4>1, <4>2 DEF Table
      <4>4. \A d \in Cluster : fat[d] # op.cur
        BY <3>1, <4>2 DEF LinkInv
      <4>5. \A s \in Starts : s \in Cluster
        BY <1>2 DEF Keeps, Holds
      <4> QED
        BY <2>1, <3>1, <4>1, <4>2, <4>3, <4>4, <4>5, Constants DEF LinkInv, Linking
    <3> QED
      BY <3>2, <3>3
  <2>8. ASSUME NEW c, op.pc \in Linking, fat' = Link(c, op.new),
               op'.pc \notin Linking, op'.pc # "free"
        PROVE  LinkInv'
    <3>1. /\ op.new \in Cluster /\ fat[op.new] = EOC /\ op.new \notin Starts
          /\ \A d \in Cluster : fat[d] # op.new
      BY <1>2, <2>8 DEF Keeps, Holds, LinkInv
    <3>2. CASE c \in Cluster
      <4>1. fat' = [fat EXCEPT ![c] = op.new]
        BY <2>8, <3>2 DEF Link
      <4>2. fat'[c] = op.new /\ \A d \in Cluster \ {c} : fat'[d] = fat[d]
        BY <1>1, <3>2, <4>1 DEF Table
      <4> QED
        BY <2>1, <2>8, <3>1, <3>2, <4>2, Constants DEF LinkInv
    <3>3. CASE c \notin Cluster
      BY <1>3, <2>1, <2>8, <3>3 DEF Link
    <3> QED
      BY <3>2, <3>3
  <2>9. CASE GrowLinkStep
    <3>1. op.pc \in Linking /\ fat' = Link(op.cur, op.new)
      BY <2>9 DEF GrowLinkStep, Linking
    <3> QED
      BY <2>8, <2>9, <3>1, ControlNext DEF Linking
  <2>10. CASE AppendLinkStep
    <3>1. op.pc \in Linking /\ fat' = Link(handle[op.h].cluster, op.new)
      BY <2>10 DEF AppendLinkStep, Linking
    <3> QED
      BY <2>8, <2>10, <3>1, ControlNext DEF Linking
  <2>11. CASE SelfLinkStep
    <3>1. op.pc \in Linking /\ fat' = Link(op.new, op.new)
      BY <2>11 DEF SelfLinkStep, Linking
    <3> QED
      BY <2>8, <2>11, <3>1, ControlNext DEF Linking
  <2> QED
    BY <2>2, <2>3, <2>4, <2>5, <2>6, <2>7, <2>9, <2>10, <2>11, TableNext
<1> QED
  BY <1>4, <1>5, EntriesNext

(* While malloc does not fail, no cluster at all, held by a file or left    *)
(* allocated by a reset, links to a free one or to where another links, and *)
(* no entry shares its first cluster.                                       *)
THEOREM LinksStaySound ==
    ASSUME MallocOutcomes = {TRUE}
    PROVE  Spec => []LinksSound
<1>1. Init => LinkInv
  <2> SUFFICES ASSUME Init PROVE LinkInv
    OBVIOUS
  <2>1. \A c \in Cluster :
            /\ fat[c] \in Cluster => fat[c] = c + 1 /\ c + 1 \in RootCluster
            /\ fat[c] # 2
    <3> SUFFICES ASSUME NEW c \in Cluster
                 PROVE  /\ fat[c] \in Cluster => fat[c] = c + 1 /\ c + 1 \in RootCluster
                        /\ fat[c] # 2
      OBVIOUS
    <3>1. c \in Int /\ c >= 2
      BY Constants DEF Cluster
    <3>2. fat[c] = IF c < RootClusters + 1 THEN c + 1
                   ELSE IF c = RootClusters + 1 THEN EOC ELSE FREE
      BY DEF Init
    <3>3. c < RootClusters + 1 => c + 1 \in RootCluster
      BY <3>1, Constants DEF RootCluster
    <3>4. EOC # 2 /\ FREE # 2 /\ c + 1 # 2
      BY <3>1 DEF EOC, FREE
    <3> QED
      BY <3>2, <3>3, <3>4, Constants
  <2>2. \A c \in RootCluster : fat[c] # FREE
    <3>1. RootCluster \in SUBSET Cluster
      BY Constants DEF RootCluster, Cluster
    <3> SUFFICES ASSUME NEW c \in RootCluster PROVE fat[c] # FREE
      OBVIOUS
    <3>2. fat[c] = IF c < RootClusters + 1 THEN c + 1
                   ELSE IF c = RootClusters + 1 THEN EOC ELSE FREE
      BY <3>1 DEF Init
    <3>3. c \in Int /\ c >= 2 /\ c <= RootClusters + 1
      BY Constants DEF RootCluster
    <3> QED
      BY <3>2, <3>3, Constants DEF FREE, EOC
  <2>3. Starts \subseteq {2}
    BY DEF Init, Starts, ZeroEntry, NoFile
  <2>4. op.pc = "idle"
    BY IdleTyped DEF Init
  <2>5. \A c \in Cluster : c \in Int
    BY DEF Cluster
  <2> QED
    BY <2>1, <2>2, <2>3, <2>4, <2>5 DEF LinkInv, Linking
<1>2. Inv /\ LinkInv /\ [Next]_vars => LinkInv'
  BY LinkInvNext
<1>3. Inv /\ LinkInv => LinksSound
  <2> SUFFICES ASSUME Inv, LinkInv PROVE LinksSound
    OBVIOUS
  <2>1. PICK R \in SUBSET Cluster : Keeps(R)
    BY KeepsSome
  <2>2. \A s \in Starts : fat[s] # FREE
    BY <2>1, Constants DEF Keeps, Holds
  <2> QED
    BY <2>2 DEF Inv, EntryInv, LinkInv, LinksSound
<1> QED
  BY <1>1, <1>2, <1>3, Invariant, PTL DEF Spec

-----------------------------------------------------------------------------
(* The directory. *)

(* The steps that change it. *)
Marks ==
    /\ \E p \in Slot : dir' = MarkAfter(p)
    /\ ret'.call \in {"delete_file", "delete_directory"}

PutsBack ==
    /\ \E p \in Slot, z \in 0 .. MaxSize : dir' = PutEntry(p, [dir[p] EXCEPT !.size = z])
    /\ ret'.call = "write"

LEMMA DirNext ==
    ASSUME Inv, [Next]_vars, dir' # dir
    PROVE  CreateStep \/ (op.pc # "create" /\ (Marks \/ PutsBack))
<1>1. handle \in [Handles -> FileHandle] /\ op \in Operations
  BY DEF Inv, TypeInv
<1>2. ~(UNCHANGED vars) /\ ~Crash
  BY DEF vars, Crash
<1>3. CASE Step
  <2>1. ~(CutStep \/ FreeStep \/ GrowStep \/ GrowLinkStep \/ StoreStep \/ AppendLinkStep
               \/ ExtendStep \/ SelfLinkStep)
    BY DEF CutStep, FreeStep, GrowStep, GrowLinkStep, StoreStep, AppendLinkStep,
           ExtendStep, SelfLinkStep, Fails
  <2>2. ~ReadStep
    BY Zenon DEF ReadStep, Fails
  <2>3. CASE EntryStep
    <3>1. op.h \in Handles /\ op.slot \in Slot
      BY <1>1, <2>3 DEF EntryStep, Inv, HandleInv, OnHandle, Operations
    <3>2. handle[op.h].size \in 0 .. MaxSize
      BY <1>1, <3>1 DEF FileHandle
    <3>3. /\ dir' = PutEntry(op.slot, [dir[op.slot] EXCEPT !.size = handle[op.h].size])
          /\ ret' = [call |-> "write", err |-> "SUCCESS"]
      BY <1>2, <2>3, Zenon DEF EntryStep, PutsEntry, Return
    <3> QED
      BY <2>3, <3>1, <3>2, <3>3 DEF PutsBack, EntryStep
  <2> QED
    BY <1>3, <2>1, <2>2, <2>3 DEF Step
<1>4. CASE PathCall
  <2>1. ~ \E n \in Names, isDir \in Kinds, d \in 1 .. RootClusters : Make(n, isDir, d)
    BY Zenon DEF Make, Fails
  <2>2. PICK n \in Names : DeleteDirectory(n)
    BY <1>4, <2>1, Zenon DEF PathCall
  <2>3. \E p \in Slot : dir' = MarkAfter(p)
    BY <2>2, Zenon DEF DeleteDirectory
  <2>4. ret' = [call |-> "delete_directory", err |-> "SUCCESS"]
    BY <2>2 DEF DeleteDirectory, Return
  <2>5. op.pc = "idle"
    BY <2>2 DEF DeleteDirectory, Ready
  <2> QED
    BY <2>3, <2>4, <2>5 DEF Marks
<1>5. ASSUME NEW h \in Handles, HandleCall(h) PROVE op.pc # "create" /\ (Marks \/ PutsBack)
  <2>1. \A n \in WriteSizes : ~Write(h, n)
    BY Zenon DEF Write
  <2>2. \A n \in WriteSizes : ~Append(h, n)
    BY Zenon DEF Append, Fails
  <2>3. \A n \in ReadSizes : ~Read(h, n)
    BY Zenon DEF Read, Fails
  <2>4. \A pos \in SeekPositions : ~Seek(h, pos)
    BY Zenon DEF Seek, Fails
  <2>5. \A n \in Names : ~Open(h, n)
    BY Zenon DEF Open, Fails
  <2>6. ~(Close(h) \/ WriteHangs(h) \/ WriteNoBuffer(h))
    BY Zenon DEF Close, WriteHangs, WriteNoBuffer, Fails
  <2>7. CASE DeleteFile(h)
    <3>1. /\ \E p \in Slot : dir' = MarkAfter(p)
          /\ ret' = [call |-> "delete_file", err |-> "SUCCESS"]
      BY <2>7, Zenon DEF DeleteFile, Fails, Return
    <3> QED
      BY <2>7, <3>1 DEF Marks, DeleteFile, Ready
  <2>8. CASE WriteInsert(h)
    <3>1. /\ \E p \in Slot : dir' = PutEntry(p, [dir[p] EXCEPT !.size = handle[h].size])
          /\ ret' = [call |-> "write", err |-> "NOT_IMPLEMENTED"]
      BY <1>2, <2>8, Zenon DEF WriteInsert, PutsEntry, Return
    <3>2. handle[h].size \in 0 .. MaxSize
      BY <1>1 DEF FileHandle
    <3> QED
      BY <2>8, <3>1, <3>2 DEF PutsBack, WriteInsert, Ready
  <2> QED
    BY <1>5, <2>1, <2>2, <2>3, <2>4, <2>5, <2>6, <2>7, <2>8, Zenon DEF HandleCall
<1> QED
  BY <1>2, <1>3, <1>4, <1>5, Zenon DEF Next, Operation

(* The step that enters what make_file made. *)
LEMMA CreateEnters ==
    ASSUME Inv, CreateStep, dir' # dir \/ (FALSE \notin MallocOutcomes /\ Ready')
    PROVE  \E p \in Slot :
              /\ FirstOf(Vacant(op.parent), p)
              /\ op.name \in Base /\ op.new \in Cluster /\ \A q \in Slot : dir[q].first # op.new
              /\ dir'[p].name = op.name /\ dir'[p].first = op.new
              /\ dir' \in [Slot -> Entry] /\ \A q \in Slot \ {p} : dir'[q] = dir[q]
<1>1. op.pc = "create" /\ dir \in [Slot -> Entry] /\ op \in Operations
  BY DEF CreateStep, Inv, TypeInv
<1>2. PICK p \in Slot :
          /\ FirstOf(Vacant(op.parent), p)
          /\ dir' = [dir EXCEPT ![p] = [name |-> op.name, isDir |-> op.isDir,
                                        first |-> op.new, size |-> 0]]
  <2>1. CASE dir' # dir
    BY <2>1, Zenon DEF CreateStep
  <2>2. CASE FALSE \notin MallocOutcomes /\ Ready'
    <3>1. op' # [op EXCEPT !.pc = "extend"]
      BY <1>1, <2>2 DEF Ready, Operations
    <3> QED
      BY <2>2, <3>1, Zenon DEF CreateStep
  <2> QED
    BY <2>1, <2>2
<1>3. op.name \in Base
  BY <1>1 DEF Inv, EntryInv
<1>4. op.new \in Cluster /\ \A q \in Slot : dir[q].first # op.new
  <2>1. PICK R \in SUBSET Cluster : Keeps(R)
    BY KeepsSome
  <2>2. op.new \in Cluster \ R
    BY <1>1, <2>1 DEF Keeps, Linking
  <2>3. \A q \in Slot : dir[q].first \in Starts \cup {0}
    BY DEF Starts
  <2> QED
    BY <2>1, <2>2, <2>3, Constants DEF Keeps, Holds, FREE
<1> DEFINE e == [name |-> op.name, isDir |-> op.isDir, first |-> op.new, size |-> 0]
<1>5. e \in Entry /\ e.name = op.name /\ e.first = op.new
  BY <1>1, <1>3, <1>4, Constants DEF Entry, Operations
<1> HIDE DEF e
<1>6. /\ dir' \in [Slot -> Entry] /\ dir'[p] = e
      /\ \A q \in Slot \ {p} : dir'[q] = dir[q]
  <2>1. dir' = [dir EXCEPT ![p] = e]
    BY <1>2 DEF e
  <2> QED
    BY <1>1, <1>5, <2>1
<1> QED
  BY <1>2, <1>3, <1>4, <1>5, <1>6

(* The steps by which a make that has its cluster goes on and returns. *)
LEMMA MakeSteps ==
    ASSUME Inv, [Next]_vars,
           \/ op'.pc \in {"extend", "selfLink"}
           \/ ~Ready /\ Ready' /\ ret'.call \in {CallOf(TRUE), CallOf(FALSE)}
    PROVE  UNCHANGED vars \/ CreateStep \/ ExtendStep \/ SelfLinkStep
<1>1. op \in Operations /\ Idle.pc = "idle"
  BY DEF Inv, TypeInv, Idle
<1>2. /\ op' = Idle => Ready'
      /\ Ready' => op'.pc \notin {"extend", "selfLink"}
      /\ ret'.call \in {CallOf(TRUE), CallOf(FALSE)} => ret'.call \notin {"mount", "read", "write"}
  BY <1>1 DEF Ready, CallOf
<1>3. CASE Crash
  BY <1>2, <1>3 DEF Crash
<1>4. ASSUME Step, ~(CreateStep \/ ExtendStep \/ SelfLinkStep)
      PROVE  FALSE
  <2>1. CASE ReadStep
    <3>1. \/ op' = Idle /\ \E e : ret' = [call |-> "read", err |-> e]
          \/ \E r : op' = [op EXCEPT !.n = r]
      BY <2>1, Zenon DEF ReadStep, Fails, Return
    <3>2. op.pc = "read"
      BY <2>1 DEF ReadStep
    <3>3. CASE \E r : op' = [op EXCEPT !.n = r]
      <4>1. op'.pc = "read"
        BY <1>1, <3>2, <3>3 DEF Operations
      <4> QED
        BY <4>1 DEF Ready
    <3>4. CASE op' = Idle /\ \E e : ret' = [call |-> "read", err |-> e]
      <4>1. ret'.call = "read"
        BY <3>4
      <4> QED
        BY <1>2, <3>4, <4>1
    <3> QED
      BY <3>1, <3>3, <3>4
  <2>2. CASE GrowStep
    <3>1. \/ op' = Idle /\ \E e : ret' = [call |-> "write", err |-> e]
          \/ \E b, c : op' = [op EXCEPT !.new = c, !.pc = IF b THEN "growLink" ELSE "appendLink"]
      BY <2>2, Zenon DEF GrowStep, Fails, Return
    <3>2. CASE op' = Idle /\ \E e : ret' = [call |-> "write", err |-> e]
      <4>1. ret'.call = "write"
        BY <3>2
      <4> QED
        BY <1>2, <3>2, <4>1
    <3>3. CASE \E b, c : op' = [op EXCEPT !.new = c, !.pc = IF b THEN "growLink" ELSE "appendLink"]
      <4>1. op'.pc \in {"growLink", "appendLink"}
        BY <1>1, <3>3 DEF Operations
      <4> QED
        BY <4>1 DEF Ready
    <3> QED
      BY <3>1, <3>2, <3>3
  <2>3. CASE StoreStep
    BY <1>1, <2>3 DEF StoreStep, Ready, Operations
  <2>4. CASE EntryStep
    BY <1>2, <2>4 DEF EntryStep, Return
  <2>5. CASE CutStep \/ FreeStep \/ GrowLinkStep \/ AppendLinkStep
    BY <2>5, ControlNext DEF Ready
  <2> QED
    BY <1>4, <2>1, <2>2, <2>3, <2>4, <2>5 DEF Step
<1>5. CASE PathCall
  <2>1. Ready
    BY <1>5, Zenon DEF PathCall, Make, DeleteDirectory
  <2>2. ASSUME NEW n \in Names, NEW isDir \in Kinds, NEW d \in 1 .. RootClusters,
               Make(n, isDir, d)
        PROVE  op'.pc \in {"idle", "create"}
    <3>1. \/ op' = Idle
          \/ \E c : op' = [Idle EXCEPT !.pc = "create", !.name = n.base, !.new = c,
                                       !.isDir = isDir, !.parent = d]
      BY <2>2, Zenon DEF Make, Fails, Return
    <3>2. CASE op' = Idle
      BY <1>1, <3>2
    <3>3. CASE op' # Idle
      BY <3>1, <3>3 DEF Idle
    <3> QED
      BY <3>2, <3>3
  <2>3. ASSUME NEW n \in Names, DeleteDirectory(n) PROVE op' = Idle
    BY <2>3 DEF DeleteDirectory, Return
  <2>4. op'.pc \in {"idle", "create"}
    BY <1>1, <1>5, <2>2, <2>3 DEF PathCall
  <2> QED
    BY <2>1, <2>4
<1>6. ASSUME NEW h \in Handles, HandleCall(h)
      PROVE  FALSE
  <2>1. Ready
    BY <1>6, Zenon DEF HandleCall, Open, Write, Append, Read, Seek, Close, DeleteFile,
                       WriteInsert, WriteHangs, WriteNoBuffer
  <2>2. ASSUME NEW n \in WriteSizes, Append(h, n) PROVE op'.pc \in {"idle", "append", "entry"}
    <3>1. \/ op' = Idle
          \/ \E p, r, b : op' = [Idle EXCEPT !.h = h, !.n = r, !.slot = p,
                                   !.pc = IF b THEN "append" ELSE "entry"]
      BY <2>2, Zenon DEF Append, Fails, Return
    <3>2. CASE op' = Idle
      BY <1>1, <3>2
    <3>3. CASE op' # Idle
      BY <3>1, <3>3 DEF Idle
    <3> QED
      BY <3>2, <3>3
  <2>3. ASSUME NEW n \in ReadSizes, Read(h, n) PROVE op'.pc \in {"idle", "read"}
    <3>1. op' = Idle \/ \E r : op' = [Idle EXCEPT !.pc = "read", !.h = h, !.n = r]
      BY <2>3, Zenon DEF Read, Fails, Return
    <3>2. CASE op' = Idle
      BY <1>1, <3>2
    <3>3. CASE op' # Idle
      BY <3>1, <3>3 DEF Idle
    <3> QED
      BY <3>2, <3>3
  <2>4. CASE WriteHangs(h)
    BY <2>1, <2>4 DEF WriteHangs, Idle
  <2>5. ASSUME NEW pos \in SeekPositions, Seek(h, pos) PROVE op' = Idle
    BY <2>5, Zenon DEF Seek, Fails, Return
  <2>6. ASSUME NEW n \in Names, Open(h, n) PROVE op' = Idle
    BY <2>6, Zenon DEF Open, Fails, Return
  <2>7. CASE Close(h) \/ DeleteFile(h) \/ WriteInsert(h) \/ WriteNoBuffer(h)
    <3>1. op' = Idle
      BY <2>7, Zenon DEF Close, DeleteFile, WriteInsert, WriteNoBuffer, Fails, Return
    <3> QED
      BY <1>2, <2>1, <3>1
  <2>8. op'.pc \in {"idle", "append", "entry", "read", "cut", "grow", "store"}
    BY <1>1, <1>6, <2>1, <2>2, <2>3, <2>4, <2>5, <2>6, <2>7, ControlNext
    DEF HandleCall
  <2> QED
    BY <2>1, <2>8
<1> QED
  BY <1>3, <1>4, <1>5, <1>6 DEF Next, Operation, vars

ParentInv ==
    /\ op.pc = "create" => NoEndBefore(op.parent)
    /\ op.pc \in {"extend", "selfLink"} => Vacant(op.parent) = {}

(* What make returns SUCCESS for is listed: the search for a free slot and  *)
(* the iterator agree on where the directory ends.  Excepted are a search   *)
(* that lacks its buffer and a full directory.                              *)
THEOREM MadeEntersList == Spec => MadeIsListed
<1> DEFINE A == ~Ready /\ Ready' /\ ret'.call \in {CallOf(TRUE), CallOf(FALSE)} =>
                    \/ \E p \in Listed(1)' : dir'[p].first = op.new /\ dir[p].first # op.new
                    \/ FALSE \in MallocOutcomes /\ dir' = dir
                    \/ Vacant(op.parent) = {}
<1>1. Init => ParentInv
  BY IdleTyped DEF Init, ParentInv
<1>2. Inv /\ ParentInv /\ [Next]_vars => ParentInv'
  <2> SUFFICES ASSUME Inv, ParentInv, [Next]_vars
               PROVE  ParentInv'
    OBVIOUS
  <2>1. CASE UNCHANGED vars
    BY <2>1 DEF vars, ParentInv, NoEndBefore, FirstSlot, Vacant
  <2>2. ASSUME op'.pc = "create", ~UNCHANGED vars PROVE NoEndBefore(op.parent)'
    <3>1. CASE \E c \in Cluster : Allocates(c)
      BY <2>2, <3>1 DEF Allocates, NoEndBefore, FirstSlot
    <3> QED
      BY <2>2, <3>1, TableNext, ControlNext DEF Rests, Quiet
  <2>3. ASSUME op'.pc \in {"extend", "selfLink"}, ~UNCHANGED vars PROVE Vacant(op.parent)' = {}
    <3>0. op \in Operations
      BY DEF Inv, TypeInv
    <3>2. CASE CreateStep
      <4>1. op.pc = "create" /\ Idle.pc = "idle"
        BY <3>2 DEF CreateStep, Idle
      <4>2. op' = [op EXCEPT !.pc = "extend"] /\ Vacant(op.parent) = {} /\ UNCHANGED dir
        BY <2>3, <3>2, <4>1, Zenon DEF CreateStep, Return
      <4> QED
        BY <3>0, <4>2 DEF Operations, Vacant, FirstSlot
    <3>3. CASE ExtendStep
      <4>1. op.pc = "extend" /\ Idle.pc = "idle"
        BY <3>3 DEF ExtendStep, Idle
      <4>2. UNCHANGED dir /\ \E c : op' = [op EXCEPT !.pc = "selfLink", !.new = c]
        BY <2>3, <3>3, <4>1, Zenon DEF ExtendStep, Fails, Return
      <4> QED
        BY <3>0, <4>1, <4>2 DEF ParentInv, Operations, Vacant, FirstSlot
    <3>4. CASE SelfLinkStep
      BY <2>3, <3>4, ControlNext
    <3> QED
      BY <2>3, <3>2, <3>3, <3>4, MakeSteps
  <2> QED
    BY <2>1, <2>2, <2>3 DEF ParentInv
<1>3. Inv /\ ParentInv /\ [Next]_vars => [A]_vars
  <2> SUFFICES ASSUME Inv, ParentInv, [Next]_vars, ~Ready, Ready',
                      ret'.call \in {CallOf(TRUE), CallOf(FALSE)},
                      dir' # dir \/ FALSE \notin MallocOutcomes, Vacant(op.parent) # {}
               PROVE  \E p \in Listed(1)' : dir'[p].first = op.new /\ dir[p].first # op.new
    OBVIOUS
  <2>1. CreateStep
    BY MakeSteps DEF ParentInv, ExtendStep, SelfLinkStep, Ready, vars
  <2>2. PICK p \in Slot :
              /\ FirstOf(Vacant(op.parent), p)
              /\ op.name \in Base /\ op.new \in Cluster /\ \A q \in Slot : dir[q].first # op.new
              /\ dir'[p].name = op.name /\ dir'[p].first = op.new
              /\ \A q \in Slot \ {p} : dir'[q] = dir[q]
    BY <2>1, CreateEnters
  <2>0. op.pc = "create"
    BY <2>1 DEF CreateStep
  <2>3. op.parent \in 1 .. RootClusters
    BY DEF Inv, TypeInv, Operations
  <2>4. FirstSlot(op.parent) \in Nat /\ FirstSlot(1) = 1 /\ p \in Nat
    BY <2>3, FirstSlots DEF Slot
  <2>5. op.name \notin {END, DELETED}
    BY <2>2, MarksAssumption
  <2>6. ASSUME NEW q \in 1 .. p, q # p PROVE dir'[q].name # END
    <3>1. q \in Slot /\ q < p /\ q \in Nat
      <4>1. RootClusters * ClusterSlots \in Nat
        BY Constants
      <4> QED
        BY <2>4, <2>6, <4>1 DEF Slot
    <3>2. CASE q < FirstSlot(op.parent)
      BY <2>0, <2>2, <2>6, <3>1, <3>2 DEF ParentInv, NoEndBefore
    <3>3. CASE ~(q < FirstSlot(op.parent))
      <4>1. q \notin Vacant(op.parent)
        BY <2>2, <2>4, <3>1 DEF FirstOf
      <4>2. dir[q].name # END
        BY <2>4, <3>1, <3>3, <4>1 DEF Vacant
      <4> QED
        BY <2>2, <2>6, <3>1, <4>2
    <3> QED
      BY <3>2, <3>3
  <2>7. p \in Listed(1)'
    <3>1. Listed(1)' = {r \in Slot : /\ FirstSlot(1) <= r /\ dir'[r].name \notin {END, DELETED}
                                     /\ \A q \in FirstSlot(1) .. r : dir'[q].name # END}
      BY DEF Listed, Used, FirstSlot
    <3>2. FirstSlot(1) <= p /\ FirstSlot(1) .. p = 1 .. p
      BY <2>4 DEF Slot
    <3> QED
      BY <2>2, <2>5, <2>6, <3>1, <3>2
  <2> QED
    BY <2>2, <2>7
<1>4. Spec => [][A]_vars
  BY <1>1, <1>2, <1>3, Invariant, PTL DEF Spec
<1> QED
  BY <1>4 DEF MadeIsListed

(* Slots whose name up to p is no END before a step, and after it.          *)
LEMMA StaysListed ==
    ASSUME NEW p \in Listed(1), Used(dir[p])',
           \A q \in Slot : q <= p => dir'[q].name # END
    PROVE  p \in Listed(1)'
<1>1. p \in Slot /\ p \in Nat /\ FirstSlot(1) = 1 /\ 1 .. p \subseteq Slot
  <2>1. RootClusters * ClusterSlots \in Nat /\ p \in Slot
    BY Constants DEF Listed
  <2> QED
    BY <2>1, FirstSlots DEF Slot
<1>2. Listed(1)' = {r \in Slot : /\ FirstSlot(1) <= r /\ Used(dir[r])'
                                 /\ \A q \in FirstSlot(1) .. r : dir'[q].name # END}
  BY DEF Listed, FirstSlot, Used
<1>3. FirstSlot(1) <= p /\ \A q \in FirstSlot(1) .. p : dir'[q].name # END
  BY <1>1 DEF Slot
<1> QED
  BY <1>1, <1>2, <1>3

LEMMA ListedSlots ==
    ASSUME NEW p \in Listed(1)
    PROVE  /\ p \in Slot /\ Used(dir[p])
           /\ \A q \in Slot : q <= p => dir[q].name # END
<1>1. p \in Slot /\ Used(dir[p]) /\ \A q \in FirstSlot(1) .. p : dir[q].name # END
  BY DEF Listed
<1> QED
  BY <1>1, FirstSlots DEF Slot

(* What was listed stays listed with its first cluster, but for what delete *)
(* marks and what a write that puts an entry back wipes behind it.          *)
THEOREM ListedStays == Spec => EntriesKept
<1> DEFINE A == \A p \in Listed(1) :
                  \/ p \in Listed(1)' /\ dir'[p].first = dir[p].first
                  \/ dir'[p].name = DELETED /\ ret'.call \in {"delete_file", "delete_directory"}
                  \/ /\ ret'.call = "write"
                     /\ \E q, r \in Slot : /\ q < r /\ r <= p /\ SameSector(q, r)
                                           /\ dir'[r] = ZeroEntry
<1>1. Inv /\ [Next]_vars => [A]_dir
  <2> SUFFICES ASSUME Inv, [Next]_vars, dir' # dir, NEW p \in Listed(1)
               PROVE
                  \/ p \in Listed(1)' /\ dir'[p].first = dir[p].first
                  \/ dir'[p].name = DELETED /\ ret'.call \in {"delete_file", "delete_directory"}
                  \/ /\ ret'.call = "write"
                     /\ \E q, r \in Slot : /\ q < r /\ r <= p /\ SameSector(q, r)
                                           /\ dir'[r] = ZeroEntry
    OBVIOUS
  <2>1. dir \in [Slot -> Entry]
    BY DEF Inv, TypeInv
  <2>2. p \in Slot /\ Used(dir[p]) /\ \A q \in Slot : q <= p => dir[q].name # END
    BY ListedSlots
  <2>3. ASSUME dir'[p].name = dir[p].name, dir'[p].first = dir[p].first,
               \A q \in Slot : q <= p => dir'[q].name # END
        PROVE  p \in Listed(1)' /\ dir'[p].first = dir[p].first
    <3>1. Used(dir[p])'
      BY <2>2, <2>3 DEF Used
    <3> QED
      BY <2>3, <3>1, StaysListed
  <2>4. CASE CreateStep
    <3>1. PICK r \in Slot :
              /\ FirstOf(Vacant(op.parent), r)
              /\ op.name \in Base /\ dir'[r].name = op.name
              /\ \A q \in Slot \ {r} : dir'[q] = dir[q]
      BY <2>4, CreateEnters
    <3>2. dir'[r].name # END /\ p # r
      BY <2>2, <3>1, MarksAssumption DEF FirstOf, Vacant, Used
    <3> QED
      BY <2>2, <2>3, <3>1, <3>2
  <2>5. CASE Marks
    <3>1. PICK q \in Slot : dir' = MarkAfter(q)
      BY <2>5 DEF Marks
    <3>2. q + 1 \in Slot /\ dir' = [dir EXCEPT ![q + 1].name = DELETED]
      BY <3>1 DEF MarkAfter
    <3> DEFINE r == q + 1
    <3>3. r \in Slot /\ dir[r] \in Entry
      BY <2>1, <3>2
    <3> HIDE DEF r
    <3>4. dir' = [dir EXCEPT ![r].name = DELETED]
      BY <3>2 DEF r
    <3>5. /\ dir'[r].name = DELETED /\ dir'[r].first = dir[r].first
          /\ \A t \in Slot \ {r} : dir'[t] = dir[t]
      BY <2>1, <3>3, <3>4 DEF Entry
    <3>6. CASE p = r
      BY <2>5, <3>5, <3>6 DEF Marks
    <3>7. CASE p # r
      <4>1. DELETED # END
        BY DEF DELETED, END
      <4> QED
        BY <2>2, <2>3, <3>5, <3>7, <4>1
    <3> QED
      BY <3>6, <3>7
  <2>6. CASE PutsBack
    <3>1. PICK s \in Slot, z \in 0 .. MaxSize : dir' = PutEntry(s, [dir[s] EXCEPT !.size = z])
      BY <2>6 DEF PutsBack
    <3> DEFINE e == [dir[s] EXCEPT !.size = z]
    <3>2. e.first = dir[s].first /\ e.name = dir[s].name
      <4>1. dir[s] \in Entry
        BY <2>1
      <4> QED
        BY <4>1 DEF Entry
    <3> HIDE DEF e
    <3>3. \A q \in Slot : dir'[q] = IF q = s THEN e
                                    ELSE IF SameSector(s, q) /\ s < q THEN ZeroEntry ELSE dir[q]
      BY <3>1 DEF PutEntry, e
    <3>4. CASE \E r \in Slot : s < r /\ r <= p /\ SameSector(s, r)
      <4>1. PICK r \in Slot : s < r /\ r <= p /\ SameSector(s, r)
        BY <3>4
      <4>2. r # s
        BY <4>1 DEF Slot
      <4>3. dir'[r] = ZeroEntry
        BY <3>3, <4>1, <4>2
      <4> QED
        BY <2>6, <4>1, <4>3 DEF PutsBack
    <3>5. CASE ~ \E r \in Slot : s < r /\ r <= p /\ SameSector(s, r)
      <4>1. ASSUME NEW q \in Slot, q <= p
            PROVE  dir'[q].name = dir[q].name /\ dir'[q].first = dir[q].first
        BY <3>2, <3>3, <3>5, <4>1
      <4>2. p <= p
        BY <2>2 DEF Slot
      <4> QED
        BY <2>2, <2>3, <4>1, <4>2
    <3> QED
      BY <3>4, <3>5
  <2> QED
    BY <2>4, <2>5, <2>6, DirNext
<1>2. Spec => [][A]_dir
  BY <1>1, Invariant, PTL DEF Spec
<1> QED
  BY <1>2 DEF EntriesKept

-----------------------------------------------------------------------------
(* The cluster a handle is in. *)

(* What a step makes of an open handle's place. *)
PlaceSame(h) ==
    /\ handle'[h].cluster = handle[h].cluster
    /\ handle'[h].start = handle[h].start /\ handle'[h].position = handle[h].position

PlaceFirst(h) ==
    handle'[h].cluster = handle'[h].start /\ handle'[h].position = 0

PlaceSought(h) ==
    /\ Ready /\ Ready' /\ ret'.call = "seek" /\ fat' = fat
    /\ \E pos \in 0 .. MaxSize :
          /\ handle'[h].start = handle[h].start /\ handle'[h].position = pos
          /\ handle'[h].cluster \in SeekReach(h)[pos \div ClusterBytes]
          /\ pos \div ClusterBytes = 0 \/ ~IsEnd(handle'[h].cluster)

PlaceRead(h) ==
    LET at == handle[h].position % ClusterBytes
        m == LeastOf(op.n, ClusterBytes - at)
        pos == handle[h].position + m
    IN  /\ op.pc = "read" /\ op.n # 0 /\ op'.n = op.n - m /\ fat' = fat
        /\ handle'[h].start = handle[h].start /\ handle'[h].position = pos
        /\ handle'[h].cluster \in IF Follows(pos, m) THEN NextOf(handle[h].cluster)
                                  ELSE {handle[h].cluster}

LEMMA PlaceMoved ==
    ASSUME Inv, NEW h \in Handles, NEW g \in Handles, NEW c, NEW pos, handle' = Moved(g, c, pos)
    PROVE  IF g = h
           THEN /\ handle'[h].cluster = c /\ handle'[h].position = pos
                /\ handle'[h].start = handle[h].start
           ELSE PlaceSame(h)
<1>1. handle \in [Handles -> FileHandle]
  BY DEF Inv, TypeInv
<1> DEFINE f == [handle[g] EXCEPT !.cluster = c, !.position = pos]
<1>2. f.start = handle[g].start /\ f.cluster = c /\ f.position = pos
  BY <1>1 DEF FileHandle
<1> HIDE DEF f
<1>3. handle' = [handle EXCEPT ![g] = f]
  BY DEF Moved, f
<1> QED
  BY <1>1, <1>2, <1>3 DEF PlaceSame

LEMMA PlaceNext ==
    ASSUME Inv, [Next]_vars, NEW h \in Handles, handle'[h].valid
    PROVE  PlaceSame(h) \/ PlaceFirst(h) \/ PlaceSought(h) \/ PlaceRead(h) \/ AppendLinkStep
<1>1. handle \in [Handles -> FileHandle] /\ op \in Operations
  BY DEF Inv, TypeInv
<1>2. handle' = handle => PlaceSame(h)
  BY DEF PlaceSame
<1>3. CASE UNCHANGED vars
  BY <1>2, <1>3 DEF vars
<1>4. CASE Crash
  <2>1. handle'[h] = NoFile
    BY <1>4 DEF Crash
  <2> QED
    BY <2>1 DEF NoFile
<1>5. CASE Step
  <2>1. CASE CutStep \/ FreeStep \/ GrowStep \/ GrowLinkStep \/ EntryStep \/ CreateStep
               \/ ExtendStep \/ SelfLinkStep
    <3>1. handle' = handle
      BY <2>1 DEF CutStep, FreeStep, GrowStep, GrowLinkStep, EntryStep, CreateStep,
                  ExtendStep, SelfLinkStep, Fails
    <3> QED
      BY <1>2, <3>1
  <2>2. CASE StoreStep
    <3>1. op.h \in Handles
      BY <2>2 DEF StoreStep, Inv, HandleInv, OnHandle, Replacing
    <3> DEFINE g == op.h
               f == [handle[g] EXCEPT !.size = handle[g].size + op.n,
                                      !.cluster = handle[g].start, !.position = 0]
    <3>2. f.cluster = f.start /\ f.position = 0
      BY <1>1, <3>1 DEF FileHandle
    <3> HIDE DEF f
    <3>3. handle' = [handle EXCEPT ![g] = f]
      BY <2>2 DEF StoreStep, f
    <3> QED
      BY <1>1, <3>1, <3>2, <3>3 DEF PlaceSame, PlaceFirst
  <2>3. CASE ReadStep
    <3>1. op.h \in Handles
      BY <2>3 DEF ReadStep, Inv, HandleInv, OnHandle
    <3> DEFINE at == handle[op.h].position % ClusterBytes
               m == LeastOf(op.n, ClusterBytes - at)
               pos == handle[op.h].position + m
    <3>2. CASE handle' = handle
      BY <1>2, <3>2
    <3>3. CASE /\ op.pc = "read" /\ op.n # 0
               /\ \E c \in IF Follows(pos, m)
                           THEN NextOf(handle[op.h].cluster) ELSE {handle[op.h].cluster} :
                    /\ handle' = Moved(op.h, c, pos)
                    /\ op' = [op EXCEPT !.n = op.n - m]
                    /\ UNCHANGED <<fat, dir, ret>>
      <4>1. PICK c \in IF Follows(pos, m)
                       THEN NextOf(handle[op.h].cluster) ELSE {handle[op.h].cluster} :
                    /\ handle' = Moved(op.h, c, pos)
                    /\ op' = [op EXCEPT !.n = op.n - m]
                    /\ UNCHANGED <<fat, dir, ret>>
        BY <3>3
      <4>2. op'.n = op.n - m
        <5> HIDE DEF m
        <5> QED
          BY <1>1, <4>1 DEF Operations
      <4> HIDE DEF pos, m
      <4>3. CASE op.h = h
        <5>1. /\ handle'[h].cluster = c /\ handle'[h].position = pos
              /\ handle'[h].start = handle[h].start
          BY <3>1, <4>1, <4>3, PlaceMoved
        <5>2. PlaceRead(op.h)
          BY <3>3, <4>1, <4>2, <4>3, <5>1 DEF PlaceRead, pos, m
        <5> QED
          BY <4>3, <5>2
      <4>4. CASE op.h # h
        BY <3>1, <4>1, <4>4, PlaceMoved
      <4> QED
        BY <4>3, <4>4
    <3> QED
      BY <2>3, <3>2, <3>3, Zenon DEF ReadStep, Fails
  <2> QED
    BY <1>5, <2>1, <2>2, <2>3 DEF Step
<1>6. CASE PathCall
  <2>1. handle' = handle
    BY <1>6, Zenon DEF PathCall, Make, DeleteDirectory, Fails
  <2> QED
    BY <1>2, <2>1
<1>7. ASSUME NEW g \in Handles, HandleCall(g)
      PROVE  PlaceSame(h) \/ PlaceFirst(h) \/ PlaceSought(h)
  <2>1. ASSUME NEW n \in WriteSizes, Write(g, n) PROVE handle' = handle
    BY <2>1 DEF Write
  <2>2. ASSUME NEW n \in ReadSizes, Read(g, n) PROVE handle' = handle
    BY <2>2, Zenon DEF Read, Fails
  <2>3. CASE DeleteFile(g) \/ WriteInsert(g) \/ WriteHangs(g) \/ WriteNoBuffer(g)
    <3>1. handle' = handle
      BY <2>3, Zenon DEF DeleteFile, WriteInsert, WriteHangs, WriteNoBuffer, Fails
    <3> QED
      BY <1>2, <3>1
  <2>4. ASSUME NEW n \in WriteSizes, Append(g, n) PROVE PlaceSame(h)
    <3>1. handle' = handle \/ \E z : handle' = [handle EXCEPT ![g].size = z]
      BY <2>4, Zenon DEF Append, Fails
    <3> QED
      BY <1>1, <1>2, <3>1 DEF FileHandle, PlaceSame
  <2>5. CASE Close(g)
    <3>1. handle' = [handle EXCEPT ![g].valid = FALSE]
      BY <2>5 DEF Close
    <3> QED
      BY <1>1, <3>1 DEF FileHandle, PlaceSame
  <2>6. ASSUME NEW n \in Names, Open(g, n) PROVE PlaceSame(h) \/ PlaceFirst(h)
    <3>1. \/ handle' = handle
          \/ \E p \in Slot : handle' = [handle EXCEPT ![g] =
                         [valid |-> TRUE, cluster |-> dir[p].first,
                          start |-> dir[p].first, parent |-> DirCluster(p),
                          position |-> 0, size |-> dir[p].size]]
      BY <2>6, Zenon DEF Open, Fails
    <3> QED
      BY <1>1, <1>2, <3>1 DEF PlaceSame, PlaceFirst
  <2>7. ASSUME NEW pos \in SeekPositions, Seek(g, pos)
        PROVE  PlaceSame(h) \/ PlaceFirst(h) \/ PlaceSought(h)
    <3> DEFINE links == pos \div ClusterBytes
    <3>1. CASE handle' = handle
      BY <1>2, <3>1
    <3>2. CASE handle' = Moved(g, handle[g].start, 0)
      BY <3>2, PlaceMoved DEF PlaceFirst
    <3>3. CASE /\ Return("seek", "SUCCESS") /\ Ready /\ fat' = fat /\ ~(pos > handle[g].size)
               /\ \E c \in SeekReach(g)[links] :
                    (links = 0 \/ ~IsEnd(c)) /\ handle' = Moved(g, c, pos)
      <4>1. PICK c \in SeekReach(g)[links] :
                    (links = 0 \/ ~IsEnd(c)) /\ handle' = Moved(g, c, pos)
        BY <3>3
      <4>2. op' = Idle /\ ret' = [call |-> "seek", err |-> "SUCCESS"]
        BY <3>3 DEF Return
      <4>3. Ready /\ Ready' /\ ret'.call = "seek" /\ fat' = fat
        BY <3>3, <4>2, IdleTyped DEF Ready
      <4>4. pos \in 0 .. MaxSize
        BY <1>1, <3>3, FatAssumption DEF FileHandle
      <4>5. CASE g = h
        <5>1. /\ handle'[h].cluster = c /\ handle'[h].position = pos
              /\ handle'[h].start = handle[h].start
          BY <4>1, <4>5, PlaceMoved
        <5>2. /\ handle'[h].cluster \in SeekReach(h)[pos \div ClusterBytes]
              /\ pos \div ClusterBytes = 0 \/ ~IsEnd(handle'[h].cluster)
          BY <4>1, <4>5, <5>1
        <5> QED
          BY <4>3, <4>4, <5>1, <5>2 DEF PlaceSought
      <4>6. CASE g # h
        BY <4>1, <4>6, PlaceMoved
      <4> QED
        BY <4>5, <4>6
    <3> QED
      BY <2>7, <3>1, <3>2, <3>3, Zenon DEF Seek, Fails
  <2> QED
    BY <1>2, <1>7, <2>1, <2>2, <2>3, <2>4, <2>5, <2>6, <2>7, Zenon DEF HandleCall
<1> QED
  BY <1>3, <1>4, <1>5, <1>6, <1>7, Zenon DEF Next, Operation

(* From its first cluster, seek follows the chain and nothing else. *)
LEMMA SeekFollows ==
    ASSUME Inv, NEW h \in Handles, handle[h].valid, NEW s, s = handle[h].start,
           handle[h].cluster = s
    PROVE  \A i \in 0 .. MaxSize : \A c \in SeekReach(h)[i] :
              i \in Index /\ c = Path(fat, s)[i]
<1> DEFINE r == SeekReach(h)
           T == {i \in 0 .. MaxSize : \A c \in r[i] : i \in Index /\ c = Path(fat, s)[i]}
<1>1. /\ r[0] = {s}
      /\ \A i \in 1 .. MaxSize :
            r[i] = UNION {NextOf(c) : c \in IF i = 1 THEN r[0] ELSE {d \in r[i - 1] : ~IsEnd(d)}}
  <2>1. TypeInv
    BY DEF Inv
  <2> QED
    BY <2>1, ReachTyped
<1>2. PICK R \in SUBSET Cluster : Keeps(R)
  BY KeepsSome
<1>3. s \in Starts /\ s \in Cluster /\ s \in Word /\ fat \in Table
  BY OpenStarts DEF Inv, TypeInv
<1>4. /\ Path(fat, s)[0] = s
      /\ \A i \in 1 .. NumClusters :
            Path(fat, s)[i] = IF Path(fat, s)[i - 1] \in Cluster
                              THEN fat[Path(fat, s)[i - 1]] ELSE Path(fat, s)[i - 1]
  BY <1>3, PathSteps
<1>5. /\ Path(fat, s)[NumClusters] \in {EOC, CUT}
      /\ \A i \in Index : Path(fat, s)[i] \in R \cup {EOC, CUT}
  BY <1>2, <1>3, PathEnds DEF Keeps
<1> HIDE DEF r
<1>6. 0 \in T
  BY <1>1, <1>4, Constants DEF Index
<1>7. ASSUME NEW i \in 1 .. MaxSize, i - 1 \in T
      PROVE  i \in T
  <2> SUFFICES ASSUME NEW c \in r[i] PROVE i \in Index /\ c = Path(fat, s)[i]
    BY Constants
  <2>1. PICK d \in r[i - 1] : c \in NextOf(d) /\ (i = 1 \/ ~IsEnd(d))
    <3>1. c \in UNION {NextOf(d) : d \in IF i = 1 THEN r[0] ELSE {d \in r[i - 1] : ~IsEnd(d)}}
      BY <1>1
    <3>2. i = 1 => i - 1 = 0
      OBVIOUS
    <3> QED
      BY <3>1, <3>2
  <2>2. i - 1 \in Index /\ d = Path(fat, s)[i - 1]
    BY <1>7, <2>1
  <2>3. d \in Cluster
    <3>1. i = 1 => d = s
      BY <1>4, <2>2
    <3> QED
      BY <1>3, <1>5, <2>1, <2>2, <3>1 DEF IsEnd
  <2>4. i - 1 # NumClusters
    BY <1>5, <2>2, <2>3, Constants
  <2>5. i \in Index /\ i \in 1 .. NumClusters
    BY <2>2, <2>4, Constants DEF Index
  <2>6. Path(fat, s)[i] = fat[d]
    BY <1>4, <2>2, <2>3, <2>5
  <2> QED
    BY <2>1, <2>3, <2>5, <2>6 DEF NextOf
<1> HIDE DEF T
<1>8. 0 .. MaxSize \subseteq T
  BY <1>6, <1>7, Constants, UpTo
<1> QED
  BY <1>8 DEF T, r

LEMMA PlaceIs ==
    ASSUME NEW h \in Handles, InPlace(h), NEW s, s = handle[h].start
    PROVE  /\ handle[h].position \div ClusterBytes \in Index
           /\ handle[h].cluster = Path(fat, s)[handle[h].position \div ClusterBytes]
BY WalkIsPath DEF InPlace, ClusterOfByte, Index

LEMMA PlaceIsNext ==
    ASSUME NEW h \in Handles, handle'[h].valid, NEW s, s = handle'[h].start,
           NEW i \in Index, handle'[h].position \div ClusterBytes = i,
           handle'[h].cluster = Path(fat', s)[i]
    PROVE  InPlace(h)'
<1>1. ClusterOfByte(h, handle[h].position)' = Path(fat', s)[i]
  BY DEF ClusterOfByte, Walk, Path, Index
<1>2. /\ handle'[h].position \div ClusterBytes \in 0 .. NumClusters
      /\ handle'[h].cluster = ClusterOfByte(h, handle[h].position)'
  BY <1>1 DEF Index
<1> QED
  BY <1>2, Zenon DEF InPlace

(* Steps that change the table leave the chain up to the handle as it is,   *)
(* but for the cut of a write and the link of an append.                    *)
LEMMA ChainBefore ==
    ASSUME Inv, [Next]_vars, op.pc # "cut", ~AppendLinkStep,
           NEW s \in Starts, NEW i \in Index, Path(fat, s)[i] \in Cluster
    PROVE  Path(fat', s)[i] = Path(fat, s)[i]
<1>1. PICK R \in SUBSET Cluster : Keeps(R)
  BY KeepsSome
<1>2. fat \in Table /\ fat' \in Table /\ s \in Word
  BY <1>1, TypesNext, ChainKept DEF Inv, TypeInv
<1>3. CASE fat' = fat
  BY <1>3
<1>4. ASSUME NEW x \in Cluster, Changed(x), fat[x] \notin Cluster
      PROVE  Path(fat', s)[i] = Path(fat, s)[i]
  BY <1>2, <1>4, PathUpTo DEF Changed
<1>5. ASSUME NEW x \in Cluster, Changed(x), x \notin R
      PROVE  Path(fat', s)[i] = Path(fat, s)[i]
  <2>1. \A j \in Index : Path(fat, s)[j] # x
    BY <1>1, <1>5, ChainKept, Constants
  <2> QED
    BY <1>2, <1>5, <2>1, PathKept DEF Changed
<1>6. ASSUME NEW x \in Cluster, Changed(x), LinksNew(R, x)
      PROVE  Path(fat', s)[i] = Path(fat, s)[i]
  <2>1. CASE GrowLinkStep /\ x = op.cur
    <3>1. fat[x] \notin Cluster
      <4>1. op.pc = "growLink"
        BY <2>1 DEF GrowLinkStep
      <4> QED
        BY <2>1, <4>1 DEF Inv, LengthInv, Length
    <3> QED
      BY <1>4, <1>6, <3>1
  <2>2. CASE SelfLinkStep /\ x = op.new
    <3>1. fat[x] \notin Cluster
      BY <1>1, <1>6, <2>2, Constants DEF LinksNew, Keeps
    <3> QED
      BY <1>4, <1>6, <3>1
  <2> QED
    BY <1>6, <2>1, <2>2 DEF LinksNew
<1> QED
  BY <1>1, <1>3, <1>4, <1>5, <1>6, WordNext, Constants

LEMMA PlaceReadOn ==
    ASSUME Inv, NEW h \in Handles, handle[h].valid, InPlace(h), handle[h].cluster \in Cluster,
           handle'[h].valid, PlaceRead(h)
    PROVE  InPlace(h)' \/ (op'.n = 0 /\ handle'[h].position % ClusterBytes = 0)
<1> DEFINE pos == handle[h].position   at == pos % ClusterBytes   i == pos \div ClusterBytes
           m == LeastOf(op.n, ClusterBytes - at)
<1>1. pos \in Nat /\ op.n \in Nat /\ op.n # 0
  BY Constants DEF PlaceRead, Inv, TypeInv, FileHandle, Operations
<1>2. PICK s : s = handle[h].start
  OBVIOUS
<1>3. i \in Index /\ handle[h].cluster = Path(fat, s)[i]
  BY <1>2, PlaceIs
<1>4. s \in Starts /\ s \in Word /\ fat \in Table
  BY <1>2, OpenStarts DEF Inv, TypeInv
<1>5. /\ op'.n = op.n - m /\ fat' = fat
      /\ handle'[h].start = s /\ handle'[h].position = pos + m
      /\ handle'[h].cluster \in IF Follows(pos + m, m) THEN NextOf(handle[h].cluster)
                                ELSE {handle[h].cluster}
  BY <1>2 DEF PlaceRead
<1> HIDE DEF pos
<1>6. at \in 0 .. (ClusterBytes - 1)
  BY <1>1, Constants, Quotient
<1>7. m \in 0 .. (ClusterBytes - at) /\ m # 0 /\ m \in 0 .. op.n
  <2> HIDE DEF at
  <2> QED
    BY <1>1, <1>6, Constants DEF LeastOf
<1>8. IF (pos + m) % ClusterBytes = 0
      THEN (pos + m) \div ClusterBytes = i + 1
      ELSE (pos + m) \div ClusterBytes = i
  <2> HIDE DEF m
  <2> QED
    BY <1>1, <1>7, Constants, QuotientStep
<1> HIDE DEF m, at, i
<1>9. CASE Follows(pos + m, m)
  <2>1. (pos + m) \div ClusterBytes = i + 1
    BY <1>8, <1>9 DEF Follows
  <2>2. handle'[h].cluster = fat[Path(fat, s)[i]] /\ Path(fat, s)[i] \in Cluster
    BY <1>3, <1>5, <1>9 DEF NextOf
  <2>3. PICK R \in SUBSET Cluster : Keeps(R)
    BY KeepsSome
  <2>4. i # NumClusters
    BY <1>4, <2>2, <2>3, PathEnds, Constants DEF Keeps
  <2>5. PICK j \in 1 .. NumClusters : j = i + 1 /\ j - 1 = i
    BY <1>3, <2>4, Constants DEF Index
  <2>6. Path(fat, s)[j] = fat[Path(fat, s)[i]]
    BY <1>4, <2>2, <2>5, PathSteps
  <2>7. j \in Index
    BY <2>5, Constants DEF Index
  <2> QED
    BY <1>5, <2>1, <2>2, <2>5, <2>6, <2>7, PlaceIsNext
<1>10. CASE ~Follows(pos + m, m) /\ (pos + m) % ClusterBytes # 0
  BY <1>3, <1>5, <1>8, <1>10, PlaceIsNext
<1>11. CASE ~Follows(pos + m, m) /\ (pos + m) % ClusterBytes = 0
  <2>1. op'.n = 0
    BY <1>1, <1>5, <1>7, <1>11 DEF Follows
  <2> QED
    BY <1>5, <1>11, <2>1
<1> QED
  BY <1>9, <1>10, <1>11

(* A handle stays in the cluster its position lies in, until it is read     *)
(* past the end of the chain, but for the four operations that lose it.     *)
THEOREM HandlesStayInPlace == Spec => PlaceKept
<1> DEFINE A == \A h \in Handles : InPlace(h) /\ handle[h].cluster \in Cluster =>
                  \/ InPlace(h)' \/ ~handle'[h].valid
                  \/ /\ op.pc = "read" /\ op'.n = 0
                     /\ handle'[h].position % ClusterBytes = 0
                  \/ /\ ret'.call = "seek" /\ Ready /\ Ready'
                     /\ handle[h].cluster # handle[h].start
                  \/ op.pc = "appendLink"
                  \/ op.pc = "cut"
<1>1. Inv /\ [Next]_vars => [A]_vars
  <2> SUFFICES ASSUME Inv, [Next]_vars, NEW h \in Handles, InPlace(h),
                      handle[h].cluster \in Cluster, handle'[h].valid,
                      op.pc # "appendLink", op.pc # "cut"
               PROVE  \/ InPlace(h)'
                      \/ /\ op.pc = "read" /\ op'.n = 0
                         /\ handle'[h].position % ClusterBytes = 0
                      \/ /\ ret'.call = "seek" /\ Ready /\ Ready'
                         /\ handle[h].cluster # handle[h].start
    OBVIOUS
  <2>1. handle[h].valid
    BY Zenon DEF InPlace
  <2>2. PICK s : s = handle[h].start
    OBVIOUS
  <2>3. s \in Starts /\ s \in Cluster /\ s \in Word /\ fat \in Table
    BY <2>1, <2>2, OpenStarts DEF Inv, TypeInv
  <2>4. PICK i : i = handle[h].position \div ClusterBytes
    OBVIOUS
  <2>5. i \in Index /\ handle[h].cluster = Path(fat, s)[i]
    BY <2>2, <2>4, PlaceIs
  <2>6. ~AppendLinkStep
    BY DEF AppendLinkStep
  <2>7. CASE PlaceSame(h)
    <3>1. Path(fat', s)[i] = Path(fat, s)[i]
      BY <2>3, <2>5, <2>6, ChainBefore
    <3>2. /\ handle'[h].start = s /\ handle'[h].position \div ClusterBytes = i
          /\ handle'[h].cluster = Path(fat', s)[i]
      BY <2>2, <2>4, <2>5, <2>7, <3>1 DEF PlaceSame
    <3> QED
      BY <2>5, <3>2, PlaceIsNext
  <2>8. CASE PlaceFirst(h)
    <3>1. PICK t : t = handle'[h].start
      OBVIOUS
    <3>2. t \in Starts /\ t \in Cluster
      BY <3>1, HandlesNext
    <3>3. t \in Word /\ fat' \in Table
      BY <3>2, TypesNext DEF Word, TypeInv
    <3>4. Path(fat', t)[0] = t
      BY <3>3, PathSteps
    <3>5. 0 \in Index /\ 0 \div ClusterBytes = 0
      BY Constants DEF Index
    <3>6. handle'[h].position \div ClusterBytes = 0 /\ handle'[h].cluster = Path(fat', t)[0]
      BY <2>8, <3>1, <3>4, <3>5 DEF PlaceFirst
    <3> QED
      BY <3>1, <3>5, <3>6, PlaceIsNext
  <2>9. CASE PlaceSought(h)
    <3>1. CASE handle[h].cluster # handle[h].start
      BY <2>9, <3>1 DEF PlaceSought
    <3>2. CASE handle[h].cluster = s
      <4>1. PICK pos \in 0 .. MaxSize :
                /\ handle'[h].start = handle[h].start /\ handle'[h].position = pos
                /\ handle'[h].cluster \in SeekReach(h)[pos \div ClusterBytes]
        BY <2>9 DEF PlaceSought
      <4>2. PICK j : j = pos \div ClusterBytes
        OBVIOUS
      <4>3. j \in 0 .. MaxSize
        <5>1. j \in 0 .. pos
          BY <4>2, Constants, Quotient
        <5> QED
          BY <5>1, Constants
      <4>4. j \in Index /\ handle'[h].cluster = Path(fat, s)[j]
        BY <2>1, <2>2, <3>2, <4>1, <4>2, <4>3, SeekFollows
      <4>5. fat' = fat
        BY <2>9 DEF PlaceSought
      <4> QED
        BY <2>2, <4>1, <4>2, <4>4, <4>5, PlaceIsNext
    <3> QED
      BY <2>2, <3>1, <3>2
  <2>10. CASE PlaceRead(h)
    <3>1. op.pc = "read"
      BY <2>10 DEF PlaceRead
    <3> QED
      BY <2>1, <2>10, <3>1, PlaceReadOn
  <2> QED
    BY <2>6, <2>7, <2>8, <2>9, <2>10, PlaceNext
<1>2. Spec => [][A]_vars
  BY <1>1, Invariant, PTL DEF Spec
<1> QED
  BY <1>2 DEF PlaceKept

-----------------------------------------------------------------------------
(* The directory iterator. *)

(* Slots by their clusters. *)
LEMMA ClusterSlotsOf ==
    /\ \A d \in 1 .. RootClusters : SlotsOf(d) \subseteq Slot
    /\ \A d \in 1 .. RootClusters, p \in Slot : DirCluster(p) = d <=> p \in SlotsOf(d)
<1> SUFFICES ASSUME NEW d \in 1 .. RootClusters
             PROVE  /\ SlotsOf(d) \subseteq Slot
                    /\ \A p \in Slot : DirCluster(p) = d <=> p \in SlotsOf(d)
  OBVIOUS
<1> DEFINE N == ClusterSlots   A == (d - 1) * N
<1>1. d \in Nat /\ N \in Nat \ {0} /\ RootClusters * N \in Nat /\ A \in Nat
  <2>1. d - 1 \in Nat /\ N \in Nat \ {0} /\ RootClusters \in Nat
    BY Constants
  <2>2. \A a, b \in Nat : a * b \in Nat
    OBVIOUS
  <2> QED
    BY <2>1, <2>2
<1>2. A + N = d * N /\ A + N <= RootClusters * N
  <2>1. d \in Int /\ N \in Nat /\ RootClusters \in Int /\ d <= RootClusters
    BY <1>1, Constants
  <2>2. (d - 1) * N = d * N - N
    BY <2>1
  <2>3. d * N <= RootClusters * N /\ d * N \in Int
    BY <2>1
  <2> QED
    BY <2>1, <2>2, <2>3
<1>3. FirstSlot(d) = A + 1 /\ FirstSlot(d + 1) - 1 = A + N
  <2>1. ((d + 1) - 1) * N = d * N
    BY <1>1
  <2> QED
    BY <1>1, <1>2, <2>1 DEF FirstSlot
<1>4. SlotsOf(d) = (A + 1) .. (A + N)
  BY <1>3 DEF SlotsOf
<1> DEFINE K == RootClusters * N
<1>5. Slot = 1 .. K
  BY DEF Slot
<1>6. A \in Nat /\ N \in Nat /\ K \in Nat /\ A + N <= K
  BY <1>1, <1>2
<1>7. ASSUME NEW p \in Slot PROVE DirCluster(p) = d <=> p \in SlotsOf(d)
  <2> DEFINE q == (p - 1) \div N   r == (p - 1) % N
  <2>1. p - 1 \in Nat /\ p \in Nat
    BY <1>5, <1>6
  <2>2. q \in 0 .. (p - 1) /\ r \in 0 .. (N - 1) /\ p - 1 = N * q + r
    BY <1>1, <2>1, Quotient
  <2>3. DirCluster(p) = q + 1
    BY DEF DirCluster
  <2> HIDE DEF q, r, N
  <2>4. q \in Nat /\ d - 1 \in Nat
    BY <1>1, <2>1, <2>2, Constants
  <2>5. CASE q = d - 1
    <3>1. N * q = A
      BY <1>1, <2>4, <2>5
    <3>2. p = A + r + 1 /\ q + 1 = d
      BY <1>1, <1>6, <2>1, <2>2, <2>5, <3>1
    <3> HIDE DEF A
    <3> QED
      BY <1>4, <1>6, <2>2, <2>3, <3>2
  <2>6. CASE q < d - 1
    <3>1. N * (q + 1) <= N * (d - 1) /\ N * (q + 1) = N * q + N /\ N * (d - 1) = A
      BY <1>1, <2>4, <2>6
    <3>2. N * q \in Int
      BY <1>1, <2>4
    <3> HIDE DEF A
    <3>3. p <= A
      BY <1>6, <2>1, <2>2, <3>1, <3>2
    <3> QED
      BY <1>1, <1>4, <1>6, <2>1, <2>3, <2>4, <2>6, <3>3
  <2>7. CASE q > d - 1
    <3>1. N * q >= N * d /\ N * d = A + N
      BY <1>1, <1>2, <2>4, <2>7
    <3>2. N * q \in Int
      BY <1>1, <2>4
    <3> HIDE DEF A
    <3>3. p > A + N
      BY <1>6, <2>1, <2>2, <3>1, <3>2
    <3> QED
      BY <1>1, <1>4, <1>6, <2>1, <2>3, <2>4, <2>7, <3>3
  <2> QED
    BY <2>4, <2>5, <2>6, <2>7
<1> HIDE DEF A, K, N
<1>8. SlotsOf(d) \subseteq Slot
  BY <1>4, <1>5, <1>6
<1> QED
  BY <1>7, <1>8

(* The calls of an iterator change nothing of the driver's: what is proved  *)
(* of Spec holds of the driver with an iterator held open.                  *)
THEOREM ListingImplements == ListSpec => Spec
<1>1. ListInit => Init
  BY DEF ListInit
<1>2. [ListNext]_<<vars, listVars>> => [Next]_vars
  <2> SUFFICES ASSUME [ListNext]_<<vars, listVars>> PROVE [Next]_vars
    OBVIOUS
  <2>1. CASE OpenDirectory \/ NextEntry \/ Reset \/ CloseDirectory
    <3>1. OpenDirectory => UNCHANGED vars
      BY Zenon DEF OpenDirectory, Start
    <3>2. NextEntry => UNCHANGED vars
      BY Zenon DEF NextEntry
    <3>3. Reset \/ CloseDirectory => UNCHANGED vars
      BY Zenon DEF Reset, Start, CloseDirectory
    <3> QED
      BY <2>1, <3>1, <3>2, <3>3
  <2>2. CASE OtherCall \/ ListCrash
    BY <2>2 DEF OtherCall, ListCrash, Next
  <2>3. CASE UNCHANGED <<vars, listVars>>
    BY <2>3
  <2> QED
    BY <2>1, <2>2, <2>3 DEF ListNext
<1> QED
  BY <1>1, <1>2, PTL DEF ListSpec, Spec

(* The iterator is at a slot of the cluster it holds a copy of, or before   *)
(* the first.                                                               *)
IterInv ==
    /\ times \in [Slot -> 0 .. 1] /\ iter.at \in Nat /\ iter.cluster \in 1 .. RootClusters
    /\ \A p \in Slot : times[p] = 1 => p <= iter.at
    /\ iter.open \in BOOLEAN /\ iter.finished \in BOOLEAN
    /\ DOMAIN iter = {"open", "finished", "at", "cluster", "buf"}

(* What was there all along is listed, and what the iterator holds copied   *)
(* shows no end before it; the iterator has passed it only if returned.     *)
SteadyInv ==
    \A p \in steady :
        /\ p \in Listed(1)
        /\ p <= iter.at => times[p] = 1
        /\ iter.finished => p <= iter.at
        /\ \A q \in SlotsOf(iter.cluster) : q <= p => iter.buf[q].name # END
        /\ p \in SlotsOf(iter.cluster) => Used(iter.buf[p])

LEMMA CopyShows ==
    ASSUME NEW d \in 1 .. RootClusters, NEW p \in Listed(1)
    PROVE  /\ \A q \in SlotsOf(d) : q <= p => Load(d)[q].name # END
           /\ p \in SlotsOf(d) => Used(Load(d)[p])
BY ListedSlots, ClusterSlotsOf DEF Load

(* What the iterator sees up to a slot that was there all along. *)
LEMMA SeenSteady ==
    ASSUME IterInv, SteadyInv, NEW p \in steady
    PROVE  /\ p \in Slot /\ Used(Seen(p))
           /\ \A q \in Slot : q <= p => Seen(q).name # END
<1>1. p \in Listed(1) /\ iter.cluster \in 1 .. RootClusters
  BY DEF IterInv, SteadyInv
<1>2. p \in Slot /\ Used(dir[p]) /\ \A q \in Slot : q <= p => dir[q].name # END
  BY <1>1, ListedSlots
<1>3. \A q \in Slot : DirCluster(q) = iter.cluster <=> q \in SlotsOf(iter.cluster)
  BY <1>1, ClusterSlotsOf
<1>4. ASSUME NEW q \in Slot, q <= p PROVE Seen(q).name # END
  BY <1>2, <1>3, <1>4 DEF Seen, SteadyInv
<1>5. Used(Seen(p))
  BY <1>2, <1>3 DEF Seen, SteadyInv
<1> QED
  BY <1>2, <1>4, <1>5

LEMMA ListingInit ==
    ASSUME ListInit
    PROVE  IterInv /\ SteadyInv
<1>1. 1 \in 1 .. RootClusters
  BY Constants
<1>2. IterInv
  BY <1>1 DEF ListInit, IterInv, Closed
<1> QED
  BY <1>2 DEF ListInit, SteadyInv

LEMMA ListingNext ==
    ASSUME IterInv, SteadyInv, [ListNext]_<<vars, listVars>>
    PROVE  IterInv' /\ SteadyInv'
<1>1. 1 \in 1 .. RootClusters
  BY Constants
<1>2. \A p \in Slot : p \in Nat /\ p >= 1
  <2>1. RootClusters * ClusterSlots \in Nat
    BY Constants
  <2> QED
    BY <2>1 DEF Slot
<1>3. ASSUME iter' = Closed, times' = [p \in Slot |-> 0], steady' = {}
      PROVE  IterInv' /\ SteadyInv'
  <2>1. IterInv'
    BY <1>1, <1>3 DEF IterInv, Closed
  <2> QED
    BY <1>3, <2>1 DEF SteadyInv
<1>4. CASE Start
  <2>1. /\ iter' = [open |-> TRUE, finished |-> FALSE, at |-> 0, cluster |-> 1, buf |-> Load(1)]
        /\ times' = [p \in Slot |-> 0] /\ steady' = Listed(1) /\ dir' = dir
    BY <1>4 DEF Start, vars
  <2>2. IterInv'
    BY <1>1, <2>1 DEF IterInv
  <2>3. Listed(1)' = Listed(1)
    BY <2>1 DEF Listed
  <2>4. iter'.at = 0 /\ ~iter'.finished /\ iter'.cluster = 1 /\ iter'.buf = Load(1)
    BY <2>1
  <2>5. ASSUME NEW p \in Listed(1)
        PROVE  /\ ~(p <= 0)
               /\ \A q \in SlotsOf(1) : q <= p => Load(1)[q].name # END
               /\ p \in SlotsOf(1) => Used(Load(1)[p])
    BY <1>1, <1>2, CopyShows, ListedSlots
  <2>6. \A q : Used(iter'.buf[q]) <=> Used(Load(1)[q])
    BY <2>4
  <2>7. SteadyInv'
    BY <2>1, <2>3, <2>4, <2>5, <2>6 DEF SteadyInv, SlotsOf, FirstSlot, Used
  <2> QED
    BY <2>2, <2>7
<1>5. CASE CloseDirectory \/ ListCrash
  BY <1>3, <1>5 DEF CloseDirectory, ListCrash
<1>6. CASE UNCHANGED <<vars, listVars>>
  <2>1. iter' = iter /\ times' = times /\ steady' = steady /\ dir' = dir
    BY <1>6 DEF vars, listVars
  <2>2. IterInv'
    BY <2>1 DEF IterInv
  <2>3. SteadyInv'
    BY <2>1 DEF SteadyInv, SlotsOf, FirstSlot, Used, Listed
  <2> QED
    BY <2>2, <2>3
<1>7. CASE OtherCall
  <2>1. /\ iter' = iter /\ times' = times
        /\ steady' = {p \in steady : p \in Listed(1)' /\ dir'[p].first = dir[p].first}
    BY <1>7 DEF OtherCall
  <2>2. IterInv'
    BY <2>1 DEF IterInv
  <2>3. SteadyInv'
    BY <2>1 DEF SteadyInv, SlotsOf, FirstSlot, Used
  <2> QED
    BY <2>2, <2>3
<1>8. CASE NextEntry
  <2>1. dir' = dir /\ steady' = steady /\ Listed(1)' = Listed(1)
    <3>1. UNCHANGED <<vars, steady>>
      BY <1>8, Zenon DEF NextEntry
    <3>2. dir' = dir /\ steady' = steady
      BY <3>1 DEF vars
    <3> QED
      BY <3>2 DEF Listed, FirstSlot, Used
  <2>2. CASE /\ Ahead = {} \/ \E p \in Slot : FirstOf(Ahead, p) /\ Seen(p).name = END
             /\ iter' = [iter EXCEPT !.finished = TRUE]
             /\ UNCHANGED times
    <3>1. /\ iter'.at = iter.at /\ iter'.cluster = iter.cluster /\ iter'.buf = iter.buf
          /\ iter'.open = iter.open /\ iter'.finished = TRUE /\ DOMAIN iter' = DOMAIN iter
      BY <2>2 DEF IterInv
    <3>2. IterInv'
      BY <2>2, <3>1 DEF IterInv
    <3>3. ASSUME NEW p \in steady PROVE p <= iter.at
      <4> SUFFICES ASSUME ~(p <= iter.at) PROVE FALSE
        OBVIOUS
      <4>1. p \in Slot /\ Used(Seen(p)) /\ \A q \in Slot : q <= p => Seen(q).name # END
        BY SeenSteady
      <4>2. p \in Ahead
        BY <1>2, <4>1 DEF Ahead, Used, IterInv
      <4>3. PICK q \in Slot : FirstOf(Ahead, q) /\ Seen(q).name = END
        BY <2>2, <4>2
      <4> QED
        BY <4>1, <4>2, <4>3 DEF FirstOf
    <3>4. SteadyInv'
      BY <2>1, <2>2, <3>1, <3>3 DEF SteadyInv, SlotsOf, FirstSlot, Used
    <3> QED
      BY <3>2, <3>4
  <2>3. ASSUME NEW p \in Slot, FirstOf(Ahead, p), Seen(p).name # END, ~iter.finished,
               iter' = [iter EXCEPT !.at = p, !.cluster = DirCluster(p),
                           !.buf = IF DirCluster(p) = iter.cluster THEN iter.buf
                                   ELSE Load(DirCluster(p))],
               times' = [times EXCEPT ![p] = LeastOf(times[p] + 1, 2)]
        PROVE  IterInv' /\ SteadyInv'
    <3> DEFINE d == DirCluster(p)
               b == IF d = iter.cluster THEN iter.buf ELSE Load(d)
    <3>1. d \in 1 .. RootClusters
      BY SlotCluster
    <3> HIDE DEF d, b
    <3>2. iter' = [iter EXCEPT !.at = p, !.cluster = d, !.buf = b]
      BY <2>3 DEF d, b
    <3>3. /\ iter'.at = p /\ iter'.cluster = d /\ iter'.buf = b
          /\ iter'.open = iter.open /\ iter'.finished = iter.finished
          /\ DOMAIN iter' = DOMAIN iter
      BY <3>2 DEF IterInv
    <3>4. iter.at < p /\ p \in Nat /\ iter.at \in Nat
      BY <1>2, <2>3 DEF FirstOf, Ahead, IterInv
    <3>5. times[p] = 0
      BY <3>4 DEF IterInv
    <3>6. times' = [times EXCEPT ![p] = 1]
      BY <2>3, <3>5 DEF LeastOf
    <3>7. /\ times' \in [Slot -> 0 .. 1] /\ times'[p] = 1
          /\ \A q \in Slot \ {p} : times'[q] = times[q]
      BY <3>6 DEF IterInv
    <3>8. ASSUME NEW q \in Slot, times'[q] = 1 PROVE q <= p
      BY <1>2, <3>4, <3>7, <3>8 DEF IterInv
    <3>9. IterInv'
      BY <3>1, <3>3, <3>4, <3>7, <3>8 DEF IterInv
    <3>10. ASSUME NEW q \in steady
           PROVE  /\ q \in Listed(1) /\ q <= p => times'[q] = 1
                  /\ \A r \in SlotsOf(d) : r <= q => b[r].name # END
                  /\ q \in SlotsOf(d) => Used(b[q])
      <4>1. q \in Slot /\ Used(Seen(q)) /\ q \in Listed(1)
        BY SeenSteady DEF SteadyInv
      <4>2. ASSUME q <= p, q # p PROVE times'[q] = 1
        <5>1. q \notin Ahead
          BY <1>2, <2>3, <4>1, <4>2 DEF FirstOf
        <5>2. q <= iter.at
          BY <1>2, <3>4, <4>1, <5>1 DEF Ahead, Used
        <5> QED
          BY <3>7, <4>1, <4>2, <5>2 DEF SteadyInv
      <4>3. /\ \A r \in SlotsOf(d) : r <= q => b[r].name # END
            /\ q \in SlotsOf(d) => Used(b[q])
        <5>1. CASE d = iter.cluster
          BY <5>1 DEF SteadyInv, b
        <5>2. CASE d # iter.cluster
          BY <3>1, <4>1, <5>2, CopyShows DEF b
        <5> QED
          BY <5>1, <5>2
      <4> QED
        BY <3>7, <4>1, <4>2, <4>3
    <3>11. \A q : Used(iter'.buf[q]) <=> Used(b[q])
      BY <3>3
    <3>12. SteadyInv'
      BY <2>1, <2>3, <3>3, <3>10, <3>11 DEF SteadyInv, SlotsOf, FirstSlot, Used
    <3> QED
      BY <3>9, <3>12
  <2>4. ~iter.finished
    BY <1>8, Zenon DEF NextEntry
  <2>5. \/ /\ Ahead = {} \/ \E p \in Slot : FirstOf(Ahead, p) /\ Seen(p).name = END
           /\ iter' = [iter EXCEPT !.finished = TRUE]
           /\ UNCHANGED times
        \/ \E p \in Slot :
              /\ FirstOf(Ahead, p) /\ Seen(p).name # END
              /\ iter' = [iter EXCEPT !.at = p, !.cluster = DirCluster(p),
                            !.buf = IF DirCluster(p) = iter.cluster THEN iter.buf
                                    ELSE Load(DirCluster(p))]
              /\ times' = [times EXCEPT ![p] = LeastOf(times[p] + 1, 2)]
    BY <1>8, Zenon DEF NextEntry
  <2> QED
    BY <2>2, <2>3, <2>4, <2>5, Zenon
<1>9. CASE OpenDirectory
  BY <1>4, <1>6, <1>9 DEF OpenDirectory
<1>10. CASE Reset
  BY <1>4, <1>10 DEF Reset
<1> QED
  BY <1>5, <1>6, <1>7, <1>8, <1>9, <1>10 DEF ListNext

(* A listing returns each entry that was there all along, and none twice,   *)
(* whatever was made, written and deleted in between.                       *)
THEOREM ListingsComplete == ListSpec => []ListingComplete
<1>1. ListInit => IterInv /\ SteadyInv
  BY ListingInit
<1>2. IterInv /\ SteadyInv /\ [ListNext]_<<vars, listVars>> => IterInv' /\ SteadyInv'
  BY ListingNext
<1>3. IterInv /\ SteadyInv => ListingComplete
  BY DEF IterInv, SteadyInv, ListingComplete
<1> QED
  BY <1>1, <1>2, <1>3, PTL DEF ListSpec

(* With an iterator open, as without, entries are lost only by delete and   *)
(* by the rewriting of a sector.                                            *)
THEOREM EntriesStay == ListSpec => EntriesKept
BY ListingImplements, ListedStays, PTL
=============================================================================
