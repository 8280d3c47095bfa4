----------------------------- MODULE Fat12_proofs -----------------------------
(***************************************************************************)
(* Theorems about the driver under its commands (Fat12), for any size of   *)
(* volume, directory and file, any names and paths, and a process that may *)
(* stop at any moment: types, and that the caches of the driver and the    *)
(* two copies of the table agree when they should.                         *)
(***************************************************************************)
EXTENDS Fat12, FatTable_proofs, TLAPS

-----------------------------------------------------------------------------
(* Tables, for a first cluster that may be anything: the bytes of a file    *)
(* can be read as an entry.                                                 *)

\* Following what is no cluster leads nowhere.
LEMMA NoChain ==
    ASSUME NEW t, NEW c, c \notin Clusters
    PROVE  Chain(t, c) = <<>>
<1> DEFINE g == [i \in 1 .. LastCluster |-> IF i = 1 THEN c ELSE Eof]
           w == Walk(t, c)
           T == {i \in 1 .. LastCluster : w[i] \notin Clusters}
<1>0. \A i \in 1 .. LastCluster : i # 1 => i - 1 \in 1 .. LastCluster
  BY LastClusterAssumption
<1>1. g = [i \in 1 .. LastCluster |-> IF i = 1 THEN c ELSE NextCluster(t, g[i - 1])]
  <2>1. \A i \in 1 .. LastCluster : g[i] = IF i = 1 THEN c ELSE NextCluster(t, g[i - 1])
    BY <1>0, Marks DEF NextCluster
  <2> QED BY <2>1
<1>2. w = [i \in 1 .. LastCluster |-> IF i = 1 THEN c ELSE NextCluster(t, w[i - 1])]
  BY <1>1 DEF Walk
<1> HIDE DEF w
<1>3. 1 .. LastCluster \subseteq T
  <2>1. 1 \in T
    BY <1>2, LastClusterAssumption
  <2>2. ASSUME NEW i \in 1 .. LastCluster - 1, i \in T PROVE i + 1 \in T
    <3>1. i + 1 \in 1 .. LastCluster /\ i + 1 # 1 /\ (i + 1) - 1 = i
      BY LastClusterAssumption
    <3>2. w[i + 1] = NextCluster(t, w[i])
      BY <3>1, <1>2
    <3> QED BY <3>1, <3>2, <2>2, Marks DEF NextCluster
  <2> HIDE DEF T
  <2> QED BY <2>1, <2>2, LastClusterAssumption, UpTo
<1>4. {j \in 1 .. LastCluster : w[j] \in Clusters} = {}
  BY <1>3
<1>5. Chain(t, c) = [i \in {j \in 1 .. LastCluster : w[j] \in Clusters} |-> w[i]]
  BY DEF Chain, w
<1> QED
  BY <1>4, <1>5

\* A chain is a sequence of clusters, whatever it starts with.
LEMMA ChainType ==
    ASSUME NEW t \in Table, NEW c
    PROVE  Chain(t, c) \in Seq(Clusters) /\ Len(Chain(t, c)) \in Nat
<1>1. CASE c \in Clusters
  <2>1. c \in Link
    BY <1>1, Marks
  <2> QED BY <2>1, ChainFacts
<1>2. CASE c \notin Clusters
  <2>1. Chain(t, c) = <<>>
    BY <1>2, NoChain
  <2> QED BY <2>1
<1> QED
  BY <1>1, <1>2

\* Linking any list of clusters leaves a table.
LEMMA LinkedType ==
    ASSUME NEW t \in Table, NEW s \in Seq(Clusters)
    PROVE  Linked(t, s) \in Table
<1>1. ASSUME NEW c \in Clusters
      PROVE  (IF c \notin ToSet(s) THEN t[c]
              ELSE LET i == CHOOSE j \in DOMAIN s : s[j] = c
                   IN  IF i = Len(s) THEN Eof ELSE s[i + 1]) \in Link
  <2>1. CASE c \notin ToSet(s)
    BY <2>1 DEF Table
  <2>2. CASE c \in ToSet(s)
    <3> DEFINE i == CHOOSE j \in DOMAIN s : s[j] = c
    <3>1. \E j \in DOMAIN s : s[j] = c
      BY <2>2 DEF ToSet
    <3>2. i \in DOMAIN s
      BY <3>1
    <3> HIDE DEF i
    <3>3. i = Len(s) \/ s[i + 1] \in Clusters
      BY <3>2
    <3> QED BY <2>2, <3>3, Marks DEF i
  <2> QED BY <2>1, <2>2
<1> QED
  BY <1>1 DEF Linked, Table

\* fat12_reallocate_cluster_chain leaves a table.
LEMMA ReallocateType ==
    ASSUME NEW t \in Table, NEW c, NEW n \in Nat, CanReallocate(t, c, n)
    PROVE  Reallocate(t, c, n) \in Table
<1> DEFINE chain == Chain(t, c)
           kept  == SubSeq(chain, 1, n + 1)
           freed == ToSet(chain) \ ToSet(kept)
           u     == [x \in Clusters |-> IF x \in freed THEN Free ELSE t[x]]
           more  == LowestFree(t, Missing(t, c, n))
<1>1. chain \in Seq(Clusters) /\ Len(chain) \in Nat
  BY ChainType
<1>2. Missing(t, c, n) \in Nat /\ Missing(t, c, n) <= Cardinality(FreeClusters(t))
  BY <1>1 DEF Missing, CanReallocate
<1>3. more \in Seq(Clusters)
  BY <1>2, LowestFreeFacts
<1>4. u \in Table
  BY DEF Table, Link
<1>5. n < Len(chain) => kept \in Seq(Clusters)
  <2> HIDE DEF chain
  <2> QED BY <1>1
<1>6. chain \o more \in Seq(Clusters)
  BY <1>1, <1>3
<1>7. Reallocate(t, c, n) = IF n < Len(chain) THEN Linked(u, kept) ELSE Linked(t, chain \o more)
  BY DEF Reallocate
<1> HIDE DEF chain, kept, u, more
<1> QED
  BY <1>1, <1>4, <1>5, <1>6, <1>7, LinkedType

\* What is taken from a table in which there is room is a cluster.
LEMMA StartType ==
    ASSUME NEW t \in Table, NEW c, NEW n \in Nat, CanReallocate(t, c, n), n # 0
    PROVE  IF c = Eof THEN ReallocateStart(t, c, n) \in Clusters
                      ELSE ReallocateStart(t, c, n) = c
<1>1. CASE c = Eof
  <2>1. c \notin Clusters /\ c # RootCluster
    BY <1>1, Marks DEF Eof, RootCluster
  <2>0. Len(Chain(t, c)) = 0
    <3>1. Chain(t, c) = <<>>
      BY <2>1, NoChain
    <3> QED BY <3>1
  <2>2. Missing(t, c, n) = n
    BY <2>1, <2>0 DEF Missing
  <2>3. Cardinality(FreeClusters(t)) \in Nat
    BY FreeFinite
  <2>4. 1 <= Cardinality(FreeClusters(t))
    BY <2>2, <2>3 DEF CanReallocate
  <2>5. LowestFree(t, 1)[1] \in Clusters
    BY <2>4, LowestFreeFacts DEF FreeClusters
  <2> QED BY <1>1, <2>5 DEF ReallocateStart
<1>2. CASE c # Eof
  BY <1>2 DEF ReallocateStart
<1> QED
  BY <1>1, <1>2

-----------------------------------------------------------------------------
(* Entries, directories and the steps of a command.                         *)

\* An entry marked as a directory is in use, and names a cluster or the root directory,
\* which is what fat12_load_directory is given.
NodeEntry == {e \in EntrySet :
                 e.dir => e.state = "used" /\ e.first \in Clusters \cup {RootCluster}}

ClusterEntries == [1 .. SlotsPerCluster -> NodeEntry]

Lookups == [do : {"get"}, name : DOMAIN Short, make : {"none", "file", "dir"}]
Moves   == [do : {"enter", "descend"}, name : DOMAIN Short]
Others  == [do : {"resize", "fetch", "drop", "root", "back", "into"}]
Writes  == [do : {"fat1", "fat2", "dir"}]
Stores  == [do : {"store"}, at : Nat, contents : ClusterEntries]
Steps   == Lookups \cup Moves \cup Others \cup Writes \cup Stores

\* A list of steps that begins with k device writes: clusters of a file or a
\* directory, then a flush.  After them none is left; a directory that was looked
\* for is made in the next step, and entered when it was made.
Ordered(t, k) ==
    /\ t \in Seq(Steps)
    /\ k \in 0 .. Len(t)
    /\ \A i \in 1 .. Len(t) :
          /\ i > k      => t[i] \in Lookups \cup Moves \cup Others
          /\ i = k      => t[i].do = "dir"
          /\ i = k - 1  => t[i].do = "fat2"
          /\ i = k - 2  => t[i].do = "fat1"
          /\ i < k - 2  => t[i] \in Stores
          /\ t[i].do = "into" => i = k + 1 \/ (k = 0 /\ i = 2 /\ t[1].do = "get" /\ t[1].make = "dir")
          /\ t[i].do = "get" /\ t[i].make = "dir" => k = 0 /\ i = 1 /\ Len(t) >= 2 /\ t[2].do = "into"
          /\ t[i].do = "descend" => i = k + 1 \/ (i > 1 /\ t[i - 1] = Get(t[i].name, "none"))

\* The sizes of a directory and of the device.
LEMMA Spans ==
    /\ DirSpan \in Nat /\ DirSpan >= 1
    /\ SlotsPerCluster \in Nat /\ SlotsPerCluster >= 2
    /\ Slots(DirSpan) \in Nat /\ Slots(DirSpan) >= SlotsPerCluster
    /\ DeviceClusters = 2 .. (LastCluster + DirSpan)
<1>1. /\ DirSpan \in Nat /\ DirSpan >= 1
      /\ SlotsPerCluster \in Nat /\ SlotsPerCluster >= 2
  BY SpanAssumption
<1>2. DirSpan * SlotsPerCluster \in Nat /\ DirSpan * SlotsPerCluster >= 1 * SlotsPerCluster
  BY <1>1
<1> QED
  BY <1>1, <1>2 DEF Slots, DeviceClusters

\* Unused and deleted entries, and a cluster of them.
LEMMA BlankType ==
    /\ Unused \in NodeEntry /\ Deleted \in NodeEntry
    /\ Blank \in ClusterEntries
<1>1. Unused \in EntrySet /\ Deleted \in EntrySet
  BY DEF Unused, Deleted, Entry, EntrySet, EntryNames, Eof, RootCluster
<1>2. Unused.dir = FALSE /\ Deleted.dir = FALSE
  BY DEF Unused, Deleted, Entry
<1>3. Unused \in NodeEntry /\ Deleted \in NodeEntry
  BY <1>1, <1>2 DEF NodeEntry
<1> QED
  BY <1>3 DEF Blank, ClusterEntries

\* The entries . and .. of a new directory.
LEMMA DotsType ==
    ASSUME NEW c \in Clusters
    PROVE  Dots(c) \in ClusterEntries
<1> DEFINE own == Entry("used", ".", TRUE, c, 0)
           up  == Entry("used", "..", TRUE, RootCluster, 0)
<1>1. c \in Nat /\ RootCluster \in Nat
  BY Marks DEF Clusters, RootCluster
<1>2. own \in EntrySet /\ up \in EntrySet
  BY <1>1 DEF Entry, EntrySet, EntryNames
<1>3. own.first = c /\ up.first = RootCluster /\ own.state = "used" /\ up.state = "used"
  BY DEF Entry
<1>4. own \in NodeEntry /\ up \in NodeEntry
  <2> HIDE DEF own, up
  <2> QED BY <1>2, <1>3 DEF NodeEntry
<1>5. 1 \in 1 .. SlotsPerCluster /\ 2 \in 1 .. SlotsPerCluster
  BY Spans
<1> QED
  BY <1>4, <1>5, BlankType DEF Dots, ClusterEntries

\* A cluster of a file, read as entries.
LEMMA ContentsType ==
    ASSUME NEW n \in FileNames, NEW len \in Nat, NEW i \in Nat
    PROVE  Contents(n, len, i) \in ClusterEntries
<1>1. Text[n] \in EntryNames
  BY DEF EntryNames
<1>2. Entry("used", Text[n], FALSE, len, i) \in NodeEntry
  BY <1>1 DEF Entry, EntrySet, NodeEntry
<1>3. 1 \in 1 .. SlotsPerCluster
  BY Spans
<1> QED
  BY <1>2, <1>3, BlankType DEF Contents, Piece, ClusterEntries

-----------------------------------------------------------------------------
(* Regions: the slots of a directory and the clusters they lie in.          *)

RegionEntries == [1 .. Slots(DirSpan) -> NodeEntry]

Starts == Clusters \cup {RootCluster}

\* A sequence of n elements is a function on 1 .. n.
LEMMA SeqFun ==
    ASSUME NEW S, NEW n \in Nat
    PROVE  \A f : f \in [1 .. n -> S] <=> f \in Seq(S) /\ Len(f) = n
<1>1. ASSUME NEW f \in [1 .. n -> S] PROVE f \in Seq(S) /\ Len(f) = n
  BY SeqDef
<1>2. ASSUME NEW f \in Seq(S), Len(f) = n PROVE f \in [1 .. n -> S]
  BY <1>2
<1> QED
  BY <1>1, <1>2

\* Slot i of a region is slot j of its cluster k, counted from 0.
LEMMA SlotPlace ==
    ASSUME NEW i \in 1 .. Slots(DirSpan)
    PROVE  LET k == (i - 1) \div SlotsPerCluster
               j == ((i - 1) % SlotsPerCluster) + 1
           IN  k \in 0 .. DirSpan - 1 /\ j \in 1 .. SlotsPerCluster /\ i = (k * SlotsPerCluster) + j
<1> DEFINE k == (i - 1) \div SlotsPerCluster
           r == (i - 1) % SlotsPerCluster
<1>1. /\ DirSpan \in Nat /\ SlotsPerCluster \in Nat /\ SlotsPerCluster > 0
      /\ i - 1 \in Nat /\ i - 1 < DirSpan * SlotsPerCluster
  BY Spans DEF Slots
<1>2. k \in Nat /\ r \in 0 .. SlotsPerCluster - 1 /\ i - 1 = (k * SlotsPerCluster) + r
  BY <1>1
<1> HIDE DEF k, r
<1>3. k < DirSpan
  <2>1. SUFFICES ASSUME k >= DirSpan PROVE FALSE
    BY <1>1, <1>2
  <2>2. k * SlotsPerCluster >= DirSpan * SlotsPerCluster
    BY <1>1, <1>2, <2>1
  <2> QED BY <1>1, <1>2, <2>2
<1>4. k \in 0 .. DirSpan - 1 /\ r + 1 \in 1 .. SlotsPerCluster /\ i = (k * SlotsPerCluster) + (r + 1)
  BY <1>1, <1>2, <1>3
<1> QED
  BY <1>4 DEF k, r

\* The slots of a cluster of a region.
LEMMA CutFacts ==
    ASSUME NEW s \in RegionEntries, NEW k \in 0 .. DirSpan - 1
    PROVE  /\ Cut(s, k + 1) \in ClusterEntries
           /\ \A j \in 1 .. SlotsPerCluster : Cut(s, k + 1)[j] = s[(k * SlotsPerCluster) + j]
<1> DEFINE m == k * SlotsPerCluster
           n == Slots(DirSpan)
<1>1. /\ n \in Nat /\ k \in Nat /\ DirSpan \in Nat /\ SlotsPerCluster \in Nat
      /\ n = DirSpan * SlotsPerCluster
  BY Spans DEF Slots
<1>2. m \in Nat /\ m + SlotsPerCluster <= n
  <2>1. (k + 1) * SlotsPerCluster <= DirSpan * SlotsPerCluster
    BY <1>1
  <2>2. (k + 1) * SlotsPerCluster = m + SlotsPerCluster
    BY <1>1
  <2> QED BY <1>1, <2>1, <2>2
<1>3. ((k + 1) - 1) * SlotsPerCluster = m /\ (k + 1) * SlotsPerCluster = m + SlotsPerCluster
  BY <1>1
<1>4. s \in Seq(NodeEntry) /\ Len(s) = n
  BY <1>1 DEF RegionEntries
<1>5. Cut(s, k + 1) = SubSeq(s, m + 1, m + SlotsPerCluster)
  BY <1>3 DEF Cut
<1> HIDE DEF m, n
<1>6. /\ SubSeq(s, m + 1, m + SlotsPerCluster) \in [1 .. SlotsPerCluster -> NodeEntry]
      /\ \A j \in 1 .. SlotsPerCluster : SubSeq(s, m + 1, m + SlotsPerCluster)[j] = s[m + j]
  <2>1. /\ s \in Seq(NodeEntry) /\ m \in Nat /\ SlotsPerCluster \in Nat
        /\ m + SlotsPerCluster <= Len(s)
    BY <1>1, <1>2, <1>4
  <2>2. SubSeq(s, m + 1, m + SlotsPerCluster)
            = [j \in 1 .. SlotsPerCluster |-> s[(m + 1) + j - 1]]
    BY <2>1
  <2>3. ASSUME NEW j \in 1 .. SlotsPerCluster
        PROVE  s[(m + 1) + j - 1] = s[m + j] /\ s[m + j] \in NodeEntry
    <3>1. (m + 1) + j - 1 = m + j /\ m + j \in 1 .. Len(s)
      BY <2>1
    <3> QED BY <2>1, <3>1
  <2> QED BY <2>2, <2>3
<1>7. \A j \in 1 .. SlotsPerCluster : Cut(s, k + 1)[j] = s[m + j]
  BY <1>5, <1>6
<1>8. Cut(s, k + 1) \in [1 .. SlotsPerCluster -> NodeEntry]
  BY <1>5, <1>6
<1> QED
  BY <1>7, <1>8 DEF ClusterEntries, m

VolumeTyped ==
    /\ root \in RegionEntries
    /\ data \in [DeviceClusters -> ClusterEntries]

\* The clusters of a directory are in the device's range.
LEMMA RegionInDevice ==
    ASSUME NEW c \in Clusters, NEW k \in 0 .. DirSpan - 1
    PROVE  c + k \in DeviceClusters
BY Spans, Marks DEF Clusters

\* A directory read from the volume is a list of entries.
LEMMA RegionType ==
    ASSUME VolumeTyped, NEW c \in Starts
    PROVE  Region(c) \in RegionEntries
<1>1. CASE c = RootCluster
  BY <1>1 DEF Region, VolumeTyped
<1>2. CASE c # RootCluster
  <2>1. c \in Clusters
    BY <1>2 DEF Starts
  <2>2. ASSUME NEW i \in 1 .. Slots(DirSpan)
        PROVE  data[c + ((i - 1) \div SlotsPerCluster)][((i - 1) % SlotsPerCluster) + 1] \in NodeEntry
    <3> DEFINE k == (i - 1) \div SlotsPerCluster
               j == ((i - 1) % SlotsPerCluster) + 1
    <3>1. k \in 0 .. DirSpan - 1 /\ j \in 1 .. SlotsPerCluster
      BY SlotPlace
    <3> HIDE DEF k, j
    <3>2. c + k \in DeviceClusters
      BY <2>1, <3>1, RegionInDevice
    <3>3. data[c + k][j] \in NodeEntry
      BY <3>1, <3>2 DEF VolumeTyped, ClusterEntries
    <3> QED BY <3>3 DEF k, j
  <2> QED BY <1>2, <2>2 DEF Region, RegionEntries
<1> QED
  BY <1>1, <1>2

\* fat12_flush_directory writes what a load reads again.
LEMMA WriteRegionEffect ==
    ASSUME VolumeTyped, NEW c \in Starts, NEW s \in RegionEntries, WriteRegion(c, s)
    PROVE  /\ VolumeTyped'
           /\ Region(c)' = s
<1>1. CASE c = RootCluster
  BY <1>1 DEF WriteRegion, VolumeTyped, Region
<1>2. CASE c # RootCluster
  <2>1. c \in Clusters /\ c \in Nat
    BY <1>2 DEF Starts, Clusters
  <2>2. /\ root' = root
        /\ data' = [x \in DeviceClusters |->
                       IF x \in c .. (c + DirSpan - 1) THEN Cut(s, x - c + 1) ELSE data[x]]
    BY <1>2 DEF WriteRegion
  <2>3. ASSUME NEW x \in c .. (c + DirSpan - 1)
        PROVE  x - c \in 0 .. DirSpan - 1 /\ Cut(s, x - c + 1) \in ClusterEntries
    <3>1. x - c \in 0 .. DirSpan - 1
      BY <2>1, Spans
    <3> QED BY <3>1, CutFacts
  <2>4. VolumeTyped'
    BY <2>2, <2>3 DEF VolumeTyped
  <2>5. ASSUME NEW i \in 1 .. Slots(DirSpan)
        PROVE  data'[c + ((i - 1) \div SlotsPerCluster)][((i - 1) % SlotsPerCluster) + 1] = s[i]
    <3> DEFINE k == (i - 1) \div SlotsPerCluster
               j == ((i - 1) % SlotsPerCluster) + 1
    <3>1. k \in 0 .. DirSpan - 1 /\ j \in 1 .. SlotsPerCluster /\ i = (k * SlotsPerCluster) + j
      BY SlotPlace
    <3> HIDE DEF k, j
    <3>2. c + k \in DeviceClusters /\ c + k \in c .. (c + DirSpan - 1) /\ (c + k) - c + 1 = k + 1
      <4>1. c + k \in DeviceClusters
        BY <2>1, <3>1, RegionInDevice
      <4>2. c \in Nat /\ k \in Nat /\ k <= DirSpan - 1 /\ DirSpan \in Nat
        BY <2>1, <3>1, Spans
      <4> QED BY <4>1, <4>2
    <3>3. data'[c + k] = Cut(s, k + 1)
      <4>1. data'[c + k] = Cut(s, (c + k) - c + 1)
        BY <2>2, <3>2
      <4> QED BY <4>1, <3>2
    <3>4. data'[c + k][j] = s[i]
      BY <3>1, <3>3, CutFacts
    <3> QED BY <3>4 DEF k, j
  <2>6. Region(c)' = [i \in 1 .. Slots(DirSpan) |-> s[i]]
    BY <1>2, <2>5 DEF Region
  <2> QED BY <2>4, <2>6 DEF RegionEntries
<1> QED
  BY <1>1, <1>2

\* fat12_write_cluster_data.
LEMMA WriteClusterEffect ==
    ASSUME VolumeTyped, NEW c \in Nat, NEW x \in ClusterEntries, WriteCluster(c, x)
    PROVE  VolumeTyped'
<1>1. CASE c = RootCluster
  <2>0. /\ root' = x \o SubSeq(root, SlotsPerCluster + 1, Len(root))
        /\ data' = data
    BY <1>1 DEF WriteCluster
  <2>1. /\ root \in Seq(NodeEntry) /\ Len(root) = Slots(DirSpan)
        /\ x \in Seq(NodeEntry) /\ Len(x) = SlotsPerCluster
    BY Spans, SeqFun DEF VolumeTyped, RegionEntries, ClusterEntries
  <2>2. /\ SubSeq(root, SlotsPerCluster + 1, Len(root)) \in Seq(NodeEntry)
        /\ Len(SubSeq(root, SlotsPerCluster + 1, Len(root))) = Slots(DirSpan) - SlotsPerCluster
    BY <2>1, Spans
  <2>3. root' \in Seq(NodeEntry) /\ Len(root') = Slots(DirSpan)
    BY <2>0, <2>1, <2>2, Spans
  <2>4. root' \in [1 .. Slots(DirSpan) -> NodeEntry]
    BY <2>3, Spans, SeqFun
  <2> QED BY <2>0, <2>4 DEF VolumeTyped, RegionEntries
<1>2. CASE c # RootCluster
  BY <1>2 DEF WriteCluster, VolumeTyped
<1> QED
  BY <1>1, <1>2

-----------------------------------------------------------------------------
(* Lists of steps.                                                          *)

Plain == Lookups \cup Moves \cup Others

\* The flush is the three device writes in their order.
LEMMA FlushType ==
    /\ Flush \in Seq(Steps) /\ Len(Flush) = 3
    /\ Flush[1] = Step("fat1") /\ Flush[2] = Step("fat2") /\ Flush[3] = Step("dir")
<1>1. Step("fat1") \in Steps /\ Step("fat2") \in Steps /\ Step("dir") \in Steps
  BY DEF Step, Steps, Writes
<1> QED
  BY <1>1 DEF Flush

\* What comes first tells how many writes are left.
LEMMA OrderedHead ==
    ASSUME NEW t, NEW k, Ordered(t, k), t # <<>>
    PROVE  /\ Head(t) = t[1] /\ 1 \in 1 .. Len(t) /\ k \in Nat
           /\ \/ k = 0 /\ Head(t) \in Plain
              \/ k = 1 /\ Head(t).do = "dir"
              \/ k = 2 /\ Head(t).do = "fat2"
              \/ k = 3 /\ Head(t).do = "fat1"
              \/ k > 3 /\ Head(t) \in Stores
<1>1. t \in Seq(Steps) /\ Len(t) \in Nat /\ Len(t) >= 1 /\ k \in Nat
  BY DEF Ordered
<1>2. Head(t) = t[1] /\ 1 \in 1 .. Len(t)
  BY <1>1
<1>3. /\ 1 > k      => t[1] \in Plain
      /\ 1 = k      => t[1].do = "dir"
      /\ 1 = k - 1  => t[1].do = "fat2"
      /\ 1 = k - 2  => t[1].do = "fat1"
      /\ 1 < k - 2  => t[1] \in Stores
  BY <1>2 DEF Ordered, Plain
<1> QED
  BY <1>1, <1>2, <1>3

\* So a step of a kind says where the command stands.
LEMMA OrderedKind ==
    ASSUME NEW t, NEW k, Ordered(t, k), t # <<>>
    PROVE  /\ Head(t).do = "dir"  => k = 1
           /\ Head(t).do = "fat2" => k = 2
           /\ Head(t).do = "fat1" => k = 3
           /\ Head(t).do = "store" => k > 3 /\ Head(t) \in Stores
           /\ Head(t).do = "get" => k = 0 /\ Head(t) \in Lookups
           /\ Head(t).do \in {"enter", "descend"} => k = 0 /\ Head(t) \in Moves
           /\ Head(t).do \in {"resize", "fetch", "drop", "root", "back", "into"} => k = 0
<1>1. \A x \in Lookups : x.do = "get"
  BY DEF Lookups
<1>2. \A x \in Moves : x.do \in {"enter", "descend"}
  BY DEF Moves
<1>3. \A x \in Others : x.do \in {"resize", "fetch", "drop", "root", "back", "into"}
  BY DEF Others
<1>4. \A x \in Stores : x.do = "store"
  BY DEF Stores
<1>5. \/ k = 0 /\ Head(t) \in Plain
      \/ k = 1 /\ Head(t).do = "dir"
      \/ k = 2 /\ Head(t).do = "fat2"
      \/ k = 3 /\ Head(t).do = "fat1"
      \/ k > 3 /\ Head(t) \in Stores
  BY OrderedHead
<1> QED
  BY <1>1, <1>2, <1>3, <1>4, <1>5 DEF Plain

\* The rest of a list of steps.
LEMMA TailFacts ==
    ASSUME NEW t \in Seq(Steps), t # <<>>
    PROVE  /\ Tail(t) \in Seq(Steps) /\ Len(Tail(t)) = Len(t) - 1
           /\ \A i \in 1 .. Len(t) - 1 : Tail(t)[i] = t[i + 1] /\ i + 1 \in 1 .. Len(t)
OBVIOUS

\* A device write is done.
LEMMA OrderedTail ==
    ASSUME NEW t, NEW k, Ordered(t, k), t # <<>>, k > 0
    PROVE  Ordered(Tail(t), k - 1)
<1>1. /\ t \in Seq(Steps) /\ Len(t) \in Nat /\ k \in Nat /\ k <= Len(t)
  BY DEF Ordered
<1>2. /\ Tail(t) \in Seq(Steps) /\ Len(Tail(t)) = Len(t) - 1
      /\ \A i \in 1 .. Len(t) - 1 : Tail(t)[i] = t[i + 1] /\ i + 1 \in 1 .. Len(t)
  BY <1>1, TailFacts
<1>3. k - 1 \in 0 .. Len(Tail(t))
  BY <1>1, <1>2
<1>4. ASSUME NEW i \in 1 .. Len(t) - 1
      PROVE  /\ i > k - 1        => t[i + 1] \in Lookups \cup Moves \cup Others
             /\ i = k - 1        => t[i + 1].do = "dir"
             /\ i = (k - 1) - 1  => t[i + 1].do = "fat2"
             /\ i = (k - 1) - 2  => t[i + 1].do = "fat1"
             /\ i < (k - 1) - 2  => t[i + 1] \in Stores
             /\ t[i + 1].do = "into" => i = (k - 1) + 1
             /\ t[i + 1].do = "get" /\ t[i + 1].make = "dir" => FALSE
             /\ t[i + 1].do = "descend" =>
                   i = (k - 1) + 1 \/ (i > 1 /\ t[i] = Get(t[i + 1].name, "none"))
  <2>1. i + 1 \in 1 .. Len(t) /\ (i + 1) - 1 = i /\ i \in Nat
    BY <1>1
  <2>2. /\ i + 1 > k      => t[i + 1] \in Lookups \cup Moves \cup Others
        /\ i + 1 = k      => t[i + 1].do = "dir"
        /\ i + 1 = k - 1  => t[i + 1].do = "fat2"
        /\ i + 1 = k - 2  => t[i + 1].do = "fat1"
        /\ i + 1 < k - 2  => t[i + 1] \in Stores
    BY <2>1 DEF Ordered
  <2>3. /\ t[i + 1].do = "into" => i + 1 = k + 1 \/ k = 0
        /\ t[i + 1].do = "get" /\ t[i + 1].make = "dir" => k = 0
        /\ t[i + 1].do = "descend" => i + 1 = k + 1 \/ t[(i + 1) - 1] = Get(t[i + 1].name, "none")
    BY <2>1 DEF Ordered
  <2>4. t[1] # Get(t[i + 1].name, "none")
    <3>1. Head(t) = t[1] /\ Head(t).do # "get"
      BY <1>1, OrderedHead, OrderedKind
    <3> QED BY <3>1 DEF Get
  <2> QED BY <1>1, <2>1, <2>2, <2>3, <2>4
<1>5. \A i \in 1 .. Len(t) - 1 : i > 1 => i - 1 \in 1 .. Len(t) - 1 /\ (i - 1) + 1 = i
  BY <1>1
<1> QED
  BY <1>2, <1>3, <1>4, <1>5 DEF Ordered

\* A step without a device write, other than a lookup, is done.
LEMMA OrderedNext ==
    ASSUME NEW t, Ordered(t, 0), t # <<>>, Head(t).do # "get"
    PROVE  /\ Ordered(Tail(t), 0)
           /\ Tail(t) # <<>> => LET x == Tail(t)[1]
                                IN  /\ x.do # "into" /\ x.do # "descend"
                                    /\ x.do = "get" => x.make # "dir"
<1>1. /\ t \in Seq(Steps) /\ Len(t) \in Nat /\ 0 <= Len(t) /\ t[1] = Head(t)
  BY OrderedHead DEF Ordered
<1>2. /\ Tail(t) \in Seq(Steps) /\ Len(Tail(t)) = Len(t) - 1
      /\ \A i \in 1 .. Len(t) - 1 : Tail(t)[i] = t[i + 1] /\ i + 1 \in 1 .. Len(t)
  BY <1>1, TailFacts
<1>3. 0 \in 0 .. Len(Tail(t))
  BY <1>2
<1>4. ASSUME NEW i \in 1 .. Len(t) - 1
      PROVE  /\ t[i + 1] \in Lookups \cup Moves \cup Others
             /\ t[i + 1].do # "into"
             /\ t[i + 1].do = "get" => t[i + 1].make # "dir"
             /\ t[i + 1].do = "descend" => i > 1 /\ t[i] = Get(t[i + 1].name, "none")
  <2>1. i + 1 \in 1 .. Len(t) /\ (i + 1) - 1 = i /\ i \in Nat /\ i + 1 > 0 /\ i + 1 # 1
    BY <1>1
  <2>2. /\ t[i + 1] \in Lookups \cup Moves \cup Others
        /\ t[i + 1].do = "into" => i + 1 = 2 /\ t[1].do = "get"
        /\ t[i + 1].do = "get" => t[i + 1].make # "dir"
        /\ t[i + 1].do = "descend" => t[(i + 1) - 1] = Get(t[i + 1].name, "none")
    BY <2>1 DEF Ordered
  <2>3. t[1] # Get(t[i + 1].name, "none")
    BY <1>1 DEF Get
  <2>4. t[i + 1].do # "into"
    BY <1>1, <2>2
  <2>5. t[i + 1].do = "descend" => i > 1 /\ t[i] = Get(t[i + 1].name, "none")
    <3>1. t[i + 1].do = "descend" => t[i] = Get(t[i + 1].name, "none")
      BY <2>1, <2>2
    <3>2. t[i + 1].do = "descend" => i # 1
      BY <3>1, <2>3
    <3> QED BY <3>1, <3>2
  <2> QED BY <2>2, <2>4, <2>5
<1>5. \A i \in 1 .. Len(t) - 1 : /\ i > 1 => i - 1 \in 1 .. Len(t) - 1 /\ (i - 1) + 1 = i
                                 /\ i > 0 /\ i # 0 /\ i # 0 - 1 /\ i # 0 - 2 /\ ~(i < 0 - 2)
  BY <1>1
<1>6. Ordered(Tail(t), 0)
  BY <1>2, <1>3, <1>4, <1>5 DEF Ordered
<1>7. Tail(t) # <<>> => 1 \in 1 .. Len(t) - 1 /\ Tail(t)[1] = t[1 + 1]
  BY <1>1, <1>2
<1> QED
  BY <1>4, <1>6, <1>7

\* Lists of steps in a row.
LEMMA ConcatFacts ==
    ASSUME NEW a \in Seq(Steps), NEW b \in Seq(Steps)
    PROVE  /\ a \o b \in Seq(Steps) /\ Len(a \o b) = Len(a) + Len(b)
           /\ \A i \in 1 .. Len(a) : (a \o b)[i] = a[i]
           /\ \A i \in 1 .. Len(b) : (a \o b)[Len(a) + i] = b[i]
OBVIOUS

\* What a rest of a command adds to Ordered once the writes before it are known.
Rest(t, k) ==
    \A i \in k + 1 .. Len(t) :
          /\ t[i] \in Plain
          /\ t[i].do = "into" => i = k + 1
          /\ t[i].do = "get" => t[i].make # "dir"
          /\ t[i].do = "descend" => i = k + 1 \/ t[i - 1] = Get(t[i].name, "none")

\* Lists in order are k writes and such a rest.
LEMMA OrderedFrom ==
    ASSUME NEW t \in Seq(Steps), NEW k \in 0 .. Len(t), Rest(t, k),
           \A i \in 1 .. k :
              /\ i = k      => t[i] = Step("dir")
              /\ i = k - 1  => t[i] = Step("fat2")
              /\ i = k - 2  => t[i] = Step("fat1")
              /\ i < k - 2  => t[i] \in Stores
    PROVE  Ordered(t, k)
<1>1. Len(t) \in Nat /\ k \in Nat /\ k <= Len(t)
  OBVIOUS
<1>2. ASSUME NEW i \in 1 .. Len(t)
      PROVE  /\ i > k      => t[i] \in Lookups \cup Moves \cup Others
             /\ i = k      => t[i].do = "dir"
             /\ i = k - 1  => t[i].do = "fat2"
             /\ i = k - 2  => t[i].do = "fat1"
             /\ i < k - 2  => t[i] \in Stores
             /\ t[i].do = "into" => i = k + 1
             /\ t[i].do = "get" => t[i].make # "dir"
             /\ t[i].do = "descend" => i = k + 1 \/ (i > 1 /\ t[i - 1] = Get(t[i].name, "none"))
  <2>1. CASE i > k
    <3>1. i \in k + 1 .. Len(t) /\ (i # k + 1 => i > 1) /\ i # k /\ i # k - 1 /\ i # k - 2 /\ ~(i < k - 2)
      BY <1>1, <2>1
    <3> QED BY <3>1 DEF Rest, Plain
  <2>2. CASE ~(i > k)
    <3>1. i \in 1 .. k /\ (i = k \/ i = k - 1 \/ i = k - 2 \/ i < k - 2)
      BY <1>1, <2>2
    <3>2. t[i] \in Stores => t[i].do = "store"
      BY DEF Stores
    <3>3. t[i] \in {Step("dir"), Step("fat2"), Step("fat1")} \cup Stores
      BY <3>1
    <3>4. t[i].do \in {"dir", "fat2", "fat1", "store"}
      BY <3>2, <3>3 DEF Step
    <3>5. /\ i = k      => t[i].do = "dir"
          /\ i = k - 1  => t[i].do = "fat2"
          /\ i = k - 2  => t[i].do = "fat1"
          /\ i < k - 2  => t[i] \in Stores
      BY <3>1 DEF Step
    <3> QED BY <2>2, <3>4, <3>5
  <2> QED BY <2>1, <2>2
<1> QED
  BY <1>1, <1>2 DEF Ordered

\* A lookup is done, and its rest has another place.
LEMMA RestOfGet ==
    ASSUME NEW t, Ordered(t, 0), t # <<>>, Head(t).do = "get",
           NEW p \in Seq(Steps)
    PROVE  /\ p \o Tail(t) \in Seq(Steps) /\ Len(p) \in 0 .. Len(p \o Tail(t))
           /\ \A i \in 1 .. Len(p) : (p \o Tail(t))[i] = p[i]
           /\ Rest(p \o Tail(t), Len(p))
<1> DEFINE u == p \o Tail(t)
           k == Len(p)
<1>0. k \in Nat
  OBVIOUS
<1>1. /\ t \in Seq(Steps) /\ Len(t) \in Nat /\ t[1] = Head(t) /\ Len(t) >= 1
  BY OrderedHead DEF Ordered
<1>2. /\ Tail(t) \in Seq(Steps) /\ Len(Tail(t)) = Len(t) - 1
      /\ \A i \in 1 .. Len(t) - 1 : Tail(t)[i] = t[i + 1] /\ i + 1 \in 1 .. Len(t)
  BY <1>1, TailFacts
<1>3. /\ u \in Seq(Steps) /\ Len(u) = k + (Len(t) - 1)
      /\ \A i \in 1 .. k : u[i] = p[i]
      /\ \A i \in 1 .. Len(t) - 1 : u[k + i] = t[i + 1]
  <2>1. /\ u \in Seq(Steps) /\ Len(u) = Len(p) + Len(Tail(t))
        /\ \A i \in 1 .. Len(p) : u[i] = p[i]
        /\ \A i \in 1 .. Len(Tail(t)) : u[Len(p) + i] = Tail(t)[i]
    BY <1>2, ConcatFacts
  <2> HIDE DEF u
  <2> QED BY <1>2, <2>1
<1> HIDE DEF u, k
<1>4. ASSUME NEW i \in k + 1 .. Len(u)
      PROVE  /\ u[i] \in Plain
             /\ u[i].do = "into" => i = k + 1
             /\ u[i].do = "get" => u[i].make # "dir"
             /\ u[i].do = "descend" => i = k + 1 \/ u[i - 1] = Get(u[i].name, "none")
  <2> DEFINE j == (i - k) + 1
  <2>1. /\ i - k \in 1 .. Len(t) - 1 /\ k + (i - k) = i /\ j \in 1 .. Len(t) /\ j > 1 /\ j > 0
        /\ j - 1 = i - k /\ (j = 2 <=> i = k + 1)
    BY <1>0, <1>1, <1>3
  <2>2. u[i] = t[j]
    BY <1>3, <2>1
  <2>3. /\ t[j] \in Plain
        /\ t[j].do = "into" => j = 1 \/ j = 2
        /\ t[j].do = "get" /\ t[j].make = "dir" => j = 1
        /\ t[j].do = "descend" => j = 1 \/ t[j - 1] = Get(t[j].name, "none")
    <3> HIDE DEF j
    <3> QED BY <2>1 DEF Ordered, Plain
  <2>4. i # k + 1 => u[i - 1] = t[j - 1]
    <3>1. i # k + 1 => (i - 1) - k \in 1 .. Len(t) - 1 /\ k + ((i - 1) - k) = i - 1 /\ ((i - 1) - k) + 1 = j - 1
      BY <1>0, <1>1, <1>3
    <3> QED BY <3>1, <1>3
  <2> QED
    <3> HIDE DEF j
    <3> QED BY <2>1, <2>2, <2>3, <2>4
<1>5. Rest(u, k)
  BY <1>4 DEF Rest
<1> QED
  BY <1>0, <1>1, <1>3, <1>5 DEF u, k

\* After a lookup the table and the directory are flushed (fat12_get_file).
LEMMA OrderedLookup ==
    ASSUME NEW t, Ordered(t, 0), t # <<>>, Head(t).do = "get"
    PROVE  Ordered(Flush \o Tail(t), 3)
<1> DEFINE u == Flush \o Tail(t)
<1>0. Flush \in Seq(Steps) /\ Len(Flush) = 3
  BY FlushType
<1>1. u \in Seq(Steps) /\ 3 \in 0 .. Len(u) /\ (\A i \in 1 .. 3 : u[i] = Flush[i]) /\ Rest(u, 3)
  <2>1. /\ u \in Seq(Steps) /\ Len(Flush) \in 0 .. Len(u)
        /\ (\A i \in 1 .. Len(Flush) : u[i] = Flush[i]) /\ Rest(u, Len(Flush))
    BY <1>0, RestOfGet
  <2> HIDE DEF u
  <2> QED BY <1>0, <2>1
<1> HIDE DEF u
<1>2. ASSUME NEW i \in 1 .. 3
      PROVE  /\ i = 3      => u[i] = Step("dir")
             /\ i = 3 - 1  => u[i] = Step("fat2")
             /\ i = 3 - 2  => u[i] = Step("fat1")
             /\ i < 3 - 2  => u[i] \in Stores
  BY <1>1, FlushType
<1> QED
  BY <1>1, <1>2, OrderedFrom DEF u

\* A new directory gets its entries first (fat12_create_directory_node).
LEMMA OrderedCreate ==
    ASSUME NEW t, Ordered(t, 0), t # <<>>, Head(t).do = "get", NEW s \in Stores
    PROVE  Ordered(<<s>> \o Flush \o Tail(t), 4)
<1> DEFINE p == <<s>> \o Flush
           u == p \o Tail(t)
<1>0. <<s>> \in Seq(Steps) /\ Len(<<s>>) = 1 /\ <<s>>[1] = s
  BY DEF Steps
<1>1. p \in Seq(Steps) /\ Len(p) = 4 /\ p[1] = s /\ \A i \in 1 .. 3 : p[1 + i] = Flush[i]
  <2>1. /\ p \in Seq(Steps) /\ Len(p) = Len(<<s>>) + Len(Flush)
        /\ \A i \in 1 .. Len(<<s>>) : p[i] = <<s>>[i]
        /\ \A i \in 1 .. Len(Flush) : p[Len(<<s>>) + i] = Flush[i]
    BY <1>0, FlushType, ConcatFacts
  <2> HIDE DEF p
  <2> QED BY <1>0, <2>1, FlushType
<1> HIDE DEF p
<1>2. u \in Seq(Steps) /\ 4 \in 0 .. Len(u) /\ (\A i \in 1 .. 4 : u[i] = p[i]) /\ Rest(u, 4)
  <2>1. /\ u \in Seq(Steps) /\ Len(p) \in 0 .. Len(u)
        /\ (\A i \in 1 .. Len(p) : u[i] = p[i]) /\ Rest(u, Len(p))
    BY <1>1, RestOfGet
  <2> HIDE DEF u
  <2> QED BY <1>1, <2>1
<1> HIDE DEF u
<1>3. u[1] = s /\ u[2] = Step("fat1") /\ u[3] = Step("fat2") /\ u[4] = Step("dir")
  <2>1. u[1] = p[1] /\ u[2] = p[1 + 1] /\ u[3] = p[1 + 2] /\ u[4] = p[1 + 3]
    BY <1>2
  <2> QED BY <2>1, <1>1, FlushType
<1>4. ASSUME NEW i \in 1 .. 4
      PROVE  /\ i = 4      => u[i] = Step("dir")
             /\ i = 4 - 1  => u[i] = Step("fat2")
             /\ i = 4 - 2  => u[i] = Step("fat1")
             /\ i < 4 - 2  => u[i] \in Stores
  BY <1>3
<1> QED
  BY <1>2, <1>4, OrderedFrom DEF u, p

\* A flush alone, or after the clusters of a file (fat12_file_write).
LEMMA OrderedFlush ==
    Ordered(Flush, 3)
<1>1. Rest(Flush, 3)
  BY FlushType DEF Rest
<1>2. ASSUME NEW i \in 1 .. 3
      PROVE  /\ i = 3      => Flush[i] = Step("dir")
             /\ i = 3 - 1  => Flush[i] = Step("fat2")
             /\ i = 3 - 2  => Flush[i] = Step("fat1")
             /\ i < 3 - 2  => Flush[i] \in Stores
  BY FlushType
<1> QED
  BY <1>1, <1>2, FlushType, OrderedFrom

\* The clusters of a file, then a flush.
LEMMA OrderedStores ==
    ASSUME NEW n \in Nat, NEW s \in [1 .. n -> Stores]
    PROVE  Ordered(s \o Flush, n + 3)
<1> DEFINE u == s \o Flush
<1>1. s \in Seq(Stores) /\ Len(s) = n
  BY SeqFun
<1>2. s \in Seq(Steps)
  BY <1>1 DEF Steps
<1>3. /\ u \in Seq(Steps) /\ Len(u) = n + 3
      /\ \A i \in 1 .. n : u[i] = s[i]
      /\ u[n + 1] = Step("fat1") /\ u[n + 2] = Step("fat2") /\ u[n + 3] = Step("dir")
  <2>1. /\ u \in Seq(Steps) /\ Len(u) = Len(s) + Len(Flush)
        /\ \A i \in 1 .. Len(s) : u[i] = s[i]
        /\ \A i \in 1 .. Len(Flush) : u[Len(s) + i] = Flush[i]
    BY <1>2, FlushType, ConcatFacts
  <2> HIDE DEF u
  <2> QED BY <1>1, <2>1, FlushType
<1> HIDE DEF u
<1>4. n + 3 \in 0 .. Len(u) /\ Rest(u, n + 3)
  BY <1>3 DEF Rest
<1>5. ASSUME NEW i \in 1 .. n + 3
      PROVE  /\ i = n + 3        => u[i] = Step("dir")
             /\ i = (n + 3) - 1  => u[i] = Step("fat2")
             /\ i = (n + 3) - 2  => u[i] = Step("fat1")
             /\ i < (n + 3) - 2  => u[i] \in Stores
  <2>1. i < (n + 3) - 2 => i \in 1 .. n
    OBVIOUS
  <2>2. i = (n + 3) - 1 => i = n + 2
    OBVIOUS
  <2>3. i = (n + 3) - 2 => i = n + 1
    OBVIOUS
  <2> QED BY <1>3, <2>1, <2>2, <2>3
<1> QED
  BY <1>3, <1>4, <1>5, OrderedFrom DEF u

\* vfs_mkdir has a directory made where the lookup found none, and enters it.
LEMMA OrderedDescend ==
    ASSUME NEW t, Ordered(t, 0), t # <<>>, Head(t).do = "descend"
    PROVE  LET u == <<Get(Head(t).name, "dir"), Step("into")>> \o Tail(t)
           IN  Ordered(u, 0) /\ u # <<>> /\ u[1] = Get(Head(t).name, "dir")
<1> DEFINE a == Get(Head(t).name, "dir")
           p == <<a, Step("into")>>
           u == p \o Tail(t)
<1>1. /\ t \in Seq(Steps) /\ Len(t) \in Nat /\ Head(t) \in Moves
  BY OrderedKind DEF Ordered
<1>2. /\ Tail(t) \in Seq(Steps) /\ Len(Tail(t)) = Len(t) - 1 /\ Len(Tail(t)) \in Nat
  BY <1>1, TailFacts
<1>3. a \in Lookups /\ Step("into") \in Others
  BY <1>1 DEF Get, Step, Lookups, Others, Moves
<1>4. p \in Seq(Steps) /\ Len(p) = 2 /\ p[1] = a /\ p[2] = Step("into")
  <2> HIDE DEF a
  <2> QED BY <1>3 DEF Steps
<1> HIDE DEF p
<1>5. /\ u \in Seq(Steps) /\ Len(u) = 2 + Len(Tail(t)) /\ u[1] = a /\ u[2] = Step("into")
      /\ \A i \in 1 .. Len(Tail(t)) : u[2 + i] = Tail(t)[i]
  <2>1. /\ u \in Seq(Steps) /\ Len(u) = Len(p) + Len(Tail(t))
        /\ \A i \in 1 .. Len(p) : u[i] = p[i]
        /\ \A i \in 1 .. Len(Tail(t)) : u[Len(p) + i] = Tail(t)[i]
    BY <1>2, <1>4, ConcatFacts
  <2> HIDE DEF u
  <2> QED BY <1>4, <2>1
<1> HIDE DEF u
<1>6. Ordered(Tail(t), 0) /\ (Tail(t) # <<>> => Tail(t)[1].do \notin {"into", "descend"})
      /\ (Tail(t) # <<>> => (Tail(t)[1].do = "get" => Tail(t)[1].make # "dir"))
  BY OrderedNext
<1>7. ASSUME NEW i \in 1 .. Len(Tail(t))
      PROVE  /\ Tail(t)[i] \in Plain
             /\ Tail(t)[i].do # "into"
             /\ Tail(t)[i].do = "get" => Tail(t)[i].make # "dir"
             /\ Tail(t)[i].do = "descend" => i > 1 /\ Tail(t)[i - 1] = Get(Tail(t)[i].name, "none")
  <2>1. i > 0 /\ 1 \in 1 .. Len(Tail(t)) /\ Tail(t) # <<>> /\ 0 + 1 = 1
    <3> DEFINE v == Tail(t)
    <3>1. v \in Seq(Steps) /\ Len(v) \in Nat /\ i \in 1 .. Len(v)
      BY <1>2
    <3> HIDE DEF v
    <3>2. i > 0 /\ 1 \in 1 .. Len(v) /\ v # <<>>
      BY <3>1
    <3> QED BY <3>2 DEF v
  <2>2. /\ Tail(t)[i] \in Plain
        /\ Tail(t)[i].do = "into" => i = 1 \/ (i = 2 /\ Tail(t)[1].do = "get" /\ Tail(t)[1].make = "dir")
        /\ Tail(t)[i].do = "get" /\ Tail(t)[i].make = "dir" => i = 1
        /\ Tail(t)[i].do = "descend" => i = 1 \/ (i > 1 /\ Tail(t)[i - 1] = Get(Tail(t)[i].name, "none"))
    BY <1>6, <2>1 DEF Ordered, Plain
  <2> QED BY <1>6, <2>1, <2>2
<1>8. ASSUME NEW i \in 1 .. Len(u)
      PROVE  /\ i > 0 => u[i] \in Plain
             /\ u[i].do = "into" => i = 2 /\ u[1].do = "get" /\ u[1].make = "dir"
             /\ u[i].do = "get" /\ u[i].make = "dir" => i = 1 /\ Len(u) >= 2 /\ u[2].do = "into"
             /\ u[i].do = "descend" => i > 1 /\ u[i - 1] = Get(u[i].name, "none")
  <2>0. /\ a.do = "get" /\ a.make = "dir" /\ Step("into").do = "into"
        /\ a \in Plain /\ Step("into") \in Plain
    BY <1>3 DEF Get, Step, Plain
  <2>1. CASE i = 1
    BY <2>0, <2>1, <1>2, <1>5
  <2>2. CASE i = 2
    BY <2>0, <2>2, <1>2, <1>5
  <2>3. CASE i > 2
    <3>1. i - 2 \in 1 .. Len(Tail(t)) /\ 2 + (i - 2) = i
      BY <1>2, <1>5, <2>3
    <3>2. u[i] = Tail(t)[i - 2]
      BY <3>1, <1>5
    <3>3. i - 2 > 1 => (i - 2) - 1 \in 1 .. Len(Tail(t)) /\ 2 + ((i - 2) - 1) = i - 1
      BY <1>2, <1>5, <2>3
    <3>4. i - 2 > 1 => u[i - 1] = Tail(t)[(i - 2) - 1]
      BY <3>3, <1>5
    <3> QED BY <2>3, <3>1, <3>2, <3>4, <1>7
  <2> QED BY <2>1, <2>2, <2>3
<1>9. /\ \A i \in 1 .. Len(u) : i > 0 /\ i # 0 /\ i # 0 - 1 /\ i # 0 - 2 /\ ~(i < 0 - 2)
      /\ 0 \in 0 .. Len(u) /\ u # <<>>
  BY <1>2, <1>5
<1>10. Ordered(u, 0)
  BY <1>5, <1>8, <1>9 DEF Ordered, Plain
<1> QED
  BY <1>5, <1>9, <1>10 DEF u, p

-----------------------------------------------------------------------------
(* The commands, as the steps they start with.                              *)

\* What the names and paths typed are made of.
LEMMA Names ==
    /\ "" \in DOMAIN Short
    /\ FileNames \subseteq DOMAIN Short /\ Removable \subseteq DOMAIN Short
    /\ \A path \in Paths : path \in Seq(DOMAIN Short \cup {"/"})
BY NamesAssumption

\* A list without device writes, and without the making of a directory, which the
\* descent of mkdir puts in; D are the kinds of its steps.
Quiet(t, D) ==
    /\ t \in Seq(Plain)
    /\ \A i \in 1 .. Len(t) :
          /\ t[i].do \in D /\ t[i].do # "into"
          /\ t[i].do = "get" => t[i].make # "dir"
          /\ t[i].do = "descend" => i > 1 /\ t[i - 1] = Get(t[i].name, "none")

\* Such a list is in order.
LEMMA QuietOrdered ==
    ASSUME NEW t, NEW D, Quiet(t, D)
    PROVE  /\ Ordered(t, 0)
           /\ t # <<>> => LET x == t[1]
                          IN  /\ x.do # "into" /\ x.do # "descend"
                              /\ x.do = "get" => x.make # "dir"
<1>1. t \in Seq(Plain) /\ Len(t) \in Nat
  BY DEF Quiet
<1>2. t \in Seq(Steps) /\ 0 \in 0 .. Len(t)
  BY <1>1 DEF Steps, Plain
<1>3. \A i \in 1 .. Len(t) : t[i] \in Plain /\ i > 0 /\ i # 0 /\ i # 0 - 1 /\ i # 0 - 2 /\ ~(i < 0 - 2)
  BY <1>1
<1>4. Ordered(t, 0)
  BY <1>2, <1>3 DEF Quiet, Ordered, Plain
<1>5. t # <<>> => 1 \in 1 .. Len(t) /\ ~(1 > 1)
  BY <1>1
<1> QED
  BY <1>4, <1>5 DEF Quiet

\* Two such lists in a row are one.
LEMMA QuietConcat ==
    ASSUME NEW a, NEW b, NEW D, Quiet(a, D), Quiet(b, D)
    PROVE  Quiet(a \o b, D)
<1> DEFINE u == a \o b
<1>1. a \in Seq(Plain) /\ b \in Seq(Plain) /\ Len(a) \in Nat /\ Len(b) \in Nat
  BY DEF Quiet
<1>2. /\ u \in Seq(Plain) /\ Len(u) = Len(a) + Len(b)
      /\ \A i \in 1 .. Len(a) : u[i] = a[i]
      /\ \A i \in 1 .. Len(b) : u[Len(a) + i] = b[i]
  BY <1>1
<1> HIDE DEF u
<1>3. ASSUME NEW i \in 1 .. Len(u)
      PROVE  /\ u[i].do \in D /\ u[i].do # "into"
             /\ u[i].do = "get" => u[i].make # "dir"
             /\ u[i].do = "descend" => i > 1 /\ u[i - 1] = Get(u[i].name, "none")
  <2>1. CASE i <= Len(a)
    <3>1. i \in 1 .. Len(a) /\ u[i] = a[i] /\ (i > 1 => i - 1 \in 1 .. Len(a))
      BY <1>1, <1>2, <2>1
    <3>2. i > 1 => u[i - 1] = a[i - 1]
      BY <3>1, <1>2
    <3> QED BY <3>1, <3>2 DEF Quiet
  <2>2. CASE i > Len(a)
    <3> DEFINE j == i - Len(a)
    <3>1. j \in 1 .. Len(b) /\ Len(a) + j = i /\ (j > 1 => j - 1 \in 1 .. Len(b) /\ Len(a) + (j - 1) = i - 1)
      <4>1. Len(a) \in Nat /\ Len(b) \in Nat /\ i \in 1 .. (Len(a) + Len(b)) /\ i > Len(a)
        BY <1>1, <1>2, <2>2
      <4> QED BY <4>1
    <3> HIDE DEF j
    <3>2. u[i] = b[j] /\ (j > 1 => u[i - 1] = b[j - 1])
      BY <3>1, <1>2
    <3>3. j > 1 => i > 1
      <4>1. Len(a) \in Nat /\ j \in Nat /\ Len(a) + j = i
        BY <1>1, <3>1
      <4> QED BY <4>1
    <3> QED BY <3>1, <3>2, <3>3 DEF Quiet
  <2> QED BY <1>1, <1>2, <2>1, <2>2
<1> QED
  BY <1>2, <1>3 DEF Quiet, u

\* One step that needs none before it.
LEMMA QuietOne ==
    ASSUME NEW D, NEW x \in Plain, x.do \in D, x.do # "into", x.do # "descend", x.do = "get" => x.make # "dir"
    PROVE  Quiet(<<x>>, D)
<1>1. <<x>> \in Seq(Plain) /\ Len(<<x>>) = 1 /\ <<x>>[1] = x
  OBVIOUS
<1>2. \A i \in 1 .. 1 : i = 1
  OBVIOUS
<1> QED
  BY <1>1, <1>2 DEF Quiet

\* A lookup that makes no directory.
LEMMA QuietGet ==
    ASSUME NEW D, "get" \in D, NEW n \in DOMAIN Short, NEW make \in {"none", "file"}
    PROVE  Quiet(<<Get(n, make)>>, D)
<1>1. Get(n, make) \in Plain
  BY DEF Get, Plain, Lookups
<1>2. Get(n, make).do = "get" /\ Get(n, make).make = make
  BY DEF Get
<1> QED
  BY <1>1, <1>2, QuietOne

\* The steps of a command that stand alone.
LEMMA QuietStep ==
    ASSUME NEW do \in {"resize", "fetch", "drop", "root", "back"}, NEW D, do \in D
    PROVE  Quiet(<<Step(do)>>, D)
<1>1. Step(do) \in Plain /\ Step(do).do = do
  BY DEF Step, Plain, Others
<1> QED
  BY <1>1, QuietOne

\* No steps at all.
LEMMA QuietNone ==
    \A D : Quiet(<<>>, D)
BY DEF Quiet

\* The components of a path are names, and there is at least one.
LEMMA PathNames ==
    ASSUME NEW path \in Paths
    PROVE  /\ ConstructPath(path).names \in Seq(DOMAIN Short)
           /\ Len(ConstructPath(path).names) \in Nat
           /\ Len(ConstructPath(path).names) >= 1
<1>1. ASSUME NEW p \in Seq(DOMAIN Short \cup {"/"})
      PROVE  Components(p) \in Seq(DOMAIN Short) /\ Len(Components(p)) \in Nat /\ Len(Components(p)) >= 1
  <2> DEFINE slashes   == {i \in DOMAIN p : p[i] = Slash}
             behind(k) == {i \in DOMAIN p \ slashes : Cardinality({s \in slashes : s < i}) = k - 1}
             n         == Cardinality(slashes) + 1
             name(k)   == IF behind(k) = {} THEN "" ELSE p[CHOOSE i \in behind(k) : TRUE]
  <2>1. Cardinality(slashes) \in Nat
    <3>1. IsFiniteSet(1 .. Len(p)) /\ slashes \in SUBSET (1 .. Len(p))
      BY FS_Interval
    <3> QED BY <3>1, FS_Subset, FS_CardinalityType
  <2>2. n \in Nat /\ n >= 1
    BY <2>1
  <2>3. ASSUME NEW k \in 1 .. n PROVE name(k) \in DOMAIN Short
    <3>1. CASE behind(k) = {}
      BY <3>1, Names
    <3>2. CASE behind(k) # {}
      <4> DEFINE c == CHOOSE i \in behind(k) : TRUE
      <4>1. c \in behind(k)
        BY <3>2
      <4>2. c \in DOMAIN p /\ p[c] # Slash
        BY <4>1
      <4>3. name(k) = p[c]
        BY <3>2
      <4> HIDE DEF c, name, behind
      <4>4. p[c] \in DOMAIN Short \cup {"/"}
        BY <4>2
      <4> QED BY <4>2, <4>3, <4>4 DEF Slash
    <3> QED BY <3>1, <3>2
  <2>4. Components(p) = [k \in 1 .. n |-> name(k)]
    BY DEF Components
  <2> HIDE DEF n, name, slashes, behind
  <2>5. [k \in 1 .. n |-> name(k)] \in [1 .. n -> DOMAIN Short]
    BY <2>3
  <2>6. Components(p) \in Seq(DOMAIN Short) /\ Len(Components(p)) = n
    BY <2>2, <2>4, <2>5, SeqFun
  <2> QED BY <2>2, <2>6
<1>2. path \in Seq(DOMAIN Short \cup {"/"})
  BY Names
<1>3. path # <<>> => Tail(path) \in Seq(DOMAIN Short \cup {"/"})
  BY <1>2
<1>4. \/ ConstructPath(path).names = Components(path)
      \/ path # <<>> /\ ConstructPath(path).names = Components(Tail(path))
  BY DEF ConstructPath
<1> QED
  BY <1>1, <1>2, <1>3, <1>4

\* Visiting the names of a path is a lookup and a move in turn.
LEMMA QuietVisit ==
    ASSUME NEW path, path.names \in Seq(DOMAIN Short), NEW step \in {"enter", "descend"}
    PROVE  Quiet(ToStart(path), {"root", "get", step}) /\ Quiet(Visit(path, step), {"root", "get", step})
<1> DEFINE n == 2 * Len(path.names)
           item(i) == LET name == path.names[(i + 1) \div 2]
                      IN  IF i % 2 = 1 THEN Get(name, "none") ELSE [do |-> step, name |-> name]
           v == [i \in 1 .. n |-> item(i)]
<1>1. n \in Nat /\ Len(path.names) \in Nat
  OBVIOUS
<1>2. ASSUME NEW i \in 1 .. n
      PROVE  /\ item(i) \in Plain
             /\ item(i).do \in {"get", step}
             /\ item(i).do = "get" => item(i).make = "none"
             /\ item(i).do = "descend" => i > 1 /\ item(i - 1) = Get(item(i).name, "none")
  <2>1. (i + 1) \div 2 \in 1 .. Len(path.names)
    BY <1>1
  <2>2. path.names[(i + 1) \div 2] \in DOMAIN Short
    BY <2>1
  <2>3. CASE i % 2 = 1
    <3>1. item(i) = Get(path.names[(i + 1) \div 2], "none")
      BY <2>3
    <3> HIDE DEF item
    <3> QED BY <2>2, <3>1 DEF Get, Plain, Lookups
  <2>4. CASE i % 2 # 1
    <3>1. i > 1 /\ (i - 1) % 2 = 1 /\ ((i - 1) + 1) \div 2 = (i + 1) \div 2
      BY <2>4
    <3>2. item(i) = [do |-> step, name |-> path.names[(i + 1) \div 2]]
      BY <2>4
    <3>3. item(i - 1) = Get(path.names[(i + 1) \div 2], "none")
      BY <3>1
    <3> HIDE DEF item
    <3> QED BY <2>2, <3>1, <3>2, <3>3 DEF Plain, Moves
  <2> QED BY <2>3, <2>4
<1>3. \A i \in 1 .. n : v[i] = item(i)
  OBVIOUS
<1>4. v \in [1 .. n -> Plain]
  <2> HIDE DEF item, n
  <2> QED BY <1>2
<1> HIDE DEF v, n, item
<1>5. v \in Seq(Plain) /\ Len(v) = n
  BY <1>1, <1>4, SeqFun
<1>6. \A i \in 1 .. n : i > 1 => i - 1 \in 1 .. n
  BY <1>1
<1>7. Quiet(v, {"root", "get", step})
  BY <1>2, <1>3, <1>5, <1>6 DEF Quiet
<1>8. Quiet(ToStart(path), {"root", "get", step})
  BY QuietStep, QuietNone DEF ToStart
<1>9. Visit(path, step) = ToStart(path) \o v
  BY DEF Visit, v, n, item
<1> QED
  BY <1>7, <1>8, <1>9, QuietConcat

-----------------------------------------------------------------------------
(* The invariant.                                                           *)

\* How far the memory and the two tables agree with the volume when k device
\* writes are left: a flush writes the table, its copy and the directory.
Agreed(k) ==
    /\ k < 3 /\ fat # NoTable => fat = fat1
    /\ k = 1 /\ fat # NoTable => fat1 = fat2
    /\ k = 0 => nodes = Region(cwd)

\* ScanEnd, of any list of nodes.
ScanIn(s, n) ==
    LET ends == {i \in DOMAIN s : s[i].state = "unused" \/ Matches(s[i], n)}
    IN  IF ends = {} THEN 0 ELSE Min(ends)

\* What the step that follows the writes needs to know of the node in hand: the
\* directory it enters; where the scan ended; that nothing of the name was found.
PlaceKnown(k) ==
    /\ k < Len(todo) /\ todo[k + 1].do = "into" => node # 0 /\ nodes[node].dir
    /\ k < Len(todo) /\ todo[k + 1].do = "descend" => node = ScanIn(nodes, todo[k + 1].name)
    /\ todo # <<>> /\ todo[1].do = "get" /\ todo[1].make = "dir" =>
          /\ ScanIn(nodes, todo[1].name) # 0
          /\ nodes[ScanIn(nodes, todo[1].name)].state = "unused"

\* Only a write resizes a file, and it has a name and a length.
CommandTyped ==
    (\E i \in 1 .. Len(todo) : todo[i].do = "resize") => cmd.name \in FileNames /\ cmd.len \in Nat

MemoryTyped ==
    /\ mounted \in BOOLEAN /\ torn \in BOOLEAN
    /\ fat \in Table \cup {NoTable}
    /\ cwd \in Starts /\ orig \in Starts
    /\ nodes \in IF mounted THEN RegionEntries ELSE {<<>>}
    /\ node \in 0 .. Slots(DirSpan)
    /\ todo # <<>> => mounted

InOrder(k) == Ordered(todo, k) /\ PlaceKnown(k) /\ (mounted => Agreed(k))

CacheInv ==
    /\ fat1 \in Table /\ fat2 \in Table
    /\ VolumeTyped
    /\ MemoryTyped
    /\ CommandTyped
    /\ \E k \in Nat : InOrder(k)

\* A scan ends at a slot of the directory or nowhere, and one that ends at an entry
\* never used has seen a slot a new entry can take.
LEMMA Scans ==
    ASSUME nodes \in RegionEntries, NEW n
    PROVE  /\ ScanEnd(n) = ScanIn(nodes, n)
           /\ ScanEnd(n) \in 0 .. Slots(DirSpan)
           /\ FirstSlot(n) \in 0 .. Slots(DirSpan)
           /\ ScanEnd(n) # 0 /\ nodes[ScanEnd(n)].state = "unused" => FirstSlot(n) # 0
<1> DEFINE places == 1 .. Slots(DirSpan)
           ends == {i \in DOMAIN nodes : nodes[i].state = "unused" \/ Matches(nodes[i], n)}
           seen == IF ScanEnd(n) = 0 THEN DOMAIN nodes ELSE 1 .. ScanEnd(n)
           open == {i \in seen : nodes[i].state # "used"}
<1>1. DOMAIN nodes = places /\ Slots(DirSpan) \in Nat
  BY Spans DEF RegionEntries
<1>2. ASSUME NEW T \in SUBSET places, T # {} PROVE Min(T) \in T
  <2>1. T \in SUBSET Nat
    BY <1>1
  <2>2. \E m \in T : \A k \in T : m <= k
    BY <1>2, <2>1, LeastNatural
  <2> QED BY <2>2 DEF Min
<1>3. ScanEnd(n) = IF ends = {} THEN 0 ELSE Min(ends)
  BY DEF ScanEnd
<1>4. ends \in SUBSET places
  BY <1>1
<1> HIDE DEF ends
<1>5. ScanEnd(n) \in 0 .. Slots(DirSpan)
  <2>1. ends # {} => Min(ends) \in ends
    BY <1>2, <1>4
  <2>2. ends # {} => Min(ends) \in places
    BY <2>1, <1>4
  <2>3. places \subseteq 0 .. Slots(DirSpan) /\ 0 \in 0 .. Slots(DirSpan)
    BY <1>1
  <2> HIDE DEF places
  <2> QED BY <1>3, <2>2, <2>3
<1>6. FirstSlot(n) = IF open = {} THEN 0 ELSE Min(open)
  BY DEF FirstSlot
<1>7. open \in SUBSET places
  BY <1>1, <1>5
<1>8. ScanEnd(n) # 0 /\ nodes[ScanEnd(n)].state = "unused" => ScanEnd(n) \in open
  BY <1>5
<1> HIDE DEF open, seen
<1>9. /\ FirstSlot(n) \in 0 .. Slots(DirSpan)
      /\ open # {} => FirstSlot(n) \in places
  <2>1. open # {} => Min(open) \in open
    BY <1>2, <1>7
  <2>2. open # {} => Min(open) \in places
    BY <2>1, <1>7
  <2>3. places \subseteq 0 .. Slots(DirSpan) /\ 0 \in 0 .. Slots(DirSpan)
    BY <1>1
  <2> HIDE DEF places
  <2> QED BY <1>6, <2>2, <2>3
<1>10. ScanEnd(n) = ScanIn(nodes, n)
  BY DEF ScanEnd, ScanIn
<1> QED
  BY <1>1, <1>5, <1>8, <1>9, <1>10

-----------------------------------------------------------------------------
(* What every step shares.                                                  *)

\* The table in memory is a table, and so is the one read when there is none.
LEMMA LoadedType ==
    ASSUME fat1 \in Table, fat \in Table \cup {NoTable}
    PROVE  LoadedTable \in Table
BY DEF LoadedTable

\* A step that adds no resize leaves the command typed.
LEMMA CommandKept ==
    ASSUME CommandTyped, todo' # <<>> => cmd' = cmd,
           \A i \in 1 .. Len(todo') : todo'[i].do = "resize" => \E j \in 1 .. Len(todo) : todo[j].do = "resize"
    PROVE  CommandTyped'
<1>1. todo' = <<>> => Len(todo') = 0
  OBVIOUS
<1>2. (\E i \in 1 .. Len(todo') : todo'[i].do = "resize") => todo' # <<>>
  BY <1>1
<1> QED
  BY <1>2 DEF CommandTyped

\* The command is over.
LEMMA Ends ==
    ASSUME CacheInv, Proceed(<<>>, 0)
    PROVE  /\ todo' = <<>> /\ node' = 0 /\ orig' \in Starts
           /\ CommandTyped'
           /\ Ordered(todo', 0) /\ PlaceKnown(0)'
<1>1. todo' = <<>> /\ node' = 0 /\ orig' = RootCluster
  BY DEF Proceed
<1>2. todo' \in Seq(Plain) /\ Len(todo') = 0
  BY <1>1
<1>3. CommandTyped'
  BY <1>2 DEF CommandTyped
<1>4. Ordered(todo', 0)
  BY <1>1, QuietNone, QuietOrdered
<1>5. PlaceKnown(0)'
  BY <1>1, <1>2 DEF PlaceKnown
<1> QED
  BY <1>1, <1>3, <1>4, <1>5 DEF Starts

\* A step without a device write, other than a lookup, is done.
LEMMA Goes ==
    ASSUME CacheInv, InOrder(0), todo # <<>>, Head(todo).do # "get", Proceed(Tail(todo), 0)
    PROVE  /\ node' = 0 /\ orig' \in Starts /\ todo # <<>>
           /\ CommandTyped'
           /\ Ordered(todo', 0) /\ PlaceKnown(0)'
<1> DEFINE u == Tail(todo)
<1>1. /\ todo' = u /\ node' = 0 /\ orig' \in {RootCluster, orig}
      /\ u # <<>> => cmd' = cmd
  BY DEF Proceed
<1>2. /\ Ordered(u, 0)
      /\ u # <<>> => LET x == u[1]
                     IN  /\ x.do # "into" /\ x.do # "descend"
                         /\ x.do = "get" => x.make # "dir"
  BY OrderedNext DEF InOrder
<1>3. todo \in Seq(Steps)
  BY DEF InOrder, Ordered
<1>4. /\ u \in Seq(Steps) /\ Len(u) = Len(todo) - 1
      /\ \A i \in 1 .. Len(todo) - 1 : u[i] = todo[i + 1] /\ i + 1 \in 1 .. Len(todo)
  BY <1>3, TailFacts
<1>5. CommandTyped'
  <2>1. \A i \in 1 .. Len(u) : u[i].do = "resize" => \E j \in 1 .. Len(todo) : todo[j].do = "resize"
    BY <1>4
  <2> HIDE DEF u
  <2> QED BY <1>1, <2>1, CommandKept DEF CacheInv
<1>6. PlaceKnown(0)'
  <2> HIDE DEF u
  <2>1. 0 < Len(u) => u # <<>> /\ 0 + 1 = 1
    BY <1>4
  <2> QED BY <1>1, <1>2, <2>1 DEF PlaceKnown
<1> QED
  BY <1>1, <1>2, <1>5, <1>6 DEF CacheInv, MemoryTyped, Starts

\* A device write is done.
LEMMA Written ==
    ASSUME CacheInv, NEW k \in Nat, InOrder(k), k > 0, todo # <<>>, Proceed(Tail(todo), node),
           nodes' = nodes
    PROVE  /\ node' \in 0 .. Slots(DirSpan) /\ orig' \in Starts /\ todo # <<>>
           /\ CommandTyped'
           /\ Ordered(todo', k - 1) /\ PlaceKnown(k - 1)'
<1> DEFINE u == Tail(todo)
<1>1. /\ todo' = u /\ node' \in {0, node} /\ orig' \in {RootCluster, orig}
      /\ u # <<>> => cmd' = cmd /\ node' = node
  BY DEF Proceed
<1>2. Ordered(todo, k) /\ Ordered(u, k - 1)
  BY OrderedTail DEF InOrder
<1>3. todo \in Seq(Steps) /\ k \in 0 .. Len(todo) /\ Len(todo) \in Nat
  BY <1>2 DEF Ordered
<1>4. /\ u \in Seq(Steps) /\ Len(u) = Len(todo) - 1
      /\ \A i \in 1 .. Len(todo) - 1 : u[i] = todo[i + 1] /\ i + 1 \in 1 .. Len(todo)
  BY <1>3, TailFacts
<1>5. CommandTyped'
  <2>1. \A i \in 1 .. Len(u) : u[i].do = "resize" => \E j \in 1 .. Len(todo) : todo[j].do = "resize"
    BY <1>4
  <2> HIDE DEF u
  <2> QED BY <1>1, <2>1, CommandKept DEF CacheInv
<1>6. PlaceKnown(k - 1)'
  <2>1. k - 1 < Len(u) => u # <<>> /\ k < Len(todo) /\ u[(k - 1) + 1] = todo[k + 1]
    <3> HIDE DEF u
    <3>0. Len(u) = Len(todo) - 1 /\ Len(todo) \in Nat
      BY <1>3, <1>4
    <3>1. k - 1 < Len(u) => k \in 1 .. Len(todo) - 1 /\ (k - 1) + 1 = k /\ Len(u) # 0
      BY <3>0
    <3>2. Len(u) # 0 => u # <<>>
      BY <1>4
    <3> QED BY <3>1, <3>2, <1>3, <1>4
  <2>2. u # <<>> => ~(u[1].do = "get" /\ u[1].make = "dir")
    <3>1. u # <<>> => 1 \in 1 .. Len(todo) - 1
      BY <1>3, <1>4
    <3>2. u # <<>> => u[1] = todo[1 + 1] /\ 1 + 1 \in 1 .. Len(todo)
      BY <3>1, <1>4
    <3> QED BY <3>2, <1>2 DEF Ordered
  <2>4. PlaceKnown(k)
    BY DEF InOrder
  <2> HIDE DEF u
  <2>5. k - 1 < Len(u) /\ u[(k - 1) + 1].do = "into" => node' # 0 /\ nodes'[node'].dir
    BY <1>1, <2>1, <2>4 DEF PlaceKnown
  <2>6. k - 1 < Len(u) /\ u[(k - 1) + 1].do = "descend" => node' = ScanIn(nodes', u[(k - 1) + 1].name)
    BY <1>1, <2>1, <2>4 DEF PlaceKnown
  <2> QED BY <1>1, <2>2, <2>5, <2>6 DEF PlaceKnown
<1> QED
  BY <1>1, <1>2, <1>5, <1>6, Spans DEF CacheInv, MemoryTyped, Starts

\* fat12_load_directory: the nodes are what the volume has there.
LEMMA Loads ==
    ASSUME CacheInv, InOrder(0), todo # <<>>, NEW c \in Starts, Load(c)
    PROVE  /\ fat1' \in Table /\ fat2' \in Table /\ VolumeTyped'
           /\ mounted' = TRUE /\ torn' \in BOOLEAN /\ fat' \in Table \cup {NoTable}
           /\ cwd' \in Starts /\ nodes' \in RegionEntries
           /\ Agreed(0)'
<1>1. mounted = TRUE /\ Agreed(0)
  BY DEF CacheInv, MemoryTyped, InOrder
<1>2. /\ fat1' = fat1 /\ fat2' = fat2 /\ root' = root /\ data' = data
      /\ mounted' = mounted /\ torn' = torn /\ fat' = fat
      /\ cwd' = c /\ nodes' = Region(c)
  BY DEF Load, volume
<1>3. Region(c) \in RegionEntries
  BY RegionType DEF CacheInv
<1>4. Region(cwd)' = Region(c)
  BY <1>2 DEF Region
<1>5. VolumeTyped'
  BY <1>2 DEF CacheInv, VolumeTyped
<1>6. Agreed(0)'
  BY <1>1, <1>2, <1>4 DEF Agreed
<1> QED
  BY <1>1, <1>2, <1>3, <1>5, <1>6 DEF CacheInv, MemoryTyped

-----------------------------------------------------------------------------
(* The steps, one by one.                                                   *)

\* With nothing to do, there is nothing to know.
LEMMA NothingToDo ==
    ASSUME todo' = <<>>
    PROVE  Ordered(todo', 0) /\ PlaceKnown(0)' /\ CommandTyped'
<1>1. todo' \in Seq(Plain) /\ Len(todo') = 0
  OBVIOUS
<1>2. Ordered(<<>>, 0)
  BY QuietNone, QuietOrdered
<1> QED
  BY <1>1, <1>2 DEF PlaceKnown, CommandTyped

\* The process ends where it is.
LEMMA StopStep ==
    ASSUME CacheInv, Stop
    PROVE  CacheInv'
<1>1. /\ fat1' = fat1 /\ fat2' = fat2 /\ root' = root /\ data' = data
      /\ mounted' = FALSE /\ fat' = NoTable /\ cwd' = RootCluster /\ nodes' = <<>>
      /\ todo' = <<>> /\ node' = 0 /\ orig' = RootCluster
  BY DEF Stop, Forget, volume
<1>2. torn' \in BOOLEAN
  BY DEF Stop
<1>3. InOrder(0)'
  BY <1>1, NothingToDo DEF InOrder
<1>4. VolumeTyped'
  BY <1>1 DEF CacheInv, VolumeTyped
<1>5. MemoryTyped'
  <2>1. RootCluster \in Starts /\ 0 \in 0 .. Slots(DirSpan) /\ NoTable \in Table \cup {NoTable}
    BY Spans DEF Starts
  <2> QED BY <1>1, <1>2, <2>1 DEF MemoryTyped
<1>6. CommandTyped'
  BY <1>1, NothingToDo
<1> QED
  BY <1>1, <1>3, <1>4, <1>5, <1>6 DEF CacheInv

\* Where no command is under way.
LEMMA AtRest ==
    ASSUME CacheInv, Idle
    PROVE  Ordered(todo, 0) /\ PlaceKnown(0) /\ (mounted => Agreed(0))
<1>1. PICK k \in Nat : InOrder(k)
  BY DEF CacheInv
<1>2. k = 0
  <2>1. k \in 0 .. Len(todo) /\ Len(todo) = 0
    BY <1>1 DEF InOrder, Ordered, Idle
  <2> QED BY <2>1
<1> QED
  BY <1>1, <1>2 DEF InOrder

\* A mount reads the root directory and no table.
LEMMA MountStep ==
    ASSUME CacheInv, Mount
    PROVE  CacheInv'
<1>1. /\ fat1' = fat1 /\ fat2' = fat2 /\ root' = root /\ data' = data
      /\ mounted' = TRUE /\ fat' = NoTable /\ cwd' = RootCluster /\ nodes' = root
      /\ todo' = todo /\ node' = node /\ orig' = orig /\ torn' = torn
  BY DEF Mount, volume
<1>2. todo = <<>>
  BY DEF Mount, CacheInv, MemoryTyped
<1>3. Agreed(0)'
  BY <1>1 DEF Agreed, Region
<1>4. InOrder(0)'
  BY <1>1, <1>2, <1>3, NothingToDo DEF InOrder
<1>5. VolumeTyped'
  BY <1>1 DEF CacheInv, VolumeTyped
<1>6. MemoryTyped'
  BY <1>1 DEF CacheInv, MemoryTyped, Starts, VolumeTyped
<1>7. CommandTyped'
  BY <1>1, <1>2, NothingToDo
<1> QED
  BY <1>1, <1>4, <1>5, <1>6, <1>7 DEF CacheInv

\* A volume formatted anew.
LEMMA ReinitialiseStep ==
    ASSUME CacheInv, Reinitialise
    PROVE  CacheInv'
<1>1. /\ fat1' = EmptyTable /\ fat2' = EmptyTable
      /\ root' = [i \in 1 .. Slots(DirSpan) |-> Unused]
      /\ data' = [c \in DeviceClusters |-> Blank]
      /\ mounted' = mounted /\ fat' = fat /\ cwd' = cwd /\ nodes' = nodes
      /\ todo' = todo /\ node' = node /\ orig' = orig /\ torn' = FALSE
      /\ mounted = FALSE
  BY DEF Reinitialise, memory, CacheInv, MemoryTyped
<1>2. todo = <<>>
  BY <1>1 DEF CacheInv, MemoryTyped
<1>3. InOrder(0)'
  BY <1>1, <1>2, NothingToDo DEF InOrder
<1>4. VolumeTyped'
  BY <1>1, BlankType DEF VolumeTyped, RegionEntries
<1>5. MemoryTyped'
  BY <1>1 DEF CacheInv, MemoryTyped
<1>6. CommandTyped'
  BY <1>1, <1>2, NothingToDo
<1>7. EmptyTable \in Table
  BY DEF EmptyTable, Table, Link
<1> QED
  BY <1>1, <1>3, <1>4, <1>5, <1>6, <1>7 DEF CacheInv

\* A command begins with a quiet list of steps.
LEMMA BeginStep ==
    ASSUME CacheInv, NEW command, NEW steps, NEW D, Begin(command, steps), Quiet(steps, D),
           "resize" \in D => command.name \in FileNames /\ command.len \in Nat
    PROVE  CacheInv'
<1>1. /\ fat1' = fat1 /\ fat2' = fat2 /\ root' = root /\ data' = data
      /\ mounted' = mounted /\ fat' = fat /\ cwd' = cwd /\ nodes' = nodes
      /\ todo' = steps /\ node' = 0 /\ orig' = cwd /\ torn' = torn /\ cmd' = command
      /\ mounted = TRUE /\ Idle
  BY DEF Begin, volume, memory, CacheInv, MemoryTyped
<1>2. Agreed(0)
  BY <1>1, AtRest
<1>3. Agreed(0)'
  BY <1>1, <1>2 DEF Agreed, Region
<1>4. /\ Ordered(steps, 0)
      /\ steps # <<>> => LET x == steps[1]
                         IN  /\ x.do # "into" /\ x.do # "descend"
                             /\ x.do = "get" => x.make # "dir"
  BY QuietOrdered
<1>5. steps \in Seq(Plain) /\ \A i \in 1 .. Len(steps) : steps[i].do \in D
  BY DEF Quiet
<1>6. PlaceKnown(0)'
  <2>1. 0 < Len(steps) => steps # <<>> /\ 0 + 1 = 1
    BY <1>5
  <2> QED BY <1>1, <1>4, <2>1 DEF PlaceKnown
<1>7. InOrder(0)'
  BY <1>1, <1>3, <1>4, <1>6 DEF InOrder
<1>8. VolumeTyped'
  BY <1>1 DEF CacheInv, VolumeTyped
<1>9. MemoryTyped'
  BY <1>1, Spans DEF CacheInv, MemoryTyped
<1>10. CommandTyped'
  BY <1>1, <1>5 DEF CommandTyped
<1> QED
  BY <1>1, <1>7, <1>8, <1>9, <1>10 DEF CacheInv

\* touch, read, rm and write.
LEMMA FileCommandStep ==
    ASSUME CacheInv, NEW n \in FileNames \cup Removable,
           \/ TouchFile(n) \/ ReadFile(n) \/ RemoveFile(n)
           \/ n \in FileNames /\ \E len \in Lengths[n] : WriteFile(n, len)
    PROVE  CacheInv'
<1>1. n \in DOMAIN Short
  BY Names
<1>2. CASE TouchFile(n)
  <2>1. Quiet(<<Get(n, "file")>>, {"get"})
    BY <1>1, QuietGet
  <2> QED BY <1>2, <2>1, BeginStep DEF TouchFile
<1>3. CASE ReadFile(n)
  <2> DEFINE D == {"get", "fetch"}
             steps == <<Get(n, "none"), Step("fetch")>>
  <2>1. Quiet(<<Get(n, "none")>>, D) /\ Quiet(<<Step("fetch")>>, D)
    BY <1>1, QuietGet, QuietStep
  <2>2. Quiet(<<Get(n, "none")>> \o <<Step("fetch")>>, D)
    BY <2>1, QuietConcat
  <2>3. steps = <<Get(n, "none")>> \o <<Step("fetch")>>
    OBVIOUS
  <2>4. Quiet(steps, D) /\ "resize" \notin D
    BY <2>2, <2>3
  <2>5. Begin([op |-> "read", name |-> n], steps)
    BY <1>3 DEF ReadFile
  <2> HIDE DEF steps, D
  <2> QED BY <2>4, <2>5, BeginStep
<1>4. CASE RemoveFile(n)
  <2> DEFINE D == {"get", "drop"}
             steps == <<Get(n, "none"), Step("drop")>>
  <2>1. Quiet(<<Get(n, "none")>>, D) /\ Quiet(<<Step("drop")>>, D)
    BY <1>1, QuietGet, QuietStep
  <2>2. Quiet(<<Get(n, "none")>> \o <<Step("drop")>>, D)
    BY <2>1, QuietConcat
  <2>3. steps = <<Get(n, "none")>> \o <<Step("drop")>>
    OBVIOUS
  <2>4. Quiet(steps, D) /\ "resize" \notin D
    BY <2>2, <2>3
  <2>5. Begin([op |-> "remove", name |-> n], steps)
    BY <1>4 DEF RemoveFile
  <2> HIDE DEF steps, D
  <2> QED BY <2>4, <2>5, BeginStep
<1>5. CASE n \in FileNames /\ \E len \in Lengths[n] : WriteFile(n, len)
  <2> DEFINE D == {"get", "resize"}
             steps == <<Get(n, "file"), Get(n, "file"), Step("resize")>>
  <2>1. Quiet(<<Get(n, "file")>>, D) /\ Quiet(<<Step("resize")>>, D)
    BY <1>1, QuietGet, QuietStep
  <2>2. Quiet(<<Get(n, "file")>> \o <<Get(n, "file")>>, D)
    BY <2>1, QuietConcat
  <2>3. Quiet((<<Get(n, "file")>> \o <<Get(n, "file")>>) \o <<Step("resize")>>, D)
    BY <2>1, <2>2, QuietConcat
  <2>4. steps = (<<Get(n, "file")>> \o <<Get(n, "file")>>) \o <<Step("resize")>>
    OBVIOUS
  <2>5. Quiet(steps, D)
    BY <2>3, <2>4
  <2>6. PICK len \in Lengths[n] : WriteFile(n, len)
    BY <1>5
  <2>7. len \in Nat
    BY <1>5, SpanAssumption
  <2> DEFINE command == [op |-> "write", name |-> n, len |-> len]
  <2>8. Begin(command, steps)
    BY <2>6 DEF WriteFile
  <2>9. command.name \in FileNames /\ command.len \in Nat
    BY <1>5, <2>7
  <2> HIDE DEF steps, D, command
  <2> QED BY <2>5, <2>8, <2>9, BeginStep
<1> QED
  BY <1>2, <1>3, <1>4, <1>5

\* cd and mkdir.
LEMMA PathCommandStep ==
    ASSUME CacheInv, NEW path \in Paths, Cd(ConstructPath(path)) \/ Mkdir(ConstructPath(path))
    PROVE  CacheInv'
<1> DEFINE p == ConstructPath(path)
<1>1. p.names \in Seq(DOMAIN Short)
  BY PathNames
<1> HIDE DEF p
<1>2. CASE Cd(p)
  <2> DEFINE steps == IF p.names[1] = "" THEN ToStart(p) ELSE Visit(p, "enter")
             D == {"root", "get", "enter"}
  <2>1. Quiet(ToStart(p), D) /\ Quiet(Visit(p, "enter"), D)
    BY <1>1, QuietVisit
  <2>2. Quiet(steps, D) /\ "resize" \notin D
    BY <2>1
  <2>3. Begin([op |-> "cd", path |-> p], steps)
    BY <1>2 DEF Cd
  <2> HIDE DEF steps, D
  <2> QED BY <2>2, <2>3, BeginStep
<1>3. CASE Mkdir(p)
  <2> DEFINE steps == Visit(p, "descend") \o <<Step("back")>>
             D == {"root", "get", "descend", "back"}
  <2>1. Quiet(Visit(p, "descend"), {"root", "get", "descend"})
    BY <1>1, QuietVisit
  <2>2. Quiet(Visit(p, "descend"), D)
    BY <2>1 DEF Quiet
  <2>3. Quiet(<<Step("back")>>, D)
    BY QuietStep
  <2>4. Quiet(steps, D) /\ "resize" \notin D
    BY <2>2, <2>3, QuietConcat
  <2>5. Begin([op |-> "mkdir", path |-> p], steps)
    BY <1>3 DEF Mkdir
  <2> HIDE DEF steps, D
  <2> QED BY <2>4, <2>5, BeginStep
<1> QED
  BY <1>2, <1>3 DEF p

\* Every command.
LEMMA CommandStep ==
    ASSUME CacheInv, Command
    PROVE  CacheInv'
<1>1. CASE \E n \in FileNames : TouchFile(n) \/ ReadFile(n)
                              \/ (WritesFiles(n) /\ \E len \in Lengths[n] : WriteFile(n, len))
  BY <1>1, FileCommandStep
<1>2. CASE \E n \in Removable : RemoveFile(n)
  BY <1>2, FileCommandStep
<1>3. CASE \E path \in Paths : Cd(ConstructPath(path)) \/ Mkdir(ConstructPath(path))
  BY <1>3, PathCommandStep
<1> QED
  BY <1>1, <1>2, <1>3 DEF Command

\* The four device writes.  What is left to write, and so how far the memory, the
\* tables and the directory agree, follows from the step that is next.
LEMMA WriteStep ==
    ASSUME CacheInv, FlushFat1 \/ FlushFat2 \/ FlushDir \/ Store
    PROVE  CacheInv'
<1>1. PICK k \in Nat : InOrder(k)
  BY DEF CacheInv
<1>2. todo # <<>> /\ Proceed(Tail(todo), node)
  BY DEF FlushFat1, FlushFat2, FlushDir, Store, Next1, Idle
<1>3. /\ mounted' = mounted /\ fat' = fat /\ cwd' = cwd /\ nodes' = nodes /\ torn' = torn
      /\ mounted = TRUE
  BY <1>2 DEF FlushFat1, FlushFat2, FlushDir, Store, memory, CacheInv, MemoryTyped
<1>4. Agreed(k) /\ nodes \in RegionEntries /\ cwd \in Starts
  BY <1>1, <1>3 DEF InOrder, CacheInv, MemoryTyped
<1>5. Ordered(todo, k)
  BY <1>1 DEF InOrder
<1>6. /\ Head(todo).do = "dir"  => k = 1
      /\ Head(todo).do = "fat2" => k = 2
      /\ Head(todo).do = "fat1" => k = 3
      /\ Head(todo).do = "store" => k > 3 /\ Head(todo) \in Stores
  BY <1>2, <1>5, OrderedKind
<1>7. /\ k > 0
      /\ fat1' \in Table /\ fat2' \in Table
      /\ VolumeTyped'
      /\ Agreed(k - 1)'
  <2>1. CASE FlushFat1
    <3>1. k = 3 /\ k - 1 = 2
      BY <1>6, <2>1 DEF FlushFat1, Next1
    <3>2. /\ fat1' = (IF fat = NoTable THEN fat1 ELSE fat)
          /\ fat2' = fat2 /\ root' = root /\ data' = data
      BY <2>1 DEF FlushFat1
    <3>3. VolumeTyped' /\ fat1' \in Table /\ fat2' \in Table
      BY <3>2 DEF CacheInv, VolumeTyped, MemoryTyped
    <3>4. Agreed(2)'
      BY <1>3, <3>2 DEF Agreed
    <3> QED BY <3>1, <3>3, <3>4
  <2>2. CASE FlushFat2
    <3>1. k = 2 /\ k - 1 = 1
      BY <1>6, <2>2 DEF FlushFat2, Next1
    <3>2. /\ fat2' = (IF fat = NoTable THEN fat2 ELSE fat)
          /\ fat1' = fat1 /\ root' = root /\ data' = data
      BY <2>2 DEF FlushFat2
    <3>3. VolumeTyped' /\ fat1' \in Table /\ fat2' \in Table
      BY <3>2 DEF CacheInv, VolumeTyped, MemoryTyped
    <3>4. fat # NoTable => fat = fat1
      BY <1>4, <3>1 DEF Agreed
    <3>5. Agreed(1)'
      BY <1>3, <3>2, <3>4 DEF Agreed
    <3> QED BY <3>1, <3>3, <3>5
  <2>3. CASE FlushDir
    <3>1. k = 1 /\ k - 1 = 0
      BY <1>6, <2>3 DEF FlushDir, Next1
    <3>2. WriteRegion(cwd, nodes) /\ fat1' = fat1 /\ fat2' = fat2
      BY <2>3 DEF FlushDir
    <3>3. VolumeTyped' /\ Region(cwd)' = nodes
      <4>1. VolumeTyped' /\ \A c \in Starts : c = cwd => Region(c)' = nodes
        BY <1>4, <3>2, WriteRegionEffect DEF CacheInv
      <4>2. \A c : c = cwd => Region(c)' = Region(cwd)'
        BY <1>3 DEF Region
      <4> QED BY <1>4, <4>1, <4>2
    <3>4. fat # NoTable => fat = fat1
      BY <1>4, <3>1 DEF Agreed
    <3>5. Agreed(0)'
      BY <1>3, <3>2, <3>3, <3>4 DEF Agreed
    <3> QED BY <3>1, <3>2, <3>3, <3>5 DEF CacheInv
  <2>4. CASE Store
    <3>1. k > 3 /\ Head(todo) \in Stores
      BY <1>6, <2>4 DEF Store, Next1
    <3>2. /\ WriteCluster(Head(todo).at, Head(todo).contents)
          /\ fat1' = fat1 /\ fat2' = fat2
      BY <2>4 DEF Store
    <3>3. Head(todo).at \in Nat /\ Head(todo).contents \in ClusterEntries
      BY <3>1 DEF Stores
    <3>4. VolumeTyped'
      BY <3>2, <3>3, WriteClusterEffect DEF CacheInv
    <3>5. ~(k - 1 < 3) /\ k - 1 # 1 /\ k - 1 # 0
      BY <3>1
    <3>6. Agreed(k - 1)'
      BY <3>5 DEF Agreed
    <3> QED BY <3>1, <3>2, <3>4, <3>6 DEF CacheInv
  <2> QED BY <2>1, <2>2, <2>3, <2>4
<1>8. /\ node' \in 0 .. Slots(DirSpan) /\ orig' \in Starts
      /\ CommandTyped'
      /\ Ordered(todo', k - 1) /\ PlaceKnown(k - 1)'
  BY <1>1, <1>2, <1>3, <1>7, Written
<1>9. MemoryTyped'
  BY <1>3, <1>8 DEF CacheInv, MemoryTyped
<1>10. InOrder(k - 1)' /\ k - 1 \in Nat
  BY <1>7, <1>8 DEF InOrder
<1> QED
  BY <1>7, <1>8, <1>9, <1>10 DEF CacheInv

\* A step of a kind that is no device write leaves none.
LEMMA NoWrites ==
    ASSUME CacheInv, todo # <<>>,
           Head(todo).do \in {"get", "enter", "descend", "resize", "fetch", "drop", "root", "back", "into"}
    PROVE  InOrder(0) /\ mounted = TRUE /\ nodes \in RegionEntries /\ Agreed(0)
<1>1. PICK k \in Nat : InOrder(k)
  BY DEF CacheInv
<1>2. Ordered(todo, k)
  BY <1>1 DEF InOrder
<1>3. k = 0
  BY <1>2, OrderedKind
<1> QED
  BY <1>1, <1>3 DEF InOrder, CacheInv, MemoryTyped

\* A read loads the table if there was none.
LEMMA FetchStep ==
    ASSUME CacheInv, Fetch
    PROVE  CacheInv'
<1>1. todo # <<>> /\ Head(todo).do = "fetch" /\ Proceed(Tail(todo), 0)
  BY DEF Fetch, Next1, Idle
<1>2. InOrder(0) /\ mounted = TRUE /\ nodes \in RegionEntries /\ Agreed(0)
  BY <1>1, NoWrites
<1>3. /\ node' = 0 /\ orig' \in Starts /\ CommandTyped'
      /\ Ordered(todo', 0) /\ PlaceKnown(0)'
  BY <1>1, <1>2, Goes
<1>4. /\ fat1' = fat1 /\ fat2' = fat2 /\ root' = root /\ data' = data
      /\ mounted' = mounted /\ cwd' = cwd /\ nodes' = nodes /\ torn' = torn
      /\ fat' \in {fat, LoadedTable}
  BY DEF Fetch, volume
<1>5. fat' \in Table \cup {NoTable}
  BY <1>4, LoadedType DEF CacheInv, MemoryTyped
<1>6. fat' # NoTable => fat' = fat1
  BY <1>2, <1>4 DEF LoadedTable, Agreed
<1>7. Agreed(0)'
  BY <1>2, <1>4, <1>6 DEF Agreed, Region
<1>8. VolumeTyped'
  BY <1>4 DEF CacheInv, VolumeTyped
<1>9. MemoryTyped'
  BY <1>2, <1>3, <1>4, <1>5, Spans DEF CacheInv, MemoryTyped
<1>10. InOrder(0)'
  BY <1>3, <1>7 DEF InOrder
<1> QED
  BY <1>3, <1>4, <1>8, <1>9, <1>10 DEF CacheInv

\* What is known after the nodes of another directory were read.
LEMMA AfterLoad ==
    ASSUME CacheInv, InOrder(0), todo # <<>>, NEW c \in Starts, Load(c),
           node' = 0, orig' \in Starts, CommandTyped', Ordered(todo', 0), PlaceKnown(0)'
    PROVE  CacheInv'
<1>1. /\ fat1' \in Table /\ fat2' \in Table /\ VolumeTyped'
      /\ mounted' = TRUE /\ torn' \in BOOLEAN /\ fat' \in Table \cup {NoTable}
      /\ cwd' \in Starts /\ nodes' \in RegionEntries
      /\ Agreed(0)'
  BY Loads
<1>2. InOrder(0)'
  BY <1>1 DEF InOrder
<1>3. MemoryTyped'
  BY <1>1, Spans DEF MemoryTyped
<1> QED
  BY <1>1, <1>2, <1>3 DEF CacheInv

\* The root directory, a directory found or just made, and back.
LEMMA MoveStep ==
    ASSUME CacheInv, ToRoot \/ Enter \/ IntoNew \/ Back
    PROVE  CacheInv'
<1>1. todo # <<>> /\ Head(todo).do \in {"root", "enter", "into", "back"}
  BY DEF ToRoot, Enter, IntoNew, Back, Next1, Idle
<1>2. InOrder(0) /\ mounted = TRUE /\ nodes \in RegionEntries
  BY <1>1, NoWrites
<1>3. RootCluster \in Starts /\ orig \in Starts
  BY DEF CacheInv, MemoryTyped, Starts
<1>4. node # 0 /\ nodes[node].dir => nodes[node].first \in Starts
  <2>1. node # 0 => node \in 1 .. Slots(DirSpan)
    BY Spans DEF CacheInv, MemoryTyped
  <2>2. node # 0 => nodes[node] \in NodeEntry
    BY <1>2, <2>1 DEF RegionEntries
  <2> QED BY <2>2 DEF NodeEntry, Starts
<1>5. IntoNew => node # 0 /\ nodes[node].dir
  <2>1. Ordered(todo, 0) /\ PlaceKnown(0)
    BY <1>2 DEF InOrder
  <2>2. Head(todo) = todo[1] /\ 1 \in 1 .. Len(todo)
    BY <1>1, <2>1, OrderedHead
  <2>3. 0 < Len(todo) /\ 0 + 1 = 1
    BY <2>2
  <2> QED BY <2>1, <2>2, <2>3 DEF PlaceKnown, IntoNew, Next1
<1>6. \/ \E c \in Starts : Load(c) /\ Proceed(Tail(todo), 0)
      \/ \E c \in Starts : Load(c) /\ Proceed(<<>>, 0)
  BY <1>3, <1>4, <1>5 DEF ToRoot, Enter, IntoNew, Back, FoundDir
<1>7. ASSUME NEW c \in Starts, Load(c), Proceed(Tail(todo), 0) PROVE CacheInv'
  <2>1. /\ node' = 0 /\ orig' \in Starts /\ CommandTyped'
        /\ Ordered(todo', 0) /\ PlaceKnown(0)'
    BY <1>1, <1>2, <1>7, Goes
  <2> QED BY <1>1, <1>2, <1>7, <2>1, AfterLoad
<1>8. ASSUME NEW c \in Starts, Load(c), Proceed(<<>>, 0) PROVE CacheInv'
  <2>1. /\ node' = 0 /\ orig' \in Starts /\ CommandTyped'
        /\ Ordered(todo', 0) /\ PlaceKnown(0)'
    BY <1>8, Ends
  <2> QED BY <1>1, <1>2, <1>8, <2>1, AfterLoad
<1> QED
  BY <1>6, <1>7, <1>8

\* A write or rm that found nothing.
LEMMA GiveUpStep ==
    ASSUME CacheInv, GiveUp
    PROVE  CacheInv'
<1>1. todo # <<>> /\ Head(todo).do \in {"resize", "drop"} /\ Proceed(<<>>, 0)
  BY DEF GiveUp, Next1, Idle
<1>2. InOrder(0) /\ mounted = TRUE /\ nodes \in RegionEntries /\ Agreed(0)
  BY <1>1, NoWrites
<1>3. /\ node' = 0 /\ orig' \in Starts /\ CommandTyped'
      /\ Ordered(todo', 0) /\ PlaceKnown(0)'
  BY <1>1, Ends
<1>4. /\ fat1' = fat1 /\ fat2' = fat2 /\ root' = root /\ data' = data
      /\ mounted' = mounted /\ fat' = fat /\ cwd' = cwd /\ nodes' = nodes /\ torn' = torn
  BY DEF GiveUp, volume, memory
<1>5. Agreed(0)'
  BY <1>2, <1>4 DEF Agreed, Region
<1>6. InOrder(0)'
  BY <1>3, <1>5 DEF InOrder
<1>7. VolumeTyped'
  BY <1>4 DEF CacheInv, VolumeTyped
<1>8. MemoryTyped'
  BY <1>2, <1>3, <1>4, Spans DEF CacheInv, MemoryTyped
<1> QED
  BY <1>3, <1>4, <1>6, <1>7, <1>8 DEF CacheInv

\* Steps put in front of the rest of a command.
LEMMA FrontFacts ==
    ASSUME NEW p \in Seq(Steps), NEW t \in Seq(Steps), t # <<>>
    PROVE  LET u == p \o Tail(t)
           IN  /\ u \in Seq(Steps) /\ Len(u) = Len(p) + (Len(t) - 1) /\ Len(p) \in Nat /\ Len(t) \in Nat
               /\ \A i \in 1 .. Len(p) : u[i] = p[i]
               /\ Len(p) < Len(u) => u[Len(p) + 1] = t[2] /\ 2 \in 1 .. Len(t)
               /\ \A i \in 1 .. Len(u) : \/ i \in 1 .. Len(p) /\ u[i] = p[i]
                                         \/ \E j \in 1 .. Len(t) : u[i] = t[j]
<1> DEFINE r == Tail(t)
           u == p \o r
<1>1. /\ r \in Seq(Steps) /\ Len(r) = Len(t) - 1
      /\ \A i \in 1 .. Len(t) - 1 : r[i] = t[i + 1] /\ i + 1 \in 1 .. Len(t)
  BY TailFacts
<1>2. Len(p) \in Nat /\ Len(t) \in Nat
  OBVIOUS
<1> HIDE DEF r
<1>3. /\ u \in Seq(Steps) /\ Len(u) = Len(p) + Len(r)
      /\ \A i \in 1 .. Len(p) : u[i] = p[i]
      /\ \A i \in 1 .. Len(r) : u[Len(p) + i] = r[i]
  BY <1>1, ConcatFacts
<1> HIDE DEF u
<1>4. Len(u) = Len(p) + (Len(t) - 1)
  BY <1>1, <1>3
<1>5. Len(p) < Len(u) => u[Len(p) + 1] = t[2] /\ 2 \in 1 .. Len(t)
  <2>1. Len(p) < Len(u) => 1 \in 1 .. Len(t) - 1
    BY <1>2, <1>4
  <2>2. Len(p) < Len(u) => u[Len(p) + 1] = r[1] /\ r[1] = t[1 + 1] /\ 1 + 1 \in 1 .. Len(t)
    BY <2>1, <1>1, <1>3
  <2> QED BY <2>2
<1>6. ASSUME NEW i \in 1 .. Len(u)
      PROVE  \/ i \in 1 .. Len(p) /\ u[i] = p[i]
             \/ \E j \in 1 .. Len(t) : u[i] = t[j]
  <2>1. CASE i \in 1 .. Len(p)
    BY <2>1, <1>3
  <2>2. CASE i \notin 1 .. Len(p)
    <3>1. i - Len(p) \in 1 .. Len(t) - 1 /\ Len(p) + (i - Len(p)) = i
      BY <1>2, <1>4, <2>2
    <3>2. u[i] = t[(i - Len(p)) + 1] /\ (i - Len(p)) + 1 \in 1 .. Len(t)
      BY <3>1, <1>1, <1>3
    <3> QED BY <3>2
  <2> QED BY <2>1, <2>2
<1> QED
  BY <1>2, <1>3, <1>4, <1>5, <1>6 DEF u, r

\* Where a lookup stands: what follows it is the step into a directory it makes, or
\* a descent to the name it looks for.
LEMMA AfterGet ==
    ASSUME CacheInv, todo # <<>>, Head(todo).do = "get"
    PROVE  /\ todo \in Seq(Steps) /\ Head(todo) = todo[1]
           /\ Head(todo).name \in DOMAIN Short /\ Head(todo).make \in {"none", "file", "dir"}
           /\ 2 \in 1 .. Len(todo) =>
                /\ todo[2].do = "into" => Head(todo).make = "dir"
                /\ todo[2].do = "descend" => Head(todo) = Get(todo[2].name, "none")
           /\ Head(todo).make = "dir" => MayCreate(Head(todo))
<1>1. InOrder(0) /\ mounted = TRUE /\ nodes \in RegionEntries
  BY NoWrites
<1>2. Ordered(todo, 0) /\ PlaceKnown(0)
  BY <1>1 DEF InOrder
<1>3. /\ todo \in Seq(Steps) /\ Head(todo) = todo[1] /\ 1 \in 1 .. Len(todo)
      /\ Head(todo) \in Lookups
  BY <1>2, OrderedHead, OrderedKind DEF Ordered
<1>4. Head(todo).name \in DOMAIN Short /\ Head(todo).make \in {"none", "file", "dir"}
  BY <1>3 DEF Lookups
<1>5. ASSUME 2 \in 1 .. Len(todo)
      PROVE  /\ todo[2].do = "into" => todo[1].make = "dir"
             /\ todo[2].do = "descend" => todo[1] = Get(todo[2].name, "none")
  <2>1. /\ todo[2].do = "into" => 2 = 0 + 1 \/ (0 = 0 /\ 2 = 2 /\ todo[1].do = "get" /\ todo[1].make = "dir")
        /\ todo[2].do = "descend" => 2 = 0 + 1 \/ (2 > 1 /\ todo[2 - 1] = Get(todo[2].name, "none"))
    BY <1>2, <1>5 DEF Ordered
  <2> QED BY <2>1
<1>6. ASSUME Head(todo).make = "dir" PROVE MayCreate(Head(todo))
  <2> DEFINE n == todo[1].name
  <2>1. ScanIn(nodes, n) # 0 /\ nodes[ScanIn(nodes, n)].state = "unused"
    BY <1>2, <1>3, <1>6 DEF PlaceKnown
  <2> HIDE DEF n
  <2>2. FirstSlot(n) # 0
    BY <2>1, <1>1, Scans
  <2> QED BY <2>2, <1>3, <1>6 DEF MayCreate, n
<1> QED
  BY <1>3, <1>4, <1>5, <1>6

\* A lookup that creates nothing.
LEMMA LookupStep ==
    ASSUME CacheInv, Lookup
    PROVE  CacheInv'
<1> DEFINE u == Flush \o Tail(todo)
           name == Head(todo).name
<1>1. todo # <<>> /\ Head(todo).do = "get" /\ ~MayCreate(Head(todo)) /\ Proceed(u, ScanEnd(name))
  BY DEF Lookup, Next1, Idle
<1>2. InOrder(0) /\ mounted = TRUE /\ nodes \in RegionEntries
  BY <1>1, NoWrites
<1>3. /\ todo \in Seq(Steps) /\ Head(todo) = todo[1]
      /\ 2 \in 1 .. Len(todo) =>
           /\ todo[2].do # "into"
           /\ todo[2].do = "descend" => Head(todo) = Get(todo[2].name, "none")
  BY <1>1, AfterGet
<1>4. Ordered(u, 3)
  BY <1>1, <1>2, OrderedLookup DEF InOrder
<1>5. Flush \in Seq(Steps) /\ Len(Flush) = 3 /\ \A i \in 1 .. 3 : Flush[i].do \in {"fat1", "fat2", "dir"}
  BY FlushType DEF Step
<1>6. /\ Len(u) = 3 + (Len(todo) - 1) /\ Len(todo) \in Nat
      /\ \A i \in 1 .. 3 : u[i] = Flush[i]
      /\ 3 < Len(u) => u[3 + 1] = todo[2] /\ 2 \in 1 .. Len(todo)
      /\ \A i \in 1 .. Len(u) : \/ i \in 1 .. 3 /\ u[i] = Flush[i]
                                \/ \E j \in 1 .. Len(todo) : u[i] = todo[j]
  <2>1. /\ Len(u) = Len(Flush) + (Len(todo) - 1) /\ Len(todo) \in Nat
        /\ \A i \in 1 .. Len(Flush) : u[i] = Flush[i]
        /\ Len(Flush) < Len(u) => u[Len(Flush) + 1] = todo[2] /\ 2 \in 1 .. Len(todo)
        /\ \A i \in 1 .. Len(u) : \/ i \in 1 .. Len(Flush) /\ u[i] = Flush[i]
                                  \/ \E j \in 1 .. Len(todo) : u[i] = todo[j]
    BY <1>1, <1>3, <1>5, FrontFacts
  <2> HIDE DEF u
  <2> QED BY <1>5, <2>1
<1> HIDE DEF u
<1>7. u # <<>> /\ 1 \in 1 .. 3
  <2>1. 3 \in 0 .. Len(u)
    BY <1>4 DEF Ordered
  <2> QED BY <2>1
<1>8. /\ fat1' = fat1 /\ fat2' = fat2 /\ root' = root /\ data' = data
      /\ mounted' = mounted /\ fat' = fat /\ cwd' = cwd /\ nodes' = nodes /\ torn' = torn
      /\ todo' = u /\ node' = ScanEnd(name) /\ cmd' = cmd /\ orig' = orig
  BY <1>1, <1>7 DEF Lookup, Proceed, volume, memory
<1>9. node' \in 0 .. Slots(DirSpan) /\ node' = ScanIn(nodes, name)
  BY <1>2, <1>8, Scans
<1>10. CommandTyped'
  <2>1. \A i \in 1 .. Len(u) : u[i].do = "resize" => \E j \in 1 .. Len(todo) : todo[j].do = "resize"
    BY <1>5, <1>6
  <2> QED BY <2>1, <1>8, CommandKept DEF CacheInv
<1>11. PlaceKnown(3)'
  <2>1. 3 < Len(u) => /\ u[3 + 1].do # "into"
                      /\ u[3 + 1].do = "descend" => name = u[3 + 1].name
    BY <1>3, <1>6 DEF Get
  <2>2. u[1].do # "get"
    BY <1>5, <1>6, <1>7
  <2> HIDE DEF name
  <2> QED BY <1>8, <1>9, <2>1, <2>2 DEF PlaceKnown
<1>12. InOrder(3)' /\ 3 \in Nat
  BY <1>4, <1>8, <1>11 DEF InOrder, Agreed
<1>13. VolumeTyped'
  BY <1>8 DEF CacheInv, VolumeTyped
<1>14. MemoryTyped'
  BY <1>2, <1>8, <1>9 DEF CacheInv, MemoryTyped
<1> QED
  BY <1>8, <1>10, <1>12, <1>13, <1>14 DEF CacheInv

\* The entry of a new file or directory.
LEMMA NewEntryType ==
    ASSUME NEW n \in DOMAIN Short, NEW dir \in BOOLEAN, NEW c \in Clusters
    PROVE  Entry("used", Short[n], dir, c, 0) \in NodeEntry
<1>1. c \in Nat
  BY Marks DEF Clusters
<1>2. Short[n] \in EntryNames
  BY DEF EntryNames
<1> QED
  BY <1>1, <1>2 DEF Entry, NodeEntry, EntrySet

\* A lookup that makes a file or a directory.
LEMMA CreateStep ==
    ASSUME CacheInv, CreateNode
    PROVE  CacheInv'
<1> DEFINE step  == Head(todo)
           slot  == FirstSlot(step.name)
           n     == ClustersFor(step.make)
           first == ReallocateStart(LoadedTable, Eof, n)
           entry == Entry("used", Short[step.name], step.make = "dir", first, 0)
           begun == [do |-> "store", at |-> first, contents |-> Dots(first)]
           p     == (IF step.make = "dir" THEN <<begun>> ELSE <<>>) \o Flush
           u     == p \o Tail(todo)
<1>1. /\ todo # <<>> /\ Head(todo).do = "get" /\ MayCreate(step)
      /\ CanReallocate(LoadedTable, Eof, n)
      /\ fat' = Reallocate(LoadedTable, Eof, n)
      /\ nodes' = [nodes EXCEPT ![slot] = entry]
      /\ Proceed(u, slot)
      /\ fat1' = fat1 /\ fat2' = fat2 /\ root' = root /\ data' = data
      /\ mounted' = mounted /\ cwd' = cwd /\ torn' = torn
  BY DEF CreateNode, Next1, Idle, volume
<1>2. InOrder(0) /\ mounted = TRUE /\ nodes \in RegionEntries
  BY <1>1, NoWrites
<1>3. /\ todo \in Seq(Steps) /\ step = todo[1]
      /\ step.name \in DOMAIN Short /\ step.make \in {"none", "file", "dir"}
      /\ 2 \in 1 .. Len(todo) =>
           /\ todo[2].do = "into" => step.make = "dir"
           /\ todo[2].do = "descend" => step = Get(todo[2].name, "none")
  BY <1>1, AfterGet
<1>4. step.make # "none" /\ slot \in 1 .. Slots(DirSpan)
  <2>1. slot # 0 /\ step.make # "none"
    BY <1>1 DEF MayCreate
  <2>2. slot \in 0 .. Slots(DirSpan)
    BY <1>2, Scans
  <2> QED BY <2>1, <2>2, Spans
<1>5. n \in Nat /\ n # 0
  BY Spans DEF ClustersFor
<1>6. first \in Clusters /\ fat' \in Table
  <2>1. LoadedTable \in Table
    BY LoadedType DEF CacheInv, MemoryTyped
  <2>2. Eof = Eof /\ CanReallocate(LoadedTable, Eof, n)
    BY <1>1
  <2> HIDE DEF n
  <2>3. ReallocateStart(LoadedTable, Eof, n) \in Clusters
    BY <2>1, <2>2, <1>5, StartType
  <2>4. Reallocate(LoadedTable, Eof, n) \in Table
    BY <2>1, <2>2, <1>5, ReallocateType
  <2> QED BY <1>1, <2>3, <2>4
<1> HIDE DEF first, slot, n, step
<1>7. entry \in NodeEntry /\ entry.dir = (step.make = "dir")
  <2>1. (step.make = "dir") \in BOOLEAN
    OBVIOUS
  <2>2. entry \in NodeEntry
    BY <1>3, <1>6, <2>1, NewEntryType
  <2> QED BY <2>2 DEF Entry
<1>8. begun \in Stores /\ begun.do = "store"
  BY <1>6, DotsType, Marks DEF Stores, Clusters
<1> HIDE DEF entry, begun
<1>9. nodes' \in RegionEntries /\ nodes'[slot] = entry
  BY <1>1, <1>2, <1>4, <1>7 DEF RegionEntries
<1>10. PICK k \in {3, 4} :
       /\ p \in Seq(Steps) /\ Len(p) = k
       /\ \A i \in 1 .. k : p[i].do \in {"store", "fat1", "fat2", "dir"}
       /\ Ordered(u, k)
  <2>0. Flush \in Seq(Steps) /\ Len(Flush) = 3 /\ \A i \in 1 .. 3 : Flush[i].do \in {"fat1", "fat2", "dir"}
    BY FlushType DEF Step
  <2>1. CASE step.make = "dir"
    <3>1. p = <<begun>> \o Flush
      BY <2>1
    <3>2. <<begun>> \in Seq(Steps) /\ Len(<<begun>>) = 1 /\ <<begun>>[1] = begun
      BY <1>8 DEF Steps
    <3>3. /\ <<begun>> \o Flush \in Seq(Steps) /\ Len(<<begun>> \o Flush) = Len(<<begun>>) + Len(Flush)
          /\ \A i \in 1 .. Len(<<begun>>) : (<<begun>> \o Flush)[i] = <<begun>>[i]
          /\ \A i \in 1 .. Len(Flush) : (<<begun>> \o Flush)[Len(<<begun>>) + i] = Flush[i]
      BY <2>0, <3>2, ConcatFacts
    <3>4. Ordered(<<begun>> \o Flush \o Tail(todo), 4)
      BY <1>1, <1>2, <1>8, OrderedCreate DEF InOrder
    <3>5. p \in Seq(Steps) /\ Len(p) = 4 /\ p[1] = begun /\ \A i \in 1 .. 3 : p[1 + i] = Flush[i]
      BY <2>0, <3>1, <3>2, <3>3
    <3> HIDE DEF p
    <3>6. ASSUME NEW i \in 1 .. 4 PROVE p[i].do \in {"store", "fat1", "fat2", "dir"}
      <4>1. i = 1 \/ (i - 1 \in 1 .. 3 /\ 1 + (i - 1) = i)
        OBVIOUS
      <4> QED BY <4>1, <3>5, <2>0, <1>8
    <3>7. Ordered(u, 4)
      BY <3>1, <3>4
    <3> HIDE DEF u
    <3> QED BY <3>5, <3>6, <3>7
  <2>2. CASE step.make # "dir"
    <3>1. p = Flush
      <4>1. p = <<>> \o Flush
        BY <2>2
      <4>2. <<>> \o Flush = Flush
        BY <2>0
      <4> QED BY <4>1, <4>2
    <3>2. Ordered(Flush \o Tail(todo), 3)
      BY <1>1, <1>2, OrderedLookup DEF InOrder
    <3>3. Ordered(u, 3)
      BY <3>1, <3>2
    <3> HIDE DEF p, u
    <3> QED BY <2>0, <3>1, <3>3
  <2> QED BY <2>1, <2>2
<1> HIDE DEF p
<1>11. /\ k < Len(u) => u[k + 1] = todo[2] /\ 2 \in 1 .. Len(todo)
       /\ \A i \in 1 .. k : u[i] = p[i]
       /\ \A i \in 1 .. Len(u) : \/ i \in 1 .. k /\ u[i] = p[i]
                                 \/ \E j \in 1 .. Len(todo) : u[i] = todo[j]
  <2>1. /\ Len(p) < Len(u) => u[Len(p) + 1] = todo[2] /\ 2 \in 1 .. Len(todo)
        /\ \A i \in 1 .. Len(p) : u[i] = p[i]
        /\ \A i \in 1 .. Len(u) : \/ i \in 1 .. Len(p) /\ u[i] = p[i]
                                  \/ \E j \in 1 .. Len(todo) : u[i] = todo[j]
    BY <1>1, <1>3, <1>10, FrontFacts
  <2> HIDE DEF u
  <2> QED BY <1>10, <2>1
<1> HIDE DEF u
<1>12. u # <<>> /\ 1 \in 1 .. k
  <2>1. k \in 0 .. Len(u)
    BY <1>10 DEF Ordered
  <2> QED BY <2>1, <1>10
<1>13. todo' = u /\ node' = slot /\ cmd' = cmd /\ orig' = orig
  BY <1>1, <1>12 DEF Proceed
<1>14. CommandTyped'
  <2>1. \A i \in 1 .. Len(u) : u[i].do = "resize" => \E j \in 1 .. Len(todo) : todo[j].do = "resize"
    BY <1>10, <1>11
  <2> QED BY <2>1, <1>13, CommandKept DEF CacheInv
<1>15. PlaceKnown(k)'
  <2>1. k < Len(u) /\ u[k + 1].do = "into" => entry.dir
    BY <1>3, <1>7, <1>11
  <2>2. k < Len(u) => u[k + 1].do # "descend"
    BY <1>3, <1>4, <1>11 DEF Get
  <2>3. u[1].do # "get"
    BY <1>10, <1>11, <1>12
  <2>4. slot # 0
    BY <1>4
  <2> QED BY <1>9, <1>13, <2>1, <2>2, <2>3, <2>4 DEF PlaceKnown
<1>16. InOrder(k)' /\ k \in Nat
  <2>1. ~(k < 3) /\ k # 1 /\ k # 0 /\ k \in Nat
    BY <1>10
  <2>2. Agreed(k)'
    BY <2>1 DEF Agreed
  <2> QED BY <1>10, <1>13, <1>15, <2>1, <2>2 DEF InOrder
<1>17. VolumeTyped'
  BY <1>1 DEF CacheInv, VolumeTyped
<1>18. MemoryTyped'
  <2>1. slot \in 0 .. Slots(DirSpan)
    BY <1>4
  <2> QED BY <1>1, <1>2, <1>6, <1>9, <1>13, <2>1 DEF CacheInv, MemoryTyped
<1> QED
  BY <1>1, <1>14, <1>16, <1>17, <1>18 DEF CacheInv

\* fat12_file_write: the clusters are stored one by one, then the flush.
LEMMA ResizeStep ==
    ASSUME CacheInv, Resize
    PROVE  CacheInv'
<1> DEFINE n     == ClustersOf(cmd.len)
           old   == nodes[node].first
           table == Reallocate(LoadedTable, old, n)
           first == ReallocateStart(LoadedTable, old, n)
           item(i) == [do |-> "store", at |-> Visited(table, first, i),
                       contents |-> Contents(cmd.name, cmd.len, i)]
           s     == [i \in 1 .. n |-> item(i)]
           u     == s \o Flush
<1>1. /\ todo # <<>> /\ Head(todo).do = "resize" /\ node # 0
      /\ CanReallocate(LoadedTable, old, n)
      /\ fat' = table
      /\ nodes' = [nodes EXCEPT ![node].first = first, ![node].size = cmd.len]
      /\ Proceed(u, node)
      /\ fat1' = fat1 /\ fat2' = fat2 /\ root' = root /\ data' = data
      /\ mounted' = mounted /\ cwd' = cwd /\ torn' = torn
  BY DEF Resize, Next1, Idle, volume
<1>2. InOrder(0) /\ mounted = TRUE /\ nodes \in RegionEntries
  BY <1>1, NoWrites
<1>3. cmd.name \in FileNames /\ cmd.len \in Nat
  <2>1. Head(todo) = todo[1] /\ 1 \in 1 .. Len(todo)
    BY <1>1, <1>2, OrderedHead DEF InOrder
  <2> QED BY <1>1, <2>1 DEF CacheInv, CommandTyped
<1>4. n \in Nat /\ n # 0
  BY <1>3 DEF ClustersOf
<1>5. node \in 1 .. Slots(DirSpan)
  BY <1>1, Spans DEF CacheInv, MemoryTyped
<1>6. nodes[node] \in NodeEntry
  BY <1>2, <1>5 DEF RegionEntries
<1>7. table \in Table /\ (IF old = Eof THEN first \in Clusters ELSE first = old)
  <2>1. LoadedTable \in Table
    BY LoadedType DEF CacheInv, MemoryTyped
  <2>2. CanReallocate(LoadedTable, old, n)
    BY <1>1
  <2> HIDE DEF n, old
  <2> QED BY <2>1, <2>2, <1>4, StartType, ReallocateType
<1> HIDE DEF table, first, n
<1>8. first \in Nat /\ (nodes[node].dir => first \in Starts)
  <2>1. old \in Nat /\ (nodes[node].dir => old \in Starts) /\ nodes[node].dir \in BOOLEAN
    BY <1>6 DEF NodeEntry, EntrySet, Starts
  <2>2. \A c \in Clusters : c \in Nat /\ c \in Starts
    BY Marks DEF Clusters, Starts
  <2>3. Eof \notin Starts
    BY Marks DEF Starts, Eof, RootCluster
  <2> HIDE DEF old
  <2> QED BY <1>7, <2>1, <2>2, <2>3
<1>9. nodes' \in RegionEntries
  <2>1. \A e \in NodeEntry : [[e EXCEPT !.first = first] EXCEPT !.size = cmd.len] \in EntrySet
    BY <1>3, <1>8 DEF NodeEntry, EntrySet
  <2> DEFINE e == nodes[node]
             f == [[e EXCEPT !.first = first] EXCEPT !.size = cmd.len]
  <2>2. f \in EntrySet /\ f.dir = e.dir /\ f.state = e.state /\ f.first = first
        /\ (e.dir => e.state = "used")
    BY <1>6, <2>1 DEF NodeEntry, EntrySet
  <2>3. f \in NodeEntry
    <3> HIDE DEF e, f
    <3>1. f.dir => first \in Starts
      BY <1>8, <2>2 DEF e
    <3> QED BY <2>2, <3>1 DEF NodeEntry, Starts
  <2>4. nodes' = [nodes EXCEPT ![node] = f]
    BY <1>1, <1>2, <1>5 DEF RegionEntries
  <2> HIDE DEF f
  <2> QED BY <1>2, <1>5, <2>3, <2>4 DEF RegionEntries
<1>10. s \in [1 .. n -> Stores]
  <2>1. ASSUME NEW i \in 1 .. n PROVE item(i) \in Stores
    <3>1. i \in Nat
      BY <1>4
    <3>2. Contents(cmd.name, cmd.len, i) \in ClusterEntries
      BY <1>3, <3>1, ContentsType
    <3>3. Visited(table, first, i) \in Nat
      <4> DEFINE chain == Chain(table, first)
      <4>1. chain \in Seq(Clusters) /\ Len(chain) \in Nat
        BY <1>7, ChainType
      <4> HIDE DEF chain
      <4>2. i <= Len(chain) => chain[i] \in Clusters
        BY <4>1
      <4>3. \A c \in Clusters : c \in Nat
        BY Marks DEF Clusters
      <4>4. Eof \in Nat
        BY DEF Eof
      <4>5. Visited(table, first, i) = IF i = 1 THEN first ELSE IF i <= Len(chain) THEN chain[i] ELSE Eof
        BY DEF Visited, chain
      <4> QED BY <1>8, <4>2, <4>3, <4>4, <4>5
    <3> QED BY <3>2, <3>3 DEF Stores
  <2> HIDE DEF item
  <2> QED BY <2>1
<1> HIDE DEF s, item
<1>11. Ordered(u, n + 3) /\ u # <<>> /\ Len(u) = n + 3
  <2>1. Ordered(u, n + 3)
    BY <1>4, <1>10, OrderedStores
  <2>2. s \in Seq(Stores) /\ Len(s) = n
    BY <1>4, <1>10, SeqFun
  <2>3. s \in Seq(Steps)
    BY <2>2 DEF Steps
  <2>4. Len(u) = Len(s) + Len(Flush)
    BY <2>3, FlushType, ConcatFacts
  <2>5. Len(u) = n + 3
    BY <2>2, <2>4, FlushType
  <2> HIDE DEF u
  <2> QED BY <1>4, <2>1, <2>5
<1> HIDE DEF u
<1>12. todo' = u /\ node' = node /\ cmd' = cmd /\ orig' = orig
  BY <1>1, <1>11 DEF Proceed
<1>13. PICK k \in Nat : k = n + 3
  BY <1>4
<1>14. Ordered(u, k) /\ Len(u) = k /\ k > 3
  BY <1>4, <1>11, <1>13
<1>15. u[1].do # "get" /\ \A i \in 1 .. Len(u) : u[i].do # "resize"
  <2>1. Head(u) = u[1] /\ (Head(u).do = "get" => k = 0)
    BY <1>11, <1>14, OrderedHead, OrderedKind
  <2>2. ASSUME NEW i \in 1 .. Len(u) PROVE u[i].do # "resize"
    <3>1. i = k \/ i = k - 1 \/ i = k - 2 \/ i < k - 2
      BY <1>14
    <3>2. u[i].do = "dir" \/ u[i].do = "fat2" \/ u[i].do = "fat1" \/ u[i] \in Stores
      BY <1>14, <3>1 DEF Ordered
    <3> QED BY <3>2 DEF Stores
  <2> QED BY <1>14, <2>1, <2>2
<1>16. CommandTyped'
  BY <1>12, <1>15 DEF CommandTyped
<1>17. PlaceKnown(k)'
  BY <1>12, <1>14, <1>15 DEF PlaceKnown
<1>18. InOrder(k)'
  <2>1. ~(k < 3) /\ k # 1 /\ k # 0
    BY <1>14
  <2>2. Agreed(k)'
    BY <2>1 DEF Agreed
  <2> QED BY <1>12, <1>14, <1>17, <2>2 DEF InOrder
<1>19. VolumeTyped'
  BY <1>1 DEF CacheInv, VolumeTyped
<1>20. MemoryTyped'
  BY <1>1, <1>2, <1>7, <1>9, <1>12 DEF CacheInv, MemoryTyped
<1> QED
  BY <1>1, <1>16, <1>18, <1>19, <1>20 DEF CacheInv

\* fat12_remove_file: the chain is cut to one cluster and that one freed, the entry is
\* marked, and what is left of the command is the flush.
LEMMA DropStep ==
    ASSUME CacheInv, Drop
    PROVE  CacheInv'
<1> DEFINE first == nodes[node].first
           short == Reallocate(LoadedTable, first, 0)
<1>1. /\ todo # <<>> /\ Head(todo).do = "drop" /\ node # 0
      /\ fat' = SetEntry(short, first, Free)
      /\ nodes' = [nodes EXCEPT ![node] = Deleted]
      /\ Proceed(Flush, node)
      /\ fat1' = fat1 /\ fat2' = fat2 /\ root' = root /\ data' = data
      /\ mounted' = mounted /\ cwd' = cwd /\ torn' = torn
  BY DEF Drop, Next1, Idle, volume
<1>2. InOrder(0) /\ mounted = TRUE /\ nodes \in RegionEntries
  BY <1>1, NoWrites
<1>3. short \in Table
  <2>1. LoadedTable \in Table
    BY LoadedType DEF CacheInv, MemoryTyped
  <2> DEFINE t == LoadedTable
             chain == Chain(t, first)
  <2>2. Len(chain) \in Nat
    BY <2>1, ChainType
  <2>3. Cardinality(FreeClusters(t)) \in Nat
    BY FreeFinite
  <2> HIDE DEF chain
  <2>4. Missing(t, first, 0) = 0
    BY <2>2 DEF Missing, chain
  <2>5. CanReallocate(t, first, 0)
    BY <2>3, <2>4 DEF CanReallocate
  <2> HIDE DEF t, first
  <2>6. 0 \in Nat
    OBVIOUS
  <2>7. t \in Table
    BY <2>1 DEF t
  <2>8. Reallocate(t, first, 0) \in Table
    BY <2>5, <2>6, <2>7, ReallocateType
  <2> QED BY <2>8 DEF t
<1> HIDE DEF short
<1>4. fat' \in Table
  BY <1>1, <1>3 DEF SetEntry, Table, Link
<1>5. node \in 1 .. Slots(DirSpan)
  BY <1>1, Spans DEF CacheInv, MemoryTyped
<1>6. nodes' \in RegionEntries
  BY <1>1, <1>2, <1>5, BlankType DEF RegionEntries
<1>7. /\ Flush # <<>> /\ Len(Flush) = 3 /\ Flush[1].do # "get"
      /\ \A i \in 1 .. 3 : Flush[i].do # "resize"
  <2>1. Flush \in Seq(Steps) /\ Len(Flush) = 3
    BY FlushType
  <2>2. Flush[1].do = "fat1" /\ Flush[2].do = "fat2" /\ Flush[3].do = "dir"
    BY FlushType DEF Step
  <2>3. \A i \in 1 .. 3 : i = 1 \/ i = 2 \/ i = 3
    OBVIOUS
  <2>4. Flush # <<>>
    BY <2>1
  <2> QED BY <2>1, <2>2, <2>3, <2>4
<1>8. todo' = Flush /\ node' = node /\ cmd' = cmd /\ orig' = orig
  BY <1>1, <1>7 DEF Proceed
<1>9. CommandTyped'
  BY <1>7, <1>8 DEF CommandTyped
<1>10. PlaceKnown(3)'
  <2>1. Len(todo') = 3
    BY <1>7, <1>8
  <2>2. todo'[1].do # "get"
    BY <1>7, <1>8
  <2>3. ~(3 < 3)
    OBVIOUS
  <2> QED BY <2>1, <2>2, <2>3 DEF PlaceKnown
<1>11. InOrder(3)' /\ 3 \in Nat
  BY <1>8, <1>10, OrderedFlush DEF InOrder, Agreed
<1>12. VolumeTyped'
  BY <1>1 DEF CacheInv, VolumeTyped
<1>13. MemoryTyped'
  BY <1>1, <1>2, <1>4, <1>6, <1>8 DEF CacheInv, MemoryTyped
<1> QED
  BY <1>1, <1>9, <1>11, <1>12, <1>13 DEF CacheInv

\* vfs_mkdir, once the name was looked up.
LEMMA DescendStep ==
    ASSUME CacheInv, Descend
    PROVE  CacheInv'
<1> DEFINE found == nodes[node]
           u == <<Get(Head(todo).name, "dir"), Step("into")>> \o Tail(todo)
<1>1. todo # <<>> /\ Head(todo).do = "descend" /\ node # 0
  BY DEF Descend, Next1, Idle
<1>2. InOrder(0) /\ mounted = TRUE /\ nodes \in RegionEntries /\ Agreed(0)
  BY <1>1, NoWrites
<1>3. node \in 1 .. Slots(DirSpan) /\ orig \in Starts
  BY <1>1, Spans DEF CacheInv, MemoryTyped
<1>4. found \in NodeEntry
  BY <1>2, <1>3 DEF RegionEntries
<1>5. CASE Load(orig) /\ Proceed(<<>>, 0)
  <2>1. /\ node' = 0 /\ orig' \in Starts /\ CommandTyped'
        /\ Ordered(todo', 0) /\ PlaceKnown(0)'
    BY <1>5, Ends
  <2>2. \A c \in Starts : c = orig /\ Load(c) => CacheInv'
    BY <1>1, <1>2, <2>1, AfterLoad
  <2> QED BY <1>3, <1>5, <2>2
<1>6. CASE found.dir /\ Load(found.first) /\ Proceed(Tail(todo), 0)
  <2>1. /\ node' = 0 /\ orig' \in Starts /\ CommandTyped'
        /\ Ordered(todo', 0) /\ PlaceKnown(0)'
    BY <1>1, <1>2, <1>6, Goes
  <2>2. found.first \in Starts
    BY <1>4, <1>6 DEF NodeEntry, Starts
  <2>3. \A c \in Starts : c = found.first /\ Load(c) => CacheInv'
    BY <1>1, <1>2, <2>1, AfterLoad
  <2> QED BY <1>6, <2>2, <2>3
<1>7. CASE /\ found.state = "unused"
           /\ Proceed(u, 0)
           /\ UNCHANGED <<volume, memory, torn, misplaced>>
  <2>1. Ordered(u, 0) /\ u # <<>> /\ u[1] = Get(Head(todo).name, "dir")
    BY <1>1, <1>2, OrderedDescend DEF InOrder
  <2>2. /\ todo \in Seq(Steps) /\ Head(todo) = todo[1] /\ 1 \in 1 .. Len(todo) /\ Head(todo) \in Moves
    BY <1>1, <1>2, OrderedHead, OrderedKind DEF InOrder, Ordered
  <2>3. ScanIn(nodes, Head(todo).name) = node
    <3>1. 0 < Len(todo) /\ 0 + 1 = 1
      BY <2>2
    <3> QED BY <1>1, <1>2, <2>2, <3>1 DEF InOrder, PlaceKnown
  <2>4. /\ todo' = u /\ node' = 0 /\ cmd' = cmd /\ orig' = orig
        /\ fat1' = fat1 /\ fat2' = fat2 /\ root' = root /\ data' = data
        /\ mounted' = mounted /\ fat' = fat /\ cwd' = cwd /\ nodes' = nodes /\ torn' = torn
    BY <1>7, <2>1 DEF Proceed, volume, memory
  <2> DEFINE p == <<Get(Head(todo).name, "dir"), Step("into")>>
  <2>5. p \in Seq(Steps) /\ Len(p) = 2 /\ p[1].do = "get" /\ p[2].do = "into"
    <3>1. Get(Head(todo).name, "dir") \in Steps /\ Step("into") \in Steps
      BY <2>2 DEF Get, Step, Steps, Moves, Lookups, Others
    <3>2. Get(Head(todo).name, "dir").do = "get" /\ Step("into").do = "into"
      BY DEF Get, Step
    <3> QED BY <3>1, <3>2
  <2> HIDE DEF p
  <2>6. \A i \in 1 .. Len(u) : \/ i \in 1 .. 2 /\ u[i] = p[i]
                               \/ \E j \in 1 .. Len(todo) : u[i] = todo[j]
    <3>1. \A i \in 1 .. Len(p \o Tail(todo)) :
             \/ i \in 1 .. Len(p) /\ (p \o Tail(todo))[i] = p[i]
             \/ \E j \in 1 .. Len(todo) : (p \o Tail(todo))[i] = todo[j]
      BY <1>1, <2>2, <2>5, FrontFacts
    <3>2. u = p \o Tail(todo)
      BY DEF p
    <3> HIDE DEF u
    <3> QED BY <2>5, <3>1, <3>2
  <2> HIDE DEF u
  <2>7. CommandTyped'
    <3>1. \A i \in 1 .. 2 : p[i].do # "resize"
      BY <2>5
    <3>2. \A i \in 1 .. Len(u) : u[i].do = "resize" => \E j \in 1 .. Len(todo) : todo[j].do = "resize"
      BY <2>6, <3>1
    <3> QED BY <2>4, <3>2, CommandKept DEF CacheInv
  <2>8. PlaceKnown(0)'
    <3>1. u[0 + 1].do = "get" /\ u[1].name = Head(todo).name
      BY <2>1 DEF Get
    <3> QED BY <1>1, <1>7, <2>3, <2>4, <3>1 DEF PlaceKnown
  <2>9. Agreed(0)'
    BY <1>2, <2>4 DEF Agreed, Region
  <2>10. InOrder(0)'
    BY <2>1, <2>4, <2>8, <2>9 DEF InOrder
  <2>11. VolumeTyped'
    BY <2>4 DEF CacheInv, VolumeTyped
  <2>12. MemoryTyped'
    BY <1>2, <2>4, Spans DEF CacheInv, MemoryTyped
  <2> QED BY <2>4, <2>7, <2>10, <2>11, <2>12 DEF CacheInv
<1> QED
  BY <1>5, <1>6, <1>7 DEF Descend

-----------------------------------------------------------------------------
(* The theorems.                                                            *)

\* A volume just formatted, and nothing in memory.
LEMMA InitInv ==
    Init => CacheInv
<1> SUFFICES ASSUME Init PROVE CacheInv
  OBVIOUS
<1>1. fat1 \in Table /\ fat2 \in Table
  BY DEF Init, EmptyTable, Table, Link
<1>2. VolumeTyped
  BY BlankType DEF Init, VolumeTyped, RegionEntries
<1>3. MemoryTyped
  <2>1. 0 \in 0 .. Slots(DirSpan)
    BY Spans
  <2> QED BY <2>1 DEF Init, MemoryTyped, Starts
<1>4. todo = <<>> /\ mounted = FALSE
  BY DEF Init
<1>5. todo \in Seq(Plain) /\ Len(todo) = 0
  BY <1>4
<1>6. Ordered(todo, 0)
  BY <1>4, QuietNone, QuietOrdered
<1>7. CommandTyped /\ InOrder(0)
  BY <1>4, <1>5, <1>6 DEF CommandTyped, InOrder, PlaceKnown
<1> QED
  BY <1>1, <1>2, <1>3, <1>7 DEF CacheInv

\* Every action keeps the invariant.
LEMMA StepInv ==
    CacheInv /\ [Next]_vars => CacheInv'
<1> SUFFICES ASSUME CacheInv, [Next]_vars PROVE CacheInv'
  OBVIOUS
<1>1. CASE Mount
  BY <1>1, MountStep
<1>2. CASE Unmount \/ Fail
  <2>1. Stop
    BY <1>2 DEF Unmount, Fail, Exhausted, NullTable, NullNode, AssertionFails, Kill
  <2> QED BY <2>1, StopStep
<1>3. CASE Reinitialise
  BY <1>3, ReinitialiseStep
<1>4. CASE Command
  BY <1>4, CommandStep
<1>5. CASE Advance
  <2>1. CASE Lookup
    BY <2>1, LookupStep
  <2>2. CASE CreateNode
    BY <2>2, CreateStep
  <2>3. CASE FlushFat1 \/ FlushFat2 \/ FlushDir \/ Store
    BY <2>3, WriteStep
  <2>4. CASE Resize
    BY <2>4, ResizeStep
  <2>5. CASE Fetch
    BY <2>5, FetchStep
  <2>6. CASE Drop
    BY <2>6, DropStep
  <2>7. CASE GiveUp
    BY <2>7, GiveUpStep
  <2>8. CASE ToRoot \/ Enter \/ IntoNew \/ Back
    BY <2>8, MoveStep
  <2>9. CASE Descend
    BY <2>9, DescendStep
  <2> QED BY <1>5, <2>1, <2>2, <2>3, <2>4, <2>5, <2>6, <2>7, <2>8, <2>9 DEF Advance
<1>6. CASE UNCHANGED vars
  <2>1. /\ fat1' = fat1 /\ fat2' = fat2 /\ root' = root /\ data' = data
        /\ mounted' = mounted /\ fat' = fat /\ cwd' = cwd /\ nodes' = nodes
        /\ cmd' = cmd /\ todo' = todo /\ node' = node /\ orig' = orig /\ torn' = torn
    BY <1>6 DEF vars, volume, memory
  <2>2. VolumeTyped' /\ MemoryTyped' /\ CommandTyped'
    BY <2>1 DEF CacheInv, VolumeTyped, MemoryTyped, CommandTyped
  <2>3. PICK k \in Nat : InOrder(k)
    BY DEF CacheInv
  <2>4. PlaceKnown(k)' /\ (mounted' => Agreed(k)')
    BY <2>1, <2>3 DEF InOrder, PlaceKnown, Agreed, Region
  <2>5. InOrder(k)'
    BY <2>1, <2>3, <2>4 DEF InOrder
  <2> QED BY <2>1, <2>2, <2>5 DEF CacheInv
<1> QED
  BY <1>1, <1>2, <1>3, <1>4, <1>5, <1>6 DEF Next

\* The invariant holds in every state of every behaviour.
LEMMA CachesInvariant ==
    Spec => []CacheInv
BY InitInv, StepInv, PTL DEF Spec

\* What is recorded of the directories made is a truth value.
LEMMA MisplacedType ==
    Spec => [](misplaced \in BOOLEAN)
<1>1. Init => misplaced \in BOOLEAN
  BY DEF Init
<1>2. misplaced \in BOOLEAN /\ [Next]_vars => (misplaced \in BOOLEAN)'
  <2> SUFFICES ASSUME misplaced \in BOOLEAN, [Next]_vars PROVE misplaced' \in BOOLEAN
    OBVIOUS
  <2>1. CASE Mount \/ Reinitialise
    BY <2>1 DEF Mount, Reinitialise
  <2>2. CASE Unmount \/ Fail
    BY <2>2 DEF Unmount, Fail, Exhausted, NullTable, NullNode, AssertionFails, Kill, Stop
  <2>3. CASE Command
    BY <2>3 DEF Command, TouchFile, ReadFile, WriteFile, RemoveFile, Cd, Mkdir, Begin
  <2>4. CASE CreateNode
    BY <2>4 DEF CreateNode, Misplace
  <2>5. CASE Lookup \/ FlushFat1 \/ FlushFat2 \/ FlushDir
    BY <2>5 DEF Lookup, FlushFat1, FlushFat2, FlushDir
  <2>6. CASE Resize \/ Store \/ Fetch \/ Drop \/ GiveUp
    BY <2>6 DEF Resize, Store, Fetch, Drop, GiveUp
  <2>7. CASE ToRoot \/ Enter \/ Descend \/ IntoNew \/ Back
    BY <2>7 DEF ToRoot, Enter, Descend, IntoNew, Back, Load
  <2>8. CASE UNCHANGED vars
    BY <2>8 DEF vars
  <2> QED BY <2>1, <2>2, <2>3, <2>4, <2>5, <2>6, <2>7, <2>8 DEF Next, Advance
<1> QED
  BY <1>1, <1>2, PTL DEF Spec

\* Tables, entries, directories and the driver's memory have their types in every
\* state, whatever the volume, and wherever the process stops: what fat12.c reads from
\* the device is never more than it has room for.
THEOREM TypesAlwaysRight ==
    Spec => []TypeOK
<1>1. CacheInv /\ misplaced \in BOOLEAN => TypeOK
  <2> SUFFICES ASSUME CacheInv, misplaced \in BOOLEAN PROVE TypeOK
    OBVIOUS
  <2>0. NodeEntry \subseteq EntrySet
    BY DEF NodeEntry
  <2>1. ASSUME NEW n \in Nat, NEW f \in [1 .. n -> NodeEntry]
        PROVE  f \in Seq(EntrySet) /\ Len(f) = n
    BY <2>0, SeqFun
  <2>2. root \in Seq(EntrySet) /\ Len(root) = Slots(DirSpan)
    BY <2>1, Spans DEF CacheInv, VolumeTyped, RegionEntries
  <2>3. ASSUME NEW c \in DeviceClusters
        PROVE  data[c] \in Seq(EntrySet) /\ Len(data[c]) = SlotsPerCluster
    BY <2>1, Spans DEF CacheInv, VolumeTyped, ClusterEntries
  <2>4. nodes \in Seq(EntrySet) /\ Len(nodes) = IF mounted THEN Slots(DirSpan) ELSE 0
    <3>1. CASE mounted
      BY <2>1, <3>1, Spans DEF CacheInv, MemoryTyped, RegionEntries
    <3>2. CASE ~mounted
      <4>1. nodes = <<>>
        BY <3>2 DEF CacheInv, MemoryTyped
      <4> QED BY <3>2, <4>1
    <3> QED BY <3>1, <3>2
  <2> QED BY <2>2, <2>3, <2>4 DEF CacheInv, MemoryTyped, Starts, TypeOK
<1> QED
  BY <1>1, CachesInvariant, MisplacedType, PTL

\* Between commands the nodes in memory are the working directory on the volume, and a
\* table in memory is the table there: each command ends with fat12_flush of what it
\* changed, in whatever order the commands and the failures before it came.
THEOREM CachesWrittenThrough ==
    Spec => []WriteThrough
<1>1. CacheInv => WriteThrough
  <2> SUFFICES ASSUME CacheInv, mounted, Idle
               PROVE  nodes = Region(cwd) /\ (fat # NoTable => fat = fat1)
    BY DEF WriteThrough
  <2>1. Agreed(0)
    BY AtRest
  <2> QED BY <2>1 DEF Agreed
<1> QED
  BY <1>1, CachesInvariant, PTL

\* A command that ends with a flush of a loaded table leaves the two copies of the
\* table equal (fat12_flush_fat_table), even after a kill between the two writes.
THEOREM CopiesAlwaysHeal ==
    Spec => CopiesHeal
<1> DEFINE A == Next1("dir") /\ cmd' = NoCmd /\ mounted' /\ fat # NoTable => fat1' = fat2'
<1>1. CacheInv /\ [Next]_vars => [A]_vars
  <2> SUFFICES ASSUME CacheInv, Next, Next1("dir"), mounted', fat # NoTable
               PROVE  fat1' = fat2'
    OBVIOUS
  <2>1. todo # <<>> /\ Head(todo).do = "dir"
    BY DEF Next1, Idle
  <2>2. PICK k \in Nat : InOrder(k)
    BY DEF CacheInv
  <2>3. mounted = TRUE
    BY <2>1 DEF CacheInv, MemoryTyped
  <2>4. k = 1
    BY <2>1, <2>2, OrderedKind DEF InOrder
  <2>5. fat1 = fat2
    BY <2>2, <2>3, <2>4 DEF InOrder, Agreed
  <2>6. ~Stop
    BY DEF Stop, Forget
  <2>7. ~Mount /\ ~Reinitialise /\ ~Unmount /\ ~Fail
    BY <2>3, <2>6 DEF Mount, Reinitialise, Unmount, Fail, Exhausted, NullTable, NullNode, AssertionFails, Kill
  <2>8. ~Command
    BY <2>1 DEF Command, TouchFile, ReadFile, WriteFile, RemoveFile, Cd, Mkdir, Begin, Idle
  <2>9. FlushDir
    BY <2>1, <2>7, <2>8 DEF Next, Advance, Lookup, CreateNode, FlushFat1, FlushFat2, Resize, Store, Fetch,
       Drop, GiveUp, ToRoot, Enter, Descend, IntoNew, Back, Next1
  <2> QED BY <2>5, <2>9 DEF FlushDir
<1> QED
  BY <1>1, CachesInvariant, PTL DEF Spec, CopiesHeal

=============================================================================
