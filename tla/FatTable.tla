------------------------------- MODULE FatTable -------------------------------
(***************************************************************************)
(* The file allocation table of the FAT12 driver (src/fat/fat12.c) as a    *)
(* value, and the pure functions the driver computes from it.  A table     *)
(* maps every cluster to its 12-bit entry: the next cluster of the chain,  *)
(* Free, or Eof.  The 12-bit packing of the entries is left to             *)
(* Fat12Packing.                                                           *)
(***************************************************************************)
EXTENDS Naturals, FiniteSets, Sequences, SequencesExt

CONSTANT
    \* The largest cluster fat12_first_available_cluster looks at,
    \* cluster_count - 1.
    LastCluster

ASSUME LastClusterAssumption == LastCluster \in Nat /\ 2 <= LastCluster /\ LastCluster < 4095

-----------------------------------------------------------------------------
Free == 0
Eof  == 4095

\* As the first cluster of a directory, 0 stands for the root directory.
RootCluster == 0

Clusters == 2..LastCluster
Link     == Clusters \cup {Free, Eof}
Table    == [Clusters -> Link]

\* A volume no file has been written to.
EmptyTable == [c \in Clusters |-> Free]

-----------------------------------------------------------------------------
(* Entries.  Clusters 0, 1 and Eof have no entry: reading one gives Eof and *)
(* writing one does nothing.                                                *)

NextCluster(fat, c) == IF c \in Clusters THEN fat[c] ELSE Eof

SetEntry(fat, c, value) == IF c \in Clusters THEN [fat EXCEPT ![c] = value] ELSE fat

\* Variant: the new cluster is linked but not marked as the end.
ExtendUnmarked(fat, previous, c) == SetEntry(fat, previous, c)

\* A new last cluster: marked as the end, then its predecessor points to it.
Extend(fat, previous, c) == SetEntry(SetEntry(fat, c, Eof), previous, c)

\* Variant: the last cluster of a chain counts as free.
FreeOrLast(fat) == {c \in Clusters : fat[c] \in {Free, Eof}}

FreeClusters(fat) == {c \in Clusters : fat[c] = Free}

\* Variant: any free cluster will do.
IsAnyAvailable(fat, c) == c \in FreeClusters(fat)

\* Variant: a cluster that ends a chain passes for a free one.
IsUnlinked(fat, c) ==
    /\ fat[c] \in {Free, Eof}
    /\ \A d \in FreeClusters(fat) : c <= d

\* fat12_first_available_cluster returns the least free cluster.
IsFirstAvailable(fat, c) ==
    /\ c \in FreeClusters(fat)
    /\ \A d \in FreeClusters(fat) : c <= d

-----------------------------------------------------------------------------
(* Chains.                                                                  *)

\* What the driver comes to from c on, link after link.
Walk(fat, c) ==
    LET at[i \in 1..LastCluster] == IF i = 1 THEN c ELSE NextCluster(fat, at[i - 1])
    IN  at

\* The clusters from c on, in the order the driver follows them.  A broken
\* chain stops where it breaks, a cyclic one when every cluster was counted.
Chain(fat, c) ==
    LET at == Walk(fat, c)
    IN  [i \in {j \in 1..LastCluster : at[j] \in Clusters} |-> at[i]]

ChainSet(fat, c) == ToSet(Chain(fat, c))

\* The last cluster of the chain from c is marked as such.
Terminated(fat, c) ==
    LET chain == Chain(fat, c)
    IN  chain # <<>> /\ fat[Last(chain)] = Eof

-----------------------------------------------------------------------------
(* fat12_reallocate_cluster_chain in closed form: what the loop leaves in   *)
(* the table when it is called with the first cluster of a chain and the    *)
(* number of clusters the chain should have.  ClusterAlloc has the loop     *)
(* itself and its runs compare the two.                                     *)

\* Links the clusters of a sequence to one another and ends the chain.
Linked(fat, seq) ==
    [c \in Clusters |->
        IF c \notin ToSet(seq) THEN fat[c]
        ELSE LET i == CHOOSE j \in DOMAIN seq : seq[j] = c
             IN  IF i = Len(seq) THEN Eof ELSE seq[i + 1]]

\* How many free clusters a search finds before c.
FreeBelow(fat, c) == Cardinality({d \in FreeClusters(fat) : d < c})


\* The k lowest free clusters, in ascending order.
LowestFree(fat, k) ==
    [i \in 1..k |-> CHOOSE c \in FreeClusters(fat) : FreeBelow(fat, c) = i - 1]

\* How many clusters the call allocates.  A walk that starts at cluster 0, the
\* root directory, counts it as one cluster and has no entry to link from.
Missing(fat, c, n) ==
    LET found == IF c = RootCluster THEN 1 ELSE Len(Chain(fat, c))
    IN  IF n > found THEN n - found ELSE 0

CanReallocate(fat, c, n) == Missing(fat, c, n) <= Cardinality(FreeClusters(fat))

\* The cluster reached when the count is used up becomes the last one, so a
\* chain that shrinks keeps n + 1 clusters and only the rest is freed.
Reallocate(fat, c, n) ==
    LET chain == Chain(fat, c)
        kept  == SubSeq(chain, 1, n + 1)
        freed == ToSet(chain) \ ToSet(kept)
    IN  IF n < Len(chain)
        THEN Linked([x \in Clusters |-> IF x \in freed THEN Free ELSE fat[x]], kept)
        ELSE Linked(fat, chain \o LowestFree(fat, Missing(fat, c, n)))

\* The first cluster the call returns.
ReallocateStart(fat, c, n) ==
    IF c # Eof \/ n = 0 THEN c ELSE LowestFree(fat, 1)[1]
=============================================================================
