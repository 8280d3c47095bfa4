----------------------------- MODULE ExtentStore -----------------------------
(***************************************************************************)
(* What the cluster allocator promises its callers: every file owns a      *)
(* sequence of clusters nobody else owns, and each call replaces the       *)
(* extent of one file, in one step, by one at least as long as asked.      *)
(* Which clusters are chosen is left open.  ClusterAlloc, the loop of      *)
(* fat12_reallocate_cluster_chain with the flush of its callers, refines   *)
(* this specification.                                                     *)
(***************************************************************************)
EXTENDS Naturals, Sequences, SequencesExt

CONSTANTS
    Files,          \* the files of the volume
    Blocks,         \* the clusters of the volume
    MaxClusters     \* bound: the largest count a caller asks for

VARIABLE extent     \* file -> the clusters it owns, <<>> for no file

\* Sequences of distinct clusters of length at most n.
Extents(n) == {s \in UNION {[1..k -> Blocks] : k \in 0..n} : IsInjective(s)}

TypeOK == extent \in [Files -> Extents(MaxClusters)]

Owned(f) == ToSet(extent[f])

\* No two files share a cluster.
Disjoint == \A f, g \in Files : f # g => Owned(f) \cap Owned(g) = {}

-----------------------------------------------------------------------------
Init == extent = [f \in Files |-> <<>>]

Unowned(f, s) == \A g \in Files \ {f} : ToSet(s) \cap Owned(g) = {}

\* A new file of exactly the clusters asked for.
CreateFile(f, n) ==
    /\ extent[f] = <<>>
    /\ \E s \in Extents(MaxClusters) :
        /\ Len(s) = n
        /\ Unowned(f, s)
        /\ extent' = [extent EXCEPT ![f] = s]

\* The clusters a file keeps stay where they are: the extent grows at its end
\* to the length asked for, or loses clusters at its end, none that it needs.
WriteFile(f, n) ==
    /\ extent[f] # <<>>
    /\ \E s \in Extents(MaxClusters) :
        /\ Unowned(f, s)
        /\ n <= Len(s)
        /\ \/ Len(s) = n /\ IsPrefix(extent[f], s)
           \/ IsPrefix(s, extent[f])
        /\ extent' = [extent EXCEPT ![f] = s]

RemoveFile(f) ==
    /\ extent[f] # <<>>
    /\ extent' = [extent EXCEPT ![f] = <<>>]

Next == \E f \in Files :
    \/ \E n \in 1..MaxClusters : CreateFile(f, n) \/ WriteFile(f, n)
    \/ RemoveFile(f)

Spec == Init /\ [][Next]_extent
=============================================================================
