----------------------------- MODULE FatTable_proofs -----------------------------
(***************************************************************************)
(* Facts about tables and chains, for every size of volume.                *)
(***************************************************************************)
EXTENDS FatTable, Inductions, Integers, TLAPS, FiniteSetTheorems, SequenceTheorems

-----------------------------------------------------------------------------
(* Walks.                                                                   *)

(* The marks of the table, free and end, are no clusters. *)
LEMMA Marks ==
    /\ Free \notin Clusters
    /\ Eof \notin Clusters
    /\ RootCluster \notin Clusters
    /\ Free # Eof
    /\ RootCluster \in Link /\ Eof \in Link /\ Clusters \subseteq Link
    /\ LastCluster \in Nat /\ 2 <= LastCluster
BY LastClusterAssumption DEF Free, RootCluster, Eof, Clusters, Link

\* The table can be followed any number of links.
LEMMA Followed ==
    ASSUME NEW t \in Table, NEW c \in Link, NEW n \in Nat
    PROVE  \E g \in [1 .. n -> Link] :
              /\ 1 <= n => g[1] = c
              /\ \A i \in 1 .. n - 1 : g[i + 1] = NextCluster(t, g[i])
<1>0. \A x \in Link : NextCluster(t, x) \in Link
  BY Marks DEF NextCluster, Table
<1> DEFINE Is(g, k) == (1 <= k => g[1] = c) /\ \A i \in 1 .. k - 1 : g[i + 1] = NextCluster(t, g[i])
           T == {k \in Nat : \E g \in [1 .. k -> Link] : Is(g, k)}
<1>1. 0 \in T
  <2>1. [i \in 1 .. 0 |-> c] \in [1 .. 0 -> Link] /\ Is([i \in 1 .. 0 |-> c], 0)
    OBVIOUS
  <2> QED BY <2>1
<1>2. ASSUME NEW k \in T PROVE k + 1 \in T
  <2>1. PICK g \in [1 .. k -> Link] : Is(g, k)
    OBVIOUS
  <2> DEFINE next == IF k = 0 THEN c ELSE NextCluster(t, g[k])
             h == [i \in 1 .. k + 1 |-> IF i = k + 1 THEN next ELSE g[i]]
  <2>2. k \in Nat /\ next \in Link
    BY <1>0, <2>1
  <2>3. h \in [1 .. k + 1 -> Link]
    BY <2>2
  <2>4. Is(h, k + 1)
    <3>1. h[1] = c
      BY <2>1, <2>2
    <3>2. ASSUME NEW i \in 1 .. k PROVE h[i + 1] = NextCluster(t, h[i])
      <4>1. CASE i = k
        BY <4>1, <2>2
      <4>2. CASE i # k
        <5>1. i + 1 \in 1 .. k /\ i \in 1 .. k - 1 /\ h[i] = g[i] /\ h[i + 1] = g[i + 1]
          BY <4>2, <2>2
        <5> QED BY <5>1, <2>1
      <4> QED BY <4>1, <4>2
    <3> HIDE DEF h
    <3> QED BY <3>1, <3>2, <2>2
  <2> QED
    <3> HIDE DEF h, Is
    <3> QED BY <2>2, <2>3, <2>4
<1>3. 0 .. n \subseteq T
  <2> HIDE DEF T
  <2> QED BY <1>1, <1>2, UpTo
<1>4. n \in T
  <2> HIDE DEF T
  <2> QED BY <1>3
<1> QED
  BY <1>4

(* The walk of a chain starts at the head and takes one entry at a time. *)
LEMMA WalkSteps ==
    ASSUME NEW t \in Table, NEW c \in Link
    PROVE  /\ Walk(t, c) \in [1 .. LastCluster -> Link]
           /\ Walk(t, c)[1] = c
           /\ \A i \in 1 .. LastCluster - 1 : Walk(t, c)[i + 1] = NextCluster(t, Walk(t, c)[i])
<1>2. PICK g \in [1 .. LastCluster -> Link] :
          /\ 1 <= LastCluster => g[1] = c
          /\ \A i \in 1 .. LastCluster - 1 : g[i + 1] = NextCluster(t, g[i])
  <2>1. LastCluster \in Nat
    BY LastClusterAssumption
  <2> QED BY <2>1, Followed, Zenon
<1>3. \A i \in 1 .. LastCluster :
          i # 1 => i - 1 \in 1 .. LastCluster - 1 /\ g[i - 1] \in Link /\ (i - 1) + 1 = i
  BY LastClusterAssumption
<1>4. \A i \in 1 .. LastCluster : g[i] = IF i = 1 THEN c ELSE NextCluster(t, g[i - 1])
  BY <1>2, <1>3, LastClusterAssumption
<1>5. g = [i \in 1 .. LastCluster |-> IF i = 1 THEN c ELSE NextCluster(t, g[i - 1])]
  BY <1>4
<1>6. Walk(t, c) = [i \in 1 .. LastCluster |->
                       IF i = 1 THEN c ELSE NextCluster(t, Walk(t, c)[i - 1])]
  BY <1>5 DEF Walk
<1> DEFINE w == Walk(t, c)
           T == {i \in 1 .. LastCluster : w[i] \in Link}
<1> HIDE DEF w
<1>7. /\ w[1] = c
      /\ \A i \in 1 .. LastCluster - 1 : w[i + 1] = NextCluster(t, w[i])
      /\ DOMAIN w = 1 .. LastCluster
  BY <1>6, LastClusterAssumption DEF w
<1>8. w = [i \in 1 .. LastCluster |-> w[i]]
  BY <1>6 DEF w
<1>9. 1 .. LastCluster \subseteq T
  <2>1. 1 \in T
    BY <1>7, LastClusterAssumption
  <2>2. ASSUME NEW i \in 1 .. LastCluster - 1, i \in T PROVE i + 1 \in T
    BY <2>2, <1>7, Marks DEF NextCluster, Table
  <2> HIDE DEF T
  <2> QED BY <2>1, <2>2, LastClusterAssumption, UpTo
<1>10. w \in [1 .. LastCluster -> Link]
  BY <1>8, <1>9
<1> QED
  BY <1>7, <1>10 DEF w

\* A walk that has left the clusters does not come back to them.
LEMMA WalkLeaves ==
    ASSUME NEW t \in Table, NEW c \in Link
    PROVE  \E n \in 0 .. LastCluster :
              \A i \in 1 .. LastCluster : Walk(t, c)[i] \in Clusters <=> i <= n
<1> DEFINE w == Walk(t, c)
           Out == {i \in 1 .. LastCluster : w[i] \notin Clusters}
<1>0. /\ w \in [1 .. LastCluster -> Link]
      /\ \A i \in 1 .. LastCluster - 1 : w[i + 1] = NextCluster(t, w[i])
  BY WalkSteps
<1> HIDE DEF w
<1>1. /\ w \in [1 .. LastCluster -> Link]
      /\ \A i \in 1 .. LastCluster - 1 : w[i] \notin Clusters => w[i + 1] \notin Clusters
  BY <1>0, Marks DEF NextCluster
<1>2. CASE Out = {}
  <2>1. \A i \in 1 .. LastCluster : w[i] \in Clusters <=> i <= LastCluster
    BY <1>2
  <2> QED BY <2>1, LastClusterAssumption DEF w
<1>3. CASE Out # {}
  <2>1. PICK k \in Out : \A i \in Out : k <= i
    <3>1. Out \in SUBSET Nat
      OBVIOUS
    <3> HIDE DEF Out
    <3> QED BY <3>1, <1>3, LeastNatural
  <2> DEFINE T == {i \in k .. LastCluster : w[i] \notin Clusters}
  <2>2. k .. LastCluster \subseteq T
    <3>1. k \in T /\ k \in Nat /\ LastCluster \in Nat
      BY LastClusterAssumption
    <3>2. ASSUME NEW i \in k .. LastCluster - 1, i \in T PROVE i + 1 \in T
      BY <3>1, <3>2, <1>1
    <3> HIDE DEF T
    <3> QED BY <3>1, <3>2, UpTo
  <2>3. \A i \in 1 .. LastCluster : w[i] \in Clusters <=> i <= k - 1
    BY <2>1, <2>2, LastClusterAssumption
  <2>4. k - 1 \in 0 .. LastCluster
    BY LastClusterAssumption
  <2> QED BY <2>3, <2>4 DEF w
<1> QED
  BY <1>2, <1>3

-----------------------------------------------------------------------------
(* Chains.                                                                  *)

\* A chain is a sequence of clusters, each the successor of the one before, that
\* ends where the table leads out of the clusters or was followed all its length.
LEMMA ChainFacts ==
    ASSUME NEW t \in Table, NEW c \in Link
    PROVE  /\ Chain(t, c) \in Seq(Clusters)
           /\ Len(Chain(t, c)) \in 0 .. LastCluster
           /\ DOMAIN Chain(t, c) = 1 .. Len(Chain(t, c))
           /\ c \notin Clusters => Chain(t, c) = <<>>
           /\ c \in Clusters => Len(Chain(t, c)) >= 1 /\ Chain(t, c)[1] = c
           /\ \A i \in 1 .. Len(Chain(t, c)) - 1 : Chain(t, c)[i + 1] = t[Chain(t, c)[i]]
           /\ Len(Chain(t, c)) \in 1 .. LastCluster - 1 =>
                 t[Chain(t, c)[Len(Chain(t, c))]] \notin Clusters
<1> DEFINE w == Walk(t, c)
           s == Chain(t, c)
<1>1. PICK n \in 0 .. LastCluster : \A i \in 1 .. LastCluster : w[i] \in Clusters <=> i <= n
  BY WalkLeaves
<1>2. /\ w \in [1 .. LastCluster -> Link]
      /\ w[1] = c
      /\ \A i \in 1 .. LastCluster - 1 : w[i + 1] = NextCluster(t, w[i])
  BY WalkSteps
<1>3. s = [i \in {j \in 1 .. LastCluster : w[j] \in Clusters} |-> w[i]]
  BY DEF Chain
<1> HIDE DEF w, s
<1>4. {j \in 1 .. LastCluster : w[j] \in Clusters} = 1 .. n
  BY <1>1, LastClusterAssumption
<1>5. s \in [1 .. n -> Clusters] /\ \A i \in 1 .. n : s[i] = w[i]
  BY <1>1, <1>3, <1>4, LastClusterAssumption
<1>6. s \in Seq(Clusters) /\ Len(s) = n /\ DOMAIN s = 1 .. n
  BY <1>5, SeqDef
<1>7. c \notin Clusters => n = 0 /\ s = <<>>
  BY <1>1, <1>2, <1>6, LastClusterAssumption
<1>8. c \in Clusters => n >= 1 /\ s[1] = c
  BY <1>1, <1>2, <1>5, LastClusterAssumption
<1>9. \A i \in 1 .. n - 1 : s[i + 1] = t[s[i]]
  <2> TAKE i \in 1 .. n - 1
  <2>1. i \in 1 .. n /\ i + 1 \in 1 .. n /\ i \in 1 .. LastCluster - 1
    BY LastClusterAssumption
  <2> QED BY <2>1, <1>2, <1>5 DEF NextCluster
<1>10. n \in 1 .. LastCluster - 1 => t[s[n]] \notin Clusters
  <2> HAVE n \in 1 .. LastCluster - 1
  <2>1. n \in 1 .. n /\ n + 1 \in 1 .. LastCluster /\ w[n + 1] \notin Clusters
    BY <1>1, LastClusterAssumption
  <2> QED BY <2>1, <1>2, <1>5 DEF NextCluster
<1> QED
  BY <1>6, <1>7, <1>8, <1>9, <1>10 DEF s

\* s leads from cluster c link after link to an end mark.
IsChain(t, c, s) ==
    /\ s \in Seq(Clusters)
    /\ Len(s) \in 1 .. LastCluster
    /\ s[1] = c
    /\ \A i \in 1 .. Len(s) - 1 : t[s[i]] = s[i + 1]
    /\ t[s[Len(s)]] = Eof

\* Only one sequence does.
LEMMA ChainUnique ==
    ASSUME NEW t \in Table, NEW c \in Link, NEW s, IsChain(t, c, s)
    PROVE  Chain(t, c) = s
<1> DEFINE w == Walk(t, c)
           n == Len(s)
           T == {i \in 1 .. n : w[i] = s[i]}
<1>1. PICK m \in 0 .. LastCluster : \A i \in 1 .. LastCluster : w[i] \in Clusters <=> i <= m
  BY WalkLeaves
<1>2. /\ w \in [1 .. LastCluster -> Link]
      /\ w[1] = c
      /\ \A i \in 1 .. LastCluster - 1 : w[i + 1] = NextCluster(t, w[i])
  BY WalkSteps
<1>3. Chain(t, c) = [i \in {j \in 1 .. LastCluster : w[j] \in Clusters} |-> w[i]]
  BY DEF Chain
<1> HIDE DEF w
<1>4. /\ n \in 1 .. LastCluster /\ s[1] = c
      /\ s \in [1 .. n -> Clusters]
      /\ \A i \in 1 .. n - 1 : t[s[i]] = s[i + 1]
      /\ t[s[n]] = Eof
  BY DEF IsChain
<1> HIDE DEF n
<1>5. 1 .. n \subseteq T
  <2>1. 1 \in T
    BY <1>2, <1>4
  <2>2. ASSUME NEW i \in 1 .. n - 1, i \in T PROVE i + 1 \in T
    <3>1. i \in 1 .. LastCluster - 1 /\ i + 1 \in 1 .. n /\ s[i] \in Clusters
      BY <1>4, LastClusterAssumption
    <3> QED BY <2>2, <3>1, <1>2, <1>4 DEF NextCluster
  <2>3. 1 \in Nat /\ n \in Nat
    BY <1>4
  <2> HIDE DEF T
  <2> QED BY <2>1, <2>2, <2>3, UpTo
<1>6. \A i \in 1 .. n : w[i] = s[i] /\ w[i] \in Clusters
  BY <1>4, <1>5
<1>7. m = n
  <2>1. n <= m
    BY <1>1, <1>4, <1>6, LastClusterAssumption
  <2>2. CASE n < m
    <3>1. n \in 1 .. LastCluster - 1 /\ n + 1 \in 1 .. LastCluster /\ n \in 1 .. n
      BY <1>4, <2>2, LastClusterAssumption
    <3>2. w[n + 1] = Eof
      BY <3>1, <1>2, <1>4, <1>6 DEF NextCluster
    <3>3. w[n + 1] \in Clusters
      BY <3>1, <1>1, <2>2, LastClusterAssumption
    <3> QED BY <3>2, <3>3, Marks
  <2> QED BY <2>1, <2>2, <1>4, LastClusterAssumption
<1>8. {j \in 1 .. LastCluster : w[j] \in Clusters} = 1 .. n
  BY <1>1, <1>4, <1>7, LastClusterAssumption
<1>9. Chain(t, c) = [i \in 1 .. n |-> s[i]]
  BY <1>3, <1>6, <1>8
<1> QED
  BY <1>9, <1>4

\* A table that differs elsewhere has the same chain.
LEMMA ChainKept ==
    ASSUME NEW t \in Table, NEW u \in Table, NEW c \in Link, NEW s,
           IsChain(t, c, s), \A d \in ToSet(s) : u[d] = t[d]
    PROVE  IsChain(u, c, s) /\ Chain(u, c) = s
<1>1. \A i \in 1 .. Len(s) : u[s[i]] = t[s[i]]
  BY DEF IsChain, ToSet
<1>2. IsChain(u, c, s)
  BY <1>1 DEF IsChain
<1> QED
  BY <1>2, ChainUnique

-----------------------------------------------------------------------------
(* Linking a sequence of clusters.                                          *)

(* A sequence of clusters without repetition is no longer than their number. *)
LEMMA InjectiveLength ==
    ASSUME NEW s \in Seq(Clusters), IsInjective(s)
    PROVE  Len(s) \in 0 .. LastCluster - 1
<1>1. LastCluster \in Int /\ 2 \in Int /\ LastCluster >= 2 /\ Len(s) \in Nat
  BY LastClusterAssumption
<1>2. IsFiniteSet(Clusters) /\ Cardinality(Clusters) = LastCluster - 1
  BY <1>1, FS_Interval DEF Clusters
<1>3. IsFiniteSet(1 .. Len(s)) /\ Cardinality(1 .. Len(s)) = Len(s)
  <2>1. IsFiniteSet(1 .. Len(s)) /\ Cardinality(1 .. Len(s)) = IF 1 > Len(s) THEN 0 ELSE Len(s) - 1 + 1
    BY <1>1, FS_Interval
  <2> QED BY <2>1, <1>1
<1>4. s \in [1 .. Len(s) -> Clusters]
  OBVIOUS
<1>5. \A i, j \in 1 .. Len(s) : s[i] = s[j] => i = j
  BY DEF IsInjective
<1>6. ~(Cardinality(Clusters) < Cardinality(1 .. Len(s)))
  BY <1>2, <1>3, <1>4, <1>5, FS_PigeonHole
<1> QED
  BY <1>1, <1>2, <1>3, <1>6

(* What linking a list of clusters writes: their links, the end mark, nothing else. *)
LEMMA LinkedFacts ==
    ASSUME NEW t \in Table, NEW s \in Seq(Clusters), IsInjective(s)
    PROVE  /\ Linked(t, s) \in Table
           /\ \A c \in Clusters : c \notin ToSet(s) => Linked(t, s)[c] = t[c]
           /\ \A i \in 1 .. Len(s) : Linked(t, s)[s[i]] = IF i = Len(s) THEN Eof ELSE s[i + 1]
<1>1. \A i, j \in 1 .. Len(s) : s[i] = s[j] => i = j
  BY DEF IsInjective
<1>2. \A i \in 1 .. Len(s) : Linked(t, s)[s[i]] = IF i = Len(s) THEN Eof ELSE s[i + 1]
  <2> TAKE i \in 1 .. Len(s)
  <2>1. s[i] \in Clusters /\ s[i] \in ToSet(s)
    BY DEF ToSet
  <2> DEFINE at == CHOOSE j \in DOMAIN s : s[j] = s[i]
  <2>2. at = i
    BY <1>1
  <2>3. Linked(t, s)[s[i]] = IF at = Len(s) THEN Eof ELSE s[at + 1]
    BY <2>1 DEF Linked
  <2> HIDE DEF at
  <2> QED BY <2>2, <2>3
<1>3. \A c \in Clusters : c \notin ToSet(s) => Linked(t, s)[c] = t[c]
  BY DEF Linked
<1>4. \A c \in Clusters : Linked(t, s)[c] \in Link
  <2> TAKE c \in Clusters
  <2>1. CASE c \in ToSet(s)
    <3>1. PICK i \in 1 .. Len(s) : s[i] = c
      BY <2>1 DEF ToSet
    <3>2. i # Len(s) => s[i + 1] \in Clusters
      OBVIOUS
    <3> QED BY <3>1, <3>2, <1>2, Marks
  <2>2. CASE c \notin ToSet(s)
    BY <2>2, <1>3 DEF Table
  <2> QED BY <2>1, <2>2
<1>5. Linked(t, s) = [c \in Clusters |-> Linked(t, s)[c]]
  BY DEF Linked
<1>6. Linked(t, s) \in Table
  BY <1>4, <1>5 DEF Table
<1> QED
  BY <1>2, <1>3, <1>6

\* What is linked is a chain.
LEMMA LinkedChain ==
    ASSUME NEW t \in Table, NEW s \in Seq(Clusters), s # <<>>, IsInjective(s)
    PROVE  IsChain(Linked(t, s), s[1], s) /\ Chain(Linked(t, s), s[1]) = s
<1>1. Len(s) \in 1 .. LastCluster
  BY InjectiveLength, Marks
<1>2. IsChain(Linked(t, s), s[1], s)
  BY <1>1, LinkedFacts DEF IsChain
<1>3. s[1] \in Link
  BY <1>1, Marks
<1> QED
  BY <1>2, <1>3, LinkedFacts, ChainUnique

\* Linking a chain again changes nothing.
LEMMA LinkedAgain ==
    ASSUME NEW t \in Table, NEW c, NEW s, IsChain(t, c, s), IsInjective(s)
    PROVE  Linked(t, s) = t
<1>1. s \in Seq(Clusters) /\ Len(s) \in Nat
  BY DEF IsChain
<1>2. \A d \in Clusters : Linked(t, s)[d] = t[d]
  <2> TAKE d \in Clusters
  <2>1. CASE d \in ToSet(s)
    <3>1. PICK i \in 1 .. Len(s) : s[i] = d
      BY <1>1, <2>1 DEF ToSet
    <3>2. Linked(t, s)[s[i]] = IF i = Len(s) THEN Eof ELSE s[i + 1]
      BY <1>1, LinkedFacts
    <3>3. t[s[i]] = IF i = Len(s) THEN Eof ELSE s[i + 1]
      BY <1>1 DEF IsChain
    <3> QED BY <3>1, <3>2, <3>3
  <2>2. CASE d \notin ToSet(s)
    BY <1>1, <2>2, LinkedFacts
  <2> QED BY <2>1, <2>2
<1>3. Linked(t, s) \in Table
  BY <1>1, LinkedFacts
<1> QED
  BY <1>2, <1>3 DEF Table

-----------------------------------------------------------------------------
(* The free clusters in order.                                              *)

(* There are finitely many free clusters, and each is a cluster. *)
LEMMA FreeFinite ==
    ASSUME NEW t
    PROVE  /\ FreeClusters(t) \in SUBSET Clusters
           /\ Clusters \in SUBSET Nat
           /\ IsFiniteSet(FreeClusters(t))
           /\ Cardinality(FreeClusters(t)) \in Nat
           /\ \A c \in Clusters :
                 /\ {d \in FreeClusters(t) : d < c} \in SUBSET FreeClusters(t)
                 /\ IsFiniteSet({d \in FreeClusters(t) : d < c})
                 /\ FreeBelow(t, c) \in Nat
<1>1. LastCluster \in Int /\ 2 \in Int
  BY LastClusterAssumption
<1>2. IsFiniteSet(Clusters)
  BY <1>1, FS_Interval DEF Clusters
<1>3. FreeClusters(t) \in SUBSET Clusters /\ Clusters \in SUBSET Nat
  BY <1>1 DEF FreeClusters, Clusters
<1>4. IsFiniteSet(FreeClusters(t))
  BY <1>2, <1>3, FS_Subset
<1>5. Cardinality(FreeClusters(t)) \in Nat
  BY <1>4, FS_CardinalityType
<1>6. ASSUME NEW c \in Clusters
      PROVE  /\ {d \in FreeClusters(t) : d < c} \in SUBSET FreeClusters(t)
             /\ IsFiniteSet({d \in FreeClusters(t) : d < c})
             /\ FreeBelow(t, c) \in Nat
  <2> DEFINE B == {d \in FreeClusters(t) : d < c}
  <2>1. B \in SUBSET FreeClusters(t)
    OBVIOUS
  <2>2. IsFiniteSet(B)
    <3> HIDE DEF B
    <3> QED BY <1>4, <2>1, FS_Subset
  <2>3. Cardinality(B) \in Nat
    <3> HIDE DEF B
    <3> QED BY <2>2, FS_CardinalityType
  <2> QED BY <2>1, <2>2, <2>3 DEF FreeBelow
<1> QED
  BY <1>3, <1>4, <1>5, <1>6

\* A cluster after d has one more free cluster below it, d itself, and those
\* between them.
LEMMA FreeBelowGrows ==
    ASSUME NEW t, NEW d \in FreeClusters(t), NEW c \in Clusters, d < c
    PROVE  /\ FreeBelow(t, d) < FreeBelow(t, c)
           /\ (\A e \in FreeClusters(t) : e < c => e <= d)
                 => FreeBelow(t, c) = FreeBelow(t, d) + 1
<1> DEFINE B == {e \in FreeClusters(t) : e < d}
           C == {e \in FreeClusters(t) : e < c}
<1>1. /\ FreeClusters(t) \in SUBSET Clusters /\ Clusters \in SUBSET Nat
      /\ d \in Clusters
      /\ IsFiniteSet(B) /\ IsFiniteSet(C)
      /\ FreeBelow(t, d) = Cardinality(B) /\ FreeBelow(t, c) = Cardinality(C)
      /\ FreeBelow(t, d) \in Nat /\ FreeBelow(t, c) \in Nat
  BY FreeFinite DEF FreeBelow
<1>2. d \in Nat /\ c \in Nat /\ \A e \in FreeClusters(t) : e \in Nat
  BY <1>1
<1>3. \A e \in FreeClusters(t) : (e < d => e < c) /\ (e <= d <=> e < d \/ e = d) /\ ~(d < d)
  BY <1>2
<1>4. d \notin B /\ B \cup {d} \in SUBSET C
  BY <1>3
<1>5. (\A e \in FreeClusters(t) : e < c => e <= d) => C = B \cup {d}
  BY <1>3
<1> HIDE DEF B, C
<1>6. Cardinality(B \cup {d}) = Cardinality(B) + 1
  BY <1>1, <1>4, FS_AddElement
<1>7. Cardinality(B \cup {d}) <= Cardinality(C)
  BY <1>1, <1>4, FS_Subset
<1> QED
  BY <1>1, <1>5, <1>6, <1>7

\* No free cluster is counted past the last.
LEMMA FreeBelowBound ==
    ASSUME NEW t, NEW c \in FreeClusters(t)
    PROVE  FreeBelow(t, c) < Cardinality(FreeClusters(t))
<1> DEFINE B == {e \in FreeClusters(t) : e < c}
<1>1. /\ FreeClusters(t) \in SUBSET Clusters /\ Clusters \in SUBSET Nat
      /\ IsFiniteSet(FreeClusters(t)) /\ IsFiniteSet(B)
      /\ FreeBelow(t, c) = Cardinality(B)
      /\ FreeBelow(t, c) \in Nat
      /\ Cardinality(FreeClusters(t)) \in Nat
  BY FreeFinite DEF FreeBelow
<1>2. c \notin B /\ B \in SUBSET FreeClusters(t)
  <2>1. c \in Nat
    BY <1>1
  <2> QED BY <2>1
<1> HIDE DEF B
<1>3. Cardinality(B) <= Cardinality(FreeClusters(t))
  BY <1>1, <1>2, FS_Subset
<1>4. Cardinality(FreeClusters(t)) # Cardinality(B)
  BY <1>1, <1>2, FS_Subset
<1> QED
  BY <1>1, <1>3, <1>4

(* A set of naturals with a bound has a greatest element. *)
LEMMA SetHasMaximum ==
    ASSUME NEW T \in SUBSET Clusters, T # {}
    PROVE  \E m \in T : \A d \in T : d <= m
<1> DEFINE D == {LastCluster - d : d \in T}
<1>1. LastCluster \in Nat /\ \A d \in T : d \in Nat /\ d <= LastCluster
  BY LastClusterAssumption DEF Clusters
<1>2. D \in SUBSET Nat /\ D # {}
  BY <1>1
<1>3. PICK e \in D : \A x \in D : e <= x
  <2> HIDE DEF D
  <2> QED BY <1>2, LeastNatural
<1>4. PICK m \in T : e = LastCluster - m
  OBVIOUS
<1>5. \A d \in T : LastCluster - m <= LastCluster - d
  BY <1>3, <1>4
<1> QED
  BY <1>1, <1>5

\* For every place in the order there is a free cluster.
LEMMA FreeAt ==
    ASSUME NEW t, NEW r \in Nat, r < Cardinality(FreeClusters(t))
    PROVE  \E c \in FreeClusters(t) : FreeBelow(t, c) = r
<1> DEFINE F == FreeClusters(t)
           H == {c \in F : FreeBelow(t, c) >= r}
<1>1. /\ F \in SUBSET Clusters /\ Clusters \in SUBSET Nat
      /\ IsFiniteSet(F) /\ Cardinality(F) \in Nat
      /\ \A c \in F : FreeBelow(t, c) \in Nat
  BY FreeFinite
<1>2. F # {}
  <2>1. Cardinality({}) = 0
    BY FS_EmptySet
  <2> QED BY <2>1
<1>3. H # {}
  <2>1. PICK m \in F : \A d \in F : d <= m
    <3> HIDE DEF F
    <3> QED BY <1>1, <1>2, SetHasMaximum
  <2> DEFINE B == {d \in F : d < m}
  <2>2. F = B \cup {m} /\ m \notin B
    <3>1. \A d \in F : d \in Nat /\ m \in Nat
      BY <1>1
    <3> HIDE DEF F
    <3> QED BY <2>1, <3>1
  <2>3. IsFiniteSet(B) /\ Cardinality(B) = FreeBelow(t, m)
    BY <1>1, FreeFinite DEF FreeBelow
  <2>4. Cardinality(F) = FreeBelow(t, m) + 1
    <3> HIDE DEF F, B
    <3> QED BY <2>2, <2>3, FS_AddElement
  <2>5. FreeBelow(t, m) >= r
    BY <1>1, <2>4
  <2> QED BY <2>5
<1>4. PICK c \in H : \A d \in H : c <= d
  <2>1. H \in SUBSET Nat
    BY <1>1
  <2> HIDE DEF H
  <2> QED BY <2>1, <1>3, LeastNatural
<1>5. CASE FreeBelow(t, c) = r
  BY <1>5
<1>6. CASE FreeBelow(t, c) # r
  <2> DEFINE B == {d \in F : d < c}
  <2>1. FreeBelow(t, c) > r
    BY <1>1, <1>4, <1>6
  <2>2. B # {}
    <3>1. Cardinality(B) # 0
      BY <2>1 DEF FreeBelow
    <3>2. Cardinality({}) = 0
      BY FS_EmptySet
    <3> HIDE DEF B
    <3> QED BY <3>1, <3>2
  <2>3. PICK d \in B : \A e \in B : e <= d
    <3>1. B \in SUBSET Clusters
      BY <1>1
    <3> HIDE DEF B
    <3> QED BY <2>2, <3>1, SetHasMaximum
  <2>4. FreeBelow(t, c) = FreeBelow(t, d) + 1
    BY <1>1, <2>3, FreeBelowGrows
  <2>5. FreeBelow(t, d) >= r
    BY <1>1, <2>1, <2>3, <2>4
  <2>6. c <= d
    BY <1>4, <2>3, <2>5
  <2>7. d < c /\ d \in Nat /\ c \in Nat
    BY <1>1, <2>3
  <2> QED BY <2>6, <2>7
<1> QED
  BY <1>5, <1>6

\* The lowest free clusters are distinct, free, and each has its place.
LEMMA LowestFreeFacts ==
    ASSUME NEW t, NEW k \in Nat, k <= Cardinality(FreeClusters(t))
    PROVE  /\ LowestFree(t, k) \in Seq(Clusters)
           /\ Len(LowestFree(t, k)) = k
           /\ IsInjective(LowestFree(t, k))
           /\ \A i \in 1 .. k : /\ LowestFree(t, k)[i] \in FreeClusters(t)
                                /\ FreeBelow(t, LowestFree(t, k)[i]) = i - 1
<1> DEFINE s == LowestFree(t, k)
<1>1. \A i \in 1 .. k : s[i] \in FreeClusters(t) /\ FreeBelow(t, s[i]) = i - 1
  <2> TAKE i \in 1 .. k
  <2>1. i - 1 \in Nat /\ i - 1 < Cardinality(FreeClusters(t))
    BY FreeFinite
  <2>2. \E c \in FreeClusters(t) : FreeBelow(t, c) = i - 1
    BY <2>1, FreeAt
  <2>3. s[i] = CHOOSE c \in FreeClusters(t) : FreeBelow(t, c) = i - 1
    BY DEF LowestFree
  <2> HIDE DEF s
  <2> QED BY <2>2, <2>3
<1>2. s \in [1 .. k -> Clusters]
  BY <1>1, FreeFinite DEF LowestFree
<1> HIDE DEF s
<1>3. s \in Seq(Clusters) /\ Len(s) = k /\ DOMAIN s = 1 .. k
  BY <1>2
<1>4. IsInjective(s)
  <2>1. ASSUME NEW i \in 1 .. k, NEW j \in 1 .. k, s[i] = s[j] PROVE i = j
    <3>1. i - 1 = j - 1
      BY <2>1, <1>1
    <3> QED BY <3>1
  <2> QED BY <2>1, <1>3 DEF IsInjective
<1> QED
  BY <1>1, <1>3, <1>4 DEF s

\* Two free clusters in the same place are one.
LEMMA PlaceUnique ==
    ASSUME NEW t, NEW c \in FreeClusters(t), NEW d \in FreeClusters(t),
           FreeBelow(t, c) = FreeBelow(t, d)
    PROVE  c = d
<1>1. c \in Nat /\ d \in Nat /\ c \in Clusters /\ d \in Clusters
      /\ FreeBelow(t, c) \in Nat /\ FreeBelow(t, d) \in Nat
  BY FreeFinite
<1>2. ~(c < d)
  BY <1>1, FreeBelowGrows
<1>3. ~(d < c)
  BY <1>1, FreeBelowGrows
<1> QED
  BY <1>1, <1>2, <1>3

\* The places do not depend on how many are listed.
LEMMA LowestFreePrefix ==
    ASSUME NEW t, NEW k \in Nat, NEW j \in 0 .. k, k <= Cardinality(FreeClusters(t)),
           NEW i \in 1 .. j
    PROVE  LowestFree(t, j)[i] = LowestFree(t, k)[i]
<1>1. i \in 1 .. k
  OBVIOUS
<1> QED
  BY <1>1 DEF LowestFree

\* When the k lowest free clusters have been taken from a table, the least of
\* the rest is the next in the order.
LEMMA NextLowest ==
    ASSUME NEW t, NEW u, NEW k \in Nat, k <= Cardinality(FreeClusters(t)),
           FreeClusters(u) = FreeClusters(t) \ ToSet(LowestFree(t, k)),
           NEW c, IsFirstAvailable(u, c)
    PROVE  /\ k + 1 <= Cardinality(FreeClusters(t))
           /\ c = LowestFree(t, k + 1)[k + 1]
<1> DEFINE s == LowestFree(t, k)
           n == Cardinality(FreeClusters(t))
<1>1. /\ s \in Seq(Clusters) /\ Len(s) = k /\ DOMAIN s = 1 .. k
      /\ \A i \in 1 .. k : s[i] \in FreeClusters(t) /\ FreeBelow(t, s[i]) = i - 1
  BY LowestFreeFacts
<1>2. /\ c \in FreeClusters(t) /\ c \notin ToSet(s)
      /\ \A d \in FreeClusters(t) : d \notin ToSet(s) => c <= d
  BY DEF IsFirstAvailable
<1> HIDE DEF s
<1>3. /\ c \in Clusters /\ c \in Nat /\ n \in Nat
      /\ FreeBelow(t, c) \in Nat /\ FreeBelow(t, c) < n
  BY <1>2, FreeFinite, FreeBelowBound
<1>4. FreeBelow(t, c) >= k
  <2> SUFFICES ASSUME FreeBelow(t, c) < k PROVE FALSE
    BY <1>3
  <2> DEFINE i == FreeBelow(t, c) + 1
  <2>1. i \in 1 .. k /\ FreeBelow(t, s[i]) = FreeBelow(t, c)
    BY <1>1, <1>3
  <2>2. s[i] = c
    BY <2>1, <1>1, <1>2, PlaceUnique
  <2> QED BY <2>1, <2>2, <1>1, <1>2 DEF ToSet
<1>5. k + 1 <= n
  BY <1>3, <1>4
<1> DEFINE d == LowestFree(t, k + 1)[k + 1]
<1>6. d \in FreeClusters(t) /\ FreeBelow(t, d) = k
  <2>1. k + 1 \in Nat /\ k + 1 \in 1 .. k + 1 /\ (k + 1) - 1 = k
    OBVIOUS
  <2> QED BY <2>1, <1>5, LowestFreeFacts
<1> HIDE DEF d
<1>7. d \notin ToSet(s)
  BY <1>1, <1>6 DEF ToSet
<1>8. c <= d /\ d \in Nat /\ d \in Clusters
  BY <1>2, <1>6, <1>7, FreeFinite
<1>9. ~(c < d)
  BY <1>2, <1>3, <1>4, <1>6, <1>8, FreeBelowGrows
<1> QED
  BY <1>3, <1>5, <1>8, <1>9 DEF d

\* When nothing is free any more, all there was has been taken.
LEMMA NoneLeft ==
    ASSUME NEW t, NEW k \in Nat, k <= Cardinality(FreeClusters(t)),
           FreeClusters(t) \ ToSet(LowestFree(t, k)) = {}
    PROVE  Cardinality(FreeClusters(t)) = k
<1> DEFINE s == LowestFree(t, k)
<1>1. /\ DOMAIN s = 1 .. k
      /\ \A i \in 1 .. k : s[i] \in FreeClusters(t) /\ FreeBelow(t, s[i]) = i - 1
  BY LowestFreeFacts
<1>2. Cardinality(FreeClusters(t)) \in Nat
  BY FreeFinite
<1>3. CASE k < Cardinality(FreeClusters(t))
  <2>1. PICK c \in FreeClusters(t) : FreeBelow(t, c) = k
    BY <1>3, FreeAt
  <2>2. c \in ToSet(s)
    OBVIOUS
  <2> HIDE DEF s
  <2> QED BY <1>1, <2>1, <2>2 DEF ToSet
<1> QED
  BY <1>2, <1>3

-----------------------------------------------------------------------------
(* A chain with the lowest free clusters added at its end.                  *)

Grown(t, p, j) == p \o LowestFree(t, j)

(* The table with the j lowest free clusters linked behind p, entry by entry. *)
LEMMA GrownFacts ==
    ASSUME NEW t \in Table, NEW p \in Seq(Clusters), IsInjective(p),
           \A i \in 1 .. Len(p) : t[p[i]] # Free,
           NEW j \in Nat, j <= Cardinality(FreeClusters(t))
    PROVE  /\ Grown(t, p, j) \in Seq(Clusters)
           /\ Len(Grown(t, p, j)) = Len(p) + j
           /\ \A i \in 1 .. Len(p) : Grown(t, p, j)[i] = p[i]
           /\ \A i \in 1 .. j : Grown(t, p, j)[Len(p) + i] = LowestFree(t, j)[i]
           /\ ToSet(Grown(t, p, j)) = ToSet(p) \cup ToSet(LowestFree(t, j))
           /\ IsInjective(Grown(t, p, j))
           /\ Linked(t, Grown(t, p, j)) \in Table
           /\ FreeClusters(Linked(t, Grown(t, p, j))) = FreeClusters(t) \ ToSet(LowestFree(t, j))
<1> DEFINE s == LowestFree(t, j)
           m == Len(p)
           q == Grown(t, p, j)
<1>1. /\ s \in Seq(Clusters) /\ Len(s) = j /\ IsInjective(s)
      /\ \A i \in 1 .. j : s[i] \in FreeClusters(t)
  BY LowestFreeFacts
<1> HIDE DEF s
<1>2. /\ q = p \o s /\ m \in Nat /\ p \in [1 .. m -> Clusters] /\ s \in [1 .. j -> Clusters]
      /\ DOMAIN p = 1 .. m /\ DOMAIN s = 1 .. j
  BY <1>1 DEF s, Grown
<1> HIDE DEF q
<1>3. /\ q \in Seq(Clusters) /\ Len(q) = m + j
      /\ \A i \in 1 .. m + j : q[i] = IF i <= m THEN p[i] ELSE s[i - m]
  BY <1>1, <1>2
<1> HIDE DEF m
<1>4. DOMAIN q = 1 .. m + j
  BY <1>3
<1>5. \A i \in 1 .. m : q[i] = p[i] /\ i \in 1 .. m + j
  BY <1>2, <1>3
<1>6. \A i \in 1 .. j : q[m + i] = s[i] /\ m + i \in 1 .. m + j
  <2> TAKE i \in 1 .. j
  <2>1. m + i \in 1 .. m + j /\ ~(m + i <= m) /\ (m + i) - m = i
    BY <1>2
  <2> QED BY <2>1, <1>3
<1>7. \A i \in 1 .. m + j : i \notin 1 .. m => i - m \in 1 .. j /\ q[i] = s[i - m]
  BY <1>2, <1>3
<1>8. ToSet(q) = ToSet(p) \cup ToSet(s)
  <2>1. ToSet(p) = {p[i] : i \in 1 .. m} /\ ToSet(s) = {s[i] : i \in 1 .. j}
        /\ ToSet(q) = {q[i] : i \in 1 .. m + j}
    BY <1>2, <1>4 DEF ToSet
  <2>2. ToSet(p) \cup ToSet(s) \subseteq ToSet(q)
    BY <2>1, <1>5, <1>6
  <2>3. \A i \in 1 .. m + j : q[i] \in ToSet(p) \cup ToSet(s)
    BY <2>1, <1>5, <1>7
  <2> QED BY <2>1, <2>2, <2>3
<1>9. IsInjective(q)
  <2>1. ASSUME NEW a \in 1 .. m + j, NEW b \in 1 .. m + j, q[a] = q[b] PROVE a = b
    <3>1. CASE a \in 1 .. m /\ b \in 1 .. m
      BY <2>1, <3>1, <1>2, <1>5 DEF IsInjective
    <3>2. CASE a \notin 1 .. m /\ b \notin 1 .. m
      <4>1. \A x, y \in 1 .. j : s[x] = s[y] => x = y
        BY <1>1, <1>2 DEF IsInjective
      <4>2. a - m \in 1 .. j /\ b - m \in 1 .. j /\ s[a - m] = s[b - m]
        BY <2>1, <3>2, <1>7
      <4>3. a - m = b - m
        BY <4>1, <4>2, Zenon
      <4> QED BY <4>3, <1>2
    <3>3. CASE a \in 1 .. m /\ b \notin 1 .. m
      <4>1. t[q[a]] # Free /\ t[q[b]] = Free
        BY <3>3, <1>1, <1>5, <1>7 DEF FreeClusters, m
      <4> QED BY <2>1, <4>1
    <3>4. CASE a \notin 1 .. m /\ b \in 1 .. m
      <4>1. t[q[b]] # Free /\ t[q[a]] = Free
        BY <3>4, <1>1, <1>5, <1>7 DEF FreeClusters, m
      <4> QED BY <2>1, <4>1
    <3> QED BY <3>1, <3>2, <3>3, <3>4
  <2> QED BY <2>1, <1>4 DEF IsInjective
<1> DEFINE u == Linked(t, q)
<1>10. /\ u \in Table
       /\ \A c \in Clusters : c \notin ToSet(q) => u[c] = t[c]
       /\ \A i \in 1 .. m + j : u[q[i]] = IF i = m + j THEN Eof ELSE q[i + 1]
  <2>1. /\ \A c \in Clusters : c \notin ToSet(q) => u[c] = t[c]
        /\ \A i \in 1 .. Len(q) : u[q[i]] = IF i = Len(q) THEN Eof ELSE q[i + 1]
        /\ u \in Table
    BY <1>3, <1>9, LinkedFacts
  <2> HIDE DEF u
  <2> QED BY <2>1, <1>3
<1> HIDE DEF u
<1>11. \A c \in ToSet(q) : c \in Clusters /\ u[c] # Free
  <2> TAKE c \in ToSet(q)
  <2>1. PICK i \in 1 .. m + j : q[i] = c
    BY <1>4 DEF ToSet
  <2>2. i # m + j => q[i + 1] \in Clusters
    BY <1>2, <1>3
  <2>3. c \in Clusters
    BY <2>1, <1>3
  <2> QED BY <2>1, <2>2, <2>3, <1>10, Marks
<1>12. \A c \in ToSet(p) : t[c] # Free
  BY <1>2 DEF ToSet, m
<1>13. FreeClusters(u) = FreeClusters(t) \ ToSet(s)
  BY <1>8, <1>10, <1>11, <1>12 DEF FreeClusters
<1> QED
  BY <1>3, <1>5, <1>6, <1>8, <1>9, <1>10, <1>13 DEF s, u, m, q

\* Allocating once more makes it one cluster longer.
LEMMA GrownNext ==
    ASSUME NEW t \in Table, NEW p \in Seq(Clusters), IsInjective(p),
           \A i \in 1 .. Len(p) : t[p[i]] # Free,
           NEW j \in Nat, j + 1 <= Cardinality(FreeClusters(t)),
           NEW previous,
           previous = IF Len(p) + j = 0 THEN RootCluster ELSE Grown(t, p, j)[Len(p) + j]
    PROVE  /\ \A i \in 1 .. Len(p) + j : Grown(t, p, j + 1)[i] = Grown(t, p, j)[i]
           /\ Grown(t, p, j + 1)[Len(p) + j + 1] = LowestFree(t, j + 1)[j + 1]
           /\ Extend(Linked(t, Grown(t, p, j)), previous, LowestFree(t, j + 1)[j + 1])
                 = Linked(t, Grown(t, p, j + 1))
<1> DEFINE m == Len(p)
           q == Grown(t, p, j)
           r == Grown(t, p, j + 1)
           c == LowestFree(t, j + 1)[j + 1]
           n == m + j
           u == Linked(t, q)
           v == Linked(t, r)
           x == Extend(u, previous, c)
<1>1. /\ m \in Nat /\ Cardinality(FreeClusters(t)) \in Nat
      /\ j + 1 \in Nat /\ j <= Cardinality(FreeClusters(t))
  BY FreeFinite
<1>2. /\ q \in Seq(Clusters) /\ Len(q) = n
      /\ \A i \in 1 .. m : q[i] = p[i]
      /\ \A i \in 1 .. j : q[m + i] = LowestFree(t, j)[i]
      /\ IsInjective(q) /\ u \in Table
  BY <1>1, GrownFacts
<1>3. /\ r \in Seq(Clusters) /\ Len(r) = n + 1
      /\ \A i \in 1 .. m : r[i] = p[i]
      /\ \A i \in 1 .. j + 1 : r[m + i] = LowestFree(t, j + 1)[i]
      /\ IsInjective(r) /\ v \in Table
  <2>1. /\ r \in Seq(Clusters) /\ Len(r) = m + (j + 1)
        /\ \A i \in 1 .. m : r[i] = p[i]
        /\ \A i \in 1 .. j + 1 : r[m + i] = LowestFree(t, j + 1)[i]
        /\ IsInjective(r) /\ v \in Table
    BY <1>1, GrownFacts
  <2> QED BY <2>1, <1>1
<1>4. \A i \in 1 .. n : r[i] = q[i]
  <2> TAKE i \in 1 .. n
  <2>1. CASE i <= m
    BY <2>1, <1>1, <1>2, <1>3
  <2>2. CASE ~(i <= m)
    <3> DEFINE k == i - m
    <3>1. k \in 1 .. j /\ k \in 1 .. j + 1 /\ m + k = i /\ j \in 0 .. j + 1
      BY <2>2, <1>1
    <3>2. LowestFree(t, j)[k] = LowestFree(t, j + 1)[k]
      BY <1>1, <3>1, LowestFreePrefix
    <3> HIDE DEF k
    <3> QED BY <3>1, <3>2, <1>2, <1>3
  <2> QED BY <2>1, <2>2
<1>5. r[n + 1] = c
  <2>1. j + 1 \in 1 .. j + 1 /\ m + (j + 1) = n + 1
    BY <1>1
  <2> QED BY <2>1, <1>3
<1> HIDE DEF c, u, v, m, q, r
<1>6. n \in Nat /\ n + 1 \in 1 .. n + 1 /\ c \in Clusters /\ r[n + 1] \in Clusters
      /\ DOMAIN q = 1 .. n /\ DOMAIN r = 1 .. n + 1
      /\ \A i \in 1 .. n : i \in 1 .. n + 1 /\ q[i] \in Clusters
  BY <1>1, <1>2, <1>3, <1>5
<1> HIDE DEF n
<1>7. /\ \A a \in Clusters : a \notin ToSet(q) => u[a] = t[a]
      /\ \A i \in 1 .. n : u[q[i]] = IF i = n THEN Eof ELSE q[i + 1]
      /\ \A a \in Clusters : a \notin ToSet(r) => v[a] = t[a]
      /\ \A i \in 1 .. n + 1 : v[r[i]] = IF i = n + 1 THEN Eof ELSE r[i + 1]
  <2>1. /\ \A a \in Clusters : a \notin ToSet(q) => u[a] = t[a]
        /\ \A i \in 1 .. Len(q) : u[q[i]] = IF i = Len(q) THEN Eof ELSE q[i + 1]
    BY <1>2, LinkedFacts DEF u
  <2>2. /\ \A a \in Clusters : a \notin ToSet(r) => v[a] = t[a]
        /\ \A i \in 1 .. Len(r) : v[r[i]] = IF i = Len(r) THEN Eof ELSE r[i + 1]
    BY <1>3, LinkedFacts DEF v
  <2>3. Len(q) = n /\ Len(r) = n + 1
    BY <1>2, <1>3
  <2> QED BY <2>1, <2>2, <2>3
<1>8. ToSet(r) = ToSet(q) \cup {c}
  <2>1. ToSet(q) = {q[i] : i \in 1 .. n} /\ ToSet(r) = {r[i] : i \in 1 .. n + 1}
    BY <1>6 DEF ToSet
  <2>2. \A i \in 1 .. n + 1 : i \in 1 .. n \/ i = n + 1
    BY <1>6
  <2>3. \A i \in 1 .. n + 1 : r[i] \in ToSet(q) \cup {c}
    BY <2>1, <2>2, <1>4, <1>5
  <2>4. \A i \in 1 .. n : q[i] \in ToSet(r)
    BY <2>1, <1>4, <1>6
  <2>5. c \in ToSet(r)
    BY <2>1, <1>5, <1>6
  <2> QED BY <2>1, <2>3, <2>4, <2>5
<1>9. \A i \in 1 .. n : q[i] # c
  <2>1. \A i \in 1 .. n : r[i] # r[n + 1]
    <3>1. \A i \in 1 .. n : i # n + 1
      BY <1>6
    <3> QED BY <1>3, <1>6, <3>1 DEF IsInjective
  <2> QED BY <2>1, <1>4, <1>5
<1>10. /\ x \in Table
       /\ x[c] = IF previous = c THEN c ELSE Eof
       /\ \A a \in Clusters : a # c => x[a] = IF a = previous THEN c ELSE u[a]
  BY <1>2, <1>6, Marks DEF Extend, SetEntry, Table
<1> HIDE DEF x
<1>11. ASSUME n = 0 PROVE x = v
  <2>1. previous = RootCluster
    BY <1>11 DEF n, m, q
  <2>2. ToSet(q) = {}
    BY <1>6, <1>11 DEF ToSet
  <2>3. v[c] = Eof
    BY <1>5, <1>6, <1>7
  <2>4. \A a \in Clusters : x[a] = v[a]
    <3> TAKE a \in Clusters
    <3>1. CASE a = c
      BY <3>1, <2>1, <2>3, <1>6, <1>10, Marks
    <3>2. CASE a # c
      <4>1. a \notin ToSet(q) /\ a \notin ToSet(r)
        BY <3>2, <2>2, <1>8
      <4>2. a # previous
        BY <2>1, Marks
      <4> QED BY <3>2, <4>1, <4>2, <1>7, <1>10
    <3> QED BY <3>1, <3>2
  <2> QED BY <2>4, <1>3, <1>10 DEF Table
<1>12. ASSUME n # 0 PROVE x = v
  <2>1. previous = q[n] /\ n \in 1 .. n
    BY <1>12, <1>6 DEF n, m, q
  <2>2. previous # c /\ previous \in Clusters
    BY <2>1, <1>6, <1>9
  <2>3. v[c] = Eof /\ x[c] = Eof
    BY <1>5, <1>6, <1>7, <1>10, <2>2
  <2>4. \A a \in Clusters : x[a] = v[a]
    <3> TAKE a \in Clusters
    <3>1. CASE a = c
      BY <3>1, <2>3
    <3>2. CASE a \in ToSet(q)
      <4>1. PICK i \in 1 .. n : q[i] = a
        BY <3>2, <1>6 DEF ToSet
      <4>2. CASE i = n
        <5>1. v[r[n]] = r[n + 1]
          <6>1. n \in 1 .. n + 1 /\ n # n + 1
            BY <1>6, <2>1
          <6> QED BY <6>1, <1>7
        <5>2. r[n] = a /\ a = previous
          BY <4>1, <4>2, <1>4, <2>1
        <5> QED BY <5>1, <5>2, <1>5, <1>10, <2>2
      <4>3. CASE i # n
        <5>1. i + 1 \in 1 .. n /\ i # n + 1 /\ i \in 1 .. n + 1
          BY <4>3, <1>6
        <5>2. v[r[i]] = r[i + 1] /\ r[i] = a /\ r[i + 1] = q[i + 1]
          BY <5>1, <4>1, <1>4, <1>7
        <5>3. u[a] = q[i + 1]
          BY <4>1, <4>3, <1>7
        <5>4. a # previous /\ a # c
          BY <4>1, <4>3, <2>1, <1>2, <1>6, <1>9 DEF IsInjective
        <5> QED BY <5>2, <5>3, <5>4, <1>10
      <4> QED BY <4>2, <4>3
    <3>3. CASE a # c /\ a \notin ToSet(q)
      <4>1. a # previous
        BY <3>3, <2>1, <1>6 DEF ToSet
      <4> QED BY <3>3, <4>1, <1>7, <1>8, <1>10
    <3> QED BY <3>1, <3>2, <3>3
  <2> QED BY <2>4, <1>3, <1>10 DEF Table
<1>13. x = v
  BY <1>11, <1>12
<1> QED
  BY <1>4, <1>5, <1>13 DEF x, u, v, c, n, m, q, r
===============================================================================
