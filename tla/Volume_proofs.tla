----------------------------- MODULE Volume_proofs -----------------------------
(***************************************************************************)
(* Theorems about what Fat12 leaves on the volume, whatever is written to  *)
(* it and wherever the process stops: every entry has a chain of its own,  *)
(* ended and long enough, and every directory starts with . and ..; and    *)
(* about the working directory: that it stays in the tree, and where a     *)
(* path takes it.                                                          *)
(***************************************************************************)
EXTENDS Fat12_proofs

-----------------------------------------------------------------------------
(* Tables and ended chains.                                                 *)

\* From c the table leads to an end mark, over no cluster twice.
Ended(t, c) == IsChain(t, c, Chain(t, c)) /\ IsInjective(Chain(t, c))

\* An ended chain is made of clusters in use, the first of them c.
LEMMA EndedFacts ==
    ASSUME NEW t \in Table, NEW c, Ended(t, c)
    PROVE  /\ c \in Clusters /\ c \in Link /\ c \in ChainSet(t, c)
           /\ ChainSet(t, c) \subseteq Clusters
           /\ \A x \in ChainSet(t, c) : t[x] # Free
           /\ Chain(t, c) \in Seq(Clusters) /\ Len(Chain(t, c)) \in 1 .. LastCluster
           /\ t[Chain(t, c)[Len(Chain(t, c))]] = Eof
<1>1. PICK s : s = Chain(t, c)
  OBVIOUS
<1>2. /\ s \in Seq(Clusters) /\ Len(s) \in 1 .. LastCluster /\ s[1] = c
      /\ \A i \in 1 .. Len(s) - 1 : t[s[i]] = s[i + 1]
      /\ t[s[Len(s)]] = Eof
  BY <1>1 DEF Ended, IsChain
<1>3. LastCluster \in Nat
  BY LastClusterAssumption
<1>4. \A i \in 1 .. Len(s) : s[i] \in Clusters /\ s[i] \in ToSet(s)
  BY <1>2 DEF ToSet
<1>5. ToSet(s) \subseteq Clusters
  BY <1>2 DEF ToSet
<1>6. 1 \in 1 .. Len(s)
  BY <1>2, <1>3
<1>7. ASSUME NEW x \in ToSet(s) PROVE t[x] # Free
  <2>1. PICK i \in 1 .. Len(s) : s[i] = x
    BY <1>2 DEF ToSet
  <2>2. i = Len(s) \/ i \in 1 .. Len(s) - 1
    BY <1>2
  <2>3. i \in 1 .. Len(s) - 1 => s[i + 1] \in Clusters
    BY <1>2
  <2> QED BY <1>2, <2>1, <2>2, <2>3, Marks
<1>8. ToSet(s) = ChainSet(t, c)
  BY <1>1 DEF ChainSet
<1>9. c \in Clusters /\ c \in ToSet(s)
  BY <1>2, <1>4, <1>6
<1> QED
  BY <1>1, <1>2, <1>5, <1>7, <1>8, <1>9, Marks

\* A table that differs elsewhere keeps an ended chain.
LEMMA EndedKept ==
    ASSUME NEW t \in Table, NEW u \in Table, NEW c, Ended(t, c),
           \A x \in ChainSet(t, c) : u[x] = t[x]
    PROVE  Ended(u, c) /\ Chain(u, c) = Chain(t, c) /\ ChainSet(u, c) = ChainSet(t, c)
<1>1. c \in Link
  BY EndedFacts
<1>2. PICK s : s = Chain(t, c)
  OBVIOUS
<1>3. IsChain(t, c, s) /\ IsInjective(s)
  BY <1>2 DEF Ended
<1>4. \A d \in ToSet(s) : u[d] = t[d]
  BY <1>2 DEF ChainSet
<1>5. IsChain(u, c, s) /\ Chain(u, c) = s
  BY <1>1, <1>3, <1>4, ChainKept
<1> QED
  BY <1>2, <1>3, <1>5 DEF Ended, ChainSet

\* A sequence that follows the links to the end mark is the chain.
LEMMA EndedBy ==
    ASSUME NEW t \in Table, NEW c \in Clusters, NEW s, IsChain(t, c, s), IsInjective(s)
    PROVE  Ended(t, c) /\ Chain(t, c) = s /\ ChainSet(t, c) = ToSet(s)
<1>1. c \in Link
  BY Marks
<1>2. Chain(t, c) = s
  BY <1>1, ChainUnique
<1> QED
  BY <1>2 DEF Ended, ChainSet

\* What fat12_reallocate_cluster_chain does for a new entry: the first free clusters are
\* made a chain, and nothing else changes.
LEMMA TableCreated ==
    ASSUME NEW t \in Table, NEW n \in Nat \ {0}, CanReallocate(t, Eof, n)
    PROVE  LET u == Reallocate(t, Eof, n)
               c == ReallocateStart(t, Eof, n)
           IN  /\ u \in Table /\ Ended(u, c)
               /\ ChainSet(u, c) \subseteq FreeClusters(t)
               /\ \A x \in Clusters : x \notin ChainSet(u, c) => u[x] = t[x]
<1>1. Chain(t, Eof) = <<>> /\ Eof # RootCluster
  BY NoChain, Marks DEF Eof, RootCluster
<1>2. Missing(t, Eof, n) = n
  <2>1. Len(<<>>) = 0
    OBVIOUS
  <2> QED BY <1>1, <2>1 DEF Missing
<1>3. PICK s : s = LowestFree(t, n)
  OBVIOUS
<1>4. Cardinality(FreeClusters(t)) \in Nat /\ n <= Cardinality(FreeClusters(t))
  BY <1>2, FreeFinite DEF CanReallocate
<1>5. s \in Seq(Clusters) /\ Len(s) = n /\ IsInjective(s) /\ ToSet(s) \subseteq FreeClusters(t)
  <2>1. /\ LowestFree(t, n) \in Seq(Clusters) /\ Len(LowestFree(t, n)) = n /\ IsInjective(LowestFree(t, n))
        /\ \A i \in 1 .. n : LowestFree(t, n)[i] \in FreeClusters(t)
    BY <1>4, LowestFreeFacts
  <2> QED BY <2>1, <1>3 DEF ToSet
<1>6. PICK u : u = Reallocate(t, Eof, n)
  OBVIOUS
<1>7. u = Linked(t, s)
  <2>1. <<>> \o s = s
    BY <1>5
  <2>2. ~(n < Len(<<>>))
    OBVIOUS
  <2> QED BY <1>1, <1>2, <1>3, <1>6, <2>1, <2>2 DEF Reallocate
<1>8. LowestFree(t, 1)[1] = s[1]
  <2>1. 1 \in 1 .. n /\ 1 \in 1 .. 1
    OBVIOUS
  <2> QED BY <1>3, <2>1 DEF LowestFree
<1>9. ReallocateStart(t, Eof, n) = s[1]
  BY <1>8 DEF ReallocateStart
<1>10. s # <<>> /\ s[1] \in Clusters
  BY <1>5
<1>11. u \in Table /\ \A x \in Clusters : x \notin ToSet(s) => u[x] = t[x]
  BY <1>5, <1>7, LinkedFacts
<1>12. IsChain(u, s[1], s)
  BY <1>5, <1>7, <1>10, LinkedChain
<1>13. Ended(u, s[1]) /\ ChainSet(u, s[1]) = ToSet(s)
  BY <1>5, <1>10, <1>11, <1>12, EndedBy
<1> QED
  BY <1>5, <1>6, <1>9, <1>11, <1>13

\* What it does for an entry that has a chain: the chain is at least as long as asked
\* for, made of clusters it had or free ones, and nothing else in use changes.
LEMMA TableResized ==
    ASSUME NEW t \in Table, NEW c, Ended(t, c), NEW n \in Nat, n # 0, CanReallocate(t, c, n)
    PROVE  /\ Reallocate(t, c, n) \in Table
           /\ Ended(Reallocate(t, c, n), c)
           /\ Len(Chain(Reallocate(t, c, n), c)) >= n
           /\ ChainSet(Reallocate(t, c, n), c) \subseteq ChainSet(t, c) \cup FreeClusters(t)
           /\ \A x \in Clusters : x \notin ChainSet(t, c) /\ t[x] # Free => Reallocate(t, c, n)[x] = t[x]
<1> DEFINE chain == Chain(t, c)
           kept  == SubSeq(chain, 1, n + 1)
           freed == ToSet(chain) \ ToSet(kept)
           v     == [x \in Clusters |-> IF x \in freed THEN Free ELSE t[x]]
           more  == LowestFree(t, Missing(t, c, n))
           u     == Reallocate(t, c, n)
<1>1. /\ c \in Clusters /\ chain \in Seq(Clusters) /\ Len(chain) \in 1 .. LastCluster /\ chain[1] = c
      /\ ToSet(chain) = ChainSet(t, c)
      /\ IsInjective(chain)
      /\ \A x \in ToSet(chain) : t[x] # Free
  BY EndedFacts DEF Ended, IsChain, ChainSet
<1>2. u \in Table
  BY ReallocateType
<1>3. u = IF n < Len(chain) THEN Linked(v, kept) ELSE Linked(t, chain \o more)
  BY DEF Reallocate
<1>4. c # RootCluster /\ LastCluster \in Nat
  BY <1>1, Marks
<1> HIDE DEF chain, u
<1>5. CASE n < Len(chain)
  <2>1. /\ kept \in Seq(Clusters) /\ Len(kept) = n + 1
        /\ \A i \in 1 .. n + 1 : kept[i] = chain[i]
    BY <1>1, <1>5
  <2>2. v \in Table
    BY DEF Table, Link
  <2>3. IsInjective(kept)
    BY <1>1, <2>1, <1>5 DEF IsInjective
  <2>4. ToSet(kept) \subseteq ToSet(chain)
    BY <1>1, <2>1, <1>5 DEF ToSet
  <2>5. \A x \in Clusters : x \notin ToSet(chain) => v[x] = t[x]
    OBVIOUS
  <2> HIDE DEF kept, v
  <2>6. kept # <<>> /\ kept[1] = c
    BY <1>1, <2>1
  <2>7. IsChain(Linked(v, kept), kept[1], kept)
    BY <2>1, <2>2, <2>3, <2>6, LinkedChain
  <2>8. \A x \in Clusters : x \notin ToSet(kept) => Linked(v, kept)[x] = v[x]
    BY <2>1, <2>2, <2>3, LinkedFacts
  <2>9. u = Linked(v, kept)
    BY <1>3, <1>5
  <2>10. Ended(u, c) /\ Chain(u, c) = kept /\ ChainSet(u, c) = ToSet(kept)
    <3>1. IsChain(u, c, kept)
      BY <2>6, <2>7, <2>9
    <3> QED BY <3>1, <2>3, <1>1, <1>2, EndedBy
  <2>11. Len(Chain(u, c)) >= n
    BY <2>1, <2>10
  <2>12. \A x \in Clusters : x \notin ToSet(chain) => u[x] = t[x]
    BY <2>4, <2>5, <2>8, <2>9
  <2> QED BY <1>1, <1>2, <2>4, <2>10, <2>11, <2>12 DEF u
<1>6. CASE ~(n < Len(chain))
  <2>1. Missing(t, c, n) \in Nat /\ Missing(t, c, n) = n - Len(chain)
    <3>1. Missing(t, c, n) = IF n > Len(chain) THEN n - Len(chain) ELSE 0
      BY <1>4 DEF Missing, chain
    <3> QED BY <3>1, <1>1, <1>4, <1>6
  <2>2. Missing(t, c, n) <= Cardinality(FreeClusters(t))
    BY DEF CanReallocate
  <2>3. more \in Seq(Clusters) /\ Len(more) = n - Len(chain) /\ ToSet(more) \subseteq FreeClusters(t)
    <3>1. PICK k \in Nat : k = Missing(t, c, n)
      BY <2>1
    <3>2. k <= Cardinality(FreeClusters(t))
      BY <3>1, <2>2
    <3>3. /\ LowestFree(t, k) \in Seq(Clusters) /\ Len(LowestFree(t, k)) = k
          /\ \A i \in 1 .. k : LowestFree(t, k)[i] \in FreeClusters(t)
      BY <3>2, LowestFreeFacts
    <3>4. ToSet(LowestFree(t, k)) \subseteq FreeClusters(t)
      BY <3>3 DEF ToSet
    <3> QED BY <3>1, <3>3, <3>4, <2>1
  <2>4. PICK s : s = chain \o more
    OBVIOUS
  <2>5. /\ s \in Seq(Clusters) /\ Len(s) = n
        /\ ToSet(s) = ToSet(chain) \cup ToSet(more) /\ IsInjective(s) /\ s[1] = c
    <3>1. PICK k \in Nat : k = Missing(t, c, n)
      BY <2>1
    <3>2. k <= Cardinality(FreeClusters(t))
      BY <3>1, <2>2
    <3>3. \A i \in 1 .. Len(chain) : t[chain[i]] # Free
      BY <1>1 DEF ToSet
    <3>4. s = Grown(t, chain, k)
      BY <2>4, <3>1 DEF Grown
    <3>5. /\ Grown(t, chain, k) \in Seq(Clusters)
          /\ Len(Grown(t, chain, k)) = Len(chain) + k
          /\ \A i \in 1 .. Len(chain) : Grown(t, chain, k)[i] = chain[i]
          /\ ToSet(Grown(t, chain, k)) = ToSet(chain) \cup ToSet(LowestFree(t, k))
          /\ IsInjective(Grown(t, chain, k))
      BY <1>1, <3>2, <3>3, GrownFacts
    <3>6. 1 \in 1 .. Len(chain)
      BY <1>1, <1>4
    <3>7. Len(chain) + k = n
      BY <1>1, <1>4, <2>1, <3>1
    <3> QED BY <3>1, <3>4, <3>5, <3>6, <3>7, <1>1
  <2>6. u = Linked(t, s)
    BY <1>3, <1>6, <2>4
  <2> HIDE DEF more
  <2>7. s # <<>>
    BY <2>5
  <2>8. IsChain(Linked(t, s), s[1], s)
    BY <2>5, <2>7, LinkedChain
  <2>9. \A x \in Clusters : x \notin ToSet(s) => Linked(t, s)[x] = t[x]
    BY <2>5, LinkedFacts
  <2>10. Ended(u, c) /\ Chain(u, c) = s /\ ChainSet(u, c) = ToSet(s)
    <3>1. IsChain(u, c, s)
      BY <2>5, <2>6, <2>8
    <3> QED BY <3>1, <2>5, <1>1, <1>2, EndedBy
  <2>11. \A x \in Clusters : x \notin ToSet(chain) /\ t[x] # Free => u[x] = t[x]
    BY <2>3, <2>5, <2>6, <2>9 DEF FreeClusters
  <2>12. Len(Chain(u, c)) >= n
    BY <2>5, <2>10
  <2>13. ChainSet(u, c) \subseteq ChainSet(t, c) \cup FreeClusters(t)
    BY <1>1, <2>3, <2>5, <2>10
  <2> QED BY <1>1, <1>2, <2>10, <2>11, <2>12, <2>13 DEF u
<1> QED
  BY <1>5, <1>6

\* What is done for an entry that is removed: nothing changes but its own chain.
LEMMA TableDropped ==
    ASSUME NEW t \in Table, NEW c, Ended(t, c)
    PROVE  LET u == SetEntry(Reallocate(t, c, 0), c, Free)
           IN  u \in Table /\ u[c] = Free /\ \A x \in Clusters : x \notin ChainSet(t, c) => u[x] = t[x]
<1> DEFINE chain == Chain(t, c)
           kept  == SubSeq(chain, 1, 0 + 1)
           freed == ToSet(chain) \ ToSet(kept)
           v     == [x \in Clusters |-> IF x \in freed THEN Free ELSE t[x]]
           w     == Reallocate(t, c, 0)
           u     == SetEntry(w, c, Free)
<1>1. /\ c \in Clusters /\ chain \in Seq(Clusters) /\ Len(chain) \in 1 .. LastCluster /\ chain[1] = c
      /\ ToSet(chain) = ChainSet(t, c) /\ c \in ToSet(chain)
      /\ LastCluster \in Nat
  BY EndedFacts, Marks DEF Ended, IsChain, ChainSet
<1>2. w = Linked(v, kept)
  <2>1. 0 < Len(chain)
    BY <1>1
  <2> QED BY <2>1 DEF Reallocate
<1> HIDE DEF chain, w
<1>3. v \in Table
  BY DEF Table, Link
<1>4. /\ kept \in Seq(Clusters) /\ Len(kept) = 1 /\ kept[1] = c
  BY <1>1
<1>5. \A x \in Clusters : x \notin ToSet(chain) => v[x] = t[x]
  OBVIOUS
<1> HIDE DEF kept, v
<1>6. IsInjective(kept) /\ ToSet(kept) = {c}
  BY <1>4 DEF IsInjective, ToSet
<1>7. w \in Table /\ \A x \in Clusters : x # c => w[x] = v[x]
  <2>1. Linked(v, kept) \in Table /\ \A x \in Clusters : x \notin ToSet(kept) => Linked(v, kept)[x] = v[x]
    BY <1>3, <1>4, <1>6, LinkedFacts
  <2> QED BY <2>1, <1>2, <1>6
<1>8. u = [w EXCEPT ![c] = Free]
  BY <1>1 DEF SetEntry
<1>9. u \in Table /\ u[c] = Free
  BY <1>1, <1>7, <1>8 DEF Table, Link
<1>10. \A x \in Clusters : x # c => u[x] = w[x]
  BY <1>7, <1>8 DEF Table
<1>11. \A x \in Clusters : x \notin ToSet(chain) => u[x] = t[x]
  BY <1>1, <1>5, <1>7, <1>10
<1> HIDE DEF u
<1>12. \A x \in Clusters : x \notin ChainSet(t, c) => u[x] = t[x]
  BY <1>1, <1>11
<1> QED
  BY <1>9, <1>12 DEF u, w

\* Removing an entry that was never used gives nothing back.
LEMMA TableUntouched ==
    ASSUME NEW t \in Table
    PROVE  SetEntry(Reallocate(t, RootCluster, 0), RootCluster, Free) = t
<1>1. Chain(t, RootCluster) = <<>> /\ RootCluster \notin Clusters
  BY NoChain, Marks
<1>2. Missing(t, RootCluster, 0) = 0
  BY DEF Missing
<1>3. PICK s : s = LowestFree(t, 0)
  OBVIOUS
<1>4. s = <<>>
  <2>1. 0 <= Cardinality(FreeClusters(t)) /\ 0 \in Nat
    BY FreeFinite
  <2>2. LowestFree(t, 0) \in Seq(Clusters) /\ Len(LowestFree(t, 0)) = 0
    BY <2>1, LowestFreeFacts
  <2> QED BY <2>2, <1>3
<1>5. Reallocate(t, RootCluster, 0) = Linked(t, <<>>)
  <2>1. <<>> \o <<>> = <<>> /\ ~(0 < Len(<<>>))
    OBVIOUS
  <2> QED BY <1>1, <1>2, <1>3, <1>4, <2>1 DEF Reallocate
<1>6. Linked(t, <<>>) = t
  <2>1. ToSet(<<>>) = {}
    BY DEF ToSet
  <2>2. Linked(t, <<>>) = [c \in Clusters |-> t[c]]
    BY <2>1 DEF Linked
  <2> QED BY <2>2 DEF Table
<1> QED
  BY <1>1, <1>5, <1>6 DEF SetEntry

-----------------------------------------------------------------------------
(* Directories and what they hold.                                          *)

SlotSet == 1 .. Slots(DirSpan)

\* The entries . and .. of a directory, and those a user made.
Dotted(e)  == e.state = "used" /\ e.name \in {".", ".."}
Counted(e) == e.state = "used" /\ e.name \notin {".", ".."}

\* What can be stored for a name that is typed.
ShortNames == {Short[n] : n \in DOMAIN Short}

\* The clusters of a directory, and those of the directories D other than the root
\* directory.
Rows(c) == c .. (c + DirSpan - 1)
Held(D) == UNION {Rows(c) : c \in D \ {RootCluster}}

\* The table has a directory at c: its chain is the row of clusters read as the directory.
Laid(t, c) == Ended(t, c) /\ Chain(t, c) = Row(c)

\* What such a table has for the clusters of the row.
LEMMA LaidFacts ==
    ASSUME NEW t \in Table, NEW c, Laid(t, c)
    PROVE  /\ c \in Clusters /\ c \in Rows(c) /\ Rows(c) \subseteq Clusters
           /\ ChainSet(t, c) = Rows(c)
           /\ \A x \in Rows(c) : t[x] # Free /\ t[x] = IF x = c + DirSpan - 1 THEN Eof ELSE x + 1
<1>1. PICK s : s = Chain(t, c)
  OBVIOUS
<1>2. /\ s \in Seq(Clusters) /\ \A i \in 1 .. Len(s) - 1 : t[s[i]] = s[i + 1]
      /\ t[s[Len(s)]] = Eof
  BY <1>1 DEF Laid, Ended, IsChain
<1>3. s = Row(c) /\ Len(s) = DirSpan /\ \A i \in 1 .. DirSpan : s[i] = c + i - 1
  BY <1>1, Spans DEF Laid, Row
<1>4. /\ c \in Clusters /\ c \in Nat /\ ChainSet(t, c) = ToSet(s)
      /\ ChainSet(t, c) \subseteq Clusters /\ \A x \in ChainSet(t, c) : t[x] # Free
  BY <1>1, EndedFacts, Marks DEF Laid, ChainSet, Clusters
<1>5. ASSUME NEW x \in Rows(c)
      PROVE  /\ x \in ToSet(s)
             /\ t[x] = IF x = c + DirSpan - 1 THEN Eof ELSE x + 1
  <2>1. PICK i \in 1 .. DirSpan : i = x - c + 1
    BY <1>4, Spans DEF Rows
  <2>2. x = c + i - 1 /\ s[i] = x
    BY <1>3, <1>4, <2>1 DEF Rows
  <2>3. x = c + DirSpan - 1 => i = Len(s)
    BY <1>3, <1>4, <2>1, Spans
  <2>4. x # c + DirSpan - 1 => i \in 1 .. Len(s) - 1 /\ s[i + 1] = x + 1
    <3>1. ASSUME x # c + DirSpan - 1 PROVE i + 1 \in 1 .. DirSpan /\ i \in 1 .. DirSpan - 1
      BY <1>4, <2>2, <3>1, Spans
    <3>2. x # c + DirSpan - 1 => s[i + 1] = c + (i + 1) - 1
      BY <1>3, <3>1
    <3> QED BY <1>3, <1>4, <2>2, <3>1, <3>2
  <2>5. i \in DOMAIN s
    BY <1>3
  <2> QED BY <1>2, <2>2, <2>3, <2>4, <2>5 DEF ToSet
<1>6. ASSUME NEW x \in ToSet(s) PROVE x \in Rows(c)
  <2>1. PICK i \in 1 .. DirSpan : s[i] = x
    BY <1>3 DEF ToSet
  <2> QED BY <1>3, <1>4, <2>1, Spans DEF Rows
<1>7. c \in Rows(c)
  BY <1>4, Spans DEF Rows
<1> QED
  BY <1>4, <1>5, <1>6, <1>7

\* Two directories of a table have no cluster in common: a chain that ends where the row
\* of another goes on would be no row.
LEMMA RowsApart ==
    ASSUME NEW t \in Table, NEW c, NEW d, Laid(t, c), Laid(t, d), c # d
    PROVE  Rows(c) \cap Rows(d) = {}
<1>1. /\ c \in Clusters /\ \A x \in Rows(c) : x \in Clusters /\ t[x] = IF x = c + DirSpan - 1 THEN Eof ELSE x + 1
      /\ d \in Clusters /\ \A x \in Rows(d) : x \in Clusters /\ t[x] = IF x = d + DirSpan - 1 THEN Eof ELSE x + 1
  BY LaidFacts
<1>2. c \in Nat /\ d \in Nat /\ DirSpan \in Nat /\ DirSpan >= 1
  BY <1>1, Marks, Spans DEF Clusters
<1>3. ASSUME NEW a \in Nat, NEW b \in Nat, a < b, NEW x, x \in Rows(a), x \in Rows(b),
             \A y \in Rows(a) : y \in Clusters /\ t[y] = IF y = a + DirSpan - 1 THEN Eof ELSE y + 1,
             \A y \in Rows(b) : y \in Clusters /\ t[y] = IF y = b + DirSpan - 1 THEN Eof ELSE y + 1
      PROVE  FALSE
  <2>1. PICK y \in Nat : y = a + DirSpan - 1
    BY <1>2
  <2>2. y \in Rows(a) /\ y \in Rows(b) /\ y # b + DirSpan - 1 /\ y + 1 \in Rows(b)
    BY <1>2, <1>3, <2>1 DEF Rows
  <2>3. t[y] = Eof /\ t[y] = y + 1 /\ y + 1 \in Clusters
    BY <1>3, <2>1, <2>2
  <2> QED BY <2>3, Marks
<1>4. c < d \/ d < c
  BY <1>2
<1> QED
  BY <1>1, <1>2, <1>3, <1>4

\* A table that differs elsewhere keeps a directory.
LEMMA LaidKept ==
    ASSUME NEW t \in Table, NEW u \in Table, NEW c, Laid(t, c), \A x \in Rows(c) : u[x] = t[x]
    PROVE  Laid(u, c)
<1>1. Ended(t, c) /\ Chain(t, c) = Row(c) /\ ChainSet(t, c) = Rows(c)
  BY LaidFacts DEF Laid
<1>2. Ended(u, c) /\ Chain(u, c) = Chain(t, c)
  BY <1>1, EndedKept
<1> QED
  BY <1>1, <1>2 DEF Laid

\* What holds of an entry e of the directory at c, when t is the table and D are the
\* directories: the chain of a file keeps clear of all of them.
EntrySound(t, D, c, e) ==
    /\ e.dir => e.state = "used"
    /\ e.state = "unused" => e.first = RootCluster
    /\ Dotted(e) => c # RootCluster /\ e.dir /\ e.first \in {c, RootCluster}
    /\ Counted(e) =>
          /\ e.name \in ShortNames
          /\ Ended(t, e.first)
          /\ e.size <= Len(Chain(t, e.first))
          /\ e.dir => e.first \in D \ {RootCluster, c}
          /\ ~e.dir => ChainSet(t, e.first) \cap Held(D) = {}

\* The directories D, with the entries G, are sound under the table t.  Directories that
\* were removed with what is in them may be left out of D, or stay.
Sound(t, D, G) ==
    /\ RootCluster \in D /\ D \subseteq Starts
    /\ \A c \in D \ {RootCluster} :
          Laid(t, c) /\ G[c][1] = Dots(c)[1] /\ G[c][2] = Dots(c)[2]
    /\ \A c \in D : \A i \in SlotSet : EntrySound(t, D, c, G[c][i])
    /\ \A c, d \in D : \A i, j \in SlotSet :
          Counted(G[c][i]) /\ Counted(G[d][j]) /\ (c # d \/ i # j)
             => ChainSet(t, G[c][i].first) \cap ChainSet(t, G[d][j].first) = {}

\* The slots of . and .. are there.
LEMMA SlotFacts ==
    /\ SlotSet \subseteq Nat
    /\ 1 \in SlotSet /\ 2 \in SlotSet
<1>1. Slots(DirSpan) \in Nat /\ Slots(DirSpan) >= 2
  BY Spans
<1> QED
  BY <1>1 DEF SlotSet

\* The entries of a directory at c that holds nothing but . and ...
EmptyDir(c, g) ==
    /\ g[1] = Dots(c)[1] /\ g[2] = Dots(c)[2]
    /\ \A i \in SlotSet \ {1, 2} : g[i] \in {Unused, Deleted}

\* They are sound.
LEMMA BegunSound ==
    ASSUME NEW u, NEW D, NEW c, c # RootCluster, NEW g, EmptyDir(c, g), NEW i \in SlotSet
    PROVE  EntrySound(u, D, c, g[i]) /\ ~Counted(g[i])
<1>1. /\ Dots(c)[1] = Entry("used", ".", TRUE, c, 0)
      /\ Dots(c)[2] = Entry("used", "..", TRUE, RootCluster, 0)
  <2>1. 1 \in 1 .. SlotsPerCluster /\ 2 \in 1 .. SlotsPerCluster
    BY Spans
  <2>2. PICK e, f : e = Entry("used", ".", TRUE, c, 0) /\ f = Entry("used", "..", TRUE, RootCluster, 0)
    OBVIOUS
  <2>3. PICK b : b = Blank
    OBVIOUS
  <2>4. Dots(c) = [[b EXCEPT ![1] = e] EXCEPT ![2] = f]
    BY <2>2, <2>3 DEF Dots
  <2>5. DOMAIN b = 1 .. SlotsPerCluster
    BY <2>3 DEF Blank
  <2>6. Dots(c)[1] = e /\ Dots(c)[2] = f
    BY <2>1, <2>4, <2>5
  <2> QED BY <2>2, <2>6
<1>2. CASE i = 2
  <2>1. g[i] = Entry("used", "..", TRUE, RootCluster, 0)
    BY <1>1, <1>2 DEF EmptyDir
  <2> QED BY <2>1 DEF Entry, EntrySound, Dotted, Counted
<1>3. CASE i = 1
  <2>1. g[i] = Entry("used", ".", TRUE, c, 0)
    BY <1>1, <1>3 DEF EmptyDir
  <2> QED BY <2>1 DEF Entry, EntrySound, Dotted, Counted
<1>4. CASE i # 1 /\ i # 2
  <2>1. g[i] \in {Unused, Deleted}
    BY <1>4 DEF EmptyDir
  <2>2. /\ Unused.state = "unused" /\ Unused.dir = FALSE /\ Unused.first = RootCluster
        /\ Deleted.state = "available" /\ Deleted.dir = FALSE
    BY DEF Unused, Deleted, Entry
  <2>3. g[i].state # "used" /\ ~g[i].dir /\ (g[i].state = "unused" => g[i].first = RootCluster)
    BY <2>1, <2>2
  <2> QED BY <2>3 DEF EntrySound, Dotted, Counted
<1> QED
  BY <1>2, <1>3, <1>4

\* The area of the table an entry has to itself.
Area(t, e) == IF Counted(e) THEN ChainSet(t, e.first) ELSE {}

\* The table and one slot change: the slot's new entry has clusters its old one had or
\* free ones, a new directory begins with . and .., and a directory that is left out is
\* the one the old entry stood for.
SlotChange(t, u, D, G, c0, i0, e, D2, G2) ==
    /\ c0 \in D \cap D2 /\ RootCluster \in D2 /\ D2 \subseteq Starts
    /\ \A x \in Clusters : x \notin Area(t, G[c0][i0]) /\ t[x] # Free => u[x] = t[x]
    /\ EntrySound(u, D2, c0, e)
    /\ Counted(e) => ChainSet(u, e.first) \subseteq Area(t, G[c0][i0]) \cup FreeClusters(t)
    /\ c0 # RootCluster /\ i0 \in {1, 2} => e = G[c0][i0]
    /\ \A c \in D2 \ D : Laid(u, c) /\ Rows(c) \subseteq FreeClusters(t) /\ EmptyDir(c, G2[c])
    /\ D \ D2 \subseteq Area(t, G[c0][i0])
    /\ Held(D2) \cap Area(t, G[c0][i0]) = {}
    /\ \A c \in D \cap D2 : \A i \in SlotSet :
          G2[c][i] = IF c = c0 /\ i = i0 THEN e ELSE G[c][i]

\* A sound map of directories stays sound when one slot of one of them changes, with the
\* clusters of the entry it held, or of the one it gets, and no others.
LEMMA SlotChanged ==
    ASSUME NEW t \in Table, NEW u \in Table, NEW D, NEW G, Sound(t, D, G),
           NEW c0, NEW i0 \in SlotSet, NEW e, NEW D2, NEW G2,
           SlotChange(t, u, D, G, c0, i0, e, D2, G2)
    PROVE  Sound(u, D2, G2)
<1>0. PICK A : A = Area(t, G[c0][i0])
  OBVIOUS
<1>1. /\ c0 \in D /\ c0 \in D2 /\ RootCluster \in D2 /\ D2 \subseteq Starts
      /\ \A x \in Clusters : x \notin A /\ t[x] # Free => u[x] = t[x]
      /\ EntrySound(u, D2, c0, e)
      /\ Counted(e) => ChainSet(u, e.first) \subseteq A \cup FreeClusters(t)
      /\ c0 # RootCluster /\ i0 \in {1, 2} => e = G[c0][i0]
      /\ \A c \in D2 \ D : Laid(u, c) /\ Rows(c) \subseteq FreeClusters(t) /\ EmptyDir(c, G2[c])
      /\ D \ D2 \subseteq A
      /\ Held(D2) \cap A = {}
      /\ \A c \in D \cap D2 : \A i \in SlotSet : G2[c][i] = IF c = c0 /\ i = i0 THEN e ELSE G[c][i]
  BY <1>0 DEF SlotChange
<1>2. /\ RootCluster \in D /\ D \subseteq Starts
      /\ \A c \in D \ {RootCluster} : Laid(t, c) /\ G[c][1] = Dots(c)[1] /\ G[c][2] = Dots(c)[2]
      /\ \A c \in D : \A i \in SlotSet : EntrySound(t, D, c, G[c][i])
      /\ \A c, d \in D : \A i, j \in SlotSet :
            Counted(G[c][i]) /\ Counted(G[d][j]) /\ (c # d \/ i # j)
               => ChainSet(t, G[c][i].first) \cap ChainSet(t, G[d][j].first) = {}
  BY DEF Sound
<1>3. \A x \in FreeClusters(t) : x \in Clusters /\ t[x] = Free
  BY DEF FreeClusters
<1>4. A \subseteq Clusters /\ \A x \in A : t[x] # Free
  <2>1. CASE Counted(G[c0][i0])
    <3>1. Ended(t, G[c0][i0].first)
      BY <1>1, <1>2, <2>1 DEF EntrySound
    <3> QED BY <1>0, <2>1, <3>1, EndedFacts DEF Area
  <2>2. CASE ~Counted(G[c0][i0])
    BY <1>0, <2>2 DEF Area
  <2> QED BY <2>1, <2>2
\* The chains of the other entries are where they were.
<1>5. ASSUME NEW c \in D, NEW i \in SlotSet, c # c0 \/ i # i0, NEW f, f = G[c][i], Counted(f)
      PROVE  /\ Ended(t, f.first) /\ f.first \in ChainSet(t, f.first)
             /\ ChainSet(t, f.first) \cap A = {}
             /\ \A x \in ChainSet(t, f.first) : x \notin FreeClusters(t)
             /\ Ended(u, f.first) /\ Chain(u, f.first) = Chain(t, f.first)
             /\ ChainSet(u, f.first) = ChainSet(t, f.first)
  <2>1. Ended(t, f.first)
    BY <1>2, <1>5 DEF EntrySound
  <2>2. PICK B : B = ChainSet(t, f.first)
    OBVIOUS
  <2>3. f.first \in B /\ B \subseteq Clusters /\ \A x \in B : t[x] # Free
    BY <2>1, <2>2, EndedFacts
  <2>4. B \cap A = {}
    <3>1. CASE Counted(G[c0][i0])
      BY <1>0, <1>1, <1>2, <1>5, <2>2, <3>1 DEF Area
    <3>2. CASE ~Counted(G[c0][i0])
      BY <1>0, <3>2 DEF Area
    <3> QED BY <3>1, <3>2
  <2>5. \A x \in B : u[x] = t[x]
    BY <1>1, <2>3, <2>4
  <2>6. Ended(u, f.first) /\ Chain(u, f.first) = Chain(t, f.first) /\ ChainSet(u, f.first) = ChainSet(t, f.first)
    BY <2>1, <2>2, <2>5, EndedKept
  <2> QED BY <1>3, <2>1, <2>2, <2>3, <2>4, <2>6
<1>6. ASSUME NEW c \in D2 \ {RootCluster}
      PROVE  Laid(u, c) /\ G2[c][1] = Dots(c)[1] /\ G2[c][2] = Dots(c)[2]
  <2>1. CASE c \notin D
    BY <1>1, <2>1 DEF EmptyDir
  <2>2. CASE c \in D
    <3>1. Laid(t, c) /\ G[c][1] = Dots(c)[1] /\ G[c][2] = Dots(c)[2]
      BY <1>2, <2>2
    <3>2. Rows(c) \subseteq Clusters /\ \A x \in Rows(c) : t[x] # Free
      BY <3>1, LaidFacts
    <3>3. Rows(c) \cap A = {}
      BY <1>1 DEF Held
    <3>4. Laid(u, c)
      BY <1>1, <3>1, <3>2, <3>3, LaidKept
    <3>5. \A i \in {1, 2} : G2[c][i] = G[c][i]
      <4>1. \A i \in {1, 2} : i \in SlotSet
        BY SlotFacts
      <4>2. \A i \in {1, 2} : G2[c][i] = IF c = c0 /\ i = i0 THEN e ELSE G[c][i]
        BY <1>1, <2>2, <4>1
      <4> QED BY <1>1, <4>2
    <3> QED BY <3>1, <3>4, <3>5
  <2> QED BY <2>1, <2>2
<1>7. ASSUME NEW c \in D2, NEW i \in SlotSet
      PROVE  /\ EntrySound(u, D2, c, G2[c][i])
             /\ c \notin D => ~Counted(G2[c][i])
  <2>1. CASE c \notin D
    <3>1. EmptyDir(c, G2[c]) /\ c # RootCluster
      BY <1>1, <1>2, <2>1
    <3> QED BY <2>1, <3>1, BegunSound
  <2>2. CASE c \in D /\ c = c0 /\ i = i0
    BY <1>1, <2>2
  <2>3. CASE c \in D /\ (c # c0 \/ i # i0)
    <3>1. PICK f : f = G[c][i]
      OBVIOUS
    <3>2. G2[c][i] = f
      BY <1>1, <2>3, <3>1
    <3>3. EntrySound(t, D, c, f)
      BY <1>2, <2>3, <3>1
    <3>4. ASSUME Counted(f)
          PROVE  /\ Ended(u, f.first)
                 /\ f.size <= Len(Chain(u, f.first))
                 /\ f.dir => f.first \in D2 \ {RootCluster, c}
                 /\ ~f.dir => ChainSet(u, f.first) \cap Held(D2) = {}
      <4>1. /\ f.first \in ChainSet(t, f.first)
            /\ ChainSet(t, f.first) \cap A = {}
            /\ \A x \in ChainSet(t, f.first) : x \notin FreeClusters(t)
            /\ Ended(u, f.first) /\ Chain(u, f.first) = Chain(t, f.first)
            /\ ChainSet(u, f.first) = ChainSet(t, f.first)
        BY <1>5, <2>3, <3>1, <3>4
      <4>2. f.size <= Len(Chain(u, f.first))
        BY <3>3, <3>4, <4>1 DEF EntrySound
      <4>3. f.dir => f.first \in D2 \ {RootCluster, c}
        <5>1. f.dir => f.first \in D \ {RootCluster, c}
          BY <3>3, <3>4 DEF EntrySound
        <5> QED BY <5>1, <4>1, <1>1
      <4>4. ~f.dir => ChainSet(u, f.first) \cap Held(D2) = {}
        <5>1. ~f.dir => ChainSet(t, f.first) \cap Held(D) = {}
          BY <3>3, <3>4 DEF EntrySound
        <5>2. \A x \in Held(D2) : x \in Held(D) \/ x \in FreeClusters(t)
          BY <1>1 DEF Held
        <5> QED BY <5>1, <5>2, <4>1
      <4> QED BY <4>1, <4>2, <4>3, <4>4
    <3>5. EntrySound(u, D2, c, f)
      BY <3>3, <3>4 DEF EntrySound
    <3> QED BY <2>3, <3>2, <3>5
  <2> QED BY <2>1, <2>2, <2>3
<1>8. ASSUME NEW c \in D2, NEW d \in D2, NEW i \in SlotSet, NEW j \in SlotSet,
             Counted(G2[c][i]), Counted(G2[d][j]), c # d \/ i # j
      PROVE  ChainSet(u, G2[c][i].first) \cap ChainSet(u, G2[d][j].first) = {}
  <2>1. c \in D /\ d \in D
    BY <1>7, <1>8
  <2>2. ASSUME NEW b \in D \cap D2, NEW k \in SlotSet, b # c0 \/ k # i0, Counted(G2[b][k])
        PROVE  /\ G2[b][k] = G[b][k] /\ ChainSet(u, G2[b][k].first) = ChainSet(t, G[b][k].first)
               /\ Counted(G[b][k])
               /\ Counted(e) => ChainSet(u, G2[b][k].first) \cap ChainSet(u, e.first) = {}
    <3>1. G2[b][k] = G[b][k]
      BY <1>1, <2>2
    <3>2. PICK f : f = G[b][k]
      OBVIOUS
    <3>3. Counted(f)
      BY <2>2, <3>1, <3>2
    <3>4. /\ ChainSet(t, f.first) \cap A = {}
          /\ \A x \in ChainSet(t, f.first) : x \notin FreeClusters(t)
          /\ ChainSet(u, f.first) = ChainSet(t, f.first)
      BY <1>5, <2>2, <3>2, <3>3
    <3>5. Counted(e) => ChainSet(u, f.first) \cap ChainSet(u, e.first) = {}
      BY <3>4, <1>1
    <3> QED BY <3>1, <3>2, <3>3, <3>4, <3>5
  <2>3. CASE c = c0 /\ i = i0
    <3>1. G2[c][i] = e /\ (d # c0 \/ j # i0)
      BY <1>1, <1>8, <2>3
    <3> QED BY <1>8, <2>1, <2>2, <3>1
  <2>4. CASE d = c0 /\ j = i0
    <3>1. G2[d][j] = e /\ (c # c0 \/ i # i0)
      BY <1>1, <1>8, <2>4
    <3> QED BY <1>8, <2>1, <2>2, <3>1
  <2>5. CASE (c # c0 \/ i # i0) /\ (d # c0 \/ j # i0)
    <3>1. /\ Counted(G[c][i]) /\ ChainSet(u, G2[c][i].first) = ChainSet(t, G[c][i].first)
          /\ Counted(G[d][j]) /\ ChainSet(u, G2[d][j].first) = ChainSet(t, G[d][j].first)
      BY <1>8, <2>1, <2>2, <2>5
    <3> QED BY <3>1, <1>2, <1>8, <2>1
  <2> QED BY <2>3, <2>4, <2>5
<1> QED
  BY <1>1, <1>6, <1>7, <1>8 DEF Sound

\* Older entries are sound under a newer table when each is one of those it was made
\* for, or is not looked at, and asks for no more than that.
LEMMA OlderEntries ==
    ASSUME NEW t, NEW s, NEW V, NEW H, NEW M, NEW G, Sound(s, V, H), Sound(t, M, G), V \subseteq M,
           \A c \in V : \A i \in SlotSet :
              Counted(H[c][i]) => /\ Counted(G[c][i])
                                  /\ G[c][i].first = H[c][i].first /\ G[c][i].dir = H[c][i].dir
                                  /\ H[c][i].size <= Len(Chain(t, H[c][i].first))
    PROVE  Sound(t, V, H)
<1>1. /\ RootCluster \in V /\ V \subseteq Starts
      /\ \A c \in V \ {RootCluster} : H[c][1] = Dots(c)[1] /\ H[c][2] = Dots(c)[2]
      /\ \A c \in V : \A i \in SlotSet : EntrySound(s, V, c, H[c][i])
  BY DEF Sound
<1>2. /\ \A c \in M \ {RootCluster} : Laid(t, c)
      /\ \A c \in M : \A i \in SlotSet : EntrySound(t, M, c, G[c][i])
      /\ \A c, d \in M : \A i, j \in SlotSet :
            Counted(G[c][i]) /\ Counted(G[d][j]) /\ (c # d \/ i # j)
               => ChainSet(t, G[c][i].first) \cap ChainSet(t, G[d][j].first) = {}
  BY DEF Sound
<1>3. ASSUME NEW c \in V, NEW i \in SlotSet
      PROVE  EntrySound(t, V, c, H[c][i])
  <2>1. PICK f : f = H[c][i]
    OBVIOUS
  <2>2. PICK g : g = G[c][i]
    OBVIOUS
  <2>3. EntrySound(s, V, c, f)
    BY <1>1, <2>1
  <2>4. EntrySound(t, M, c, g)
    BY <1>2, <2>2
  <2>5. Counted(f) => Counted(g) /\ g.first = f.first /\ g.dir = f.dir /\ f.size <= Len(Chain(t, f.first))
    BY <2>1, <2>2
  <2>6. ASSUME Counted(f)
        PROVE  /\ Ended(t, f.first)
               /\ f.dir => f.first \in V \ {RootCluster, c}
               /\ ~f.dir => ChainSet(t, f.first) \cap Held(V) = {}
    <3>1. f.dir => f.first \in V \ {RootCluster, c}
      BY <2>3, <2>6 DEF EntrySound
    <3>2. Ended(t, g.first) /\ (~g.dir => ChainSet(t, g.first) \cap Held(M) = {})
      BY <2>4, <2>5, <2>6 DEF EntrySound
    <3>3. Held(V) \subseteq Held(M)
      BY DEF Held
    <3> QED BY <2>5, <2>6, <3>1, <3>2, <3>3
  <2>7. EntrySound(t, V, c, f)
    BY <2>3, <2>5, <2>6 DEF EntrySound
  <2> QED BY <2>1, <2>7
<1>4. ASSUME NEW c \in V, NEW d \in V, NEW i \in SlotSet, NEW j \in SlotSet,
             Counted(H[c][i]), Counted(H[d][j]), c # d \/ i # j
      PROVE  ChainSet(t, H[c][i].first) \cap ChainSet(t, H[d][j].first) = {}
  BY <1>2, <1>4
<1> QED
  BY <1>1, <1>2, <1>3, <1>4 DEF Sound

-----------------------------------------------------------------------------
(* The directories found from the root directory.                           *)

\* One level further down.
Below(S) == S \cup UNION {SubDirs(c) : c \in S}

\* The levels of the tree, in any set of directories that has their subdirectories.
IsLevels(g) ==
    /\ g[0] = {RootCluster}
    /\ \A k \in 1 .. LastCluster : g[k] = Below(g[k - 1])
    /\ TreeDirs = g[LastCluster]

\* In a set closed under subdirectories the levels of the tree can be counted: a sequence
\* of sets, each with what is below the one before it.
LEMMA TreeLevels ==
    ASSUME NEW V, RootCluster \in V, \A c \in V : SubDirs(c) \subseteq V
    PROVE  \E g \in [0 .. LastCluster -> SUBSET V] : IsLevels(g)
<1> DEFINE down == [S \in SUBSET V |-> Below(S)]
           step == [i \in 1 .. LastCluster |-> down]
<1>1. LastCluster \in Nat
  BY LastClusterAssumption
<1>2. \A S \in SUBSET V : Below(S) \in SUBSET V
  BY DEF Below
<1>3. step \in [1 .. LastCluster -> [SUBSET V -> SUBSET V]] /\ {RootCluster} \in SUBSET V
  BY <1>2
<1>4. \A i \in 1 .. LastCluster : \A S \in SUBSET V : step[i][S] = Below(S)
  OBVIOUS
<1> HIDE DEF step
<1>5. PICK g \in Stepwise(SUBSET V, LastCluster, {RootCluster}, step) : TRUE
  <2>1. PICK S : S = SUBSET V
    OBVIOUS
  <2>2. step \in [1 .. LastCluster -> [S -> S]] /\ {RootCluster} \in S
    BY <1>3, <2>1
  <2>3. Stepwise(S, LastCluster, {RootCluster}, step) # {}
    BY <1>1, <2>2, StepByStep
  <2> QED BY <2>1, <2>3
<1>6. /\ g \in [0 .. LastCluster -> SUBSET V] /\ g[0] = {RootCluster}
      /\ \A k \in 1 .. LastCluster : g[k] = step[k][g[k - 1]]
  BY <1>5 DEF Stepwise
<1>7. ASSUME NEW k \in 1 .. LastCluster PROVE g[k] = Below(g[k - 1])
  <2>1. k - 1 \in 0 .. LastCluster
    BY <1>1
  <2>2. g[k - 1] \in SUBSET V
    BY <1>6, <2>1
  <2> QED BY <1>4, <1>6, <2>2
<1>8. ASSUME NEW k \in 0 .. LastCluster
      PROVE  g[k] = IF k = 0 THEN {RootCluster}
                    ELSE LET above == g[k - 1] IN above \cup UNION {SubDirs(c) : c \in above}
  <2>1. k = 0 \/ k \in 1 .. LastCluster
    BY <1>1
  <2> QED BY <1>6, <1>7, <2>1 DEF Below
<1>9. g = [k \in 0 .. LastCluster |->
              IF k = 0 THEN {RootCluster}
              ELSE LET above == g[k - 1] IN above \cup UNION {SubDirs(c) : c \in above}]
  BY <1>6, <1>8
<1>10. PICK w : w = [k \in 0 .. LastCluster |->
              IF k = 0 THEN {RootCluster}
              ELSE LET above == w[k - 1] IN above \cup UNION {SubDirs(c) : c \in above}]
                /\ TreeDirs = w[LastCluster]
  BY <1>9 DEF TreeDirs
<1>11. \A k \in 0 .. LastCluster : w[k] = g[k]
  <2> DEFINE T == {k \in 0 .. LastCluster : w[k] = g[k]}
  <2>1. 0 \in T
    BY <1>1, <1>6, <1>10
  <2>2. ASSUME NEW k \in 0 .. LastCluster - 1, k \in T PROVE k + 1 \in T
    <3>1. k + 1 \in 1 .. LastCluster /\ k + 1 \in 0 .. LastCluster /\ (k + 1) - 1 = k /\ k + 1 # 0
      BY <1>1
    <3>2. w[k + 1] = LET above == w[k] IN above \cup UNION {SubDirs(c) : c \in above}
      BY <1>10, <3>1
    <3>3. w[k] = g[k]
      BY <2>2
    <3>4. g[k + 1] = Below(g[k])
      BY <1>7, <3>1
    <3> QED BY <3>1, <3>2, <3>3, <3>4 DEF Below
  <2> HIDE DEF T
  <2>3. 0 .. LastCluster \subseteq T
    BY <1>1, <2>1, <2>2, UpTo
  <2> QED BY <2>3 DEF T
<1>12. TreeDirs = g[LastCluster]
  <2>1. LastCluster \in 0 .. LastCluster
    BY <1>1
  <2>2. w[LastCluster] = g[LastCluster]
    BY <1>11, <2>1
  <2>3. TreeDirs = w[LastCluster]
    BY <1>10
  <2> QED BY <2>2, <2>3
<1> QED
  BY <1>6, <1>7, <1>12 DEF IsLevels

\* The entries of directories, as the volume has them.
Vol(V) == [c \in V |-> Region(c)]

\* Sound directories lead to no others.
LEMMA SubDirsInside ==
    ASSUME VolumeTyped, NEW t, NEW V, Sound(t, V, Vol(V)), NEW c \in V
    PROVE  /\ DOMAIN Region(c) = SlotSet /\ Region(c) = Vol(V)[c]
           /\ SubDirs(c) \subseteq V
<1>1. c \in Starts /\ \A i \in SlotSet : EntrySound(t, V, c, Vol(V)[c][i])
  BY DEF Sound
<1>2. Region(c) \in RegionEntries
  BY <1>1, RegionType
<1>3. DOMAIN Region(c) = SlotSet /\ Region(c) = Vol(V)[c]
  BY <1>2 DEF RegionEntries, SlotSet, Vol
<1>4. ASSUME NEW i \in SlotSet, i \in Children(c), Region(c)[i].dir
      PROVE  Region(c)[i].first \in V
  <2>1. Counted(Region(c)[i])
    BY <1>4 DEF Children, Counted
  <2> QED BY <1>1, <1>3, <1>4, <2>1 DEF EntrySound
<1> QED
  BY <1>3, <1>4 DEF SubDirs, Children

\* Directories begun with . and .., in rows apart, that lead to no others: what is left of sound
\* ones while the volume is Exposed, and the clusters of one may be free already.
Begun(V) ==
    /\ RootCluster \in V /\ V \subseteq Starts
    /\ \A c \in V : SubDirs(c) \subseteq V
    /\ \A c \in V \ {RootCluster} :
          data[c][1] = Dots(c)[1] /\ data[c][2] = Dots(c)[2]
    /\ \A c, d \in V \ {RootCluster} : c # d => Rows(c) \cap Rows(d) = {}

\* The tree is in every set of directories that are begun.
LEMMA TreeWithin ==
    ASSUME NEW V, Begun(V)
    PROVE  TreeDirs \subseteq V
<1>1. RootCluster \in V /\ \A c \in V : SubDirs(c) \subseteq V
  BY DEF Begun
<1>2. PICK g \in [0 .. LastCluster -> SUBSET V] : IsLevels(g)
  BY <1>1, TreeLevels
<1>3. LastCluster \in 0 .. LastCluster
  BY LastClusterAssumption
<1> QED
  BY <1>2, <1>3 DEF IsLevels

\* The device has every cluster of a row.
LEMMA RowOnDevice ==
    ASSUME NEW c \in Clusters
    PROVE  Rows(c) \subseteq DeviceClusters
<1> SUFFICES ASSUME NEW x \in Rows(c) PROVE x \in DeviceClusters
  OBVIOUS
<1>1. PICK k \in 0 .. DirSpan - 1 : x = c + k
  <2>1. x - c \in 0 .. DirSpan - 1 /\ x = c + (x - c)
    BY Spans DEF Rows, Clusters
  <2> QED BY <2>1
<1> QED
  BY <1>1, RegionInDevice

\* A slot of a directory is one of a cluster of its row, and those of the first cluster are
\* the first ones.
LEMMA RowSlot ==
    ASSUME NEW c \in Clusters, NEW i \in SlotSet
    PROVE  \E k \in 0 .. DirSpan - 1 : \E j \in 1 .. SlotsPerCluster :
              /\ c + k \in Rows(c) /\ c + k \in DeviceClusters
              /\ Region(c)[i] = data[c + k][j] /\ Region(c)'[i] = data'[c + k][j]
              /\ i <= SlotsPerCluster => c + k = c /\ j = i
              /\ i > SlotsPerCluster => c + k \in (c + 1) .. (c + DirSpan - 1)
<1> DEFINE k == (i - 1) \div SlotsPerCluster
           j == ((i - 1) % SlotsPerCluster) + 1
<1>1. k \in 0 .. DirSpan - 1 /\ j \in 1 .. SlotsPerCluster /\ i = (k * SlotsPerCluster) + j
  BY SlotPlace DEF SlotSet
<1>2. Region(c)[i] = data[c + k][j] /\ Region(c)'[i] = data'[c + k][j]
  BY Marks DEF Region, SlotSet
<1> HIDE DEF k, j
<1>3. c \in Nat /\ DirSpan \in Nat /\ SlotsPerCluster \in Nat /\ i \in Nat
  BY Spans, SlotFacts DEF Clusters
<1>4. c + k \in Rows(c) /\ c + k \in DeviceClusters
  BY <1>1, <1>3, RegionInDevice DEF Rows
<1>5. CASE k = 0
  BY <1>1, <1>2, <1>3, <1>4, <1>5
<1>6. CASE k # 0
  <2>1. k >= 1 /\ k * SlotsPerCluster >= SlotsPerCluster
    BY <1>1, <1>3, <1>6
  <2>2. i > SlotsPerCluster
    BY <1>1, <1>3, <2>1
  <2>3. c + k \in (c + 1) .. (c + DirSpan - 1)
    BY <1>1, <1>3, <2>1
  <2> QED BY <1>1, <1>2, <1>3, <1>4, <2>2, <2>3
<1> QED
  BY <1>5, <1>6

\* A directory is what its clusters hold.
LEMMA RowKept ==
    ASSUME NEW c \in Clusters, \A x \in Rows(c) : data'[x] = data[x]
    PROVE  Region(c)' = Region(c)
<1>1. c # RootCluster
  BY Marks
<1>2. ASSUME NEW i \in SlotSet PROVE Region(c)'[i] = Region(c)[i]
  BY <1>2, RowSlot
<1>3. /\ Region(c) = [i \in SlotSet |-> Region(c)[i]]
      /\ Region(c)' = [i \in SlotSet |-> Region(c)'[i]]
  BY <1>1 DEF Region, SlotSet
<1> QED
  BY <1>2, <1>3

\* A directory as it will be when its first cluster is written with . and ...
Fresh(c) == [i \in SlotSet |-> IF i <= SlotsPerCluster THEN Dots(c)[i] ELSE Region(c)[i]]

\* In a place fit for a directory it holds nothing else.
LEMMA FreshEmpty ==
    ASSUME NEW t, NEW c \in Clusters, Placed(t, c)
    PROVE  EmptyDir(c, Fresh(c))
<1>1. SlotsPerCluster \in Nat /\ 1 <= SlotsPerCluster /\ 2 <= SlotsPerCluster
      /\ 1 \in SlotSet /\ 2 \in SlotSet /\ SlotSet \subseteq Nat
  BY Spans, SlotFacts
<1>2. Fresh(c)[1] = Dots(c)[1] /\ Fresh(c)[2] = Dots(c)[2]
  BY <1>1 DEF Fresh
<1>3. ASSUME NEW i \in SlotSet \ {1, 2} PROVE Fresh(c)[i] \in {Unused, Deleted}
  <2>1. CASE i <= SlotsPerCluster
    <3>1. i \in 1 .. SlotsPerCluster /\ i # 1 /\ i # 2
      BY <1>1, <1>3, <2>1 DEF SlotSet
    <3>2. Dots(c)[i] = Unused
      BY <3>1 DEF Dots, Blank
    <3> QED BY <2>1, <3>2 DEF Fresh
  <2>2. CASE ~(i <= SlotsPerCluster)
    <3>1. i > SlotsPerCluster
      BY <1>1, <1>3, <2>2
    <3>2. PICK k \in 0 .. DirSpan - 1, j \in 1 .. SlotsPerCluster :
             Region(c)[i] = data[c + k][j] /\ c + k \in (c + 1) .. (c + DirSpan - 1)
      BY <3>1, RowSlot
    <3>3. data[c + k][j] \in {Unused, Deleted}
      BY <3>2 DEF Placed
    <3> QED BY <2>2, <3>2, <3>3 DEF Fresh
  <2> QED BY <2>1, <2>2
<1> QED
  BY <1>2, <1>3 DEF EmptyDir

\* It stays so while only the first cluster is written, and is there once that is.
LEMMA FreshKept ==
    ASSUME NEW c \in Clusters, \A x \in Rows(c) \ {c} : data'[x] = data[x]
    PROVE  Fresh(c)' = Fresh(c)
<1>1. ASSUME NEW i \in SlotSet, i > SlotsPerCluster PROVE Region(c)'[i] = Region(c)[i]
  <2>1. PICK k \in 0 .. DirSpan - 1, j \in 1 .. SlotsPerCluster :
           /\ Region(c)[i] = data[c + k][j] /\ Region(c)'[i] = data'[c + k][j]
           /\ c + k \in Rows(c) /\ c + k \in (c + 1) .. (c + DirSpan - 1)
    BY <1>1, RowSlot
  <2>2. c + k # c
    BY <2>1, Spans DEF Clusters
  <2> QED BY <2>1, <2>2
<1>2. \A i \in SlotSet : i <= SlotsPerCluster \/ i > SlotsPerCluster
  BY Spans, SlotFacts
<1>3. \A i \in SlotSet : (IF i <= SlotsPerCluster THEN Dots(c)[i] ELSE Region(c)'[i])
                           = IF i <= SlotsPerCluster THEN Dots(c)[i] ELSE Region(c)[i]
  BY <1>1, <1>2
<1> QED
  BY <1>3 DEF Fresh

LEMMA FreshStored ==
    ASSUME NEW c \in Clusters, data[c] = Dots(c)
    PROVE  Region(c) = Fresh(c)
<1>1. ASSUME NEW i \in SlotSet PROVE Region(c)[i] = Fresh(c)[i]
  <2>1. CASE i <= SlotsPerCluster
    <3>1. Region(c)[i] = data[c][i]
      BY <2>1, RowSlot
    <3> QED BY <2>1, <3>1 DEF Fresh
  <2>2. CASE ~(i <= SlotsPerCluster)
    BY <2>2 DEF Fresh
  <2> QED BY <2>1, <2>2
<1>2. c # RootCluster
  BY Marks
<1>3. Region(c) = [i \in SlotSet |-> Region(c)[i]] /\ Fresh(c) = [i \in SlotSet |-> Fresh(c)[i]]
  BY <1>2 DEF Region, Fresh, SlotSet
<1> QED
  BY <1>1, <1>3

\* The directories of a sound volume are begun.
LEMMA SoundBegun ==
    ASSUME VolumeTyped, fat1 \in Table, NEW V, Sound(fat1, V, Vol(V))
    PROVE  Begun(V)
<1>1. /\ V \subseteq Starts /\ RootCluster \in V
      /\ \A c \in V \ {RootCluster} : Vol(V)[c][1] = Dots(c)[1] /\ Vol(V)[c][2] = Dots(c)[2]
  BY DEF Sound
<1>2. \A c \in V : SubDirs(c) \subseteq V
  BY SubDirsInside
<1>3. ASSUME NEW c \in V \ {RootCluster}
      PROVE  data[c][1] = Dots(c)[1] /\ data[c][2] = Dots(c)[2]
  <2>1. c \in Clusters
    BY <1>1 DEF Starts
  <2>2. ASSUME NEW i \in {1, 2} PROVE Region(c)[i] = data[c][i]
    <3>1. i \in SlotSet /\ i <= SlotsPerCluster
      BY SlotFacts, Spans
    <3> QED BY <2>1, <3>1, RowSlot
  <2>3. Vol(V)[c] = Region(c)
    BY DEF Vol
  <2> QED BY <1>1, <2>2, <2>3
<1>4. ASSUME NEW c \in V \ {RootCluster}, NEW d \in V \ {RootCluster}, c # d
      PROVE  Rows(c) \cap Rows(d) = {}
  <2>1. Laid(fat1, c) /\ Laid(fat1, d)
    BY DEF Sound
  <2> QED BY <1>4, <2>1, RowsApart
<1> QED
  BY <1>1, <1>2, <1>3, <1>4 DEF Begun

\* A chain has as many clusters as links.
LEMMA EndedSize ==
    ASSUME NEW t \in Table, NEW c, Ended(t, c)
    PROVE  /\ Cardinality(ChainSet(t, c)) = Len(Chain(t, c))
           /\ Terminated(t, c)
<1>1. PICK s : s = Chain(t, c)
  OBVIOUS
<1>2. /\ s \in Seq(Clusters) /\ Len(s) \in 1 .. LastCluster /\ IsInjective(s)
      /\ t[s[Len(s)]] = Eof /\ LastCluster \in Nat
  BY <1>1, EndedFacts, LastClusterAssumption DEF Ended
<1>3. s \in [1 .. Len(s) -> ToSet(s)] /\ \A y \in ToSet(s) : \E i \in 1 .. Len(s) : s[i] = y
  BY <1>2 DEF ToSet
<1>4. \A i, j \in 1 .. Len(s) : s[i] = s[j] => i = j
  BY <1>2 DEF IsInjective
<1>5. ExistsBijection(1 .. Len(s), ToSet(s))
  <2>1. s \in Bijection(1 .. Len(s), ToSet(s))
    BY <1>3, <1>4 DEF Bijection, Injection, Surjection, IsInjective
  <2> QED BY <2>1 DEF ExistsBijection
<1>6. Cardinality(ToSet(s)) = Len(s)
  <2>1. Len(s) \in Nat
    BY <1>2
  <2> QED BY <1>5, <2>1, FS_CountingElements
<1>7. s # <<>> /\ Last(s) = s[Len(s)]
  BY <1>2 DEF Last
<1> QED
  BY <1>1, <1>2, <1>6, <1>7 DEF ChainSet, Terminated

\* Sound directories on the volume are a whole volume.
LEMMA SoundIsWhole ==
    ASSUME VolumeTyped, fat1 \in Table, NEW V, Sound(fat1, V, Vol(V))
    PROVE  Whole
<1>1. TreeDirs \subseteq V
  BY SoundBegun, TreeWithin
<1>2. /\ \A c \in V : \A i \in SlotSet : EntrySound(fat1, V, c, Vol(V)[c][i])
      /\ \A c, d \in V : \A i, j \in SlotSet :
            Counted(Vol(V)[c][i]) /\ Counted(Vol(V)[d][j]) /\ (c # d \/ i # j)
               => ChainSet(fat1, Vol(V)[c][i].first) \cap ChainSet(fat1, Vol(V)[d][j].first) = {}
  BY DEF Sound
<1>3. ASSUME NEW x \in TreeEntries
      PROVE  \E c \in V : \E i \in SlotSet :
                x = <<c, i>> /\ OnVolume(x) = Vol(V)[c][i] /\ Counted(Vol(V)[c][i])
  <2>1. PICK c \in TreeDirs : \E i \in Children(c) : x = <<c, i>>
    BY DEF TreeEntries
  <2>2. PICK i \in Children(c) : x = <<c, i>>
    BY <2>1
  <2>3. c \in V /\ DOMAIN Region(c) = SlotSet /\ Region(c) = Vol(V)[c]
    BY <1>1, SubDirsInside
  <2>4. i \in SlotSet /\ Counted(Region(c)[i]) /\ OnVolume(x) = Region(c)[i]
    BY <2>2, <2>3 DEF Children, Counted, OnVolume
  <2> QED BY <2>2, <2>3, <2>4
<1>4. ASSUME NEW x \in TreeEntries
      PROVE  /\ Terminated(fat1, OnVolume(x).first)
             /\ OnVolume(x).size <= Cardinality(ChainSet(fat1, OnVolume(x).first))
  <2>1. PICK c \in V, i \in SlotSet : OnVolume(x) = Vol(V)[c][i] /\ Counted(Vol(V)[c][i])
    BY <1>3
  <2>2. PICK e : e = OnVolume(x)
    OBVIOUS
  <2>3. Ended(fat1, e.first) /\ e.size <= Len(Chain(fat1, e.first))
    BY <1>2, <2>1, <2>2 DEF EntrySound
  <2>4. Cardinality(ChainSet(fat1, e.first)) = Len(Chain(fat1, e.first)) /\ Terminated(fat1, e.first)
    BY <2>3, EndedSize
  <2> QED BY <2>2, <2>3, <2>4
<1>5. ASSUME NEW x \in TreeEntries, NEW y \in TreeEntries, x # y
      PROVE  ChainSet(fat1, OnVolume(x).first) \cap ChainSet(fat1, OnVolume(y).first) = {}
  <2>1. PICK c \in V, i \in SlotSet : x = <<c, i>> /\ OnVolume(x) = Vol(V)[c][i] /\ Counted(Vol(V)[c][i])
    BY <1>3
  <2>2. PICK d \in V, j \in SlotSet : y = <<d, j>> /\ OnVolume(y) = Vol(V)[d][j] /\ Counted(Vol(V)[d][j])
    BY <1>3
  <2>3. c # d \/ i # j
    BY <1>5, <2>1, <2>2
  <2> QED BY <1>2, <2>1, <2>2, <2>3
<1> QED
  BY <1>4, <1>5 DEF Whole

-----------------------------------------------------------------------------
(* What the commands aim at.                                                *)

\* The names stored are not . and .., and neither is typed to rm: ShortName shows the
\* first (OrdinaryName); rm of . would give back the directory it is in.
PlainNames ==
    /\ \A n \in DOMAIN Short : Short[n] \notin {".", ".."}
    /\ Removable \cap {".", ".."} = {}

WriteKinds == {"store", "fat1", "fat2", "dir"}
Moving     == cmd.op \in {"cd", "mkdir"}

\* The steps of each command.
Fits(x) ==
    /\ x.do = "resize" => cmd.op = "write"
    /\ x.do = "drop" => cmd.op = "remove"
    /\ x.do \in {"root", "enter", "descend", "into", "back"} => Moving
    /\ x.do = "get" /\ cmd.op = "write" => x = Get(cmd.name, "file")
    /\ x.do = "get" /\ cmd.op = "remove" => x = Get(cmd.name, "none")

Doing(s, do) == \E i \in 1 .. Len(s) : s[i].do = do

\* A write will not meet a directory of its name, and its node, once it has one, is
\* of that name; a removal has such a node or one never used.
Targets(s, ns, i) ==
    /\ Doing(s, "resize") =>
          /\ \A j \in DOMAIN ns : Matches(ns[j], cmd.name) => ~ns[j].dir
          /\ i # 0 => Matches(ns[i], cmd.name)
    /\ Doing(s, "drop") /\ i # 0 => Matches(ns[i], cmd.name) \/ ns[i].state = "unused"

Aimed ==
    /\ \A i \in 1 .. Len(todo) : Fits(todo[i])
    /\ cmd.op = "remove" => cmd.name \in Removable
    /\ todo = <<>> => orig = RootCluster
    /\ todo # <<>> => Moving \/ orig = cwd
    /\ Targets(todo, nodes, node)

\* Aimed after an action that moved on to rest, with steps among those of its command.
LEMMA AimGoes ==
    ASSUME Aimed, NEW rest, NEW i, Proceed(rest, i), todo # <<>>,
           \A m \in 1 .. Len(rest) : rest[m].do \in WriteKinds \/ Fits(rest[m]),
           Moving \/ cwd' = cwd, Targets(rest, nodes', i)
    PROVE  Aimed'
<1>1. CASE rest = <<>>
  <2>1. todo' = <<>> /\ cmd' = NoCmd /\ orig' = RootCluster
    BY <1>1 DEF Proceed
  <2>2. ~Doing(<<>>, "resize") /\ ~Doing(<<>>, "drop") /\ \A j \in 1 .. Len(<<>>) : FALSE
    BY DEF Doing
  <2> QED BY <2>1, <2>2 DEF Aimed, Targets, NoCmd
<1>2. CASE rest # <<>>
  <2>1. todo' = rest /\ cmd' = cmd /\ orig' = orig /\ node' = i
    BY <1>2 DEF Proceed
  <2>2. \A m \in 1 .. Len(rest) : Fits(rest[m])
    BY DEF Fits, WriteKinds
  <2>3. (1 .. Len(todo))' = 1 .. Len(rest)
    BY <2>1
  <2>4. (\A m \in 1 .. Len(todo) : Fits(todo[m]))'
    BY <2>1, <2>2, <2>3 DEF Fits, Moving
  <2>5. Targets(todo, nodes, node)'
    BY <2>1 DEF Targets
  <2> QED BY <1>2, <2>1, <2>4, <2>5 DEF Aimed, Moving
<1> QED
  BY <1>1, <1>2

\* Steps after which the nodes are what they were, or the command has no target.
LEMMA AimSame ==
    ASSUME Aimed, NEW rest, NEW i, Proceed(rest, i), todo # <<>>, i \in {0, node},
           \A m \in 1 .. Len(rest) :
              \/ rest[m].do \in WriteKinds
              \/ \E j \in 1 .. Len(todo) : rest[m] = todo[j]
              \/ Moving /\ Fits(rest[m]),
           \/ nodes' = nodes /\ cwd' = cwd
           \/ Moving
           \/ cwd' = cwd /\ \A m \in 1 .. Len(rest) : rest[m].do \in WriteKinds
    PROVE  Aimed'
<1>1. \A m \in 1 .. Len(rest) : rest[m].do \in WriteKinds \/ Fits(rest[m])
  BY DEF Aimed
<1>2. Moving \/ cwd' = cwd
  OBVIOUS
<1>3. ASSUME NEW do \in {"resize", "drop"}, Doing(rest, do)
      PROVE  ~Moving /\ nodes' = nodes /\ Doing(todo, do)
  <2>1. PICK m \in 1 .. Len(rest) : rest[m].do = do
    BY <1>3 DEF Doing
  <2>2. rest[m].do \notin WriteKinds
    BY <2>1 DEF WriteKinds
  <2>3. ~Moving
    BY <1>1, <2>1, <2>2 DEF Fits, Moving
  <2> QED BY <2>1, <2>2, <2>3 DEF Doing
<1>4. Targets(todo, nodes, node)
  BY DEF Aimed
<1>5. Targets(rest, nodes', i)
  BY <1>3, <1>4 DEF Targets
<1> QED
  BY <1>1, <1>2, <1>5, AimGoes

\* What is in two lists joined, and what is last in them.
LEMMA JoinedElements ==
    ASSUME NEW S, NEW a \in Seq(S), NEW b \in Seq(S)
    PROVE  /\ a \o b \in Seq(S) /\ Len(a \o b) = Len(a) + Len(b)
           /\ \A m \in 1 .. Len(a \o b) :
                 \/ m \in 1 .. Len(a) /\ (a \o b)[m] = a[m]
                 \/ m - Len(a) \in 1 .. Len(b) /\ (a \o b)[m] = b[m - Len(a)]
           /\ Len(b) # 0 => Last(a \o b) = b[Len(b)] /\ a \o b # <<>>
<1>1. \A m \in 1 .. Len(a \o b) : m \in 1 .. Len(a) \/ m - Len(a) \in 1 .. Len(b)
  OBVIOUS
<1>2. Len(b) # 0 => Last(a \o b) = b[Len(b)] /\ a \o b # <<>>
  BY DEF Last
<1> QED
  BY <1>1, <1>2

\* What is left of a list was in it.
LEMMA TailElements ==
    ASSUME NEW t \in Seq(Steps), t # <<>>
    PROVE  \A m \in 1 .. Len(Tail(t)) : \E j \in 1 .. Len(t) : Tail(t)[m] = t[j]
<1>1. /\ Len(Tail(t)) = Len(t) - 1
      /\ \A i \in 1 .. Len(t) - 1 : Tail(t)[i] = t[i + 1] /\ i + 1 \in 1 .. Len(t)
  BY TailFacts
<1> QED
  BY <1>1

\* The steps of a command under way are a list.
LEMMA StepsTyped ==
    ASSUME CacheInv, todo # <<>>
    PROVE  todo \in Seq(Steps) /\ Head(todo) = todo[1] /\ 1 \in 1 .. Len(todo)
<1>1. PICK k \in Nat : Ordered(todo, k)
  BY DEF CacheInv, InOrder
<1> QED
  BY <1>1, OrderedHead DEF Ordered

\* Aimed after the process has stopped: nothing is left to do.
LEMMA AimStop ==
    ASSUME Stop
    PROVE  Aimed'
<1>1. todo' = <<>> /\ cmd' = NoCmd /\ orig' = RootCluster
  BY DEF Stop, Forget
<1>2. ~Doing(<<>>, "resize") /\ ~Doing(<<>>, "drop") /\ \A j \in 1 .. Len(<<>>) : FALSE
  BY DEF Doing
<1> QED
  BY <1>1, <1>2 DEF Aimed, Targets, NoCmd

\* Aimed between commands, whatever directory is current.
LEMMA AimAtRest ==
    ASSUME Aimed, todo = <<>>, todo' = todo, cmd' = cmd, orig' = orig
    PROVE  Aimed'
<1>1. ~Doing(<<>>, "resize") /\ ~Doing(<<>>, "drop") /\ \A j \in 1 .. Len(<<>>) : FALSE
  BY DEF Doing
<1> QED
  BY <1>1 DEF Aimed, Targets

\* Every step that is no lookup.
LEMMA AimStep ==
    ASSUME CacheInv, Aimed,
           \/ FlushFat1 \/ FlushFat2 \/ FlushDir \/ Store \/ Fetch \/ GiveUp \/ Resize \/ Drop
           \/ ToRoot \/ Enter \/ IntoNew \/ Back \/ Descend
    PROVE  Aimed'
<1>1. todo # <<>>
  BY DEF FlushFat1, FlushFat2, FlushDir, Store, Fetch, GiveUp, Resize, Drop,
         ToRoot, Enter, IntoNew, Back, Descend, Next1, Idle
<1>2. todo \in Seq(Steps) /\ Head(todo) = todo[1] /\ 1 \in 1 .. Len(todo)
  BY <1>1, StepsTyped
<1>3. \A m \in 1 .. Len(Tail(todo)) : \E j \in 1 .. Len(todo) : Tail(todo)[m] = todo[j]
  BY <1>1, <1>2, TailElements
<1>4. \A m \in 1 .. Len(<<>>) : FALSE
  OBVIOUS
<1>5. CASE FlushFat1 \/ FlushFat2 \/ FlushDir \/ Store \/ Fetch
  <2>1. nodes' = nodes /\ cwd' = cwd /\ \E i \in {0, node} : Proceed(Tail(todo), i)
    BY <1>5 DEF FlushFat1, FlushFat2, FlushDir, Store, Fetch, memory
  <2> QED BY <1>1, <1>3, <2>1, AimSame
<1>6. CASE GiveUp
  <2>1. nodes' = nodes /\ cwd' = cwd /\ Proceed(<<>>, 0)
    BY <1>6 DEF GiveUp, memory
  <2> QED BY <1>1, <1>4, <2>1, AimSame
<1>7. CASE Drop
  <2>1. cwd' = cwd /\ Proceed(Flush, node)
    BY <1>7 DEF Drop
  <2>2. \A m \in 1 .. Len(Flush) : Flush[m].do \in WriteKinds
    BY DEF Flush, Step, WriteKinds
  <2> QED BY <1>1, <2>1, <2>2, AimSame
<1>8. CASE Resize
  <2> DEFINE item(i) == [do |-> "store",
                         at |-> Visited(Reallocate(LoadedTable, nodes[node].first, ClustersOf(cmd.len)),
                                        ReallocateStart(LoadedTable, nodes[node].first, ClustersOf(cmd.len)), i),
                         contents |-> Contents(cmd.name, cmd.len, i)]
             n == ClustersOf(cmd.len)
             s == [i \in 1 .. n |-> item(i)]
  <2>1. cwd' = cwd /\ Proceed(s \o Flush, node) /\ Head(todo).do = "resize"
    BY <1>8 DEF Resize, Next1
  <2>2. n \in Nat
    BY <1>2, <2>1 DEF CacheInv, CommandTyped, ClustersOf
  <2>3. \A i \in 1 .. n : s[i].do \in WriteKinds
    BY DEF WriteKinds
  <2> HIDE DEF s, n
  <2>4. PICK u : u = s \o Flush
    OBVIOUS
  <2>5. Flush \in Seq(Steps) /\ Len(Flush) = 3 /\ \A m \in 1 .. 3 : Flush[m].do \in WriteKinds
    BY FlushType DEF Flush, Step, WriteKinds
  <2>6. Len(s) = n /\ \E S : s \in Seq(S) /\ Flush \in Seq(S)
    <3>1. PICK S : S = {s[i] : i \in 1 .. n} \cup Steps
      OBVIOUS
    <3>2. s \in [1 .. n -> S] /\ Flush \in Seq(S)
      BY <2>5, <3>1 DEF s
    <3>3. s \in Seq(S) /\ Len(s) = n
      BY <2>2, <3>2
    <3> QED BY <3>2, <3>3
  <2>7. \A m \in 1 .. Len(u) : u[m].do \in WriteKinds
    <3>1. PICK S : s \in Seq(S) /\ Flush \in Seq(S)
      BY <2>6
    <3>2. \A m \in 1 .. Len(s \o Flush) :
             \/ m \in 1 .. Len(s) /\ (s \o Flush)[m] = s[m]
             \/ m - Len(s) \in 1 .. Len(Flush) /\ (s \o Flush)[m] = Flush[m - Len(s)]
      BY <3>1, JoinedElements
    <3>3. \A m \in 1 .. Len(u) : \/ m \in 1 .. n /\ u[m] = s[m]
                                 \/ m - n \in 1 .. 3 /\ u[m] = Flush[m - n]
      BY <2>4, <2>5, <2>6, <3>2
    <3> QED BY <2>3, <2>5, <3>3
  <2> QED BY <1>1, <2>1, <2>4, <2>7, AimSame
<1>9. CASE ToRoot \/ Enter \/ IntoNew \/ Back \/ Descend
  <2>1. Head(todo).do \in {"root", "enter", "into", "back", "descend"}
    BY <1>9 DEF ToRoot, Enter, IntoNew, Back, Descend, Next1
  <2>2. Fits(todo[1])
    BY <1>2 DEF Aimed
  <2>3. Moving
    BY <1>2, <2>1, <2>2 DEF Fits
  <2>4. CASE \E rest \in {<<>>, Tail(todo)} : Proceed(rest, 0)
    BY <1>1, <1>3, <1>4, <2>3, <2>4, AimSame
  <2>5. CASE /\ Next1("descend")
             /\ Proceed(<<Get(Head(todo).name, "dir"), Step("into")>> \o Tail(todo), 0)
    <3>2. PICK p : p = <<Get(Head(todo).name, "dir"), Step("into")>>
      OBVIOUS
    <3>3. Head(todo) \in Moves
      <4>1. PICK k \in Nat : Ordered(todo, k)
        BY DEF CacheInv, InOrder
      <4> QED BY <1>1, <4>1, <2>5, OrderedKind DEF Next1
    <3>4. Get(Head(todo).name, "dir") \in Steps /\ Step("into") \in Steps
      BY <3>3 DEF Get, Step, Steps, Moves, Lookups, Others
    <3>5. p \in Seq(Steps) /\ Len(p) = 2 /\ p[1] = Get(Head(todo).name, "dir") /\ p[2] = Step("into")
      BY <3>2, <3>4
    <3>6. Fits(Get(Head(todo).name, "dir")) /\ Fits(Step("into"))
      BY <2>3 DEF Fits, Get, Step, Moving
    <3>7. \A i \in 1 .. Len(p \o Tail(todo)) :
             \/ i \in 1 .. Len(p) /\ (p \o Tail(todo))[i] = p[i]
             \/ \E j \in 1 .. Len(todo) : (p \o Tail(todo))[i] = todo[j]
      BY <1>1, <1>2, <3>5, FrontFacts
    <3>8. \A i \in 1 .. Len(p) : Fits(p[i])
      <4>1. \A i \in 1 .. 2 : i = 1 \/ i = 2
        OBVIOUS
      <4> QED BY <4>1, <3>5, <3>6
    <3>9. PICK u : u = p \o Tail(todo)
      OBVIOUS
    <3>10. \A i \in 1 .. Len(u) : (\E j \in 1 .. Len(todo) : u[i] = todo[j]) \/ (Moving /\ Fits(u[i]))
      BY <2>3, <3>7, <3>8, <3>9
    <3>11. Proceed(u, 0)
      BY <2>5, <3>2, <3>9
    <3> QED BY <1>1, <2>3, <3>10, <3>11, AimSame
  <2> QED BY <1>9, <2>4, <2>5 DEF ToRoot, Enter, IntoNew, Back, Descend
<1> QED
  BY <1>5, <1>6, <1>7, <1>8, <1>9

\* A scan ends at an entry never used or at one of the name.
LEMMA ScanLands ==
    ASSUME nodes \in RegionEntries, NEW n, ScanEnd(n) # 0
    PROVE  nodes[ScanEnd(n)].state = "unused" \/ Matches(nodes[ScanEnd(n)], n)
<1> DEFINE ends == {i \in DOMAIN nodes : nodes[i].state = "unused" \/ Matches(nodes[i], n)}
<1>1. ends \subseteq Nat
  BY Spans DEF RegionEntries
<1>2. ScanEnd(n) = IF ends = {} THEN 0 ELSE Min(ends)
  BY DEF ScanEnd
<1> HIDE DEF ends
<1>3. ends # {} => Min(ends) \in ends
  BY <1>1, MinFacts
<1>4. ScanEnd(n) \in ends
  BY <1>2, <1>3
<1> QED
  BY <1>4 DEF ends

\* The first slot that can be taken is taken by no entry.
LEMMA SlotOpen ==
    ASSUME nodes \in RegionEntries, NEW n, FirstSlot(n) # 0
    PROVE  FirstSlot(n) \in SlotSet /\ nodes[FirstSlot(n)].state # "used"
<1> DEFINE seen == IF ScanEnd(n) = 0 THEN DOMAIN nodes ELSE 1 .. ScanEnd(n)
           open == {i \in seen : nodes[i].state # "used"}
<1>0. Slots(DirSpan) \in Nat /\ ScanEnd(n) \in 0 .. Slots(DirSpan) /\ DOMAIN nodes = SlotSet
  BY Spans, Scans DEF RegionEntries, SlotSet
<1>1. seen \subseteq SlotSet /\ SlotSet \subseteq Nat
  BY <1>0, SlotFacts DEF SlotSet
<1>2. FirstSlot(n) = IF open = {} THEN 0 ELSE Min(open)
  BY DEF FirstSlot
<1>3. open \subseteq seen /\ \A i \in open : nodes[i].state # "used"
  OBVIOUS
<1> HIDE DEF open, seen
<1>4. open # {} => Min(open) \in open
  BY <1>1, <1>3, MinFacts
<1> QED
  BY <1>1, <1>2, <1>3, <1>4

\* fat12_get_file, whatever it finds or makes.
LEMMA AimGet ==
    ASSUME CacheInv, Aimed, Lookup \/ CreateNode
    PROVE  Aimed'
<1> DEFINE step == Head(todo)
           slot == FirstSlot(step.name)
           first == ReallocateStart(LoadedTable, Eof, ClustersFor(step.make))
           begun == [do |-> "store", at |-> first, contents |-> Dots(first)]
           front == IF step.make = "dir" THEN <<begun>> ELSE <<>>
           entry == Entry("used", Short[step.name], step.make = "dir", first, 0)
<1>1. todo # <<>> /\ step.do = "get" /\ cwd' = cwd
  BY DEF Lookup, CreateNode, Next1, Idle, memory
<1>2. todo \in Seq(Steps) /\ step = todo[1] /\ 1 \in 1 .. Len(todo)
  BY <1>1, StepsTyped
<1>3. nodes \in RegionEntries
  BY <1>1, NoWrites
<1>4. Fits(step)
  BY <1>2 DEF Aimed
<1>5. ASSUME NEW p, NEW S, p \in Seq(S), Steps \subseteq S,
             \A m \in 1 .. Len(p) : p[m].do \in WriteKinds
      PROVE  /\ \A m \in 1 .. Len(p \o Tail(todo)) :
                   (p \o Tail(todo))[m].do \in WriteKinds \/ Fits((p \o Tail(todo))[m])
             /\ \A do \in {"resize", "drop"} : Doing(p \o Tail(todo), do) => Doing(todo, do)
  <2>1. Tail(todo) \in Seq(S) /\ \A m \in 1 .. Len(Tail(todo)) : \E j \in 1 .. Len(todo) : Tail(todo)[m] = todo[j]
    BY <1>1, <1>2, <1>5, TailElements, TailFacts
  <2>2. \A m \in 1 .. Len(p \o Tail(todo)) :
           \/ m \in 1 .. Len(p) /\ (p \o Tail(todo))[m] = p[m]
           \/ m - Len(p) \in 1 .. Len(Tail(todo)) /\ (p \o Tail(todo))[m] = Tail(todo)[m - Len(p)]
    BY <1>5, <2>1, JoinedElements
  <2>3. PICK u : u = p \o Tail(todo)
    OBVIOUS
  <2>4. \A m \in 1 .. Len(u) : u[m].do \in WriteKinds \/ \E j \in 1 .. Len(todo) : u[m] = todo[j]
    BY <1>5, <2>1, <2>2, <2>3
  <2>5. \A m \in 1 .. Len(u) : u[m].do \in WriteKinds \/ Fits(u[m])
    BY <2>4 DEF Aimed
  <2>6. \A do \in {"resize", "drop"} : Doing(u, do) => Doing(todo, do)
    BY <2>4 DEF Doing, WriteKinds
  <2> QED BY <2>3, <2>5, <2>6
<1>6. Flush \in Seq(Steps) /\ \A m \in 1 .. Len(Flush) : Flush[m].do \in WriteKinds
  BY FlushType DEF Flush, Step, WriteKinds
<1>7. /\ Doing(todo, "resize") => /\ step = Get(cmd.name, "file") /\ cmd.op = "write"
                                  /\ \A j \in DOMAIN nodes : Matches(nodes[j], cmd.name) => ~nodes[j].dir
      /\ Doing(todo, "drop") => step = Get(cmd.name, "none")
  <2>1. Doing(todo, "resize") => cmd.op = "write"
    BY DEF Aimed, Doing, Fits
  <2>2. Doing(todo, "drop") => cmd.op = "remove"
    BY DEF Aimed, Doing, Fits
  <2> QED BY <1>1, <1>4, <2>1, <2>2 DEF Fits, Aimed, Targets
<1>8. CASE Lookup
  <2>1. Proceed(Flush \o Tail(todo), ScanEnd(step.name)) /\ nodes' = nodes /\ ~MayCreate(step)
    BY <1>8 DEF Lookup, memory
  <2>2. PICK u : u = Flush \o Tail(todo)
    OBVIOUS
  <2>3. /\ \A m \in 1 .. Len(u) : u[m].do \in WriteKinds \/ Fits(u[m])
        /\ \A do \in {"resize", "drop"} : Doing(u, do) => Doing(todo, do)
    <3>1. Steps \subseteq Steps
      OBVIOUS
    <3> QED BY <1>5, <1>6, <2>2, <3>1
  <2>4. PICK i : i = ScanEnd(step.name)
    OBVIOUS
  <2>5. i # 0 => nodes[i].state = "unused" \/ Matches(nodes[i], step.name)
    BY <1>3, <2>4, ScanLands
  <2>6. step.make # "none" /\ i # 0 => nodes[i].state # "unused"
    BY <1>3, <2>1, <2>4, Scans DEF MayCreate
  <2>7. Targets(u, nodes', i)
    BY <1>7, <2>1, <2>3, <2>5, <2>6 DEF Targets, Get
  <2> QED BY <1>1, <2>1, <2>2, <2>3, <2>4, <2>7, AimGoes
<1>9. CASE CreateNode
  <2>1. /\ MayCreate(step)
        /\ nodes' = [nodes EXCEPT ![slot] = entry]
        /\ Proceed(front \o Flush \o Tail(todo), slot)
    BY <1>9 DEF CreateNode
  <2>2. slot \in SlotSet /\ step.make # "none"
    BY <1>3, <2>1, SlotOpen DEF MayCreate
  <2>3. PICK p : p = front \o Flush
    OBVIOUS
  <2>4. PICK S : S = Steps \cup {begun}
    OBVIOUS
  <2>5. p \in Seq(S) /\ \A m \in 1 .. Len(p) : p[m].do \in WriteKinds
    <3>1. front \in Seq(S) /\ \A m \in 1 .. Len(front) : front[m].do \in WriteKinds
      <4>1. begun \in S /\ begun.do \in WriteKinds
        BY <2>4 DEF WriteKinds
      <4> HIDE DEF begun
      <4>2. <<begun>> \in Seq(S) /\ \A m \in 1 .. Len(<<begun>>) : <<begun>>[m].do \in WriteKinds
        BY <4>1
      <4>3. <<>> \in Seq(S) /\ \A m \in 1 .. Len(<<>>) : <<>>[m].do \in WriteKinds
        OBVIOUS
      <4> QED BY <4>2, <4>3
    <3>2. Flush \in Seq(S)
      BY <1>6, <2>4
    <3> HIDE DEF front
    <3>3. p \in Seq(S) /\ \A m \in 1 .. Len(p) :
             \/ m \in 1 .. Len(front) /\ p[m] = front[m]
             \/ m - Len(front) \in 1 .. Len(Flush) /\ p[m] = Flush[m - Len(front)]
      BY <3>1, <3>2, <2>3, JoinedElements
    <3> QED BY <1>6, <3>1, <3>3
  <2>6. PICK u : u = p \o Tail(todo)
    OBVIOUS
  <2>7. /\ \A m \in 1 .. Len(u) : u[m].do \in WriteKinds \/ Fits(u[m])
        /\ \A do \in {"resize", "drop"} : Doing(u, do) => Doing(todo, do)
    <3>1. Steps \subseteq S
      BY <2>4
    <3> QED BY <1>5, <2>5, <2>6, <3>1
  <2>8. Proceed(u, slot)
    BY <2>1, <2>3, <2>6
  <2>9. DOMAIN nodes' = DOMAIN nodes /\ \A j \in DOMAIN nodes : nodes'[j] = IF j = slot THEN entry ELSE nodes[j]
    BY <1>3, <2>1, <2>2 DEF RegionEntries, SlotSet
  <2>10. slot \in DOMAIN nodes
    BY <1>3, <2>2 DEF RegionEntries, SlotSet
  <2>11. ~Doing(u, "drop")
    BY <1>7, <2>2, <2>7 DEF Get
  <2>12. ASSUME Doing(u, "resize")
         PROVE  /\ \A j \in DOMAIN nodes' : Matches(nodes'[j], cmd.name) => ~nodes'[j].dir
                /\ Matches(nodes'[slot], cmd.name)
    <3>1. step = Get(cmd.name, "file") /\ \A j \in DOMAIN nodes : Matches(nodes[j], cmd.name) => ~nodes[j].dir
      BY <1>7, <2>7, <2>12
    <3>2. entry.dir = FALSE /\ Matches(entry, cmd.name)
      <4>1. step.make = "file" /\ step.name = cmd.name
        BY <3>1 DEF Get
      <4> HIDE DEF first, step
      <4> QED BY <4>1 DEF Entry, Matches
    <3> HIDE DEF entry, slot
    <3> QED BY <2>9, <2>10, <3>1, <3>2
  <2> HIDE DEF slot
  <2>13. Targets(u, nodes', slot)
    BY <2>11, <2>12 DEF Targets
  <2> QED BY <1>1, <2>7, <2>8, <2>13, AimGoes
<1> QED
  BY <1>8, <1>9

\* A command that begins.
LEMMA AimBegin ==
    ASSUME NEW command, NEW steps, Begin(command, steps), steps # <<>>,
           \A m \in 1 .. Len(steps) : Fits(steps[m])',
           command.op = "remove" => command.name \in Removable,
           Doing(steps, "resize") =>
              \A j \in DOMAIN nodes : Matches(nodes[j], command.name) => ~nodes[j].dir
    PROVE  Aimed'
<1>1. /\ cmd' = command /\ todo' = steps /\ node' = 0 /\ orig' = cwd /\ cwd' = cwd /\ nodes' = nodes
  BY DEF Begin, memory
<1>2. (\A m \in 1 .. Len(todo) : Fits(todo[m]))'
  BY <1>1
<1>3. Targets(todo, nodes, node)'
  BY <1>1 DEF Targets
<1> QED
  BY <1>1, <1>2, <1>3 DEF Aimed

\* The steps of a quiet list are of the kinds it names.
LEMMA AimPath ==
    ASSUME NEW command, NEW steps, NEW D, Begin(command, steps), steps # <<>>, Quiet(steps, D),
           command.op \in {"cd", "mkdir"}, "resize" \notin D, "drop" \notin D
    PROVE  Aimed'
<1>1. cmd' = command
  BY DEF Begin
<1>2. steps \in Seq(Plain) /\ \A i \in 1 .. Len(steps) : steps[i].do \in D /\ (steps[i].do = "get" => steps[i].make # "dir")
  BY DEF Quiet
<1>3. \A m \in 1 .. Len(steps) : Fits(steps[m])'
  BY <1>1, <1>2 DEF Fits, Moving
<1>4. ~Doing(steps, "resize")
  BY <1>2 DEF Doing
<1> QED
  BY <1>3, <1>4, AimBegin

\* Every command puts steps of its own into todo.
LEMMA AimCommand ==
    ASSUME CacheInv, Aimed, Command
    PROVE  Aimed'
<1>1. CASE \E n \in FileNames : TouchFile(n) \/ ReadFile(n)
  <2>1. PICK n \in FileNames : TouchFile(n) \/ ReadFile(n)
    BY <1>1
  <2>2. CASE TouchFile(n)
    <3>1. PICK steps : steps = <<Get(n, "file")>>
      OBVIOUS
    <3>2. PICK command : command = [op |-> "touch", name |-> n]
      OBVIOUS
    <3>3. Begin(command, steps) /\ steps # <<>> /\ cmd' = command
      BY <2>2, <3>1, <3>2 DEF TouchFile, Begin
    <3>4. Len(steps) = 1 /\ steps[1] = Get(n, "file")
      BY <3>1
    <3>5. \A m \in 1 .. Len(steps) : Fits(steps[m])'
      BY <3>2, <3>3, <3>4 DEF Fits, Get, Moving
    <3>6. ~Doing(steps, "resize")
      BY <3>4 DEF Doing, Get
    <3> QED BY <3>2, <3>3, <3>5, <3>6, AimBegin
  <2>3. CASE ReadFile(n)
    <3>1. PICK steps : steps = <<Get(n, "none"), Step("fetch")>>
      OBVIOUS
    <3>2. PICK command : command = [op |-> "read", name |-> n]
      OBVIOUS
    <3>3. Begin(command, steps) /\ steps # <<>> /\ cmd' = command
      BY <2>3, <3>1, <3>2 DEF ReadFile, Begin
    <3>4. Len(steps) = 2 /\ steps[1] = Get(n, "none") /\ steps[2] = Step("fetch")
      BY <3>1
    <3>5. \A m \in 1 .. Len(steps) : m = 1 \/ m = 2
      BY <3>4
    <3>6. \A m \in 1 .. Len(steps) : Fits(steps[m])'
      BY <3>2, <3>3, <3>4, <3>5 DEF Fits, Get, Step, Moving
    <3>7. ~Doing(steps, "resize")
      BY <3>4, <3>5 DEF Doing, Get, Step
    <3> QED BY <3>2, <3>3, <3>6, <3>7, AimBegin
  <2> QED BY <2>1, <2>2, <2>3
<1>2. CASE \E n \in FileNames : WritesFiles(n) /\ \E len \in Lengths[n] : WriteFile(n, len)
  <2>0. PICK n \in FileNames : WritesFiles(n) /\ \E len \in Lengths[n] : WriteFile(n, len)
    BY <1>2
  <2>1. PICK len \in Lengths[n] : WritesFiles(n) /\ WriteFile(n, len)
    BY <2>0
  <2>2. PICK steps : steps = <<Get(n, "file"), Get(n, "file"), Step("resize")>>
    OBVIOUS
  <2>3. PICK command : command = [op |-> "write", name |-> n, len |-> len]
    OBVIOUS
  <2>4. Begin(command, steps) /\ steps # <<>> /\ cmd' = command
    BY <2>1, <2>2, <2>3 DEF WriteFile, Begin
  <2>5. Len(steps) = 3 /\ steps[1] = Get(n, "file") /\ steps[2] = Get(n, "file") /\ steps[3] = Step("resize")
    BY <2>2
  <2>6. \A m \in 1 .. Len(steps) : m = 1 \/ m = 2 \/ m = 3
    BY <2>5
  <2>7. command.op = "write" /\ command.name = n
    BY <2>3
  <2>8. \A m \in 1 .. Len(steps) : Fits(steps[m])'
    <3>1. Fits(Get(n, "file"))' /\ Fits(Step("resize"))'
      BY <2>4, <2>7 DEF Fits, Get, Step, Moving
    <3> QED BY <2>5, <2>6, <3>1
  <2>9. \A j \in DOMAIN nodes : Matches(nodes[j], command.name) => ~nodes[j].dir
    BY <2>1, <2>7 DEF WritesFiles
  <2> QED BY <2>4, <2>7, <2>8, <2>9, AimBegin
<1>3. CASE \E n \in Removable : RemoveFile(n)
  <2>1. PICK n \in Removable : RemoveFile(n)
    BY <1>3
  <2>2. PICK steps : steps = <<Get(n, "none"), Step("drop")>>
    OBVIOUS
  <2>3. PICK command : command = [op |-> "remove", name |-> n]
    OBVIOUS
  <2>4. Begin(command, steps) /\ steps # <<>> /\ cmd' = command
    BY <2>1, <2>2, <2>3 DEF RemoveFile, Begin
  <2>5. Len(steps) = 2 /\ steps[1] = Get(n, "none") /\ steps[2] = Step("drop")
    BY <2>2
  <2>6. \A m \in 1 .. Len(steps) : m = 1 \/ m = 2
    BY <2>5
  <2>7. command.op = "remove" /\ command.name = n
    BY <2>3
  <2>8. \A m \in 1 .. Len(steps) : Fits(steps[m])'
    <3>1. Fits(Get(n, "none"))' /\ Fits(Step("drop"))'
      BY <2>4, <2>7 DEF Fits, Get, Step, Moving
    <3> QED BY <2>5, <2>6, <3>1
  <2>9. ~Doing(steps, "resize")
    BY <2>5, <2>6 DEF Doing, Get, Step
  <2> QED BY <2>1, <2>4, <2>7, <2>8, <2>9, AimBegin
<1>4. CASE \E path \in Paths : Cd(ConstructPath(path)) \/ Mkdir(ConstructPath(path))
  <2>1. PICK path \in Paths : Cd(ConstructPath(path)) \/ Mkdir(ConstructPath(path))
    BY <1>4
  <2>2. PICK p : p = ConstructPath(path)
    OBVIOUS
  <2>3. p.names \in Seq(DOMAIN Short)
    BY <2>2, PathNames
  <2>5. CASE Cd(p)
    <3>1. PICK steps : steps = IF p.names[1] = "" THEN ToStart(p) ELSE Visit(p, "enter")
      OBVIOUS
    <3>2. PICK D : D = {"root", "get", "enter"}
      OBVIOUS
    <3>3. Quiet(ToStart(p), D) /\ Quiet(Visit(p, "enter"), D)
      BY <2>3, <3>2, QuietVisit
    <3>4. Quiet(steps, D)
      BY <3>1, <3>3
    <3>5. PICK command : command = [op |-> "cd", path |-> p]
      OBVIOUS
    <3>6. Begin(command, steps) /\ steps # <<>>
      BY <2>5, <3>1, <3>5 DEF Cd
    <3>7. command.op \in {"cd", "mkdir"} /\ "resize" \notin D /\ "drop" \notin D
      BY <3>2, <3>5
    <3> QED BY <3>4, <3>6, <3>7, AimPath
  <2>6. CASE Mkdir(p)
    <3>1. PICK steps : steps = Visit(p, "descend") \o <<Step("back")>>
      OBVIOUS
    <3>2. PICK D : D = {"root", "get", "descend", "back"}
      OBVIOUS
    <3>3. Quiet(Visit(p, "descend"), {"root", "get", "descend"})
      BY <2>3, QuietVisit
    <3>4. Quiet(Visit(p, "descend"), D)
      BY <3>2, <3>3 DEF Quiet
    <3>5. Quiet(<<Step("back")>>, D)
      BY <3>2, QuietStep
    <3>6. Quiet(steps, D)
      BY <3>1, <3>4, <3>5, QuietConcat
    <3>7. steps # <<>>
      BY <3>1, <3>4, <3>5 DEF Quiet
    <3>8. PICK command : command = [op |-> "mkdir", path |-> p]
      OBVIOUS
    <3>9. Begin(command, steps)
      BY <2>6, <3>1, <3>8 DEF Mkdir
    <3>10. command.op \in {"cd", "mkdir"} /\ "resize" \notin D /\ "drop" \notin D
      BY <3>2, <3>8
    <3> QED BY <3>6, <3>7, <3>9, <3>10, AimPath
  <2> QED BY <2>1, <2>2, <2>5, <2>6
<1> QED
  BY <1>1, <1>2, <1>3, <1>4 DEF Command

\* Every step keeps to the aim.
LEMMA AimNext ==
    ASSUME CacheInv, Aimed, [Next]_vars
    PROVE  Aimed'
<1>1. CASE Mount \/ Reinitialise
  <2>1. todo = <<>>
    BY <1>1 DEF Mount, Reinitialise, CacheInv, MemoryTyped
  <2>2. todo' = todo /\ cmd' = cmd /\ orig' = orig
    BY <1>1 DEF Mount, Reinitialise
  <2> QED BY <2>1, <2>2, AimAtRest
<1>2. CASE Unmount \/ Fail
  <2>1. Stop
    BY <1>2 DEF Unmount, Fail, Exhausted, NullTable, NullNode, AssertionFails, Kill
  <2> QED BY <2>1, AimStop
<1>3. CASE Command
  BY <1>3, AimCommand
<1>4. CASE Advance
  BY <1>4, AimGet, AimStep DEF Advance
<1>5. CASE UNCHANGED vars
  <2>1. /\ cwd' = cwd /\ nodes' = nodes /\ cmd' = cmd /\ todo' = todo /\ node' = node /\ orig' = orig
    BY <1>5 DEF vars, memory
  <2> QED BY <2>1 DEF Aimed, Fits, Targets, Moving
<1> QED
  BY <1>1, <1>2, <1>3, <1>4, <1>5 DEF Next

-----------------------------------------------------------------------------
(* What is kept, from one device write to the next.                         *)

\* The directories M as the driver has them: the working directory in memory, the others
\* on the volume, and a directory just made as its first cluster will be.
Mem(V, M) == [c \in M |-> IF c = cwd THEN nodes ELSE IF c \in V THEN Region(c) ELSE Fresh(c)]

\* The device writes of a command are under way.
Writing == todo # <<>> /\ Head(todo).do \in WriteKinds

\* A command that has changed the entry of its node, and not yet written it.
Owing(op) == Last(todo).do = "dir" /\ cmd.op = op

Removing == Owing("remove") /\ node # 0 /\ Region(cwd)[node].state = "used"

\* How the node in memory may differ from the entry of the volume.
NodeChange(e, f) ==
    \/ f = e
    \/ e.state # "used"
    \/ Owing("remove")
    \/ Owing("write") /\ fat # NoTable /\ f = [e EXCEPT !.size = f.size]

\* How the directories M of the driver may differ from the directories V of the volume
\* while it is writing.  Nothing is stored in a directory but what a new one begins with.
Changed(V, M) ==
    /\ \A i \in SlotSet : i # node => nodes[i] = Region(cwd)[i]
    /\ node # 0 => NodeChange(Region(cwd)[node], nodes[node])
    /\ V \subseteq M \/ Removing
    /\ \A c \in M \ V : \/ data[c] = Dots(c)
                        \/ Head(todo) = [do |-> "store", at |-> c, contents |-> Dots(c)]
    /\ \A i \in 1 .. Len(todo) : todo[i].do = "store" =>
          /\ todo[i].at \notin Held(V) \cup {RootCluster}
          /\ \A c \in M \ V : todo[i].at \in Rows(c) =>
                todo[i].at = c /\ todo[i].contents = Dots(c)

\* The volume has the directories V, and the driver, if it runs, the directories M.
Kept(V, M) ==
    /\ IF Exposed THEN Begun(V) ELSE Sound(fat1, V, Vol(V))
    /\ mounted => /\ Sound(LoadedTable, M, Mem(V, M))
                  /\ {cwd, orig} \subseteq V \cap M
                  /\ IF Writing THEN Changed(V, M) ELSE M = V

KeptInv == Spoilt \/ \E V, M \in SUBSET Starts : Kept(V, M)

\* Where a command stands says whether it is writing.
LEMMA WritingPlace ==
    ASSUME NEW k, InOrder(k)
    PROVE  /\ k \in Nat
           /\ Writing <=> k # 0
           /\ Exposed => k \in {1, 2}
           /\ k # 0 => todo # <<>>
<1>1. Ordered(todo, k)
  BY DEF InOrder
<1>2. CASE todo = <<>>
  <2>1. Len(todo) = 0
    BY <1>2
  <2>2. k = 0
    BY <1>1, <2>1 DEF Ordered
  <2> QED BY <1>2, <2>2 DEF Writing, Exposed, Idle
<1>3. CASE todo # <<>>
  <2>1. /\ k \in Nat
        /\ \/ k = 0 /\ Head(todo) \in Plain
           \/ k = 1 /\ Head(todo).do = "dir"
           \/ k = 2 /\ Head(todo).do = "fat2"
           \/ k = 3 /\ Head(todo).do = "fat1"
           \/ k > 3 /\ Head(todo) \in Stores
    BY <1>1, <1>3, OrderedHead
  <2>2. \A x \in Plain : x.do \notin WriteKinds
    BY DEF Plain, Lookups, Moves, Others, WriteKinds
  <2>3. \A x \in Stores : x.do = "store"
    BY DEF Stores
  <2>4. PICK x : x = Head(todo)
    OBVIOUS
  <2>5. CASE k = 0
    BY <1>3, <2>1, <2>2, <2>4, <2>5 DEF Writing, Exposed, WriteKinds
  <2>6. CASE k # 0
    <3>1. x.do \in WriteKinds
      BY <2>1, <2>3, <2>4, <2>6 DEF WriteKinds
    <3>2. x.do \in {"fat2", "dir"} => k \in {1, 2}
      BY <2>1, <2>3, <2>4, <2>6
    <3> QED BY <1>3, <2>1, <2>4, <2>6, <3>1, <3>2 DEF Writing, Exposed
  <2> QED BY <2>5, <2>6
<1> QED
  BY <1>2, <1>3

\* Between the device writes of two steps, memory and volume agree.
LEMMA AtEase ==
    ASSUME CacheInv, mounted, ~Writing, NEW V, NEW M, Kept(V, M)
    PROVE  /\ InOrder(0) /\ ~Exposed
           /\ M = V /\ Sound(fat1, V, Vol(V))
           /\ LoadedTable = fat1 /\ nodes = Region(cwd)
           /\ cwd \in V /\ orig \in V
           /\ nodes \in RegionEntries
<1>1. PICK k \in Nat : InOrder(k)
  BY DEF CacheInv
<1>2. k = 0 /\ ~Exposed
  BY <1>1, WritingPlace
<1>3. Agreed(0)
  BY <1>1, <1>2 DEF InOrder
<1>4. LoadedTable = fat1 /\ nodes = Region(cwd)
  BY <1>3 DEF Agreed, LoadedTable
<1>5. nodes \in RegionEntries
  BY DEF CacheInv, MemoryTyped
<1> QED
  BY <1>1, <1>2, <1>4, <1>5 DEF Kept

\* A sound volume and no device writes under way: that is kept.
LEMMA Rested ==
    ASSUME CacheInv', mounted', (~Writing)', NEW V, Sound(fat1', V, Vol(V)'), cwd' \in V, orig' \in V
    PROVE  Kept(V, V)'
<1>1. PICK k \in Nat : InOrder(k)'
  BY DEF CacheInv
<1>2. Ordered(todo', k)
  BY <1>1 DEF InOrder
<1>3. k = 0 /\ ~Exposed'
  <2>1. CASE todo' = <<>>
    <3>1. Len(todo') = 0
      BY <2>1
    <3> QED BY <1>2, <2>1, <3>1 DEF Ordered, Exposed, Idle
  <2>2. CASE todo' # <<>>
    <3>1. Head(todo').do \notin WriteKinds
      BY <2>2 DEF Writing
    <3>2. \A x \in Stores : x.do = "store"
      BY DEF Stores
    <3>3. \/ k = 0 /\ Head(todo') \in Plain
          \/ Head(todo').do \in {"dir", "fat2", "fat1"}
          \/ Head(todo') \in Stores
      BY <1>2, <2>2, OrderedHead
    <3> QED BY <3>1, <3>2, <3>3 DEF WriteKinds, Exposed
  <2> QED BY <2>1, <2>2
<1>4. Agreed(0)'
  BY <1>1, <1>3 DEF InOrder
<1>5. LoadedTable' = fat1' /\ nodes' = Region(cwd)'
  BY <1>4 DEF Agreed, LoadedTable
<1>6. Mem(V, V)' = Vol(V)'
  BY <1>5 DEF Mem, Vol
<1>7. Sound(LoadedTable', V, Mem(V, V)')
  BY <1>5, <1>6
<1>8. Sound(LoadedTable, V, Mem(V, V))'
  BY <1>7 DEF Sound
<1>9. Sound(fat1, V, Vol(V))'
  BY DEF Sound
<1> QED
  BY <1>3, <1>8, <1>9 DEF Kept

-----------------------------------------------------------------------------
(* Steps that leave the volume as it is.                                    *)

\* What is on the volume depends on the volume alone.
LEMMA SameRegions ==
    ASSUME UNCHANGED volume
    PROVE  /\ fat1' = fat1 /\ data' = data
           /\ \A c : Region(c)' = Region(c)
           /\ \A V : Vol(V)' = Vol(V)
BY DEF volume, Region, Vol

\* A list that is to begin with no device write does not begin with one.
LEMMA RestOrder ==
    ASSUME Ordered(todo', 0)
    PROVE  (~Writing)'
<1>1. \A x \in Plain : x.do \notin WriteKinds
  BY DEF Plain, Lookups, Moves, Others, WriteKinds
<1>2. todo' # <<>> => Head(todo') \in Plain \/ 0 = 1
  BY OrderedHead
<1> QED
  BY <1>1, <1>2 DEF Writing

\* A directory found in the working directory is one of the volume.
LEMMA FoundInside ==
    ASSUME CacheInv, mounted, ~Writing, NEW V, NEW M, Kept(V, M), node # 0, nodes[node].dir
    PROVE  nodes[node].first \in V
<1>1. Sound(fat1, V, Vol(V)) /\ nodes = Region(cwd) /\ cwd \in V
  BY AtEase
<1>2. node \in SlotSet
  BY Spans DEF CacheInv, MemoryTyped, SlotSet
<1>3. PICK e : e = nodes[node]
  OBVIOUS
<1>4. Vol(V)[cwd][node] = e
  BY <1>1, <1>3 DEF Vol
<1>5. EntrySound(fat1, V, cwd, e) /\ RootCluster \in V
  BY <1>1, <1>2, <1>4 DEF Sound
<1> QED
  BY <1>1, <1>3, <1>5 DEF EntrySound, Dotted, Counted

\* Kept after an action that writes nothing to the volume and flushes nothing.
LEMMA Quietly ==
    ASSUME CacheInv, CacheInv', mounted, ~Writing, NEW V, NEW M, Kept(V, M), UNCHANGED volume,
           mounted', Ordered(todo', 0), cwd' \in V, orig' \in V \cup {RootCluster}
    PROVE  Kept(V, V)'
<1>1. Sound(fat1, V, Vol(V))
  BY AtEase
<1>2. RootCluster \in V
  BY <1>1 DEF Sound
<1>3. Sound(fat1', V, Vol(V)')
  BY <1>1, SameRegions
<1>4. (~Writing)'
  BY RestOrder
<1> QED
  BY <1>2, <1>3, <1>4, Rested

\* Kept after the steps that load a directory, fetch contents or end a command early.
LEMMA KeptMove ==
    ASSUME CacheInv, CacheInv', NEW V, NEW M, Kept(V, M),
           Fetch \/ GiveUp \/ ToRoot \/ Enter \/ IntoNew \/ Back \/ Descend
    PROVE  Kept(V, V)'
<1>1. /\ todo # <<>>
      /\ Head(todo).do \in {"fetch", "resize", "drop", "root", "enter", "into", "back", "descend"}
  BY DEF Fetch, GiveUp, ToRoot, Enter, IntoNew, Back, Descend, Next1, Idle
<1>2. InOrder(0) /\ mounted = TRUE /\ ~Writing
  BY <1>1, NoWrites DEF Writing, WriteKinds
<1>3. mounted
  BY <1>2
<1>4. cwd \in V /\ orig \in V /\ RootCluster \in V
  BY <1>2, <1>3, AtEase DEF Sound
<1>5. UNCHANGED volume /\ mounted'
  BY <1>3 DEF Fetch, GiveUp, ToRoot, Enter, IntoNew, Back, Descend, Load, memory
<1>6. /\ Proceed(Tail(todo), 0) => Ordered(todo', 0)
      /\ Proceed(<<>>, 0) => Ordered(todo', 0)
  BY <1>1, <1>2, Goes, Ends
<1>7. Descend /\ Proceed(<<Get(Head(todo).name, "dir"), Step("into")>> \o Tail(todo), 0)
         => Ordered(todo', 0)
  <2> SUFFICES ASSUME Descend, Proceed(<<Get(Head(todo).name, "dir"), Step("into")>> \o Tail(todo), 0)
               PROVE  Ordered(todo', 0)
    OBVIOUS
  <2>1. PICK u : u = <<Get(Head(todo).name, "dir"), Step("into")>> \o Tail(todo)
    OBVIOUS
  <2>2. Ordered(u, 0) /\ u # <<>>
    BY <1>1, <1>2, <2>1, OrderedDescend DEF Descend, Next1, InOrder
  <2>3. Proceed(u, 0)
    BY <2>1
  <2> QED BY <2>2, <2>3 DEF Proceed
<1>8. Ordered(todo', 0)
  BY <1>6, <1>7 DEF Fetch, GiveUp, ToRoot, Enter, IntoNew, Back, Descend
<1>9. orig' \in V \cup {RootCluster}
  <2>1. \E rest, i : Proceed(rest, i)
    BY DEF Fetch, GiveUp, ToRoot, Enter, IntoNew, Back, Descend
  <2> QED BY <1>4, <2>1 DEF Proceed
<1>10. IntoNew => node # 0 /\ nodes[node].dir
  <2>1. IntoNew => 0 < Len(todo) /\ todo[0 + 1].do = "into"
    <3>1. Head(todo) = todo[1] /\ 1 \in 1 .. Len(todo)
      BY <1>1, StepsTyped
    <3>2. 0 < Len(todo) /\ 0 + 1 = 1
      BY <3>1
    <3> QED BY <3>1, <3>2 DEF IntoNew, Next1
  <2> QED BY <1>2, <2>1 DEF InOrder, PlaceKnown
<1>11. node # 0 /\ nodes[node].dir => nodes[node].first \in V
  BY <1>2, <1>3, FoundInside
<1>12. cwd' \in V
  <2>1. CASE Fetch \/ GiveUp
    BY <1>4, <2>1 DEF Fetch, GiveUp, memory
  <2>2. CASE ToRoot \/ Back
    BY <1>4, <2>2 DEF ToRoot, Back, Load
  <2>3. CASE Enter
    BY <1>4, <1>11, <2>3 DEF Enter, Load, FoundDir
  <2>4. CASE IntoNew
    BY <1>10, <1>11, <2>4 DEF IntoNew, Load
  <2>5. CASE Descend
    BY <1>4, <1>11, <2>5 DEF Descend, Load, memory
  <2> QED BY <2>1, <2>2, <2>3, <2>4, <2>5
<1> QED
  BY <1>2, <1>3, <1>5, <1>8, <1>9, <1>12, Quietly

\* The process ends, where the volume is sound.
LEMMA KeptStop ==
    ASSUME NEW V, NEW M, Kept(V, M), Stop, ~torn'
    PROVE  Kept(V, V)'
<1>1. ~Exposed /\ UNCHANGED volume /\ mounted' = FALSE /\ todo' = <<>>
  BY DEF Stop, Forget
<1>2. Sound(fat1', V, Vol(V)')
  BY <1>1, SameRegions DEF Kept
<1>3. ~Exposed' /\ ~mounted'
  BY <1>1 DEF Exposed, Idle
<1>4. Sound(fat1, V, Vol(V))'
  BY <1>2 DEF Sound
<1> QED
  BY <1>3, <1>4 DEF Kept

\* A volume is mounted.
LEMMA KeptMount ==
    ASSUME CacheInv, CacheInv', Aimed, NEW V, NEW M, Kept(V, M), Mount
    PROVE  Kept(V, V)'
<1>1. /\ UNCHANGED volume /\ mounted' = TRUE /\ cwd' = RootCluster /\ orig' = orig /\ todo' = todo
      /\ ~mounted
  BY DEF Mount
<1>2. todo = <<>> /\ ~Exposed
  BY <1>1 DEF CacheInv, MemoryTyped, Exposed, Idle
<1>3. orig' = RootCluster
  BY <1>1, <1>2 DEF Aimed
<1>4. Sound(fat1', V, Vol(V)')
  BY <1>1, <1>2, SameRegions DEF Kept
<1>5. RootCluster \in V
  BY <1>4 DEF Sound
<1>6. (~Writing)'
  BY <1>1, <1>2 DEF Writing
<1>7. mounted'
  BY <1>1
<1> QED
  BY <1>1, <1>3, <1>4, <1>5, <1>6, <1>7, Rested

\* A command begins, with no device writes.
LEMMA KeptBegin ==
    ASSUME CacheInv, CacheInv', NEW V, NEW M, Kept(V, M),
           NEW command, NEW steps, NEW D, Begin(command, steps), Quiet(steps, D)
    PROVE  Kept(V, V)'
<1>1. mounted /\ todo = <<>> /\ UNCHANGED volume /\ mounted' = mounted /\ cwd' = cwd /\ orig' = cwd /\ todo' = steps
  BY DEF Begin, Idle, memory
<1>2. ~Writing /\ mounted'
  BY <1>1 DEF Writing
<1>3. cwd \in V
  BY <1>1, <1>2, AtEase
<1>4. Ordered(todo', 0)
  BY <1>1, QuietOrdered
<1> QED
  BY <1>1, <1>2, <1>3, <1>4, Quietly

\* Kept when a command begins: it only puts steps into todo.
LEMMA KeptCommand ==
    ASSUME CacheInv, CacheInv', NEW V, NEW M, Kept(V, M), Command
    PROVE  Kept(V, V)'
<1>1. ASSUME NEW n \in DOMAIN Short, NEW make \in {"none", "file"}, NEW do \in {"resize", "fetch", "drop"}
      PROVE  LET D == {"get", do}
             IN  /\ Quiet(<<Get(n, make)>>, D)
                 /\ Quiet(<<Get(n, make), Step(do)>>, D)
                 /\ Quiet(<<Get(n, make), Get(n, make), Step(do)>>, D)
  <2>1. PICK D : D = {"get", do}
    OBVIOUS
  <2>2. Quiet(<<Get(n, make)>>, D) /\ Quiet(<<Step(do)>>, D)
    <3>1. "get" \in D /\ do \in D
      BY <2>1
    <3>2. Quiet(<<Get(n, make)>>, D)
      BY <3>1, QuietGet
    <3>3. Quiet(<<Step(do)>>, D)
      BY <3>1, QuietStep
    <3> QED BY <3>2, <3>3
  <2>3. Quiet(<<Get(n, make)>> \o <<Step(do)>>, D)
    BY <2>2, QuietConcat
  <2>4. Quiet((<<Get(n, make)>> \o <<Get(n, make)>>) \o <<Step(do)>>, D)
    BY <2>2, QuietConcat
  <2>5. <<Get(n, make), Step(do)>> = <<Get(n, make)>> \o <<Step(do)>>
    OBVIOUS
  <2>6. <<Get(n, make), Get(n, make), Step(do)>> = (<<Get(n, make)>> \o <<Get(n, make)>>) \o <<Step(do)>>
    OBVIOUS
  <2> QED BY <2>1, <2>2, <2>3, <2>4, <2>5, <2>6
<1>2. CASE \E n \in FileNames : TouchFile(n) \/ ReadFile(n)
  <2>1. PICK n \in FileNames : TouchFile(n) \/ ReadFile(n)
    BY <1>2
  <2>2. n \in DOMAIN Short
    BY Names
  <2> QED BY <1>1, <2>1, <2>2, KeptBegin DEF TouchFile, ReadFile
<1>3. CASE \E n \in FileNames : WritesFiles(n) /\ \E len \in Lengths[n] : WriteFile(n, len)
  <2>1. PICK n \in FileNames : \E len \in Lengths[n] : WriteFile(n, len)
    BY <1>3
  <2>2. n \in DOMAIN Short
    BY Names
  <2> QED BY <1>1, <2>1, <2>2, KeptBegin DEF WriteFile
<1>4. CASE \E n \in Removable : RemoveFile(n)
  <2>1. PICK n \in Removable : RemoveFile(n)
    BY <1>4
  <2>2. n \in DOMAIN Short
    BY Names
  <2> QED BY <1>1, <2>1, <2>2, KeptBegin DEF RemoveFile
<1>5. CASE \E path \in Paths : Cd(ConstructPath(path)) \/ Mkdir(ConstructPath(path))
  <2>1. PICK path \in Paths : Cd(ConstructPath(path)) \/ Mkdir(ConstructPath(path))
    BY <1>5
  <2>2. PICK p : p = ConstructPath(path)
    OBVIOUS
  <2>3. p.names \in Seq(DOMAIN Short)
    BY <2>2, PathNames
  <2>4. CASE Cd(p)
    <3>1. PICK D : D = {"root", "get", "enter"}
      OBVIOUS
    <3>2. Quiet(ToStart(p), D) /\ Quiet(Visit(p, "enter"), D)
      BY <2>3, <3>1, QuietVisit
    <3> QED BY <2>4, <3>2, KeptBegin DEF Cd
  <2>5. CASE Mkdir(p)
    <3>1. PICK D : D = {"root", "get", "descend", "back"}
      OBVIOUS
    <3>2. Quiet(Visit(p, "descend"), {"root", "get", "descend"})
      BY <2>3, QuietVisit
    <3>3. Quiet(Visit(p, "descend"), D) /\ Quiet(<<Step("back")>>, D)
      BY <3>1, <3>2, QuietStep DEF Quiet
    <3>4. Quiet(Visit(p, "descend") \o <<Step("back")>>, D)
      BY <3>3, QuietConcat
    <3> QED BY <2>5, <3>4, KeptBegin DEF Mkdir
  <2> QED BY <2>1, <2>2, <2>4, <2>5
<1> QED
  BY <1>2, <1>3, <1>4, <1>5 DEF Command

\* A volume just initialised is sound.
LEMMA NewVolume ==
    ASSUME NEW t, NEW G, t = EmptyTable, G[RootCluster] = [i \in 1 .. Slots(DirSpan) |-> Unused]
    PROVE  Sound(t, {RootCluster}, G)
<1>1. ASSUME NEW i \in SlotSet
      PROVE  /\ G[RootCluster][i] = Unused
             /\ ~Counted(G[RootCluster][i]) /\ EntrySound(t, {RootCluster}, RootCluster, G[RootCluster][i])
  <2>1. G[RootCluster][i] = Unused
    BY DEF SlotSet
  <2>2. Unused.state = "unused" /\ Unused.dir = FALSE /\ Unused.first = RootCluster
    BY DEF Unused, Entry
  <2> QED BY <2>1, <2>2 DEF EntrySound, Dotted, Counted
<1> QED
  BY <1>1 DEF Sound, Starts

\* Kept after a format, of the root directory alone.
LEMMA KeptReinitialise ==
    ASSUME CacheInv, Reinitialise
    PROVE  Kept({RootCluster}, {RootCluster})'
<1>1. /\ fat1' = EmptyTable /\ root' = [i \in 1 .. Slots(DirSpan) |-> Unused]
      /\ ~mounted /\ mounted' = mounted /\ todo' = todo
  BY DEF Reinitialise, memory
<1>2. ~Exposed' /\ ~mounted'
  BY <1>1 DEF CacheInv, MemoryTyped, Exposed, Idle
<1>3. Vol({RootCluster})'[RootCluster] = root'
  BY DEF Vol, Region
<1>4. Sound(fat1', {RootCluster}, Vol({RootCluster})')
  BY <1>1, <1>3, NewVolume
<1>5. Sound(fat1, {RootCluster}, Vol({RootCluster}))'
  BY <1>4 DEF Sound
<1> QED
  BY <1>2, <1>5 DEF Kept

\* Kept at the start, of the root directory alone.
LEMMA KeptInit ==
    ASSUME Init
    PROVE  Kept({RootCluster}, {RootCluster})
<1>1. /\ fat1 = EmptyTable /\ root = [i \in 1 .. Slots(DirSpan) |-> Unused]
      /\ ~mounted /\ todo = <<>>
  BY DEF Init
<1>2. ~Exposed
  BY <1>1 DEF Exposed, Idle
<1>3. Vol({RootCluster})[RootCluster] = root
  BY DEF Vol, Region
<1>4. Sound(fat1, {RootCluster}, Vol({RootCluster}))
  BY <1>1, <1>3, NewVolume
<1> QED
  BY <1>1, <1>2, <1>4 DEF Kept

-----------------------------------------------------------------------------
(* Steps that put device writes in front.                                   *)

\* The sentinel for a table not read is no table.
LEMMA RealTable ==
    ASSUME NEW t \in Table
    PROVE  t # NoTable
<1>1. 2 \in DOMAIN t
  BY Marks DEF Table, Clusters
<1>2. DOMAIN NoTable = {}
  BY DEF NoTable
<1> QED
  BY <1>1, <1>2

\* Contents are stored before the flush begins.
LEMMA StoreEarly ==
    ASSUME NEW t, NEW k, Ordered(t, k), NEW i \in 1 .. Len(t), t[i].do = "store"
    PROVE  i < k - 2
<1>1. k \in Nat /\ i \in Nat
  BY DEF Ordered
<1>2. i > k \/ i = k \/ i = k - 1 \/ i = k - 2 \/ i < k - 2
  BY <1>1
<1>3. \A x \in Lookups \cup Moves \cup Others : x.do # "store"
  BY DEF Lookups, Moves, Others
<1>4. ~(i > k) /\ i # k /\ i # k - 1 /\ i # k - 2
  BY <1>3 DEF Ordered
<1> QED
  BY <1>2, <1>4

\* Before the table is written.
LEMMA FlushAhead ==
    ASSUME NEW k, Ordered(todo', k), k >= 3
    PROVE  Writing' /\ ~Exposed' /\ todo' # <<>>
<1>1. k \in Nat /\ k \in 0 .. Len(todo') /\ Len(todo') \in Nat
  BY DEF Ordered
<1>2. todo' # <<>>
  <2>1. Len(todo') # 0
    BY <1>1
  <2> QED BY <2>1
<1>3. \A x \in Stores : x.do = "store"
  BY DEF Stores
<1>4. \/ k = 0 \/ k = 1 \/ k = 2
      \/ Head(todo').do = "fat1"
      \/ Head(todo') \in Stores
  BY <1>2, OrderedHead
<1>5. Head(todo').do \in {"fat1", "store"}
  BY <1>1, <1>3, <1>4
<1> QED
  BY <1>2, <1>5 DEF Writing, WriteKinds, Exposed

\* The directories in memory after a change of one slot of the working directory.
OneSlot(V, W, i0, e) ==
    /\ \A c \in V \cap W : \A i \in SlotSet :
          Mem(V, W)'[c][i] = IF c = cwd /\ i = i0 THEN e ELSE Vol(V)[c][i]
    /\ \A c \in W \ V : Mem(V, W)'[c] = Fresh(c)
    /\ \A i \in SlotSet : i # i0 => nodes'[i] = Region(cwd)'[i]
    /\ nodes'[i0] = e /\ Region(cwd)'[i0] = nodes[i0] /\ Vol(V)[cwd][i0] = nodes[i0]

\* A changed node is one changed slot in the directories of the driver.
LEMMA MemAfter ==
    ASSUME CacheInv, mounted, ~Writing, NEW V, NEW M, Kept(V, M), UNCHANGED volume, cwd' = cwd,
           NEW i0 \in SlotSet, NEW e, nodes' = [nodes EXCEPT ![i0] = e], NEW W
    PROVE  OneSlot(V, W, i0, e)
<1>1. cwd \in V /\ nodes = Region(cwd) /\ nodes \in RegionEntries
  BY AtEase
<1>2. \A c : Region(c)' = Region(c)
  BY SameRegions
<1>3. Region(cwd)' = Region(cwd)
  BY DEF volume, Region
<1>4. \A i \in SlotSet : nodes'[i] = IF i = i0 THEN e ELSE nodes[i]
  BY <1>1 DEF RegionEntries, SlotSet
<1>5. \A c \in W : Mem(V, W)'[c] = IF c = cwd THEN nodes' ELSE IF c \in V THEN Region(c) ELSE Fresh(c)
  BY <1>2 DEF Mem, Fresh
<1>6. \A c \in V : Vol(V)[c] = Region(c)
  BY DEF Vol
<1> QED
  BY <1>1, <1>3, <1>4, <1>5, <1>6 DEF OneSlot

\* A change of one slot and of the table is kept while it is being written.
LEMMA ChangeKept ==
    ASSUME CacheInv, mounted, ~Writing, NEW V, NEW M, Kept(V, M), UNCHANGED volume, cwd' = cwd,
           fat' \in Table, NEW i0 \in SlotSet, NEW e, NEW W,
           SlotChange(fat1, fat', V, Vol(V), cwd, i0, e, W, Mem(V, W)'),
           orig' \in V \cap W, NEW k, Ordered(todo', k), k >= 3, Changed(V, W)'
    PROVE  Kept(V, W)'
<1>1. Sound(fat1, V, Vol(V)) /\ fat1 \in Table /\ cwd \in V
  BY AtEase DEF CacheInv
<1>2. Sound(fat', W, Mem(V, W)')
  <2>1. PICK u : u = fat'
    OBVIOUS
  <2>2. PICK G : G = Mem(V, W)'
    OBVIOUS
  <2>3. PICK c0 : c0 = cwd
    OBVIOUS
  <2>4. SlotChange(fat1, u, V, Vol(V), c0, i0, e, W, G) /\ u \in Table
    BY <2>1, <2>2, <2>3
  <2>5. Sound(u, W, G)
    BY <1>1, <2>4, SlotChanged
  <2> QED BY <2>1, <2>2, <2>5
<1>3. Writing' /\ ~Exposed'
  BY FlushAhead
<1>4. Sound(fat1', V, Vol(V)')
  BY <1>1, SameRegions
<1>5. Sound(fat1, V, Vol(V))'
  BY <1>4 DEF Sound
<1>6. LoadedTable' = fat'
  BY RealTable DEF LoadedTable
<1>7. Sound(LoadedTable, W, Mem(V, W))'
  BY <1>2, <1>6 DEF Sound
<1>8. cwd' \in V \cap W
  BY <1>1 DEF SlotChange
<1> QED
  BY <1>3, <1>5, <1>7, <1>8 DEF Kept

\* A lookup that makes nothing flushes what there is.
LEMMA KeptLookup ==
    ASSUME CacheInv, NEW V, NEW M, Kept(V, M), Lookup
    PROVE  Kept(V, V)'
<1>1. todo # <<>> /\ Head(todo).do = "get"
  BY DEF Lookup, Next1, Idle
<1>2. InOrder(0) /\ mounted /\ ~Writing
  BY <1>1, NoWrites DEF Writing, WriteKinds
<1>3. /\ Sound(fat1, V, Vol(V)) /\ LoadedTable = fat1 /\ nodes = Region(cwd) /\ cwd \in V /\ orig \in V
  BY <1>2, AtEase
<1>4. UNCHANGED volume /\ mounted' = mounted /\ fat' = fat /\ cwd' = cwd /\ nodes' = nodes
  BY DEF Lookup, memory
<1>5. PICK u : u = Flush \o Tail(todo)
  OBVIOUS
<1>6. Ordered(u, 3)
  BY <1>1, <1>2, <1>5, OrderedLookup DEF InOrder
<1>7. u # <<>>
  <2>1. Len(u) # 0
    BY <1>6 DEF Ordered
  <2> QED BY <2>1
<1>8. todo' = u /\ orig' = orig
  BY <1>5, <1>7 DEF Lookup, Proceed
<1>9. Writing' /\ ~Exposed'
  <2>1. 3 >= 3 /\ Ordered(todo', 3)
    BY <1>6, <1>8
  <2> QED BY <2>1, FlushAhead
<1>10. LoadedTable' = fat1 /\ Region(cwd)' = Region(cwd) /\ fat1' = fat1
  BY <1>3, <1>4 DEF LoadedTable, volume, Region
<1>11. Vol(V)' = Vol(V) /\ Mem(V, V)' = Vol(V)
  <2>1. \A c : Region(c)' = Region(c)
    BY <1>4, SameRegions
  <2> QED BY <1>3, <1>4, <1>10, <2>1 DEF Mem, Vol
<1>12. Sound(fat1, V, Vol(V))' /\ Sound(LoadedTable, V, Mem(V, V))'
  <2>1. Sound(fat1', V, Vol(V)') /\ Sound(LoadedTable', V, Mem(V, V)')
    BY <1>3, <1>10, <1>11
  <2> QED BY <2>1 DEF Sound
<1>13. Changed(V, V)'
  <2>1. ASSUME NEW i \in 1 .. Len(u) PROVE u[i].do # "store"
    <3>1. ~(i < 3 - 2)
      OBVIOUS
    <3> QED BY <1>6, <3>1, StoreEarly
  <2>2. nodes' = Region(cwd)'
    BY <1>3, <1>4, <1>10
  <2> QED BY <1>8, <2>1, <2>2 DEF Changed, NodeChange
<1> QED
  BY <1>2, <1>3, <1>4, <1>8, <1>9, <1>12, <1>13 DEF Kept

\* fat12_create_file_node and fat12_create_directory_node.
LEMMA KeptCreate ==
    ASSUME CacheInv, PlainNames, NEW V, NEW M, Kept(V, M), CreateNode, ~misplaced'
    PROVE  \E W \in SUBSET Starts : Kept(V, W)'
<1> DEFINE step  == Head(todo)
           slot  == FirstSlot(step.name)
           n     == ClustersFor(step.make)
           first == ReallocateStart(LoadedTable, Eof, n)
           begun == [do |-> "store", at |-> first, contents |-> Dots(first)]
           p     == (IF step.make = "dir" THEN <<begun>> ELSE <<>>) \o Flush
<1>1. /\ todo # <<>> /\ Head(todo).do = "get" /\ MayCreate(step)
      /\ CanReallocate(LoadedTable, Eof, n)
      /\ fat' = Reallocate(LoadedTable, Eof, n)
      /\ nodes' = [nodes EXCEPT ![slot] = Entry("used", Short[step.name], step.make = "dir", first, 0)]
      /\ step.make = "dir" => Placed(fat', first)
      /\ Proceed(p \o Tail(todo), slot)
      /\ UNCHANGED volume /\ mounted' = mounted /\ cwd' = cwd
  BY DEF CreateNode, Misplace, Next1, Idle
<1>2. InOrder(0) /\ mounted /\ ~Writing /\ nodes \in RegionEntries
  BY <1>1, NoWrites DEF Writing, WriteKinds
<1>3. /\ Sound(fat1, V, Vol(V)) /\ LoadedTable = fat1 /\ nodes = Region(cwd) /\ cwd \in V /\ orig \in V
  BY <1>2, AtEase
<1>4. fat1 \in Table
  BY DEF CacheInv
<1>5. /\ todo \in Seq(Steps) /\ step = todo[1] /\ 1 \in 1 .. Len(todo)
      /\ step.name \in DOMAIN Short /\ step.make \in {"none", "file", "dir"}
  BY <1>1, StepsTyped, AfterGet
<1>6. n \in Nat \ {0}
  BY Spans DEF ClustersFor
<1>7. slot \in SlotSet /\ nodes[slot].state # "used"
  BY <1>1, <1>2, SlotOpen DEF MayCreate
<1>8. PICK u : u = fat'
  OBVIOUS
<1>9. first \in Clusters /\ fat1[first] = Free
  <2>1. first \in ChainSet(u, first) /\ ChainSet(u, first) \subseteq FreeClusters(fat1)
    <3>1. CanReallocate(fat1, Eof, n) /\ u = Reallocate(fat1, Eof, n) /\ first = ReallocateStart(fat1, Eof, n)
      BY <1>1, <1>3, <1>8
    <3> HIDE DEF first, n
    <3>2. u \in Table /\ Ended(u, first) /\ ChainSet(u, first) \subseteq FreeClusters(fat1)
      BY <1>4, <1>6, <3>1, TableCreated
    <3> QED BY <3>2, EndedFacts
  <2> QED BY <2>1 DEF FreeClusters
<1>10. /\ u \in Table /\ Ended(u, first) /\ ChainSet(u, first) \subseteq FreeClusters(fat1)
       /\ \A x \in Clusters : fat1[x] # Free => u[x] = fat1[x]
  <2>1. CanReallocate(fat1, Eof, n) /\ u = Reallocate(fat1, Eof, n) /\ first = ReallocateStart(fat1, Eof, n)
    BY <1>1, <1>3, <1>8
  <2> HIDE DEF first, n
  <2>2. /\ u \in Table /\ Ended(u, first) /\ ChainSet(u, first) \subseteq FreeClusters(fat1)
        /\ \A x \in Clusters : x \notin ChainSet(u, first) => u[x] = fat1[x]
    BY <1>4, <1>6, <2>1, TableCreated
  <2> QED BY <2>2 DEF FreeClusters
<1> HIDE DEF first, slot, n
\* A new directory is where it can be read and written as one.
<1>11. ASSUME step.make = "dir"
       PROVE  Laid(u, first) /\ Rows(first) \subseteq FreeClusters(fat1) /\ EmptyDir(first, Fresh(first))
  <2>1. Placed(u, first)
    BY <1>1, <1>8, <1>11
  <2>2. Laid(u, first)
    BY <1>10, <2>1 DEF Laid, Placed
  <2>3. ChainSet(u, first) = Rows(first)
    BY <1>10, <2>2, LaidFacts
  <2> QED BY <1>9, <1>10, <2>1, <2>2, <2>3, FreshEmpty
<1>12. PICK e : e = Entry("used", Short[step.name], step.make = "dir", first, 0)
  OBVIOUS
<1>13. /\ e.state = "used" /\ e.name \notin {".", ".."} /\ e.dir = (step.make = "dir")
       /\ e.first = first /\ e.size = 0
  BY <1>5, <1>12 DEF Entry, PlainNames
<1>14. nodes' = [nodes EXCEPT ![slot] = e]
  BY <1>1, <1>12
<1>15. PICK W : W = IF step.make = "dir" THEN V \cup {first} ELSE V
  OBVIOUS
<1>16. /\ \A c \in V \cap W : \A i \in SlotSet :
             Mem(V, W)'[c][i] = IF c = cwd /\ i = slot THEN e ELSE Vol(V)[c][i]
       /\ \A c \in W \ V : Mem(V, W)'[c] = Fresh(c)
       /\ \A i \in SlotSet : i # slot => nodes'[i] = Region(cwd)'[i]
       /\ nodes'[slot] = e /\ Region(cwd)'[slot] = nodes[slot] /\ Vol(V)[cwd][slot] = nodes[slot]
  <2>1. OneSlot(V, W, slot, e)
    BY <1>1, <1>2, <1>7, <1>14, MemAfter
  <2> QED BY <2>1 DEF OneSlot
<1>17. /\ RootCluster \in V /\ V \subseteq Starts
       /\ \A c \in V \ {RootCluster} :
             Laid(fat1, c) /\ Vol(V)[c][1] = Dots(c)[1] /\ Vol(V)[c][2] = Dots(c)[2]
  BY <1>3 DEF Sound
<1>18. first \notin V /\ Held(V) \cap FreeClusters(fat1) = {}
  <2>1. ASSUME NEW c \in V \ {RootCluster}
        PROVE  c \in Rows(c) /\ \A x \in Rows(c) : fat1[x] # Free
    BY <1>4, <1>17, LaidFacts
  <2> QED BY <1>9, <2>1, Marks DEF Held, FreeClusters
<1>19. SlotChange(fat1, u, V, Vol(V), cwd, slot, e, W, Mem(V, W)')
  <2>1. Area(fat1, Vol(V)[cwd][slot]) = {}
    BY <1>7, <1>16 DEF Area, Counted
  <2>2. cwd \in V \cap W /\ RootCluster \in W /\ W \subseteq Starts
    BY <1>3, <1>9, <1>15, <1>17 DEF Starts
  <2>4. \A x \in Clusters : fat1[x] # Free => u[x] = fat1[x]
    BY <1>10
  <2>5. EntrySound(u, W, cwd, e)
    <3>1. e.size <= Len(Chain(u, e.first))
      <4>1. Len(Chain(u, first)) \in 1 .. LastCluster /\ LastCluster \in Nat
        BY <1>10, EndedFacts, Marks
      <4> QED BY <4>1, <1>13
    <3>2. e.dir => first \in W \ {RootCluster, cwd}
      BY <1>3, <1>9, <1>13, <1>15, <1>18, Marks
    <3>3. ~e.dir => ChainSet(u, e.first) \cap Held(W) = {}
      BY <1>10, <1>13, <1>15, <1>18
    <3>4. e.name \in ShortNames
      <4>1. step.name \in DOMAIN Short
        BY <1>5
      <4>2. e.name = Short[step.name]
        BY <1>12 DEF Entry
      <4> QED BY <4>1, <4>2 DEF ShortNames
    <3> QED BY <1>10, <1>13, <3>1, <3>2, <3>3, <3>4 DEF EntrySound, Dotted
  <2>6. ChainSet(u, e.first) \subseteq FreeClusters(fat1)
    BY <1>10, <1>13
  <2>7. ~(cwd # RootCluster /\ slot \in {1, 2})
    <3>1. \A c : Dots(c)[1].state = "used" /\ Dots(c)[2].state = "used"
      BY Spans DEF Dots, Blank, Entry
    <3> QED BY <1>3, <1>7, <1>16, <1>17, <3>1
  <2>8. \A c \in W \ V : Laid(u, c) /\ Rows(c) \subseteq FreeClusters(fat1) /\ EmptyDir(c, Mem(V, W)'[c])
    BY <1>11, <1>15, <1>16
  <2>9. V \ W = {}
    BY <1>15
  <2> QED BY <1>16, <2>1, <2>2, <2>4, <2>5, <2>6, <2>7, <2>8, <2>9 DEF SlotChange
<1>20. PICK a : a = p \o Tail(todo)
  OBVIOUS
\* What is to be done: the entries of a new directory, then the flush.
<1>21. \E k \in {3, 4} :
          /\ Ordered(a, k)
          /\ k = 4 => a[1] = begun /\ step.make = "dir"
          /\ step.make = "dir" => k = 4
  <2>1. CASE step.make = "dir"
    <3>1. begun \in Stores
      BY <1>9, DotsType, Marks DEF Stores, Clusters
    <3> HIDE DEF begun
    <3>2. Ordered(<<begun>> \o Flush \o Tail(todo), 4)
      BY <1>1, <1>2, <3>1, OrderedCreate DEF InOrder
    <3>3. a = <<begun>> \o Flush \o Tail(todo)
      BY <1>20, <2>1
    <3>4. a[1] = begun
      <4>1. PICK q : q = <<begun>> \o Flush
        OBVIOUS
      <4>2. <<begun>> \in Seq(Steps) /\ Len(<<begun>>) = 1 /\ <<begun>>[1] = begun
        BY <3>1 DEF Steps
      <4>3. q \in Seq(Steps) /\ Len(q) = Len(<<begun>>) + Len(Flush) /\ \A i \in 1 .. Len(<<begun>>) : q[i] = <<begun>>[i]
        BY <4>1, <4>2, FlushType, ConcatFacts
      <4>4. Len(q) = 4 /\ q[1] = begun
        BY <4>2, <4>3, FlushType
      <4>5. \A i \in 1 .. Len(q) : (q \o Tail(todo))[i] = q[i]
        BY <1>1, <1>5, <4>3, FrontFacts
      <4>6. 1 \in 1 .. Len(q)
        BY <4>4
      <4>7. a = q \o Tail(todo)
        BY <3>3, <4>1
      <4> QED BY <4>4, <4>5, <4>6, <4>7
    <3> QED BY <2>1, <3>2, <3>3, <3>4
  <2>2. CASE step.make # "dir"
    <3>1. p = Flush
      <4>1. p = <<>> \o Flush
        BY <2>2
      <4>2. <<>> \o Flush = Flush
        BY FlushType
      <4> QED BY <4>1, <4>2
    <3>2. Ordered(Flush \o Tail(todo), 3)
      BY <1>1, <1>2, OrderedLookup DEF InOrder
    <3> QED BY <1>20, <2>2, <3>1, <3>2
  <2> QED BY <2>1, <2>2
<1>22. PICK k \in {3, 4} : /\ Ordered(a, k)
                           /\ k = 4 => a[1] = begun /\ step.make = "dir"
                           /\ step.make = "dir" => k = 4
  BY <1>21
<1>23. a # <<>> /\ a \in Seq(Steps) /\ k \in Nat /\ k >= 3
  <2>1. Len(a) # 0 /\ a \in Seq(Steps)
    BY <1>22 DEF Ordered
  <2> QED BY <2>1
<1>24. todo' = a /\ node' = slot /\ orig' = orig
  BY <1>1, <1>20, <1>23 DEF Proceed
<1>25. Changed(V, W)'
  <2>1. node' # 0 => NodeChange(Region(cwd)[node], nodes[node])'
    BY <1>7, <1>16, <1>24 DEF NodeChange
  <2>2. V \subseteq W
    BY <1>15
  <2>3. ASSUME NEW c \in W \ V PROVE Head(todo') = [do |-> "store", at |-> c, contents |-> Dots(c)]
    <3>1. c = first /\ k = 4
      BY <1>15, <1>22, <2>3
    <3>2. Head(a) = a[1]
      BY <1>23
    <3> QED BY <1>22, <1>24, <3>1, <3>2
  <2>4. ASSUME NEW i \in 1 .. Len(a), a[i].do = "store"
        PROVE  /\ a[i].at \notin Held(V) \cup {RootCluster}
               /\ \A c \in W \ V : a[i].at \in Rows(c) => a[i].at = c /\ a[i].contents = Dots(c)
    <3>1. i < k - 2
      BY <1>22, <2>4, StoreEarly
    <3>2. i = 1 /\ k = 4
      BY <1>22, <3>1
    <3>3. a[i] = begun
      BY <1>22, <3>2
    <3>4. first \in FreeClusters(fat1) /\ \A c \in W \ V : c = first
      BY <1>9, <1>15 DEF FreeClusters
    <3> QED BY <1>9, <1>18, <3>3, <3>4, Marks
  <2>5. \A i \in SlotSet : i # slot => nodes'[i] = Region(cwd)'[i]
    BY <1>16
  <2> QED BY <1>24, <2>1, <2>2, <2>3, <2>4, <2>5 DEF Changed
<1>26. Kept(V, W)'
  <2>1. SlotChange(fat1, fat', V, Vol(V), cwd, slot, e, W, Mem(V, W)') /\ fat' \in Table
    BY <1>8, <1>10, <1>19
  <2>2. orig' \in V \cap W
    BY <1>3, <1>15, <1>24
  <2>3. Ordered(todo', k)
    BY <1>22, <1>24
  <2> QED BY <1>1, <1>2, <1>7, <1>23, <1>25, <2>1, <2>2, <2>3, ChangeKept
<1>27. W \in SUBSET Starts
  BY <1>19 DEF SlotChange
<1> QED
  BY <1>26, <1>27

\* fat12_file_write: the file has a chain as long as what is written.
LEMMA KeptResize ==
    ASSUME CacheInv, Aimed, NEW V, NEW M, Kept(V, M), Resize
    PROVE  Kept(V, V)'
<1> DEFINE n     == ClustersOf(cmd.len)
           old   == nodes[node].first
           table == Reallocate(LoadedTable, old, n)
           first == ReallocateStart(LoadedTable, old, n)
           item(i) == [do |-> "store", at |-> Visited(table, first, i),
                       contents |-> Contents(cmd.name, cmd.len, i)]
           s     == [i \in 1 .. n |-> item(i)]
<1>1. /\ todo # <<>> /\ Head(todo).do = "resize" /\ node # 0
      /\ CanReallocate(LoadedTable, old, n)
      /\ fat' = table
      /\ nodes' = [nodes EXCEPT ![node].first = first, ![node].size = cmd.len]
      /\ Proceed(s \o Flush, node)
      /\ UNCHANGED volume /\ mounted' = mounted /\ cwd' = cwd
  BY DEF Resize, Next1, Idle
<1>2. InOrder(0) /\ mounted /\ ~Writing /\ nodes \in RegionEntries
  BY <1>1, NoWrites DEF Writing, WriteKinds
<1>3. /\ Sound(fat1, V, Vol(V)) /\ LoadedTable = fat1 /\ nodes = Region(cwd) /\ cwd \in V /\ orig \in V
  BY <1>2, AtEase
<1>4. fat1 \in Table /\ node \in SlotSet
  BY <1>1, Spans DEF CacheInv, MemoryTyped, SlotSet
<1>5. Head(todo) = todo[1] /\ 1 \in 1 .. Len(todo)
  BY <1>1, StepsTyped
<1>6. cmd.name \in FileNames /\ cmd.len \in Nat /\ cmd.op = "write"
  <2>1. Fits(todo[1])
    BY <1>5 DEF Aimed
  <2> QED BY <1>1, <1>5, <2>1 DEF CacheInv, CommandTyped, Fits
<1>7. n \in Nat /\ n # 0 /\ cmd.len <= n
  BY <1>6 DEF ClustersOf
<1>8. PICK e0 : e0 = nodes[node]
  OBVIOUS
<1>9. e0 \in EntrySet /\ Vol(V)[cwd][node] = e0 /\ e0 \in NodeEntry
  BY <1>2, <1>3, <1>4, <1>8 DEF RegionEntries, NodeEntry, SlotSet, Vol
<1>10. EntrySound(fat1, V, cwd, e0)
  BY <1>3, <1>4, <1>9 DEF Sound
\* The node is that of a file the user made.
<1>11. Counted(e0) /\ e0.dir = FALSE
  <2>1. Doing(todo, "resize") /\ node \in DOMAIN nodes
    BY <1>1, <1>2, <1>4, <1>5 DEF Doing, RegionEntries, SlotSet
  <2>2. Matches(nodes[node], cmd.name) /\ ~nodes[node].dir
    BY <1>1, <2>1 DEF Aimed, Targets
  <2>3. e0.state = "used" /\ ~e0.dir /\ e0.dir \in BOOLEAN
    BY <1>8, <1>9, <2>2 DEF Matches, EntrySet
  <2> QED BY <1>10, <2>3 DEF EntrySound, Dotted, Counted
<1>12. Ended(fat1, old) /\ old = e0.first /\ ChainSet(fat1, old) \cap Held(V) = {}
  BY <1>8, <1>10, <1>11 DEF EntrySound
<1>13. PICK u : u = fat'
  OBVIOUS
<1>14. u = table /\ table = Reallocate(fat1, old, n) /\ CanReallocate(fat1, old, n)
  BY <1>1, <1>3, <1>13
<1> HIDE DEF n, old
<1>15. old \in Clusters /\ old # Eof /\ \A x \in ChainSet(fat1, old) : fat1[x] # Free
  BY <1>4, <1>12, EndedFacts, Marks
<1>16. first = old
  BY <1>3, <1>4, <1>7, <1>14, <1>15, StartType
<1> HIDE DEF table, first
<1>17. /\ u \in Table /\ Ended(u, old) /\ Len(Chain(u, old)) >= n
       /\ ChainSet(u, old) \subseteq ChainSet(fat1, old) \cup FreeClusters(fat1)
       /\ \A x \in Clusters : x \notin ChainSet(fat1, old) /\ fat1[x] # Free => u[x] = fat1[x]
  BY <1>4, <1>7, <1>12, <1>14, TableResized
<1>18. /\ RootCluster \in V /\ V \subseteq Starts
       /\ \A c \in V \ {RootCluster} :
             Laid(fat1, c) /\ Vol(V)[c][1] = Dots(c)[1] /\ Vol(V)[c][2] = Dots(c)[2]
  BY <1>3 DEF Sound
<1>19. ChainSet(u, old) \cap (Held(V) \cup {RootCluster}) = {}
  <2>1. \A x \in FreeClusters(fat1) : x \in Clusters /\ fat1[x] = Free
    BY DEF FreeClusters
  <2>2. \A c \in V \ {RootCluster} : \A x \in Rows(c) : x \in Clusters /\ fat1[x] # Free
    BY <1>4, <1>18, LaidFacts
  <2>3. RootCluster \notin ChainSet(fat1, old)
    BY <1>4, <1>12, EndedFacts, Marks
  <2> QED BY <1>12, <1>17, <2>1, <2>2, <2>3, Marks DEF Held
<1>20. PICK e : e = [[e0 EXCEPT !.first = first] EXCEPT !.size = cmd.len]
  OBVIOUS
<1>21. /\ e = [e0 EXCEPT !.size = e.size] /\ e.size = cmd.len /\ e.first = old
       /\ e.state = e0.state /\ e.name = e0.name /\ e.dir = e0.dir
  BY <1>9, <1>12, <1>16, <1>20 DEF EntrySet
<1>22. nodes' = [nodes EXCEPT ![node] = e]
  <2>1. node \in DOMAIN nodes
    BY <1>2, <1>4 DEF RegionEntries, SlotSet
  <2> QED BY <1>1, <1>2, <1>8, <1>20, <2>1 DEF RegionEntries
<1>23. OneSlot(V, V, node, e)
  BY <1>1, <1>2, <1>4, <1>22, MemAfter
<1>24. SlotChange(fat1, u, V, Vol(V), cwd, node, e, V, Mem(V, V)')
  <2>1. Area(fat1, Vol(V)[cwd][node]) = ChainSet(fat1, old)
    BY <1>9, <1>11, <1>12 DEF Area
  <2>2. EntrySound(u, V, cwd, e)
    <3>1. e.size <= Len(Chain(u, e.first))
      <4>1. PICK m \in Nat : m = Len(Chain(u, old))
        BY <1>17, ChainType
      <4>2. cmd.len <= m
        BY <1>6, <1>7, <1>17, <4>1
      <4> QED BY <1>21, <4>1, <4>2
    <3>2. Counted(e0) /\ e0.name \in ShortNames
      BY <1>10, <1>11 DEF EntrySound
    <3>3. ~Dotted(e) /\ e.dir = FALSE /\ e.state = "used"
      BY <1>11, <1>21 DEF Counted, Dotted
    <3> QED BY <1>17, <1>19, <1>21, <3>1, <3>2, <3>3 DEF EntrySound
  <2>3. ~(cwd # RootCluster /\ node \in {1, 2})
    <3>1. \A c : Dotted(Dots(c)[1]) /\ Dotted(Dots(c)[2])
      BY Spans DEF Dots, Blank, Entry, Dotted
    <3>2. ~Dotted(e0)
      BY <1>11 DEF Dotted, Counted
    <3> QED BY <1>3, <1>9, <1>18, <3>1, <3>2
  <2>4. /\ \A c \in V \cap V : \A i \in SlotSet :
              Mem(V, V)'[c][i] = IF c = cwd /\ i = node THEN e ELSE Vol(V)[c][i]
    BY <1>23 DEF OneSlot
  <2>5. Held(V) \cap ChainSet(fat1, old) = {}
    BY <1>12
  <2> QED BY <1>3, <1>17, <1>18, <1>21, <2>1, <2>2, <2>3, <2>4, <2>5 DEF SlotChange
\* What is to be done: the contents, cluster by cluster, then the flush.
<1>25. \A i \in 1 .. n : item(i).at \in ChainSet(u, old)
  <2> SUFFICES ASSUME NEW i \in 1 .. n PROVE Visited(u, old, i) \in ChainSet(u, old)
    BY <1>14, <1>16
  <2>1. PICK c : c = Chain(u, old)
    OBVIOUS
  <2>2. c \in Seq(Clusters) /\ c[1] = old /\ Len(c) \in Nat
    BY <1>17, <2>1, ChainType DEF Ended, IsChain
  <2>3. i \in 1 .. Len(c)
    BY <1>7, <1>17, <2>1, <2>2
  <2>4. Visited(u, old, i) = c[i]
    BY <2>1, <2>2, <2>3 DEF Visited
  <2> QED BY <2>1, <2>2, <2>3, <2>4 DEF ChainSet, ToSet
<1>26. s \in [1 .. n -> Stores] /\ \A i \in 1 .. n : s[i].at \notin Held(V) \cup {RootCluster}
  <2>1. ASSUME NEW i \in 1 .. n PROVE item(i) \in Stores
    <3>1. Contents(cmd.name, cmd.len, i) \in ClusterEntries
      BY <1>6, <1>7, ContentsType
    <3>2. item(i).at \in Nat
      <4>1. item(i).at \in Clusters
        BY <1>17, <1>25, EndedFacts
      <4> QED BY <4>1, Marks DEF Clusters
    <3> QED BY <3>1, <3>2 DEF Stores
  <2>2. \A i \in 1 .. n : s[i] = item(i)
    OBVIOUS
  <2>3. s \in [1 .. n -> Stores]
    <3> HIDE DEF item
    <3> QED BY <2>1
  <2> HIDE DEF item, s
  <2> QED BY <1>19, <1>25, <2>2, <2>3
<1> HIDE DEF s, item
<1>27. PICK a : a = s \o Flush
  OBVIOUS
<1>28. PICK k \in Nat : k = n + 3
  BY <1>7
<1>29. Ordered(a, k)
  BY <1>7, <1>26, <1>27, <1>28, OrderedStores
<1>30. /\ a # <<>> /\ Last(a) = Step("dir")
       /\ \A i \in 1 .. Len(a) : a[i].do = "store" => a[i].at \notin Held(V) \cup {RootCluster}
  <2>1. s \in Seq(Stores) /\ Len(s) = n
    BY <1>7, <1>26, SeqFun
  <2>2. s \in Seq(Steps)
    BY <2>1 DEF Steps
  <2>3. /\ \A i \in 1 .. Len(s \o Flush) :
              \/ i \in 1 .. Len(s) /\ (s \o Flush)[i] = s[i]
              \/ i - Len(s) \in 1 .. Len(Flush) /\ (s \o Flush)[i] = Flush[i - Len(s)]
        /\ Len(Flush) # 0 => Last(s \o Flush) = Flush[Len(Flush)] /\ s \o Flush # <<>>
    BY <2>2, FlushType, JoinedElements
  <2>4. Last(a) = Step("dir") /\ a # <<>>
    BY <1>27, <2>3, FlushType
  <2>5. ASSUME NEW i \in 1 .. Len(a), a[i].do = "store"
        PROVE  a[i].at \notin Held(V) \cup {RootCluster}
    <3>1. CASE i \in 1 .. n /\ a[i] = s[i]
      BY <1>26, <3>1
    <3>2. CASE i - n \in 1 .. 3 /\ a[i] = Flush[i - n]
      <4>1. \A j \in 1 .. 3 : Flush[j].do # "store"
        <5>1. \A j \in 1 .. 3 : j = 1 \/ j = 2 \/ j = 3
          OBVIOUS
        <5> QED BY <5>1, FlushType DEF Step
      <4> QED BY <2>5, <3>2, <4>1
    <3> QED BY <1>27, <2>1, <2>3, <3>1, <3>2, FlushType
  <2> QED BY <2>4, <2>5
<1>31. todo' = a /\ node' = node /\ orig' = orig /\ cmd' = cmd
  BY <1>1, <1>27, <1>30 DEF Proceed
<1>32. Changed(V, V)'
  <2>1. nodes'[node] = e /\ Region(cwd)'[node] = e0 /\ \A i \in SlotSet : i # node => nodes'[i] = Region(cwd)'[i]
    BY <1>8, <1>23 DEF OneSlot
  <2>2. Owing("write")'
    BY <1>6, <1>30, <1>31 DEF Owing, Step
  <2>3. fat' # NoTable
    BY <1>13, <1>17, RealTable
  <2>4. NodeChange(Region(cwd)[node], nodes[node])'
    BY <1>21, <1>31, <2>1, <2>2, <2>3 DEF NodeChange
  <2>5. \A i \in 1 .. Len(a) : a[i].do = "store" => a[i].at \notin Held(V) \cup {RootCluster}
    BY <1>30
  <2> QED BY <1>31, <2>1, <2>4, <2>5 DEF Changed
<1> QED
  <2>1. SlotChange(fat1, fat', V, Vol(V), cwd, node, e, V, Mem(V, V)') /\ fat' \in Table
    BY <1>13, <1>17, <1>24
  <2>2. orig' \in V \cap V /\ Ordered(todo', k) /\ k >= 3
    BY <1>3, <1>7, <1>28, <1>29, <1>31
  <2> QED BY <1>1, <1>2, <1>4, <1>32, <2>1, <2>2, ChangeKept

\* fat12_remove_file: the clusters of a file or of a directory are given back.
LEMMA KeptDrop ==
    ASSUME CacheInv, Aimed, PlainNames, NEW V, NEW M, Kept(V, M), Drop
    PROVE  \E W \in SUBSET Starts : Kept(V, W)'
<1> DEFINE old   == nodes[node].first
           table == SetEntry(Reallocate(LoadedTable, old, 0), old, Free)
<1>1. /\ todo # <<>> /\ Head(todo).do = "drop" /\ node # 0
      /\ fat' = table
      /\ nodes' = [nodes EXCEPT ![node] = Deleted]
      /\ Proceed(Flush, node)
      /\ UNCHANGED volume /\ mounted' = mounted /\ cwd' = cwd
  BY DEF Drop, Next1, Idle
<1>2. InOrder(0) /\ mounted /\ ~Writing /\ nodes \in RegionEntries
  BY <1>1, NoWrites DEF Writing, WriteKinds
<1>3. /\ Sound(fat1, V, Vol(V)) /\ LoadedTable = fat1 /\ nodes = Region(cwd) /\ cwd \in V /\ orig \in V
  BY <1>2, AtEase
<1>4. fat1 \in Table /\ node \in SlotSet
  BY <1>1, Spans DEF CacheInv, MemoryTyped, SlotSet
<1>5. Head(todo) = todo[1] /\ 1 \in 1 .. Len(todo)
  BY <1>1, StepsTyped
<1>6. cmd.op = "remove" /\ cmd.name \in Removable /\ orig = cwd
  <2>1. Fits(todo[1])
    BY <1>5 DEF Aimed
  <2>2. cmd.op = "remove"
    BY <1>1, <1>5, <2>1 DEF Fits
  <2> QED BY <1>1, <2>2 DEF Aimed, Moving
<1>7. PICK e0 : e0 = nodes[node]
  OBVIOUS
<1>8. e0 \in EntrySet /\ Vol(V)[cwd][node] = e0
  BY <1>2, <1>3, <1>4, <1>7 DEF RegionEntries, NodeEntry, SlotSet, Vol
<1>9. EntrySound(fat1, V, cwd, e0) /\ old = e0.first
  BY <1>3, <1>4, <1>7, <1>8 DEF Sound
\* The node is that of an entry the user made, or one never used.
<1>10. Counted(e0) \/ (e0.state = "unused" /\ old = RootCluster /\ e0.dir = FALSE /\ ~Counted(e0))
  <2>1. Doing(todo, "drop")
    BY <1>1, <1>5 DEF Doing
  <2>2. Matches(e0, cmd.name) \/ e0.state = "unused"
    BY <1>1, <1>7, <2>1 DEF Aimed, Targets
  <2>3. CASE e0.state = "unused"
    BY <1>8, <1>9, <2>3 DEF EntrySound, Counted, EntrySet
  <2>4. CASE Matches(e0, cmd.name)
    <3>1. cmd.name \in DOMAIN Short
      BY <1>6, Names
    <3> QED BY <1>6, <2>4, <3>1 DEF Matches, PlainNames, Counted
  <2> QED BY <2>2, <2>3, <2>4
<1>11. PICK u : u = fat'
  OBVIOUS
<1>12. u = SetEntry(Reallocate(fat1, old, 0), old, Free)
  BY <1>1, <1>3, <1>11
<1>13. PICK A : A = Area(fat1, e0)
  OBVIOUS
<1> HIDE DEF old, table
<1>14. /\ u \in Table
       /\ \A x \in Clusters : x \notin A => u[x] = fat1[x]
       /\ Counted(e0) => Ended(fat1, old) /\ A = ChainSet(fat1, old) /\ old \in A /\ u[old] = Free
       /\ ~Counted(e0) => A = {}
  <2>1. CASE Counted(e0)
    <3>1. Ended(fat1, old)
      BY <1>9, <2>1 DEF EntrySound
    <3>2. A = ChainSet(fat1, old)
      BY <1>9, <1>13, <2>1 DEF Area
    <3>3. old \in A
      BY <1>4, <3>1, <3>2, EndedFacts
    <3>4. u \in Table /\ u[old] = Free /\ \A x \in Clusters : x \notin ChainSet(fat1, old) => u[x] = fat1[x]
      BY <1>4, <1>12, <3>1, TableDropped
    <3> QED BY <2>1, <3>1, <3>2, <3>3, <3>4
  <2>2. CASE ~Counted(e0)
    <3>1. u = fat1
      BY <1>4, <1>10, <1>12, <2>2, TableUntouched
    <3>2. A = {}
      BY <1>13, <2>2 DEF Area
    <3> QED BY <1>4, <2>2, <3>1, <3>2
  <2> QED BY <2>1, <2>2
<1>15. PICK W : W = IF e0.dir THEN V \ {old} ELSE V
  OBVIOUS
<1>16. /\ RootCluster \in V /\ V \subseteq Starts
       /\ \A c \in V \ {RootCluster} :
             Laid(fat1, c) /\ Vol(V)[c][1] = Dots(c)[1] /\ Vol(V)[c][2] = Dots(c)[2]
  BY <1>3 DEF Sound
<1>17. /\ e0.dir => Counted(e0) /\ old \in V \ {RootCluster, cwd} /\ A = Rows(old)
       /\ ~e0.dir => A \cap Held(V) = {}
  <2>1. CASE e0.dir
    <3>1. Counted(e0)
      BY <1>10, <2>1
    <3>2. old \in V \ {RootCluster, cwd}
      BY <1>9, <2>1, <3>1 DEF EntrySound
    <3>3. ChainSet(fat1, old) = Rows(old)
      BY <1>4, <1>16, <3>2, LaidFacts
    <3> QED BY <1>14, <2>1, <3>1, <3>2, <3>3
  <2>2. CASE ~e0.dir
    BY <1>9, <1>14, <2>2 DEF EntrySound
  <2> QED BY <2>1, <2>2
<1>18. OneSlot(V, W, node, Deleted)
  BY <1>1, <1>2, <1>4, MemAfter
<1>19. /\ W \subseteq V /\ V \ W \subseteq A /\ RootCluster \in W /\ cwd \in W
       /\ Held(W) \cap A = {}
  <2>1. W \subseteq V /\ V \ W \subseteq A /\ RootCluster \in W /\ cwd \in W
    BY <1>3, <1>14, <1>15, <1>16, <1>17
  <2>2. CASE e0.dir
    <3>1. ASSUME NEW c \in W \ {RootCluster} PROVE Rows(c) \cap Rows(old) = {}
      <4>1. Laid(fat1, c) /\ Laid(fat1, old) /\ c # old
        BY <1>15, <1>16, <1>17, <2>1, <2>2
      <4> QED BY <1>4, <4>1, RowsApart
    <3> QED BY <1>17, <2>1, <2>2, <3>1 DEF Held
  <2>3. CASE ~e0.dir
    BY <1>15, <1>17, <2>1, <2>3
  <2> QED BY <2>1, <2>2, <2>3
<1>20. SlotChange(fat1, u, V, Vol(V), cwd, node, Deleted, W, Mem(V, W)')
  <2>1. Area(fat1, Vol(V)[cwd][node]) = A
    BY <1>8, <1>13
  <2>2. ~Counted(Deleted) /\ EntrySound(u, W, cwd, Deleted)
    BY DEF Deleted, Entry, EntrySound, Dotted, Counted
  <2>3. ~(cwd # RootCluster /\ node \in {1, 2})
    <3>1. \A c : Dotted(Dots(c)[1]) /\ Dotted(Dots(c)[2])
      BY Spans DEF Dots, Blank, Entry, Dotted
    <3>2. ~Dotted(e0)
      BY <1>10 DEF Dotted, Counted
    <3> QED BY <1>3, <1>8, <1>16, <3>1, <3>2
  <2>4. \A c \in V \cap W : \A i \in SlotSet :
           Mem(V, W)'[c][i] = IF c = cwd /\ i = node THEN Deleted ELSE Vol(V)[c][i]
    BY <1>18 DEF OneSlot
  <2>6. W \subseteq Starts /\ cwd \in V \cap W /\ W \ V = {}
    BY <1>3, <1>16, <1>19
  <2> QED BY <1>14, <1>19, <2>1, <2>2, <2>3, <2>4, <2>6 DEF SlotChange
<1>21. Flush # <<>> /\ Last(Flush) = Step("dir") /\ Ordered(Flush, 3)
  <2>1. Flush # <<>>
    BY FlushType
  <2> QED BY <2>1, FlushType, OrderedFlush DEF Last
<1>22. todo' = Flush /\ node' = node /\ orig' = orig /\ cmd' = cmd
  BY <1>1, <1>21 DEF Proceed
<1>23. Changed(V, W)'
  <2>1. Region(cwd)'[node] = e0 /\ \A i \in SlotSet : i # node => nodes'[i] = Region(cwd)'[i]
    BY <1>7, <1>18 DEF OneSlot
  <2>2. Owing("remove")'
    BY <1>6, <1>21, <1>22 DEF Owing, Step
  <2>3. NodeChange(Region(cwd)[node], nodes[node])'
    BY <2>2 DEF NodeChange
  <2>4. V \subseteq W \/ Removing'
    <3>1. e0.dir => e0.state = "used"
      BY <1>9 DEF EntrySound
    <3> QED BY <1>1, <1>15, <1>22, <2>1, <2>2, <3>1 DEF Removing
  <2>6. \A i \in 1 .. Len(Flush) : Flush[i].do # "store"
    <3>1. \A i \in 1 .. 3 : i = 1 \/ i = 2 \/ i = 3
      OBVIOUS
    <3> QED BY <3>1, FlushType DEF Step
  <2>7. W \ V = {}
    BY <1>19
  <2> QED BY <1>22, <2>1, <2>3, <2>4, <2>6, <2>7 DEF Changed
<1>24. Kept(V, W)'
  <2>1. SlotChange(fat1, fat', V, Vol(V), cwd, node, Deleted, W, Mem(V, W)') /\ fat' \in Table
    BY <1>11, <1>14, <1>20
  <2>2. orig' \in V \cap W /\ Ordered(todo', 3) /\ 3 >= 3
    BY <1>3, <1>6, <1>19, <1>21, <1>22
  <2> QED BY <1>1, <1>2, <1>4, <1>23, <2>1, <2>2, ChangeKept
<1>25. W \in SUBSET Starts
  BY <1>20 DEF SlotChange
<1> QED
  BY <1>24, <1>25

-----------------------------------------------------------------------------
(* The device writes of a command, one by one.                              *)

\* The last step of a list is that of the rest.
LEMMA LastOfTail ==
    ASSUME NEW t \in Seq(Steps), t # <<>>, Tail(t) # <<>>
    PROVE  Last(Tail(t)) = Last(t)
BY DEF Last

\* A device write in the middle of a flush: the command goes on with the rest.
Amidst(k) ==
    /\ InOrder(k) /\ Ordered(todo', k - 1) /\ k > 1
    /\ todo # <<>> /\ todo' = Tail(todo) /\ todo' # <<>> /\ Last(todo') = Last(todo)
    /\ mounted /\ mounted' = mounted /\ fat' = fat /\ cwd' = cwd /\ nodes' = nodes
    /\ node' = node /\ cmd' = cmd /\ orig' = orig /\ torn' = torn
    /\ Writing /\ Writing'

\* A device write of a flush leaves a list that is one shorter: k says which write it was.
LEMMA AmidstStep ==
    ASSUME CacheInv, FlushFat1 \/ FlushFat2 \/ Store
    PROVE  \E k \in Nat : /\ Amidst(k)
                          /\ FlushFat1 => k = 3
                          /\ FlushFat2 => k = 2
                          /\ Store => k > 3 /\ Head(todo) \in Stores
<1>1. /\ todo # <<>> /\ Proceed(Tail(todo), node)
      /\ mounted' = mounted /\ fat' = fat /\ cwd' = cwd /\ nodes' = nodes /\ torn' = torn
      /\ FlushFat1 => Head(todo).do = "fat1"
      /\ FlushFat2 => Head(todo).do = "fat2"
      /\ Store => Head(todo).do = "store"
  BY DEF FlushFat1, FlushFat2, Store, Next1, Idle, memory
<1>2. PICK k \in Nat : InOrder(k)
  BY DEF CacheInv
<1>3. Ordered(todo, k)
  BY <1>2 DEF InOrder
<1>4. /\ FlushFat1 => k = 3
      /\ FlushFat2 => k = 2
      /\ Store => k > 3 /\ Head(todo) \in Stores
  BY <1>1, <1>3, OrderedKind
<1>5. k > 1
  BY <1>4
<1>6. Ordered(Tail(todo), k - 1)
  BY <1>1, <1>3, <1>5, OrderedTail
<1>7. todo \in Seq(Steps) /\ Len(Tail(todo)) # 0
  BY <1>3, <1>5, <1>6 DEF Ordered
<1>8. Tail(todo) # <<>>
  <2>1. PICK u : u = Tail(todo)
    OBVIOUS
  <2>2. u = <<>> => Len(u) = 0
    OBVIOUS
  <2> QED BY <1>7, <2>1, <2>2
<1>9. Last(Tail(todo)) = Last(todo)
  BY <1>1, <1>7, <1>8, LastOfTail
<1>10. todo' = Tail(todo) /\ node' = node /\ cmd' = cmd /\ orig' = orig
  BY <1>1, <1>8 DEF Proceed
<1>11. mounted
  BY <1>1 DEF CacheInv, MemoryTyped
<1>12. Writing
  BY <1>2, <1>5, WritingPlace
<1>13. Writing'
  <2>1. k - 1 # 0 /\ k - 1 > 0
    BY <1>5
  <2>2. \/ Head(todo').do \in {"dir", "fat2", "fat1"}
        \/ Head(todo') \in Stores
    BY <1>6, <1>8, <1>10, <2>1, OrderedHead
  <2>3. \A x \in Stores : x.do = "store"
    BY DEF Stores
  <2> QED BY <1>8, <1>10, <2>2, <2>3 DEF Writing, WriteKinds
<1>14. Amidst(k)
  BY <1>1, <1>2, <1>5, <1>6, <1>8, <1>9, <1>10, <1>11, <1>12, <1>13 DEF Amidst
<1> QED
  BY <1>4, <1>14

\* The directories of the volume are not written, and those just made at most with what
\* they begin with.
Spared(V, M) ==
    /\ \A c \in V : Region(c)' = Region(c)
    /\ root' = root
    /\ IF Head(todo).do = "store" THEN data' = [data EXCEPT ![Head(todo).at] = Head(todo).contents]
       ELSE data' = data

\* What is Changed in memory stays so while the writes of a flush are made.
LEMMA ChangeCarried ==
    ASSUME CacheInv, NEW k, Amidst(k), NEW V, NEW M \in SUBSET Starts, Changed(V, M), cwd \in V,
           RootCluster \in V, Spared(V, M)
    PROVE  Changed(V, M)'
<1>1. /\ todo # <<>> /\ todo' = Tail(todo) /\ Last(todo') = Last(todo)
      /\ fat' = fat /\ cwd' = cwd /\ nodes' = nodes /\ node' = node /\ cmd' = cmd
  BY DEF Amidst
<1>2. todo \in Seq(Steps) /\ Head(todo) = todo[1] /\ 1 \in 1 .. Len(todo)
  BY <1>1, StepsTyped
<1>3. PICK R : R = Region(cwd)
  OBVIOUS
<1>4. Region(cwd)' = R
  <2>1. \A c : c = cwd => Region(c)' = Region(cwd)'
    BY <1>1 DEF Region
  <2> QED BY <1>3, <2>1 DEF Spared
<1>5. \A op : Owing(op)' <=> Owing(op)
  BY <1>1 DEF Owing
<1>6. Removing' <=> Removing
  BY <1>1, <1>3, <1>4, <1>5 DEF Removing
<1>8. /\ \A i \in SlotSet : i # node => nodes[i] = R[i]
      /\ node # 0 => NodeChange(R[node], nodes[node])
  BY <1>3 DEF Changed
<1>9. node' # 0 => NodeChange(R[node], nodes[node])'
  BY <1>1, <1>8, <1>5 DEF NodeChange
<1>10. ASSUME NEW c \in M \ V
       PROVE  data'[c] = Dots(c) \/ Head(todo') = [do |-> "store", at |-> c, contents |-> Dots(c)]
  <2>1. c \in Clusters
    BY <1>10 DEF Starts
  <2>2. c \in DOMAIN data
    <3>1. c + 0 \in DeviceClusters /\ c + 0 = c
      <4>1. 0 \in 0 .. DirSpan - 1
        BY Spans
      <4> QED BY <2>1, <4>1, RegionInDevice DEF Clusters
    <3> QED BY <3>1 DEF CacheInv, VolumeTyped
  <2>3. \/ data[c] = Dots(c)
        \/ Head(todo) = [do |-> "store", at |-> c, contents |-> Dots(c)]
    BY <1>10 DEF Changed
  <2>4. CASE Head(todo).do # "store"
    BY <2>3, <2>4 DEF Spared
  <2>5. CASE Head(todo).do = "store"
    <3>1. data' = [data EXCEPT ![Head(todo).at] = Head(todo).contents]
      BY <2>5 DEF Spared
    <3>2. CASE Head(todo).at = c
      <4>1. c \in Rows(c)
        BY <2>1, Spans DEF Rows, Clusters
      <4>2. Head(todo).contents = Dots(c)
        BY <1>2, <1>10, <2>5, <3>2, <4>1 DEF Changed
      <4> QED BY <2>2, <3>1, <3>2, <4>2
    <3>3. CASE Head(todo).at # c
      BY <2>2, <2>3, <3>1, <3>3
    <3> QED BY <3>2, <3>3
  <2> QED BY <2>4, <2>5
<1>11. ASSUME NEW i \in 1 .. Len(todo'), todo'[i].do = "store"
       PROVE  /\ todo'[i].at \notin Held(V) \cup {RootCluster}
              /\ \A c \in M \ V : todo'[i].at \in Rows(c) => todo'[i].at = c /\ todo'[i].contents = Dots(c)
  <2>1. PICK j \in 1 .. Len(todo) : todo'[i] = todo[j]
    BY <1>1, <1>2, <1>11, TailElements
  <2> QED BY <1>11, <2>1 DEF Changed
<1>12. V \subseteq M \/ Removing'
  BY <1>6 DEF Changed
<1> QED
  BY <1>1, <1>4, <1>8, <1>9, <1>10, <1>11, <1>12 DEF Changed

\* Contents are stored in clusters of no directory of the volume.
LEMMA StoreSpares ==
    ASSUME CacheInv, NEW V, NEW M, Kept(V, M), Store
    PROVE  /\ Head(todo).do = "store" /\ Head(todo) \in Stores
           /\ Head(todo).at \notin Held(V) \cup {RootCluster}
           /\ data' = [data EXCEPT ![Head(todo).at] = Head(todo).contents]
           /\ root' = root /\ fat1' = fat1
           /\ \A c \in V : Region(c)' = Region(c)
           /\ \A c \in (M \cap Clusters) \ V : Fresh(c)' = Fresh(c)
<1>1. PICK k \in Nat : Amidst(k) /\ k > 3 /\ Head(todo) \in Stores
  BY AmidstStep
<1>2. todo # <<>> /\ mounted /\ Writing /\ InOrder(k)
  BY <1>1 DEF Amidst
<1>3. ~Exposed
  BY <1>1, <1>2, WritingPlace
<1>4. Sound(fat1, V, Vol(V)) /\ Changed(V, M)
  BY <1>2, <1>3 DEF Kept
<1>5. /\ Head(todo).do = "store" /\ Head(todo).at \notin Held(V) \cup {RootCluster}
      /\ \A c \in M \ V : Head(todo).at \in Rows(c) => Head(todo).at = c
  <2>1. Head(todo) = todo[1] /\ 1 \in 1 .. Len(todo)
    BY <1>2, StepsTyped
  <2>2. Head(todo).do = "store"
    BY DEF Store, Next1
  <2> QED BY <1>4, <2>1, <2>2 DEF Changed
<1>6. PICK at, contents : at = Head(todo).at /\ contents = Head(todo).contents
  OBVIOUS
<1>7. data' = [data EXCEPT ![at] = contents] /\ root' = root /\ fat1' = fat1
  BY <1>5, <1>6 DEF Store, WriteCluster
<1>8. contents \in ClusterEntries /\ data \in [DeviceClusters -> ClusterEntries]
  BY <1>1, <1>6 DEF Stores, CacheInv, VolumeTyped
<1>9. data' \in [DeviceClusters -> ClusterEntries]
  BY <1>7, <1>8
<1>10. V \subseteq Starts
  BY <1>4 DEF Sound
<1>11. ASSUME NEW c \in V PROVE Region(c)' = Region(c)
  <2>1. CASE c = RootCluster
    BY <1>7, <2>1 DEF Region
  <2>2. CASE c # RootCluster
    <3>1. c \in Clusters
      BY <1>10, <2>2 DEF Starts
    <3>2. at \notin Rows(c)
      BY <1>5, <1>6, <2>2 DEF Held
    <3>3. \A x \in Rows(c) : data'[x] = data[x]
      BY <1>7, <1>8, <3>1, <3>2, RowOnDevice
    <3> QED BY <3>1, <3>3, RowKept
  <2> QED BY <2>1, <2>2
<1>12. ASSUME NEW c \in (M \cap Clusters) \ V PROVE Fresh(c)' = Fresh(c)
  <2>1. at \notin Rows(c) \ {c}
    BY <1>5, <1>6
  <2>2. \A x \in Rows(c) \ {c} : data'[x] = data[x]
    BY <1>7, <1>8, <2>1, RowOnDevice
  <2> QED BY <2>2, FreshKept
<1> QED
  BY <1>1, <1>5, <1>6, <1>7, <1>11, <1>12

\* fat12_write_cluster_data.
LEMMA KeptStore ==
    ASSUME CacheInv, NEW V, NEW M \in SUBSET Starts, Kept(V, M), Store
    PROVE  Kept(V, M)'
<1>1. PICK k \in Nat : Amidst(k) /\ k > 3
  BY AmidstStep
<1>2. mounted /\ Writing /\ InOrder(k)
  BY <1>1 DEF Amidst
<1>3. ~Exposed
  BY <1>1, <1>2, WritingPlace
<1>4. /\ Sound(fat1, V, Vol(V)) /\ Sound(LoadedTable, M, Mem(V, M))
      /\ cwd \in V \cap M /\ orig \in V \cap M /\ Changed(V, M) /\ RootCluster \in V
  BY <1>2, <1>3 DEF Kept, Sound
<1>5. /\ Head(todo).do = "store" /\ root' = root /\ fat1' = fat1
      /\ data' = [data EXCEPT ![Head(todo).at] = Head(todo).contents]
      /\ \A c \in V : Region(c)' = Region(c)
      /\ \A c \in (M \cap Clusters) \ V : Fresh(c)' = Fresh(c)
  BY StoreSpares
<1>6. Spared(V, M)
  BY <1>5 DEF Spared
<1>7. LoadedTable' = LoadedTable /\ cwd' = cwd /\ orig' = orig /\ nodes' = nodes /\ mounted' = mounted
  BY <1>1, <1>5 DEF Amidst, LoadedTable
<1>8. Changed(V, M)'
  BY <1>1, <1>4, <1>6, ChangeCarried
<1>9. Vol(V)' = Vol(V) /\ Mem(V, M)' = Mem(V, M)
  <2>1. M \ V \subseteq (M \cap Clusters) \ V
    BY <1>4 DEF Starts
  <2> QED BY <1>5, <1>7, <2>1 DEF Vol, Mem
<1>10. Sound(fat1, V, Vol(V))' /\ Sound(LoadedTable, M, Mem(V, M))'
  <2>1. Sound(fat1', V, Vol(V)') /\ Sound(LoadedTable', M, Mem(V, M)')
    BY <1>4, <1>5, <1>7, <1>9
  <2> QED BY <2>1 DEF Sound
<1>11. Writing' /\ ~Exposed'
  <2>1. Ordered(todo', k - 1) /\ k - 1 >= 3
    BY <1>1 DEF Amidst
  <2> QED BY <2>1, FlushAhead
<1> QED
  BY <1>4, <1>7, <1>8, <1>10, <1>11 DEF Kept

\* Whether the volume is exposed once the first copy of the table is written.
LEMMA ExposedThen ==
    ASSUME Amidst(3), NEW R, Region(cwd) = R, Region(cwd)' = R, ~Exposed', node # 0,
           R[node].size \in Nat, fat \in Table \cup {NoTable}
    PROVE  /\ ~(Owing("remove") /\ R[node].state = "used")
           /\ Owing("write") /\ fat # NoTable => R[node].size <= Len(Chain(fat, nodes[node].first))
<1>1. /\ todo' # <<>> /\ Ordered(todo', 2) /\ Last(todo') = Last(todo)
      /\ fat' = fat /\ nodes' = nodes /\ node' = node /\ cmd' = cmd
  BY DEF Amidst
<1>2. Head(todo').do = "fat2"
  BY <1>1, OrderedHead
<1>3. \/ Last(todo).do # "dir"
      \/ /\ ~(cmd.op = "remove" /\ R[node].state = "used")
         /\ ~(cmd.op = "write" /\ R[node].size > Len(Chain(fat, nodes[node].first)))
  BY <1>1, <1>2 DEF Exposed, Idle
<1>4. ASSUME Owing("write"), fat # NoTable
      PROVE  R[node].size <= Len(Chain(fat, nodes[node].first))
  <2>1. PICK n : n = Len(Chain(fat, nodes[node].first))
    OBVIOUS
  <2>2. n \in Nat
    BY <1>4, <2>1, ChainType
  <2>3. ~(R[node].size > n)
    BY <1>3, <1>4, <2>1 DEF Owing
  <2>4. PICK m \in Nat : m = R[node].size
    OBVIOUS
  <2> QED BY <2>1, <2>2, <2>3, <2>4
<1> QED
  BY <1>3, <1>4 DEF Owing

\* fat12_flush, the first copy of the table: every entry of the volume has the chain it
\* had or a longer one, unless clusters are given back.
LEMMA KeptFlushFat1 ==
    ASSUME CacheInv, NEW V, NEW M \in SUBSET Starts, Kept(V, M), FlushFat1
    PROVE  Kept(V, M)'
<1>1. Amidst(3)
  BY AmidstStep
<1>2. todo # <<>> /\ mounted /\ Writing /\ InOrder(3)
  BY <1>1 DEF Amidst
<1>3. ~Exposed
  BY <1>2, WritingPlace
<1>4. /\ Sound(fat1, V, Vol(V)) /\ Sound(LoadedTable, M, Mem(V, M))
      /\ cwd \in V \cap M /\ orig \in V \cap M /\ Changed(V, M)
  BY <1>2, <1>3 DEF Kept
<1>5. /\ fat1' = LoadedTable /\ root' = root /\ data' = data /\ Head(todo).do = "fat1"
  BY DEF FlushFat1, Next1, LoadedTable
<1>6. /\ LoadedTable' = LoadedTable /\ cwd' = cwd /\ orig' = orig /\ nodes' = nodes
      /\ mounted' = mounted /\ node' = node
  BY <1>1, <1>5 DEF Amidst, LoadedTable
<1>7. \A c : Region(c)' = Region(c)
  BY <1>5 DEF Region
<1>8. /\ RootCluster \in V /\ V \subseteq Starts /\ cwd \in V
      /\ fat1 \in Table /\ LoadedTable \in Table /\ VolumeTyped /\ fat \in Table \cup {NoTable}
  BY <1>4, LoadedType DEF Sound, CacheInv, MemoryTyped
<1>9. Changed(V, M)'
  <2>1. Spared(V, M)
    BY <1>5, <1>7 DEF Spared
  <2> QED BY <1>1, <1>4, <1>8, <2>1, ChangeCarried
<1>10. Vol(V)' = Vol(V) /\ Mem(V, M)' = Mem(V, M)
  BY <1>6, <1>7 DEF Vol, Mem, Fresh
<1>11. Sound(LoadedTable, M, Mem(V, M))'
  <2>1. Sound(LoadedTable', M, Mem(V, M)')
    BY <1>4, <1>6, <1>10
  <2> QED BY <2>1 DEF Sound
<1>12. ASSUME Exposed' PROVE Begun(V)'
  <2>1. Begun(V)
    BY <1>4, <1>8, SoundBegun
  <2>2. \A c \in V : SubDirs(c)' = SubDirs(c)
    BY <1>7 DEF SubDirs, Children
  <2> QED BY <1>5, <2>1, <2>2 DEF Begun
<1>13. ASSUME ~Exposed' PROVE Sound(fat1, V, Vol(V))'
  <2>1. PICK R : R = Region(cwd)
    OBVIOUS
  <2>2. Region(cwd)' = R /\ Region(cwd) = R
    <3>1. \A c : c = cwd => Region(c)' = Region(cwd)'
      BY <1>6 DEF Region
    <3> QED BY <1>7, <2>1, <3>1
  <2>3. R \in RegionEntries
    BY <1>8, <2>1, RegionType
  <2>4. \A i \in SlotSet : R[i] \in EntrySet /\ R[i].size \in Nat
    <3>1. \A i \in SlotSet : R[i] \in EntrySet
      BY <2>3 DEF RegionEntries, NodeEntry, SlotSet
    <3> QED BY <3>1 DEF EntrySet
  <2>5. node # 0 => node \in SlotSet
    BY Spans DEF CacheInv, MemoryTyped, SlotSet
  <2>6. V \subseteq M
    <3>1. ~Removing
      BY <1>1, <1>8, <1>13, <2>2, <2>4, <2>5, ExposedThen DEF Removing
    <3> QED BY <1>4, <3>1 DEF Changed
  <2>7. PICK G : G = Mem(V, M)
    OBVIOUS
  <2>8. PICK t \in Table : t = LoadedTable
    BY <1>8
  <2>9. \A c \in V : G[c] = IF c = cwd THEN nodes ELSE Region(c)
    BY <2>6, <2>7 DEF Mem
  <2>10. \A c \in V : Vol(V)[c] = Region(c)
    BY DEF Vol
  <2>11. \A c \in V : \A i \in SlotSet : EntrySound(t, M, c, G[c][i])
    BY <1>4, <2>6, <2>7, <2>8 DEF Sound
  <2>12. ASSUME NEW c \in V, NEW i \in SlotSet, Counted(Vol(V)[c][i])
         PROVE  /\ Counted(G[c][i])
                /\ G[c][i].first = Vol(V)[c][i].first /\ G[c][i].dir = Vol(V)[c][i].dir
                /\ Vol(V)[c][i].size <= Len(Chain(t, Vol(V)[c][i].first))
    <3>1. PICK e, f : e = Vol(V)[c][i] /\ f = G[c][i]
      OBVIOUS
    <3>2. CASE f = e
      <4>1. EntrySound(t, M, c, f) /\ Counted(f)
        BY <2>11, <2>12, <3>1, <3>2
      <4>2. f.size <= Len(Chain(t, f.first))
        BY <4>1 DEF EntrySound
      <4> QED BY <3>1, <3>2, <4>1, <4>2
    <3>3. CASE f # e
      <4>1. c = cwd
        BY <2>9, <2>10, <3>1, <3>3
      <4>2. e = R[i] /\ f = nodes[i]
        BY <2>1, <2>9, <2>10, <3>1, <4>1
      <4>3. i = node /\ node # 0
        <5>1. \A j \in SlotSet : j # node => nodes[j] = R[j]
          BY <1>4, <2>1 DEF Changed
        <5>2. i # 0
          BY DEF SlotSet
        <5> QED BY <3>3, <4>2, <5>1, <5>2
      <4>4. NodeChange(e, f)
        BY <1>4, <2>1, <4>2, <4>3 DEF Changed
      <4>5. /\ ~(Owing("remove") /\ R[node].state = "used")
            /\ Owing("write") /\ fat # NoTable => R[node].size <= Len(Chain(fat, nodes[node].first))
        BY <1>1, <1>8, <1>13, <2>2, <2>4, <4>3, ExposedThen
      <4>6. e.state = "used" /\ e \in EntrySet
        BY <2>4, <2>12, <3>1, <4>2 DEF Counted
      <4>7. /\ Owing("write") /\ fat # NoTable /\ f = [e EXCEPT !.size = f.size]
        BY <3>3, <4>2, <4>3, <4>4, <4>5, <4>6 DEF NodeChange
      <4>8. f.state = e.state /\ f.name = e.name /\ f.first = e.first /\ f.dir = e.dir
        BY <4>6, <4>7 DEF EntrySet
      <4>9. t = fat
        BY <2>8, <4>7 DEF LoadedTable
      <4> QED BY <2>12, <3>1, <4>2, <4>3, <4>5, <4>7, <4>8, <4>9 DEF Counted
    <3> QED BY <3>2, <3>3
  <2>13. Sound(t, M, G)
    BY <1>4, <2>7, <2>8
  <2>14. Sound(t, V, Vol(V))
    BY <1>4, <2>6, <2>12, <2>13, OlderEntries
  <2>15. Sound(fat1', V, Vol(V)')
    BY <1>5, <1>10, <2>8, <2>14
  <2> QED BY <2>15 DEF Sound
<1>14. Writing'
  BY <1>1 DEF Amidst
<1> QED
  BY <1>4, <1>6, <1>9, <1>11, <1>12, <1>13, <1>14 DEF Kept

\* fat12_flush, the second copy, which is not read again.
LEMMA KeptFlushFat2 ==
    ASSUME CacheInv, NEW V, NEW M \in SUBSET Starts, Kept(V, M), FlushFat2
    PROVE  Kept(V, M)'
<1>1. Amidst(2)
  BY AmidstStep
<1>2. /\ todo # <<>> /\ mounted /\ Writing /\ Writing' /\ todo' # <<>> /\ Last(todo') = Last(todo)
      /\ fat' = fat /\ cwd' = cwd /\ orig' = orig /\ nodes' = nodes /\ node' = node /\ cmd' = cmd
      /\ mounted' = mounted /\ Ordered(todo', 1)
  BY <1>1 DEF Amidst
<1>3. /\ Sound(LoadedTable, M, Mem(V, M)) /\ cwd \in V \cap M /\ orig \in V \cap M /\ Changed(V, M)
      /\ IF Exposed THEN Begun(V) ELSE Sound(fat1, V, Vol(V))
  BY <1>2 DEF Kept
<1>4. fat1' = fat1 /\ root' = root /\ data' = data /\ Head(todo).do = "fat2"
  BY DEF FlushFat2, Next1
<1>5. LoadedTable' = LoadedTable
  BY <1>2, <1>4 DEF LoadedTable
<1>6. \A c : Region(c)' = Region(c)
  BY <1>4 DEF Region
<1>7. Head(todo').do = "dir"
  BY <1>2, OrderedHead
<1>8. Exposed' <=> Exposed
  <2>1. Region(cwd)' = Region(cwd)
    BY <1>2, <1>4 DEF Region
  <2> QED BY <1>2, <1>4, <1>7, <2>1 DEF Exposed, Idle
<1>9. RootCluster \in V
  BY <1>3 DEF Sound, Begun
<1>10. Changed(V, M)'
  <2>1. Spared(V, M)
    BY <1>4, <1>6 DEF Spared
  <2> QED BY <1>1, <1>3, <1>9, <2>1, ChangeCarried
<1>11. Vol(V)' = Vol(V) /\ Mem(V, M)' = Mem(V, M)
  BY <1>2, <1>6 DEF Vol, Mem, Fresh
<1>12. Sound(LoadedTable, M, Mem(V, M))'
  <2>1. Sound(LoadedTable', M, Mem(V, M)')
    BY <1>3, <1>5, <1>11
  <2> QED BY <2>1 DEF Sound
<1>13. ASSUME Begun(V) PROVE Begun(V)'
  <2>1. \A c \in V : SubDirs(c)' = SubDirs(c)
    BY <1>6 DEF SubDirs, Children
  <2> QED BY <1>4, <1>13, <2>1 DEF Begun
<1>14. ASSUME Sound(fat1, V, Vol(V)) PROVE Sound(fat1, V, Vol(V))'
  <2>1. Sound(fat1', V, Vol(V)')
    BY <1>4, <1>11, <1>14
  <2> QED BY <2>1 DEF Sound
<1>15. IF Exposed' THEN Begun(V)' ELSE Sound(fat1, V, Vol(V))'
  BY <1>3, <1>8, <1>13, <1>14
<1> QED
  BY <1>2, <1>3, <1>10, <1>12, <1>15 DEF Kept

\* Writing the directory at d leaves others that have no cluster in common with it.
LEMMA OthersLeft ==
    ASSUME VolumeTyped, NEW d \in Starts, NEW s, WriteRegion(d, s),
           NEW c \in Starts, c # d,
           c # RootCluster /\ d # RootCluster => Rows(c) \cap Rows(d) = {}
    PROVE  Region(c)' = Region(c) /\ (c # RootCluster => Fresh(c)' = Fresh(c))
<1>1. CASE c = RootCluster
  <2>1. root' = root
    BY <1>1 DEF WriteRegion
  <2> QED BY <1>1, <2>1 DEF Region
<1>2. CASE c # RootCluster
  <2>1. c \in Clusters
    BY <1>2 DEF Starts
  <2>2. \A x \in Rows(c) : data'[x] = data[x]
    <3>1. CASE d = RootCluster
      BY <3>1 DEF WriteRegion
    <3>2. CASE d # RootCluster
      <4>1. data' = [x \in DeviceClusters |->
                        IF x \in Rows(d) THEN Cut(s, x - d + 1) ELSE data[x]]
        BY <3>2 DEF WriteRegion, Rows
      <4> QED BY <1>2, <2>1, <3>2, <4>1, RowOnDevice
    <3> QED BY <3>1, <3>2
  <2> QED BY <2>1, <2>2, RowKept, FreshKept
<1> QED
  BY <1>1, <1>2

\* fat12_flush, the directory: volume and memory agree again.
LEMMA KeptFlushDir ==
    ASSUME CacheInv, CacheInv', NEW V, NEW M \in SUBSET Starts, Kept(V, M), FlushDir
    PROVE  Kept(M, M)'
<1>1. /\ todo # <<>> /\ Head(todo).do = "dir" /\ Proceed(Tail(todo), node)
      /\ WriteRegion(cwd, nodes) /\ fat1' = fat1
      /\ mounted' = mounted /\ fat' = fat /\ cwd' = cwd /\ nodes' = nodes
  BY DEF FlushDir, Next1, Idle, memory
<1>2. mounted /\ nodes \in RegionEntries /\ cwd \in Starts /\ VolumeTyped /\ VolumeTyped'
  BY <1>1 DEF CacheInv, MemoryTyped
<1>3. InOrder(1)
  <2>1. PICK k \in Nat : InOrder(k)
    BY DEF CacheInv
  <2>2. k = 1
    BY <1>1, <2>1, OrderedKind DEF InOrder
  <2> QED BY <2>1, <2>2
<1>4. Ordered(todo', 0)
  <2>1. 1 > 0 /\ 1 - 1 = 0 /\ Ordered(todo, 1)
    BY <1>3 DEF InOrder
  <2>2. Ordered(Tail(todo), 0)
    BY <1>1, <2>1, OrderedTail
  <2> QED BY <1>1, <2>2 DEF Proceed
<1>5. LoadedTable = fat1
  <2>1. Agreed(1)
    BY <1>2, <1>3 DEF InOrder
  <2> QED BY <2>1 DEF Agreed, LoadedTable
<1>6. Writing
  BY <1>3, WritingPlace
<1>7. /\ Sound(fat1, M, Mem(V, M)) /\ cwd \in V \cap M /\ orig \in V \cap M /\ Changed(V, M)
      /\ RootCluster \in V
  BY <1>2, <1>5, <1>6 DEF Kept, Sound, Begun
<1>8. RootCluster \in M /\ fat1 \in Table /\ \A c \in M \ {RootCluster} : Laid(fat1, c)
  BY <1>7 DEF Sound, CacheInv
<1>9. PICK d : d = cwd
  OBVIOUS
<1>10. WriteRegion(d, nodes) /\ d \in Starts /\ d \in V \cap M
  BY <1>1, <1>2, <1>7, <1>9
<1>11. ASSUME NEW c \in M PROVE Region(c)' = Mem(V, M)[c]
  <2>1. CASE c = d
    <3>1. Region(d)' = nodes
      BY <1>2, <1>10, WriteRegionEffect
    <3> QED BY <1>9, <2>1, <3>1 DEF Mem
  <2>2. CASE c # d
    <3>1. c \in Starts /\ (c # RootCluster /\ d # RootCluster => Rows(c) \cap Rows(d) = {})
      BY <1>8, <1>10, <2>2, RowsApart
    <3>2. Region(c)' = Region(c)
      BY <1>2, <1>10, <2>2, <3>1, OthersLeft
    <3>3. CASE c \in V
      BY <1>9, <2>2, <3>2, <3>3 DEF Mem
    <3>4. CASE c \notin V
      <4>1. data[c] = Dots(c)
        BY <1>1, <1>7, <3>4 DEF Changed
      <4>2. c \in Clusters /\ c # RootCluster
        BY <1>7, <3>1, <3>4 DEF Starts
      <4>3. Region(c) = Fresh(c)
        BY <4>1, <4>2, FreshStored
      <4> QED BY <1>9, <2>2, <3>2, <3>4, <4>3 DEF Mem
    <3> QED BY <3>3, <3>4
  <2> QED BY <2>1, <2>2
<1>12. Vol(M)' = Mem(V, M)
  BY <1>11 DEF Vol, Mem
<1>13. Sound(fat1', M, Vol(M)')
  BY <1>1, <1>7, <1>12
<1>14. cwd' \in M /\ orig' \in M /\ mounted'
  BY <1>1, <1>2, <1>7, <1>8 DEF Proceed
<1>15. (~Writing)'
  BY <1>4, RestOrder
<1> QED
  BY <1>13, <1>14, <1>15, Rested

-----------------------------------------------------------------------------
(* The whole of it.                                                         *)

\* Kept after a stuttering step.
LEMMA KeptSame ==
    ASSUME NEW V, NEW M, Kept(V, M), UNCHANGED vars
    PROVE  Kept(V, M)'
<1>1. /\ fat1' = fat1 /\ root' = root /\ data' = data /\ mounted' = mounted /\ fat' = fat
      /\ cwd' = cwd /\ nodes' = nodes /\ cmd' = cmd /\ todo' = todo /\ node' = node /\ orig' = orig
  BY DEF vars, volume, memory
<1>2. /\ \A c : Region(c)' = Region(c)
      /\ Region(cwd)' = Region(cwd)
  BY <1>1 DEF Region
<1>3. Vol(V)' = Vol(V) /\ Mem(V, M)' = Mem(V, M) /\ LoadedTable' = LoadedTable
  BY <1>1, <1>2 DEF Vol, Mem, Fresh, LoadedTable
<1>4. (Exposed' <=> Exposed) /\ (Writing' <=> Writing)
  BY <1>1, <1>2 DEF Exposed, Idle, Writing
<1>5. ASSUME Begun(V) PROVE Begun(V)'
  <2>1. \A c \in V : SubDirs(c)' = SubDirs(c)
    BY <1>2 DEF SubDirs, Children
  <2> QED BY <1>1, <1>5, <2>1 DEF Begun
<1>6. ASSUME Sound(fat1, V, Vol(V)) PROVE Sound(fat1, V, Vol(V))'
  <2>1. Sound(fat1', V, Vol(V)')
    BY <1>1, <1>3, <1>6
  <2> QED BY <2>1 DEF Sound
<1>7. ASSUME Sound(LoadedTable, M, Mem(V, M)) PROVE Sound(LoadedTable, M, Mem(V, M))'
  <2>1. Sound(LoadedTable', M, Mem(V, M)')
    BY <1>3, <1>7
  <2> QED BY <2>1 DEF Sound
<1>8. ASSUME Changed(V, M) PROVE Changed(V, M)'
  <2>1. \A op : Owing(op)' <=> Owing(op)
    BY <1>1 DEF Owing
  <2>2. Removing' <=> Removing
    BY <1>1, <1>2, <2>1 DEF Removing
  <2>3. NodeChange(Region(cwd)[node], nodes[node])' <=> NodeChange(Region(cwd)[node], nodes[node])
    BY <1>1, <1>2, <2>1 DEF NodeChange
  <2> QED BY <1>1, <1>2, <1>3, <1>8, <2>2, <2>3 DEF Changed
<1>9. IF Exposed' THEN Begun(V)' ELSE Sound(fat1, V, Vol(V))'
  BY <1>4, <1>5, <1>6 DEF Kept
<1>10. mounted' => /\ Sound(LoadedTable, M, Mem(V, M))'
                   /\ {cwd', orig'} \subseteq V \cap M
                   /\ IF Writing' THEN Changed(V, M)' ELSE M = V
  BY <1>1, <1>4, <1>7, <1>8 DEF Kept
<1> QED
  BY <1>9, <1>10 DEF Kept

LEMMA MisplacedStays ==
    ASSUME misplaced, [Next]_vars, ~Reinitialise
    PROVE  misplaced'
<1>1. CASE Mount \/ Command
  BY <1>1 DEF Mount, Command, TouchFile, ReadFile, WriteFile, RemoveFile, Cd, Mkdir, Begin
<1>2. CASE CreateNode
  BY <1>2 DEF CreateNode, Misplace
<1>3. CASE Advance /\ ~CreateNode
  BY <1>3 DEF Advance, Lookup, FlushFat1, FlushFat2, FlushDir, Resize, Store, Fetch, Drop, GiveUp,
     ToRoot, Enter, Descend, IntoNew, Back, Load
<1>4. CASE Unmount \/ Fail
  BY <1>4 DEF Unmount, Fail, Exhausted, NullTable, NullNode, AssertionFails, Kill, Stop
<1>5. CASE UNCHANGED vars
  BY <1>5 DEF vars
<1> QED
  BY <1>1, <1>2, <1>3, <1>4, <1>5 DEF Next

\* A kill in the wrong place, or a directory in one, is not undone but by formatting the
\* volume.
LEMMA SpoiltStays ==
    ASSUME Spoilt, [Next]_vars, ~Reinitialise, torn \in BOOLEAN, misplaced \in BOOLEAN
    PROVE  Spoilt'
<1>1. CASE Mount \/ Command \/ CreateNode
  BY <1>1 DEF Mount, Command, TouchFile, ReadFile, WriteFile, RemoveFile, Cd, Mkdir, Begin, CreateNode,
     Misplace, Spoilt
<1>2. CASE Advance /\ ~CreateNode
  BY <1>2 DEF Advance, Lookup, FlushFat1, FlushFat2, FlushDir, Resize, Store, Fetch, Drop, GiveUp,
     ToRoot, Enter, Descend, IntoNew, Back, Load, Spoilt
<1>3. CASE Unmount \/ Fail
  BY <1>3 DEF Unmount, Fail, Exhausted, NullTable, NullNode, AssertionFails, Kill, Stop, Spoilt
<1>4. CASE UNCHANGED vars
  BY <1>4 DEF vars, Spoilt
<1> QED
  BY <1>1, <1>2, <1>3, <1>4 DEF Next

\* What the induction carries along.
VolumeInv == Aimed /\ KeptInv

\* Every step keeps the directories whole, or spoils the volume.
LEMMA KeptNext ==
    ASSUME PlainNames, CacheInv, CacheInv', VolumeInv, misplaced \in BOOLEAN, [Next]_vars
    PROVE  KeptInv'
<1>1. CASE Spoilt
  <2>1. CASE Reinitialise
    <3>1. Kept({RootCluster}, {RootCluster})'
      BY <2>1, KeptReinitialise
    <3> QED BY <3>1 DEF KeptInv, Starts
  <2>2. CASE ~Reinitialise
    BY <1>1, <2>2, SpoiltStays DEF KeptInv, CacheInv, MemoryTyped
  <2> QED BY <2>1, <2>2
<1>2. CASE ~Spoilt
  <2>1. PICK V, M \in SUBSET Starts : Kept(V, M)
    BY <1>2 DEF VolumeInv, KeptInv
  <2> SUFFICES ASSUME ~torn', ~misplaced' PROVE \E W, N \in SUBSET Starts : Kept(W, N)'
    BY DEF KeptInv, Spoilt
  <2>2. CASE Mount
    BY <2>1, <2>2, KeptMount DEF VolumeInv
  <2>3. CASE Unmount \/ Fail
    <3>1. Stop
      BY <2>3 DEF Unmount, Fail, Exhausted, NullTable, NullNode, AssertionFails, Kill
    <3> QED BY <2>1, <3>1, KeptStop
  <2>4. CASE Reinitialise
    BY <1>2, <2>4 DEF Reinitialise, Spoilt
  <2>5. CASE Command
    BY <2>1, <2>5, KeptCommand
  <2>6. CASE Lookup
    BY <2>1, <2>6, KeptLookup
  <2>7. CASE CreateNode
    BY <2>1, <2>7, KeptCreate
  <2>8. CASE FlushFat1
    BY <2>1, <2>8, KeptFlushFat1
  <2>9. CASE FlushFat2
    BY <2>1, <2>9, KeptFlushFat2
  <2>10. CASE FlushDir
    BY <2>1, <2>10, KeptFlushDir
  <2>11. CASE Resize
    BY <2>1, <2>11, KeptResize DEF VolumeInv
  <2>12. CASE Store
    BY <2>1, <2>12, KeptStore
  <2>13. CASE Drop
    BY <2>1, <2>13, KeptDrop DEF VolumeInv
  <2>14. CASE Fetch \/ GiveUp \/ ToRoot \/ Enter \/ Descend \/ IntoNew \/ Back
    BY <2>1, <2>14, KeptMove
  <2>15. CASE UNCHANGED vars
    BY <2>1, <2>15, KeptSame
  <2> QED BY <2>2, <2>3, <2>4, <2>5, <2>6, <2>7, <2>8, <2>9, <2>10, <2>11, <2>12, <2>13, <2>14, <2>15
          DEF Next, Advance
<1> QED
  BY <1>1, <1>2

\* The invariant that the theorems about the volume come from.
LEMMA VolumeInvHolds ==
    ASSUME PlainNames
    PROVE  Spec => [](CacheInv /\ VolumeInv)
<1>1. Init => VolumeInv
  <2> SUFFICES ASSUME Init PROVE VolumeInv
    OBVIOUS
  <2>1. Kept({RootCluster}, {RootCluster})
    BY KeptInit
  <2>2. KeptInv
    BY <2>1 DEF KeptInv, Starts
  <2>3. todo = <<>> /\ cmd = NoCmd /\ orig = RootCluster
    BY DEF Init
  <2>4. ~Doing(<<>>, "resize") /\ ~Doing(<<>>, "drop") /\ \A j \in 1 .. Len(<<>>) : FALSE
    BY DEF Doing
  <2>5. Aimed
    BY <2>3, <2>4 DEF Aimed, Targets, NoCmd
  <2> QED BY <2>2, <2>5 DEF VolumeInv
<1>2. CacheInv /\ VolumeInv /\ CacheInv' /\ misplaced \in BOOLEAN /\ [Next]_vars => VolumeInv'
  <2>1. ASSUME CacheInv, VolumeInv, CacheInv', misplaced \in BOOLEAN, [Next]_vars PROVE VolumeInv'
    <3>1. KeptInv'
      BY <2>1, KeptNext
    <3>2. Aimed'
      BY <2>1, AimNext DEF VolumeInv
    <3> QED BY <3>1, <3>2 DEF VolumeInv
  <2> QED BY <2>1
<1> QED
  BY <1>1, <1>2, InitInv, StepInv, MisplacedType, PTL DEF Spec

\* At every moment, between any two device writes of any command (fat12_flush,
\* fat12_write_cluster_data), every entry of the volume has an ended chain, long enough and
\* of its own, but in the window of a command that gives clusters back.  Directories have
\* any number of clusters; a volume is given up once a directory is made where it cannot
\* be read as one (Placed).
THEOREM VolumeAlwaysWhole ==
    ASSUME PlainNames
    PROVE  Spec => []VolumeWhole
<1>1. CacheInv /\ VolumeInv => VolumeWhole
  <2> SUFFICES ASSUME CacheInv, KeptInv, ~Spoilt, ~Exposed PROVE Whole
    BY DEF VolumeWhole, VolumeInv
  <2>1. PICK V, M \in SUBSET Starts : Kept(V, M)
    BY DEF KeptInv
  <2>2. Sound(fat1, V, Vol(V))
    BY <2>1 DEF Kept
  <2> QED BY <2>2, SoundIsWhole DEF CacheInv
<1> QED
  BY <1>1, VolumeInvHolds, PTL

\* At every moment, each directory that the root directory leads to starts with . and ..
\* (fat12_create_directory_node writes them before it links it), and its chain is the row of
\* clusters that fat12_load_directory reads as the directory, but in the window of a command
\* that gives clusters back.  It is so from its making on if it was made Placed, whatever is
\* removed, written and made around it.
THEOREM DirectoriesAlwaysBegun ==
    ASSUME PlainNames
    PROVE  Spec => []DirectoriesBegun
<1>1. CacheInv /\ VolumeInv => DirectoriesBegun
  <2> SUFFICES ASSUME CacheInv, KeptInv, ~Spoilt PROVE DirectoriesBegun
    BY DEF DirectoriesBegun, VolumeInv
  <2>1. PICK V, M \in SUBSET Starts : Kept(V, M)
    BY DEF KeptInv
  <2>2. Begun(V)
    BY <2>1, SoundBegun DEF Kept, CacheInv
  <2>3. TreeDirs \subseteq V
    BY <2>2, TreeWithin
  <2>4. Exposed \/ \A c \in V \ {RootCluster} : Chain(fat1, c) = Row(c)
    BY <2>1 DEF Kept, Sound, Laid
  <2> QED BY <2>2, <2>3, <2>4 DEF Begun, DirectoriesBegun
<1> QED
  BY <1>1, VolumeInvHolds, PTL

-----------------------------------------------------------------------------
(* The working directory.                                                   *)

\* What the tree is in terms of its directories: the least set that has the root directory
\* and their subdirectories.
TreeClosed ==
    /\ RootCluster \in TreeDirs /\ TreeDirs \subseteq Starts
    /\ \A c \in TreeDirs : SubDirs(c) \subseteq TreeDirs

TreeLeast ==
    \A V : RootCluster \in V /\ (\A c \in V : SubDirs(c) \subseteq V) => TreeDirs \subseteq V

\* TreeLeast holds in every state.
LEMMA TreeIsLeast == TreeLeast
<1> SUFFICES ASSUME NEW V, RootCluster \in V, \A c \in V : SubDirs(c) \subseteq V
             PROVE  TreeDirs \subseteq V
  BY DEF TreeLeast
<1>1. PICK g \in [0 .. LastCluster -> SUBSET V] : IsLevels(g)
  BY TreeLevels
<1>2. LastCluster \in 0 .. LastCluster
  BY LastClusterAssumption
<1> QED
  BY <1>1, <1>2 DEF IsLevels

\* As many levels as there are clusters reach every directory.
LEMMA TreeIsClosed == VolumeTyped => TreeClosed
<1> SUFFICES ASSUME VolumeTyped PROVE TreeClosed
  OBVIOUS
<1>1. LastCluster \in Nat
  BY LastClusterAssumption
<1>2. \A c \in Starts : SubDirs(c) \subseteq Starts
  <2> SUFFICES ASSUME NEW c \in Starts, NEW i \in Children(c), Region(c)[i].dir
               PROVE  Region(c)[i].first \in Starts
    BY DEF SubDirs
  <2>1. Region(c) \in RegionEntries
    BY RegionType
  <2>2. Region(c)[i] \in NodeEntry
    BY <2>1 DEF RegionEntries, Children
  <2> QED BY <2>2 DEF NodeEntry, Starts
<1>3. RootCluster \in Starts
  BY DEF Starts
<1>4. PICK g \in [0 .. LastCluster -> SUBSET Starts] : IsLevels(g)
  BY <1>2, <1>3, TreeLevels
<1>5. /\ g[0] = {RootCluster} /\ TreeDirs = g[LastCluster]
      /\ \A k \in 0 .. LastCluster - 1 : g[k + 1] = Below(g[k])
  <2>1. \A k \in 0 .. LastCluster - 1 : k + 1 \in 1 .. LastCluster /\ (k + 1) - 1 = k
    BY <1>1
  <2> QED BY <1>4, <2>1 DEF IsLevels
<1>6. IsFiniteSet(Starts) /\ Cardinality(Starts) <= LastCluster
  <2>1. IsFiniteSet(Clusters) /\ Cardinality(Clusters) = IF 2 > LastCluster THEN 0 ELSE LastCluster - 2 + 1
    BY <1>1, FS_Interval DEF Clusters
  <2>2. RootCluster \notin Clusters
    BY Marks
  <2>3. Starts = Clusters \cup {RootCluster}
    BY DEF Starts
  <2>4. IsFiniteSet(Starts) /\ Cardinality(Starts) = Cardinality(Clusters) + 1
    BY <2>1, <2>2, <2>3, FS_AddElement
  <2>5. LastCluster >= 2
    BY LastClusterAssumption
  <2> QED BY <1>1, <2>1, <2>4, <2>5
<1>7. PICK T : T = {k \in 0 .. LastCluster : Below(g[k]) = g[k] \/ Cardinality(g[k]) >= k + 1}
  OBVIOUS
<1>8. \A k \in 0 .. LastCluster : IsFiniteSet(g[k]) /\ Cardinality(g[k]) \in Nat
  BY <1>6, FS_Subset, FS_CardinalityType
<1>9. LastCluster \in T
  <2>1. 0 \in T
    <3>1. PICK n : n = Cardinality(g[0])
      OBVIOUS
    <3>2. n = 1
      BY <1>5, <3>1, FS_Singleton
    <3>3. n >= 0 + 1 /\ 0 \in 0 .. LastCluster
      BY <1>1, <3>2
    <3> QED BY <1>7, <3>1, <3>3
  <2>2. ASSUME NEW k \in 0 .. LastCluster - 1, k \in T PROVE k + 1 \in T
    <3>1. k \in 0 .. LastCluster /\ k + 1 \in 0 .. LastCluster /\ k \in Nat
      BY <1>1
    <3>2. g[k + 1] = Below(g[k])
      BY <1>5
    <3>3. CASE Below(g[k]) = g[k]
      BY <1>7, <3>1, <3>2, <3>3
    <3>4. CASE Below(g[k]) # g[k]
      <4>1. Cardinality(g[k]) >= k + 1
        BY <1>7, <2>2, <3>4
      <4>2. g[k] \subseteq g[k + 1] /\ g[k] # g[k + 1]
        BY <3>2, <3>4 DEF Below
      <4>3. PICK A, B : A = g[k] /\ B = g[k + 1]
        OBVIOUS
      <4>4. IsFiniteSet(A) /\ IsFiniteSet(B) /\ A \subseteq B /\ A # B
        BY <1>8, <3>1, <4>2, <4>3
      <4>5. Cardinality(A) \in Nat /\ Cardinality(B) \in Nat /\ Cardinality(A) < Cardinality(B)
        BY <4>4, FS_Subset, FS_CardinalityType
      <4>6. Cardinality(B) >= (k + 1) + 1
        BY <3>1, <4>1, <4>3, <4>5
      <4> QED BY <1>7, <3>1, <4>3, <4>6
    <3> QED BY <3>3, <3>4
  <2>3. 0 .. LastCluster \subseteq T
    BY <1>1, <2>1, <2>2, UpTo
  <2> QED BY <1>1, <2>3
<1>10. Below(TreeDirs) = TreeDirs
  <2>1. LastCluster \in 0 .. LastCluster /\ g[LastCluster] \subseteq Starts
    BY <1>1, <1>4
  <2>2. Cardinality(g[LastCluster]) <= Cardinality(Starts)
    BY <1>6, <2>1, FS_Subset
  <2>3. ~(Cardinality(g[LastCluster]) >= LastCluster + 1)
    <3>1. PICK m \in Nat : m = Cardinality(g[LastCluster])
      BY <1>8, <2>1
    <3>2. PICK n \in Nat : n = Cardinality(Starts)
      BY <1>6, FS_CardinalityType
    <3> QED BY <1>1, <1>6, <2>2, <3>1, <3>2
  <2> QED BY <1>5, <1>7, <1>9, <2>3
<1>11. RootCluster \in TreeDirs /\ TreeDirs \subseteq Starts
  <2>1. TreeDirs \subseteq Starts
    BY <1>1, <1>4, <1>5
  <2>2. RootCluster \in TreeDirs
    <3>1. PICK U : U = {k \in 0 .. LastCluster : RootCluster \in g[k]}
      OBVIOUS
    <3>2. 0 \in U
      BY <1>1, <1>5, <3>1
    <3>3. ASSUME NEW k \in 0 .. LastCluster - 1, k \in U PROVE k + 1 \in U
      <4>1. k + 1 \in 0 .. LastCluster
        BY <1>1
      <4> QED BY <1>5, <3>1, <3>3, <4>1 DEF Below
    <3>4. 0 .. LastCluster \subseteq U
      BY <1>1, <3>2, <3>3, UpTo
    <3> QED BY <1>1, <1>5, <3>1, <3>4
  <2> QED BY <2>1, <2>2
<1>12. \A c \in TreeDirs : SubDirs(c) \subseteq TreeDirs
  BY <1>10 DEF Below
<1> QED
  BY <1>11, <1>12 DEF TreeClosed

\* The same of the next state.
LEMMA NextTree ==
    TreeLeast' /\ (VolumeTyped' => TreeClosed')
BY TreeIsLeast, TreeIsClosed, PTL

\* Where no directory of the tree loses one, none is lost from the tree; and one that alone
\* changes stays in it.
LEMMA TreeStays ==
    ASSUME VolumeTyped, VolumeTyped', NEW d \in TreeDirs,
           \A c \in TreeDirs \ {d} : SubDirs(c)' = SubDirs(c)
    PROVE  d \in TreeDirs' /\ (SubDirs(d) \subseteq SubDirs(d)' => TreeDirs \subseteq TreeDirs')
<1>1. TreeClosed /\ TreeClosed' /\ TreeLeast
  BY TreeIsClosed, TreeIsLeast, NextTree
<1>2. PICK T, S : T = TreeDirs' /\ S = TreeDirs \cap TreeDirs'
  OBVIOUS
<1>3. RootCluster \in T /\ RootCluster \in S
  BY <1>1, <1>2 DEF TreeClosed
<1>4. ASSUME NEW c \in S, c # d \/ SubDirs(d) \subseteq SubDirs(d)'
      PROVE  SubDirs(c) \subseteq S
  <2>1. SubDirs(c) \subseteq TreeDirs
    BY <1>1, <1>2 DEF TreeClosed
  <2>2. SubDirs(c) \subseteq SubDirs(c)'
    BY <1>2, <1>4
  <2>3. SubDirs(c)' \subseteq TreeDirs'
    BY <1>1, <1>2 DEF TreeClosed
  <2> QED BY <1>2, <2>1, <2>2, <2>3
<1>5. ASSUME d \notin T \/ SubDirs(d) \subseteq SubDirs(d)'
      PROVE  TreeDirs \subseteq S
  <2>1. \A c \in S : SubDirs(c) \subseteq S
    BY <1>2, <1>4, <1>5
  <2> QED BY <1>1, <1>3, <2>1 DEF TreeLeast
<1> QED
  BY <1>2, <1>5

\* Directories that keep their subdirectories stay in the tree.
LEMMA TreeSame ==
    ASSUME VolumeTyped, VolumeTyped', \A c \in TreeDirs : SubDirs(c)' = SubDirs(c)
    PROVE  TreeDirs \subseteq TreeDirs'
<1>1. RootCluster \in TreeDirs
  BY TreeIsClosed DEF TreeClosed
<1> QED
  BY <1>1, TreeStays

\* A process that runs is on a volume in one piece, in a directory of it.
TreeInv == mounted => ~torn /\ cwd \in TreeDirs /\ orig \in TreeDirs

\* In one piece it is in any case.
InsideInv == (mounted => ~torn) /\ (misplaced \/ TreeInv)

\* Steps that leave the volume, and go nowhere.
LEMMA TreeRests ==
    ASSUME CacheInv, CacheInv', TreeInv, mounted, UNCHANGED volume, torn' = torn,
           cwd' \in TreeDirs, orig' \in TreeDirs
    PROVE  TreeInv'
<1>1. \A c : SubDirs(c)' = SubDirs(c)
  BY SameRegions DEF SubDirs, Children
<1>2. TreeDirs \subseteq TreeDirs'
  BY <1>1, TreeSame DEF CacheInv
<1> QED
  BY <1>2 DEF TreeInv

\* A command begins in the directory it may come back to.
LEMMA TreeCommand ==
    ASSUME CacheInv, CacheInv', TreeInv, Command
    PROVE  TreeInv'
<1>1. mounted /\ UNCHANGED volume /\ torn' = torn /\ cwd' = cwd /\ orig' = cwd
  BY DEF Command, TouchFile, ReadFile, WriteFile, RemoveFile, Cd, Mkdir, Begin, memory
<1> QED
  BY <1>1, TreeRests DEF TreeInv

\* Steps of a command that stay where they are.
LEMMA TreeStep ==
    ASSUME CacheInv, CacheInv', TreeInv,
           Lookup \/ CreateNode \/ Resize \/ Fetch \/ Drop \/ GiveUp
    PROVE  TreeInv'
<1>1. /\ todo # <<>> /\ UNCHANGED volume /\ torn' = torn /\ cwd' = cwd
      /\ orig' \in {orig, RootCluster}
  BY DEF Lookup, CreateNode, Resize, Fetch, Drop, GiveUp, Next1, Idle, memory, Proceed
<1>2. mounted /\ RootCluster \in TreeDirs
  BY <1>1, TreeIsClosed DEF CacheInv, MemoryTyped, TreeClosed
<1> QED
  BY <1>1, <1>2, TreeRests DEF TreeInv

\* What is entered is a directory of the tree.
LEMMA TreeFound ==
    ASSUME CacheInv, TreeInv, mounted, ~Writing, NEW V, NEW M, Kept(V, M), node # 0, nodes[node].dir
    PROVE  nodes[node].first \in TreeDirs
<1>1. Sound(fat1, V, Vol(V)) /\ nodes = Region(cwd) /\ cwd \in V
  BY AtEase
<1>2. node \in SlotSet
  BY Spans DEF CacheInv, MemoryTyped, SlotSet
<1>3. PICK e : e = nodes[node]
  OBVIOUS
<1>4. Vol(V)[cwd][node] = e
  BY <1>1, <1>3 DEF Vol
<1>5. EntrySound(fat1, V, cwd, e)
  BY <1>1, <1>2, <1>4 DEF Sound
<1>6. cwd \in TreeDirs /\ RootCluster \in TreeDirs /\ SubDirs(cwd) \subseteq TreeDirs
  BY TreeIsClosed DEF TreeClosed, TreeInv, CacheInv
<1>7. CASE Dotted(e)
  BY <1>3, <1>5, <1>6, <1>7 DEF EntrySound
<1>8. CASE ~Dotted(e)
  <2>1. Counted(e)
    BY <1>3, <1>5, <1>8 DEF EntrySound, Dotted, Counted
  <2>2. node \in Children(cwd)
    <3>1. DOMAIN Region(cwd) = SlotSet
      BY <1>1, SubDirsInside DEF CacheInv
    <3> QED BY <1>1, <1>2, <1>3, <2>1, <3>1 DEF Children, Counted
  <2>3. e.first \in SubDirs(cwd)
    BY <1>1, <1>3, <2>2 DEF SubDirs
  <2> QED BY <1>3, <1>6, <2>3
<1> QED
  BY <1>7, <1>8

\* cd and mkdir go to directories of the tree.
LEMMA TreeMove ==
    ASSUME CacheInv, CacheInv', TreeInv, NEW V, NEW M, Kept(V, M),
           ToRoot \/ Enter \/ Descend \/ IntoNew \/ Back
    PROVE  TreeInv'
<1>1. /\ todo # <<>> /\ Head(todo).do \in {"root", "enter", "descend", "into", "back"}
      /\ UNCHANGED volume /\ torn' = torn /\ orig' \in {orig, RootCluster}
  BY DEF ToRoot, Enter, Descend, IntoNew, Back, Load, Next1, Idle, Proceed
<1>2. mounted /\ InOrder(0) /\ ~Writing
  BY <1>1, NoWrites DEF Writing, WriteKinds
<1>3. cwd \in TreeDirs /\ orig \in TreeDirs /\ RootCluster \in TreeDirs
  BY <1>2, TreeIsClosed DEF TreeClosed, TreeInv, CacheInv
<1>4. cwd' \in {cwd, orig, RootCluster} \/ (cwd' = nodes[node].first /\ node # 0 /\ nodes[node].dir)
  <2>1. CASE IntoNew
    <3>1. 0 < Len(todo) /\ todo[0 + 1].do = "into"
      BY <1>1, <2>1, StepsTyped DEF IntoNew, Next1
    <3>2. node # 0 /\ nodes[node].dir
      BY <1>2, <3>1 DEF InOrder, PlaceKnown
    <3> QED BY <2>1, <3>2 DEF IntoNew, Load
  <2>2. CASE ~IntoNew
    BY <2>2 DEF ToRoot, Enter, Descend, Back, Load, FoundDir, memory
  <2> QED BY <2>1, <2>2
<1>5. cwd' \in TreeDirs
  BY <1>2, <1>3, <1>4, TreeFound
<1> QED
  BY <1>1, <1>2, <1>3, <1>5, TreeRests
\* Writes that spare the directories of the volume leave the tree.
LEMMA TreeSpared ==
    ASSUME CacheInv, CacheInv', TreeInv, NEW V, NEW M \in SUBSET Starts, Kept(V, M),
           Store \/ FlushFat1 \/ FlushFat2
    PROVE  TreeInv'
<1>1. PICK k \in Nat : Amidst(k) /\ (Store => k > 3)
  BY AmidstStep
<1>2. /\ todo # <<>> /\ mounted /\ Writing /\ InOrder(k) /\ torn' = torn /\ cwd' = cwd /\ orig' = orig
  BY <1>1 DEF Amidst
<1>3. Begun(V) /\ V \subseteq Starts /\ VolumeTyped /\ VolumeTyped'
  BY SoundBegun DEF Kept, CacheInv, Begun
<1>4. TreeDirs \subseteq V
  BY <1>3, TreeWithin
<1>5. ASSUME NEW c \in V PROVE Region(c)' = Region(c)
  <2>1. CASE FlushFat1 \/ FlushFat2
    BY <2>1 DEF FlushFat1, FlushFat2, Region
  <2>2. CASE Store
    BY <1>3, <2>2, StoreSpares
  <2> QED BY <2>1, <2>2
<1>6. \A c \in TreeDirs : SubDirs(c)' = SubDirs(c)
  BY <1>4, <1>5 DEF SubDirs, Children
<1>7. TreeDirs \subseteq TreeDirs'
  BY <1>3, <1>6, TreeSame
<1> QED
  BY <1>2, <1>7 DEF TreeInv

\* The directory is written: it has the subdirectories it had, or it is the one from which
\* a directory is removed, and the command goes nowhere else.
LEMMA TreeFlushed ==
    ASSUME CacheInv, CacheInv', Aimed, TreeInv, NEW V, NEW M \in SUBSET Starts, Kept(V, M), FlushDir
    PROVE  TreeInv'
<1>1. /\ todo # <<>> /\ Head(todo).do = "dir" /\ Proceed(Tail(todo), node)
      /\ WriteRegion(cwd, nodes) /\ cwd' = cwd /\ torn' = torn
  BY DEF FlushDir, Next1, Idle, memory
<1>2. mounted /\ nodes \in RegionEntries /\ cwd \in Starts /\ VolumeTyped /\ VolumeTyped'
  BY <1>1 DEF CacheInv, MemoryTyped
<1>3. Begun(V) /\ Changed(V, M) /\ cwd \in V
  <2>1. Writing
    BY <1>1 DEF Writing, WriteKinds
  <2> QED BY <1>2, <2>1, SoundBegun DEF Kept, CacheInv
<1>4. /\ TreeDirs \subseteq V /\ V \subseteq Starts
      /\ \A b, c \in V \ {RootCluster} : b # c => Rows(b) \cap Rows(c) = {}
  BY <1>3, TreeWithin DEF Begun
<1>5. PICK d : d = cwd
  OBVIOUS
<1>6. WriteRegion(d, nodes) /\ d \in Starts /\ d \in V /\ d \in TreeDirs /\ orig \in TreeDirs /\ ~torn
  BY <1>1, <1>2, <1>3, <1>5 DEF TreeInv
<1>7. \A c \in TreeDirs \ {d} : SubDirs(c)' = SubDirs(c)
  <2>1. ASSUME NEW c \in TreeDirs \ {d} PROVE Region(c)' = Region(c)
    <3>1. c \in Starts /\ c # d
      BY <1>4, <1>6
    <3>2. c # RootCluster /\ d # RootCluster => Rows(c) \cap Rows(d) = {}
      BY <1>4, <1>6, <2>1
    <3> QED BY <1>2, <1>6, <3>1, <3>2, OthersLeft
  <2> QED BY <2>1 DEF SubDirs, Children
<1>8. d \in TreeDirs' /\ (SubDirs(d) \subseteq SubDirs(d)' => TreeDirs \subseteq TreeDirs')
  BY <1>2, <1>6, <1>7, TreeStays
<1>9. RootCluster \in TreeDirs'
  BY <1>2, NextTree DEF TreeClosed
<1>10. orig' \in {orig, RootCluster}
  BY <1>1 DEF Proceed
<1>11. CASE Owing("remove")
  <2>1. orig = cwd
    BY <1>1, <1>11 DEF Aimed, Moving, Owing
  <2> QED BY <1>1, <1>5, <1>6, <1>8, <1>9, <1>10, <2>1 DEF TreeInv
<1>12. CASE ~Owing("remove")
  <2>1. PICK R : R = Region(d)
    OBVIOUS
  <2>2. Region(d)' = nodes
    BY <1>2, <1>6, WriteRegionEffect
  <2>3. R \in RegionEntries
    BY <1>2, <1>6, <2>1, RegionType
  <2>4. ASSUME NEW i \in SlotSet, R[i].state = "used"
        PROVE  nodes[i].state = "used" /\ nodes[i].name = R[i].name /\ nodes[i].dir = R[i].dir
               /\ nodes[i].first = R[i].first
    <3>1. CASE i # node
      BY <1>3, <1>5, <2>1, <2>4, <3>1 DEF Changed
    <3>2. CASE i = node
      <4>1. i # 0
        BY DEF SlotSet
      <4>2. NodeChange(R[i], nodes[i])
        BY <1>3, <1>5, <2>1, <3>2, <4>1 DEF Changed
      <4>3. nodes[i] = R[i] \/ nodes[i] = [R[i] EXCEPT !.size = nodes[i].size]
        BY <1>12, <2>4, <4>2 DEF NodeChange
      <4>4. R[i] \in EntrySet
        BY <2>3 DEF RegionEntries, NodeEntry, SlotSet
      <4>5. PICK e, f : e = R[i] /\ f = nodes[i]
        OBVIOUS
      <4> QED BY <2>4, <4>3, <4>4, <4>5 DEF EntrySet
    <3> QED BY <3>1, <3>2
  <2>5. DOMAIN R = SlotSet /\ DOMAIN nodes = SlotSet
    BY <1>2, <2>3 DEF RegionEntries, SlotSet
  <2>6. SubDirs(d) \subseteq SubDirs(d)'
    <3>1. SubDirs(d) = {R[i].first : i \in {j \in SlotSet :
              R[j].state = "used" /\ R[j].name \notin {".", ".."} /\ R[j].dir}}
      BY <2>1, <2>5 DEF SubDirs, Children
    <3>2. SubDirs(d)' = {nodes[i].first : i \in {j \in SlotSet :
              nodes[j].state = "used" /\ nodes[j].name \notin {".", ".."} /\ nodes[j].dir}}
      BY <2>2, <2>5 DEF SubDirs, Children
    <3> QED BY <2>4, <3>1, <3>2
  <2> QED BY <1>1, <1>5, <1>6, <1>8, <1>9, <1>10, <2>6 DEF TreeInv
<1> QED
  BY <1>11, <1>12

\* Every step keeps what is current in the tree.
LEMMA TreeNext ==
    ASSUME CacheInv, CacheInv', VolumeInv, TreeInv, ~misplaced, [Next]_vars
    PROVE  TreeInv'
<1>1. CASE Mount
  <2>1. orig' = RootCluster /\ cwd' = RootCluster /\ torn' = torn /\ ~torn
    BY <1>1 DEF Mount, VolumeInv, Aimed, CacheInv, MemoryTyped
  <2>2. RootCluster \in TreeDirs'
    BY NextTree DEF CacheInv, TreeClosed
  <2> QED BY <2>1, <2>2 DEF TreeInv
<1>2. CASE Unmount \/ Fail
  BY <1>2 DEF Unmount, Fail, Exhausted, NullTable, NullNode, AssertionFails, Kill, Stop, Forget, TreeInv
<1>3. CASE Reinitialise
  BY <1>3 DEF Reinitialise, memory, TreeInv
<1>4. CASE Command
  BY <1>4, TreeCommand
<1>5. CASE Advance
  <2>1. todo # <<>>
    BY <1>5 DEF Advance, Lookup, CreateNode, FlushFat1, FlushFat2, FlushDir, Resize, Store, Fetch, Drop,
       GiveUp, ToRoot, Enter, Descend, IntoNew, Back, Next1, Idle
  <2>2. mounted /\ ~torn
    BY <2>1 DEF CacheInv, MemoryTyped, TreeInv
  <2>3. PICK V, M \in SUBSET Starts : Kept(V, M)
    BY <2>2 DEF VolumeInv, KeptInv, Spoilt
  <2>4. CASE Lookup \/ CreateNode \/ Resize \/ Fetch \/ Drop \/ GiveUp
    BY <2>4, TreeStep
  <2>5. CASE ToRoot \/ Enter \/ Descend \/ IntoNew \/ Back
    BY <2>3, <2>5, TreeMove
  <2>6. CASE Store \/ FlushFat1 \/ FlushFat2
    BY <2>3, <2>6, TreeSpared
  <2>7. CASE FlushDir
    BY <2>3, <2>7, TreeFlushed DEF VolumeInv
  <2> QED BY <1>5, <2>4, <2>5, <2>6, <2>7 DEF Advance
<1>6. CASE UNCHANGED vars
  <2>1. UNCHANGED volume /\ mounted' = mounted /\ torn' = torn /\ cwd' = cwd /\ orig' = orig
    BY <1>6 DEF vars, memory
  <2>2. CASE mounted
    BY <2>1, <2>2, TreeRests DEF TreeInv
  <2>3. CASE ~mounted
    BY <2>1, <2>3 DEF TreeInv
  <2> QED BY <2>2, <2>3
<1> QED
  BY <1>1, <1>2, <1>3, <1>4, <1>5, <1>6 DEF Next

\* A running process is on a volume in one piece, and in its tree as long as no directory was
\* made in a wrong place.
LEMMA InsideNext ==
    ASSUME CacheInv, CacheInv', VolumeInv, InsideInv, misplaced \in BOOLEAN, [Next]_vars
    PROVE  InsideInv'
<1>1. mounted' => ~torn'
  <2>1. CASE Mount \/ Command \/ CreateNode
    BY <2>1 DEF Mount, Command, TouchFile, ReadFile, WriteFile, RemoveFile, Cd, Mkdir, Begin, memory,
       CreateNode, InsideInv
  <2>2. CASE Advance /\ ~CreateNode
    BY <2>2 DEF Advance, Lookup, FlushFat1, FlushFat2, FlushDir, Resize, Store, Fetch, Drop, GiveUp,
       ToRoot, Enter, Descend, IntoNew, Back, Load, memory, InsideInv
  <2>3. CASE Unmount \/ Fail \/ Reinitialise
    BY <2>3 DEF Unmount, Fail, Exhausted, NullTable, NullNode, AssertionFails, Kill, Stop, Forget,
       Reinitialise, memory
  <2>4. CASE UNCHANGED vars
    BY <2>4 DEF vars, memory, InsideInv
  <2> QED BY <2>1, <2>2, <2>3, <2>4 DEF Next
<1>2. CASE misplaced
  <2>1. CASE Reinitialise
    BY <2>1 DEF Reinitialise, memory, TreeInv, InsideInv
  <2>2. CASE ~Reinitialise
    BY <1>1, <1>2, <2>2, MisplacedStays DEF InsideInv
  <2> QED BY <2>1, <2>2
<1>3. CASE ~misplaced
  BY <1>1, <1>3, TreeNext DEF InsideInv
<1> QED
  BY <1>2, <1>3

\* While the process runs, the working directory, and the one a cd or mkdir set out from,
\* can be found from the root directory (fat12_load_directory loads no others), whatever is
\* made, removed or killed on the way, as long as every directory was made Placed.
THEOREM AlwaysInsideTree ==
    ASSUME PlainNames
    PROVE  Spec => []InsideTree
<1>1. Init => InsideInv
  BY DEF Init, TreeInv, InsideInv
<1>2. CacheInv /\ VolumeInv /\ misplaced \in BOOLEAN /\ InsideInv /\ CacheInv' /\ [Next]_vars
         => InsideInv'
  BY InsideNext
<1>3. InsideInv => InsideTree
  BY DEF InsideInv, TreeInv, InsideTree, Spoilt
<1> QED
  BY <1>1, <1>2, <1>3, VolumeInvHolds, MisplacedType, PTL DEF Spec

-----------------------------------------------------------------------------
(* Where the names of a path lead.                                          *)

\* Where a name leads to from the directory at d, Eof for nowhere.
Following(d, n) ==
    LET i == IF d = Eof THEN 0 ELSE StoredAt(d, n)
    IN  IF i # 0 /\ Region(d)[i].dir THEN Region(d)[i].first ELSE Eof

\* The places names lead to one after the other, from c.
Leads(g, c, names) ==
    /\ g \in [0 .. Len(names) -> Starts \cup {Eof}]
    /\ g[0] = c
    /\ \A k \in 1 .. Len(names) : g[k] = Following(g[k - 1], names[k])

\* A name leads to a directory or nowhere.
LEMMA FollowingType ==
    ASSUME VolumeTyped, NEW d \in Starts \cup {Eof}, NEW n
    PROVE  Following(d, n) \in Starts \cup {Eof}
<1> DEFINE i == IF d = Eof THEN 0 ELSE StoredAt(d, n)
<1> SUFFICES ASSUME i # 0, Region(d)[i].dir PROVE Region(d)[i].first \in Starts
  BY DEF Following
<1>1. d \in Starts
  OBVIOUS
<1>2. Region(d) \in RegionEntries
  BY <1>1, RegionType
<1>3. i = StoredAt(d, n)
  OBVIOUS
<1> DEFINE slots == Region(d)
           ends == {j \in DOMAIN slots : slots[j].state = "unused" \/ Matches(slots[j], n)}
<1>4. i = IF ends # {} /\ Matches(slots[Min(ends)], n) THEN Min(ends) ELSE 0
  BY <1>3 DEF StoredAt
<1>5. ends \in SUBSET Nat
  BY <1>2, Spans DEF RegionEntries
<1>6. ends \subseteq DOMAIN slots
  OBVIOUS
<1> HIDE DEF ends, i
<1>7. i \in DOMAIN slots
  BY <1>4, <1>5, <1>6, MinFacts
<1>8. slots[i] \in NodeEntry
  BY <1>2, <1>7 DEF RegionEntries
<1> QED
  BY <1>8 DEF NodeEntry, Starts

\* A path leads somewhere, one name after the other, and Resolve says where it ends.
LEMMA PathLeads ==
    ASSUME VolumeTyped, NEW c \in Starts, NEW names, Len(names) \in Nat
    PROVE  /\ \E g : Leads(g, c, names)
           /\ \A g : Leads(g, c, names) => g[Len(names)] = Resolve(c, names)
<1> DEFINE N == Len(names)
           S == Starts \cup {Eof}
           walked(w) == [k \in 0 .. N |->
              IF k = 0 THEN c
              ELSE LET d == w[k - 1]
                       i == IF d = Eof THEN 0 ELSE StoredAt(d, names[k])
                   IN  IF i # 0 /\ Region(d)[i].dir THEN Region(d)[i].first ELSE Eof]
           step == [k \in 1 .. N |-> [d \in S |-> Following(d, names[k])]]
<1>1. N \in Nat /\ c \in S
  OBVIOUS
<1>2. step \in [1 .. N -> [S -> S]]
  BY FollowingType
<1>3. PICK g : g \in Stepwise(S, N, c, step)
  <2> HIDE DEF S, N, step
  <2> QED BY <1>1, <1>2, StepByStep
<1>4. Leads(g, c, names)
  <2>1. /\ g \in [0 .. N -> S] /\ g[0] = c
        /\ \A k \in 1 .. N : g[k] = step[k][g[k - 1]]
    BY <1>3 DEF Stepwise
  <2>2. ASSUME NEW k \in 1 .. N PROVE g[k] = Following(g[k - 1], names[k])
    <3>1. k - 1 \in 0 .. N
      BY <1>1
    <3>2. g[k - 1] \in S
      BY <2>1, <3>1
    <3>3. step[k][g[k - 1]] = Following(g[k - 1], names[k])
      BY <3>2
    <3> QED BY <2>1, <3>3
  <2> QED BY <2>1, <2>2 DEF Leads
<1>5. ASSUME NEW h, Leads(h, c, names) PROVE h = walked(h)
  <2>1. h \in [0 .. N -> S] /\ h[0] = c /\ \A k \in 1 .. N : h[k] = Following(h[k - 1], names[k])
    BY <1>5 DEF Leads
  <2>2. ASSUME NEW k \in 0 .. N PROVE h[k] = walked(h)[k]
    <3>1. k = 0 \/ k \in 1 .. N
      BY <1>1
    <3> QED BY <2>1, <3>1 DEF Following
  <2> QED BY <2>1, <2>2
<1>6. PICK w : w = walked(w) /\ Resolve(c, names) = w[N]
  BY <1>4, <1>5 DEF Resolve
<1>7. ASSUME NEW h, Leads(h, c, names) PROVE h[N] = w[N]
  <2>1. h = walked(h)
    BY <1>5, <1>7
  <2> DEFINE T == {k \in 0 .. N : h[k] = w[k]}
  <2>2. 0 \in T
    BY <1>1, <1>6, <2>1
  <2>3. ASSUME NEW k \in 0 .. N - 1, k \in T PROVE k + 1 \in T
    <3>1. k + 1 \in 0 .. N /\ k + 1 # 0 /\ (k + 1) - 1 = k
      BY <1>1
    <3>2. h[k] = w[k]
      BY <2>3
    <3>3. h[k + 1] = Following(h[k], names[k + 1])
      BY <1>7, <3>1 DEF Leads
    <3>4. w[k + 1] = Following(w[k], names[k + 1])
      BY <1>6, <3>1 DEF Following
    <3> QED BY <3>1, <3>2, <3>3, <3>4
  <2>4. 0 .. N \subseteq T
    <3> HIDE DEF T, N
    <3> QED BY <1>1, <2>2, <2>3, UpTo
  <2> QED BY <1>1, <2>4
<1> QED
  BY <1>4, <1>6, <1>7

\* From nowhere a path leads nowhere.
LEMMA LeadsNowhere ==
    ASSUME NEW g, NEW c, NEW names, Len(names) \in Nat, Leads(g, c, names),
           NEW j \in 0 .. Len(names), g[j] = Eof
    PROVE  g[Len(names)] = Eof
<1> DEFINE N == Len(names)
           T == {k \in j .. N : g[k] = Eof}
<1>1. j \in T /\ j \in Nat /\ N \in Nat
  OBVIOUS
<1>2. ASSUME NEW k \in j .. N - 1, k \in T PROVE k + 1 \in T
  <2>1. k + 1 \in 1 .. N /\ (k + 1) - 1 = k /\ k + 1 \in j .. N
    BY <1>1
  <2>2. g[k + 1] = Following(g[k], names[k + 1])
    BY <2>1 DEF Leads
  <2> QED BY <1>2, <2>1, <2>2 DEF Following
<1>3. j .. N \subseteq T
  <2> HIDE DEF T, N
  <2> QED BY <1>1, <1>2, UpTo
<1> QED
  BY <1>1, <1>3

\* In a directory in memory as the volume has it, the scan ends where a name is stored; where
\* it is not, no directory is found.
LEMMA ScanFollows ==
    ASSUME VolumeTyped, NEW c \in Starts, NEW s, s = Region(c), NEW n, NEW i, i = ScanIn(s, n)
    PROVE  /\ i # 0 /\ s[i].dir => Following(c, n) = s[i].first
           /\ ~(i # 0 /\ s[i].dir) => Following(c, n) = Eof
<1> DEFINE ends == {j \in DOMAIN s : s[j].state = "unused" \/ Matches(s[j], n)}
<1>1. s \in RegionEntries /\ c # Eof
  BY RegionType, Marks DEF Starts, Eof, RootCluster
<1>2. ends \in SUBSET Nat /\ ends \subseteq DOMAIN s
  BY <1>1, Spans DEF RegionEntries
<1>3. i = IF ends = {} THEN 0 ELSE Min(ends)
  BY DEF ScanIn
<1>4. StoredAt(c, n) = IF ends # {} /\ Matches(s[Min(ends)], n) THEN Min(ends) ELSE 0
  BY DEF StoredAt
<1>5. \A j \in ends : s[j].state = "unused" \/ Matches(s[j], n)
  OBVIOUS
<1> HIDE DEF ends
<1>6. ends # {} => Min(ends) \in ends /\ Min(ends) # 0 /\ s[Min(ends)] \in NodeEntry
  <2>1. ends # {} => Min(ends) \in ends
    BY <1>2, MinFacts
  <2>2. 0 \notin DOMAIN s /\ \A j \in DOMAIN s : s[j] \in NodeEntry
    BY <1>1, Spans DEF RegionEntries
  <2> QED BY <1>2, <2>1, <2>2
<1>7. ends # {} /\ s[Min(ends)].dir => Matches(s[Min(ends)], n)
  BY <1>5, <1>6 DEF NodeEntry
<1>8. i # 0 /\ s[i].dir => StoredAt(c, n) = i
  BY <1>3, <1>4, <1>6, <1>7
<1>9. ~(i # 0 /\ s[i].dir) => StoredAt(c, n) = 0 \/ ~s[StoredAt(c, n)].dir
  BY <1>3, <1>4, <1>6
<1> QED
  BY <1>1, <1>8, <1>9 DEF Following

\* A directory written as the volume has it changes nothing.
LEMMA WriteSame ==
    ASSUME VolumeTyped, NEW c \in Starts, WriteRegion(c, Region(c))
    PROVE  root' = root /\ data' = data
<1>1. CASE c = RootCluster
  BY <1>1 DEF WriteRegion, Region
<1>2. CASE c # RootCluster
  <2>1. c \in Clusters /\ c \in Nat
    BY <1>2 DEF Starts, Clusters
  <2>2. PICK s : s = Region(c)
    OBVIOUS
  <2>3. s \in RegionEntries
    BY <2>2, RegionType
  <2>4. /\ root' = root
        /\ data' = [x \in DeviceClusters |->
                       IF x \in c .. (c + DirSpan - 1) THEN Cut(s, x - c + 1) ELSE data[x]]
    BY <1>2, <2>2 DEF WriteRegion
  <2>5. ASSUME NEW x \in c .. (c + DirSpan - 1), x \in DeviceClusters PROVE Cut(s, x - c + 1) = data[x]
    <3>1. PICK k : k = x - c
      OBVIOUS
    <3>2. k \in 0 .. DirSpan - 1 /\ c + k = x
      BY <2>1, <3>1, Spans
    <3>3. /\ Cut(s, k + 1) \in ClusterEntries
          /\ \A j \in 1 .. SlotsPerCluster : Cut(s, k + 1)[j] = s[(k * SlotsPerCluster) + j]
      BY <2>3, <3>2, CutFacts
    <3>4. data[x] \in ClusterEntries
      BY <2>5 DEF VolumeTyped
    <3>5. ASSUME NEW j \in 1 .. SlotsPerCluster PROVE s[(k * SlotsPerCluster) + j] = data[x][j]
      <4>1. PICK i : i = (k * SlotsPerCluster) + j
        OBVIOUS
      <4>2. /\ i \in 1 .. Slots(DirSpan)
            /\ (i - 1) \div SlotsPerCluster = k /\ ((i - 1) % SlotsPerCluster) + 1 = j
        <5>1. /\ SlotsPerCluster \in Nat /\ SlotsPerCluster >= 2 /\ DirSpan \in Nat /\ k \in Nat /\ j \in Nat
              /\ j >= 1 /\ j <= SlotsPerCluster
          BY <3>2, <3>5, Spans
        <5>2. (k + 1) * SlotsPerCluster <= DirSpan * SlotsPerCluster
          BY <3>2, <5>1
        <5>3. (k + 1) * SlotsPerCluster = (k * SlotsPerCluster) + SlotsPerCluster /\ k * SlotsPerCluster \in Nat
          BY <5>1
        <5>4. i \in 1 .. Slots(DirSpan)
          BY <4>1, <5>1, <5>2, <5>3 DEF Slots
        <5>5. LET q == (i - 1) \div SlotsPerCluster
                  r == ((i - 1) % SlotsPerCluster) + 1
              IN  q \in 0 .. DirSpan - 1 /\ r \in 1 .. SlotsPerCluster /\ i = (q * SlotsPerCluster) + r
          BY <5>4, SlotPlace
        <5>6. ASSUME NEW q \in Nat, NEW r \in 1 .. SlotsPerCluster, (q * SlotsPerCluster) + r = (k * SlotsPerCluster) + j
              PROVE  q = k /\ r = j
          <6>1. CASE q < k
            <7>1. (q + 1) * SlotsPerCluster <= k * SlotsPerCluster
              BY <5>1, <5>6, <6>1
            <7>2. (q + 1) * SlotsPerCluster = (q * SlotsPerCluster) + SlotsPerCluster /\ q * SlotsPerCluster \in Nat
              BY <5>1, <5>6
            <7> QED BY <5>1, <5>3, <5>6, <7>1, <7>2
          <6>2. CASE q > k
            <7>1. (k + 1) * SlotsPerCluster <= q * SlotsPerCluster
              BY <5>1, <5>6, <6>2
            <7>2. q * SlotsPerCluster \in Nat
              BY <5>1, <5>6
            <7> QED BY <5>1, <5>3, <5>6, <7>1, <7>2
          <6>3. CASE q = k
            BY <5>1, <5>3, <5>6, <6>3
          <6> QED BY <5>1, <5>6, <6>1, <6>2, <6>3
        <5> QED BY <4>1, <5>4, <5>5, <5>6
      <4>3. s[i] = data[c + ((i - 1) \div SlotsPerCluster)][((i - 1) % SlotsPerCluster) + 1]
        BY <1>2, <2>2, <4>2 DEF Region
      <4> QED BY <3>2, <4>1, <4>2, <4>3
    <3>6. PICK f, g : f = Cut(s, k + 1) /\ g = data[x]
      OBVIOUS
    <3>7. f \in ClusterEntries /\ g \in ClusterEntries /\ \A j \in 1 .. SlotsPerCluster : f[j] = g[j]
      BY <3>3, <3>4, <3>5, <3>6
    <3>8. f = g
      <4>1. PICK D : D = 1 .. SlotsPerCluster
        OBVIOUS
      <4>2. f \in [D -> NodeEntry] /\ g \in [D -> NodeEntry] /\ \A j \in D : f[j] = g[j]
        BY <3>7, <4>1 DEF ClusterEntries
      <4> QED BY <4>2
    <3> QED BY <3>1, <3>6, <3>8
  <2>6. data \in [DeviceClusters -> ClusterEntries]
    BY DEF VolumeTyped
  <2> QED BY <2>4, <2>5, <2>6
<1> QED
  BY <1>1, <1>2

-----------------------------------------------------------------------------
(* The way of a cd.                                                         *)

\* The kinds of step each command is made of.
StepsOf(op) ==
    {"get", "fat1", "fat2", "dir"} \cup
        (IF op = "cd" THEN {"root", "enter"}
         ELSE IF op = "mkdir" THEN {"store", "root", "descend", "into", "back"}
         ELSE {"store", "resize", "fetch", "drop"})

EnterStep(n) == [do |-> "enter", name |-> n]

\* The lookups and moves of a cd from component j + 1 on.
Legs(t, names, j) ==
    /\ t \in Seq(Steps) /\ Len(t) = 2 * (Len(names) - j)
    /\ \A i \in 1 .. Len(names) - j :
          t[2 * i - 1] = Get(names[j + i], "none") /\ t[2 * i] = EnterStep(names[j + i])

\* What can be left of the flush a lookup ends with.
FlushLeft == {Flush, <<Step("fat2"), Step("dir")>>, <<Step("dir")>>, <<>>}

\* A cd has come to where component j leads, and looks up or enters the next.
Onward(names, g) ==
    \E j \in 0 .. Len(names) - 1 :
        /\ cwd = g[j]
        /\ \/ Legs(todo, names, j)
           \/ \E t : \E f \in FlushLeft :
                 /\ todo = f \o (<<EnterStep(names[j + 1])>> \o t)
                 /\ Legs(t, names, j + 1)
                 /\ node = ScanIn(nodes, names[j + 1])

\* A path that is at its end at once.
NoName(names) == names[1] = ""

\* A cd is before its first component, or somewhere along its path.
OnWay ==
    LET p     == cmd.path
        start == IF p.is_root THEN RootCluster ELSE orig
    IN  /\ p.names \in Seq(DOMAIN Short) /\ Len(p.names) >= 1
        /\ nodes = Region(cwd)
        /\ \/ p.is_root /\ NoName(p.names) /\ todo = <<Step("root")>>
           \/ /\ ~NoName(p.names)
              /\ \E g : /\ Leads(g, start, p.names)
                        /\ \/ /\ p.is_root
                              /\ \E t : todo = <<Step("root")>> \o t /\ Legs(t, p.names, 0)
                           \/ Onward(p.names, g)

NavInv ==
    todo # <<>> =>
        /\ cmd.op \in {"touch", "write", "read", "remove", "cd", "mkdir"}
        /\ \A i \in 1 .. Len(todo) : todo[i].do \in StepsOf(cmd.op)
        /\ ~Moving => orig = cwd
        /\ cmd.op = "mkdir" => Last(todo).do = "back"
        /\ cmd.op = "cd" => OnWay

\* A command goes on with rest.
LEMMA NavGoes ==
    ASSUME NavInv, todo # <<>>, NEW rest, NEW i, Proceed(rest, i), rest # <<>>,
           \A m \in 1 .. Len(rest) : rest[m].do \in StepsOf(cmd.op),
           Moving \/ cwd' = cwd, cmd.op = "mkdir" => Last(rest).do = "back",
           cmd.op = "cd" => OnWay'
    PROVE  NavInv' /\ cmd' # NoCmd
<1>1. todo' = rest /\ cmd' = cmd /\ orig' = orig
  BY DEF Proceed
<1>2. cmd # NoCmd
  BY DEF NavInv, NoCmd
<1>3. (\A m \in 1 .. Len(todo) : todo[m].do \in StepsOf(cmd.op))'
  BY <1>1
<1>4. Last(todo)' = Last(rest)
  BY <1>1
<1> QED
  BY <1>1, <1>2, <1>3, <1>4 DEF NavInv, Moving

\* A command that is no cd goes on with rest, or is over.
LEMMA OtherGoes ==
    ASSUME NavInv, todo # <<>>, cmd.op # "cd", NEW rest, NEW i, Proceed(rest, i),
           \A m \in 1 .. Len(rest) : rest[m].do \in StepsOf(cmd.op),
           cmd.op # "mkdir" => cwd' = cwd,
           cmd.op = "mkdir" => IF rest = <<>> THEN cwd' = orig ELSE Last(rest).do = "back"
    PROVE  NavInv' /\ (cmd' = NoCmd => cwd' = orig)
<1>1. CASE rest = <<>>
  <2>1. todo' = <<>>
    BY <1>1 DEF Proceed
  <2> QED BY <1>1, <2>1 DEF NavInv, Moving
<1>2. CASE rest # <<>>
  <2>1. Moving \/ cwd' = cwd
    BY DEF Moving
  <2> QED BY <1>2, <2>1, NavGoes
<1> QED
  BY <1>1, <1>2

\* The tail of its steps.
LEMMA TailGoes ==
    ASSUME NavInv, CacheInv, todo # <<>>
    PROVE  /\ Tail(todo) \in Seq(Steps)
           /\ \A m \in 1 .. Len(Tail(todo)) : Tail(todo)[m].do \in StepsOf(cmd.op)
           /\ cmd.op = "mkdir" /\ Tail(todo) # <<>> => Last(Tail(todo)).do = "back"
           /\ cmd.op = "mkdir" /\ Head(todo).do # "back" => Tail(todo) # <<>>
           /\ Head(todo).do \in StepsOf(cmd.op)
<1>1. todo \in Seq(Steps) /\ Head(todo) = todo[1] /\ 1 \in 1 .. Len(todo)
  BY StepsTyped
<1>2. \A m \in 1 .. Len(todo) : todo[m].do \in StepsOf(cmd.op)
  BY DEF NavInv
<1>3. \A m \in 1 .. Len(Tail(todo)) : \E j \in 1 .. Len(todo) : Tail(todo)[m] = todo[j]
  BY <1>1, TailElements
<1>4. Tail(todo) \in Seq(Steps) /\ (Tail(todo) # <<>> => Last(Tail(todo)) = Last(todo))
  BY <1>1, LastOfTail
<1>5. Tail(todo) = <<>> => Last(todo) = Head(todo)
  BY <1>1 DEF Last
<1>6. cmd.op = "mkdir" => Last(todo).do = "back"
  BY DEF NavInv
<1> QED
  BY <1>1, <1>2, <1>3, <1>4, <1>5, <1>6

\* Steps put in front of the rest.
LEMMA FrontGoes ==
    ASSUME NavInv, CacheInv, todo # <<>>, Head(todo).do # "back", NEW S, Steps \subseteq S, NEW p \in Seq(S),
           \A m \in 1 .. Len(p) : p[m].do \in StepsOf(cmd.op)
    PROVE  /\ \A m \in 1 .. Len(p \o Tail(todo)) : (p \o Tail(todo))[m].do \in StepsOf(cmd.op)
           /\ cmd.op = "mkdir" => p \o Tail(todo) # <<>> /\ Last(p \o Tail(todo)).do = "back"
<1>1. PICK r : r = Tail(todo)
  OBVIOUS
<1>2. /\ r \in Seq(Steps) /\ \A m \in 1 .. Len(r) : r[m].do \in StepsOf(cmd.op)
      /\ cmd.op = "mkdir" => r # <<>> /\ Last(r).do = "back"
  BY <1>1, TailGoes
<1>3. r \in Seq(S) /\ Last(r) = r[Len(r)] /\ (r # <<>> => Len(r) # 0)
  BY <1>2 DEF Last
<1>4. /\ \A m \in 1 .. Len(p \o r) :
            \/ m \in 1 .. Len(p) /\ (p \o r)[m] = p[m]
            \/ m - Len(p) \in 1 .. Len(r) /\ (p \o r)[m] = r[m - Len(p)]
      /\ Len(r) # 0 => Last(p \o r) = r[Len(r)] /\ p \o r # <<>>
  BY <1>3, JoinedElements
<1> QED
  BY <1>1, <1>2, <1>3, <1>4

\* A flush is part of any command.
LEMMA FlushOf ==
    ASSUME NEW op
    PROVE  Flush \in Seq(Steps) /\ \A m \in 1 .. Len(Flush) : Flush[m].do \in StepsOf(op)
BY FlushType DEF Flush, Step, StepsOf

\* What is no cd comes back to where it set out from.
LEMMA NavOther ==
    ASSUME CacheInv, NavInv, todo # <<>>, cmd.op # "cd", Advance
    PROVE  NavInv' /\ (cmd' = NoCmd => cwd' = orig)
<1>1. /\ Tail(todo) \in Seq(Steps)
      /\ \A m \in 1 .. Len(Tail(todo)) : Tail(todo)[m].do \in StepsOf(cmd.op)
      /\ cmd.op = "mkdir" /\ Tail(todo) # <<>> => Last(Tail(todo)).do = "back"
      /\ cmd.op = "mkdir" /\ Head(todo).do # "back" => Tail(todo) # <<>>
      /\ Head(todo).do \in StepsOf(cmd.op)
  BY TailGoes
<1>2. CASE Lookup
  <2>1. PICK rest : rest = Flush \o Tail(todo)
    OBVIOUS
  <2>2. Head(todo).do = "get" /\ Proceed(rest, ScanEnd(Head(todo).name)) /\ cwd' = cwd
    BY <1>2, <2>1 DEF Lookup, Next1, memory
  <2>3. /\ \A m \in 1 .. Len(rest) : rest[m].do \in StepsOf(cmd.op)
        /\ cmd.op = "mkdir" => rest # <<>> /\ Last(rest).do = "back"
    BY <2>1, <2>2, FrontGoes, FlushOf
  <2> QED BY <2>2, <2>3, OtherGoes
<1>3. CASE CreateNode
  <2> DEFINE step == Head(todo)
             slot == FirstSlot(step.name)
             first == ReallocateStart(LoadedTable, Eof, ClustersFor(step.make))
             begun == [do |-> "store", at |-> first, contents |-> Dots(first)]
             front == IF step.make = "dir" THEN <<begun>> ELSE <<>>
  <2>1. PICK rest : rest = (front \o Flush) \o Tail(todo)
    OBVIOUS
  <2>2. Head(todo).do = "get" /\ Proceed(rest, slot) /\ cwd' = cwd
    BY <1>3, <2>1 DEF CreateNode, Next1
  <2>3. PICK S : S = Steps \cup {begun}
    OBVIOUS
  <2>4. front \in Seq(S) /\ \A m \in 1 .. Len(front) : front[m].do \in StepsOf(cmd.op)
    <3>1. begun \in S /\ begun.do \in StepsOf(cmd.op)
      BY <2>3 DEF StepsOf
    <3> HIDE DEF begun
    <3>2. <<begun>> \in Seq(S) /\ \A m \in 1 .. Len(<<begun>>) : <<begun>>[m].do \in StepsOf(cmd.op)
      BY <3>1
    <3>3. <<>> \in Seq(S) /\ \A m \in 1 .. Len(<<>>) : <<>>[m].do \in StepsOf(cmd.op)
      OBVIOUS
    <3> QED BY <3>2, <3>3
  <2>5. PICK p : p = front \o Flush
    OBVIOUS
  <2> HIDE DEF front
  <2>6. p \in Seq(S) /\ \A m \in 1 .. Len(p) : p[m].do \in StepsOf(cmd.op)
    <3>1. Flush \in Seq(S) /\ \A m \in 1 .. Len(Flush) : Flush[m].do \in StepsOf(cmd.op)
      BY <2>3, FlushOf
    <3>2. /\ p \in Seq(S)
          /\ \A m \in 1 .. Len(p) : \/ m \in 1 .. Len(front) /\ p[m] = front[m]
                                    \/ m - Len(front) \in 1 .. Len(Flush) /\ p[m] = Flush[m - Len(front)]
      BY <2>4, <2>5, <3>1, JoinedElements
    <3> QED BY <2>4, <3>1, <3>2
  <2>7. Steps \subseteq S
    BY <2>3
  <2>8. /\ \A m \in 1 .. Len(rest) : rest[m].do \in StepsOf(cmd.op)
        /\ cmd.op = "mkdir" => rest # <<>> /\ Last(rest).do = "back"
    BY <2>1, <2>2, <2>5, <2>6, <2>7, FrontGoes
  <2> HIDE DEF slot
  <2> QED BY <2>2, <2>8, OtherGoes
<1>4. CASE FlushFat1 \/ FlushFat2 \/ FlushDir \/ Store
  <2>1. Proceed(Tail(todo), node) /\ cwd' = cwd /\ Head(todo).do # "back"
    BY <1>4 DEF FlushFat1, FlushFat2, FlushDir, Store, Next1, memory
  <2> QED BY <1>1, <2>1, OtherGoes
<1>5. CASE Resize
  <2> DEFINE n == ClustersOf(cmd.len)
             old == nodes[node].first
             table == Reallocate(LoadedTable, old, n)
             first == ReallocateStart(LoadedTable, old, n)
             item(i) == [do |-> "store", at |-> Visited(table, first, i),
                         contents |-> Contents(cmd.name, cmd.len, i)]
  <2>1. PICK s : s = [i \in 1 .. n |-> item(i)]
    OBVIOUS
  <2>2. PICK rest : rest = s \o Flush
    OBVIOUS
  <2>3. Proceed(rest, node) /\ Head(todo).do = "resize" /\ cwd' = cwd
    BY <1>5, <2>1, <2>2 DEF Resize, Next1
  <2>4. cmd.op # "mkdir"
    BY <1>1, <2>3 DEF StepsOf
  <2>5. n \in Nat
    <3>1. 1 \in 1 .. Len(todo) /\ todo[1] = Head(todo)
      BY StepsTyped
    <3> QED BY <2>3, <3>1 DEF CacheInv, CommandTyped, ClustersOf
  <2>6. PICK S : S = Steps \cup {item(i) : i \in 1 .. n}
    OBVIOUS
  <2>7. s \in Seq(S) /\ Len(s) = n /\ \A i \in 1 .. n : s[i].do = "store"
    <3>1. \A i \in 1 .. n : item(i) \in S /\ item(i).do = "store"
      BY <2>6
    <3> HIDE DEF item, n
    <3> QED BY <2>1, <2>5, <3>1, SeqFun
  <2>8. Flush \in Seq(S) /\ \A m \in 1 .. Len(Flush) : Flush[m].do \in StepsOf(cmd.op)
    BY <2>6, FlushOf
  <2>9. \A m \in 1 .. Len(rest) : \/ m \in 1 .. Len(s) /\ rest[m] = s[m]
                                  \/ m - Len(s) \in 1 .. Len(Flush) /\ rest[m] = Flush[m - Len(s)]
    BY <2>2, <2>7, <2>8, JoinedElements
  <2>10. "store" \in StepsOf(cmd.op)
    BY DEF StepsOf
  <2>11. \A m \in 1 .. Len(rest) : rest[m].do \in StepsOf(cmd.op)
    <3> HIDE DEF n
    <3> QED BY <2>7, <2>8, <2>9, <2>10
  <2> QED BY <2>3, <2>4, <2>11, OtherGoes
<1>6. CASE Drop
  <2>1. Proceed(Flush, node) /\ Head(todo).do = "drop" /\ cwd' = cwd
    BY <1>6 DEF Drop, Next1
  <2>2. cmd.op # "mkdir"
    BY <1>1, <2>1 DEF StepsOf
  <2> QED BY <2>1, <2>2, FlushOf, OtherGoes
<1>7. CASE Fetch \/ GiveUp
  <2>1. PICK rest \in {Tail(todo), <<>>} : Proceed(rest, 0)
    BY <1>7 DEF Fetch, GiveUp
  <2>2. Head(todo).do \in {"fetch", "resize", "drop"} /\ cwd' = cwd
    BY <1>7 DEF Fetch, GiveUp, Next1, memory
  <2>3. cmd.op # "mkdir"
    BY <1>1, <2>2 DEF StepsOf
  <2>4. \A m \in 1 .. Len(rest) : rest[m].do \in StepsOf(cmd.op)
    <3>1. rest = <<>> => \A m \in 1 .. Len(rest) : FALSE
      OBVIOUS
    <3>2. rest # <<>> => rest = Tail(todo)
      BY <2>1
    <3> QED BY <1>1, <3>1, <3>2
  <2> QED BY <2>1, <2>2, <2>3, <2>4, OtherGoes
<1>8. CASE ToRoot \/ IntoNew \/ Back
  <2>1. Proceed(Tail(todo), 0) /\ Head(todo).do \in {"root", "into", "back"}
    BY <1>8 DEF ToRoot, IntoNew, Back, Next1
  <2>2. cmd.op = "mkdir"
    BY <1>1, <2>1 DEF StepsOf
  <2>3. Head(todo).do = "back" => cwd' = orig
    BY <1>8 DEF ToRoot, IntoNew, Back, Next1, Load
  <2> QED BY <1>1, <2>1, <2>2, <2>3, OtherGoes
<1>9. CASE Enter
  <2>1. Head(todo).do = "enter"
    BY <1>9 DEF Enter, Next1
  <2> QED BY <1>1, <2>1 DEF StepsOf
<1>10. CASE Descend
  <2>1. Head(todo).do = "descend"
    BY <1>10 DEF Descend, Next1
  <2>2. cmd.op = "mkdir"
    BY <1>1, <2>1 DEF StepsOf
  <2>3. CASE Load(orig) /\ Proceed(<<>>, 0)
    BY <2>2, <2>3, OtherGoes DEF Load
  <2>4. CASE Proceed(Tail(todo), 0)
    BY <1>1, <2>1, <2>2, <2>4, OtherGoes
  <2>5. CASE Proceed(<<Get(Head(todo).name, "dir"), Step("into")>> \o Tail(todo), 0)
    <3>1. PICK p : p = <<Get(Head(todo).name, "dir"), Step("into")>>
      OBVIOUS
    <3>2. PICK S : S = Steps \cup {Get(Head(todo).name, "dir"), Step("into")}
      OBVIOUS
    <3>3. p \in Seq(S) /\ \A m \in 1 .. Len(p) : p[m].do \in StepsOf(cmd.op)
      <4>1. p \in Seq(S) /\ Len(p) = 2 /\ p[1].do = "get" /\ p[2].do = "into"
        BY <3>1, <3>2 DEF Get, Step
      <4>2. \A m \in 1 .. 2 : m = 1 \/ m = 2
        OBVIOUS
      <4> QED BY <2>2, <4>1, <4>2 DEF StepsOf
    <3>4. PICK rest : rest = p \o Tail(todo)
      OBVIOUS
    <3>5. Steps \subseteq S
      BY <3>2
    <3>6. /\ \A m \in 1 .. Len(rest) : rest[m].do \in StepsOf(cmd.op)
          /\ cmd.op = "mkdir" => rest # <<>> /\ Last(rest).do = "back"
      BY <2>1, <3>3, <3>4, <3>5, FrontGoes
    <3>7. Proceed(rest, 0)
      BY <2>5, <3>1, <3>4
    <3> QED BY <2>2, <3>6, <3>7, OtherGoes
  <2> QED BY <1>10, <2>3, <2>4, <2>5 DEF Descend
<1> QED
  BY <1>2, <1>3, <1>4, <1>5, <1>6, <1>7, <1>8, <1>9, <1>10 DEF Advance

\* The first of two lists in a row is gone through first.
LEMMA FrontFirst ==
    ASSUME NEW S, NEW a \in Seq(S), NEW b \in Seq(S), a # <<>>
    PROVE  a \o b # <<>> /\ Head(a \o b) = a[1] /\ Tail(a \o b) = Tail(a) \o b
OBVIOUS

\* The next lookup of a cd, and what is behind it.
LEMMA LegsFirst ==
    ASSUME NEW t, NEW names, NEW N \in Nat, Len(names) = N, NEW j \in 0 .. N - 1, Legs(t, names, j)
    PROVE  /\ t # <<>> /\ Head(t) = Get(names[j + 1], "none")
           /\ \E u : Tail(t) = <<EnterStep(names[j + 1])>> \o u /\ Legs(u, names, j + 1)
<1>1. /\ t \in Seq(Steps) /\ Len(t) = 2 * (N - j) /\ N - j \in Nat /\ N - j >= 1
      /\ \A i \in 1 .. N - j : t[2 * i - 1] = Get(names[j + i], "none") /\ t[2 * i] = EnterStep(names[j + i])
  BY DEF Legs
<1>2. Len(t) >= 2 /\ t # <<>> /\ 1 \in 1 .. N - j
  BY <1>1
<1>3. Head(t) = Get(names[j + 1], "none") /\ t[2] = EnterStep(names[j + 1])
  <2>1. t[2 * 1 - 1] = Get(names[j + 1], "none") /\ t[2 * 1] = EnterStep(names[j + 1])
    BY <1>1, <1>2
  <2> QED BY <1>1, <1>2, <2>1
<1>4. PICK u : u = Tail(Tail(t))
  OBVIOUS
<1>5. /\ u \in Seq(Steps) /\ Len(u) = Len(t) - 2
      /\ \A i \in 1 .. Len(t) - 2 : u[i] = t[i + 2]
  <2>1. PICK r : r = Tail(t)
    OBVIOUS
  <2>2. r \in Seq(Steps) /\ Len(r) = Len(t) - 1 /\ \A i \in 1 .. Len(t) - 1 : r[i] = t[i + 1]
    BY <1>1, <1>2, <2>1, TailFacts
  <2>3. r # <<>>
    BY <1>2, <2>2
  <2>4. u \in Seq(Steps) /\ Len(u) = Len(r) - 1 /\ \A i \in 1 .. Len(r) - 1 : u[i] = r[i + 1]
    BY <1>4, <2>1, <2>2, <2>3, TailFacts
  <2>5. \A i \in 1 .. Len(t) - 2 : i \in 1 .. Len(r) - 1 /\ i + 1 \in 1 .. Len(t) - 1 /\ (i + 1) + 1 = i + 2
    BY <1>1, <2>2
  <2> QED BY <1>1, <2>2, <2>4, <2>5
<1>6. Tail(t) = <<t[2]>> \o u
  BY <1>1, <1>2, <1>5
<1>7. Legs(u, names, j + 1)
  <2>1. Len(u) = 2 * (N - (j + 1))
    BY <1>1, <1>5
  <2>2. ASSUME NEW i \in 1 .. N - (j + 1)
        PROVE  u[2 * i - 1] = Get(names[(j + 1) + i], "none") /\ u[2 * i] = EnterStep(names[(j + 1) + i])
    <3>1. /\ i + 1 \in 1 .. N - j /\ j + (i + 1) = (j + 1) + i
          /\ 2 * (i + 1) - 1 = (2 * i - 1) + 2 /\ 2 * (i + 1) = (2 * i) + 2
          /\ 2 * i - 1 \in 1 .. Len(t) - 2 /\ 2 * i \in 1 .. Len(t) - 2
      BY <1>1
    <3>2. t[2 * (i + 1) - 1] = Get(names[j + (i + 1)], "none") /\ t[2 * (i + 1)] = EnterStep(names[j + (i + 1)])
      BY <1>1, <3>1
    <3>3. u[2 * i - 1] = t[(2 * i - 1) + 2] /\ u[2 * i] = t[(2 * i) + 2]
      BY <1>5, <3>1
    <3> QED BY <3>1, <3>2, <3>3
  <2> QED BY <1>5, <2>1, <2>2 DEF Legs
<1> QED
  BY <1>2, <1>3, <1>6, <1>7

\* Where names lead depends on the volume alone.
LEMMA LeadsKept ==
    ASSUME root' = root, data' = data, NEW g, NEW c, NEW names, Leads(g, c, names)
    PROVE  Leads(g, c, names)'
<1>1. \A d : Region(d)' = Region(d)
  BY DEF Region
<1>2. \A d, n : StoredAt(d, n)' = StoredAt(d, n)
  <2> SUFFICES ASSUME NEW d, NEW n PROVE StoredAt(d, n)' = StoredAt(d, n)
    OBVIOUS
  <2>1. PICK s : s = Region(d)
    OBVIOUS
  <2>2. Region(d)' = s
    BY <1>1, <2>1
  <2>3. PICK ends : ends = {i \in DOMAIN s : s[i].state = "unused" \/ Matches(s[i], n)}
    OBVIOUS
  <2>4. \A e : Matches(e, n)' <=> Matches(e, n)
    BY DEF Matches
  <2>5. ends = {i \in DOMAIN s : s[i].state = "unused" \/ Matches(s[i], n)'}
    BY <2>3, <2>4
  <2>6. StoredAt(d, n) = IF ends # {} /\ Matches(s[Min(ends)], n) THEN Min(ends) ELSE 0
    BY <2>1, <2>3 DEF StoredAt
  <2>7. StoredAt(d, n)' = IF ends # {} /\ Matches(s[Min(ends)], n)' THEN Min(ends) ELSE 0
    BY <2>2, <2>5 DEF StoredAt
  <2> QED BY <2>4, <2>6, <2>7
<1>3. \A d, n : Following(d, n)' = Following(d, n)
  BY <1>1, <1>2 DEF Following
<1> QED
  BY <1>3 DEF Leads

\* A cd goes on along its path.
LEMMA OnWayNext ==
    ASSUME OnWay, ~NoName(cmd.path.names), cmd' = cmd, orig' = orig, root' = root, data' = data,
           nodes' = Region(cwd'),
           NEW g, Leads(g, IF cmd.path.is_root THEN RootCluster ELSE orig, cmd.path.names),
           Onward(cmd.path.names, g)'
    PROVE  OnWay'
<1>1. (nodes = Region(cwd))'
  BY DEF Region
<1>2. Leads(g, IF cmd.path.is_root THEN RootCluster ELSE orig, cmd.path.names)'
  <2>1. PICK c, names : c = (IF cmd.path.is_root THEN RootCluster ELSE orig) /\ names = cmd.path.names
    OBVIOUS
  <2>2. Leads(g, c, names)'
    BY <2>1, LeadsKept
  <2>3. c = (IF cmd.path.is_root THEN RootCluster ELSE orig)' /\ names = cmd.path.names'
    BY <2>1
  <2> QED BY <2>2, <2>3
<1>3. cmd.path' = cmd.path
  OBVIOUS
<1> QED
  BY <1>1, <1>2, <1>3 DEF OnWay

\* Each step but the end of a command says which action is next.
LEMMA ActionOf ==
    ASSUME Advance, todo # <<>>
    PROVE  /\ Head(todo).do = "root" => ToRoot
           /\ Head(todo).do = "get" => Lookup \/ CreateNode
           /\ Head(todo).do = "fat1" => FlushFat1
           /\ Head(todo).do = "fat2" => FlushFat2
           /\ Head(todo).do = "dir" => FlushDir
           /\ Head(todo).do = "enter" => Enter
BY DEF Advance, Lookup, CreateNode, FlushFat1, FlushFat2, FlushDir, Resize, Store, Fetch, Drop,
       GiveUp, ToRoot, Enter, Descend, IntoNew, Back, Next1

\* What a cd at a lookup or before its first knows of the volume.
LEMMA CdKinds ==
    ASSUME NEW rest \in Seq(Steps), NEW f \in FlushLeft, NEW n \in DOMAIN Short
    PROVE  /\ <<EnterStep(n)>> \o rest \in Seq(Steps)
           /\ f \in Seq(Steps)
           /\ f \o (<<EnterStep(n)>> \o rest) # <<>>
           /\ f # <<>> => /\ f[1].do \in {"fat1", "fat2", "dir"}
                          /\ Tail(f) \in FlushLeft
                          /\ Head(f \o (<<EnterStep(n)>> \o rest)) = f[1]
                          /\ Tail(f \o (<<EnterStep(n)>> \o rest)) = Tail(f) \o (<<EnterStep(n)>> \o rest)
           /\ f = <<>> => /\ Head(f \o (<<EnterStep(n)>> \o rest)) = EnterStep(n)
                          /\ Tail(f \o (<<EnterStep(n)>> \o rest)) = rest
<1>1. EnterStep(n) \in Steps
  BY DEF EnterStep, Steps, Moves
<1>2. PICK e : e = EnterStep(n)
  OBVIOUS
<1>3. PICK r : r = <<e>> \o rest
  OBVIOUS
<1>4. r \in Seq(Steps) /\ r # <<>> /\ Head(r) = e /\ Tail(r) = rest
  BY <1>1, <1>2, <1>3
<1>5. /\ f \in Seq(Steps)
      /\ f # <<>> => f[1].do \in {"fat1", "fat2", "dir"} /\ Tail(f) \in FlushLeft
  <2>1. Step("fat1") \in Steps /\ Step("fat2") \in Steps /\ Step("dir") \in Steps
    BY DEF Step, Steps, Writes
  <2>2. PICK x, y, z : x = Step("fat1") /\ y = Step("fat2") /\ z = Step("dir")
    OBVIOUS
  <2>3. x.do = "fat1" /\ y.do = "fat2" /\ z.do = "dir"
    BY <2>2 DEF Step
  <2>4. FlushLeft = {<<x, y, z>>, <<y, z>>, <<z>>, <<>>}
    BY <2>2 DEF FlushLeft, Flush
  <2>5. CASE f = <<x, y, z>>
    BY <2>1, <2>2, <2>3, <2>4, <2>5
  <2>6. CASE f = <<y, z>>
    BY <2>1, <2>2, <2>3, <2>4, <2>6
  <2>7. CASE f = <<z>>
    BY <2>1, <2>2, <2>3, <2>4, <2>7
  <2>8. CASE f = <<>>
    BY <2>8
  <2> QED BY <2>4, <2>5, <2>6, <2>7, <2>8
<1>6. f # <<>> => f \o r # <<>> /\ Head(f \o r) = f[1] /\ Tail(f \o r) = Tail(f) \o r
  BY <1>4, <1>5, FrontFirst
<1>7. f = <<>> => f \o r = r
  BY <1>4
<1> QED
  BY <1>2, <1>3, <1>4, <1>5, <1>6, <1>7

\* Where a cd that ends leaves the working directory.
Arrived ==
    cwd' = IF Destination(cmd.path) # Eof THEN Destination(cmd.path) ELSE orig

\* The destination of a path is where its names lead.
LEMMA Destined ==
    ASSUME CacheInv, cmd.op = "cd", OnWay
    PROVE  LET p     == cmd.path
               start == IF p.is_root THEN RootCluster ELSE orig
           IN  /\ start \in Starts /\ start # Eof /\ Len(p.names) \in Nat
               /\ NoName(p.names) => Destination(p) = start
               /\ ~NoName(p.names) => \A g : Leads(g, start, p.names) => Destination(p) = g[Len(p.names)]
<1>1. PICK p : p = cmd.path
  OBVIOUS
<1>2. PICK start : start = IF p.is_root THEN RootCluster ELSE orig
  OBVIOUS
<1>3. Len(p.names) \in Nat
  BY <1>1 DEF OnWay
<1>4. start \in Starts /\ start # Eof
  BY <1>2, Marks DEF CacheInv, MemoryTyped, Starts, Eof, RootCluster
<1>5. VolumeTyped
  BY DEF CacheInv
<1>6. NoName(p.names) => Destination(p) = start
  BY <1>2 DEF Destination, NoName
<1>7. ~NoName(p.names) => Destination(p) = Resolve(start, p.names)
  BY <1>2 DEF Destination, NoName
<1>8. \A g : Leads(g, start, p.names) => g[Len(p.names)] = Resolve(start, p.names)
  BY <1>3, <1>4, <1>5, PathLeads
<1> QED
  BY <1>1, <1>2, <1>3, <1>4, <1>6, <1>7, <1>8

\* A cd before its first component goes to the root directory.
LEMMA CdToRoot ==
    ASSUME CacheInv, NavInv, todo # <<>>, cmd.op = "cd", ToRoot
    PROVE  NavInv' /\ (cmd' = NoCmd => Arrived)
<1>1. /\ Head(todo).do = "root" /\ Proceed(Tail(todo), 0) /\ Load(RootCluster)
  BY DEF ToRoot, Next1
<1>2. /\ cwd' = RootCluster /\ nodes' = Region(RootCluster) /\ root' = root /\ data' = data
  BY <1>1 DEF Load, volume
<1>3. OnWay
  BY DEF NavInv
<1>4. PICK p : p = cmd.path
  OBVIOUS
<1>5. PICK start : start = IF p.is_root THEN RootCluster ELSE orig
  OBVIOUS
<1>6. PICK N : N = Len(p.names)
  OBVIOUS
<1>7. /\ N \in Nat /\ N >= 1 /\ p.names \in Seq(DOMAIN Short)
  BY <1>3, <1>4, <1>6 DEF OnWay
<1>8. CASE p.is_root /\ NoName(p.names) /\ todo = <<Step("root")>>
  <2>1. Tail(todo) = <<>> /\ todo' = <<>>
    BY <1>1, <1>8 DEF Proceed
  <2>2. Destination(p) = RootCluster /\ RootCluster # Eof
    BY <1>3, <1>4, <1>5, <1>8, Destined
  <2> QED BY <1>2, <1>4, <2>1, <2>2 DEF NavInv, Arrived
<1>9. CASE /\ ~NoName(p.names)
           /\ \E g : /\ Leads(g, start, p.names)
                     /\ p.is_root
                     /\ \E t : todo = <<Step("root")>> \o t /\ Legs(t, p.names, 0)
  <2>1. PICK g : Leads(g, start, p.names) /\ \E t : todo = <<Step("root")>> \o t /\ Legs(t, p.names, 0)
    BY <1>9
  <2>2. PICK t : todo = <<Step("root")>> \o t /\ Legs(t, p.names, 0)
    BY <2>1
  <2>3. t \in Seq(Steps)
    BY <2>2 DEF Legs
  <2>4. Tail(todo) = t
    <3>1. PICK x : x = Step("root")
      OBVIOUS
    <3>2. todo = <<x>> \o t
      BY <2>2, <3>1
    <3>3. x \in Steps
      BY <3>1 DEF Step, Steps, Others
    <3> QED BY <2>3, <3>2, <3>3
  <2>5. t # <<>> /\ 0 \in 0 .. N - 1
    <3>1. PICK names : names = p.names
      OBVIOUS
    <3>2. Legs(t, names, 0) /\ Len(names) = N /\ 0 \in 0 .. N - 1
      BY <1>6, <1>7, <2>2, <3>1
    <3> QED BY <1>7, <3>2, LegsFirst
  <2>6. todo' = t /\ cmd' = cmd /\ orig' = orig
    BY <1>1, <2>4, <2>5 DEF Proceed
  <2>7. g[0] = RootCluster
    BY <1>5, <1>9, <2>1 DEF Leads
  <2>8. Onward(p.names, g)'
    <3>1. PICK names : names = p.names
      OBVIOUS
    <3>2. cwd' = g[0] /\ Legs(todo', names, 0)
      BY <1>2, <2>2, <2>6, <2>7, <3>1
    <3>3. Onward(names, g)'
      BY <1>6, <2>5, <3>1, <3>2 DEF Onward
    <3> QED BY <3>1, <3>3
  <2>9. nodes' = Region(cwd')
    BY <1>2
  <2>10. OnWay'
    BY <1>2, <1>3, <1>4, <1>5, <1>9, <2>1, <2>6, <2>8, <2>9, OnWayNext
  <2>11. \A m \in 1 .. Len(t) : t[m].do \in StepsOf(cmd.op)
    BY <2>4, TailGoes
  <2>12. Moving
    BY DEF Moving
  <2> QED BY <1>1, <2>4, <2>5, <2>10, <2>11, <2>12, NavGoes
<1>10. ASSUME NEW g, Onward(p.names, g), Leads(g, start, p.names) PROVE FALSE
  <2>1. PICK j \in 0 .. N - 1 :
           \/ Legs(todo, p.names, j)
           \/ \E t : \E f \in FlushLeft :
                 todo = f \o (<<EnterStep(p.names[j + 1])>> \o t) /\ Legs(t, p.names, j + 1)
    BY <1>6, <1>10 DEF Onward
  <2>2. CASE Legs(todo, p.names, j)
    <3>1. Head(todo) = Get(p.names[j + 1], "none")
      BY <1>6, <1>7, <2>2, LegsFirst
    <3> QED BY <1>1, <3>1 DEF Get
  <2>3. CASE ~Legs(todo, p.names, j)
    <3>1. PICK t : \E f \in FlushLeft :
                 todo = f \o (<<EnterStep(p.names[j + 1])>> \o t) /\ Legs(t, p.names, j + 1)
      BY <2>1, <2>3
    <3>2. PICK f \in FlushLeft :
                 todo = f \o (<<EnterStep(p.names[j + 1])>> \o t) /\ Legs(t, p.names, j + 1)
      BY <3>1
    <3>3. t \in Seq(Steps) /\ p.names[j + 1] \in DOMAIN Short
      BY <1>6, <1>7, <3>2 DEF Legs
    <3>4. PICK n : n = p.names[j + 1]
      OBVIOUS
    <3>5. todo = f \o (<<EnterStep(n)>> \o t) /\ n \in DOMAIN Short /\ EnterStep(n).do = "enter"
      BY <3>2, <3>3, <3>4 DEF EnterStep
    <3>6. Head(todo).do \in {"fat1", "fat2", "dir", "enter"}
      <4>1. t \in Seq(Steps) /\ f \in FlushLeft /\ n \in DOMAIN Short
        BY <3>3, <3>5
      <4>2. f # <<>> => Head(todo) = f[1] /\ f[1].do \in {"fat1", "fat2", "dir"}
        BY <3>5, <4>1, CdKinds
      <4>3. f = <<>> => Head(todo) = EnterStep(n)
        BY <3>5, <4>1, CdKinds
      <4> QED BY <3>5, <4>2, <4>3
    <3> QED BY <1>1, <3>6
  <2> QED BY <2>2, <2>3
<1>11. \/ p.is_root /\ NoName(p.names) /\ todo = <<Step("root")>>
       \/ /\ ~NoName(p.names)
          /\ \E g : /\ Leads(g, start, p.names)
                    /\ \/ /\ p.is_root
                          /\ \E t : todo = <<Step("root")>> \o t /\ Legs(t, p.names, 0)
                       \/ Onward(p.names, g)
  BY <1>3, <1>4, <1>5 DEF OnWay
<1> QED
  BY <1>8, <1>9, <1>10, <1>11

\* A directory that is found is somewhere.
LEMMA FoundPlace ==
    ASSUME CacheInv, nodes \in RegionEntries, FoundDir
    PROVE  nodes[node].first # Eof
<1>1. node \in 0 .. Slots(DirSpan) /\ node # 0
  BY DEF CacheInv, MemoryTyped, FoundDir
<1>2. node \in 1 .. Slots(DirSpan)
  BY <1>1, Spans
<1>3. PICK e : e = nodes[node]
  OBVIOUS
<1>4. e \in NodeEntry /\ e.dir
  BY <1>2, <1>3 DEF RegionEntries, FoundDir
<1>5. e.first \in Starts
  BY <1>4 DEF NodeEntry, Starts
<1>6. Eof \notin Starts
  BY Marks DEF Starts, Eof, RootCluster
<1> QED
  BY <1>3, <1>5, <1>6

\* The path of a cd, where it starts and its names.
CdPath(p, start, names) ==
    p = cmd.path /\ start = (IF p.is_root THEN RootCluster ELSE orig) /\ names = p.names

\* A cd along its path looks up the next component, flushes, or enters it.
LEMMA CdOnward ==
    ASSUME CacheInv, NavInv, todo # <<>>, cmd.op = "cd", Advance,
           NEW p, NEW start, NEW names, NEW g, CdPath(p, start, names), ~NoName(names),
           Leads(g, start, names), Onward(names, g)
    PROVE  NavInv' /\ (cmd' = NoCmd => Arrived)
<1>1. OnWay /\ Moving /\ VolumeTyped
  BY DEF NavInv, Moving, CacheInv
<1>2. p = cmd.path
  BY DEF CdPath
<1>3. start = IF p.is_root THEN RootCluster ELSE orig
  BY DEF CdPath
<1>4. names = p.names
  BY DEF CdPath
<1>5. PICK N : N = Len(names)
  OBVIOUS
<1>6. /\ N \in Nat /\ N >= 1 /\ names \in Seq(DOMAIN Short) /\ nodes = Region(cwd)
  BY <1>1, <1>2, <1>4, <1>5 DEF OnWay
<1>7. Leads(g, start, names) /\ start \in Starts /\ Destination(p) = g[N]
  BY <1>1, <1>2, <1>3, <1>4, <1>5, Destined
<1>8. PICK j \in 0 .. N - 1 :
         /\ cwd = g[j]
         /\ \/ Legs(todo, names, j)
            \/ \E t : \E f \in FlushLeft :
                  /\ todo = f \o (<<EnterStep(names[j + 1])>> \o t)
                  /\ Legs(t, names, j + 1)
                  /\ node = ScanIn(nodes, names[j + 1])
  BY <1>2, <1>4, <1>5 DEF Onward
<1>9. PICK n : n = names[j + 1]
  OBVIOUS
<1>10. n \in DOMAIN Short /\ j + 1 \in 1 .. N /\ g[j + 1] = Following(cwd, n) /\ cwd \in Starts
  <2>1. j + 1 \in 1 .. N /\ (j + 1) - 1 = j
    BY <1>6
  <2>2. cwd \in Starts
    BY DEF CacheInv, MemoryTyped
  <2> QED BY <1>5, <1>6, <1>7, <1>8, <1>9, <2>1, <2>2 DEF Leads
<1>11. ASSUME NEW rest, NEW i, Proceed(rest, i), rest # <<>>,
              \A m \in 1 .. Len(rest) : rest[m].do \in StepsOf(cmd.op),
              root' = root, data' = data, nodes' = Region(cwd'), Onward(names, g)'
       PROVE  NavInv' /\ cmd' # NoCmd
  <2>1. cmd' = cmd /\ orig' = orig
    BY <1>11 DEF Proceed
  <2>2. Onward(cmd.path.names, g)'
    BY <1>2, <1>4, <1>11, <2>1
  <2>3. OnWay'
    <3>1. Leads(g, IF cmd.path.is_root THEN RootCluster ELSE orig, cmd.path.names)
      BY <1>2, <1>3, <1>4
    <3>2. ~NoName(cmd.path.names)
      BY <1>2, <1>4
    <3> QED BY <1>1, <1>11, <2>1, <2>2, <3>1, <3>2, OnWayNext
  <2> QED BY <1>1, <1>11, <2>3, NavGoes DEF Moving
<1>12. CASE Legs(todo, names, j)
  <2>1. /\ Head(todo) = Get(n, "none")
        /\ \E u : Tail(todo) = <<EnterStep(n)>> \o u /\ Legs(u, names, j + 1)
    BY <1>5, <1>6, <1>9, <1>12, LegsFirst
  <2>2. PICK u : Tail(todo) = <<EnterStep(n)>> \o u /\ Legs(u, names, j + 1)
    BY <2>1
  <2>3. Head(todo).do = "get" /\ Head(todo).name = n /\ Head(todo).make = "none"
    BY <2>1 DEF Get
  <2>4. Lookup
    BY <2>3, ActionOf DEF CreateNode, MayCreate
  <2>5. PICK rest : rest = Flush \o Tail(todo)
    OBVIOUS
  <2>6. /\ Proceed(rest, ScanEnd(n)) /\ root' = root /\ data' = data /\ nodes' = nodes /\ cwd' = cwd
    BY <2>3, <2>4, <2>5 DEF Lookup, memory, volume
  <2>7. u \in Seq(Steps) /\ Flush \in FlushLeft
    BY <2>2 DEF Legs, FlushLeft
  <2>8. rest = Flush \o (<<EnterStep(n)>> \o u) /\ rest # <<>>
    <3>1. Flush \o (<<EnterStep(n)>> \o u) # <<>>
      BY <1>10, <2>7, CdKinds
    <3>2. rest = Flush \o (<<EnterStep(n)>> \o u)
      BY <2>2, <2>5
    <3> QED BY <3>1, <3>2
  <2>9. \A m \in 1 .. Len(rest) : rest[m].do \in StepsOf(cmd.op)
    BY <2>3, <2>5, FrontGoes, FlushOf
  <2>10. todo' = rest /\ node' = ScanEnd(n)
    BY <2>6, <2>8 DEF Proceed
  <2>11. ScanEnd(n) = ScanIn(nodes, n)
    <3>1. nodes \in RegionEntries
      BY <2>3, NoWrites
    <3> QED BY <3>1, Scans
  <2>12. Onward(names, g)'
    <3>1. /\ cwd' = g[j] /\ todo' = Flush \o (<<EnterStep(names[j + 1])>> \o u)
          /\ Legs(u, names, j + 1) /\ node' = ScanIn(nodes', names[j + 1])
      BY <1>8, <1>9, <2>2, <2>6, <2>8, <2>10, <2>11
    <3> QED BY <1>5, <2>7, <3>1 DEF Onward
  <2> QED BY <1>6, <1>11, <2>6, <2>8, <2>9, <2>12
<1>13. CASE ~Legs(todo, names, j)
  <2>1. PICK t : \E f \in FlushLeft :
                  /\ todo = f \o (<<EnterStep(n)>> \o t)
                  /\ Legs(t, names, j + 1)
                  /\ node = ScanIn(nodes, n)
    BY <1>8, <1>9, <1>13
  <2>2. PICK f \in FlushLeft :
                  /\ todo = f \o (<<EnterStep(n)>> \o t)
                  /\ Legs(t, names, j + 1)
                  /\ node = ScanIn(nodes, n)
    BY <2>1
  <2>3. t \in Seq(Steps)
    BY <2>2 DEF Legs
  <2>4. CASE f # <<>>
    <3>1. /\ Head(todo).do \in {"fat1", "fat2", "dir"} /\ Tail(f) \in FlushLeft
          /\ Tail(todo) = Tail(f) \o (<<EnterStep(n)>> \o t) /\ Tail(todo) # <<>>
      <4>1. todo = f \o (<<EnterStep(n)>> \o t) /\ f \in FlushLeft
        BY <2>2
      <4>2. /\ Head(todo) = f[1] /\ f[1].do \in {"fat1", "fat2", "dir"} /\ Tail(f) \in FlushLeft
            /\ Tail(todo) = Tail(f) \o (<<EnterStep(n)>> \o t)
        BY <1>10, <2>3, <2>4, <4>1, CdKinds
      <4>3. PICK k : k = Tail(f)
        OBVIOUS
      <4>4. k \o (<<EnterStep(n)>> \o t) # <<>>
        BY <1>10, <2>3, <4>2, <4>3, CdKinds
      <4> QED BY <4>2, <4>3, <4>4
    <3>2. FlushFat1 \/ FlushFat2 \/ FlushDir
      BY <3>1, ActionOf
    <3>3. Proceed(Tail(todo), node) /\ nodes' = nodes /\ cwd' = cwd
      BY <3>2 DEF FlushFat1, FlushFat2, FlushDir, memory
    <3>4. root' = root /\ data' = data
      <4>1. CASE FlushDir
        <5>1. WriteRegion(cwd, Region(cwd))
          BY <1>6, <4>1 DEF FlushDir
        <5> QED BY <1>1, <1>10, <5>1, WriteSame
      <4>2. CASE FlushFat1 \/ FlushFat2
        BY <4>2 DEF FlushFat1, FlushFat2
      <4> QED BY <3>2, <4>1, <4>2
    <3>5. \A m \in 1 .. Len(Tail(todo)) : Tail(todo)[m].do \in StepsOf(cmd.op)
      BY TailGoes
    <3>6. todo' = Tail(todo) /\ node' = node
      BY <3>1, <3>3 DEF Proceed
    <3>7. Onward(names, g)'
      <4>1. /\ cwd' = g[j] /\ todo' = Tail(f) \o (<<EnterStep(names[j + 1])>> \o t)
            /\ Legs(t, names, j + 1) /\ node' = ScanIn(nodes', names[j + 1])
        BY <1>8, <1>9, <2>2, <3>1, <3>3, <3>6
      <4> QED BY <1>5, <3>1, <4>1 DEF Onward
    <3> QED BY <1>6, <1>11, <3>1, <3>3, <3>4, <3>5, <3>7
  <2>5. CASE f = <<>>
    <3>1. Head(todo) = EnterStep(n) /\ Tail(todo) = t
      BY <1>10, <2>2, <2>3, <2>5, CdKinds
    <3>2. Enter
      BY <3>1, ActionOf DEF EnterStep
    <3>3. CASE ~FoundDir
      <4>1. Load(orig) /\ Proceed(<<>>, 0)
        BY <3>2, <3>3 DEF Enter
      <4>2. todo' = <<>> /\ cwd' = orig
        BY <4>1 DEF Proceed, Load
      <4>3. Following(cwd, n) = Eof
        BY <1>1, <1>6, <1>10, <2>2, <3>3, ScanFollows DEF FoundDir
      <4>4. j + 1 \in 0 .. Len(names) /\ g[j + 1] = Eof
        BY <1>5, <1>10, <4>3
      <4>5. g[N] = Eof
        BY <1>5, <1>6, <1>7, <4>4, LeadsNowhere
      <4> QED BY <1>2, <1>7, <4>2, <4>5 DEF NavInv, Arrived
    <3>4. CASE FoundDir
      <4>1. Load(nodes[node].first) /\ Proceed(t, 0)
        BY <3>1, <3>2, <3>4 DEF Enter
      <4>2. nodes[node].first = g[j + 1]
        BY <1>1, <1>6, <1>10, <2>2, <3>4, ScanFollows DEF FoundDir
      <4>3. cwd' = g[j + 1] /\ nodes' = Region(cwd') /\ root' = root /\ data' = data
        BY <4>1, <4>2 DEF Load, volume
      <4>4. CASE t = <<>>
        <5>1. j + 1 = N
          <6>1. Len(t) = 2 * (N - (j + 1)) /\ Len(t) = 0
            BY <1>5, <2>2, <4>4 DEF Legs
          <6> QED BY <1>6, <1>8, <6>1
        <5>2. todo' = <<>> /\ cwd' = Destination(p)
          BY <1>7, <4>1, <4>3, <4>4, <5>1 DEF Proceed
        <5>3. nodes[node].first # Eof
          <6>1. nodes \in RegionEntries
            BY <1>1, <1>6, <1>10, RegionType
          <6> QED BY <3>4, <6>1, FoundPlace
        <5> QED BY <1>2, <4>2, <4>3, <5>2, <5>3 DEF NavInv, Arrived
      <4>5. CASE t # <<>>
        <5>1. j + 1 \in 0 .. N - 1
          <6>1. Len(t) = 2 * (N - (j + 1))
            BY <1>5, <2>2 DEF Legs
          <6>2. Len(t) # 0
            BY <2>3, <4>5
          <6> QED BY <1>6, <1>8, <6>1, <6>2
        <5>2. todo' = t
          BY <4>1, <4>5 DEF Proceed
        <5>3. Onward(names, g)'
          <6>1. cwd' = g[j + 1] /\ Legs(todo', names, j + 1)
            BY <2>2, <4>3, <5>2
          <6> QED BY <1>5, <5>1, <6>1 DEF Onward
        <5>4. \A m \in 1 .. Len(t) : t[m].do \in StepsOf(cmd.op)
          BY <3>1, TailGoes
        <5> QED BY <1>11, <4>1, <4>3, <4>5, <5>3, <5>4
      <4> QED BY <4>4, <4>5
    <3> QED BY <3>3, <3>4
  <2> QED BY <2>4, <2>5
<1> QED
  BY <1>12, <1>13

\* A cd that ends is where its path leads, or where it set out from.
LEMMA NavCd ==
    ASSUME CacheInv, NavInv, todo # <<>>, cmd.op = "cd", Advance
    PROVE  NavInv' /\ (cmd' = NoCmd => Arrived)
<1>1. OnWay
  BY DEF NavInv
<1>2. CASE \E g : /\ ~NoName(cmd.path.names)
                  /\ Leads(g, IF cmd.path.is_root THEN RootCluster ELSE orig, cmd.path.names)
                  /\ Onward(cmd.path.names, g)
  <2>1. PICK g : /\ ~NoName(cmd.path.names)
                 /\ Leads(g, IF cmd.path.is_root THEN RootCluster ELSE orig, cmd.path.names)
                 /\ Onward(cmd.path.names, g)
    BY <1>2
  <2>2. PICK p, start, names : CdPath(p, start, names)
    BY DEF CdPath
  <2>3. ~NoName(names) /\ Leads(g, start, names) /\ Onward(names, g)
    BY <2>1, <2>2 DEF CdPath
  <2> QED BY <2>2, <2>3, CdOnward
<1>3. CASE Head(todo).do = "root"
  BY <1>3, ActionOf, CdToRoot
<1>4. PICK x : x = Step("root")
  OBVIOUS
<1>5. ASSUME NEW t \in Seq(Steps), todo = <<x>> \o t \/ todo = <<x>> PROVE Head(todo).do = "root"
  <2>1. Head(todo) = x
    <3>1. x \in Steps
      BY <1>4 DEF Step, Steps, Others
    <3> QED BY <1>5, <3>1
  <2> QED BY <1>4, <2>1 DEF Step
<1>6. <<>> \in Seq(Steps) /\ \A t, names : Legs(t, names, 0) => t \in Seq(Steps)
  BY DEF Legs
<1> QED
  BY <1>1, <1>2, <1>3, <1>4, <1>5, <1>6 DEF OnWay

\* A command that begins.
LEMMA NavStarts ==
    ASSUME NEW command, NEW steps, Begin(command, steps),
           command.op \in {"touch", "write", "read", "remove", "cd", "mkdir"},
           \A m \in 1 .. Len(steps) : steps[m].do \in StepsOf(command.op),
           command.op = "mkdir" => Last(steps).do = "back",
           command.op = "cd" => OnWay'
    PROVE  NavInv'
<1>1. cmd' = command /\ todo' = steps /\ orig' = cwd /\ cwd' = cwd
  BY DEF Begin, memory
<1>2. (\A m \in 1 .. Len(todo) : todo[m].do \in StepsOf(cmd.op))'
  BY <1>1
<1>3. Last(todo)' = Last(steps)
  BY <1>1
<1> QED
  BY <1>1, <1>2, <1>3 DEF NavInv

\* The steps of a quiet list are of the kinds it names.
LEMMA NavQuiet ==
    ASSUME NEW command, NEW steps, NEW D, Begin(command, steps), Quiet(steps, D),
           command.op \in {"touch", "write", "read", "remove", "cd", "mkdir"},
           D \subseteq StepsOf(command.op),
           command.op = "mkdir" => Last(steps).do = "back",
           command.op = "cd" => OnWay'
    PROVE  NavInv'
<1>1. \A m \in 1 .. Len(steps) : steps[m].do \in StepsOf(command.op)
  BY DEF Quiet
<1> QED
  BY <1>1, NavStarts

\* Visiting the names of a path is a lookup and a move for each.
LEMMA VisitLegs ==
    ASSUME NEW p, p.names \in Seq(DOMAIN Short)
    PROVE  \E v : Visit(p, "enter") = ToStart(p) \o v /\ Legs(v, p.names, 0)
<1>1. PICK names : names = p.names
  OBVIOUS
<1>2. PICK N : N = Len(names)
  OBVIOUS
<1>3. names \in Seq(DOMAIN Short) /\ N \in Nat /\ 2 * N \in Nat
  BY <1>1, <1>2
<1> DEFINE item(i) == LET name == names[(i + 1) \div 2]
                      IN  IF i % 2 = 1 THEN Get(name, "none") ELSE [do |-> "enter", name |-> name]
<1>4. PICK v : v = [i \in 1 .. 2 * N |-> item(i)]
  OBVIOUS
<1>5. Visit(p, "enter") = ToStart(p) \o v
  BY <1>1, <1>2, <1>4 DEF Visit
<1>6. ASSUME NEW i \in 1 .. N
      PROVE  /\ 2 * i - 1 \in 1 .. 2 * N /\ 2 * i \in 1 .. 2 * N
             /\ item(2 * i - 1) = Get(names[i], "none") /\ item(2 * i) = EnterStep(names[i])
  <2>1. /\ 2 * i - 1 \in 1 .. 2 * N /\ 2 * i \in 1 .. 2 * N
        /\ ((2 * i - 1) + 1) \div 2 = i /\ (2 * i - 1) % 2 = 1
        /\ (2 * i + 1) \div 2 = i /\ (2 * i) % 2 # 1
    BY <1>3
  <2> QED BY <2>1 DEF EnterStep
<1>7. ASSUME NEW i \in 1 .. 2 * N PROVE item(i) \in Steps
  <2>1. (i + 1) \div 2 \in 1 .. N
    BY <1>3
  <2>2. names[(i + 1) \div 2] \in DOMAIN Short
    BY <1>2, <1>3, <2>1
  <2>3. item(i) \in {Get(names[(i + 1) \div 2], "none"), EnterStep(names[(i + 1) \div 2])}
    BY DEF EnterStep
  <2> HIDE DEF item
  <2> QED BY <2>2, <2>3 DEF Get, EnterStep, Steps, Lookups, Moves
<1> HIDE DEF item
<1>8. v \in Seq(Steps) /\ Len(v) = 2 * N /\ \A i \in 1 .. 2 * N : v[i] = item(i)
  <2>1. v \in [1 .. 2 * N -> Steps]
    BY <1>4, <1>7
  <2> QED BY <1>3, <1>4, <2>1, SeqFun
<1>9. Legs(v, names, 0)
  <2>1. N - 0 = N /\ \A i \in 1 .. N : 0 + i = i
    BY <1>3
  <2>2. \A i \in 1 .. N : v[2 * i - 1] = Get(names[i], "none") /\ v[2 * i] = EnterStep(names[i])
    BY <1>6, <1>8
  <2> QED BY <1>2, <1>8, <2>1, <2>2 DEF Legs
<1> QED
  BY <1>1, <1>5, <1>9

\* A cd sets out from the working directory, along its path or to the root first.
LEMMA NavSetsOut ==
    ASSUME CacheInv, NEW path \in Paths, NEW p, p = ConstructPath(path), Cd(p)
    PROVE  OnWay'
<1>1. PICK names : names = p.names
  OBVIOUS
<1>2. names \in Seq(DOMAIN Short) /\ Len(names) \in Nat /\ Len(names) >= 1
  BY <1>1, PathNames
<1>3. PICK steps : steps = IF NoName(names) THEN ToStart(p) ELSE Visit(p, "enter")
  OBVIOUS
<1>4. PICK command : command = [op |-> "cd", path |-> p]
  OBVIOUS
<1>5. Begin(command, steps) /\ steps # <<>>
  BY <1>1, <1>3, <1>4 DEF Cd, NoName
<1>6. /\ cmd' = command /\ command.path = p /\ todo' = steps /\ orig' = cwd /\ cwd' = cwd
      /\ nodes' = nodes /\ root' = root /\ data' = data /\ mounted /\ Idle
  BY <1>4, <1>5 DEF Begin, memory, volume
<1>7. PICK start : start = IF p.is_root THEN RootCluster ELSE cwd
  OBVIOUS
<1>8. start \in Starts
  BY <1>7 DEF CacheInv, MemoryTyped, Starts
<1>9. PICK g : Leads(g, start, names)
  BY <1>2, <1>8, PathLeads DEF CacheInv
<1>10. Leads(g, start, names)'
  BY <1>6, <1>9, LeadsKept
<1>11. nodes' = Region(cwd)'
  <2>1. nodes = Region(cwd)
    BY <1>6, AtRest DEF Agreed
  <2> QED BY <1>6, <2>1 DEF Region
<1>12. PICK v : Visit(p, "enter") = ToStart(p) \o v /\ Legs(v, names, 0)
  BY <1>1, <1>2, VisitLegs
<1>13. CASE NoName(names)
  <2>1. p.is_root /\ todo' = <<Step("root")>>
    BY <1>3, <1>5, <1>6, <1>13 DEF ToStart
  <2> QED BY <1>1, <1>2, <1>6, <1>11, <1>13, <2>1 DEF OnWay
<1>14. CASE ~NoName(names)
  <2>1. todo' = ToStart(p) \o v
    BY <1>3, <1>6, <1>12, <1>14
  <2>2. CASE p.is_root
    <3>1. todo' = <<Step("root")>> \o v
      BY <2>1, <2>2 DEF ToStart
    <3>2. start = RootCluster
      BY <1>7, <2>2
    <3>3. \E t : todo' = <<Step("root")>> \o t /\ Legs(t, names, 0)
      BY <1>12, <3>1
    <3>4. \E h : /\ Leads(h, RootCluster, names)'
                 /\ \E t : todo' = <<Step("root")>> \o t /\ Legs(t, names, 0)
      BY <1>10, <3>2, <3>3
    <3> QED BY <1>1, <1>2, <1>6, <1>11, <1>14, <2>2, <3>4 DEF OnWay
  <2>3. CASE ~p.is_root
    <3>1. todo' = v
      <4>1. v \in Seq(Steps)
        BY <1>12 DEF Legs
      <4> QED BY <2>1, <2>3, <4>1 DEF ToStart
    <3>2. start = cwd
      BY <1>7, <2>3
    <3>3. g[0] = cwd
      BY <1>9, <3>2 DEF Leads
    <3>4. Onward(names, g)'
      <4>1. 0 \in 0 .. Len(names) - 1
        BY <1>2
      <4>2. cwd' = g[0] /\ Legs(todo', names, 0)
        BY <1>6, <1>12, <3>1, <3>3
      <4> QED BY <4>1, <4>2 DEF Onward
    <3>5. \E h : Leads(h, orig, names)' /\ Onward(names, h)'
      <4>1. start = orig'
        BY <1>6, <3>2
      <4> QED BY <1>10, <3>4, <4>1
    <3> QED BY <1>1, <1>2, <1>6, <1>11, <1>14, <2>3, <3>5 DEF OnWay
  <2> QED BY <2>2, <2>3
<1> QED
  BY <1>13, <1>14

\* A command begins with steps of its own, a cd on its way.
LEMMA NavCommand ==
    ASSUME CacheInv, Command
    PROVE  NavInv'
<1>1. CASE \E n \in FileNames : TouchFile(n) \/ ReadFile(n)
           \/ (WritesFiles(n) /\ \E len \in Lengths[n] : WriteFile(n, len))
  <2>1. PICK n \in FileNames : TouchFile(n) \/ ReadFile(n) \/ \E len \in Lengths[n] : WriteFile(n, len)
    BY <1>1
  <2>2. PICK a, b, c, d : /\ a = Get(n, "file") /\ b = Get(n, "none")
                          /\ c = Step("fetch") /\ d = Step("resize")
    OBVIOUS
  <2>3. CASE TouchFile(n)
    <3>1. PICK command : command = [op |-> "touch", name |-> n]
      OBVIOUS
    <3>2. Begin(command, <<Get(n, "file")>>) /\ command.op = "touch"
      BY <2>3, <3>1 DEF TouchFile
    <3>3. \A m \in 1 .. Len(<<a>>) : <<a>>[m].do = "get"
      BY <2>2 DEF Get
    <3>4. \A m \in 1 .. Len(<<a>>) : <<a>>[m].do \in StepsOf(command.op)
      BY <3>3 DEF StepsOf
    <3> QED BY <2>2, <3>2, <3>4, NavStarts
  <2>4. CASE ReadFile(n)
    <3>1. PICK command : command = [op |-> "read", name |-> n]
      OBVIOUS
    <3>2. Begin(command, <<Get(n, "none"), Step("fetch")>>) /\ command.op = "read"
      BY <2>4, <3>1 DEF ReadFile
    <3>3. \A m \in 1 .. Len(<<b, c>>) : <<b, c>>[m].do \in {"get", "fetch"}
      BY <2>2 DEF Get, Step
    <3>4. \A m \in 1 .. Len(<<b, c>>) : <<b, c>>[m].do \in StepsOf(command.op)
      BY <3>2, <3>3 DEF StepsOf
    <3> QED BY <2>2, <3>2, <3>4, NavStarts
  <2>5. CASE \E len \in Lengths[n] : WriteFile(n, len)
    <3>1. PICK len \in Lengths[n] : WriteFile(n, len)
      BY <2>5
    <3>2. PICK command : command = [op |-> "write", name |-> n, len |-> len]
      OBVIOUS
    <3>3. Begin(command, <<Get(n, "file"), Get(n, "file"), Step("resize")>>) /\ command.op = "write"
      BY <3>1, <3>2 DEF WriteFile
    <3>4. \A m \in 1 .. Len(<<a, a, d>>) : <<a, a, d>>[m].do \in {"get", "resize"}
      BY <2>2 DEF Get, Step
    <3>5. \A m \in 1 .. Len(<<a, a, d>>) : <<a, a, d>>[m].do \in StepsOf(command.op)
      BY <3>3, <3>4 DEF StepsOf
    <3> QED BY <2>2, <3>3, <3>5, NavStarts
  <2> QED BY <2>1, <2>3, <2>4, <2>5
<1>2. CASE \E n \in Removable : RemoveFile(n)
  <2>1. PICK n \in Removable : RemoveFile(n)
    BY <1>2
  <2>2. PICK a, b : a = Get(n, "none") /\ b = Step("drop")
    OBVIOUS
  <2>3. PICK command : command = [op |-> "remove", name |-> n]
    OBVIOUS
  <2>4. Begin(command, <<Get(n, "none"), Step("drop")>>) /\ command.op = "remove"
    BY <2>1, <2>3 DEF RemoveFile
  <2>5. \A m \in 1 .. Len(<<a, b>>) : <<a, b>>[m].do \in {"get", "drop"}
    BY <2>2 DEF Get, Step
  <2>6. \A m \in 1 .. Len(<<a, b>>) : <<a, b>>[m].do \in StepsOf(command.op)
    BY <2>4, <2>5 DEF StepsOf
  <2> QED BY <2>2, <2>4, <2>6, NavStarts
<1>3. CASE \E path \in Paths : Cd(ConstructPath(path)) \/ Mkdir(ConstructPath(path))
  <2>1. PICK path \in Paths : Cd(ConstructPath(path)) \/ Mkdir(ConstructPath(path))
    BY <1>3
  <2>2. PICK p : p = ConstructPath(path)
    OBVIOUS
  <2>3. p.names \in Seq(DOMAIN Short)
    BY <2>2, PathNames
  <2>4. CASE Cd(p)
    <3>1. OnWay'
      BY <2>2, <2>4, NavSetsOut
    <3>2. PICK steps : steps = IF NoName(p.names) THEN ToStart(p) ELSE Visit(p, "enter")
      OBVIOUS
    <3>3. PICK D : D = {"root", "get", "enter"}
      OBVIOUS
    <3>4. Quiet(steps, D)
      BY <2>3, <3>2, <3>3, QuietVisit
    <3>5. PICK command : command = [op |-> "cd", path |-> p]
      OBVIOUS
    <3>6. Begin(command, steps)
      BY <2>4, <3>2, <3>5 DEF Cd, NoName
    <3>7. command.op = "cd" /\ D \subseteq StepsOf(command.op)
      BY <3>3, <3>5 DEF StepsOf
    <3> QED BY <3>1, <3>4, <3>6, <3>7, NavQuiet
  <2>5. CASE Mkdir(p)
    <3>1. PICK v : v = Visit(p, "descend")
      OBVIOUS
    <3>2. PICK b : b = Step("back")
      OBVIOUS
    <3>3. PICK steps : steps = v \o <<b>>
      OBVIOUS
    <3>4. PICK D : D = {"root", "get", "descend", "back"}
      OBVIOUS
    <3>5. Quiet(v, {"root", "get", "descend"})
      BY <2>3, <3>1, QuietVisit
    <3>6. Quiet(v, D)
      BY <3>4, <3>5 DEF Quiet
    <3>7. Quiet(<<b>>, D)
      BY <3>2, <3>4, QuietStep
    <3>8. Quiet(steps, D)
      BY <3>3, <3>6, <3>7, QuietConcat
    <3>9. Last(steps).do = "back"
      <4>1. v \in Seq(Plain) /\ b \in Plain /\ b.do = "back"
        BY <3>2, <3>5 DEF Quiet, Step, Plain, Others
      <4>2. Last(steps) = b
        BY <3>3, <4>1 DEF Last
      <4> QED BY <4>1, <4>2
    <3>10. PICK command : command = [op |-> "mkdir", path |-> p]
      OBVIOUS
    <3>11. Begin(command, steps)
      BY <2>5, <3>1, <3>2, <3>3, <3>10 DEF Mkdir
    <3>12. command.op = "mkdir" /\ D \subseteq StepsOf(command.op)
      BY <3>4, <3>10 DEF StepsOf
    <3> QED BY <3>8, <3>9, <3>11, <3>12, NavQuiet
  <2> QED BY <2>1, <2>2, <2>4, <2>5
<1> QED
  BY <1>1, <1>2, <1>3 DEF Command

\* Where no command is under way, and none begins.
LEMMA NavAtRest ==
    ASSUME todo' = <<>>
    PROVE  NavInv'
BY DEF NavInv

\* Every step keeps a cd on its way.
LEMMA NavNext ==
    ASSUME CacheInv, NavInv, [Next]_vars
    PROVE  NavInv'
<1>1. CASE Mount \/ Reinitialise
  <2>1. todo = <<>> /\ todo' = todo
    BY <1>1 DEF Mount, Reinitialise, CacheInv, MemoryTyped
  <2> QED BY <2>1, NavAtRest
<1>2. CASE Unmount \/ Fail
  <2>1. Stop
    BY <1>2 DEF Unmount, Fail, Exhausted, NullTable, NullNode, AssertionFails, Kill
  <2> QED BY <2>1, NavAtRest DEF Stop, Forget
<1>3. CASE Command
  BY <1>3, NavCommand
<1>4. CASE Advance
  <2>1. todo # <<>>
    BY <1>4 DEF Advance, Lookup, CreateNode, FlushFat1, FlushFat2, FlushDir, Resize, Store, Fetch, Drop,
       GiveUp, ToRoot, Enter, Descend, IntoNew, Back, Next1, Idle
  <2> QED BY <1>4, <2>1, NavCd, NavOther
<1>5. CASE UNCHANGED vars
  <2>1. /\ cwd' = cwd /\ nodes' = nodes /\ cmd' = cmd /\ todo' = todo /\ node' = node /\ orig' = orig
        /\ root' = root /\ data' = data
    BY <1>5 DEF vars, memory, volume
  <2>2. ASSUME OnWay, ~NoName(cmd.path.names) PROVE OnWay'
    <3>1. PICK c : c = IF cmd.path.is_root THEN RootCluster ELSE orig
      OBVIOUS
    <3>2. PICK names : names = cmd.path.names
      OBVIOUS
    <3>3. \A g : Leads(g, c, names) => Leads(g, c, names)'
      BY <2>1, LeadsKept
    <3>4. \A g : Onward(names, g) => Onward(names, g)'
      BY <2>1 DEF Onward
    <3>5. nodes = Region(cwd) => (nodes = Region(cwd))'
      BY <2>1 DEF Region
    <3>6. names = cmd.path.names' /\ c = (IF cmd.path.is_root THEN RootCluster ELSE orig)'
      BY <2>1, <3>1, <3>2
    <3> QED BY <2>1, <2>2, <3>1, <3>2, <3>3, <3>4, <3>5, <3>6 DEF OnWay
  <2>3. ASSUME OnWay, NoName(cmd.path.names) PROVE OnWay'
    <3>1. nodes = Region(cwd) => (nodes = Region(cwd))'
      BY <2>1 DEF Region
    <3> QED BY <2>1, <2>3, <3>1 DEF OnWay
  <2> QED BY <2>1, <2>2, <2>3 DEF NavInv, Moving
<1> QED
  BY <1>1, <1>2, <1>3, <1>4, <1>5 DEF Next

\* A command that ends leaves the working directory where it was, but for a cd whose path
\* names a directory on the volume, which ends there (vfs_navigate_to_path, vfs_mkdir): a
\* path that leads nowhere never leaves the shell part of the way.
THEOREM NavigationAlwaysAtomic ==
    Spec => NavigationIsAtomic
<1> DEFINE A == ~Idle /\ cmd' = NoCmd /\ mounted' =>
                   cwd' = IF cmd.op = "cd" /\ Destination(cmd.path) # Eof
                          THEN Destination(cmd.path) ELSE orig
<1>1. Init => NavInv
  BY DEF Init, NavInv
<1>2. CacheInv /\ NavInv /\ [Next]_vars => NavInv'
  BY NavNext
<1>3. CacheInv /\ NavInv /\ [Next]_vars => [A]_vars
  <2> SUFFICES ASSUME CacheInv, NavInv, Next, ~Idle, cmd' = NoCmd, mounted' PROVE A
    OBVIOUS
  <2>1. todo # <<>> /\ mounted
    BY DEF Idle, CacheInv, MemoryTyped
  <2>2. ~Stop
    BY DEF Stop, Forget
  <2>3. ~Mount /\ ~Reinitialise /\ ~Unmount /\ ~Fail
    BY <2>1, <2>2 DEF Mount, Reinitialise, Unmount, Fail, Exhausted, NullTable, NullNode, AssertionFails, Kill
  <2>4. ~Command
    BY <2>1 DEF Command, TouchFile, ReadFile, WriteFile, RemoveFile, Cd, Mkdir, Begin, Idle
  <2>5. Advance
    BY <2>3, <2>4 DEF Next
  <2>6. CASE cmd.op = "cd"
    <3>1. Arrived
      BY <2>1, <2>5, <2>6, NavCd
    <3> QED BY <2>6, <3>1 DEF Arrived
  <2>7. CASE cmd.op # "cd"
    <3>1. cwd' = orig
      BY <2>1, <2>5, <2>7, NavOther
    <3> QED BY <2>7, <3>1
  <2> QED BY <2>6, <2>7
<1> QED
  BY <1>1, <1>2, <1>3, CachesInvariant, PTL DEF Spec, NavigationIsAtomic

-----------------------------------------------------------------------------
(* Where a name leads to in a directory that gets an entry.                 *)

\* What is stored of a name, typed again, is stored as it is: ShortName shows this of the
\* names fat12_construct_short_name makes (ThereAndBack).
SettledNames == \A n \in DOMAIN Short : Short[n] \in DOMAIN Short => Short[Short[n]] = Short[n]

\* A scan for the name n stops at the entry e.
Stops(e, n) == e.state = "unused" \/ Matches(e, n)

\* Where a scan ends is the first place it stops at.
LEMMA ScanMeans ==
    ASSUME NEW s \in RegionEntries, NEW n
    PROVE  /\ ScanIn(s, n) \in SlotSet \cup {0}
           /\ \A i \in SlotSet :
                 ScanIn(s, n) = i <=> Stops(s[i], n) /\ \A m \in SlotSet : m < i => ~Stops(s[m], n)
<1> DEFINE ends == {i \in SlotSet : Stops(s[i], n)}
<1>1. DOMAIN s = SlotSet
  BY DEF RegionEntries, SlotSet
<1>2. ScanIn(s, n) = IF ends = {} THEN 0 ELSE Min(ends)
  BY <1>1 DEF ScanIn, Stops
<1>3. ends \in SUBSET Nat /\ ends \subseteq SlotSet
  BY SlotFacts
<1>4. ASSUME NEW i \in SlotSet
      PROVE  i \in ends <=> Stops(s[i], n)
  OBVIOUS
<1> HIDE DEF ends
<1>5. ends # {} => Min(ends) \in ends /\ \A i \in ends : Min(ends) <= i
  BY <1>3, MinFacts
<1>6. 0 \notin SlotSet
  BY DEF SlotSet
<1>7. ASSUME NEW i \in SlotSet, ScanIn(s, n) = i
      PROVE  Stops(s[i], n) /\ \A m \in SlotSet : m < i => ~Stops(s[m], n)
  <2>1. ends # {} /\ i = Min(ends)
    BY <1>2, <1>6, <1>7
  <2>2. \A m \in SlotSet : m < i => m \notin ends
    BY <1>3, <1>5, <2>1
  <2> QED BY <1>4, <1>5, <2>1, <2>2
<1>8. ASSUME NEW i \in SlotSet, Stops(s[i], n), \A m \in SlotSet : m < i => ~Stops(s[m], n)
      PROVE  ScanIn(s, n) = i
  <2>1. i \in ends /\ ends # {}
    BY <1>4, <1>8
  <2>2. Min(ends) \in SlotSet /\ Min(ends) \in Nat /\ i \in Nat /\ Min(ends) <= i
    BY <1>3, <1>5, <2>1
  <2>3. ~(Min(ends) < i)
    BY <1>4, <1>5, <1>8, <2>1, <2>2
  <2> QED BY <1>2, <2>1, <2>2, <2>3
<1> QED
  BY <1>2, <1>3, <1>5, <1>7, <1>8

\* Where a name leads to in a list of entries.
FollowIn(s, n) ==
    LET i == ScanIn(s, n) IN IF i # 0 /\ s[i].dir THEN s[i].first ELSE Eof

\* And on the volume.
LEMMA FollowingIn ==
    ASSUME VolumeTyped, NEW c \in Starts, NEW n
    PROVE  Following(c, n) = FollowIn(Region(c), n)
BY ScanFollows DEF FollowIn

\* A place for a new entry of the name n, which the list s does not have: the first that
\* is not in use, at or before an entry never used.
OpenFor(s, n, i) ==
    /\ i \in SlotSet /\ s[i].state # "used"
    /\ \A m \in SlotSet : m < i => s[m].state = "used"
    /\ \E u \in SlotSet : /\ i <= u /\ s[u].state = "unused"
                          /\ \A m \in SlotSet : m < u => ~Stops(s[m], n)

\* The entry of a new directory.
NewDir(e, n) == e \in NodeEntry /\ e.state = "used" /\ e.name = Short[n] /\ e.dir

\* The list s with the entry e at i.
Put(s, i, e) == [s EXCEPT ![i] = e]

\* A directory that is put there is found there.
LEMMA OpenFound ==
    ASSUME NEW s \in RegionEntries, NEW n, NEW i, OpenFor(s, n, i), NEW e, NewDir(e, n),
           NEW r, r = Put(s, i, e)
    PROVE  r \in RegionEntries /\ ScanIn(r, n) = i /\ r[i] = e /\ FollowIn(r, n) = e.first
<1>1. i \in SlotSet /\ i # 0 /\ \A m \in SlotSet : m < i => s[m].state = "used"
  BY DEF OpenFor, SlotSet
<1>2. r \in RegionEntries /\ r[i] = e /\ \A m \in SlotSet : m # i => r[m] = s[m]
  BY <1>1 DEF RegionEntries, SlotSet, NewDir, Put
<1>3. Stops(r[i], n)
  BY <1>2 DEF NewDir, Stops, Matches
<1>4. \A m \in SlotSet : m < i => ~Stops(r[m], n)
  <2>1. PICK u \in SlotSet : i <= u /\ \A m \in SlotSet : m < u => ~Stops(s[m], n)
    BY DEF OpenFor
  <2>2. ASSUME NEW m \in SlotSet, m < i PROVE ~Stops(r[m], n)
    <3>1. m < u /\ m # i
      BY <1>1, <2>1, <2>2, SlotFacts
    <3> QED BY <1>2, <2>1, <3>1
  <2> QED BY <2>2
<1>5. ScanIn(r, n) = i
  BY <1>1, <1>2, <1>3, <1>4, ScanMeans
<1> QED
  BY <1>1, <1>2, <1>5 DEF FollowIn, NewDir

\* The names of a directory: those typed as they are stored, and . and .. at its start.
OwnNames(s) ==
    /\ \A m \in SlotSet : s[m].state = "used" => s[m].name \in ShortNames \cup {".", ".."}
    /\ (\E m \in SlotSet : Dotted(s[m])) =>
          s[1].state = "used" /\ s[1].name = "." /\ s[2].state = "used" /\ s[2].name = ".."

\* A new entry of a name that was not there hides no directory.
LEMMA OpenKeeps ==
    ASSUME SettledNames, NEW s \in RegionEntries, OwnNames(s), NEW n \in DOMAIN Short, NEW i,
           OpenFor(s, n, i), NEW e, NewDir(e, n), NEW r, r = Put(s, i, e),
           NEW b \in DOMAIN Short, FollowIn(s, b) # Eof
    PROVE  FollowIn(r, b) = FollowIn(s, b)
<1>1. i \in SlotSet /\ s[i].state # "used" /\ \A m \in SlotSet : m < i => s[m].state = "used"
  BY DEF OpenFor
<1>2. r \in RegionEntries /\ r[i] = e /\ \A m \in SlotSet : m # i => r[m] = s[m]
  BY <1>1 DEF RegionEntries, SlotSet, NewDir, Put
<1>3. PICK k : k = ScanIn(s, b)
  OBVIOUS
<1>4. k \in SlotSet /\ s[k].dir
  BY <1>3, ScanMeans DEF FollowIn
<1>5. s[k].state = "used" /\ k # i
  <2>1. s[k] \in NodeEntry
    BY <1>4 DEF RegionEntries, SlotSet
  <2> QED BY <1>1, <1>4, <2>1 DEF NodeEntry
<1>6. Stops(s[k], b) /\ \A m \in SlotSet : m < k => ~Stops(s[m], b)
  BY <1>3, <1>4, ScanMeans
<1>7. s[k].name \in {b, Short[b]}
  BY <1>5, <1>6 DEF Stops, Matches
\* The entry found for b is no match for n, and the new one would be none for b before it.
<1>8. ASSUME i < k PROVE ~Stops(e, b)
  <2>1. PICK u \in SlotSet : /\ i <= u /\ s[u].state = "unused"
                             /\ \A m \in SlotSet : m < u => ~Stops(s[m], n)
    BY DEF OpenFor
  <2>2. ~(u < k)
    BY <1>6, <2>1 DEF Stops
  <2>3. k < u
    <3>1. k # u
      BY <1>5, <2>1
    <3> QED BY <1>4, <2>1, <2>2, <3>1, SlotFacts
  <2>4. s[k].name # n /\ s[k].name # Short[n]
    BY <1>4, <1>5, <2>1, <2>3 DEF Stops, Matches
  <2>5. ~Dotted(s[k])
    <3>1. SUFFICES ASSUME Dotted(s[k]) PROVE FALSE
      OBVIOUS
    <3>2. s[1].state = "used" /\ s[1].name = "." /\ s[2].state = "used" /\ s[2].name = ".."
      BY <1>4, <3>1 DEF OwnNames
    <3>3. i # 1 /\ i # 2 /\ i \in Nat /\ i >= 1 /\ k \in Nat
      BY <1>1, <1>4, <3>2, Spans DEF SlotSet
    <3>4. 1 < k /\ 2 < k
      BY <1>8, <3>3
    <3>5. ~Stops(s[1], b) /\ ~Stops(s[2], b)
      BY <1>6, <3>4, SlotFacts
    <3>6. b \notin {".", ".."} /\ Short[b] \notin {".", ".."}
      BY <3>2, <3>5 DEF Stops, Matches
    <3> QED BY <1>7, <3>1, <3>6 DEF Dotted
  <2>6. s[k].name \in ShortNames
    BY <1>4, <1>5, <2>5 DEF OwnNames, Dotted
  <2>7. s[k].name = Short[b]
    <3>1. CASE s[k].name = b
      <4>1. PICK m \in DOMAIN Short : b = Short[m]
        BY <2>6, <3>1 DEF ShortNames
      <4> QED BY <3>1, <4>1 DEF SettledNames
    <3> QED BY <1>7, <3>1
  <2>8. Short[n] # b
    <3>1. SUFFICES ASSUME Short[n] = b PROVE FALSE
      OBVIOUS
    <3>2. Short[b] = Short[n]
      BY <3>1 DEF SettledNames
    <3> QED BY <2>4, <2>7, <3>2
  <2> QED BY <2>4, <2>7, <2>8 DEF NewDir, Stops, Matches
<1>9. Stops(r[k], b)
  BY <1>2, <1>4, <1>5, <1>6
<1>10. ASSUME NEW m \in SlotSet, m < k PROVE ~Stops(r[m], b)
  BY <1>2, <1>6, <1>8, <1>10
<1>11. ScanIn(r, b) = k
  BY <1>2, <1>4, <1>9, <1>10, ScanMeans
<1> QED
  BY <1>2, <1>3, <1>4, <1>5, <1>11 DEF FollowIn

\* Where a name leads to depends on the directory alone.
LEMMA FollowingAs ==
    ASSUME NEW d, Region(d)' = Region(d), NEW n
    PROVE  Following(d, n)' = Following(d, n)
<1>1. StoredAt(d, n)' = StoredAt(d, n)
  <2>1. PICK s : s = Region(d)
    OBVIOUS
  <2>2. Region(d)' = s
    BY <2>1
  <2> QED BY <2>1, <2>2 DEF StoredAt
<1> QED
  BY <1>1 DEF Following

\* The names of sound directories.
LEMMA SoundNames ==
    ASSUME VolumeTyped, NEW t, NEW V, Sound(t, V, Vol(V)), NEW c \in V
    PROVE  c \in Starts /\ Region(c) \in RegionEntries /\ OwnNames(Region(c))
<1>1. /\ V \subseteq Starts
      /\ \A d \in V \ {RootCluster} : Vol(V)[d][1] = Dots(d)[1] /\ Vol(V)[d][2] = Dots(d)[2]
      /\ \A d \in V : \A i \in SlotSet : EntrySound(t, V, d, Vol(V)[d][i])
      /\ RootCluster \in V
  BY DEF Sound
<1>2. c \in Starts /\ Region(c) \in RegionEntries
  BY <1>1, RegionType
<1>3. PICK s : s = Region(c)
  OBVIOUS
<1>4. Vol(V)[c] = s
  BY <1>3 DEF Vol
<1>5. \A i \in SlotSet : EntrySound(t, V, c, s[i])
  BY <1>1, <1>4
<1>6. ASSUME NEW m \in SlotSet, s[m].state = "used"
      PROVE  s[m].name \in ShortNames \cup {".", ".."}
  BY <1>5, <1>6 DEF EntrySound, Counted
<1>7. ASSUME NEW m \in SlotSet, Dotted(s[m])
      PROVE  s[1].state = "used" /\ s[1].name = "." /\ s[2].state = "used" /\ s[2].name = ".."
  <2>1. c # RootCluster
    BY <1>5, <1>7 DEF EntrySound
  <2>2. s[1] = Dots(c)[1] /\ s[2] = Dots(c)[2]
    BY <1>1, <1>4, <2>1
  <2>3. /\ Dots(c)[1].state = "used" /\ Dots(c)[1].name = "."
        /\ Dots(c)[2].state = "used" /\ Dots(c)[2].name = ".."
    BY Spans DEF Dots, Blank, Entry
  <2> QED BY <2>2, <2>3
<1> QED
  BY <1>2, <1>3, <1>6, <1>7 DEF OwnNames

\* From a sound directory names lead to sound directories.
LEMMA FollowingInside ==
    ASSUME VolumeTyped, NEW t, NEW V, Sound(t, V, Vol(V)), NEW c \in V, NEW n, Following(c, n) # Eof
    PROVE  Following(c, n) \in V
<1>1. c \in Starts /\ Region(c) \in RegionEntries
  BY SoundNames
<1>2. PICK s : s = Region(c)
  OBVIOUS
<1>3. Following(c, n) = FollowIn(s, n)
  BY <1>1, <1>2, FollowingIn
<1>4. PICK i : i = ScanIn(s, n)
  OBVIOUS
<1>5. i \in SlotSet /\ s[i].dir /\ Following(c, n) = s[i].first
  BY <1>1, <1>2, <1>3, <1>4, ScanMeans DEF FollowIn
<1>6. PICK e : e = s[i]
  OBVIOUS
<1>7. EntrySound(t, V, c, e) /\ RootCluster \in V
  BY <1>2, <1>5, <1>6 DEF Sound, Vol
<1>8. e.dir /\ e.state = "used" /\ (Dotted(e) \/ Counted(e))
  BY <1>5, <1>6, <1>7 DEF EntrySound, Dotted, Counted
<1>9. e.first \in V
  BY <1>7, <1>8 DEF EntrySound
<1> QED
  BY <1>5, <1>6, <1>9

-----------------------------------------------------------------------------
(* The way of a mkdir.                                                      *)

\* The first j names lead from c along the directories of g.
Comes(g, c, names, j) ==
    /\ g \in [0 .. Len(names) -> Starts]
    /\ g[0] = c
    /\ \A k \in 1 .. j : g[k] = Following(g[k - 1], names[k])

\* All of them are directories of the volume.
LEMMA ComesInside ==
    ASSUME VolumeTyped, NEW t, NEW V, Sound(t, V, Vol(V)), NEW c \in V, NEW names, Len(names) \in Nat,
           NEW j \in 0 .. Len(names), NEW g, Comes(g, c, names, j)
    PROVE  \A k \in 0 .. j : g[k] \in V
<1> DEFINE T == {k \in 0 .. j : g[k] \in V}
<1>1. 0 \in T /\ j \in Nat
  BY DEF Comes
<1>2. ASSUME NEW k \in 0 .. j - 1, k \in T PROVE k + 1 \in T
  <2>1. k + 1 \in 1 .. j /\ (k + 1) - 1 = k /\ k + 1 \in 0 .. Len(names)
    BY <1>1
  <2>2. g[k + 1] = Following(g[k], names[k + 1]) /\ g[k + 1] \in Starts
    BY <2>1 DEF Comes
  <2>3. g[k + 1] # Eof
    BY <2>2, Marks DEF Starts, Eof, RootCluster
  <2> QED BY <1>2, <2>1, <2>2, <2>3, FollowingInside
<1>3. 0 .. j \subseteq T
  <2> HIDE DEF T
  <2> QED BY <1>1, <1>2, UpTo
<1> QED
  BY <1>3

\* They are so after a step that keeps where the names lead to from directories of the volume.
LEMMA ComesKept ==
    ASSUME VolumeTyped, NEW t, NEW V, Sound(t, V, Vol(V)), NEW c \in V,
           NEW names \in Seq(DOMAIN Short), NEW j \in 0 .. Len(names), NEW g, Comes(g, c, names, j),
           \A d \in V : \A n \in DOMAIN Short :
              Following(d, n) # Eof => Following(d, n)' = Following(d, n)
    PROVE  Comes(g, c, names, j)'
<1>1. Len(names) \in Nat
  OBVIOUS
<1>2. \A k \in 0 .. j : g[k] \in V
  BY <1>1, ComesInside
<1>3. ASSUME NEW k \in 1 .. j
      PROVE  g[k] = Following(g[k - 1], names[k])'
  <2>1. k - 1 \in 0 .. j /\ k \in 0 .. Len(names) /\ k \in 1 .. Len(names)
    BY <1>1
  <2>2. g[k] = Following(g[k - 1], names[k]) /\ g[k] \in Starts
    BY <2>1 DEF Comes
  <2>3. g[k] # Eof
    BY <2>2, Marks DEF Starts, Eof, RootCluster
  <2>4. PICK d, n : d = g[k - 1] /\ n = names[k]
    OBVIOUS
  <2>5. d \in V /\ n \in DOMAIN Short
    BY <1>2, <2>1, <2>4
  <2>6. Following(d, n)' = Following(d, n)
    BY <2>2, <2>3, <2>4, <2>5
  <2> QED BY <2>2, <2>4, <2>6
<1> QED
  BY <1>3 DEF Comes

\* One name further.
LEMMA ComesOn ==
    ASSUME NEW names, Len(names) \in Nat, NEW j \in 0 .. Len(names) - 1, NEW g, NEW c,
           Comes(g, c, names, j), Following(g[j], names[j + 1]) \in Starts
    PROVE  \E h : /\ Comes(h, c, names, j + 1)
                  /\ h[j + 1] = Following(g[j], names[j + 1])
<1>1. PICK x : x = Following(g[j], names[j + 1])
  OBVIOUS
<1>2. PICK h : h = [g EXCEPT ![j + 1] = x]
  OBVIOUS
<1>3. j + 1 \in 0 .. Len(names) /\ j \in Nat /\ j + 1 # 0 /\ (j + 1) - 1 = j
  OBVIOUS
<1>4. /\ h \in [0 .. Len(names) -> Starts] /\ h[j + 1] = x
      /\ \A k \in 0 .. Len(names) : k # j + 1 => h[k] = g[k]
  BY <1>1, <1>2, <1>3 DEF Comes
<1>5. \A k \in 0 .. j : k \in 0 .. Len(names) /\ h[k] = g[k]
  BY <1>3, <1>4
<1>6. h[0] = c
  BY <1>3, <1>5 DEF Comes
<1>7. ASSUME NEW k \in 1 .. j + 1 PROVE h[k] = Following(h[k - 1], names[k])
  <2>1. CASE k = j + 1
    <3>1. h[k - 1] = g[j]
      BY <1>3, <1>5, <2>1
    <3> QED BY <1>1, <1>4, <2>1, <3>1
  <2>2. CASE k # j + 1
    <3>1. k \in 1 .. j /\ k \in 0 .. j /\ k - 1 \in 0 .. j
      BY <1>3, <2>2
    <3>2. g[k] = Following(g[k - 1], names[k])
      BY <3>1 DEF Comes
    <3>3. h[k] = g[k] /\ h[k - 1] = g[k - 1]
      BY <1>5, <3>1
    <3> QED BY <3>2, <3>3
  <2> QED BY <2>1, <2>2
<1> QED
  BY <1>1, <1>4, <1>6, <1>7 DEF Comes

DescendTo(n) == [do |-> "descend", name |-> n]

\* The lookups and moves of a mkdir from component j + 1 on, and the way back.
Downs(t, names, j) ==
    /\ t \in Seq(Steps) /\ Len(t) = 2 * (Len(names) - j) + 1
    /\ \A i \in 1 .. Len(names) - j :
          t[2 * i - 1] = Get(names[j + i], "none") /\ t[2 * i] = DescendTo(names[j + i])
    /\ t[Len(t)] = Step("back")

\* What can be left of the device writes of a lookup that makes a directory.
Fronts == FlushLeft \cup {<<x>> \o Flush : x \in Stores}

\* The node in hand is an entry just made for n, and nothing else has changed.
Appended(n) ==
    /\ OpenFor(Region(cwd), n, node)
    /\ \E e : NewDir(e, n) /\ nodes = Put(Region(cwd), node, e)

\* A mkdir that has come to where j names lead looks up the next, or is at the end; has looked
\* it up, and writes what there is; is to make it; and has made it, and writes that.
Seeking(names, j) == nodes = Region(cwd) /\ Downs(todo, names, j)

Sought(names, j) ==
    /\ nodes = Region(cwd) /\ node = ScanIn(nodes, names[j + 1])
    /\ \E t : \E f \in FlushLeft :
          /\ todo = f \o (<<DescendTo(names[j + 1])>> \o t)
          /\ Downs(t, names, j + 1)

Making(names, j) ==
    /\ nodes = Region(cwd)
    /\ \E t : /\ todo = <<Get(names[j + 1], "dir"), Step("into")>> \o t
              /\ Downs(t, names, j + 1)

Made(names, j) ==
    /\ node # 0 /\ nodes[node].dir /\ node = ScanIn(nodes, names[j + 1])
    /\ \E t : \E f \in Fronts :
          /\ todo = f \o (<<Step("into")>> \o t)
          /\ Downs(t, names, j + 1)
          /\ IF f = <<>> THEN nodes = Region(cwd) ELSE Appended(names[j + 1])

Along(names, j) ==
    \/ Seeking(names, j)
    \/ j + 1 \in 1 .. Len(names) /\ (Sought(names, j) \/ Making(names, j) \/ Made(names, j))

\* The path of a command, where it starts and its names.
PathOf(p, start, names) ==
    /\ p = cmd.path /\ start = (IF p.is_root THEN RootCluster ELSE orig) /\ names = p.names

\* A mkdir is before its first component, or somewhere along its path.
OnPath(start, names) ==
    \/ /\ start = RootCluster /\ nodes = Region(cwd)
       /\ \E t : todo = <<Step("root")>> \o t /\ Downs(t, names, 0)
    \/ \E g : \E j \in 0 .. Len(names) : Comes(g, start, names, j) /\ cwd = g[j] /\ Along(names, j)

DownInv ==
    todo # <<>> /\ cmd.op = "mkdir" =>
        \A p, start, names : PathOf(p, start, names) =>
            names \in Seq(DOMAIN Short) /\ OnPath(start, names)

\* The mkdir goes on.
LEMMA DownGoes ==
    ASSUME NEW p, NEW start, NEW names \in Seq(DOMAIN Short), PathOf(p, start, names),
           cmd' = cmd, orig' = orig, OnPath(start, names)'
    PROVE  DownInv'
<1>1. ASSUME NEW q, NEW s, NEW m, PathOf(q, s, m)' PROVE s = start /\ m = names
  BY <1>1 DEF PathOf
<1>2. (\A q, s, m : PathOf(q, s, m) => m \in Seq(DOMAIN Short) /\ OnPath(s, m))'
  BY <1>1
<1> QED
  BY <1>2 DEF DownInv

\* There is no more of it.
LEMMA DownEnds ==
    ASSUME todo' = <<>>
    PROVE  DownInv'
BY DEF DownInv

\* A list with an element in front.
LEMMA Pushed ==
    ASSUME NEW S, NEW e \in S, NEW r \in Seq(S)
    PROVE  /\ <<e>> \o r \in Seq(S) /\ <<e>> \o r # <<>>
           /\ Head(<<e>> \o r) = e /\ (<<e>> \o r)[1] = e /\ Tail(<<e>> \o r) = r
OBVIOUS

\* What a list is made of.
LEMMA Popped ==
    ASSUME NEW S, NEW t \in Seq(S), t # <<>>
    PROVE  /\ Head(t) = t[1] /\ t[1] \in S /\ Tail(t) \in Seq(S) /\ Len(Tail(t)) = Len(t) - 1
           /\ t = <<t[1]>> \o Tail(t)
           /\ Tail(t) = <<>> <=> Len(t) = 1
           /\ \A i \in 1 .. Len(t) - 1 : Tail(t)[i] = t[i + 1]
<1>1. Tail(t) \in Seq(S) /\ Len(Tail(t)) = Len(t) - 1 /\ Head(t) = t[1] /\ t[1] \in S
  OBVIOUS
<1>2. Tail(t) = <<>> <=> Len(Tail(t)) = 0
  <2>1. PICK q \in Seq(S) : q = Tail(t)
    BY <1>1
  <2>2. q = <<>> <=> Len(q) = 0
    OBVIOUS
  <2> QED BY <2>1, <2>2
<1>3. Len(t) \in Nat
  OBVIOUS
<1>4. t = <<t[1]>> \o Tail(t)
  OBVIOUS
<1>5. \A i \in 1 .. Len(t) - 1 : Tail(t)[i] = t[i + 1]
  OBVIOUS
<1> QED
  BY <1>1, <1>2, <1>3, <1>4, <1>5

\* What is in front of a step is gone through first.
LEMMA FrontKinds ==
    ASSUME NEW rest \in Seq(Steps), NEW f \in Fronts, NEW e \in Steps
    PROVE  /\ f \o (<<e>> \o rest) # <<>>
           /\ f # <<>> => /\ f[1].do \in {"store", "fat1", "fat2", "dir"}
                          /\ Tail(f) \in FlushLeft
                          /\ Tail(f) = <<>> <=> f[1].do = "dir"
                          /\ Head(f \o (<<e>> \o rest)) = f[1]
                          /\ Tail(f \o (<<e>> \o rest)) = Tail(f) \o (<<e>> \o rest)
           /\ f = <<>> => /\ Head(f \o (<<e>> \o rest)) = e
                          /\ Tail(f \o (<<e>> \o rest)) = rest
<1>1. PICK r : r = <<e>> \o rest
  OBVIOUS
<1>2. r \in Seq(Steps) /\ r # <<>> /\ Head(r) = e /\ Tail(r) = rest
  BY <1>1
<1>3. /\ f \in Seq(Steps)
      /\ f # <<>> => /\ f[1].do \in {"store", "fat1", "fat2", "dir"} /\ Tail(f) \in FlushLeft
                     /\ Tail(f) = <<>> <=> f[1].do = "dir"
  <2>1. Step("fat1") \in Steps /\ Step("fat2") \in Steps /\ Step("dir") \in Steps
    BY DEF Step, Steps, Writes
  <2>2. PICK x, y, z : x = Step("fat1") /\ y = Step("fat2") /\ z = Step("dir")
    OBVIOUS
  <2>3. x.do = "fat1" /\ y.do = "fat2" /\ z.do = "dir" /\ x \in Steps /\ y \in Steps /\ z \in Steps
    BY <2>1, <2>2 DEF Step
  <2>4. FlushLeft = {<<x, y, z>>, <<y, z>>, <<z>>, <<>>} /\ Flush = <<x, y, z>>
    BY <2>2 DEF FlushLeft, Flush
  <2>5. CASE f = <<x, y, z>>
    BY <2>3, <2>4, <2>5
  <2>6. CASE f = <<y, z>>
    BY <2>3, <2>4, <2>6
  <2>7. CASE f = <<z>>
    BY <2>3, <2>4, <2>7
  <2>8. CASE f = <<>>
    BY <2>8
  <2>9. CASE f \in {<<w>> \o Flush : w \in Stores}
    <3>1. PICK w \in Stores : f = <<w>> \o Flush
      BY <2>9
    <3>2. w \in Steps /\ w.do = "store"
      BY DEF Steps, Stores
    <3>3. <<x, y, z>> \in Seq(Steps) /\ <<x, y, z>> # <<>> /\ f = <<w>> \o <<x, y, z>>
      BY <2>3, <2>4, <3>1
    <3>4. f \in Seq(Steps) /\ f[1] = w /\ Tail(f) = <<x, y, z>>
      <4>1. PICK b \in Seq(Steps) : b = <<x, y, z>> /\ f = <<w>> \o b
        BY <3>3
      <4>2. f \in Seq(Steps) /\ f[1] = w /\ Tail(f) = b
        BY <3>2, <4>1, Pushed
      <4> QED BY <4>1, <4>2
    <3> QED BY <2>4, <3>2, <3>3, <3>4
  <2> QED BY <2>4, <2>5, <2>6, <2>7, <2>8, <2>9 DEF Fronts
<1>4. f # <<>> => f \o r # <<>> /\ Head(f \o r) = f[1] /\ Tail(f \o r) = Tail(f) \o r
  BY <1>2, <1>3, FrontFirst
<1>5. f = <<>> => f \o r = r
  BY <1>2
<1> QED
  BY <1>1, <1>2, <1>3, <1>4, <1>5

\* The next lookup of a mkdir, and what is behind it.
LEMMA DownsFirst ==
    ASSUME NEW t, NEW names, NEW N \in Nat, Len(names) = N, NEW j \in 0 .. N, Downs(t, names, j)
    PROVE  /\ t # <<>>
           /\ j = N => Head(t) = Step("back") /\ Tail(t) = <<>>
           /\ j # N => /\ Head(t) = Get(names[j + 1], "none")
                       /\ \E u : Tail(t) = <<DescendTo(names[j + 1])>> \o u /\ Downs(u, names, j + 1)
<1>1. /\ t \in Seq(Steps) /\ Len(t) = 2 * (N - j) + 1 /\ N - j \in Nat
      /\ \A i \in 1 .. N - j : t[2 * i - 1] = Get(names[j + i], "none") /\ t[2 * i] = DescendTo(names[j + i])
      /\ t[Len(t)] = Step("back")
  BY DEF Downs
<1>2. t # <<>>
  BY <1>1
<1>3. CASE j = N
  <2>1. Len(t) = 1
    BY <1>1, <1>3
  <2>3. Head(t) = t[1] /\ Tail(t) = <<>>
    BY <1>1, <1>2, <2>1, Popped
  <2> QED BY <1>1, <1>2, <1>3, <2>1, <2>3
<1>4. CASE j # N
  <2>1. N - j >= 1 /\ Len(t) >= 3 /\ 1 \in 1 .. N - j /\ j + 1 \in 1 .. N
    BY <1>1, <1>4
  <2>2. Head(t) = Get(names[j + 1], "none") /\ t[2] = DescendTo(names[j + 1])
    <3>1. t[2 * 1 - 1] = Get(names[j + 1], "none") /\ t[2 * 1] = DescendTo(names[j + 1])
      BY <1>1, <2>1
    <3> QED BY <1>1, <2>1, <3>1
  <2>3. PICK u : u = Tail(Tail(t))
    OBVIOUS
  <2>4. /\ u \in Seq(Steps) /\ Len(u) = Len(t) - 2
        /\ \A i \in 1 .. Len(t) - 2 : u[i] = t[i + 2]
    <3>1. PICK r : r = Tail(t)
      OBVIOUS
    <3>2. r \in Seq(Steps) /\ Len(r) = Len(t) - 1 /\ \A i \in 1 .. Len(t) - 1 : r[i] = t[i + 1]
      BY <1>1, <1>2, <3>1, TailFacts
    <3>3. r # <<>>
      BY <2>1, <3>2
    <3>4. u \in Seq(Steps) /\ Len(u) = Len(r) - 1 /\ \A i \in 1 .. Len(r) - 1 : u[i] = r[i + 1]
      BY <2>3, <3>1, <3>2, <3>3, TailFacts
    <3>5. \A i \in 1 .. Len(t) - 2 : i \in 1 .. Len(r) - 1 /\ i + 1 \in 1 .. Len(t) - 1 /\ (i + 1) + 1 = i + 2
      BY <1>1, <3>2
    <3> QED BY <1>1, <3>2, <3>4, <3>5
  <2>5. Tail(t) = <<t[2]>> \o u
    <3>1. PICK r : r = Tail(t)
      OBVIOUS
    <3>2. r \in Seq(Steps) /\ Len(r) = Len(t) - 1 /\ \A i \in 1 .. Len(t) - 1 : r[i] = t[i + 1]
      BY <1>1, <1>2, <3>1, TailFacts
    <3>3. r # <<>> /\ 1 \in 1 .. Len(t) - 1
      BY <2>1, <3>2
    <3>4. r = <<r[1]>> \o Tail(r)
      BY <3>2, <3>3, Popped
    <3>5. r[1] = t[1 + 1]
      BY <3>2, <3>3
    <3> QED BY <2>3, <3>1, <3>4, <3>5
  <2>6. Downs(u, names, j + 1)
    <3>1. Len(u) = 2 * (N - (j + 1)) + 1
      BY <1>1, <2>4
    <3>2. ASSUME NEW i \in 1 .. N - (j + 1)
          PROVE  u[2 * i - 1] = Get(names[(j + 1) + i], "none") /\ u[2 * i] = DescendTo(names[(j + 1) + i])
      <4>1. /\ i + 1 \in 1 .. N - j /\ j + (i + 1) = (j + 1) + i
            /\ 2 * (i + 1) - 1 = (2 * i - 1) + 2 /\ 2 * (i + 1) = (2 * i) + 2
            /\ 2 * i - 1 \in 1 .. Len(t) - 2 /\ 2 * i \in 1 .. Len(t) - 2
        BY <1>1
      <4>2. t[2 * (i + 1) - 1] = Get(names[j + (i + 1)], "none") /\ t[2 * (i + 1)] = DescendTo(names[j + (i + 1)])
        BY <1>1, <4>1
      <4>3. u[2 * i - 1] = t[(2 * i - 1) + 2] /\ u[2 * i] = t[(2 * i) + 2]
        BY <2>4, <4>1
      <4> QED BY <4>1, <4>2, <4>3
    <3>3. u[Len(u)] = Step("back")
      <4>1. Len(u) \in 1 .. Len(t) - 2 /\ Len(u) + 2 = Len(t)
        BY <1>1, <2>1, <2>4
      <4> QED BY <1>1, <2>4, <4>1
    <3> QED BY <2>4, <3>1, <3>2, <3>3 DEF Downs
  <2> QED BY <1>2, <1>4, <2>2, <2>5, <2>6
<1> QED
  BY <1>2, <1>3, <1>4

\* Where mkdir comes to depends on the volume alone.
LEMMA ComesSame ==
    ASSUME root' = root, data' = data, NEW g, NEW c, NEW names, NEW j, Comes(g, c, names, j)
    PROVE  Comes(g, c, names, j)'
<1>1. \A d : Region(d)' = Region(d)
  BY DEF Region
<1>2. \A d, n : Following(d, n)' = Following(d, n)
  BY <1>1, FollowingAs
<1> QED
  BY <1>2 DEF Comes

\* The directory that is next the working directory.
LEMMA RegionHere ==
    ASSUME NEW c, cwd' = c
    PROVE  Region(cwd)' = Region(c)'
BY DEF Region

\* The mkdir goes on along its path.
LEMMA DownAlong ==
    ASSUME NEW p, NEW start, NEW names \in Seq(DOMAIN Short), PathOf(p, start, names),
           cmd' = cmd, orig' = orig, NEW g, NEW j \in 0 .. Len(names), Comes(g, start, names, j)',
           cwd' = g[j], Along(names, j)'
    PROVE  DownInv'
<1>1. OnPath(start, names)'
  BY DEF OnPath
<1> QED
  BY <1>1, DownGoes

\* A mkdir under way, with the directories V on the volume: it has come to where j names
\* lead, and n is the next.
Under(V, p, start, names, g, j) ==
    /\ todo # <<>> /\ cmd.op = "mkdir" /\ mounted
    /\ PathOf(p, start, names) /\ names \in Seq(DOMAIN Short)
    /\ j \in 0 .. Len(names)
    /\ Comes(g, start, names, j) /\ cwd = g[j]
    /\ Sound(fat1, V, Vol(V)) /\ cwd \in V /\ start \in V

\* The sound directories that a mkdir under way has to do with.
LEMMA MkdirSound ==
    ASSUME CacheInv, todo # <<>>, cmd.op = "mkdir", NEW V, NEW M, Kept(V, M),
           NEW p, NEW start, NEW names, PathOf(p, start, names)
    PROVE  /\ mounted /\ VolumeTyped /\ Sound(fat1, V, Vol(V)) /\ cwd \in V /\ start \in V
<1>1. mounted /\ VolumeTyped
  BY DEF CacheInv, MemoryTyped
<1>2. ~Exposed
  BY DEF Exposed
<1>3. Sound(fat1, V, Vol(V)) /\ cwd \in V /\ orig \in V
  BY <1>1, <1>2 DEF Kept
<1>4. RootCluster \in V
  BY <1>3 DEF Sound
<1> QED
  BY <1>1, <1>3, <1>4 DEF PathOf

\* Each step says which action is next.
LEMMA DownActions ==
    ASSUME Advance, todo # <<>>
    PROVE  /\ Head(todo).do = "store" => Store
           /\ Head(todo).do = "descend" => Descend
           /\ Head(todo).do = "into" => IntoNew
           /\ Head(todo).do = "back" => Back
BY DEF Advance, Lookup, CreateNode, FlushFat1, FlushFat2, FlushDir, Resize, Store, Fetch, Drop,
       GiveUp, ToRoot, Enter, Descend, IntoNew, Back, Next1

\* The steps of a mkdir.
LEMMA DownSteps ==
    ASSUME NEW n \in DOMAIN Short
    PROVE  /\ DescendTo(n) \in Steps /\ DescendTo(n).do = "descend" /\ DescendTo(n).name = n
           /\ Step("into") \in Steps /\ Step("into").do = "into"
           /\ Step("back") \in Steps /\ Step("back").do = "back"
           /\ Get(n, "none") \in Steps /\ Get(n, "none").do = "get"
           /\ Get(n, "none").name = n /\ Get(n, "none").make = "none"
           /\ Get(n, "dir") \in Steps /\ Get(n, "dir").do = "get"
           /\ Get(n, "dir").name = n /\ Get(n, "dir").make = "dir"
           /\ Flush \in Fronts /\ Flush \in FlushLeft
BY DEF DescendTo, Step, Get, Steps, Lookups, Moves, Others, Fronts, FlushLeft

\* A mkdir looks up its next component, or goes back.
LEMMA DownSeeks ==
    ASSUME CacheInv, Advance, NEW V, NEW p, NEW start, NEW names, NEW g, NEW j,
           Under(V, p, start, names, g, j), Seeking(names, j)
    PROVE  DownInv'
<1>1. /\ todo # <<>> /\ PathOf(p, start, names) /\ names \in Seq(DOMAIN Short) /\ j \in 0 .. Len(names)
      /\ Comes(g, start, names, j) /\ cwd = g[j] /\ nodes = Region(cwd) /\ Downs(todo, names, j)
  BY DEF Under, Seeking
<1>2. PICK N \in Nat : N = Len(names)
  BY <1>1
<1>3. CASE j = N
  <2>1. Head(todo) = Step("back") /\ Tail(todo) = <<>>
    BY <1>1, <1>2, <1>3, DownsFirst
  <2>2. Back
    BY <1>1, <2>1, DownActions DEF Step
  <2>3. todo' = <<>>
    BY <2>1, <2>2 DEF Back, Proceed
  <2> QED BY <2>3, DownEnds
<1>4. CASE j # N
  <2>1. PICK n : n = names[j + 1]
    OBVIOUS
  <2>2. n \in DOMAIN Short /\ j + 1 \in 1 .. Len(names)
    BY <1>1, <1>2, <1>4, <2>1
  <2>3. PICK u : /\ Head(todo) = Get(n, "none")
                 /\ Tail(todo) = <<DescendTo(n)>> \o u /\ Downs(u, names, j + 1)
    BY <1>1, <1>2, <1>4, <2>1, DownsFirst
  <2>4. Head(todo).do = "get" /\ Head(todo).name = n /\ Head(todo).make = "none"
    BY <2>3 DEF Get
  <2>5. Lookup
    BY <1>1, <2>4, ActionOf DEF CreateNode, MayCreate
  <2>6. PICK rest : rest = Flush \o (<<DescendTo(n)>> \o u)
    OBVIOUS
  <2>7. /\ Proceed(rest, ScanEnd(n)) /\ root' = root /\ data' = data /\ nodes' = nodes /\ cwd' = cwd
    BY <2>3, <2>4, <2>5, <2>6 DEF Lookup, memory, volume
  <2>8. rest # <<>>
    <3>1. u \in Seq(Steps) /\ Flush \in Fronts /\ DescendTo(n) \in Steps
      BY <2>2, <2>3, DownSteps DEF Downs
    <3> QED BY <2>6, <3>1, FrontKinds
  <2>9. todo' = rest /\ node' = ScanEnd(n) /\ cmd' = cmd /\ orig' = orig
    BY <2>7, <2>8 DEF Proceed
  <2>10. ScanEnd(n) = ScanIn(nodes, n)
    <3>1. nodes \in RegionEntries
      BY <1>1, <2>4, NoWrites
    <3> QED BY <3>1, Scans
  <2>11. nodes' = Region(cwd)'
    BY <1>1, <2>7 DEF Region
  <2>12. Sought(names, j)'
    <3>1. Flush \in FlushLeft
      BY DEF FlushLeft
    <3> QED BY <2>1, <2>3, <2>6, <2>7, <2>9, <2>10, <2>11, <3>1 DEF Sought
  <2>13. Comes(g, start, names, j)'
    BY <1>1, <2>7, ComesSame
  <2> QED BY <1>1, <2>2, <2>7, <2>9, <2>12, <2>13, DownAlong DEF Along
<1> QED
  BY <1>3, <1>4

\* A mkdir enters the directory that was found, or that it has made.
LEMMA DownEnters ==
    ASSUME CacheInv, NEW V, NEW p, NEW start, NEW names, NEW g, NEW j,
           Under(V, p, start, names, g, j), j + 1 \in 1 .. Len(names), nodes = Region(cwd),
           node = ScanIn(nodes, names[j + 1]), node # 0, nodes[node].dir,
           NEW t, Downs(t, names, j + 1), Load(nodes[node].first), Proceed(t, 0)
    PROVE  DownInv'
<1>1. /\ PathOf(p, start, names) /\ names \in Seq(DOMAIN Short) /\ j \in 0 .. Len(names)
      /\ Comes(g, start, names, j) /\ cwd = g[j]
  BY DEF Under
<1>2. VolumeTyped /\ cwd \in Starts /\ nodes \in RegionEntries
  BY RegionType DEF CacheInv, MemoryTyped
<1>3. PICK n : n = names[j + 1]
  OBVIOUS
<1>4. PICK x : x = nodes[node].first
  OBVIOUS
<1>5. Following(cwd, n) = x
  BY <1>2, <1>3, <1>4, ScanFollows
<1>6. x \in Starts
  <2>1. node \in SlotSet
    BY <1>2, ScanMeans
  <2>2. nodes[node] \in NodeEntry
    BY <1>2, <2>1 DEF RegionEntries, SlotSet
  <2> QED BY <1>4, <2>2 DEF NodeEntry, Starts
<1>7. j + 1 \in 0 .. Len(names) /\ j \in 0 .. Len(names) - 1 /\ Len(names) \in Nat
  BY <1>1
<1>8. PICK h : Comes(h, start, names, j + 1) /\ h[j + 1] = x
  BY <1>1, <1>3, <1>5, <1>6, <1>7, ComesOn
<1>9. /\ root' = root /\ data' = data /\ cwd' = x /\ nodes' = Region(x)
  BY <1>4 DEF Load, volume
<1>10. t # <<>>
  BY <1>7, DownsFirst
<1>11. todo' = t /\ cmd' = cmd /\ orig' = orig
  BY <1>10 DEF Proceed
<1>12. nodes' = Region(cwd)'
  BY <1>9 DEF Region
<1>13. Seeking(names, j + 1)'
  BY <1>11, <1>12 DEF Seeking
<1>14. Comes(h, start, names, j + 1)'
  BY <1>8, <1>9, ComesSame
<1> QED
  BY <1>1, <1>7, <1>8, <1>9, <1>11, <1>13, <1>14, DownAlong DEF Along

\* A mkdir that has looked up a component writes what there is, and goes on from what it found.
LEMMA DownSought ==
    ASSUME CacheInv, Advance, NEW V, NEW p, NEW start, NEW names, NEW g, NEW j,
           Under(V, p, start, names, g, j), j + 1 \in 1 .. Len(names), Sought(names, j)
    PROVE  DownInv'
<1>1. /\ todo # <<>> /\ PathOf(p, start, names) /\ names \in Seq(DOMAIN Short) /\ j \in 0 .. Len(names)
      /\ Comes(g, start, names, j) /\ cwd = g[j] /\ nodes = Region(cwd)
      /\ node = ScanIn(nodes, names[j + 1])
  BY DEF Under, Sought
<1>2. PICK n : n = names[j + 1]
  OBVIOUS
<1>3. n \in DOMAIN Short
  BY <1>1, <1>2
<1>4. PICK t : \E f \in FlushLeft : todo = f \o (<<DescendTo(n)>> \o t) /\ Downs(t, names, j + 1)
  BY <1>2 DEF Sought
<1>5. PICK f \in FlushLeft : todo = f \o (<<DescendTo(n)>> \o t) /\ Downs(t, names, j + 1)
  BY <1>4
<1>6. t \in Seq(Steps) /\ f \in Fronts /\ DescendTo(n) \in Steps
  BY <1>3, <1>5, DownSteps DEF Downs, Fronts
<1>7. CASE f # <<>>
  <2>1. PICK r : r = Tail(f) \o (<<DescendTo(n)>> \o t)
    OBVIOUS
  <2>2. /\ f[1].do \in {"store", "fat1", "fat2", "dir"} /\ Tail(f) \in FlushLeft
        /\ Head(todo) = f[1] /\ Tail(todo) = r
    <3>1. PICK e : e = DescendTo(n)
      OBVIOUS
    <3>2. todo = f \o (<<e>> \o t) /\ r = Tail(f) \o (<<e>> \o t) /\ e \in Steps
      BY <1>5, <1>6, <2>1, <3>1
    <3>3. /\ f[1].do \in {"store", "fat1", "fat2", "dir"} /\ Tail(f) \in FlushLeft
          /\ Head(f \o (<<e>> \o t)) = f[1]
          /\ Tail(f \o (<<e>> \o t)) = Tail(f) \o (<<e>> \o t)
      <4>1. t \in Seq(Steps) /\ f \in Fronts /\ e \in Steps
        BY <1>6, <3>2
      <4>2. Head(f \o (<<e>> \o t)) = f[1]
        BY <1>7, <4>1, FrontKinds
      <4>3. Tail(f \o (<<e>> \o t)) = Tail(f) \o (<<e>> \o t)
        BY <1>7, <4>1, FrontKinds
      <4>4. f[1].do \in {"store", "fat1", "fat2", "dir"} /\ Tail(f) \in FlushLeft
        BY <1>7, <4>1, FrontKinds
      <4> QED BY <4>2, <4>3, <4>4
    <3> QED BY <3>2, <3>3, Zenon
  <2>3. f[1].do # "store"
    <3>1. CASE f = Flush
      BY <3>1 DEF Flush, Step
    <3>2. CASE f = <<Step("fat2"), Step("dir")>>
      BY <3>2 DEF Step
    <3>3. CASE f = <<Step("dir")>>
      BY <3>3 DEF Step
    <3> QED BY <1>5, <1>7, <3>1, <3>2, <3>3 DEF FlushLeft
  <2>4. FlushFat1 \/ FlushFat2 \/ FlushDir
    BY <1>1, <2>2, <2>3, ActionOf
  <2>5. /\ Proceed(r, node) /\ cwd' = cwd /\ nodes' = nodes
        /\ (root' = root /\ data' = data) \/ WriteRegion(cwd, nodes)
    BY <2>2, <2>4 DEF FlushFat1, FlushFat2, FlushDir, memory
  <2>6. root' = root /\ data' = data
    <3>1. VolumeTyped /\ cwd \in Starts
      BY DEF CacheInv, MemoryTyped
    <3> QED BY <1>1, <2>5, <3>1, WriteSame
  <2>7. r # <<>>
    <3>1. Tail(f) \in Fronts
      BY <2>2 DEF Fronts
    <3> QED BY <1>6, <2>1, <3>1, FrontKinds
  <2>8. todo' = r /\ node' = node /\ cmd' = cmd /\ orig' = orig
    BY <2>5, <2>7 DEF Proceed
  <2>9. nodes' = Region(cwd)'
    BY <1>1, <2>5, <2>6 DEF Region
  <2>10. Sought(names, j)'
    BY <1>1, <1>2, <1>5, <2>1, <2>2, <2>5, <2>8, <2>9 DEF Sought
  <2>11. Comes(g, start, names, j)'
    BY <1>1, <2>6, ComesSame
  <2> QED BY <1>1, <2>5, <2>8, <2>10, <2>11, DownAlong DEF Along
<1>8. CASE f = <<>>
  <2>1. Head(todo) = DescendTo(n) /\ Tail(todo) = t
    BY <1>5, <1>6, <1>8, FrontKinds
  <2>2. Descend /\ Head(todo).name = n
    BY <1>1, <2>1, DownActions DEF DescendTo
  <2>3. node # 0
    BY <2>2 DEF Descend
  <2>4. PICK e : e = nodes[node]
    OBVIOUS
  <2>5. CASE e.state = "used" /\ ~e.dir /\ Load(orig) /\ Proceed(<<>>, 0)
    BY <2>5, DownEnds DEF Proceed
  <2>6. CASE e.state = "used" /\ e.dir /\ Load(e.first) /\ Proceed(t, 0)
    <3>1. nodes[node].dir /\ Load(nodes[node].first) /\ node = ScanIn(nodes, names[j + 1])
      BY <1>1, <2>4, <2>6
    <3> QED BY <1>1, <1>5, <2>3, <2>6, <3>1, DownEnters
  <2>7. CASE /\ e.state = "unused"
             /\ Proceed(<<Get(n, "dir"), Step("into")>> \o t, 0)
             /\ UNCHANGED <<volume, memory, torn>>
    <3>1. PICK c : c = <<Get(n, "dir"), Step("into")>>
      OBVIOUS
    <3>2. c \in Seq(Steps) /\ c # <<>>
      BY <1>3, <3>1, DownSteps
    <3>3. PICK r : r = c \o t
      OBVIOUS
    <3>4. r # <<>>
      BY <1>6, <3>2, <3>3, FrontFirst
    <3>5. Proceed(r, 0)
      BY <2>7, <3>1, <3>3
    <3>6. todo' = r /\ cmd' = cmd /\ orig' = orig
      BY <3>4, <3>5 DEF Proceed
    <3>7. root' = root /\ data' = data /\ cwd' = cwd /\ nodes' = nodes
      BY <2>7 DEF volume, memory
    <3>8. nodes' = Region(cwd)'
      BY <1>1, <3>7 DEF Region
    <3>9. Making(names, j)'
      BY <1>2, <1>5, <3>1, <3>3, <3>6, <3>8 DEF Making
    <3>10. Comes(g, start, names, j)'
      BY <1>1, <3>7, ComesSame
    <3> QED BY <1>1, <3>6, <3>7, <3>9, <3>10, DownAlong DEF Along
  <2> QED BY <2>1, <2>2, <2>4, <2>5, <2>6, <2>7 DEF Descend
<1> QED
  BY <1>7, <1>8

\* Where a scan for a name ends at an entry never used, the first slot that is not in use is
\* a place for a new entry of that name.
LEMMA FirstSlotOpen ==
    ASSUME nodes \in RegionEntries, NEW n, NEW u, u = ScanIn(nodes, n), u # 0, nodes[u].state = "unused"
    PROVE  OpenFor(nodes, n, FirstSlot(n))
<1> DEFINE open == {i \in 1 .. u : nodes[i].state # "used"}
<1>1. u \in SlotSet /\ ScanEnd(n) = u
  BY ScanMeans, Scans
<1>2. 1 .. u \subseteq SlotSet /\ SlotSet \subseteq Nat /\ u \in 1 .. u
  BY <1>1, Spans DEF SlotSet
<1>3. FirstSlot(n) = IF open = {} THEN 0 ELSE Min(open)
  BY <1>1 DEF FirstSlot
<1>4. u \in open /\ open \in SUBSET Nat /\ open \subseteq 1 .. u
  BY <1>2
<1>5. \A i \in 1 .. u : i \notin open => nodes[i].state = "used"
  OBVIOUS
<1>6. \A i \in open : nodes[i].state # "used"
  OBVIOUS
<1> HIDE DEF open
<1>7. PICK k : k = FirstSlot(n)
  OBVIOUS
<1>8. k \in open /\ \A i \in open : k <= i
  BY <1>3, <1>4, <1>7, MinFacts
<1>9. k \in SlotSet /\ k <= u /\ nodes[k].state # "used"
  BY <1>2, <1>4, <1>6, <1>8
<1>10. ASSUME NEW m \in SlotSet, m < k PROVE nodes[m].state = "used"
  <2>1. m \in Nat /\ k \in Nat /\ u \in Nat /\ m >= 1
    BY <1>1, <1>2, <1>9 DEF SlotSet
  <2>2. m \in 1 .. u /\ ~(k <= m)
    BY <1>9, <1>10, <2>1
  <2> QED BY <1>5, <1>8, <2>2
<1>11. \A m \in SlotSet : m < u => ~Stops(nodes[m], n)
  BY <1>1, ScanMeans
<1> QED
  BY <1>1, <1>7, <1>9, <1>10, <1>11 DEF OpenFor

\* What a mkdir makes, in the place it found.
LEMMA DownMaking ==
    ASSUME CacheInv, Advance, NEW V, NEW p, NEW start, NEW names, NEW g, NEW j,
           Under(V, p, start, names, g, j), j + 1 \in 1 .. Len(names), Making(names, j)
    PROVE  DownInv'
<1>1. /\ todo # <<>> /\ PathOf(p, start, names) /\ names \in Seq(DOMAIN Short) /\ j \in 0 .. Len(names)
      /\ Comes(g, start, names, j) /\ cwd = g[j] /\ nodes = Region(cwd)
  BY DEF Under, Making
<1>2. PICK n : n = names[j + 1]
  OBVIOUS
<1>3. n \in DOMAIN Short
  BY <1>1, <1>2
<1>4. PICK t : todo = <<Get(n, "dir"), Step("into")>> \o t /\ Downs(t, names, j + 1)
  BY <1>2 DEF Making
<1>5. t \in Seq(Steps) /\ Step("into") \in Steps
  BY <1>3, <1>4, DownSteps DEF Downs
<1>6. Head(todo) = Get(n, "dir") /\ Tail(todo) = <<Step("into")>> \o t
  <2>1. PICK c : c = <<Get(n, "dir"), Step("into")>>
    OBVIOUS
  <2>2. c \in Seq(Steps) /\ c # <<>> /\ c[1] = Get(n, "dir") /\ Tail(c) = <<Step("into")>>
    BY <1>3, <2>1, DownSteps
  <2>3. Head(c \o t) = c[1] /\ Tail(c \o t) = Tail(c) \o t
    BY <1>5, <2>2, FrontFirst
  <2> QED BY <1>4, <2>1, <2>2, <2>3
<1>7. Head(todo).do = "get" /\ Head(todo).name = n /\ Head(todo).make = "dir"
  BY <1>6 DEF Get
<1>8. MayCreate(Head(todo))
  BY <1>1, <1>7, AfterGet
<1>9. CreateNode
  BY <1>1, <1>7, <1>8, ActionOf DEF Lookup
<1>10. InOrder(0) /\ nodes \in RegionEntries
  BY <1>1, <1>7, NoWrites
<1>11. PICK slot : slot = FirstSlot(n)
  OBVIOUS
<1>12. OpenFor(nodes, n, slot)
  <2>1. todo[1] = Head(todo)
    BY <1>1, <1>7, AfterGet
  <2>2. ScanIn(nodes, n) # 0 /\ nodes[ScanIn(nodes, n)].state = "unused"
    BY <1>1, <1>7, <1>10, <2>1 DEF InOrder, PlaceKnown
  <2> QED BY <1>10, <1>11, <2>2, FirstSlotOpen
<1>13. PICK first : first = ReallocateStart(LoadedTable, Eof, DirSpan)
  OBVIOUS
<1>14. PICK e : e = Entry("used", Short[n], TRUE, first, 0)
  OBVIOUS
<1>15. PICK x : x = [do |-> "store", at |-> first, contents |-> Dots(first)]
  OBVIOUS
<1>16. PICK rest : rest = (<<x>> \o Flush) \o (<<Step("into")>> \o t)
  OBVIOUS
<1>17. /\ CanReallocate(LoadedTable, Eof, DirSpan)
       /\ nodes' = [nodes EXCEPT ![slot] = e]
       /\ Proceed(rest, slot)
       /\ root' = root /\ data' = data /\ cwd' = cwd
  BY <1>6, <1>7, <1>9, <1>11, <1>13, <1>14, <1>15, <1>16 DEF CreateNode, ClustersFor, volume
<1>18. first \in Clusters
  <2>1. LoadedTable \in Table
    BY LoadedType DEF CacheInv, MemoryTyped
  <2>2. DirSpan \in Nat /\ DirSpan # 0
    BY Spans
  <2> QED BY <1>13, <1>17, <2>1, <2>2, StartType
<1>19. x \in Stores /\ <<x>> \o Flush \in Fronts
  <2>1. x \in Stores
    BY <1>15, <1>18, DotsType, Marks DEF Stores, Clusters
  <2> QED BY <2>1 DEF Fronts
<1>20. NewDir(e, n) /\ e.dir
  <2>1. e \in NodeEntry
    BY <1>3, <1>14, <1>18, NewEntryType
  <2> QED BY <1>14, <2>1 DEF NewDir, Entry
<1>21. rest # <<>>
  BY <1>5, <1>16, <1>19, FrontKinds
<1>22. todo' = rest /\ node' = slot /\ cmd' = cmd /\ orig' = orig
  BY <1>17, <1>21 DEF Proceed
<1>23. PICK s : s = nodes
  OBVIOUS
<1>24. Region(cwd)' = s /\ s \in RegionEntries /\ nodes' = Put(s, slot, e) /\ OpenFor(s, n, slot)
  BY <1>1, <1>10, <1>12, <1>17, <1>23 DEF Region, Put
<1>25. slot # 0 /\ ScanIn(nodes', n) = slot /\ nodes'[slot] = e
  <2>1. ScanIn(nodes', n) = slot /\ nodes'[slot] = e
    <3>1. PICK r : r = nodes'
      OBVIOUS
    <3>2. r = Put(s, slot, e)
      BY <1>24, <3>1
    <3>3. s \in RegionEntries /\ OpenFor(s, n, slot) /\ NewDir(e, n)
      BY <1>20, <1>24
    <3>4. ScanIn(r, n) = slot /\ r[slot] = e
      BY <3>2, <3>3, OpenFound
    <3> QED BY <3>1, <3>4
  <2> QED BY <1>24, <2>1 DEF OpenFor, SlotSet
<1>26. Made(names, j)'
  <2>1. Appended(n)'
    BY <1>20, <1>22, <1>24 DEF Appended
  <2>2. node' # 0 /\ nodes'[node'].dir /\ node' = ScanIn(nodes', n)
    BY <1>20, <1>22, <1>25
  <2>3. PICK f \in Fronts : f = <<x>> \o Flush
    BY <1>19
  <2>4. todo' = f \o (<<Step("into")>> \o t) /\ Downs(t, names, j + 1)
    BY <1>4, <1>16, <1>22, <2>3
  <2>5. f # <<>>
    BY <1>19, <2>3, FlushType DEF Steps
  <2> QED BY <1>2, <2>1, <2>2, <2>4, <2>5 DEF Made
<1>27. Comes(g, start, names, j)'
  BY <1>1, <1>17, ComesSame
<1> QED
  BY <1>1, <1>17, <1>22, <1>26, <1>27, DownAlong DEF Along

\* Where names lead from a typed directory is found in its entries.
FollowsRegions ==
    VolumeTyped => \A c \in Starts : \A n : Following(c, n) = FollowIn(Region(c), n)

LEMMA FollowingNext ==
    FollowsRegions'
<1>1. FollowsRegions
  BY FollowingIn DEF FollowsRegions
<1> QED
  BY <1>1, PTL

\* Writing a directory that has got a new entry keeps where the names lead to.
LEMMA AppendKept ==
    ASSUME SettledNames, CacheInv, NEW V, Sound(fat1, V, Vol(V)), cwd \in V,
           NEW n \in DOMAIN Short, Appended(n), WriteRegion(cwd, nodes), cwd' = cwd
    PROVE  /\ Region(cwd)' = nodes
           /\ \A d \in V : \A b \in DOMAIN Short :
                 Following(d, b) # Eof => Following(d, b)' = Following(d, b)
<1>1. /\ VolumeTyped /\ V \subseteq Starts /\ RootCluster \in V
      /\ \A b, d \in V \ {RootCluster} : b # d => Rows(b) \cap Rows(d) = {}
  BY SoundBegun DEF CacheInv, Begun
<1>2. PICK c : c = cwd
  OBVIOUS
<1>3. PICK s : s = Region(c)
  OBVIOUS
<1>4. c \in V /\ c \in Starts /\ s \in RegionEntries /\ OwnNames(s)
  BY <1>1, <1>2, <1>3, SoundNames
<1>5. PICK r : r = nodes
  OBVIOUS
<1>6. PICK i : i = node
  OBVIOUS
<1>7. PICK e : OpenFor(s, n, i) /\ NewDir(e, n) /\ r = Put(s, i, e)
  BY <1>2, <1>3, <1>5, <1>6 DEF Appended
<1>8. r \in RegionEntries
  BY <1>4, <1>7, OpenFound
<1>9. WriteRegion(c, r)
  BY <1>2, <1>5
<1>10. VolumeTyped' /\ Region(c)' = r
  BY <1>1, <1>4, <1>8, <1>9, WriteRegionEffect
<1>11. ASSUME NEW d \in V, NEW b \in DOMAIN Short, Following(d, b) # Eof
       PROVE  Following(d, b)' = Following(d, b)
  <2>1. CASE d = c
    <3>1. Following(c, b) = FollowIn(s, b)
      BY <1>1, <1>3, <1>4, FollowingIn
    <3>2. FollowIn(r, b) = FollowIn(s, b)
      BY <1>4, <1>7, <1>11, <2>1, <3>1, OpenKeeps
    <3>3. Following(c, b)' = FollowIn(r, b)
      <4>1. \A x \in Starts : Following(x, b)' = FollowIn(Region(x)', b)
        BY <1>10, FollowingNext DEF FollowsRegions
      <4> QED BY <1>4, <1>10, <4>1
    <3> QED BY <2>1, <3>1, <3>2, <3>3
  <2>2. CASE d # c
    <3>1. c # RootCluster /\ d # RootCluster => Rows(d) \cap Rows(c) = {}
      BY <1>1, <1>4, <2>2
    <3>2. d \in Starts
      BY <1>1
    <3>3. Region(d)' = Region(d)
      BY <1>1, <1>4, <1>9, <1>10, <2>2, <3>1, <3>2, OthersLeft
    <3> QED BY <3>3, FollowingAs
  <2> QED BY <2>1, <2>2
<1>12. Region(cwd)' = nodes
  <2>1. Region(c)' = r
    BY <1>10
  <2>2. Region(cwd)' = Region(c)'
    BY <1>2, RegionHere
  <2> QED BY <1>5, <2>1, <2>2
<1> QED
  BY <1>11, <1>12

\* A mkdir writes the directory it has made, and then the one that has the entry, and enters
\* the first.
LEMMA DownMade ==
    ASSUME SettledNames, CacheInv, Advance, NEW V, NEW M, Kept(V, M),
           NEW p, NEW start, NEW names, NEW g, NEW j,
           Under(V, p, start, names, g, j), j + 1 \in 1 .. Len(names), Made(names, j)
    PROVE  DownInv'
<1>1. /\ todo # <<>> /\ PathOf(p, start, names) /\ names \in Seq(DOMAIN Short) /\ j \in 0 .. Len(names)
      /\ Comes(g, start, names, j) /\ cwd = g[j] /\ cwd \in V /\ start \in V /\ Sound(fat1, V, Vol(V))
      /\ node # 0 /\ nodes[node].dir /\ node = ScanIn(nodes, names[j + 1])
  BY DEF Under, Made
<1>2. PICK n : n = names[j + 1]
  OBVIOUS
<1>3. n \in DOMAIN Short /\ VolumeTyped
  BY <1>1, <1>2 DEF CacheInv
<1>4. PICK t : \E f \in Fronts :
         /\ todo = f \o (<<Step("into")>> \o t) /\ Downs(t, names, j + 1)
         /\ IF f = <<>> THEN nodes = Region(cwd) ELSE Appended(n)
  BY <1>2 DEF Made
<1>5. PICK f \in Fronts :
         /\ todo = f \o (<<Step("into")>> \o t) /\ Downs(t, names, j + 1)
         /\ IF f = <<>> THEN nodes = Region(cwd) ELSE Appended(n)
  BY <1>4
<1>6. PICK x : x = Step("into")
  OBVIOUS
<1>7. x \in Steps /\ x.do = "into" /\ t \in Seq(Steps) /\ todo = f \o (<<x>> \o t)
  BY <1>3, <1>5, <1>6, DownSteps DEF Downs
<1>8. CASE f = <<>>
  <2>1. Head(todo) = x /\ Tail(todo) = t
    BY <1>7, <1>8, FrontKinds
  <2>2. IntoNew
    BY <1>1, <1>7, <2>1, DownActions
  <2>3. Load(nodes[node].first) /\ Proceed(t, 0) /\ nodes = Region(cwd)
    BY <1>5, <1>8, <2>1, <2>2 DEF IntoNew
  <2> QED BY <1>1, <1>5, <2>3, DownEnters
<1>9. CASE f # <<>>
  <2>1. PICK r : r = Tail(f) \o (<<x>> \o t)
    OBVIOUS
  <2>2. /\ f[1].do \in {"store", "fat1", "fat2", "dir"} /\ Tail(f) \in FlushLeft
        /\ Tail(f) = <<>> <=> f[1].do = "dir"
    BY <1>7, <1>9, FrontKinds
  <2>3. Head(todo) = f[1] /\ Tail(todo) = r
    BY <1>7, <1>9, <2>1, FrontKinds
  <2>4. Tail(f) \in Fronts
    BY <2>2 DEF Fronts
  <2>5. r # <<>>
    BY <1>7, <2>1, <2>4, FrontKinds
  <2>6. FlushFat1 \/ FlushFat2 \/ FlushDir \/ Store
    BY <1>1, <2>2, <2>3, ActionOf, DownActions
  <2>7. Proceed(r, node) /\ cwd' = cwd /\ nodes' = nodes
    BY <2>3, <2>6 DEF FlushFat1, FlushFat2, FlushDir, Store, memory
  <2>8. todo' = r /\ node' = node /\ cmd' = cmd /\ orig' = orig
    BY <2>5, <2>7 DEF Proceed
  <2>9. Appended(n)
    BY <1>5, <1>9
  <2>10. CASE Tail(f) = <<>>
    <3>1. FlushDir
      BY <1>1, <2>2, <2>3, <2>10, ActionOf
    <3>2. WriteRegion(cwd, nodes)
      BY <3>1 DEF FlushDir
    <3>3. /\ Region(cwd)' = nodes
          /\ \A d \in V : \A b \in DOMAIN Short :
                Following(d, b) # Eof => Following(d, b)' = Following(d, b)
      BY <1>1, <1>3, <2>7, <2>9, <3>2, AppendKept
    <3>4. Comes(g, start, names, j)'
      BY <1>1, <1>3, <3>3, ComesKept
    <3>5. nodes' = Region(cwd)'
      BY <2>7, <3>3
    <3>6. Made(names, j)'
      <4>1. todo' = Tail(f) \o (<<Step("into")>> \o t)
        BY <1>6, <2>1, <2>8
      <4>2. node' # 0 /\ nodes'[node'].dir /\ node' = ScanIn(nodes', names[j + 1])
        BY <1>1, <2>7, <2>8
      <4> QED BY <1>5, <2>4, <2>10, <3>5, <4>1, <4>2 DEF Made
    <3> QED BY <1>1, <2>7, <2>8, <3>4, <3>6, DownAlong DEF Along
  <2>11. CASE Tail(f) # <<>>
    <3>1. \A d \in V : Region(d)' = Region(d)
      <4>1. CASE Store
        BY <4>1, StoreSpares
      <4>2. CASE FlushFat1 \/ FlushFat2
        BY <4>2 DEF FlushFat1, FlushFat2, Region
      <4>3. CASE FlushDir
        BY <2>2, <2>3, <2>11, <4>3 DEF FlushDir, Next1
      <4> QED BY <2>6, <4>1, <4>2, <4>3
    <3>2. \A d \in V : \A b \in DOMAIN Short :
             Following(d, b) # Eof => Following(d, b)' = Following(d, b)
      BY <3>1, FollowingAs
    <3>3. Comes(g, start, names, j)'
      BY <1>1, <1>3, <3>2, ComesKept
    <3>4. Appended(n)'
      <4>1. PICK c : c = cwd
        OBVIOUS
      <4>2. PICK s : s = Region(c)
        OBVIOUS
      <4>3. Region(cwd)' = s
        <5>1. cwd' = c
          BY <2>7, <4>1
        <5>2. Region(c)' = s
          BY <1>1, <3>1, <4>1, <4>2
        <5> QED BY <5>1, <5>2, RegionHere
      <4>4. /\ OpenFor(s, n, node)
            /\ \E e : NewDir(e, n) /\ nodes = Put(s, node, e)
        BY <2>9, <4>1, <4>2 DEF Appended
      <4> QED BY <2>7, <2>8, <4>3, <4>4 DEF Appended
    <3>5. Made(names, j)'
      <4>1. todo' = Tail(f) \o (<<Step("into")>> \o t)
        BY <1>6, <2>1, <2>8
      <4>2. node' # 0 /\ nodes'[node'].dir /\ node' = ScanIn(nodes', names[j + 1])
        BY <1>1, <2>7, <2>8
      <4> QED BY <1>2, <1>5, <2>4, <2>11, <3>4, <4>1, <4>2 DEF Made
    <3> QED BY <1>1, <2>7, <2>8, <3>3, <3>5, DownAlong DEF Along
  <2> QED BY <2>10, <2>11
<1> QED
  BY <1>8, <1>9

\* A mkdir of a path from the root starts there.
LEMMA DownToRoot ==
    ASSUME CacheInv, Advance, todo # <<>>, NEW p, NEW names \in Seq(DOMAIN Short),
           PathOf(p, RootCluster, names), NEW t, todo = <<Step("root")>> \o t, Downs(t, names, 0)
    PROVE  DownInv'
<1>1. PICK x : x = Step("root")
  OBVIOUS
<1>2. x \in Steps /\ x.do = "root" /\ t \in Seq(Steps) /\ todo = <<x>> \o t
  BY <1>1 DEF Step, Steps, Others, Downs
<1>3. Head(todo) = x /\ Tail(todo) = t
  BY <1>2, Pushed
<1>4. Load(RootCluster) /\ Proceed(t, 0)
  BY <1>2, <1>3, ActionOf DEF ToRoot
<1>5. PICK N \in Nat : N = Len(names)
  OBVIOUS
<1>6. t # <<>>
  <2>1. 0 \in 0 .. N
    OBVIOUS
  <2> QED BY <1>5, <2>1, DownsFirst
<1>7. todo' = t /\ cmd' = cmd /\ orig' = orig
  BY <1>4, <1>6 DEF Proceed
<1>8. cwd' = RootCluster /\ nodes' = Region(RootCluster) /\ root' = root /\ data' = data
  BY <1>4 DEF Load, volume
<1>9. PICK g : g = [k \in 0 .. Len(names) |-> RootCluster]
  OBVIOUS
<1>10. g[0] = RootCluster /\ 0 \in 0 .. Len(names)
  BY <1>5, <1>9
<1>11. Comes(g, RootCluster, names, 0)
  BY <1>9, <1>10 DEF Comes, Starts
<1>12. Comes(g, RootCluster, names, 0)'
  BY <1>8, <1>11, ComesSame
<1>13. Seeking(names, 0)'
  BY <1>7, <1>8 DEF Seeking, Region
<1> QED
  BY <1>7, <1>8, <1>10, <1>12, <1>13, DownAlong DEF Along

\* A mkdir goes on along its path.
LEMMA DownAdvance ==
    ASSUME SettledNames, CacheInv, DownInv, Advance, todo # <<>>, cmd.op = "mkdir",
           NEW V, NEW M, Kept(V, M)
    PROVE  DownInv'
<1>1. PICK p, start, names : PathOf(p, start, names)
  BY DEF PathOf
<1>2. names \in Seq(DOMAIN Short) /\ OnPath(start, names)
  BY <1>1 DEF DownInv
<1>3. mounted /\ Sound(fat1, V, Vol(V)) /\ cwd \in V /\ start \in V
  BY <1>1, MkdirSound
<1>4. CASE /\ start = RootCluster
           /\ \E t : todo = <<Step("root")>> \o t /\ Downs(t, names, 0)
  BY <1>1, <1>2, <1>4, DownToRoot
<1>5. CASE \E g : \E j \in 0 .. Len(names) : Comes(g, start, names, j) /\ cwd = g[j] /\ Along(names, j)
  <2>1. PICK g : \E j \in 0 .. Len(names) : Comes(g, start, names, j) /\ cwd = g[j] /\ Along(names, j)
    BY <1>5
  <2>2. PICK j \in 0 .. Len(names) : Comes(g, start, names, j) /\ cwd = g[j] /\ Along(names, j)
    BY <2>1
  <2>3. Under(V, p, start, names, g, j)
    BY <1>1, <1>2, <1>3, <2>2 DEF Under
  <2>4. CASE Seeking(names, j)
    BY <2>3, <2>4, DownSeeks
  <2>5. CASE j + 1 \in 1 .. Len(names) /\ Sought(names, j)
    BY <2>3, <2>5, DownSought
  <2>6. CASE j + 1 \in 1 .. Len(names) /\ Making(names, j)
    BY <2>3, <2>6, DownMaking
  <2>7. CASE j + 1 \in 1 .. Len(names) /\ Made(names, j)
    BY <2>3, <2>7, DownMade
  <2> QED BY <2>2, <2>4, <2>5, <2>6, <2>7 DEF Along
<1> QED
  BY <1>2, <1>4, <1>5 DEF OnPath

\* A mkdir is a lookup and a move for each name of its path, and the way back.
LEMMA VisitDowns ==
    ASSUME NEW p, p.names \in Seq(DOMAIN Short)
    PROVE  \E v : Visit(p, "descend") \o <<Step("back")>> = ToStart(p) \o v /\ Downs(v, p.names, 0)
<1>1. PICK names : names = p.names
  OBVIOUS
<1>2. PICK N : N = Len(names)
  OBVIOUS
<1>3. names \in Seq(DOMAIN Short) /\ N \in Nat /\ 2 * N \in Nat
  BY <1>1, <1>2
<1> DEFINE item(i) == LET name == names[(i + 1) \div 2]
                      IN  IF i % 2 = 1 THEN Get(name, "none") ELSE [do |-> "descend", name |-> name]
<1>4. PICK w : w = [i \in 1 .. 2 * N |-> item(i)]
  OBVIOUS
<1>5. Visit(p, "descend") = ToStart(p) \o w
  BY <1>1, <1>2, <1>4 DEF Visit
<1>6. ASSUME NEW i \in 1 .. N
      PROVE  /\ 2 * i - 1 \in 1 .. 2 * N /\ 2 * i \in 1 .. 2 * N
             /\ item(2 * i - 1) = Get(names[i], "none") /\ item(2 * i) = DescendTo(names[i])
  <2>1. /\ 2 * i - 1 \in 1 .. 2 * N /\ 2 * i \in 1 .. 2 * N
        /\ ((2 * i - 1) + 1) \div 2 = i /\ (2 * i - 1) % 2 = 1
        /\ (2 * i + 1) \div 2 = i /\ (2 * i) % 2 # 1
    BY <1>3
  <2> QED BY <2>1 DEF DescendTo
<1>7. ASSUME NEW i \in 1 .. 2 * N PROVE item(i) \in Steps
  <2>1. (i + 1) \div 2 \in 1 .. N
    BY <1>3
  <2>2. names[(i + 1) \div 2] \in DOMAIN Short
    BY <1>2, <1>3, <2>1
  <2>3. item(i) \in {Get(names[(i + 1) \div 2], "none"), DescendTo(names[(i + 1) \div 2])}
    BY DEF DescendTo
  <2> HIDE DEF item
  <2> QED BY <2>2, <2>3, DownSteps
<1> HIDE DEF item
<1>8. w \in Seq(Steps) /\ Len(w) = 2 * N /\ \A i \in 1 .. 2 * N : w[i] = item(i)
  <2>1. w \in [1 .. 2 * N -> Steps]
    BY <1>4, <1>7
  <2> QED BY <1>3, <1>4, <2>1, SeqFun
<1>9. PICK b : b = Step("back")
  OBVIOUS
<1>10. b \in Steps /\ <<b>> \in Seq(Steps)
  BY <1>9 DEF Step, Steps, Others
<1>11. PICK v : v = w \o <<b>>
  OBVIOUS
<1>12. /\ v \in Seq(Steps) /\ Len(v) = 2 * N + 1 /\ v[Len(v)] = b
       /\ \A i \in 1 .. 2 * N : v[i] = item(i)
  BY <1>3, <1>8, <1>10, <1>11
<1>13. Downs(v, names, 0)
  <2>1. N - 0 = N /\ \A i \in 1 .. N : 0 + i = i
    BY <1>3
  <2>2. \A i \in 1 .. N : v[2 * i - 1] = Get(names[i], "none") /\ v[2 * i] = DescendTo(names[i])
    BY <1>6, <1>12
  <2> QED BY <1>2, <1>9, <1>12, <2>1, <2>2 DEF Downs
<1>14. ToStart(p) \in Seq(Steps)
  <2>1. Step("root") \in Steps
    BY DEF Step, Steps, Others
  <2> QED BY <2>1 DEF ToStart
<1>15. Visit(p, "descend") \o <<b>> = ToStart(p) \o v
  <2>1. PICK s : s = ToStart(p)
    OBVIOUS
  <2>2. PICK c : c = <<b>>
    OBVIOUS
  <2>3. s \in Seq(Steps) /\ w \in Seq(Steps) /\ c \in Seq(Steps)
    BY <1>8, <1>10, <1>14, <2>1, <2>2
  <2>4. (s \o w) \o c = s \o (w \o c)
    BY <2>3, ConcatAssociative
  <2> QED BY <1>5, <1>11, <2>1, <2>2, <2>4
<1> QED
  BY <1>1, <1>9, <1>13, <1>15

\* A mkdir sets out from the working directory, along its path or to the root first.
LEMMA DownSetsOut ==
    ASSUME CacheInv, NEW path \in Paths, NEW p, p = ConstructPath(path), Mkdir(p)
    PROVE  DownInv'
<1>1. PICK names : names = p.names
  OBVIOUS
<1>2. names \in Seq(DOMAIN Short) /\ Len(names) \in Nat
  BY <1>1, PathNames
<1>3. PICK steps : steps = Visit(p, "descend") \o <<Step("back")>>
  OBVIOUS
<1>4. PICK command : command = [op |-> "mkdir", path |-> p]
  OBVIOUS
<1>5. Begin(command, steps)
  BY <1>3, <1>4 DEF Mkdir
<1>6. /\ cmd' = command /\ command.path = p /\ todo' = steps /\ orig' = cwd /\ cwd' = cwd
      /\ nodes' = nodes /\ root' = root /\ data' = data /\ mounted /\ Idle
  BY <1>4, <1>5 DEF Begin, memory, volume
<1>7. PICK start : start = IF p.is_root THEN RootCluster ELSE cwd
  OBVIOUS
<1>8. start \in Starts
  BY <1>7 DEF CacheInv, MemoryTyped, Starts
<1>9. nodes' = Region(cwd)'
  <2>1. nodes = Region(cwd)
    BY <1>6, AtRest DEF Agreed
  <2> QED BY <1>6, <2>1 DEF Region
<1>10. PICK v : steps = ToStart(p) \o v /\ Downs(v, names, 0)
  BY <1>1, <1>2, <1>3, VisitDowns
<1>11. v \in Seq(Steps)
  BY <1>10 DEF Downs
<1>12. OnPath(start, names)'
  <2>1. CASE p.is_root
    <3>1. todo' = <<Step("root")>> \o v /\ start = RootCluster
      BY <1>6, <1>7, <1>10, <2>1 DEF ToStart
    <3> QED BY <1>9, <1>10, <3>1 DEF OnPath
  <2>2. CASE ~p.is_root
    <3>1. todo' = v /\ start = cwd
      BY <1>6, <1>7, <1>10, <1>11, <2>2 DEF ToStart
    <3>2. PICK g : g = [k \in 0 .. Len(names) |-> start]
      OBVIOUS
    <3>3. 0 \in 0 .. Len(names) /\ g[0] = start
      BY <1>2, <3>2
    <3>4. Comes(g, start, names, 0)
      BY <1>8, <3>2, <3>3 DEF Comes
    <3>5. Comes(g, start, names, 0)'
      BY <1>6, <3>4, ComesSame
    <3>6. Seeking(names, 0)'
      BY <1>9, <1>10, <3>1 DEF Seeking
    <3>7. cwd' = g[0]
      BY <1>6, <3>1, <3>3
    <3> QED BY <3>3, <3>5, <3>6, <3>7 DEF OnPath, Along
  <2> QED BY <2>1, <2>2
<1>13. ASSUME NEW q, NEW s, NEW m, PathOf(q, s, m)' PROVE s = start /\ m = names
  BY <1>1, <1>6, <1>7, <1>13 DEF PathOf
<1>14. (\A q, s, m : PathOf(q, s, m) => m \in Seq(DOMAIN Short) /\ OnPath(s, m))'
  BY <1>2, <1>12, <1>13
<1> QED
  BY <1>14 DEF DownInv

\* Commands other than mkdir.
LEMMA DownOther ==
    ASSUME cmd'.op # "mkdir"
    PROVE  DownInv'
BY DEF DownInv

\* Every step of a command goes on with it, or ends it.
LEMMA EndsOrGoes ==
    ASSUME Advance
    PROVE  (cmd' = cmd /\ orig' = orig) \/ todo' = <<>>
<1>1. ASSUME NEW rest, NEW i, Proceed(rest, i) PROVE (cmd' = cmd /\ orig' = orig) \/ todo' = <<>>
  BY <1>1 DEF Proceed
<1> QED
  <2>1. CASE Lookup \/ FlushFat1 \/ FlushFat2 \/ FlushDir \/ Store \/ Fetch \/ GiveUp
    BY <1>1, <2>1 DEF Lookup, FlushFat1, FlushFat2, FlushDir, Store, Fetch, GiveUp
  <2>2. CASE ToRoot \/ Enter \/ IntoNew \/ Back
    BY <1>1, <2>2 DEF ToRoot, Enter, IntoNew, Back
  <2>3. CASE CreateNode
    BY <1>1, <2>3 DEF CreateNode
  <2>4. CASE Resize
    BY <1>1, <2>4 DEF Resize
  <2>5. CASE Drop
    BY <1>1, <2>5 DEF Drop
  <2>6. CASE Descend
    BY <1>1, <2>6 DEF Descend
  <2> QED BY <2>1, <2>2, <2>3, <2>4, <2>5, <2>6 DEF Advance

\* A command that begins.
LEMMA DownCommand ==
    ASSUME CacheInv, Command
    PROVE  DownInv'
<1>1. CASE \E n \in FileNames : TouchFile(n) \/ ReadFile(n)
           \/ (WritesFiles(n) /\ \E len \in Lengths[n] : WriteFile(n, len))
  <2>1. cmd'.op \in {"touch", "read", "write"}
    BY <1>1 DEF TouchFile, ReadFile, WriteFile, Begin
  <2> QED BY <2>1, DownOther
<1>2. CASE \E n \in Removable : RemoveFile(n)
  <2>1. cmd'.op = "remove"
    BY <1>2 DEF RemoveFile, Begin
  <2> QED BY <2>1, DownOther
<1>3. CASE \E path \in Paths : Cd(ConstructPath(path)) \/ Mkdir(ConstructPath(path))
  <2>1. PICK path \in Paths : Cd(ConstructPath(path)) \/ Mkdir(ConstructPath(path))
    BY <1>3
  <2>2. CASE Cd(ConstructPath(path))
    <3>1. cmd'.op = "cd"
      BY <2>2 DEF Cd, Begin
    <3> QED BY <3>1, DownOther
  <2>3. CASE Mkdir(ConstructPath(path))
    BY <2>3, DownSetsOut
  <2> QED BY <2>1, <2>2, <2>3
<1> QED
  BY <1>1, <1>2, <1>3 DEF Command

\* Every step keeps a mkdir on its way.
LEMMA DownNext ==
    ASSUME SettledNames, CacheInv, VolumeInv, mounted => ~torn, DownInv, ~misplaced, ~misplaced',
           [Next]_vars
    PROVE  DownInv'
<1>1. CASE Mount \/ Reinitialise
  <2>1. todo' = <<>>
    BY <1>1 DEF Mount, Reinitialise, CacheInv, MemoryTyped
  <2> QED BY <2>1, DownEnds
<1>2. CASE Unmount \/ Fail
  <2>1. Stop
    BY <1>2 DEF Unmount, Fail, Exhausted, NullTable, NullNode, AssertionFails, Kill
  <2> QED BY <2>1, DownEnds DEF Stop, Forget
<1>3. CASE Command
  BY <1>3, DownCommand
<1>4. CASE Advance
  <2>1. todo # <<>> /\ mounted
    BY <1>4 DEF Advance, Lookup, CreateNode, FlushFat1, FlushFat2, FlushDir, Resize, Store, Fetch, Drop,
       GiveUp, ToRoot, Enter, Descend, IntoNew, Back, Next1, Idle, CacheInv, MemoryTyped
  <2>2. ~torn
    BY <2>1
  <2>3. PICK V, M \in SUBSET Starts : Kept(V, M)
    BY <2>2 DEF VolumeInv, KeptInv, Spoilt
  <2>4. CASE cmd.op = "mkdir"
    BY <1>4, <2>1, <2>3, <2>4, DownAdvance
  <2>5. CASE cmd.op # "mkdir"
    BY <1>4, <2>5, EndsOrGoes, DownEnds, DownOther
  <2> QED BY <2>4, <2>5
<1>5. CASE UNCHANGED vars
  <2>1. /\ cwd' = cwd /\ nodes' = nodes /\ cmd' = cmd /\ todo' = todo /\ node' = node /\ orig' = orig
        /\ root' = root /\ data' = data
    BY <1>5 DEF vars, memory, volume
  <2>2. CASE todo # <<>> /\ cmd.op = "mkdir"
    <3>1. PICK p, start, names : PathOf(p, start, names)
      BY DEF PathOf
    <3>2. names \in Seq(DOMAIN Short) /\ OnPath(start, names)
      BY <2>2, <3>1 DEF DownInv
    <3>3. \A g, j : Comes(g, start, names, j) => Comes(g, start, names, j)'
      BY <2>1, ComesSame
    <3>4. Region(cwd)' = Region(cwd)
      BY <2>1 DEF Region
    <3>5. \A j : Along(names, j) => Along(names, j)'
      BY <2>1, <3>4 DEF Along, Seeking, Sought, Making, Made, Appended
    <3>6. OnPath(start, names)'
      BY <2>1, <3>2, <3>3, <3>4, <3>5 DEF OnPath
    <3> QED BY <2>1, <3>1, <3>2, <3>6, DownGoes
  <2>3. CASE todo = <<>>
    BY <2>1, <2>3, DownEnds
  <2>4. CASE cmd.op # "mkdir"
    BY <2>1, <2>4, DownOther
  <2> QED BY <2>2, <2>3, <2>4
<1> QED
  BY <1>1, <1>2, <1>3, <1>4, <1>5 DEF Next

\* It is on its way as long as no directory was made in a wrong place.
LEMMA DownOrMisplaced ==
    ASSUME SettledNames, CacheInv, VolumeInv, InsideInv, misplaced \/ DownInv, misplaced \in BOOLEAN,
           [Next]_vars
    PROVE  misplaced' \/ DownInv'
<1>1. CASE Reinitialise
  <2>1. todo' = <<>>
    BY <1>1 DEF Reinitialise, CacheInv, MemoryTyped
  <2> QED BY <2>1, DownEnds
<1>2. CASE misplaced /\ ~Reinitialise
  BY <1>2, MisplacedStays
<1>3. CASE ~misplaced
  BY <1>3, DownNext DEF InsideInv
<1> QED
  BY <1>1, <1>2, <1>3

\* At its end a mkdir is where its path leads.
LEMMA DownArrives ==
    ASSUME CacheInv, NavInv, DownInv, Next1("back")
    PROVE  cwd = Destination(cmd.path)
<1>1. todo # <<>> /\ Head(todo).do = "back" /\ mounted
  BY DEF Next1, Idle, CacheInv, MemoryTyped
<1>2. cmd.op = "mkdir"
  <2>1. Head(todo) = todo[1] /\ 1 \in 1 .. Len(todo)
    BY <1>1, StepsTyped
  <2>2. "back" \in StepsOf(cmd.op)
    BY <1>1, <2>1 DEF NavInv
  <2> QED BY <2>2 DEF StepsOf
<1>3. PICK p, start, names : PathOf(p, start, names)
  BY DEF PathOf
<1>4. names \in Seq(DOMAIN Short) /\ OnPath(start, names)
  BY <1>1, <1>2, <1>3 DEF DownInv
<1>5. PICK N \in Nat : N = Len(names)
  BY <1>4
<1>6. ASSUME NEW t, NEW j, Downs(t, names, j) PROVE t \in Seq(Steps)
  BY <1>6 DEF Downs
<1>7. ASSUME NEW f \in Fronts, NEW e \in Steps, NEW t \in Seq(Steps), todo = f \o (<<e>> \o t), e.do # "back"
      PROVE  FALSE
  <2>1. f # <<>> => Head(todo) = f[1] /\ f[1].do \in {"store", "fat1", "fat2", "dir"}
    BY <1>7, FrontKinds
  <2>2. f = <<>> => Head(todo) = e
    BY <1>7, FrontKinds
  <2> QED BY <1>1, <1>7, <2>1, <2>2
<1>8. ~\E t : todo = <<Step("root")>> \o t /\ Downs(t, names, 0)
  <2>1. SUFFICES ASSUME NEW t, todo = <<Step("root")>> \o t, Downs(t, names, 0) PROVE FALSE
    OBVIOUS
  <2>2. PICK x : x = Step("root")
    OBVIOUS
  <2>3. x \in Steps /\ x.do = "root"
    BY <2>2 DEF Step, Steps, Others
  <2>4. Head(todo) = x
    BY <1>6, <2>1, <2>2, <2>3, Pushed
  <2> QED BY <1>1, <2>3, <2>4
<1>9. PICK g : \E j \in 0 .. N : Comes(g, start, names, j) /\ cwd = g[j] /\ Along(names, j)
  BY <1>4, <1>5, <1>8 DEF OnPath
<1>10. PICK j \in 0 .. N : Comes(g, start, names, j) /\ cwd = g[j] /\ Along(names, j)
  BY <1>9
<1>11. ASSUME j + 1 \in 1 .. N PROVE ~Sought(names, j) /\ ~Making(names, j) /\ ~Made(names, j)
  <2>1. PICK n : n = names[j + 1]
    OBVIOUS
  <2>2. n \in DOMAIN Short
    BY <1>4, <1>5, <1>11, <2>1
  <2>3. /\ DescendTo(n) \in Steps /\ DescendTo(n).do = "descend"
        /\ Step("into") \in Steps /\ Step("into").do = "into"
        /\ Get(n, "dir") \in Steps /\ Get(n, "dir").do = "get"
    BY <2>2, DownSteps
  <2>4. ~Sought(names, j)
    <3>1. SUFFICES ASSUME NEW t, NEW f \in FlushLeft, todo = f \o (<<DescendTo(n)>> \o t), Downs(t, names, j + 1)
                   PROVE  FALSE
      BY <2>1 DEF Sought
    <3>2. f \in Fronts /\ t \in Seq(Steps)
      BY <1>6, <3>1 DEF Fronts
    <3>3. PICK e : e = DescendTo(n)
      OBVIOUS
    <3> QED BY <1>7, <2>3, <3>1, <3>2, <3>3
  <2>5. ~Made(names, j)
    <3>1. SUFFICES ASSUME NEW t, NEW f \in Fronts, todo = f \o (<<Step("into")>> \o t), Downs(t, names, j + 1)
                   PROVE  FALSE
      BY DEF Made
    <3>2. t \in Seq(Steps)
      BY <1>6, <3>1
    <3>3. PICK e : e = Step("into")
      OBVIOUS
    <3> QED BY <1>7, <2>3, <3>1, <3>2, <3>3
  <2>6. ~Making(names, j)
    <3>1. SUFFICES ASSUME NEW t, todo = <<Get(n, "dir"), Step("into")>> \o t, Downs(t, names, j + 1)
                   PROVE  FALSE
      BY <2>1 DEF Making
    <3>2. t \in Seq(Steps)
      BY <1>6, <3>1
    <3>3. PICK c : c = <<Get(n, "dir"), Step("into")>>
      OBVIOUS
    <3>4. c \in Seq(Steps) /\ c # <<>> /\ c[1] = Get(n, "dir")
      BY <2>3, <3>3
    <3>5. Head(c \o t) = c[1]
      BY <3>2, <3>4, FrontFirst
    <3> QED BY <1>1, <2>3, <3>1, <3>3, <3>4, <3>5
  <2> QED BY <2>4, <2>5, <2>6
<1>12. Seeking(names, j)
  BY <1>5, <1>10, <1>11 DEF Along
<1>13. j = N
  <2>1. SUFFICES ASSUME j # N PROVE FALSE
    OBVIOUS
  <2>2. Downs(todo, names, j)
    BY <1>12 DEF Seeking
  <2>3. PICK n : n = names[j + 1]
    OBVIOUS
  <2>4. N \in Nat /\ Len(names) = N /\ j \in 0 .. N
    BY <1>5, <1>10
  <2>5. \E u : /\ Head(todo) = Get(n, "none")
               /\ Tail(todo) = <<DescendTo(n)>> \o u /\ Downs(u, names, j + 1)
    BY <2>1, <2>2, <2>3, <2>4, DownsFirst
  <2> QED BY <1>1, <2>5 DEF Get
<1>14. VolumeTyped /\ start \in Starts /\ Len(names) \in Nat
  BY <1>3, <1>5 DEF PathOf, CacheInv, MemoryTyped, Starts
<1>15. Leads(g, start, names)
  <2>1. /\ g \in [0 .. Len(names) -> Starts] /\ g[0] = start
        /\ \A k \in 1 .. Len(names) : g[k] = Following(g[k - 1], names[k])
    BY <1>5, <1>10, <1>13 DEF Comes
  <2>2. g \in [0 .. Len(names) -> Starts \cup {Eof}]
    BY <2>1
  <2> QED BY <2>1, <2>2 DEF Leads
<1>16. Resolve(start, names) = cwd
  BY <1>5, <1>10, <1>13, <1>14, <1>15, PathLeads
<1>17. Destination(p) = Resolve(start, names)
  BY <1>2, <1>3, Zenon DEF Destination, PathOf
<1> QED
  BY <1>3, <1>16, <1>17 DEF PathOf

\* When mkdir has come to the end of its path, before it goes back (vfs_mkdir), the path
\* leads on the volume to the directory it is in: every component that was missing is there,
\* and none of them has hidden one before it, as long as every directory was made Placed.
THEOREM MkdirAlwaysMakesPath ==
    ASSUME PlainNames, SettledNames
    PROVE  Spec => []MkdirMakesPath
<1> DEFINE Down == misplaced \/ DownInv
<1>1. Init => NavInv /\ InsideInv /\ Down
  BY DEF Init, NavInv, InsideInv, TreeInv, DownInv
<1>2. CacheInv /\ NavInv /\ [Next]_vars => NavInv'
  BY NavNext
<1>3. CacheInv /\ VolumeInv /\ misplaced \in BOOLEAN /\ InsideInv /\ CacheInv' /\ [Next]_vars
         => InsideInv'
  BY InsideNext
<1>4. CacheInv /\ VolumeInv /\ misplaced \in BOOLEAN /\ InsideInv /\ Down /\ [Next]_vars => Down'
  BY DownOrMisplaced
<1>5. CacheInv /\ NavInv /\ Down => MkdirMakesPath
  BY DownArrives DEF MkdirMakesPath
<1> HIDE DEF Down
<1> QED
  BY <1>1, <1>2, <1>3, <1>4, <1>5, VolumeInvHolds, MisplacedType, PTL DEF Spec
=============================================================================
