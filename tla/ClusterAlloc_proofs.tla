-------------------------- MODULE ClusterAlloc_proofs --------------------------
(***************************************************************************)
(* Theorems about the cluster allocator, for every size of volume, every   *)
(* set of entries and every largest request.                               *)
(***************************************************************************)
EXTENDS ClusterAlloc, FatTable_proofs, TLAPS

-----------------------------------------------------------------------------
(* Entries.                                                                 *)

(* Setting an entry keeps a table a table. *)
LEMMA SetEntryTable ==
    ASSUME NEW t \in Table, NEW c, NEW v \in Link
    PROVE  SetEntry(t, c, v) \in Table
BY DEF SetEntry, Table

-----------------------------------------------------------------------------
(* How the four changes the driver makes to a table affect soundness.       *)

\* Ending a chain early turns the rest of it into a chain of its own.
LEMMA SoundEnd ==
    ASSUME NEW t \in Table, NEW R \in SUBSET Clusters, Sound(t, R),
           NEW c \in Clusters, t[c] # Free
    PROVE  Sound([t EXCEPT ![c] = Eof], R \cup ({t[c]} \ {Eof}))
<1> DEFINE u == [t EXCEPT ![c] = Eof]
           S == R \cup ({t[c]} \ {Eof})
<1>1. /\ u \in Table
      /\ u[c] = Eof
      /\ \A d \in Clusters : d # c => u[d] = t[d]
      /\ t[c] \in Clusters \cup {Eof}
  BY DEF Table, Link
<1> HIDE DEF u
<1>2. LinksLive(u)
  BY <1>1, Marks DEF Sound, LinksLive
<1>3. OnePredecessor(u)
  BY <1>1, Marks DEF Sound, OnePredecessor
<1>4. HeadsLive(u, S)
  BY <1>1, Marks DEF Sound, HeadsLive, LinksLive, Table, Link
<1>5. HeadsFirst(u, S)
  BY <1>1, Marks DEF Sound, HeadsFirst, OnePredecessor, Table, Link
<1>6. NothingLeaked(u, S)
  BY <1>1, Marks DEF Sound, NothingLeaked, Table, Link
<1> QED
  BY <1>2, <1>3, <1>4, <1>5, <1>6 DEF Sound, u

\* Freeing the first cluster of a chain makes the next one the first.
LEMMA SoundFree ==
    ASSUME NEW t \in Table, NEW R \in SUBSET Clusters, NEW c \in Clusters, c \notin R,
           Sound(t, R \cup {c})
    PROVE  Sound([t EXCEPT ![c] = Free], R \cup ({t[c]} \ {Eof}))
<1> DEFINE u == [t EXCEPT ![c] = Free]
           S == R \cup ({t[c]} \ {Eof})
<1>1. /\ u \in Table
      /\ u[c] = Free
      /\ \A d \in Clusters : d # c => u[d] = t[d]
  BY DEF Table, Link
<1> HIDE DEF u
<1>2. /\ t[c] # Free
      /\ \A d \in Clusters : t[d] # c
      /\ t[c] \in Clusters \cup {Eof}
      /\ t[c] # c
  BY DEF Sound, HeadsLive, HeadsFirst, Table, Link
<1>3. LinksLive(u)
  BY <1>1, <1>2, Marks DEF Sound, LinksLive
<1>4. OnePredecessor(u)
  BY <1>1, Marks DEF Sound, OnePredecessor
<1>5. HeadsLive(u, S)
  BY <1>1, <1>2, Marks DEF Sound, HeadsLive, LinksLive, Table, Link
<1>6. HeadsFirst(u, S)
  BY <1>1, <1>2, Marks DEF Sound, HeadsFirst, OnePredecessor, Table, Link
<1>7. NothingLeaked(u, S)
  BY <1>1, <1>2, Marks DEF Sound, NothingLeaked, Table, Link
<1> QED
  BY <1>3, <1>4, <1>5, <1>6, <1>7 DEF Sound, u

\* A free cluster marked as an end is a chain of one cluster.
LEMMA SoundNew ==
    ASSUME NEW t \in Table, NEW R \in SUBSET Clusters, Sound(t, R),
           NEW c \in Clusters, t[c] = Free
    PROVE  /\ c \notin R
           /\ Sound([t EXCEPT ![c] = Eof], R \cup {c})
<1> DEFINE u == [t EXCEPT ![c] = Eof]
           S == R \cup {c}
<1>1. /\ u \in Table
      /\ u[c] = Eof
      /\ \A d \in Clusters : d # c => u[d] = t[d]
  BY DEF Table, Link
<1>2. /\ c \notin R
      /\ \A d \in Clusters : t[d] # c
  BY DEF Sound, HeadsLive, LinksLive
<1>3. LinksLive(u)
  BY <1>1, Marks DEF Sound, LinksLive
<1>4. OnePredecessor(u)
  BY <1>1, Marks DEF Sound, OnePredecessor
<1>5. HeadsLive(u, S)
  BY <1>1, Marks DEF Sound, HeadsLive
<1>6. HeadsFirst(u, S)
  BY <1>1, <1>2, Marks DEF Sound, HeadsFirst
<1>7. NothingLeaked(u, S)
  BY <1>1, <1>2, Marks DEF Sound, NothingLeaked
<1> QED
  BY <1>2, <1>3, <1>4, <1>5, <1>6, <1>7 DEF Sound

\* Linking the end of one chain to the head of another joins them.
LEMMA SoundLink ==
    ASSUME NEW t \in Table, NEW R \in SUBSET Clusters, NEW c \in Clusters, c \notin R,
           Sound(t, R \cup {c}),
           NEW p \in Clusters, p # c, t[p] = Eof
    PROVE  Sound([t EXCEPT ![p] = c], R)
<1> DEFINE u == [t EXCEPT ![p] = c]
<1>1. /\ u \in Table
      /\ u[p] = c
      /\ \A d \in Clusters : d # p => u[d] = t[d]
  BY DEF Table, Link
<1>2. /\ t[c] # Free
      /\ \A d \in Clusters : t[d] # c
  BY DEF Sound, HeadsLive, HeadsFirst
<1>3. LinksLive(u)
  BY <1>1, <1>2, Marks DEF Sound, LinksLive
<1>4. OnePredecessor(u)
  BY <1>1, <1>2, Marks DEF Sound, OnePredecessor
<1>5. HeadsLive(u, R)
  BY <1>1, Marks DEF Sound, HeadsLive
<1>6. HeadsFirst(u, R)
  BY <1>1, <1>2, Marks DEF Sound, HeadsFirst
<1>7. NothingLeaked(u, R)
  BY <1>1, <1>2, Marks DEF Sound, NothingLeaked
<1> QED
  BY <1>3, <1>4, <1>5, <1>6, <1>7 DEF Sound, u

-----------------------------------------------------------------------------
(* The invariant.                                                           *)

IInv == TypeOK /\ CallSound

\* A step of the loop changes neither the volume nor the entries.
LEMMA VolumeUnchanged ==
    ASSUME IInv, UNCHANGED <<disk, first>>
    PROVE  VolumeSound'
BY DEF IInv, CallSound, VolumeSound, Heads, DistinctHeads

\* Whatever a call has done, the heads of the other files are clusters.
LEMMA HeadsAreClusters ==
    ASSUME TypeOK
    PROVE  /\ Heads \in SUBSET Clusters
           /\ OtherHeads \in SUBSET Clusters
           /\ OwnHeads \in SUBSET Clusters
BY DEF TypeOK, Heads, OtherHeads, OwnHeads

(* No call and an exited process are told apart from each other and from a call. *)
LEMMA CallKinds ==
    /\ NoCall \notin Calls
    /\ Exited \notin Calls
    /\ NoCall # Exited
BY DEF NoCall, Exited, Calls

(* The invariant holds of the formatted volume. *)
THEOREM InitIInv == Init => IInv
<1> SUFFICES ASSUME Init PROVE IInv
  OBVIOUS
<1>1. TypeOK
  BY Marks, MaxClustersAssumption
     DEF Init, TypeOK, Table, Link, EmptyTable, LocalsUnused
<1>2. Heads = {}
  BY DEF Init, Heads
<1>3. \A c \in Clusters : disk[c] = Free
  BY DEF Init, EmptyTable
<1>4. Sound(disk, {})
  BY <1>3, Marks DEF Sound, LinksLive, OnePredecessor, HeadsLive, HeadsFirst, NothingLeaked
<1>5. VolumeSound
  BY <1>2, <1>4 DEF VolumeSound, Init, DistinctHeads
<1> QED
  BY <1>1, <1>5, CallKinds DEF IInv, CallSound, Init, Idle, Running

\* A call begins with the table in memory sound for the chains of all files.
LEMMA BeginIInv ==
    ASSUME IInv, NEW f \in Files, NEW n \in 0..MaxClusters, NEW op \in {"create", "write", "remove"},
           Begin(op, f, n),
           op = "create" <=> first[f] = Eof,
           op = "remove" <=> n = 0
    PROVE  IInv'
<1>1. TypeOK'
  BY Marks DEF IInv, TypeOK, Begin, Calls, tables
<1>2. VolumeSound'
  BY VolumeUnchanged DEF Begin, tables
<1>3. /\ fat = disk
      /\ Sound(fat, Heads)
      /\ DistinctHeads
  BY DEF Begin, IInv, CallSound, VolumeSound, Idle
<1>4. /\ call'.file = f /\ call'.n = n /\ call'.op = op
      /\ call' \in Calls
      /\ UNCHANGED <<fat, disk, first>>
      /\ cluster' = first[f] /\ start' = Eof
      /\ previous' = RootCluster /\ remaining' = n
  BY DEF Begin, tables, Calls
<1>5. OtherHeads' = {first[g] : g \in Files \ {f}} \ {Eof}
  BY <1>4 DEF OtherHeads
<1>6. OwnHeads' = {first[f]} \ {Eof}
  BY <1>4 DEF OwnHeads
<1>7. OtherHeads' \cup OwnHeads' = Heads
  BY <1>5, <1>6 DEF Heads
<1>8. OtherHeads' \cap OwnHeads' = {}
  BY <1>3, <1>5, <1>6 DEF DistinctHeads
<1>9. Position'
  BY <1>4 DEF Position
<1>10. Sound(fat', OtherHeads' \cup OwnHeads')
  BY <1>3, <1>4, <1>7
<1>11. ~Idle'
  BY <1>4, CallKinds DEF Idle
<1>12. CallSound'
  BY <1>2, <1>4, <1>8, <1>9, <1>10, <1>11 DEF CallSound
<1> QED
  BY <1>1, <1>12 DEF IInv

\* What an iteration leaves alone.
LEMMA IterateFrame ==
    ASSUME IInv, Looping, NEW c, NEW next, NEW t, Iterate(c, next, t)
    PROVE  /\ VolumeSound'
           /\ OtherHeads' = OtherHeads
           /\ fat' = t /\ cluster' = next /\ previous' = c
           /\ remaining' = remaining - 1
           /\ start' = IF start = Eof THEN c ELSE start
           /\ UNCHANGED <<disk, first, needed, call>>
           /\ ~Idle' /\ Running'
BY VolumeUnchanged, CallKinds
   DEF Iterate, Advance, OtherHeads, Looping, Running, Idle

\* An iteration keeps the invariant when it keeps the shape of the tables.
LEMMA IterateIInv ==
    ASSUME IInv, Looping, NEW c, NEW next, NEW t, Iterate(c, next, t),
           TypeOK',
           Sound(t, OtherHeads \cup OwnHeads'),
           OtherHeads \cap OwnHeads' = {},
           Position'
    PROVE  IInv'
<1>1. /\ VolumeSound'
      /\ OtherHeads' = OtherHeads
      /\ fat' = t
      /\ UNCHANGED <<disk, first, needed, call>>
      /\ ~Idle' /\ Running'
  BY IterateFrame
<1>2. /\ call.op = "create" <=> first[call.file] = Eof
      /\ call.op = "remove" <=> call.n = 0
  BY DEF IInv, CallSound, Looping
<1>3. CallSound'
  BY <1>1, <1>2 DEF CallSound
<1> QED
  BY <1>3 DEF IInv

(* What the invariant says in the middle of the loop, unfolded. *)
LEMMA LoopFacts ==
    ASSUME IInv, Looping
    PROVE  /\ TypeOK
           /\ Sound(fat, OtherHeads \cup OwnHeads)
           /\ OtherHeads \cap OwnHeads = {}
           /\ Position
           /\ OtherHeads \in SUBSET Clusters
           /\ OwnHeads \in SUBSET Clusters
           /\ call.n \in Nat
BY HeadsAreClusters DEF IInv, CallSound, Looping, Running, Calls

\* Up to the end of the count the loop stands at a cluster of the chain: its
\* head, or the successor of previous.
LEMMA ClusterLive ==
    ASSUME IInv, Looping, remaining >= 0, cluster # Eof
    PROVE  cluster \in Clusters /\ fat[cluster] \in Clusters \cup {Eof}
<1>1. /\ TypeOK /\ Position
      /\ Sound(fat, OtherHeads \cup OwnHeads)
  BY LoopFacts
<1>2. cluster \in Clusters
  BY <1>1 DEF TypeOK
<1>3. fat[cluster] # Free
  <2>1. CASE start = Eof
    BY <2>1, <1>1, <1>2 DEF Sound, HeadsLive, OwnHeads
  <2>2. CASE start # Eof
    BY <2>2, <1>1, <1>2 DEF TypeOK, Position, Sound, LinksLive
  <2> QED
    BY <2>1, <2>2
<1> QED
  BY <1>1, <1>2, <1>3 DEF TypeOK, Table, Link

(* A turn that only follows the chain keeps the invariant. *)
LEMMA SkipIInv ==
    ASSUME IInv, Skip
    PROVE  IInv'
<1>1. /\ Looping
      /\ Iterate(cluster, NextCluster(fat, cluster), fat)
  BY DEF Skip
<1>2. /\ fat' = fat /\ previous' = cluster
      /\ cluster' = NextCluster(fat, cluster)
      /\ remaining' = remaining - 1
      /\ start' = IF start = Eof THEN cluster ELSE start
      /\ UNCHANGED <<disk, first, needed, call>>
  BY <1>1, IterateFrame
<1>3. /\ TypeOK /\ Position
      /\ Sound(fat, OtherHeads \cup OwnHeads)
      /\ OtherHeads \cap OwnHeads = {}
      /\ call.n \in Nat
  BY <1>1, LoopFacts
<1>4. CASE remaining > 0 /\ cluster # Eof
  <2>1. /\ cluster \in Clusters
        /\ fat[cluster] # Free
        /\ fat[cluster] \in Clusters \cup {Eof}
        /\ cluster' = fat[cluster]
    <3>1. remaining >= 0
      BY <1>3, <1>4 DEF TypeOK
    <3> QED
      BY <1>1, <1>2, <1>4, <3>1, ClusterLive, Marks DEF NextCluster
  <2>2. TypeOK'
    BY <1>2, <1>3, <2>1 DEF TypeOK
  <2>3. OwnHeads' = OwnHeads
    BY <1>2, <1>3, <1>4, <2>1, Marks DEF OwnHeads, TypeOK
  <2>4. Position'
    BY <1>2, <1>3, <1>4, <2>1, Marks DEF Position, TypeOK
  <2> QED
    BY <1>1, <1>3, <2>2, <2>3, <2>4, IterateIInv
<1>5. CASE remaining <= 0 /\ cluster = Eof
  <2>1. /\ start # Eof
        /\ remaining' < 0
        /\ start' = start
        /\ cluster' = Eof
    BY <1>2, <1>3, <1>5, Marks DEF Position, TypeOK, NextCluster
  <2>2. TypeOK'
    BY <1>2, <1>3, <1>5, <2>1 DEF TypeOK
  <2>3. OwnHeads' = OwnHeads
    BY <1>2, <1>5, <2>1 DEF OwnHeads
  <2>4. Position'
    BY <1>1, <1>2, <1>3, <1>5, <2>1 DEF Position, TypeOK, Looping, MoreToDo
  <2> QED
    BY <1>1, <1>3, <2>2, <2>3, <2>4, IterateIInv
<1> QED
  BY <1>4, <1>5 DEF Skip

(* Marking the new end makes a head of the old successor. *)
LEMMA MarkEndIInv ==
    ASSUME IInv, MarkEnd
    PROVE  IInv'
<1> DEFINE t == [fat EXCEPT ![cluster] = Eof]
<1>1. /\ Looping /\ remaining = 0 /\ cluster # Eof
      /\ Iterate(cluster, NextCluster(fat, cluster), SetEntry(fat, cluster, Eof))
  BY DEF MarkEnd
<1>2. /\ TypeOK /\ Position
      /\ Sound(fat, OtherHeads \cup OwnHeads)
      /\ OtherHeads \cap OwnHeads = {}
      /\ OtherHeads \in SUBSET Clusters
      /\ OwnHeads \in SUBSET Clusters
      /\ call.n \in Nat
  BY <1>1, LoopFacts
<1>3. cluster \in Clusters /\ fat \in Table
  BY <1>1, <1>2 DEF TypeOK
<1>4. /\ fat' = t /\ previous' = cluster
      /\ cluster' = fat[cluster]
      /\ remaining' = -1
      /\ start' = IF start = Eof THEN cluster ELSE start
      /\ UNCHANGED <<disk, first, needed, call>>
  BY <1>1, <1>3, IterateFrame DEF NextCluster, SetEntry
<1>5. fat[cluster] \in Clusters \cup {Eof}
  BY <1>1, ClusterLive
<1>6. OwnHeads = {start'}
  BY <1>1, <1>4 DEF OwnHeads
<1>7. /\ start' \in Clusters
      /\ fat[cluster] \in Clusters \cup {Eof}
      /\ fat[cluster] # start'
  <2>1. start' \in Clusters
    BY <1>2, <1>3, <1>4 DEF TypeOK
  <2>2. fat[cluster] \in Clusters \cup {Eof}
    BY <1>5
  <2>3. fat[cluster] # start'
    BY <1>2, <1>3, <1>6 DEF Sound, HeadsFirst
  <2> QED
    BY <2>1, <2>2, <2>3
<1>8. OwnHeads' = OwnHeads \cup ({fat[cluster]} \ {Eof})
  BY <1>4, <1>6, <1>7, Marks DEF OwnHeads
<1>9. Sound(t, OtherHeads \cup OwnHeads')
  <2>1. Sound(t, (OtherHeads \cup OwnHeads) \cup ({fat[cluster]} \ {Eof}))
    BY <1>2, <1>3, <1>5, Marks, SoundEnd
  <2>2. (OtherHeads \cup OwnHeads) \cup ({fat[cluster]} \ {Eof}) = OtherHeads \cup OwnHeads'
    BY <1>8
  <2> QED
    BY <2>1, <2>2
<1>10. OtherHeads \cap OwnHeads' = {}
  BY <1>2, <1>3, <1>8 DEF Sound, HeadsFirst
<1>11. TypeOK'
  BY <1>2, <1>3, <1>4, <1>7 DEF TypeOK, Table, Link
<1>12. call.n = 0 => t[start'] = Eof
  BY <1>1, <1>2, <1>3, <1>4 DEF Position, Table
<1>13. Position'
  BY <1>2, <1>4, <1>7, <1>12, Marks DEF Position
<1>14. SetEntry(fat, cluster, Eof) = t
  BY <1>3 DEF SetEntry
<1> QED
  BY <1>1, <1>9, <1>10, <1>11, <1>13, <1>14, IterateIInv

(* Freeing the head of the rest makes a head of its successor. *)
LEMMA FreeRestIInv ==
    ASSUME IInv, FreeRest
    PROVE  IInv'
<1> DEFINE t == [fat EXCEPT ![cluster] = Free]
<1>1. /\ Looping /\ remaining < 0 /\ cluster # Eof
      /\ Iterate(cluster, NextCluster(fat, cluster), SetEntry(fat, cluster, Free))
  BY DEF FreeRest
<1>2. /\ TypeOK /\ Position
      /\ Sound(fat, OtherHeads \cup OwnHeads)
      /\ OtherHeads \cap OwnHeads = {}
      /\ OtherHeads \in SUBSET Clusters
      /\ OwnHeads \in SUBSET Clusters
      /\ call.n \in Nat
  BY <1>1, LoopFacts
<1>3. cluster \in Clusters /\ fat \in Table
  BY <1>1, <1>2 DEF TypeOK
<1>4. /\ start \in Clusters /\ start # cluster
      /\ call.n = 0 => fat[start] = Eof
  BY <1>1, <1>2 DEF Position, TypeOK
<1>5. /\ fat' = t /\ previous' = cluster
      /\ cluster' = fat[cluster]
      /\ remaining' = remaining - 1
      /\ start' = start
      /\ UNCHANGED <<disk, first, needed, call>>
  BY <1>1, <1>3, <1>4, Marks, IterateFrame DEF NextCluster, SetEntry
<1>6. OwnHeads = {start, cluster}
  BY <1>1, <1>3, <1>4, Marks DEF OwnHeads
<1>7. /\ fat[cluster] # Free
      /\ fat[cluster] \in Clusters \cup {Eof}
      /\ fat[cluster] # start
      /\ fat[cluster] \notin OtherHeads
  BY <1>2, <1>3, <1>6 DEF Sound, HeadsLive, HeadsFirst, Table, Link
<1>8. OwnHeads' = {start} \cup ({fat[cluster]} \ {Eof})
  <2>1. remaining' < 0
    BY <1>1, <1>2, <1>5 DEF TypeOK
  <2> QED
    BY <1>4, <1>5, <1>7, <2>1, Marks DEF OwnHeads
<1>9. Sound(t, OtherHeads \cup OwnHeads')
  <2> DEFINE R == OtherHeads \cup {start}
  <2>1. /\ R \in SUBSET Clusters
        /\ cluster \notin R
        /\ Sound(fat, R \cup {cluster})
    <3>1. R \cup {cluster} = OtherHeads \cup OwnHeads
      BY <1>6
    <3>2. cluster \notin R
      BY <1>2, <1>4, <1>6
    <3> QED
      BY <1>2, <1>4, <3>1, <3>2
  <2>2. Sound(t, R \cup ({fat[cluster]} \ {Eof}))
    BY <1>3, <2>1, SoundFree
  <2>3. R \cup ({fat[cluster]} \ {Eof}) = OtherHeads \cup OwnHeads'
    BY <1>8
  <2> QED
    BY <2>2, <2>3
<1>10. OtherHeads \cap OwnHeads' = {}
  BY <1>2, <1>6, <1>7, <1>8
<1>11. TypeOK'
  BY <1>2, <1>3, <1>5, <1>7 DEF TypeOK, Table, Link
<1>12. Position'
  BY <1>1, <1>2, <1>3, <1>4, <1>5, <1>7, Marks DEF Position, TypeOK, Table
<1>13. SetEntry(fat, cluster, Free) = t
  BY <1>3 DEF SetEntry
<1> QED
  BY <1>1, <1>9, <1>10, <1>11, <1>12, <1>13, IterateIInv

(* Linking the first available cluster extends one chain by one. *)
LEMMA AllocateNextIInv ==
    ASSUME IInv, AllocateNext
    PROVE  IInv'
<1>1. Looping /\ remaining > 0 /\ cluster = Eof
  BY DEF AllocateNext
<1>2. PICK c \in Clusters :
        /\ IsFirstAvailable(fat, c)
        /\ Iterate(c, Eof, Extend(fat, previous, c))
  BY DEF AllocateNext
<1> DEFINE t == [fat EXCEPT ![c] = Eof]
           u == Extend(fat, previous, c)
<1>3. /\ TypeOK /\ Position
      /\ Sound(fat, OtherHeads \cup OwnHeads)
      /\ OtherHeads \cap OwnHeads = {}
      /\ OtherHeads \in SUBSET Clusters
      /\ OwnHeads \in SUBSET Clusters
      /\ call.n \in Nat
  BY <1>1, LoopFacts
<1>4. fat \in Table /\ fat[c] = Free
  BY <1>2, <1>3 DEF TypeOK, IsFirstAvailable, FreeClusters
<1>5. /\ fat' = u /\ previous' = c
      /\ cluster' = Eof
      /\ remaining' = remaining - 1
      /\ start' = IF start = Eof THEN c ELSE start
      /\ UNCHANGED <<disk, first, needed, call>>
  BY <1>1, <1>2, IterateFrame
<1>6. remaining' >= 0 /\ call.n > 0
  BY <1>1, <1>3, <1>5 DEF TypeOK, Position
<1>7. /\ c \notin OtherHeads \cup OwnHeads
      /\ Sound(t, (OtherHeads \cup OwnHeads) \cup {c})
  BY <1>3, <1>4, SoundNew
<1>8. t \in Table /\ t[c] = Eof
  BY <1>4 DEF Table, Link
<1>9. /\ u \in Table
      /\ u[c] = Eof
      /\ Sound(u, OtherHeads \cup OwnHeads')
      /\ OtherHeads \cap OwnHeads' = {}
  <2>1. CASE start = Eof
    <3>1. previous = RootCluster
      BY <1>3, <2>1 DEF Position
    <3>2. u = t
      BY <3>1, Marks DEF Extend, SetEntry
    <3>3. OwnHeads = {} /\ OwnHeads' = {c}
      BY <1>1, <1>5, <1>6, <2>1, Marks DEF OwnHeads
    <3> QED
      BY <1>7, <1>8, <3>2, <3>3
  <2>2. CASE start # Eof
    <3>1. previous \in Clusters /\ fat[previous] = Eof
      BY <1>1, <1>3, <2>2 DEF Position, TypeOK
    <3>2. /\ previous # c
          /\ t[previous] = Eof
          /\ u = [t EXCEPT ![previous] = c]
      BY <1>4, <3>1, Marks DEF Extend, SetEntry, Table
    <3>3. OwnHeads' = OwnHeads
      BY <1>1, <1>5, <1>6, <2>2, Marks DEF OwnHeads
    <3>4. Sound(u, OtherHeads \cup OwnHeads)
      <4> DEFINE R == OtherHeads \cup OwnHeads
      <4>1. R \in SUBSET Clusters /\ c \notin R /\ Sound(t, R \cup {c})
        BY <1>3, <1>7
      <4> HIDE DEF R, t
      <4>2. Sound([t EXCEPT ![previous] = c], R)
        BY <4>1, <1>8, <3>1, <3>2, SoundLink
      <4> QED
        BY <4>2, <3>2 DEF R
    <3>5. u \in Table /\ u[c] = Eof
      BY <1>8, <3>2 DEF Table, Link
    <3> QED
      BY <1>3, <3>3, <3>4, <3>5
  <2> QED
    BY <2>1, <2>2
<1>10. TypeOK'
  BY <1>3, <1>5, <1>9 DEF TypeOK
<1>11. Position'
  BY <1>3, <1>5, <1>6, <1>9, Marks DEF Position, TypeOK
<1> QED
  BY <1>1, <1>2, <1>9, <1>10, <1>11, IterateIInv

\* When the loop is over, only the head of the new chain is left of the call.
LEMMA LoopOver ==
    ASSUME IInv, Running, ~MoreToDo
    PROVE  /\ TypeOK
           /\ call.file \in Files /\ call.n \in 0..MaxClusters
           /\ start \in Clusters
           /\ start \notin OtherHeads
           /\ OtherHeads \in SUBSET Clusters
           /\ Sound(fat, OtherHeads \cup {start})
           /\ call.n = 0 => fat[start] = Eof
           /\ call.op = "remove" <=> call.n = 0
<1>1. /\ cluster = Eof /\ remaining < 0 /\ TypeOK /\ Position
      /\ call.file \in Files /\ call.n \in 0..MaxClusters
  BY DEF IInv, CallSound, Running, Calls, MoreToDo, TypeOK
<1>2. start \in Clusters /\ (call.n = 0 => fat[start] = Eof)
  BY <1>1 DEF Position, TypeOK
<1>3. OwnHeads = {start}
  BY <1>1, <1>2, Marks DEF OwnHeads
<1> QED
  BY <1>1, <1>2, <1>3, HeadsAreClusters DEF IInv, CallSound

(* A call that ends with a sound table, whose head goes to its file, keeps the invariant. *)
LEMMA FinishIInv ==
    ASSUME IInv, Running, NEW t \in Table, NEW head \in Clusters \cup {Eof},
           call.file \in Files, call.n \in 0..MaxClusters,
           Finish(t, head),
           head \notin OtherHeads,
           Sound(t, OtherHeads \cup ({head} \ {Eof}))
    PROVE  IInv'
<1>1. /\ fat' = t /\ disk' = t
      /\ first' = [first EXCEPT ![call.file] = head]
      /\ call' = NoCall
  BY DEF Finish
<1>2. TypeOK'
  BY Marks DEF IInv, TypeOK, Finish
<1>3. first \in [Files -> Clusters \cup {Eof}]
  BY DEF IInv, TypeOK
<1>4. Heads' = OtherHeads \cup ({head} \ {Eof})
  BY <1>1, <1>3 DEF Heads, OtherHeads
<1>5. DistinctHeads
  BY DEF IInv, CallSound, VolumeSound
<1>6. DistinctHeads'
  BY <1>1, <1>3, <1>5 DEF DistinctHeads, OtherHeads
<1>7. VolumeSound'
  BY <1>1, <1>4, <1>6 DEF VolumeSound
<1> QED
  BY <1>1, <1>2, <1>7, CallKinds DEF IInv, CallSound, Idle, Running

(* A return hands the start to its file and flushes the table. *)
LEMMA ReturnIInv ==
    ASSUME IInv, Return
    PROVE  IInv'
<1>1. Running /\ ~MoreToDo
  BY DEF Return, ReturnChain, ReturnRemoved
<1>2. /\ TypeOK
      /\ call.file \in Files /\ call.n \in 0..MaxClusters
      /\ start \in Clusters
      /\ start \notin OtherHeads
      /\ OtherHeads \in SUBSET Clusters
      /\ Sound(fat, OtherHeads \cup {start})
      /\ call.n = 0 => fat[start] = Eof
      /\ call.op = "remove" <=> call.n = 0
  BY <1>1, LoopOver
<1>3. fat \in Table
  BY <1>2 DEF TypeOK
<1>4. CASE ReturnChain
  <2>1. Finish(fat, start)
    BY <1>4 DEF ReturnChain
  <2>2. {start} \ {Eof} = {start}
    BY <1>2, Marks
  <2> QED
    BY <1>1, <1>2, <1>3, <2>1, <2>2, FinishIInv
<1>5. CASE ReturnRemoved
  <2> DEFINE t == [fat EXCEPT ![start] = Free]
  <2>1. SetEntry(fat, start, Free) = t /\ t \in Table
    BY <1>2, <1>3 DEF SetEntry, Table, Link
  <2>2. Finish(t, Eof) /\ fat[start] = Eof
    BY <1>2, <1>5, <2>1 DEF ReturnRemoved
  <2>3. Sound(t, OtherHeads \cup ({fat[start]} \ {Eof}))
    BY <1>2, <1>3, SoundFree
  <2>4. Sound(t, OtherHeads \cup ({Eof} \ {Eof}))
    BY <2>2, <2>3
  <2>5. Eof \notin OtherHeads
    BY DEF OtherHeads
  <2> QED
    BY <1>1, <1>2, <2>1, <2>2, <2>4, <2>5, FinishIInv
<1> QED
  BY <1>4, <1>5 DEF Return

(* A process that exits leaves the volume as it was last flushed. *)
LEMMA ExitIInv ==
    ASSUME IInv, Exhausted \/ Remount
    PROVE  IInv'
<1>1. VolumeSound'
  BY VolumeUnchanged DEF Exhausted, Remount, tables
<1>2. CASE Exhausted
  <2>1. call' = Exited /\ TypeOK'
    BY <1>2 DEF IInv, TypeOK, Exhausted, tables, locals
  <2> QED
    BY <1>1, <2>1, CallKinds DEF IInv, CallSound, Idle, Running
<1>3. CASE Remount
  <2>1. call' = NoCall /\ fat' = disk /\ disk' = disk /\ TypeOK'
    BY <1>3, Marks DEF IInv, TypeOK, Remount
  <2> QED
    BY <1>1, <2>1, CallKinds DEF IInv, CallSound, Idle, Running
<1> QED
  BY <1>2, <1>3

(* Every step keeps the invariant. *)
THEOREM NextIInv == IInv /\ [Next]_vars => IInv'
<1> SUFFICES ASSUME IInv, [Next]_vars PROVE IInv'
  OBVIOUS
<1>1. ASSUME NEW f \in Files, NEW n \in 1..MaxClusters, CreateFile(f, n)
      PROVE  IInv'
  <2>1. n \in 0..MaxClusters /\ n # 0
    BY MaxClustersAssumption
  <2> QED
    BY <1>1, <2>1, BeginIInv DEF CreateFile
<1>2. ASSUME NEW f \in Files, NEW n \in 1..MaxClusters, WriteFile(f, n)
      PROVE  IInv'
  <2>1. n \in 0..MaxClusters /\ n # 0
    BY MaxClustersAssumption
  <2> QED
    BY <1>2, <2>1, BeginIInv DEF WriteFile
<1>3. ASSUME NEW f \in Files, RemoveFile(f)
      PROVE  IInv'
  <2>1. 0 \in 0..MaxClusters
    BY MaxClustersAssumption
  <2> QED
    BY <1>3, <2>1, BeginIInv DEF RemoveFile
<1>4. CASE Loop
  BY <1>4, AllocateNextIInv, ExitIInv, MarkEndIInv, FreeRestIInv, SkipIInv DEF Loop
<1>5. CASE Return
  BY <1>5, ReturnIInv
<1>6. CASE Remount
  BY <1>6, ExitIInv
<1>7. CASE UNCHANGED vars
  BY <1>7 DEF vars, tables, locals, IInv, TypeOK, CallSound, VolumeSound, Heads,
              DistinctHeads, Idle, Running, OtherHeads, OwnHeads, Position
<1> QED
  BY <1>1, <1>2, <1>3, <1>4, <1>5, <1>6, <1>7 DEF Next

\* The state of the allocator keeps its types.
THEOREM TypeCorrect == Spec => []TypeOK
<1>1. IInv => TypeOK
  BY DEF IInv
<1> QED
  BY InitIInv, NextIInv, <1>1, PTL DEF Spec

\* The strengthening itself: at every point of every call memory is sound but
\* for the chain the call is changing.
THEOREM CallsSound == Spec => []CallSound
<1>1. IInv => CallSound
  BY DEF IInv
<1> QED
  BY InitIInv, NextIInv, <1>1, PTL DEF Spec

\* After any calls, interrupted by exits or not, the table on the volume has no
\* dangling link, no shared cluster, and no cluster in use outside a chain.
THEOREM VolumeAlwaysSound == Spec => []VolumeSound
<1>1. IInv => VolumeSound
  BY DEF IInv, CallSound
<1> QED
  BY InitIInv, NextIInv, <1>1, PTL DEF Spec

-----------------------------------------------------------------------------
(* What the loop of fat12_reallocate_cluster_chain does, exactly: every      *)
(* point of a call related to the chains on the volume.                      *)

-----------------------------------------------------------------------------
(* The chains of a sound table.                                             *)

\* The chain of a head never comes to a free cluster and visits none twice.
LEMMA HeadChain ==
    ASSUME NEW t \in Table, NEW R \in SUBSET Clusters, Sound(t, R), NEW c \in R
    PROVE  /\ IsChain(t, c, Chain(t, c))
           /\ IsInjective(Chain(t, c))
           /\ \A d \in ChainSet(t, c) : d \in Clusters /\ t[d] # Free
<1> DEFINE s == Chain(t, c)
<1>1. c \in Clusters /\ c \in Link
  BY Marks
<1>2. /\ s \in Seq(Clusters) /\ Len(s) \in 1 .. LastCluster /\ DOMAIN s = 1 .. Len(s)
      /\ s[1] = c
      /\ \A i \in 1 .. Len(s) - 1 : s[i + 1] = t[s[i]]
      /\ Len(s) \in 1 .. LastCluster - 1 => t[s[Len(s)]] \notin Clusters
  <2>1. Len(s) \in 0 .. LastCluster /\ Len(s) >= 1
    BY <1>1, ChainFacts
  <2> QED BY <1>1, <2>1, ChainFacts
<1> HIDE DEF s
<1>3. \A i \in 1 .. Len(s) : s[i] \in Clusters
  BY <1>2
<1>4. \A i \in 2 .. Len(s) : i - 1 \in 1 .. Len(s) - 1 /\ s[i - 1] \in Clusters /\ t[s[i - 1]] = s[i]
  <2> TAKE i \in 2 .. Len(s)
  <2>1. i - 1 \in 1 .. Len(s) - 1 /\ i - 1 \in 1 .. Len(s) /\ (i - 1) + 1 = i
    BY <1>2
  <2> QED BY <2>1, <1>2, <1>3
<1>5. \A i \in 2 .. Len(s) : s[i] # c
  BY <1>3, <1>4 DEF Sound, HeadsFirst
<1>6. \A i \in 1 .. Len(s) : t[s[i]] # Free
  <2> TAKE i \in 1 .. Len(s)
  <2>1. CASE i = 1
    BY <1>2, <2>1 DEF Sound, HeadsLive
  <2>2. CASE i # 1
    <3>1. i \in 2 .. Len(s)
      BY <2>2, <1>2
    <3>2. t[s[i - 1]] = s[i] /\ s[i - 1] \in Clusters /\ s[i] \in Clusters
      BY <3>1, <1>3, <1>4
    <3> QED BY <3>2 DEF Sound, LinksLive
  <2> QED BY <2>1, <2>2
<1>7. \A i, j \in 1 .. Len(s) : s[i] = s[j] => i = j
  <2> DEFINE Twice == {i \in 1 .. Len(s) : \E j \in 1 .. Len(s) : i < j /\ s[i] = s[j]}
  <2>1. Twice = {}
    <3> SUFFICES ASSUME Twice # {} PROVE FALSE
      OBVIOUS
    <3>1. PICK i \in Twice : \A k \in Twice : i <= k
      <4>1. Twice \in SUBSET Nat
        BY <1>2
      <4> HIDE DEF Twice
      <4> QED BY <4>1, LeastNatural
    <3>2. PICK j \in 1 .. Len(s) : i < j /\ s[i] = s[j]
      BY <3>1
    <3>3. i # 1
      BY <3>2, <1>2, <1>5
    <3>4. i \in 2 .. Len(s) /\ j \in 2 .. Len(s)
      BY <3>2, <3>3, <1>2
    <3>5. s[i - 1] = s[j - 1]
      <4>1. /\ s[i - 1] \in Clusters /\ t[s[i - 1]] = s[i]
            /\ s[j - 1] \in Clusters /\ t[s[j - 1]] = s[j]
        BY <3>4, <1>4
      <4>2. s[j] \in Clusters /\ t[s[i - 1]] = t[s[j - 1]] /\ t[s[i - 1]] \in Clusters
        BY <4>1, <3>2, <1>3
      <4> QED BY <4>1, <4>2, Zenon DEF Sound, OnePredecessor
    <3>6. i - 1 \in 1 .. Len(s) /\ j - 1 \in 1 .. Len(s) /\ i - 1 < j - 1
      BY <3>2, <3>4, <1>2
    <3>7. i - 1 \in Twice
      BY <3>5, <3>6
    <3> QED BY <3>1, <3>4, <3>7
  <2> QED BY <2>1, <1>2
<1>8. IsInjective(s)
  BY <1>2, <1>7 DEF IsInjective
<1>9. Len(s) \in 1 .. LastCluster - 1
  BY <1>2, <1>8, InjectiveLength
<1>10. t[s[Len(s)]] = Eof
  <2>1. Len(s) \in 1 .. Len(s) /\ s[Len(s)] \in Clusters
    BY <1>2, <1>3
  <2> QED BY <2>1, <1>2, <1>6, <1>9 DEF Table, Link
<1>11. IsChain(t, c, s)
  BY <1>2, <1>10 DEF IsChain
<1>12. \A d \in ToSet(s) : d \in Clusters /\ t[d] # Free
  BY <1>2, <1>3, <1>6 DEF ToSet
<1> QED
  BY <1>8, <1>11, <1>12 DEF s, ChainSet

\* Chains of different heads have no cluster in common.
LEMMA HeadsApart ==
    ASSUME NEW t \in Table, NEW R \in SUBSET Clusters, Sound(t, R),
           NEW c \in R, NEW d \in R, c # d
    PROVE  ChainSet(t, c) \cap ChainSet(t, d) = {}
<1> DEFINE p == Chain(t, c)
           q == Chain(t, d)
           Met == {i \in 1 .. Len(p) : \E j \in 1 .. Len(q) : p[i] = q[j]}
<1>1. /\ p \in Seq(Clusters) /\ Len(p) \in 1 .. LastCluster /\ p[1] = c
      /\ \A i \in 1 .. Len(p) - 1 : t[p[i]] = p[i + 1]
      /\ q \in Seq(Clusters) /\ Len(q) \in 1 .. LastCluster /\ q[1] = d
      /\ \A i \in 1 .. Len(q) - 1 : t[q[i]] = q[i + 1]
  BY HeadChain DEF IsChain
<1>2. ChainSet(t, c) = {p[i] : i \in 1 .. Len(p)} /\ ChainSet(t, d) = {q[i] : i \in 1 .. Len(q)}
  <2>1. DOMAIN p = 1 .. Len(p) /\ DOMAIN q = 1 .. Len(q)
    BY <1>1
  <2> QED BY <2>1 DEF ChainSet, ToSet
<1> HIDE DEF p, q
<1>3. /\ \A i \in 2 .. Len(p) : i - 1 \in 1 .. Len(p) /\ p[i - 1] \in Clusters /\ t[p[i - 1]] = p[i]
      /\ \A i \in 2 .. Len(q) : i - 1 \in 1 .. Len(q) /\ q[i - 1] \in Clusters /\ t[q[i - 1]] = q[i]
  <2>1. ASSUME NEW i \in 2 .. Len(p)
        PROVE  i - 1 \in 1 .. Len(p) /\ p[i - 1] \in Clusters /\ t[p[i - 1]] = p[i]
    <3>1. i - 1 \in 1 .. Len(p) - 1 /\ i - 1 \in 1 .. Len(p) /\ (i - 1) + 1 = i
      BY <1>1
    <3> QED BY <3>1, <1>1
  <2>2. ASSUME NEW i \in 2 .. Len(q)
        PROVE  i - 1 \in 1 .. Len(q) /\ q[i - 1] \in Clusters /\ t[q[i - 1]] = q[i]
    <3>1. i - 1 \in 1 .. Len(q) - 1 /\ i - 1 \in 1 .. Len(q) /\ (i - 1) + 1 = i
      BY <1>1
    <3> QED BY <3>1, <1>1
  <2> QED BY <2>1, <2>2
<1>4. Met = {}
  <2> SUFFICES ASSUME Met # {} PROVE FALSE
    OBVIOUS
  <2>1. PICK i \in Met : \A k \in Met : i <= k
    <3>1. Met \in SUBSET Nat
      BY <1>1
    <3> HIDE DEF Met
    <3> QED BY <3>1, LeastNatural
  <2>2. PICK j \in 1 .. Len(q) : p[i] = q[j]
    BY <2>1
  <2>3. i # 1
    <3>1. CASE i = 1 /\ j = 1
      BY <3>1, <2>2, <1>1
    <3>2. CASE i = 1 /\ j # 1
      <4>1. j \in 2 .. Len(q)
        BY <3>2, <1>1
      <4> QED BY <3>2, <4>1, <2>2, <1>1, <1>3 DEF Sound, HeadsFirst
    <3> QED BY <3>1, <3>2
  <2>4. i \in 2 .. Len(p)
    BY <2>3, <1>1
  <2>5. j \in 2 .. Len(q)
    <3>1. CASE j = 1
      BY <3>1, <2>2, <2>4, <1>1, <1>3 DEF Sound, HeadsFirst
    <3> QED BY <3>1, <1>1
  <2>6. p[i - 1] = q[j - 1]
    <3>1. /\ p[i - 1] \in Clusters /\ t[p[i - 1]] = p[i]
          /\ q[j - 1] \in Clusters /\ t[q[j - 1]] = q[j]
      BY <2>4, <2>5, <1>3
    <3>2. q[j] \in Clusters /\ t[p[i - 1]] = t[q[j - 1]] /\ t[p[i - 1]] \in Clusters
      BY <3>1, <2>2, <1>1
    <3> QED BY <3>1, <3>2, Zenon DEF Sound, OnePredecessor
  <2>7. i - 1 \in Met
    BY <2>4, <2>5, <2>6, <1>3
  <2> QED BY <2>1, <2>4, <2>7
<1> QED
  BY <1>2, <1>4

-----------------------------------------------------------------------------
(* Where a call stands.  The table on the volume does not change while the  *)
(* loop runs, so the chain the call found there is known throughout.        *)

\* The chain of the file on the volume, and the iterations done.
Old  == Chain(disk, first[call.file])
Done == call.n - remaining

\* The loop follows the chain and has changed nothing.
Following ==
    /\ Done \in 0 .. call.n
    /\ Done <= Len(Old)
    /\ fat = disk
    /\ start = IF Done = 0 THEN Eof ELSE Old[1]
    /\ previous = IF Done = 0 THEN RootCluster ELSE Old[Done]
    /\ cluster = IF Done < Len(Old) THEN Old[Done + 1] ELSE Eof

\* The chain was too short: it has been given the lowest free clusters.
Growing ==
    LET j == Done - Len(Old)
    IN  /\ Done \in 1 .. call.n
        /\ j \in 1 .. Cardinality(FreeClusters(disk))
        /\ fat = Linked(disk, Grown(disk, Old, j))
        /\ start = Grown(disk, Old, j)[1]
        /\ previous = Grown(disk, Old, j)[Done]
        /\ cluster = Eof

\* The chain was too long: it ends at cluster n + 1, and the clusters after
\* that one have been freed up to the k-th.
Truncated(t, p, n, k) ==
    [c \in Clusters |-> IF \E i \in n + 2 .. k : p[i] = c THEN Free
                        ELSE IF c = p[n + 1] THEN Eof ELSE t[c]]

Cutting ==
    /\ call.n + 1 <= Done
    /\ Done <= Len(Old)
    /\ fat = Truncated(disk, Old, call.n, Done)
    /\ start = Old[1]
    /\ cluster = IF Done < Len(Old) THEN Old[Done + 1] ELSE Eof

\* The chain was not too long, and now has the clusters asked for.
Complete ==
    LET j == call.n - Len(Old)
    IN  /\ Done = call.n + 1
        /\ j \in 0 .. Cardinality(FreeClusters(disk))
        /\ fat = Linked(disk, Grown(disk, Old, j))
        /\ start = Grown(disk, Old, j)[1]
        /\ cluster = Eof

LoopShape == Following \/ Growing \/ Cutting \/ Complete

\* On the volume, every cluster in use is in the chain of a file, and the
\* chains have the lengths the calls have made them.
VolumeCovered ==
    /\ \A c \in Clusters : disk[c] # Free => \E f \in Files : c \in ChainSet(disk, first[f])
    /\ \A f \in Files :
          first[f] # Eof => /\ Len(Chain(disk, first[f])) - needed[f] \in {0, 1}
                            /\ Len(Chain(disk, first[f])) <= MaxClusters

LInv == IInv /\ VolumeCovered /\ (Running => LoopShape)

-----------------------------------------------------------------------------
(* The chains of the files.                                                 *)

(* A file of a sound volume has a chain, which ends. *)
LEMMA FileChain ==
    ASSUME IInv, NEW f \in Files
    PROVE  LET p == Chain(disk, first[f])
           IN  /\ disk \in Table
               /\ first[f] \in Clusters \cup {Eof} /\ first[f] \in Link
               /\ p \in Seq(Clusters) /\ IsInjective(p)
               /\ Len(p) \in Nat
               /\ DOMAIN p = 1 .. Len(p)
               /\ \A i \in 1 .. Len(p) : p[i] \in Clusters /\ disk[p[i]] # Free
               /\ first[f] = Eof => p = <<>> /\ Len(p) = 0
               /\ first[f] # Eof => IsChain(disk, first[f], p) /\ Len(p) >= 1 /\ p[1] = first[f]
               /\ Linked(disk, p) = disk
               /\ Grown(disk, p, 0) = p
<1> DEFINE p == Chain(disk, first[f])
<1> HIDE DEF p
<1>1. /\ disk \in Table /\ first[f] \in Clusters \cup {Eof} /\ first[f] \in Link
      /\ Heads \in SUBSET Clusters
      /\ first[f] # Eof => first[f] \in Heads
      /\ Sound(disk, Heads)
  BY HeadsAreClusters, Marks DEF IInv, TypeOK, CallSound, VolumeSound, Heads
<1>2. ASSUME p \in Seq(Clusters) PROVE Grown(disk, p, 0) = p
  <2>1. LowestFree(disk, 0) = <<>>
    BY DEF LowestFree
  <2> QED BY <1>2, <2>1 DEF Grown
<1>3. CASE first[f] = Eof
  <2>1. p = <<>> /\ p \in Seq(Clusters)
    BY <1>1, <1>3, ChainFacts, Marks DEF p
  <2>2. IsInjective(p)
    BY <2>1 DEF IsInjective
  <2>3. Linked(disk, p) \in Table /\ \A c \in Clusters : Linked(disk, p)[c] = disk[c]
    <3>1. ToSet(p) = {}
      BY <2>1 DEF ToSet
    <3> QED BY <1>1, <2>1, <2>2, <3>1, LinkedFacts
  <2>4. Linked(disk, p) = disk
    BY <1>1, <2>3 DEF Table
  <2> QED BY <1>1, <1>2, <1>3, <2>1, <2>2, <2>4 DEF p
<1>4. CASE first[f] # Eof
  <2>1. /\ IsChain(disk, first[f], p) /\ IsInjective(p)
        /\ \A d \in ToSet(p) : d \in Clusters /\ disk[d] # Free
    BY <1>1, <1>4, HeadChain DEF ChainSet, p
  <2>2. p \in Seq(Clusters) /\ Len(p) \in Nat /\ DOMAIN p = 1 .. Len(p) /\ Len(p) >= 1
        /\ p[1] = first[f]
    BY <2>1 DEF IsChain
  <2>3. \A i \in 1 .. Len(p) : p[i] \in Clusters /\ disk[p[i]] # Free
    BY <2>1, <2>2 DEF ToSet
  <2>4. Linked(disk, p) = disk
    BY <1>1, <2>1, LinkedAgain
  <2> QED BY <1>1, <1>2, <1>4, <2>1, <2>2, <2>3, <2>4 DEF p
<1> QED
  BY <1>3, <1>4 DEF p

(* The chain the call started with, on the table it started with. *)
LEMMA OldFacts ==
    ASSUME IInv, Running
    PROVE  /\ call.file \in Files
           /\ disk \in Table
           /\ Old \in Seq(Clusters) /\ IsInjective(Old)
           /\ Len(Old) \in Nat
           /\ DOMAIN Old = 1 .. Len(Old)
           /\ \A i \in 1 .. Len(Old) : Old[i] \in Clusters /\ disk[Old[i]] # Free
           /\ first[call.file] = Eof <=> Len(Old) = 0
           /\ first[call.file] # Eof => IsChain(disk, first[call.file], Old) /\ Old[1] = first[call.file]
           /\ Linked(disk, Old) = disk
           /\ Grown(disk, Old, 0) = Old
           /\ call.n \in 0 .. MaxClusters /\ call.n \in Nat
           /\ call.n = 0 => Len(Old) >= 1
           /\ remaining \in Int /\ Done \in Int /\ remaining = call.n - Done
<1>1. call.file \in Files /\ call.n \in 0 .. MaxClusters /\ MaxClusters \in Nat
  BY MaxClustersAssumption DEF Running, Calls
<1>2. /\ call.op = "create" <=> first[call.file] = Eof
      /\ call.op = "remove" <=> call.n = 0
      /\ remaining \in Int
  BY DEF IInv, CallSound, TypeOK
<1> DEFINE p == Old
<1>3. p = Chain(disk, first[call.file])
  BY DEF Old
<1>4. /\ disk \in Table
      /\ p \in Seq(Clusters) /\ IsInjective(p)
      /\ Len(p) \in Nat
      /\ DOMAIN p = 1 .. Len(p)
      /\ \A i \in 1 .. Len(p) : p[i] \in Clusters /\ disk[p[i]] # Free
      /\ first[call.file] = Eof => p = <<>> /\ Len(p) = 0
      /\ first[call.file] # Eof =>
            IsChain(disk, first[call.file], p) /\ Len(p) >= 1 /\ p[1] = first[call.file]
      /\ Linked(disk, p) = disk
      /\ Grown(disk, p, 0) = p
  BY <1>1, <1>3, FileChain, Zenon
<1>5. call.n \in Nat /\ Done \in Int /\ remaining = call.n - Done
  BY <1>1, <1>2 DEF Done
<1> QED
  BY <1>1, <1>2, <1>4, <1>5 DEF p

-----------------------------------------------------------------------------
(* The shape of a call is kept, step by step.                               *)

(* A turn of the loop advances its position by one. *)
LEMMA IterateShape ==
    ASSUME LInv, Looping, NEW c, NEW next, NEW t, Iterate(c, next, t)
    PROVE  /\ disk' = disk /\ call' = call
           /\ Old' = Old /\ Done' = Done + 1
           /\ fat' = t /\ previous' = c /\ cluster' = next
           /\ start' = IF start = Eof THEN c ELSE start
<1>1. /\ disk' = disk /\ call' = call /\ first' = first
      /\ fat' = t /\ previous' = c /\ cluster' = next
      /\ remaining' = remaining - 1
      /\ start' = IF start = Eof THEN c ELSE start
  BY DEF Iterate, Advance
<1>2. call.n \in Nat /\ remaining \in Int
  BY OldFacts DEF LInv, Looping
<1> QED
  BY <1>1, <1>2 DEF Old, Done

\* In a chain, the table holds the successor.
LEMMA OldLinks ==
    ASSUME IInv, Running, NEW i \in 1 .. Len(Old)
    PROVE  /\ Old[i] \in Clusters /\ Old[i] # Eof
           /\ disk[Old[i]] = IF i < Len(Old) THEN Old[i + 1] ELSE Eof
           /\ NextCluster(disk, Old[i]) = IF i < Len(Old) THEN Old[i + 1] ELSE Eof
<1>1. Old[i] \in Clusters /\ Len(Old) \in Nat /\ IsChain(disk, first[call.file], Old)
  BY OldFacts
<1>2. disk[Old[i]] = IF i < Len(Old) THEN Old[i + 1] ELSE Eof
  BY <1>1 DEF IsChain
<1> QED
  BY <1>1, <1>2, Marks DEF NextCluster

(* A call begins at the first position. *)
LEMMA BeginShape ==
    ASSUME LInv, NEW f \in Files, NEW n \in 0 .. MaxClusters, NEW op, Begin(op, f, n)
    PROVE  LoopShape'
<1>1. /\ disk' = disk /\ first' = first /\ fat' = fat /\ fat = disk
      /\ call'.file = f /\ call'.n = n
      /\ cluster' = first[f] /\ start' = Eof
      /\ previous' = RootCluster /\ remaining' = n
  BY DEF Begin, tables, LInv, IInv, CallSound
<1> DEFINE p == Chain(disk, first[f])
<1>2. Old' = p /\ Done' = 0 /\ n \in Nat
  BY <1>1, MaxClustersAssumption DEF Old, Done
<1>3. /\ Len(p) \in Nat
      /\ first[f] = Eof => Len(p) = 0
      /\ first[f] # Eof => Len(p) >= 1 /\ p[1] = first[f]
  BY FileChain DEF LInv
<1> HIDE DEF p
<1>4. Following'
  BY <1>1, <1>2, <1>3 DEF Following
<1> QED
  BY <1>4 DEF LoopShape

(* Following the chain moves the position along the old chain. *)
LEMMA SkipShape ==
    ASSUME LInv, Skip
    PROVE  LoopShape'
<1>1. Looping /\ IInv /\ Running /\ LoopShape
  BY DEF Skip, Looping, LInv
<1>2. /\ disk' = disk /\ call' = call
      /\ Old' = Old /\ Done' = Done + 1
      /\ fat' = fat /\ previous' = cluster /\ cluster' = NextCluster(fat, cluster)
      /\ start' = IF start = Eof THEN cluster ELSE start
  BY <1>1, IterateShape DEF Skip
<1>3. /\ call.n \in Nat /\ Done \in Int /\ remaining = call.n - Done
      /\ Len(Old) \in Nat /\ (call.n = 0 => Len(Old) >= 1)
      /\ Linked(disk, Grown(disk, Old, 0)) = disk
      /\ Grown(disk, Old, 0) = Old
  BY <1>1, OldFacts
<1>4. \A i \in 1 .. Len(Old) :
          /\ Old[i] \in Clusters /\ Old[i] # Eof
          /\ NextCluster(disk, Old[i]) = IF i < Len(Old) THEN Old[i + 1] ELSE Eof
  BY <1>1, OldLinks
<1>5. CASE Following /\ remaining > 0 /\ cluster # Eof
  <2>1. /\ Done < Len(Old) /\ Done < call.n /\ Done \in Nat
        /\ Done + 1 \in 1 .. Len(Old) /\ cluster = Old[Done + 1] /\ fat = disk
    BY <1>3, <1>5 DEF Following
  <2>2. cluster' = IF Done + 1 < Len(Old) THEN Old[(Done + 1) + 1] ELSE Eof
    BY <2>1, <1>2, <1>4
  <2>3. start' = Old[1]
    <3>1. CASE Done = 0
      BY <3>1, <2>1, <1>2, <1>5 DEF Following
    <3>2. CASE Done # 0
      <4>1. start = Old[1] /\ 1 \in 1 .. Len(Old)
        BY <3>2, <2>1, <1>3, <1>5 DEF Following
      <4> QED BY <4>1, <1>2, <1>4
    <3> QED BY <3>1, <3>2
  <2>4. Following'
    BY <2>1, <2>2, <2>3, <1>2, <1>3 DEF Following
  <2> QED BY <2>4 DEF LoopShape
<1>6. CASE Following /\ remaining <= 0 /\ cluster = Eof
  <2>1. Done = call.n /\ Done \in Nat /\ Done <= Len(Old)
    BY <1>3, <1>6 DEF Following
  <2>2. ~(Done < Len(Old))
    <3> SUFFICES ASSUME Done < Len(Old) PROVE FALSE
      OBVIOUS
    <3>1. Done + 1 \in 1 .. Len(Old) /\ cluster = Old[Done + 1]
      BY <2>1, <1>3, <1>6 DEF Following
    <3> QED BY <3>1, <1>4, <1>6
  <2>3. Done = Len(Old) /\ Done # 0
    BY <2>1, <2>2, <1>3
  <2>4. start = Old[1] /\ start # Eof /\ fat = disk
    BY <2>3, <1>3, <1>4, <1>6 DEF Following
  <2>5. call.n - Len(Old) = 0 /\ 0 \in 0 .. Cardinality(FreeClusters(disk))
    BY <2>1, <2>3, <1>3, FreeFinite
  <2>6. cluster' = Eof
    BY <1>2, <1>6, Marks DEF NextCluster
  <2>7. Complete'
    BY <2>1, <2>4, <2>5, <2>6, <1>2, <1>3 DEF Complete
  <2> QED BY <2>7 DEF LoopShape
<1>7. CASE Growing
  <2>1. cluster = Eof /\ remaining <= 0
    BY <1>7 DEF Growing, Skip
  <2>2. Done = call.n /\ call.n >= 1
    BY <2>1, <1>3, <1>7 DEF Growing
  <2>3. start # Eof
    <3> DEFINE j == Done - Len(Old)
    <3>1. j \in Nat /\ j <= Cardinality(FreeClusters(disk))
      BY <1>3, <1>7, FreeFinite DEF Growing
    <3>2. Grown(disk, Old, j) \in Seq(Clusters) /\ Len(Grown(disk, Old, j)) = Len(Old) + j
      <4> HIDE DEF j
      <4> QED BY <3>1, <1>1, OldFacts, GrownFacts
    <3>3. Grown(disk, Old, j)[1] \in Clusters
      BY <3>2, <2>2, <1>3
    <3> QED BY <3>3, <1>7, Marks DEF Growing
  <2>4. cluster' = Eof
    BY <2>1, <1>2, Marks DEF NextCluster
  <2>5. Complete'
    BY <2>2, <2>3, <2>4, <1>2, <1>3, <1>7 DEF Growing, Complete
  <2> QED BY <2>5 DEF LoopShape
<1>8. CASE Cutting \/ Complete
  <2>1. remaining < 0
    BY <1>3, <1>8 DEF Cutting, Complete
  <2> QED BY <2>1, <1>3 DEF Skip, Looping, MoreToDo
<1> QED
  BY <1>1, <1>5, <1>6, <1>7, <1>8 DEF LoopShape, Skip

\* Ending a chain at cluster n + 1, and freeing one more of the rest.
LEMMA TruncatedSteps ==
    ASSUME NEW t \in Table, NEW p \in Seq(Clusters), IsInjective(p), NEW n \in Nat
    PROVE  /\ n < Len(p) => SetEntry(t, p[n + 1], Eof) = Truncated(t, p, n, n + 1)
           /\ \A k \in n + 1 .. Len(p) - 1 :
                 /\ SetEntry(Truncated(t, p, n, k), p[k + 1], Free) = Truncated(t, p, n, k + 1)
                 /\ NextCluster(Truncated(t, p, n, k), p[k + 1]) = t[p[k + 1]]
<1>1. \A i \in 1 .. Len(p) : p[i] \in Clusters
  OBVIOUS
<1>2. \A i, j \in 1 .. Len(p) : p[i] = p[j] => i = j
  BY DEF IsInjective
<1>3. ASSUME n < Len(p) PROVE SetEntry(t, p[n + 1], Eof) = Truncated(t, p, n, n + 1)
  <2>1. p[n + 1] \in Clusters /\ n + 2 .. n + 1 = {}
    BY <1>1, <1>3
  <2> QED BY <2>1 DEF Truncated, SetEntry, Table
<1>4. ASSUME NEW k \in n + 1 .. Len(p) - 1
      PROVE  /\ SetEntry(Truncated(t, p, n, k), p[k + 1], Free) = Truncated(t, p, n, k + 1)
             /\ NextCluster(Truncated(t, p, n, k), p[k + 1]) = t[p[k + 1]]
  <2> DEFINE u == Truncated(t, p, n, k)
             v == Truncated(t, p, n, k + 1)
             c == p[k + 1]
  <2>1. k + 1 \in 1 .. Len(p) /\ c \in Clusters
    BY <1>1
  <2>2. /\ k + 1 \in n + 2 .. k + 1 /\ n + 1 \in 1 .. Len(p) /\ n + 1 # k + 1
        /\ \A i \in n + 2 .. k : i \in 1 .. Len(p) /\ i # k + 1 /\ i \in n + 2 .. k + 1
        /\ \A i \in n + 2 .. k + 1 : i \in n + 2 .. k \/ i = k + 1
    OBVIOUS
  <2>3. /\ u = [d \in Clusters |-> u[d]] /\ v = [d \in Clusters |-> v[d]]
        /\ \A d \in Clusters :
              /\ u[d] = IF \E i \in n + 2 .. k : p[i] = d THEN Free
                        ELSE IF d = p[n + 1] THEN Eof ELSE t[d]
              /\ v[d] = IF \E i \in n + 2 .. k + 1 : p[i] = d THEN Free
                        ELSE IF d = p[n + 1] THEN Eof ELSE t[d]
    BY DEF Truncated
  <2> HIDE DEF u, v
  <2>4. v[c] = Free /\ u[c] = t[c]
    <3>1. c # p[n + 1]
      BY <1>2, <2>1, <2>2
    <3>2. \A i \in n + 2 .. k : p[i] # c
      BY <1>2, <2>1, <2>2
    <3> QED BY <3>1, <3>2, <2>1, <2>2, <2>3
  <2>5. \A d \in Clusters : d # c => u[d] = v[d]
    <3> SUFFICES ASSUME NEW d \in Clusters, d # c PROVE u[d] = v[d]
      OBVIOUS
    <3>1. (\E i \in n + 2 .. k : p[i] = d) <=> (\E i \in n + 2 .. k + 1 : p[i] = d)
      BY <2>2
    <3> QED BY <3>1, <2>3
  <2>6. [u EXCEPT ![c] = Free] = v
    BY <2>1, <2>3, <2>4, <2>5
  <2> QED BY <2>1, <2>4, <2>6 DEF SetEntry, NextCluster, u, v
<1> QED
  BY <1>3, <1>4

(* Marking the end begins the cut. *)
LEMMA MarkEndShape ==
    ASSUME LInv, MarkEnd
    PROVE  LoopShape'
<1>1. Looping /\ IInv /\ Running /\ LoopShape /\ remaining = 0 /\ cluster # Eof
  BY DEF MarkEnd, Looping, LInv
<1>2. /\ disk' = disk /\ call' = call
      /\ Old' = Old /\ Done' = Done + 1
      /\ fat' = SetEntry(fat, cluster, Eof) /\ cluster' = NextCluster(fat, cluster)
      /\ start' = IF start = Eof THEN cluster ELSE start
  BY <1>1, IterateShape DEF MarkEnd
<1>3. /\ call.n \in Nat /\ Done \in Int /\ remaining = call.n - Done
      /\ Len(Old) \in Nat
      /\ disk \in Table /\ Old \in Seq(Clusters) /\ IsInjective(Old)
  BY <1>1, OldFacts
<1>4. Following /\ Done = call.n /\ Done < Len(Old) /\ Done + 1 \in 1 .. Len(Old)
      /\ cluster = Old[Done + 1] /\ fat = disk
  BY <1>1, <1>3 DEF LoopShape, Following, Growing, Cutting, Complete
<1>5. fat' = Truncated(disk, Old, call.n, call.n + 1)
  BY <1>2, <1>3, <1>4, TruncatedSteps
<1>6. /\ \A i \in 1 .. Len(Old) : Old[i] # Eof
      /\ cluster' = IF Done + 1 < Len(Old) THEN Old[(Done + 1) + 1] ELSE Eof
  BY <1>1, <1>2, <1>4, OldLinks
<1>7. start' = Old[1]
  <2>1. CASE Done = 0
    BY <2>1, <1>2, <1>4 DEF Following
  <2>2. CASE Done # 0
    <3>1. start = Old[1] /\ 1 \in 1 .. Len(Old)
      BY <2>2, <1>3, <1>4 DEF Following
    <3> QED BY <3>1, <1>2, <1>6
  <2> QED BY <2>1, <2>2
<1>8. Cutting'
  BY <1>2, <1>3, <1>4, <1>5, <1>6, <1>7 DEF Cutting
<1> QED
  BY <1>8 DEF LoopShape

(* Freeing a cluster moves the cut along the old chain. *)
LEMMA FreeRestShape ==
    ASSUME LInv, FreeRest
    PROVE  LoopShape'
<1>1. Looping /\ IInv /\ Running /\ LoopShape /\ remaining < 0 /\ cluster # Eof
  BY DEF FreeRest, Looping, LInv
<1>2. /\ disk' = disk /\ call' = call
      /\ Old' = Old /\ Done' = Done + 1
      /\ fat' = SetEntry(fat, cluster, Free) /\ cluster' = NextCluster(fat, cluster)
      /\ start' = IF start = Eof THEN cluster ELSE start
  BY <1>1, IterateShape DEF FreeRest
<1>3. /\ call.n \in Nat /\ Done \in Int /\ remaining = call.n - Done
      /\ Len(Old) \in Nat
      /\ disk \in Table /\ Old \in Seq(Clusters) /\ IsInjective(Old)
  BY <1>1, OldFacts
<1>4. /\ Cutting /\ Done \in call.n + 1 .. Len(Old) - 1 /\ Done + 1 \in 1 .. Len(Old)
      /\ cluster = Old[Done + 1] /\ fat = Truncated(disk, Old, call.n, Done)
  BY <1>1, <1>3 DEF LoopShape, Following, Growing, Cutting, Complete
<1>5. /\ fat' = Truncated(disk, Old, call.n, Done + 1)
      /\ cluster' = disk[Old[Done + 1]]
  BY <1>2, <1>3, <1>4, TruncatedSteps
<1>6. /\ \A i \in 1 .. Len(Old) : Old[i] # Eof
      /\ cluster' = IF Done + 1 < Len(Old) THEN Old[(Done + 1) + 1] ELSE Eof
  BY <1>1, <1>4, <1>5, OldLinks
<1>7. start' = Old[1]
  <2>1. start = Old[1] /\ 1 \in 1 .. Len(Old)
    BY <1>3, <1>4 DEF Cutting
  <2> QED BY <2>1, <1>2, <1>6
<1>8. Cutting'
  BY <1>2, <1>3, <1>4, <1>5, <1>6, <1>7 DEF Cutting
<1> QED
  BY <1>8 DEF LoopShape

\* Where the loop allocates or gives up, it has come to the end of the chain
\* and taken the free clusters there were before it.
LEMMA AtEnd ==
    ASSUME LInv, Looping, remaining > 0, cluster = Eof
    PROVE  \E j \in Nat :
              /\ j <= Cardinality(FreeClusters(disk))
              /\ Done = Len(Old) + j /\ Done < call.n
              /\ fat = Linked(disk, Grown(disk, Old, j))
              /\ previous = IF Len(Old) + j = 0 THEN RootCluster ELSE Grown(disk, Old, j)[Len(Old) + j]
              /\ start = IF Len(Old) + j = 0 THEN Eof ELSE Grown(disk, Old, j)[1]
              /\ Len(Old) + j # 0 => start # Eof
<1>1. IInv /\ Running /\ LoopShape
  BY DEF Looping, LInv
<1>2. /\ call.n \in Nat /\ Done \in Int /\ remaining = call.n - Done
      /\ Len(Old) \in Nat
      /\ \A i \in 1 .. Len(Old) : Old[i] \in Clusters
      /\ Linked(disk, Old) = disk
      /\ Grown(disk, Old, 0) = Old
      /\ disk \in Table /\ Old \in Seq(Clusters) /\ IsInjective(Old)
      /\ \A i \in 1 .. Len(Old) : disk[Old[i]] # Free
  BY <1>1, OldFacts
<1>3. CASE Following
  <2>1. ~(Done < Len(Old))
    <3> SUFFICES ASSUME Done < Len(Old) PROVE FALSE
      OBVIOUS
    <3>1. Done + 1 \in 1 .. Len(Old) /\ cluster = Old[Done + 1]
      BY <1>2, <1>3 DEF Following
    <3> QED BY <3>1, <1>2, Marks
  <2>2. Done = Len(Old) + 0 /\ Done < call.n /\ 0 <= Cardinality(FreeClusters(disk))
    BY <2>1, <1>2, <1>3, FreeFinite DEF Following
  <2>3. Len(Old) # 0 => start # Eof
    <3> HAVE Len(Old) # 0
    <3>1. 1 \in 1 .. Len(Old) /\ Done # 0
      BY <2>2, <1>2
    <3>2. start = Old[1]
      BY <3>1, <1>3 DEF Following
    <3> QED BY <3>1, <3>2, <1>2, Marks
  <2>4. /\ previous = IF Len(Old) + 0 = 0 THEN RootCluster ELSE Grown(disk, Old, 0)[Len(Old) + 0]
        /\ start = IF Len(Old) + 0 = 0 THEN Eof ELSE Grown(disk, Old, 0)[1]
        /\ fat = Linked(disk, Grown(disk, Old, 0))
    BY <2>2, <1>2, <1>3 DEF Following
  <2>5. Len(Old) + 0 # 0 => start # Eof
    BY <2>3, <1>2
  <2> QED BY <2>2, <2>4, <2>5
<1>4. CASE Growing
  <2> DEFINE j == Done - Len(Old)
  <2>1. /\ j \in Nat /\ j <= Cardinality(FreeClusters(disk))
        /\ Done = Len(Old) + j /\ Done < call.n /\ Len(Old) + j # 0
        /\ fat = Linked(disk, Grown(disk, Old, j))
        /\ previous = Grown(disk, Old, j)[Done]
        /\ start = Grown(disk, Old, j)[1]
    BY <1>2, <1>4, FreeFinite DEF Growing
  <2> HIDE DEF j
  <2>2. Grown(disk, Old, j) \in Seq(Clusters) /\ Len(Grown(disk, Old, j)) = Len(Old) + j
    BY <2>1, <1>2, GrownFacts
  <2>3. start # Eof
    BY <2>1, <2>2, <1>2, Marks
  <2> QED BY <2>1, <2>3
<1>5. CASE Cutting \/ Complete
  BY <1>2, <1>5 DEF Cutting, Complete
<1> QED
  BY <1>1, <1>3, <1>4, <1>5 DEF LoopShape

(* Allocating moves the position to the next lowest free cluster. *)
LEMMA AllocateNextShape ==
    ASSUME LInv, AllocateNext
    PROVE  LoopShape'
<1>1. Looping /\ IInv /\ Running /\ remaining > 0 /\ cluster = Eof
  BY DEF AllocateNext, Looping, LInv
<1>2. PICK c \in Clusters :
        /\ IsFirstAvailable(fat, c)
        /\ Iterate(c, Eof, Extend(fat, previous, c))
  BY DEF AllocateNext
<1>3. /\ disk' = disk /\ call' = call
      /\ Old' = Old /\ Done' = Done + 1
      /\ fat' = Extend(fat, previous, c) /\ previous' = c /\ cluster' = Eof
      /\ start' = IF start = Eof THEN c ELSE start
  BY <1>1, <1>2, IterateShape
<1>4. PICK j \in Nat :
        /\ j <= Cardinality(FreeClusters(disk))
        /\ Done = Len(Old) + j /\ Done < call.n
        /\ fat = Linked(disk, Grown(disk, Old, j))
        /\ previous = IF Len(Old) + j = 0 THEN RootCluster ELSE Grown(disk, Old, j)[Len(Old) + j]
        /\ start = IF Len(Old) + j = 0 THEN Eof ELSE Grown(disk, Old, j)[1]
        /\ Len(Old) + j # 0 => start # Eof
  BY <1>1, AtEnd
<1>5. /\ call.n \in Nat /\ Len(Old) \in Nat
      /\ disk \in Table /\ Old \in Seq(Clusters) /\ IsInjective(Old)
      /\ \A i \in 1 .. Len(Old) : disk[Old[i]] # Free
  BY <1>1, OldFacts
<1>6. FreeClusters(fat) = FreeClusters(disk) \ ToSet(LowestFree(disk, j))
  BY <1>4, <1>5, GrownFacts
<1>7. /\ j + 1 <= Cardinality(FreeClusters(disk))
      /\ c = LowestFree(disk, j + 1)[j + 1]
  BY <1>2, <1>4, <1>6, NextLowest
<1>8. /\ \A i \in 1 .. Len(Old) + j : Grown(disk, Old, j + 1)[i] = Grown(disk, Old, j)[i]
      /\ Grown(disk, Old, j + 1)[Len(Old) + j + 1] = c
      /\ Extend(fat, previous, c) = Linked(disk, Grown(disk, Old, j + 1))
  BY <1>4, <1>5, <1>7, GrownNext
<1>9. /\ Done + 1 \in 1 .. call.n
      /\ (Done + 1) - Len(Old) = j + 1
      /\ Len(Old) + j + 1 = Done + 1
      /\ j + 1 \in 1 .. Cardinality(FreeClusters(disk))
  BY <1>4, <1>5, <1>7, FreeFinite
<1>10. start' = Grown(disk, Old, j + 1)[1]
  <2>1. CASE Len(Old) + j = 0
    BY <2>1, <1>3, <1>4, <1>5, <1>8
  <2>2. CASE Len(Old) + j # 0
    <3>1. 1 \in 1 .. Len(Old) + j
      BY <2>2, <1>5
    <3> QED BY <3>1, <2>2, <1>3, <1>4, <1>8
  <2> QED BY <2>1, <2>2
<1>11. Growing'
  BY <1>3, <1>8, <1>9, <1>10 DEF Growing
<1> QED
  BY <1>11 DEF LoopShape

-----------------------------------------------------------------------------
(* What the loop leaves.                                                    *)

\* Cutting a chain all the way is what the closed form does when it shrinks.
LEMMA TruncatedAll ==
    ASSUME NEW t \in Table, NEW p \in Seq(Clusters), IsInjective(p),
           NEW n \in Nat, n < Len(p),
           \A i \in 1 .. Len(p) - 1 : t[p[i]] = p[i + 1]
    PROVE  LET u     == Truncated(t, p, n, Len(p))
               kept  == SubSeq(p, 1, n + 1)
               freed == ToSet(p) \ ToSet(kept)
           IN  /\ u \in Table
               /\ u = Linked([x \in Clusters |-> IF x \in freed THEN Free ELSE t[x]], kept)
               /\ kept \in Seq(Clusters) /\ Len(kept) = n + 1 /\ IsInjective(kept)
               /\ \A i \in 1 .. n + 1 : kept[i] = p[i]
               /\ ToSet(kept) \subseteq ToSet(p)
               /\ \A c \in freed : u[c] = Free
               /\ \A c \in Clusters : c \notin ToSet(p) => u[c] = t[c]
<1> DEFINE u     == Truncated(t, p, n, Len(p))
           kept  == SubSeq(p, 1, n + 1)
           freed == ToSet(p) \ ToSet(kept)
           v     == [x \in Clusters |-> IF x \in freed THEN Free ELSE t[x]]
           w     == Linked(v, kept)
<1>1. /\ Len(p) \in Nat /\ DOMAIN p = 1 .. Len(p)
      /\ \A i \in 1 .. Len(p) : p[i] \in Clusters
      /\ \A i, j \in 1 .. Len(p) : p[i] = p[j] => i = j
  BY DEF IsInjective
<1>2. /\ kept \in Seq(Clusters) /\ Len(kept) = n + 1
      /\ \A i \in 1 .. n + 1 : kept[i] = p[i] /\ i \in 1 .. Len(p)
      /\ DOMAIN kept = 1 .. n + 1
  BY <1>1
<1> HIDE DEF kept
<1>3. IsInjective(kept)
  BY <1>1, <1>2 DEF IsInjective
<1>4. /\ ToSet(kept) = {p[i] : i \in 1 .. n + 1}
      /\ ToSet(p) = {p[i] : i \in 1 .. Len(p)}
  BY <1>1, <1>2 DEF ToSet
<1>5. ToSet(kept) \subseteq ToSet(p)
  BY <1>2, <1>4
<1>6. freed = {p[i] : i \in n + 2 .. Len(p)}
  <2>1. \A i \in 1 .. Len(p) : i \in 1 .. n + 1 \/ i \in n + 2 .. Len(p)
    BY <1>1
  <2>2. \A i \in n + 2 .. Len(p) : i \in 1 .. Len(p) /\ i \notin 1 .. n + 1
    BY <1>1
  <2>3. \A i \in n + 2 .. Len(p) : p[i] \in ToSet(p) /\ p[i] \notin ToSet(kept)
    BY <2>2, <1>1, <1>2, <1>4
  <2>4. freed \subseteq {p[i] : i \in n + 2 .. Len(p)}
    BY <2>1, <1>4
  <2> QED BY <2>3, <2>4
<1> HIDE DEF freed
<1>7. /\ \A c \in Clusters : u[c] = IF c \in freed THEN Free
                                    ELSE IF c = p[n + 1] THEN Eof ELSE t[c]
      /\ u = [c \in Clusters |-> u[c]]
  BY <1>6 DEF Truncated
<1> HIDE DEF u
<1>8. v \in Table
  BY Marks DEF Table, Free, RootCluster
<1>9. \A c \in Clusters : v[c] = IF c \in freed THEN Free ELSE t[c]
  OBVIOUS
<1> HIDE DEF v
<1>10. /\ w \in Table
       /\ \A c \in Clusters : c \notin ToSet(kept) => w[c] = v[c]
       /\ \A i \in 1 .. n + 1 : w[kept[i]] = IF i = n + 1 THEN Eof ELSE kept[i + 1]
  <2>1. /\ w \in Table
        /\ \A c \in Clusters : c \notin ToSet(kept) => w[c] = v[c]
        /\ \A i \in 1 .. Len(kept) : w[kept[i]] = IF i = Len(kept) THEN Eof ELSE kept[i + 1]
    BY <1>2, <1>3, <1>8, LinkedFacts
  <2> HIDE DEF w
  <2> QED BY <2>1, <1>2
<1> HIDE DEF w
<1>11. \A c \in Clusters : u[c] = w[c]
  <2> TAKE c \in Clusters
  <2>1. CASE c \in freed
    <3>1. c \notin ToSet(kept)
      BY <2>1 DEF freed
    <3> QED BY <2>1, <3>1, <1>7, <1>9, <1>10
  <2>2. CASE c \in ToSet(kept)
    <3>1. PICK i \in 1 .. n + 1 : p[i] = c
      BY <2>2, <1>4
    <3>2. c \notin freed /\ kept[i] = c
      BY <2>2, <3>1, <1>2 DEF freed
    <3>3. CASE i = n + 1
      BY <3>1, <3>2, <3>3, <1>7, <1>10
    <3>4. CASE i # n + 1
      <4>1. i + 1 \in 1 .. n + 1 /\ i \in 1 .. Len(p) - 1 /\ i \in 1 .. Len(p) /\ n + 1 \in 1 .. Len(p)
        BY <3>4, <1>1
      <4>2. c # p[n + 1] /\ t[c] = p[i + 1] /\ kept[i + 1] = p[i + 1]
        BY <3>1, <3>4, <4>1, <1>1, <1>2
      <4> QED BY <3>2, <3>4, <4>2, <1>7, <1>10
    <3> QED BY <3>3, <3>4
  <2>3. CASE c \notin freed /\ c \notin ToSet(kept)
    <3>1. c # p[n + 1]
      <4>1. n + 1 \in 1 .. n + 1
        OBVIOUS
      <4> QED BY <2>3, <4>1, <1>4
    <3> QED BY <2>3, <3>1, <1>7, <1>9, <1>10
  <2> QED BY <2>1, <2>2, <2>3
<1>12. u = w
  BY <1>7, <1>10, <1>11 DEF Table
<1>13. \A c \in freed : u[c] = Free
  BY <1>1, <1>4, <1>7 DEF freed
<1>14. \A c \in Clusters : c \notin ToSet(p) => u[c] = t[c]
  <2>1. p[n + 1] \in ToSet(p)
    BY <1>4, <1>5, <1>1
  <2> QED BY <2>1, <1>7 DEF freed
<1> QED
  BY <1>2, <1>3, <1>5, <1>10, <1>12, <1>13, <1>14 DEF u, w, v, freed, kept

(* At its end the loop has cut the old chain or grown it by the lowest free clusters. *)
LEMMA LoopEnd ==
    ASSUME LInv, Running, ~MoreToDo
    PROVE  \/ /\ call.n < Len(Old)
              /\ fat = Truncated(disk, Old, call.n, Len(Old))
              /\ start = Old[1]
           \/ /\ call.n - Len(Old) \in Nat
              /\ call.n - Len(Old) <= Cardinality(FreeClusters(disk))
              /\ fat = Linked(disk, Grown(disk, Old, call.n - Len(Old)))
              /\ start = Grown(disk, Old, call.n - Len(Old))[1]
<1>1. cluster = Eof /\ remaining < 0 /\ IInv /\ LoopShape
  BY OldFacts DEF MoreToDo, LInv
<1>2. /\ call.n \in Nat /\ Done \in Int /\ remaining = call.n - Done
      /\ Len(Old) \in Nat
      /\ \A i \in 1 .. Len(Old) : Old[i] \in Clusters
  BY <1>1, OldFacts
<1>3. CASE Cutting
  <2>1. ~(Done < Len(Old))
    <3> SUFFICES ASSUME Done < Len(Old) PROVE FALSE
      OBVIOUS
    <3>1. Done + 1 \in 1 .. Len(Old) /\ cluster = Old[Done + 1]
      BY <1>2, <1>3 DEF Cutting
    <3> QED BY <3>1, <1>1, <1>2, Marks
  <2> QED BY <2>1, <1>2, <1>3 DEF Cutting
<1>4. CASE Complete
  BY <1>2, <1>4, FreeFinite DEF Complete
<1> QED
  BY <1>1, <1>2, <1>3, <1>4 DEF LoopShape, Following, Growing

\* What the call has made of the file's chain: what a closed form says of it,
\* a chain as long as asked or one cluster longer, made of the clusters of the
\* old chain in their order and of clusters that were free.
LEMMA LoopResult ==
    ASSUME LInv, Running, ~MoreToDo
    PROVE  /\ fat = Reallocate(disk, first[call.file], call.n)
           /\ start = ReallocateStart(disk, first[call.file], call.n)
           /\ \E q \in Seq(Clusters) :
                 /\ IsInjective(q)
                 /\ Len(q) = IF call.n < Len(Old) THEN call.n + 1 ELSE call.n
                 /\ q # <<>>
                 /\ start = q[1]
                 /\ Chain(fat, start) = q
                 /\ \A i \in 1 .. Len(q) : i <= Len(Old) => q[i] = Old[i]
                 /\ \A c \in ToSet(q) : c \in ToSet(Old) \/ disk[c] = Free
                 /\ \A c \in Clusters : c \notin ToSet(q) =>
                       fat[c] = IF c \in ToSet(Old) THEN Free ELSE disk[c]
<1> DEFINE p == Old
           n == call.n
           m == Len(p)
           h == first[call.file]
<1>1. /\ disk \in Table /\ p \in Seq(Clusters) /\ IsInjective(p)
      /\ m \in Nat /\ n \in Nat
      /\ DOMAIN p = 1 .. m
      /\ \A i \in 1 .. m : p[i] \in Clusters /\ disk[p[i]] # Free
      /\ h = Eof <=> m = 0
      /\ h # Eof => IsChain(disk, h, p) /\ p[1] = h
      /\ n = 0 => m >= 1
      /\ Linked(disk, p) = disk
      /\ Grown(disk, p, 0) = p
  BY OldFacts DEF LInv
<1>2. /\ p = Chain(disk, h)
      /\ h # RootCluster
  BY OldFacts, Marks DEF Old, LInv, IInv, TypeOK, Free, RootCluster
<1>3. \/ /\ n < m
         /\ fat = Truncated(disk, p, n, m)
         /\ start = p[1]
      \/ /\ n - m \in Nat
         /\ n - m <= Cardinality(FreeClusters(disk))
         /\ fat = Linked(disk, Grown(disk, p, n - m))
         /\ start = Grown(disk, p, n - m)[1]
  BY LoopEnd
<1> HIDE DEF p, n, m, h
<1>4. CASE n < m
  <2> DEFINE kept  == SubSeq(p, 1, n + 1)
             freed == ToSet(p) \ ToSet(kept)
  <2>1. fat = Truncated(disk, p, n, m) /\ start = p[1] /\ m >= 1 /\ h # Eof
    BY <1>1, <1>3, <1>4
  <2>2. \A i \in 1 .. m - 1 : disk[p[i]] = p[i + 1]
    BY <1>1, <2>1 DEF IsChain, m
  <2>3. /\ fat \in Table
        /\ fat = Linked([x \in Clusters |-> IF x \in freed THEN Free ELSE disk[x]], kept)
        /\ kept \in Seq(Clusters) /\ Len(kept) = n + 1 /\ IsInjective(kept)
        /\ \A i \in 1 .. n + 1 : kept[i] = p[i]
        /\ ToSet(kept) \subseteq ToSet(p)
        /\ \A c \in freed : fat[c] = Free
        /\ \A c \in Clusters : c \notin ToSet(p) => fat[c] = disk[c]
    <3>1. /\ n < Len(p) /\ fat = Truncated(disk, p, n, Len(p))
          /\ \A i \in 1 .. Len(p) - 1 : disk[p[i]] = p[i + 1]
      BY <1>4, <2>1, <2>2 DEF m
    <3>2. disk \in Table /\ p \in Seq(Clusters) /\ IsInjective(p) /\ n \in Nat
      BY <1>1
    <3> HIDE DEF kept, freed
    <3> DEFINE u == Truncated(disk, p, n, Len(p))
    <3>3. /\ u \in Table
          /\ u = Linked([x \in Clusters |-> IF x \in freed THEN Free ELSE disk[x]], kept)
          /\ kept \in Seq(Clusters) /\ Len(kept) = n + 1 /\ IsInjective(kept)
          /\ \A i \in 1 .. n + 1 : kept[i] = p[i]
          /\ ToSet(kept) \subseteq ToSet(p)
          /\ \A c \in freed : u[c] = Free
          /\ \A c \in Clusters : c \notin ToSet(p) => u[c] = disk[c]
      BY <3>1, <3>2, TruncatedAll, Zenon DEF kept, freed
    <3> HIDE DEF u
    <3> QED BY <3>1, <3>3 DEF u
  <2>4. fat = Reallocate(disk, h, n)
    BY <1>2, <1>4, <2>3 DEF Reallocate, m
  <2>5. start = ReallocateStart(disk, h, n)
    BY <1>1, <2>1 DEF ReallocateStart
  <2> HIDE DEF kept
  <2>6. kept # <<>> /\ kept[1] = start /\ 1 \in 1 .. n + 1
    BY <1>1, <2>1, <2>3
  <2>7. Chain(fat, start) = kept
    <3> DEFINE v == [x \in Clusters |-> IF x \in freed THEN Free ELSE disk[x]]
    <3>1. v \in Table
      BY <1>1, Marks DEF Table, Free, RootCluster
    <3> HIDE DEF v
    <3>2. Chain(Linked(v, kept), kept[1]) = kept
      BY <3>1, <2>3, <2>6, LinkedChain
    <3> QED BY <3>2, <2>3, <2>6 DEF v
  <2>8. \A i \in 1 .. Len(kept) : i <= m => kept[i] = p[i]
    BY <2>3
  <2>9. \A c \in Clusters : c \notin ToSet(kept) =>
            fat[c] = IF c \in ToSet(p) THEN Free ELSE disk[c]
    BY <2>3
  <2> QED BY <1>4, <2>3, <2>4, <2>5, <2>6, <2>7, <2>8, <2>9 DEF p, n, m, h
<1>5. CASE ~(n < m)
  <2> DEFINE j == n - m
             q == Grown(disk, p, j)
  <2>1. /\ j \in Nat /\ j <= Cardinality(FreeClusters(disk))
        /\ fat = Linked(disk, q) /\ start = q[1] /\ n = m + j
    BY <1>1, <1>3, <1>5
  <2> HIDE DEF j
  <2>2. /\ q \in Seq(Clusters) /\ Len(q) = m + j
        /\ \A i \in 1 .. m : q[i] = p[i]
        /\ \A i \in 1 .. j : q[m + i] = LowestFree(disk, j)[i]
        /\ ToSet(q) = ToSet(p) \cup ToSet(LowestFree(disk, j))
        /\ IsInjective(q)
    BY <1>1, <2>1, GrownFacts DEF m
  <2>3. q # <<>> /\ Len(q) = n /\ n >= 1
    BY <1>1, <2>1, <2>2
  <2>4. fat = Reallocate(disk, h, n)
    <3>1. Missing(disk, h, n) = j
      <4>1. Len(Chain(disk, h)) = m
        BY <1>2 DEF m
      <4>2. Missing(disk, h, n) = IF n > m THEN n - m ELSE 0
        BY <1>2, <4>1 DEF Missing
      <4> QED BY <4>2, <1>1, <1>5, <2>1
    <3> QED BY <3>1, <1>2, <1>5, <2>1 DEF Reallocate, m, Grown
  <2>5. start = ReallocateStart(disk, h, n)
    <3>1. CASE h # Eof
      <4>1. start = p[1] /\ p[1] = h
        BY <3>1, <1>1, <2>1, <2>2
      <4> QED BY <4>1, <3>1 DEF ReallocateStart
    <3>2. CASE h = Eof
      <4>1. m = 0 /\ j = n /\ n >= 1
        BY <3>2, <1>1, <2>1, <2>3
      <4>2. start = LowestFree(disk, n)[1]
        BY <4>1, <2>1, <2>2
      <4>3. LowestFree(disk, 1)[1] = LowestFree(disk, n)[1]
        <5>1. 1 \in 0 .. n /\ 1 \in 1 .. 1 /\ n <= Cardinality(FreeClusters(disk)) /\ n \in Nat
          BY <4>1, <2>1
        <5> QED BY <5>1, LowestFreePrefix
      <4> QED BY <3>2, <4>1, <4>2, <4>3 DEF ReallocateStart
    <3> QED BY <3>1, <3>2
  <2>6. Chain(fat, start) = q
    BY <1>1, <2>1, <2>2, <2>3, LinkedChain
  <2>7. \A c \in ToSet(q) : c \in ToSet(p) \/ disk[c] = Free
    <3>1. \A c \in ToSet(LowestFree(disk, j)) : disk[c] = Free
      <4>1. DOMAIN LowestFree(disk, j) = 1 .. j
            /\ \A i \in 1 .. j : LowestFree(disk, j)[i] \in FreeClusters(disk)
        BY <2>1, LowestFreeFacts
      <4> QED BY <4>1 DEF ToSet, FreeClusters
    <3> QED BY <3>1, <2>2
  <2>8. \A c \in Clusters : c \notin ToSet(q) =>
            fat[c] = IF c \in ToSet(p) THEN Free ELSE disk[c]
    BY <1>1, <2>1, <2>2, LinkedFacts
  <2>9. \A i \in 1 .. Len(q) : i <= m => q[i] = p[i]
    BY <1>1, <2>2
  <2> HIDE DEF q
  <2> QED BY <1>5, <2>1, <2>2, <2>3, <2>4, <2>5, <2>6, <2>7, <2>8, <2>9 DEF p, n, m, h
<1> QED
  BY <1>4, <1>5

-----------------------------------------------------------------------------
(* The other files.                                                         *)

\* The loop changes entries of the file's own chain and of free clusters only.
LEMMA LoopTouches ==
    ASSUME LInv, Running
    PROVE  \A c \in Clusters : c \notin ToSet(Old) /\ disk[c] # Free => fat[c] = disk[c]
<1>1. /\ disk \in Table /\ Old \in Seq(Clusters) /\ IsInjective(Old)
      /\ DOMAIN Old = 1 .. Len(Old)
      /\ Len(Old) \in Nat /\ call.n \in Nat
      /\ \A i \in 1 .. Len(Old) : disk[Old[i]] # Free
      /\ IInv /\ LoopShape
  BY OldFacts DEF LInv
<1>2. \A j \in Nat : j <= Cardinality(FreeClusters(disk)) =>
          \A c \in Clusters : c \notin ToSet(Old) /\ disk[c] # Free =>
              Linked(disk, Grown(disk, Old, j))[c] = disk[c]
  <2> SUFFICES ASSUME NEW j \in Nat, j <= Cardinality(FreeClusters(disk)),
                      NEW c \in Clusters, c \notin ToSet(Old), disk[c] # Free
               PROVE  Linked(disk, Grown(disk, Old, j))[c] = disk[c]
    OBVIOUS
  <2>1. /\ Grown(disk, Old, j) \in Seq(Clusters) /\ IsInjective(Grown(disk, Old, j))
        /\ ToSet(Grown(disk, Old, j)) = ToSet(Old) \cup ToSet(LowestFree(disk, j))
    BY <1>1, GrownFacts
  <2>2. c \notin ToSet(LowestFree(disk, j))
    <3>1. DOMAIN LowestFree(disk, j) = 1 .. j
          /\ \A i \in 1 .. j : LowestFree(disk, j)[i] \in FreeClusters(disk)
      BY LowestFreeFacts
    <3> QED BY <3>1 DEF ToSet, FreeClusters
  <2> QED BY <1>1, <2>1, <2>2, LinkedFacts
<1>3. CASE Following
  BY <1>3 DEF Following
<1>4. CASE Growing
  <2>1. Done - Len(Old) \in Nat /\ Done - Len(Old) <= Cardinality(FreeClusters(disk))
        /\ fat = Linked(disk, Grown(disk, Old, Done - Len(Old)))
    BY <1>4, FreeFinite DEF Growing
  <2> QED BY <2>1, <1>2
<1>5. CASE Cutting
  <2>1. /\ fat = Truncated(disk, Old, call.n, Done)
        /\ Done \in Nat /\ Done <= Len(Old) /\ call.n + 1 <= Done
    BY <1>1, <1>5, OldFacts DEF Cutting
  <2>2. /\ call.n + 1 \in 1 .. Len(Old)
        /\ \A i \in call.n + 2 .. Done : i \in 1 .. Len(Old)
    BY <1>1, <2>1
  <2>3. \A i \in 1 .. Len(Old) : Old[i] \in ToSet(Old)
    BY <1>1 DEF ToSet
  <2> QED BY <2>1, <2>2, <2>3 DEF Truncated
<1>6. CASE Complete
  <2>1. call.n - Len(Old) \in Nat /\ call.n - Len(Old) <= Cardinality(FreeClusters(disk))
        /\ fat = Linked(disk, Grown(disk, Old, call.n - Len(Old)))
    BY <1>6, FreeFinite DEF Complete
  <2> QED BY <2>1, <1>2
<1> QED
  BY <1>1, <1>3, <1>4, <1>5, <1>6 DEF LoopShape

\* The chains of two files have no cluster in common.
LEMMA FilesApart ==
    ASSUME IInv, NEW f \in Files, NEW g \in Files, f # g
    PROVE  ChainSet(disk, first[f]) \cap ChainSet(disk, first[g]) = {}
<1>1. /\ disk \in Table /\ Heads \in SUBSET Clusters /\ Sound(disk, Heads)
      /\ first[f] # Eof => first[f] \in Heads
      /\ first[g] # Eof => first[g] \in Heads
      /\ first[f] = first[g] => first[f] = Eof
  BY HeadsAreClusters DEF IInv, TypeOK, CallSound, VolumeSound, Heads, DistinctHeads
<1>2. CASE first[f] = Eof \/ first[g] = Eof
  <2>1. Chain(disk, Eof) = <<>>
    BY <1>1, ChainFacts, Marks
  <2>2. ChainSet(disk, Eof) = {}
    BY <2>1 DEF ChainSet, ToSet
  <2> QED BY <1>2, <2>2
<1>3. CASE first[f] # Eof /\ first[g] # Eof
  BY <1>1, <1>3, HeadsApart
<1> QED
  BY <1>2, <1>3

\* A table that agrees on the clusters in use outside the file's own chain has
\* the same chains for the other files.
LEMMA OthersKept ==
    ASSUME IInv, Running, NEW t \in Table,
           \A c \in Clusters : c \notin ToSet(Old) /\ disk[c] # Free => t[c] = disk[c],
           NEW f \in Files, f # call.file
    PROVE  Chain(t, first[f]) = Chain(disk, first[f])
<1> DEFINE s == Chain(disk, first[f])
<1>1. /\ disk \in Table /\ first[f] \in Link
      /\ first[f] # Eof => IsChain(disk, first[f], s)
      /\ DOMAIN s = 1 .. Len(s)
      /\ \A i \in 1 .. Len(s) : s[i] \in Clusters /\ disk[s[i]] # Free
      /\ first[f] = Eof => s = <<>>
  BY FileChain
<1>2. ToSet(s) \cap ToSet(Old) = {}
  BY FilesApart, OldFacts DEF ChainSet, Old
<1> HIDE DEF s
<1>3. CASE first[f] = Eof
  <2>1. Chain(t, Eof) = <<>>
    BY ChainFacts, Marks
  <2> QED BY <1>1, <1>3, <2>1 DEF s
<1>4. CASE first[f] # Eof
  <2>1. \A d \in ToSet(s) : d \in Clusters /\ disk[d] # Free /\ d \notin ToSet(Old)
    BY <1>1, <1>2 DEF ToSet
  <2>2. \A d \in ToSet(s) : t[d] = disk[d]
    BY <2>1
  <2>3. Chain(t, first[f]) = s
    BY <1>1, <1>4, <2>2, ChainKept
  <2> QED BY <2>3 DEF s
<1> QED
  BY <1>3, <1>4

(* No turn of the loop touches a cluster of another file. *)
LEMMA LoopKeepsOthers ==
    ASSUME LInv, Running, NEW f \in Files, f # call.file
    PROVE  Chain(fat, first[f]) = Chain(disk, first[f])
<1>1. fat \in Table /\ IInv
  BY DEF LInv, IInv, TypeOK
<1> QED
  BY <1>1, LoopTouches, OthersKept

-----------------------------------------------------------------------------
(* The return of a call.                                                    *)

\* The extent of the file after the call, q, is one the call was asked for, and
\* the other files keep theirs.
LEMMA ReturnEffect ==
    ASSUME LInv, Return
    PROVE  /\ call.file \in Files /\ call.n \in 0 .. MaxClusters
           /\ disk' \in Table
           /\ needed' = [needed EXCEPT ![call.file] = call.n]
           /\ \E head \in Clusters \cup {Eof}, q \in Seq(Clusters) :
                 /\ first' = [first EXCEPT ![call.file] = head]
                 /\ Chain(disk', head) = q
                 /\ IsInjective(q)
                 /\ head = Eof => call.n = 0 /\ q = <<>>
                 /\ head # Eof => /\ call.n # 0 /\ q # <<>>
                                  /\ Len(q) = IF call.n < Len(Old) THEN call.n + 1 ELSE call.n
                                  /\ \A i \in 1 .. Len(q) : i <= Len(Old) => q[i] = Old[i]
                 /\ \A c \in ToSet(q) : c \in ToSet(Old) \/ disk[c] = Free
                 /\ \A c \in Clusters : c \notin ToSet(q) =>
                       disk'[c] = IF c \in ToSet(Old) THEN Free ELSE disk[c]
<1>1. Running /\ ~MoreToDo /\ IInv
  BY DEF Return, ReturnChain, ReturnRemoved, LInv
<1>2. /\ call.file \in Files /\ call.n \in 0 .. MaxClusters /\ call.n \in Nat
      /\ Len(Old) \in Nat /\ (call.n = 0 => Len(Old) >= 1)
      /\ DOMAIN Old = 1 .. Len(Old)
      /\ fat \in Table /\ start \in Clusters
      /\ call.op = "remove" <=> call.n = 0
      /\ call.n = 0 => fat[start] = Eof
  BY <1>1, OldFacts, LoopOver DEF IInv, TypeOK
<1>3. PICK q \in Seq(Clusters) :
        /\ IsInjective(q)
        /\ Len(q) = IF call.n < Len(Old) THEN call.n + 1 ELSE call.n
        /\ q # <<>>
        /\ start = q[1]
        /\ Chain(fat, start) = q
        /\ \A i \in 1 .. Len(q) : i <= Len(Old) => q[i] = Old[i]
        /\ \A c \in ToSet(q) : c \in ToSet(Old) \/ disk[c] = Free
        /\ \A c \in Clusters : c \notin ToSet(q) =>
              fat[c] = IF c \in ToSet(Old) THEN Free ELSE disk[c]
  BY <1>1, LoopResult
<1>4. CASE ReturnChain
  <2>1. /\ disk' = fat /\ first' = [first EXCEPT ![call.file] = start]
        /\ needed' = [needed EXCEPT ![call.file] = call.n]
        /\ call.n # 0
    BY <1>2, <1>4 DEF ReturnChain, Finish
  <2>2. start # Eof
    BY <1>2, Marks
  <2> QED BY <1>2, <1>3, <2>1, <2>2
<1>5. CASE ReturnRemoved
  <2>1. /\ disk' = [fat EXCEPT ![start] = Free]
        /\ first' = [first EXCEPT ![call.file] = Eof]
        /\ needed' = [needed EXCEPT ![call.file] = call.n]
        /\ call.n = 0
    BY <1>2, <1>5 DEF ReturnRemoved, Finish, SetEntry
  <2>2. disk' \in Table
    BY <1>2, <2>1, Marks DEF Table, Free, RootCluster
  <2>3. Chain(disk', Eof) = <<>>
    BY <2>2, ChainFacts, Marks
  <2>4. Len(q) = 1 /\ ToSet(q) = {start} /\ start \in ToSet(Old)
    <3>1. Len(q) = 1 /\ DOMAIN q = 1 .. 1 /\ q[1] = Old[1] /\ 1 \in DOMAIN Old
      BY <1>2, <1>3, <2>1
    <3> QED BY <3>1, <1>3 DEF ToSet
  <2>5. \A c \in Clusters : disk'[c] = IF c \in ToSet(Old) THEN Free ELSE disk[c]
    BY <1>2, <1>3, <2>1, <2>4 DEF Table
  <2>6. <<>> \in Seq(Clusters) /\ IsInjective(<<>>) /\ ToSet(<<>>) = {}
    BY DEF IsInjective, ToSet
  <2> QED BY <1>2, <2>1, <2>2, <2>3, <2>5, <2>6
<1> QED
  BY <1>4, <1>5 DEF Return

(* Nor does a return. *)
LEMMA ReturnKeepsOthers ==
    ASSUME LInv, Return, NEW f \in Files, f # call.file
    PROVE  first'[f] = first[f] /\ Chain(disk', first'[f]) = Chain(disk, first[f])
<1>1. Running /\ IInv
  BY DEF Return, ReturnChain, ReturnRemoved, LInv
<1>2. PICK head \in Clusters \cup {Eof}, q \in Seq(Clusters) :
        /\ first' = [first EXCEPT ![call.file] = head]
        /\ \A c \in ToSet(q) : c \in ToSet(Old) \/ disk[c] = Free
        /\ \A c \in Clusters : c \notin ToSet(q) =>
              disk'[c] = IF c \in ToSet(Old) THEN Free ELSE disk[c]
  BY ReturnEffect
<1>3. first'[f] = first[f] /\ disk' \in Table
  BY <1>2, ReturnEffect DEF LInv, IInv, TypeOK
<1>4. \A c \in Clusters : c \notin ToSet(Old) /\ disk[c] # Free => disk'[c] = disk[c]
  BY <1>2
<1> QED
  BY <1>1, <1>3, <1>4, OthersKept

(* After a return every cluster in use belongs to a file. *)
LEMMA ReturnCovered ==
    ASSUME LInv, Return
    PROVE  VolumeCovered'
<1>1. /\ IInv /\ VolumeCovered /\ Running
      /\ call.file \in Files /\ call.n \in 0 .. MaxClusters /\ MaxClusters \in Nat
      /\ first \in [Files -> Clusters \cup {Eof}] /\ needed \in [Files -> 0 .. MaxClusters]
      /\ Len(Old) \in Nat
      /\ first[call.file] = Eof <=> Len(Old) = 0
  BY ReturnEffect, OldFacts, MaxClustersAssumption
     DEF Return, ReturnChain, ReturnRemoved, LInv, IInv, TypeOK
<1>2. needed' = [needed EXCEPT ![call.file] = call.n]
  BY ReturnEffect
<1>3. PICK head \in Clusters \cup {Eof}, q \in Seq(Clusters) :
        /\ first' = [first EXCEPT ![call.file] = head]
        /\ Chain(disk', head) = q
        /\ head # Eof => /\ call.n # 0 /\ q # <<>>
                         /\ Len(q) = IF call.n < Len(Old) THEN call.n + 1 ELSE call.n
        /\ \A c \in ToSet(q) : c \in ToSet(Old) \/ disk[c] = Free
        /\ \A c \in Clusters : c \notin ToSet(q) =>
              disk'[c] = IF c \in ToSet(Old) THEN Free ELSE disk[c]
  BY ReturnEffect
<1>4. first'[call.file] = head /\ needed'[call.file] = call.n
  BY <1>1, <1>2, <1>3
<1>5. \A f \in Files : f # call.file =>
         /\ first'[f] = first[f] /\ needed'[f] = needed[f]
         /\ Chain(disk', first'[f]) = Chain(disk, first[f])
  BY <1>1, <1>2, ReturnKeepsOthers
<1>6. ASSUME NEW c \in Clusters, disk'[c] # Free
      PROVE  \E f \in Files : c \in ChainSet(disk', first'[f])
  <2>1. CASE c \in ToSet(q)
    BY <2>1, <1>1, <1>3, <1>4 DEF ChainSet
  <2>2. CASE c \notin ToSet(q)
    <3>1. c \notin ToSet(Old) /\ disk[c] # Free
      BY <2>2, <1>3, <1>6
    <3>2. PICK f \in Files : c \in ChainSet(disk, first[f])
      BY <3>1, <1>1 DEF VolumeCovered
    <3>3. f # call.file
      BY <3>1, <3>2 DEF ChainSet, Old
    <3> QED BY <3>2, <3>3, <1>5 DEF ChainSet
  <2> QED BY <2>1, <2>2
<1>7. ASSUME NEW f \in Files, first'[f] # Eof
      PROVE  /\ Len(Chain(disk', first'[f])) - needed'[f] \in {0, 1}
             /\ Len(Chain(disk', first'[f])) <= MaxClusters
  <2>1. CASE f = call.file
    <3>1. /\ Chain(disk', first'[f]) = q /\ needed'[f] = call.n
          /\ Len(q) = IF call.n < Len(Old) THEN call.n + 1 ELSE call.n
      BY <2>1, <1>3, <1>4, <1>7
    <3>2. call.n < Len(Old) => Len(Old) <= MaxClusters
      BY <1>1 DEF VolumeCovered, Old
    <3> QED BY <3>1, <3>2, <1>1
  <2>2. CASE f # call.file
    BY <2>2, <1>1, <1>5, <1>7 DEF VolumeCovered
  <2> QED BY <2>1, <2>2
<1> QED
  BY <1>6, <1>7 DEF VolumeCovered

-----------------------------------------------------------------------------
(* The invariant.                                                           *)

(* The invariant of positions holds of the formatted volume. *)
LEMMA InitLInv == Init => LInv
<1> SUFFICES ASSUME Init PROVE LInv
  OBVIOUS
<1>1. IInv /\ ~Running
  BY InitIInv, CallKinds DEF Init, Running
<1>2. VolumeCovered
  BY DEF Init, EmptyTable, VolumeCovered
<1> QED
  BY <1>1, <1>2 DEF LInv

\* Steps that leave the volume and its entries alone.
LEMMA CoveredUnchanged ==
    ASSUME VolumeCovered, UNCHANGED <<disk, first, needed>>
    PROVE  VolumeCovered'
BY DEF VolumeCovered

(* Every step keeps the invariant of positions. *)
LEMMA NextLInv == LInv /\ [Next]_vars => LInv'
<1> SUFFICES ASSUME LInv, [Next]_vars PROVE LInv'
  OBVIOUS
<1>1. IInv' /\ VolumeCovered
  BY NextIInv DEF LInv
<1>2. ASSUME NEW f \in Files, NEW n \in 1 .. MaxClusters, CreateFile(f, n) \/ WriteFile(f, n)
      PROVE  LInv'
  <2>1. n \in 0 .. MaxClusters
    BY MaxClustersAssumption
  <2>2. \E op \in {"create", "write"} : Begin(op, f, n)
    BY <1>2 DEF CreateFile, WriteFile
  <2>3. LoopShape'
    BY <2>1, <2>2, BeginShape
  <2>4. VolumeCovered'
    BY <2>2, <1>1, CoveredUnchanged DEF Begin, tables
  <2> QED BY <1>1, <2>3, <2>4 DEF LInv
<1>3. ASSUME NEW f \in Files, RemoveFile(f) PROVE LInv'
  <2>1. 0 \in 0 .. MaxClusters /\ Begin("remove", f, 0)
    BY <1>3, MaxClustersAssumption DEF RemoveFile
  <2>2. LoopShape'
    BY <2>1, BeginShape
  <2>3. VolumeCovered'
    BY <2>1, <1>1, CoveredUnchanged DEF Begin, tables
  <2> QED BY <1>1, <2>2, <2>3 DEF LInv
<1>4. CASE AllocateNext \/ MarkEnd \/ FreeRest \/ Skip
  <2>1. LoopShape'
    BY <1>4, AllocateNextShape, MarkEndShape, FreeRestShape, SkipShape
  <2>2. VolumeCovered'
    BY <1>1, <1>4, CoveredUnchanged DEF AllocateNext, MarkEnd, FreeRest, Skip, Iterate
  <2> QED BY <1>1, <2>1, <2>2 DEF LInv
<1>5. CASE Exhausted \/ Remount
  <2>1. VolumeCovered'
    BY <1>1, <1>5, CoveredUnchanged DEF Exhausted, Remount, tables
  <2>2. ~Running'
    BY <1>5, CallKinds DEF Exhausted, Remount, Running
  <2> QED BY <1>1, <2>1, <2>2 DEF LInv
<1>6. CASE Return
  <2>1. VolumeCovered'
    BY <1>6, ReturnCovered
  <2>2. ~Running'
    BY <1>6, CallKinds DEF Return, ReturnChain, ReturnRemoved, Finish, Running
  <2> QED BY <1>1, <2>1, <2>2 DEF LInv
<1>7. CASE UNCHANGED vars
  <2>1. VolumeCovered'
    BY <1>1, <1>7, CoveredUnchanged DEF vars, tables
  <2>2. Running' => LoopShape'
    BY <1>7 DEF LInv, vars, tables, locals, Running, LoopShape, Following, Growing, Cutting,
                Complete, Old, Done
  <2> QED BY <1>1, <2>1, <2>2 DEF LInv
<1> QED
  BY <1>2, <1>3, <1>4, <1>5, <1>6, <1>7 DEF Next, Loop

(* The invariant of positions holds throughout. *)
LEMMA AlwaysLInv == Spec => []LInv
BY InitLInv, NextLInv, PTL DEF Spec

-----------------------------------------------------------------------------
(* What follows.                                                            *)

(* The invariant of positions says that chains partition the clusters in use. *)
LEMMA Partition == LInv => ChainsPartition
<1> SUFFICES ASSUME LInv PROVE ChainsPartition
  OBVIOUS
<1>1. IInv /\ VolumeCovered
  BY DEF LInv
<1>2. ASSUME NEW f \in Files, first[f] # Eof PROVE Terminated(disk, first[f])
  <2>1. IsChain(disk, first[f], Chain(disk, first[f])) /\ Len(Chain(disk, first[f])) >= 1
    BY <1>1, <1>2, FileChain
  <2> QED BY <2>1 DEF Terminated, IsChain, Last
<1>3. \A f, g \in Files : f # g => ChainSet(disk, first[f]) \cap ChainSet(disk, first[g]) = {}
  BY <1>1, FilesApart
<1>4. Clusters \ FreeClusters(disk) = UNION {ChainSet(disk, first[f]) : f \in Files}
  <2>1. ASSUME NEW f \in Files, NEW c \in ChainSet(disk, first[f])
        PROVE  c \in Clusters \ FreeClusters(disk)
    <3> DEFINE s == Chain(disk, first[f])
    <3>1. DOMAIN s = 1 .. Len(s) /\ \A i \in 1 .. Len(s) : s[i] \in Clusters /\ disk[s[i]] # Free
      BY <1>1, FileChain
    <3>2. c \in ToSet(s)
      BY DEF ChainSet
    <3> HIDE DEF s
    <3> QED BY <3>1, <3>2 DEF ToSet, FreeClusters
  <2>2. ASSUME NEW c \in Clusters \ FreeClusters(disk)
        PROVE  \E f \in Files : c \in ChainSet(disk, first[f])
    BY <1>1 DEF VolumeCovered, FreeClusters
  <2> QED BY <2>1, <2>2
<1> QED
  BY <1>2, <1>3, <1>4 DEF ChainsPartition

\* After any calls, interrupted by exits or not, the chains of the entries on
\* the volume end in end marks, share nothing, and are all that is in use:
\* fat12_reallocate_cluster_chain leaves no cycle, no cross link and no lost
\* cluster.
THEOREM ChainsAlwaysPartition == Spec => []ChainsPartition
BY AlwaysLInv, Partition, PTL

\* The loop of fat12_reallocate_cluster_chain computes its closed form: the
\* table it leaves and the cluster it returns are Reallocate and
\* ReallocateStart, the operators Fat12 uses in its place.
THEOREM LoopIsClosedForm == Spec => []LoopMatchesClosedForm
<1>1. LInv => LoopMatchesClosedForm
  BY LoopResult DEF LoopMatchesClosedForm
<1> QED
  BY AlwaysLInv, <1>1, PTL

\* On the volume a file has the clusters its contents need, or one more.
THEOREM ContentsAlwaysFit == Spec => []FitsContents
<1>1. LInv => FitsContents
  BY DEF LInv, VolumeCovered, FitsContents
<1> QED
  BY AlwaysLInv, <1>1, PTL

\* A process exits for want of clusters only where the call asks for more than
\* the volume has left.
THEOREM ExitsWhenFull == Spec => ExitsOnlyWhenFull
<1>1. ASSUME LInv, [Next]_vars
      PROVE  [call' = Exited /\ Running =>
                 ~CanReallocate(disk, first[call.file], call.n)]_vars
  <2> SUFFICES ASSUME Next, call' = Exited, Running
               PROVE  ~CanReallocate(disk, first[call.file], call.n)
    BY <1>1
  <2>1. Exhausted
    <3>1. ~Idle
      BY CallKinds DEF Idle, Running
    <3>2. call # Exited
      BY CallKinds DEF Running
    <3>3. NoCall # Exited
      BY CallKinds
    <3> QED
      BY <3>1, <3>2, <3>3 DEF Next, CreateFile, WriteFile, RemoveFile, Begin, Loop, AllocateNext,
           MarkEnd, FreeRest, Skip, Iterate, Return, ReturnChain, ReturnRemoved, Finish, Remount
  <2>2. Looping /\ remaining > 0 /\ cluster = Eof /\ FreeClusters(fat) = {} /\ IInv
    BY <1>1, <2>1 DEF Exhausted, LInv
  <2>3. PICK j \in Nat :
          /\ j <= Cardinality(FreeClusters(disk))
          /\ Done = Len(Old) + j /\ Done < call.n
          /\ fat = Linked(disk, Grown(disk, Old, j))
    BY <1>1, <2>2, AtEnd
  <2>4. /\ disk \in Table /\ Old \in Seq(Clusters) /\ IsInjective(Old)
        /\ \A i \in 1 .. Len(Old) : disk[Old[i]] # Free
        /\ Len(Old) \in Nat /\ call.n \in Nat
    BY <2>2, OldFacts DEF Looping
  <2>5. FreeClusters(disk) \ ToSet(LowestFree(disk, j)) = {}
    BY <2>2, <2>3, <2>4, GrownFacts
  <2>6. Cardinality(FreeClusters(disk)) = j
    BY <2>3, <2>5, NoneLeft
  <2>7. first[call.file] # RootCluster
    BY <2>2, OldFacts, Marks DEF Looping, IInv, TypeOK, Free, RootCluster
  <2>8. Missing(disk, first[call.file], call.n) = IF call.n > Len(Old) THEN call.n - Len(Old) ELSE 0
    BY <2>7 DEF Missing, Old
  <2>9. Missing(disk, first[call.file], call.n) > j
    BY <2>3, <2>4, <2>8
  <2> QED BY <2>6, <2>9, <2>4, <2>8 DEF CanReallocate
<1> QED
  BY AlwaysLInv, <1>1, PTL DEF Spec, ExitsOnlyWhenFull

\* Whatever a call does to its own chain, in the middle of the loop or after
\* it, the chains of the other files stay as they are.
THEOREM OthersNeverTouched == Spec => OthersUntouched
<1>1. ASSUME LInv, LInv', [Next]_vars
      PROVE  [\A f \in Files : Running /\ Running' /\ f # call.file =>
                 Chain(fat', first[f]) = Chain(fat, first[f])]_vars
  <2> SUFFICES ASSUME Next, Running, Running', NEW f \in Files, f # call.file
               PROVE  Chain(fat', first[f]) = Chain(fat, first[f])
    BY <1>1
  <2>1. ~Idle /\ ~Idle' /\ call # Exited /\ call' # Exited
    BY CallKinds DEF Idle, Running
  <2>2. UNCHANGED <<disk, first, call>>
    BY <2>1 DEF Next, CreateFile, WriteFile, RemoveFile, Begin, Loop, AllocateNext, Exhausted,
         MarkEnd, FreeRest, Skip, Iterate, Return, ReturnChain, ReturnRemoved, Finish, Remount,
         Idle, Running
  <2>3. Chain(fat, first[f]) = Chain(disk, first[f])
    BY <1>1, LoopKeepsOthers
  <2>4. fat' \in Table /\ IInv
    BY <1>1 DEF LInv, IInv, TypeOK
  <2>5. \A c \in Clusters : c \notin ToSet(Old) /\ disk[c] # Free => fat'[c] = disk[c]
    <3>1. (Running => \A c \in Clusters : c \notin ToSet(Old) /\ disk[c] # Free => fat[c] = disk[c])'
      BY <1>1, LoopTouches, PTL
    <3> QED BY <3>1, <2>2 DEF Old
  <2>6. Chain(fat', first[f]) = Chain(disk, first[f])
    BY <2>4, <2>5, OthersKept
  <2> QED BY <2>3, <2>6
<1> QED
  BY AlwaysLInv, <1>1, PTL DEF Spec, OthersUntouched

-----------------------------------------------------------------------------
(* The refinement of ExtentStore.                                           *)

(* A sequence that agrees with a longer one all along is a prefix of it. *)
LEMMA PrefixOf ==
    ASSUME NEW p \in Seq(Clusters), NEW q \in Seq(Clusters), Len(p) <= Len(q),
           \A i \in 1 .. Len(p) : p[i] = q[i]
    PROVE  IsPrefix(p, q)
<1>1. SubSeq(p, 1, Len(p)) \in Seq(Clusters) /\ Len(SubSeq(p, 1, Len(p))) = Len(p)
      /\ \A i \in 1 .. Len(p) : SubSeq(p, 1, Len(p))[i] = p[i]
  OBVIOUS
<1>2. SubSeq(q, 1, Len(p)) \in Seq(Clusters) /\ Len(SubSeq(q, 1, Len(p))) = Len(p)
      /\ \A i \in 1 .. Len(p) : SubSeq(q, 1, Len(p))[i] = q[i]
  OBVIOUS
<1>3. SubSeq(p, 1, Len(p)) = SubSeq(q, 1, Len(p))
  BY <1>1, <1>2, SeqEqual
<1> QED
  BY <1>3 DEF IsPrefix

\* The store speaks of sequences in the same words.
LEMMA StoreWords ==
    /\ \A s : Store!ToSet(s) = ToSet(s)
    /\ \A s : Store!IsInjective(s) <=> IsInjective(s)
    /\ \A s, u : Store!IsPrefix(s, u) <=> IsPrefix(s, u)
BY DEF Store!ToSet, ToSet, Store!IsInjective, IsInjective, Store!IsPrefix, IsPrefix

(* The formatted volume has no extents, as the abstract store begins. *)
LEMMA InitExtents == Init => Store!Init
<1> SUFFICES ASSUME Init PROVE Store!Init
  OBVIOUS
<1>1. disk \in Table /\ \A f \in Files : first[f] = Eof
  BY InitIInv DEF Init, IInv, TypeOK
<1>2. \A f \in Files : Chain(disk, first[f]) = <<>>
  BY <1>1, ChainFacts, Marks
<1> QED
  BY <1>2 DEF Store!Init

\* The return of a call is one operation of the store.
LEMMA ReturnExtents ==
    ASSUME LInv, Return
    PROVE  Store!Next
<1> DEFINE f == call.file
           n == call.n
           extent == [g \in Files |-> Chain(disk, first[g])]
<1>1. /\ Running /\ IInv /\ VolumeCovered
      /\ f \in Files /\ n \in Nat /\ n \in 0 .. MaxClusters /\ MaxClusters \in Nat
      /\ first \in [Files -> Clusters \cup {Eof}]
      /\ Old \in Seq(Clusters) /\ Len(Old) \in Nat
      /\ first[f] = Eof <=> Len(Old) = 0
      /\ n = 0 => Len(Old) >= 1
      /\ Len(Old) <= MaxClusters
  <2>1. Running /\ IInv /\ VolumeCovered /\ MaxClusters \in Nat
    BY MaxClustersAssumption DEF Return, ReturnChain, ReturnRemoved, LInv
  <2>2. first[f] # Eof => Len(Old) <= MaxClusters
    BY <2>1, OldFacts DEF VolumeCovered, Old
  <2> QED BY <2>1, <2>2, OldFacts DEF IInv, TypeOK
<1>2. PICK head \in Clusters \cup {Eof}, q \in Seq(Clusters) :
        /\ first' = [first EXCEPT ![call.file] = head]
        /\ Chain(disk', head) = q
        /\ IsInjective(q)
        /\ head = Eof => call.n = 0 /\ q = <<>>
        /\ head # Eof => /\ call.n # 0 /\ q # <<>>
                         /\ Len(q) = IF call.n < Len(Old) THEN call.n + 1 ELSE call.n
                         /\ \A i \in 1 .. Len(q) : i <= Len(Old) => q[i] = Old[i]
        /\ \A c \in ToSet(q) : c \in ToSet(Old) \/ disk[c] = Free
  BY ReturnEffect
<1>3. extent' = [extent EXCEPT ![f] = q]
  <2>1. first'[f] = head /\ \A g \in Files : g # f =>
            Chain(disk', first'[g]) = Chain(disk, first[g])
    BY <1>1, <1>2, ReturnKeepsOthers
  <2>2. \A g \in Files : Chain(disk', first'[g]) = IF g = f THEN q ELSE Chain(disk, first[g])
    BY <2>1, <1>2
  <2> QED BY <2>2
<1>4. extent[f] = Old /\ f \in DOMAIN extent
  BY <1>1 DEF Old
<1>5. Store!Unowned(f, q)
  <2> SUFFICES ASSUME NEW g \in Files \ {f} PROVE ToSet(q) \cap Store!Owned(g) = {}
    BY StoreWords DEF Store!Unowned
  <2> DEFINE s == Chain(disk, first[g])
  <2>1. ToSet(s) \cap ToSet(Old) = {}
    BY <1>1, FilesApart DEF ChainSet, Old
  <2>2. DOMAIN s = 1 .. Len(s) /\ \A i \in 1 .. Len(s) : disk[s[i]] # Free
    BY <1>1, FileChain
  <2>3. Store!Owned(g) = ToSet(s)
    BY StoreWords DEF Store!Owned
  <2> HIDE DEF s
  <2>4. \A c \in ToSet(s) : disk[c] # Free
    BY <2>2 DEF ToSet
  <2> QED BY <2>1, <2>3, <2>4, <1>2
<1> HIDE DEF f, n, extent
<1>6. CASE head = Eof
  <2>1. q = <<>> /\ Old # <<>>
    BY <1>1, <1>2, <1>6 DEF n
  <2>2. Store!RemoveFile(f)
    BY <2>1, <1>3, <1>4 DEF Store!RemoveFile, extent
  <2> QED BY <1>1, <2>2 DEF Store!Next
<1>7. CASE head # Eof
  <2>1. /\ n \in 1 .. MaxClusters
        /\ Len(q) = IF n < Len(Old) THEN n + 1 ELSE n
        /\ \A i \in 1 .. Len(q) : i <= Len(Old) => q[i] = Old[i]
    BY <1>1, <1>2, <1>7 DEF n
  <2>2. q \in Store!Extents(MaxClusters)
    <3>1. Len(q) \in 0 .. MaxClusters /\ q \in [1 .. Len(q) -> Clusters]
      BY <1>1, <2>1
    <3>2. q \in UNION {[1 .. k -> Clusters] : k \in 0 .. MaxClusters}
      BY <3>1
    <3>3. Store!IsInjective(q)
      BY <1>2, StoreWords
    <3> QED BY <3>2, <3>3 DEF Store!Extents
  <2>3. CASE Old = <<>>
    <3>1. Len(q) = n
      BY <2>1, <2>3, <1>1
    <3>2. Store!CreateFile(f, n)
      BY <2>2, <2>3, <3>1, <1>3, <1>4, <1>5 DEF Store!CreateFile, extent
    <3> QED BY <1>1, <2>1, <3>2 DEF Store!Next
  <2>4. CASE Old # <<>>
    <3>1. n <= Len(q) /\ ((Len(q) = n /\ IsPrefix(Old, q)) \/ IsPrefix(q, Old))
      <4>1. CASE n < Len(Old)
        <5>1. Len(q) <= Len(Old) /\ \A i \in 1 .. Len(q) : q[i] = Old[i]
          BY <4>1, <2>1, <1>1
        <5> QED BY <5>1, <4>1, <2>1, <1>1, PrefixOf
      <4>2. CASE ~(n < Len(Old))
        <5>1. Len(Old) <= Len(q) /\ \A i \in 1 .. Len(Old) : Old[i] = q[i]
          BY <4>2, <2>1, <1>1
        <5> QED BY <5>1, <4>2, <2>1, <1>1, PrefixOf
      <4> QED BY <4>1, <4>2
    <3>2. Store!WriteFile(f, n)
      BY <2>2, <2>4, <3>1, <1>3, <1>4, <1>5, StoreWords DEF Store!WriteFile, extent
    <3> QED BY <1>1, <2>1, <3>2 DEF Store!Next
  <2> QED BY <2>3, <2>4
<1> QED
  BY <1>6, <1>7

(* Every step is a step of the abstract store or changes no extent. *)
LEMMA NextExtents ==
    ASSUME LInv, [Next]_vars
    PROVE  [Store!Next]_[f \in Files |-> Chain(disk, first[f])]
<1>1. CASE Return
  BY <1>1, ReturnExtents
<1>2. CASE ~Return
  <2>1. UNCHANGED <<disk, first>>
    BY <1>2 DEF Next, CreateFile, WriteFile, RemoveFile, Begin, Loop, AllocateNext, Exhausted,
         MarkEnd, FreeRest, Skip, Iterate, Remount, vars, tables
  <2> QED BY <2>1
<1> QED
  BY <1>1, <1>2

\* The allocator implements ExtentStore: seen on the volume, each call replaces
\* the clusters of one file, in one step, by a sequence nobody else owns, at
\* least as long as asked, that keeps the clusters of the old one in place; and
\* a call that a process abandons replaces nothing.
THEOREM ImplementsExtentStore == Spec => RefinesExtentStore
<1>1. LInv /\ [Next]_vars => [Store!Next]_[f \in Files |-> Chain(disk, first[f])]
  BY NextExtents
<1> QED
  BY InitExtents, AlwaysLInv, <1>1, PTL DEF Spec, RefinesExtentStore, Store!Spec

=============================================================================
