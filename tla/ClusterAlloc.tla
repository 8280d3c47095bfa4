----------------------------- MODULE ClusterAlloc -----------------------------
(***************************************************************************)
(* The cluster allocator of the FAT12 driver: fat12_reallocate_cluster_    *)
(* chain (src/fat/fat12.c), one action per way through its loop, under the *)
(* three calls the driver makes of it:                                     *)
(*                                                                         *)
(*   fat12_dir_entry_new   a chain for a new entry                         *)
(*   fat12_file_write      the chain of an entry made to fit new contents  *)
(*   fat12_remove_file     the chain of a deleted entry given back         *)
(*                                                                         *)
(* The loop works on the table held in memory.  The driver writes the      *)
(* table to the volume when the call is over, and a process that finds no  *)
(* free cluster exits in the middle of the loop, so what it changed is     *)
(* lost.  The write of the table and of the directory entry count as one   *)
(* step here; Fat12 takes them apart.                                      *)
(***************************************************************************)
EXTENDS FatTable, Integers

CONSTANTS
    Files,          \* the directory entries that may exist
    MaxClusters     \* bound: the largest count a caller asks for

ASSUME MaxClustersAssumption == MaxClusters \in Nat \ {0}

VARIABLES
    fat,            \* fat->fat_data, the table in memory
    disk,           \* the table on the volume
    first,          \* file -> first_cluster of its entry, Eof when there is no file
    needed,         \* file -> the clusters its contents need
    call,           \* the call under way
    cluster,        \* the locals of fat12_reallocate_cluster_chain
    previous,
    remaining,
    start

tables == <<fat, disk, first, needed>>
locals == <<cluster, previous, remaining, start>>
vars   == <<tables, call, locals>>

-----------------------------------------------------------------------------
NoCall == [op |-> "none"]
Exited == [op |-> "exit"]
Calls  == [op : {"create", "write", "remove"}, file : Files, n : 0..MaxClusters]

Idle    == call = NoCall
Running == call \in Calls

\* The condition of the while loop.
MoreToDo == cluster # Eof \/ remaining >= 0

TypeOK ==
    /\ fat \in Table
    /\ disk \in Table
    /\ first \in [Files -> Clusters \cup {Eof}]
    /\ needed \in [Files -> 0..MaxClusters]
    /\ call \in Calls \cup {NoCall, Exited}
    /\ cluster \in Clusters \cup {Eof}
    /\ previous \in Clusters \cup {RootCluster, Eof}
    /\ remaining \in Int
    /\ start \in Clusters \cup {Eof}

-----------------------------------------------------------------------------
LocalsUnused ==
    /\ cluster = Eof
    /\ previous = RootCluster
    /\ remaining = 0
    /\ start = Eof

\* An empty volume, just mounted.
Init ==
    /\ fat = EmptyTable
    /\ disk = EmptyTable
    /\ first = [f \in Files |-> Eof]
    /\ needed = [f \in Files |-> 0]
    /\ call = NoCall
    /\ LocalsUnused

\* Variant: the count includes a cluster for the end mark.
BeginOneMore(op, f, n) ==
    /\ Idle
    /\ call' = [op |-> op, file |-> f, n |-> n]
    /\ cluster' = first[f]
    /\ previous' = RootCluster
    /\ remaining' = n + 1
    /\ start' = Eof
    /\ UNCHANGED tables

Begin(op, f, n) ==
    /\ Idle
    /\ call' = [op |-> op, file |-> f, n |-> n]
    /\ cluster' = first[f]
    /\ previous' = RootCluster
    /\ remaining' = n
    /\ start' = Eof
    /\ UNCHANGED tables

CreateFile(f, n) == first[f] = Eof /\ Begin("create", f, n)
WriteFile(f, n)  == first[f] # Eof /\ Begin("write", f, n)
RemoveFile(f)    == first[f] # Eof /\ Begin("remove", f, 0)

-----------------------------------------------------------------------------
(* The loop.                                                                *)

Looping == Running /\ MoreToDo

\* Variant: the count stops at zero.
AdvanceSaturating(c, next) ==
    /\ start' = IF start = Eof THEN c ELSE start
    /\ previous' = c
    /\ cluster' = next
    /\ remaining' = IF remaining > 0 THEN remaining - 1 ELSE remaining

\* The end of every iteration, at cluster c with original_next_cluster next.
Advance(c, next) ==
    /\ start' = IF start = Eof THEN c ELSE start
    /\ previous' = c
    /\ cluster' = next
    /\ remaining' = remaining - 1

Iterate(c, next, fat2) ==
    /\ fat' = fat2
    /\ Advance(c, next)
    /\ UNCHANGED <<disk, first, needed, call>>

\* The chain is too short: the first free cluster becomes its last.
AllocateNext ==
    /\ Looping
    /\ remaining > 0
    /\ cluster = Eof
    /\ \E c \in Clusters :
        /\ IsFirstAvailable(fat, c)
        /\ Iterate(c, Eof, Extend(fat, previous, c))

\* Variant: gives up at the end of a chain that is long enough.
ExhaustedEarly ==
    /\ Looping
    /\ remaining >= 0
    /\ cluster = Eof
    /\ FreeClusters(fat) = {}
    /\ call' = Exited
    /\ UNCHANGED <<tables, locals>>

\* No free cluster: the process exits with status 1.
Exhausted ==
    /\ Looping
    /\ remaining > 0
    /\ cluster = Eof
    /\ FreeClusters(fat) = {}
    /\ call' = Exited
    /\ UNCHANGED <<tables, locals>>

\* Variant: the new last cluster keeps its link.
MarkEndNot ==
    /\ Looping
    /\ remaining = 0
    /\ cluster # Eof
    /\ Iterate(cluster, NextCluster(fat, cluster), fat)

MarkEnd ==
    /\ Looping
    /\ remaining = 0
    /\ cluster # Eof
    /\ Iterate(cluster, NextCluster(fat, cluster), SetEntry(fat, cluster, Eof))

FreeRest ==
    /\ Looping
    /\ remaining < 0
    /\ cluster # Eof
    /\ Iterate(cluster, NextCluster(fat, cluster), SetEntry(fat, cluster, Free))

\* The cluster exists and is wanted, or the count and the chain end together.
Skip ==
    /\ Looping
    /\ \/ remaining > 0 /\ cluster # Eof
       \/ remaining <= 0 /\ cluster = Eof
    /\ Iterate(cluster, NextCluster(fat, cluster), fat)

-----------------------------------------------------------------------------
(* The callers, after the loop.                                             *)

\* Variant: the table is not written back.
FinishUnflushed(table, head) ==
    /\ fat' = table
    /\ first' = [first EXCEPT ![call.file] = head]
    /\ needed' = [needed EXCEPT ![call.file] = call.n]
    /\ call' = NoCall
    /\ cluster' = Eof
    /\ previous' = RootCluster
    /\ remaining' = 0
    /\ start' = Eof
    /\ UNCHANGED disk

Finish(table, head) ==
    /\ fat' = table
    /\ disk' = table
    /\ first' = [first EXCEPT ![call.file] = head]
    /\ needed' = [needed EXCEPT ![call.file] = call.n]
    /\ call' = NoCall
    /\ cluster' = Eof
    /\ previous' = RootCluster
    /\ remaining' = 0
    /\ start' = Eof

\* fat12_dir_entry_new and fat12_file_write keep the chain.
ReturnChain ==
    /\ Running /\ ~MoreToDo
    /\ call.op # "remove"
    /\ Finish(fat, start)

\* Variant: the cluster the loop leaves is forgotten.
ReturnRemovedLeak ==
    /\ Running /\ ~MoreToDo
    /\ call.op = "remove"
    /\ Finish(fat, Eof)

\* Variant: the entry is left pointing at the free mark.
ReturnRemovedFree ==
    /\ Running /\ ~MoreToDo
    /\ call.op = "remove"
    /\ Finish(SetEntry(fat, start, Free), Free)

\* fat12_remove_file frees the one cluster the loop left of the chain.
ReturnRemoved ==
    /\ Running /\ ~MoreToDo
    /\ call.op = "remove"
    /\ Finish(SetEntry(fat, start, Free), Eof)

\* The program is started again and the volume mounted: the table is read.
Remount ==
    /\ call = Exited
    /\ fat' = disk
    /\ call' = NoCall
    /\ cluster' = Eof
    /\ previous' = RootCluster
    /\ remaining' = 0
    /\ start' = Eof
    /\ UNCHANGED <<disk, first, needed>>

Loop   == AllocateNext \/ Exhausted \/ MarkEnd \/ FreeRest \/ Skip
Return == ReturnChain \/ ReturnRemoved

Next ==
    \/ \E f \in Files :
        \/ \E n \in 1..MaxClusters : CreateFile(f, n) \/ WriteFile(f, n)
        \/ RemoveFile(f)
    \/ Loop
    \/ Return
    \/ Remount

\* A call runs in the only thread of the program, without waiting for anything.
Fairness == WF_vars(Loop \/ Return)

Spec == Init /\ [][Next]_vars /\ Fairness

-----------------------------------------------------------------------------
(* Properties.                                                              *)

\* What a table must satisfy for the chains from a set of clusters to be whole
\* and to be everything in use.
LinksLive(t)      == \A c \in Clusters : t[c] \in Clusters => t[t[c]] # Free
OnePredecessor(t) == \A c, d \in Clusters : t[c] = t[d] /\ t[c] \in Clusters => c = d
HeadsLive(t, heads)  == heads \subseteq Clusters /\ \A c \in heads : t[c] # Free
HeadsFirst(t, heads) == \A c \in Clusters : t[c] \notin heads
NothingLeaked(t, heads) ==
    \A c \in Clusters : t[c] # Free => c \in heads \/ \E d \in Clusters : t[d] = c

Sound(t, heads) ==
    /\ LinksLive(t)
    /\ OnePredecessor(t)
    /\ HeadsLive(t, heads)
    /\ HeadsFirst(t, heads)
    /\ NothingLeaked(t, heads)

Heads == {first[f] : f \in Files} \ {Eof}

DistinctHeads == \A f, g \in Files : first[f] = first[g] /\ first[f] # Eof => f = g

\* What is on the volume is always sound: after any sequence of calls, and
\* after a process that ran out of clusters in the middle of one, no entry
\* points at a free cluster, no cluster has two predecessors or two owners,
\* and no cluster is in use without belonging to a chain.
VolumeSound == Sound(disk, Heads) /\ DistinctHeads

\* The clusters that start a chain in memory during a call: the heads of the
\* other files, the head found for this one, and the rest of its old chain
\* once the loop has cut it off.
OtherHeads == {first[f] : f \in Files \ {call.file}} \ {Eof}
OwnHeads   == ({start} \cup IF start = Eof \/ remaining < 0 THEN {cluster} ELSE {}) \ {Eof}

\* Where the loop stands: before its first iteration, on the way along the
\* chain with previous the predecessor of cluster, or past the count.
Position ==
    /\ remaining <= call.n
    /\ \/ /\ start = Eof
          /\ previous = RootCluster
          /\ remaining = call.n
          /\ cluster = Eof => remaining > 0
       \/ /\ start # Eof
          /\ remaining >= 0
          /\ previous \in Clusters
          /\ fat[previous] = cluster
          /\ call.n > 0
       \/ /\ start # Eof
          /\ remaining < 0
          /\ start # cluster
          /\ call.n = 0 => fat[start] = Eof

\* The inductive invariant: the volume is sound, memory agrees with it between
\* calls, and during a call memory is sound but for the chain being changed.
CallSound ==
    /\ VolumeSound
    /\ Idle => fat = disk
    /\ Running =>
        /\ Sound(fat, OtherHeads \cup OwnHeads)
        /\ OtherHeads \cap OwnHeads = {}
        /\ Position
        /\ call.op = "create" <=> first[call.file] = Eof
        /\ call.op = "remove" <=> call.n = 0

\* Seen along whole chains: the chains of the entries end in an end mark and
\* partition the clusters in use, so nothing is lost in a cycle either.
ChainsPartition ==
    /\ \A f \in Files : first[f] # Eof => Terminated(disk, first[f])
    /\ \A f, g \in Files : f # g => ChainSet(disk, first[f]) \cap ChainSet(disk, first[g]) = {}
    /\ Clusters \ FreeClusters(disk) = UNION {ChainSet(disk, first[f]) : f \in Files}

\* No step of a call changes a chain that belongs to another file.
OthersUntouched ==
    [][\A f \in Files :
        Running /\ Running' /\ f # call.file => Chain(fat', first[f]) = Chain(fat, first[f])]_vars

\* When the loop ends it has made of the flushed table what the closed form
\* says, and it returns the first cluster the closed form says.
LoopMatchesClosedForm ==
    Running /\ ~MoreToDo =>
        LET c == first[call.file]
        IN  /\ fat = Reallocate(disk, c, call.n)
            /\ start = ReallocateStart(disk, c, call.n)

\* A process exits for want of clusters only when the volume has too few for
\* the call, counting those the file already owns.
ExitsOnlyWhenFull ==
    [][call' = Exited /\ Running => ~CanReallocate(disk, first[call.file], call.n)]_vars

\* A file has the clusters its contents need, and after any number of writes
\* never more than one cluster beyond them.
FitsContents ==
    \A f \in Files :
        first[f] # Eof => Len(Chain(disk, first[f])) - needed[f] \in {0, 1}

\* fat12_sectors_in_cluster_chain, called with the chain just made and the
\* count asked for, allocates a list of that many sectors for all of the chain.
SectorBlockFits ==
    Running /\ ~MoreToDo /\ call.op # "remove" => Len(Chain(fat, start)) <= call.n

\* Every call returns, or ends the process.
CallEnds == Running ~> (Idle \/ call = Exited)

\* The allocator implements ExtentStore on what has been flushed.
Store == INSTANCE ExtentStore WITH
            Blocks <- Clusters,
            extent <- [f \in Files |-> Chain(disk, first[f])]
RefinesExtentStore == Store!Spec
=============================================================================
