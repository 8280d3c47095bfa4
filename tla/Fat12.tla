-------------------------------- MODULE Fat12 --------------------------------
(***************************************************************************)
(* The FAT12 driver (src/fat/fat12.c) under the commands of the VFS        *)
(* (src/vfs/vfs.c): what is on the volume, what the driver holds in        *)
(* memory, and the order in which a command reads and writes both.         *)
(*                                                                         *)
(* A command is a list of steps, todo, of which a step may put others in   *)
(* front.  Every write to the device is a step of its own, so the process  *)
(* can be killed, run out of clusters or fail an assertion between any two *)
(* of them.  Cluster chains are reallocated by the closed form of FatTable *)
(* that ClusterAlloc checks against the loop.                              *)
(*                                                                         *)
(* A volume has one sector in a cluster, as fat12_format_device makes it.  *)
(* File sizes are counted in clusters.                                     *)
(***************************************************************************)
EXTENDS FatTable, Integers

CONSTANTS
    DirSpan,        \* clusters in a directory, as many as the root directory has sectors
    SlotsPerCluster,\* directory entries in a cluster
    LastOnDevice,   \* the last cluster the device has room for
    Short,          \* name typed -> name stored
    Text,           \* name typed -> what the contents written read as an entry's name
    FileNames,      \* names typed to touch, write and read
    Removable,      \* names typed to rm
    Lengths,        \* bound: name -> sizes of the contents written to that file
    Paths,          \* paths typed to cd and mkdir, as sequences of names and slashes
    MayCrash        \* bound: the commands during which the process is killed

ASSUME SpanAssumption ==
    /\ DirSpan \in Nat \ {0}
    /\ SlotsPerCluster \in Nat \ {0, 1}
    /\ LastOnDevice \in Nat /\ LastOnDevice < Eof
    /\ Lengths \in [FileNames -> SUBSET Nat]

ASSUME NamesAssumption ==
    /\ FileNames \cup Removable \cup {""} \subseteq DOMAIN Short
    /\ FileNames \subseteq DOMAIN Text
    \* Between two names of a path there is a slash.
    /\ \A path \in Paths :
          /\ path \in Seq(DOMAIN Short \cup {"/"})
          /\ \A i \in 1..(Len(path) - 1) : "/" \in {path[i], path[i + 1]}

VARIABLES
    \* The volume.
    fat1, fat2,     \* the two copies of the table
    root,           \* the root directory region, a sequence of entries
    data,           \* cluster -> its contents, read as entries
    \* The driver's memory.
    mounted,
    fat,            \* fat->fat_data, NoTable until it is first needed
    cwd,            \* first_cluster of fat->current_dir
    nodes,          \* the nodes of fat->current_dir, in order
    \* The command under way.
    cmd,
    todo,           \* the steps still to be made
    node,           \* the node the last lookup returned, 0 for NULL
    orig,           \* orig_dir of vfs_navigate_to_path and vfs_mkdir
    torn,           \* history: killed where the volume was not whole
    misplaced       \* history: a directory was made that is not Placed

volume == <<fat1, fat2, root, data>>
memory == <<mounted, fat, cwd, nodes>>
vars   == <<volume, memory, cmd, todo, node, orig, torn, misplaced>>

-----------------------------------------------------------------------------
(* Entries.                                                                 *)

NoTable == <<>>
NoCmd   == [op |-> "none"]

Entry(state, name, dir, first, size) ==
    [state |-> state, name |-> name, dir |-> dir, first |-> first, size |-> size]

\* The three states fat12_node_state_from_name tells apart.  What is left in a
\* deleted entry is never looked at again.
Unused  == Entry("unused", "", FALSE, RootCluster, 0)
Deleted == Entry("available", "", FALSE, Eof, 0)

Slots(span) == span * SlotsPerCluster
Blank       == [i \in 1..SlotsPerCluster |-> Unused]

\* Piece i of the len a write puts in a file, in a cluster of its own.  Bytes of a
\* file read as directory entries look like one entry nobody asks for, with len and
\* i where an entry has its first cluster and its size.
Piece(name, len, i) == [Blank EXCEPT ![1] = Entry("used", Text[name], FALSE, len, i)]

Dots(c) == [Blank EXCEPT ![1] = Entry("used", ".", TRUE, c, 0),
                         ![2] = Entry("used", "..", TRUE, RootCluster, 0)]

\* Clusters a directory region can reach beyond the last one ever allocated.
DeviceClusters == 2..(LastCluster + DirSpan)

\* The asserts of device_read_sectors and device_write_sectors for n clusters
\* from c: the last sector of the device is out of reach.
InDevice(c, n) == c = RootCluster \/ c + n - 1 < LastOnDevice

-----------------------------------------------------------------------------
(* Directories: DirSpan clusters in a row from the first one.               *)

Region(c) ==
    IF c = RootCluster THEN root
    ELSE [i \in 1..Slots(DirSpan) |->
             data[c + ((i - 1) \div SlotsPerCluster)][((i - 1) % SlotsPerCluster) + 1]]

Cut(slots, k) == SubSeq(slots, (k - 1) * SlotsPerCluster + 1, k * SlotsPerCluster)

WriteRegion(c, slots) ==
    IF c = RootCluster
    THEN root' = slots /\ UNCHANGED data
    ELSE /\ data' = [x \in DeviceClusters |->
                        IF x \in c..(c + DirSpan - 1) THEN Cut(slots, x - c + 1) ELSE data[x]]
         /\ UNCHANGED root

WriteCluster(c, contents) ==
    IF c = RootCluster
    THEN /\ root' = contents \o SubSeq(root, SlotsPerCluster + 1, Len(root))
         /\ UNCHANGED data
    ELSE data' = [data EXCEPT ![c] = contents] /\ UNCHANGED root

-----------------------------------------------------------------------------
Init ==
    /\ fat1 = EmptyTable /\ fat2 = EmptyTable
    /\ root = [i \in 1..Slots(DirSpan) |-> Unused]
    /\ data = [c \in DeviceClusters |-> Blank]
    /\ mounted = FALSE
    /\ fat = NoTable
    /\ cwd = RootCluster
    /\ nodes = <<>>
    /\ cmd = NoCmd /\ todo = <<>> /\ node = 0 /\ orig = RootCluster
    /\ torn = FALSE /\ misplaced = FALSE

Idle == todo = <<>>

Forget ==
    /\ mounted' = FALSE
    /\ fat' = NoTable
    /\ cwd' = RootCluster
    /\ nodes' = <<>>
    /\ cmd' = NoCmd /\ todo' = <<>> /\ node' = 0 /\ orig' = RootCluster

\* The window of a command that gives clusters back, between writing the table
\* and writing the directory: the entry on the volume asks for more than the
\* table there holds for it.
Exposed ==
    /\ ~Idle
    /\ Head(todo).do \in {"fat2", "dir"} /\ Last(todo).do = "dir"
    /\ node # 0
    /\ LET old == Region(cwd)[node]
       IN  \/ cmd.op = "remove" /\ old.state = "used"
           \/ cmd.op = "write" /\ old.size > Len(Chain(fat, nodes[node].first))

\* The process ends where it is: unmount and exit, exit(1), a failed assertion,
\* a fault, a kill.  The volume keeps what was written.
Stop ==
    /\ Forget
    /\ torn' = (torn \/ Exposed)
    /\ UNCHANGED <<volume, misplaced>>

Mount ==
    /\ ~mounted /\ ~torn
    /\ mounted' = TRUE
    /\ fat' = NoTable
    /\ cwd' = RootCluster
    /\ nodes' = root
    /\ UNCHANGED <<volume, cmd, todo, node, orig, torn, misplaced>>

Unmount == mounted /\ Idle /\ Stop

\* A volume that a kill has left in pieces, or a directory spoilt, is initialised and
\* formatted anew.
Reinitialise ==
    /\ ~mounted /\ (torn \/ misplaced)
    /\ fat1' = EmptyTable /\ fat2' = EmptyTable
    /\ root' = [i \in 1..Slots(DirSpan) |-> Unused]
    /\ data' = [c \in DeviceClusters |-> Blank]
    /\ torn' = FALSE /\ misplaced' = FALSE
    /\ UNCHANGED <<memory, cmd, todo, node, orig>>

-----------------------------------------------------------------------------
(* Commands, as the steps they start with.                                  *)

Step(do) == [do |-> do]
Get(name, make) == [do |-> "get", name |-> name, make |-> make]

\* Variants: the table only; the directory before the table.
FlushTableOnly == <<Step("fat1"), Step("fat2")>>
FlushDirFirst  == <<Step("dir"), Step("fat1"), Step("fat2")>>

Flush == <<Step("fat1"), Step("fat2"), Step("dir")>>

Begin(command, steps) ==
    /\ mounted /\ Idle
    /\ cmd' = command
    /\ todo' = steps
    /\ node' = 0
    /\ orig' = cwd
    /\ UNCHANGED <<volume, memory, torn, misplaced>>

\* vfs_touch
TouchFile(n) == Begin([op |-> "touch", name |-> n], <<Get(n, "file")>>)

\* vfs_write: touch first, then fat12_file_write.
WriteFile(n, len) ==
    Begin([op |-> "write", name |-> n, len |-> len],
          <<Get(n, "file"), Get(n, "file"), Step("resize")>>)

\* vfs_read
ReadFile(n) == Begin([op |-> "read", name |-> n], <<Get(n, "none"), Step("fetch")>>)

\* vfs_remove
RemoveFile(n) == Begin([op |-> "remove", name |-> n], <<Get(n, "none"), Step("drop")>>)

Slash == "/"

\* The components of a path: the k-th stands behind k - 1 slashes, and is empty where
\* nothing does.
Components(path) ==
    LET slashes   == {i \in DOMAIN path : path[i] = Slash}
        behind(k) == {i \in DOMAIN path \ slashes :
                         Cardinality({s \in slashes : s < i}) = k - 1}
    IN  [k \in 1..(Cardinality(slashes) + 1) |->
            IF behind(k) = {} THEN "" ELSE path[CHOOSE i \in behind(k) : TRUE]]

\* vfs_construct_path: is_root, and the components between the slashes, of which
\* the first, the last and any other may have an empty name.
ConstructPath(path) ==
    LET is_root == path # <<>> /\ path[1] = Slash
    IN  [is_root |-> is_root, names |-> Components(IF is_root THEN Tail(path) ELSE path)]

ToStart(path) == IF path.is_root THEN <<Step("root")>> ELSE <<>>

\* Each name is looked up, and what is found entered, in turn.
Visit(path, step) ==
    ToStart(path)
        \o [i \in 1..(2 * Len(path.names)) |->
               LET name == path.names[(i + 1) \div 2]
               IN  IF i % 2 = 1 THEN Get(name, "none") ELSE [do |-> step, name |-> name]]

\* vfs_navigate_to_path.  A path whose first name is empty is at its end at once.
Cd(path) ==
    LET steps == IF path.names[1] = "" THEN ToStart(path) ELSE Visit(path, "enter")
    IN  /\ steps # <<>>
        /\ Begin([op |-> "cd", path |-> path], steps)

\* vfs_mkdir, which makes a directory of an empty name as of any other.
Mkdir(path) == Begin([op |-> "mkdir", path |-> path],
                     Visit(path, "descend") \o <<Step("back")>>)

-----------------------------------------------------------------------------
(* Lookups: fat12_get_file.                                                 *)

\* Goes on with the rest of the command, with node as the node in hand.
Proceed(rest, i) ==
    /\ todo' = rest
    /\ IF rest = <<>>
       THEN cmd' = NoCmd /\ node' = 0 /\ orig' = RootCluster
       ELSE node' = i /\ UNCHANGED <<cmd, orig>>

Next1(do) == ~Idle /\ Head(todo).do = do

LoadedTable == IF fat = NoTable THEN fat1 ELSE fat

Matches(e, n) == e.state = "used" /\ e.name \in {n, Short[n]}

\* Where the scan ends: at an entry never used or at a match, 0 past the last.
ScanEnd(n) ==
    LET ends == {i \in DOMAIN nodes : nodes[i].state = "unused" \/ Matches(nodes[i], n)}
    IN  IF ends = {} THEN 0 ELSE Min(ends)

\* The first slot seen on the way that a new entry could take, 0 for none.
FirstSlot(n) ==
    LET seen == IF ScanEnd(n) = 0 THEN DOMAIN nodes ELSE 1..ScanEnd(n)
        open == {i \in seen : nodes[i].state # "used"}
    IN  IF open = {} THEN 0 ELSE Min(open)

MayCreate(step) == step.make # "none" /\ FirstSlot(step.name) # 0

ClustersFor(make) == IF make = "dir" THEN DirSpan ELSE 1

\* A directory is read and written as DirSpan clusters in a row, and only the first of
\* them is cleared when it is made: the chain at c has to be that row, with no entry in
\* use behind the first cluster.
Row(c) == [i \in 1..DirSpan |-> c + i - 1]

Placed(t, c) ==
    /\ Chain(t, c) = Row(c)
    /\ \A x \in (c + 1)..(c + DirSpan - 1) :
          \A i \in 1..SlotsPerCluster : data[x][i] \in {Unused, Deleted}

Misplace(make, t, c) == misplaced' = (misplaced \/ (make = "dir" /\ ~Placed(t, c)))

Lookup ==
    /\ Next1("get")
    /\ ~MayCreate(Head(todo))
    /\ Proceed(Flush \o Tail(todo), ScanEnd(Head(todo).name))
    /\ UNCHANGED <<volume, memory, torn, misplaced>>

\* Variant: the entries . and .. are written after the directory is linked.
CreateNodeLate ==
    /\ Next1("get")
    /\ LET step  == Head(todo)
           slot  == FirstSlot(step.name)
           n     == ClustersFor(step.make)
           first == ReallocateStart(LoadedTable, Eof, n)
       IN  /\ MayCreate(step)
           /\ CanReallocate(LoadedTable, Eof, n)
           /\ fat' = Reallocate(LoadedTable, Eof, n)
           /\ nodes' = [nodes EXCEPT ![slot] =
                            Entry("used", Short[step.name], step.make = "dir", first, 0)]
           /\ Misplace(step.make, fat', first)
           /\ Proceed(Flush \o (IF step.make = "dir"
                       THEN <<[do |-> "store", at |-> first, contents |-> Dots(first)]>>
                       ELSE <<>>) \o Tail(todo), slot)
    /\ UNCHANGED <<volume, mounted, cwd, torn>>

\* fat12_create_file_node and fat12_create_directory_node: a chain, an entry in
\* the first slot and, for a directory, the entries . and .. in its first
\* cluster; .. names the root directory whatever the parent is.
CreateNode ==
    /\ Next1("get")
    /\ LET step  == Head(todo)
           slot  == FirstSlot(step.name)
           n     == ClustersFor(step.make)
           first == ReallocateStart(LoadedTable, Eof, n)
       IN  /\ MayCreate(step)
           /\ CanReallocate(LoadedTable, Eof, n)
           /\ fat' = Reallocate(LoadedTable, Eof, n)
           /\ nodes' = [nodes EXCEPT ![slot] =
                            Entry("used", Short[step.name], step.make = "dir", first, 0)]
           /\ Misplace(step.make, fat', first)
           /\ Proceed((IF step.make = "dir"
                       THEN <<[do |-> "store", at |-> first, contents |-> Dots(first)]>>
                       ELSE <<>>) \o Flush \o Tail(todo), slot)
    /\ UNCHANGED <<volume, mounted, cwd, torn>>

-----------------------------------------------------------------------------
(* Flushing: fat12_flush.                                                   *)

\* Variants: a table that was never loaded is written; the second copy is not.
FlushFat1Unloaded ==
    /\ Next1("fat1")
    /\ fat1' = fat
    /\ Proceed(Tail(todo), node)
    /\ UNCHANGED <<fat2, root, data, memory, torn, misplaced>>

FlushFat2Skipped ==
    /\ Next1("fat2")
    /\ Proceed(Tail(todo), node)
    /\ UNCHANGED <<volume, memory, torn, misplaced>>

\* A table that was never loaded is a null pointer to fwrite.  The write fails
\* and is not noticed, or the process faults (NullTable).
FlushFat1 ==
    /\ Next1("fat1")
    /\ fat1' = IF fat = NoTable THEN fat1 ELSE fat
    /\ Proceed(Tail(todo), node)
    /\ UNCHANGED <<fat2, root, data, memory, torn, misplaced>>

FlushFat2 ==
    /\ Next1("fat2")
    /\ fat2' = IF fat = NoTable THEN fat2 ELSE fat
    /\ Proceed(Tail(todo), node)
    /\ UNCHANGED <<fat1, root, data, memory, torn, misplaced>>

NullTable ==
    /\ Next1("fat1") \/ Next1("fat2")
    /\ fat = NoTable
    /\ Stop

FlushDir ==
    /\ Next1("dir")
    /\ InDevice(cwd, DirSpan)
    /\ WriteRegion(cwd, nodes)
    /\ Proceed(Tail(todo), node)
    /\ UNCHANGED <<fat1, fat2, memory, torn, misplaced>>

-----------------------------------------------------------------------------
(* File contents.                                                           *)

\* The i-th cluster the driver visits from c, following the table.
Visited(t, c, i) ==
    IF i = 1 THEN c
    ELSE IF i <= Len(Chain(t, c)) THEN Chain(t, c)[i] ELSE Eof

ClustersOf(len) == IF len = 0 THEN 1 ELSE len

Contents(n, len, i) == IF len = 0 THEN Blank ELSE Piece(n, len, i)

\* fat12_file_write after its lookup.  Without a node it gives up.
Resize ==
    /\ Next1("resize")
    /\ node # 0
    /\ LET n     == ClustersOf(cmd.len)
           old   == nodes[node].first
           table == Reallocate(LoadedTable, old, n)
           first == ReallocateStart(LoadedTable, old, n)
       IN  /\ CanReallocate(LoadedTable, old, n)
           /\ fat' = table
           /\ nodes' = [nodes EXCEPT ![node].first = first, ![node].size = cmd.len]
           /\ Proceed([i \in 1..n |-> [do |-> "store", at |-> Visited(table, first, i),
                                       contents |-> Contents(cmd.name, cmd.len, i)]]
                          \o Flush, node)
    /\ UNCHANGED <<volume, mounted, cwd, torn, misplaced>>

\* fat12_write_cluster_data.
Store ==
    /\ Next1("store")
    /\ InDevice(Head(todo).at, 1)
    /\ WriteCluster(Head(todo).at, Head(todo).contents)
    /\ Proceed(Tail(todo), node)
    /\ UNCHANGED <<fat1, fat2, memory, torn, misplaced>>

\* fat12_first_available_cluster finds none, and the process exits.
Exhausted ==
    /\ \/ /\ Next1("get")
          /\ MayCreate(Head(todo))
          /\ ~CanReallocate(LoadedTable, Eof, ClustersFor(Head(todo).make))
       \/ /\ Next1("resize")
          /\ node # 0
          /\ ~CanReallocate(LoadedTable, nodes[node].first, ClustersOf(cmd.len))
    /\ Stop

\* Variant: the next cluster is looked up before the first is read.
SourceLate == [i \in 1..(IF node = 0 THEN 0 ELSE nodes[node].size) |->
                  Visited(LoadedTable, nodes[node].first, i + 1)]

\* The clusters fat12_file_read reads for the node in hand.
Source == [i \in 1..(IF node = 0 THEN 0 ELSE nodes[node].size) |->
                Visited(LoadedTable, nodes[node].first, i)]

\* fat12_file_read after its lookup.
Fetch ==
    /\ Next1("fetch")
    /\ \A i \in DOMAIN Source : InDevice(Source[i], 1)
    /\ fat' = IF Source = <<>> THEN fat ELSE LoadedTable
    /\ Proceed(Tail(todo), 0)
    /\ UNCHANGED <<volume, mounted, cwd, nodes, torn, misplaced>>

\* Variant: the name of a removed entry is cleared, and not marked.
DropUnused ==
    /\ Next1("drop")
    /\ node # 0
    /\ LET first == nodes[node].first
       IN  fat' = SetEntry(Reallocate(LoadedTable, first, 0), first, Free)
    /\ nodes' = [nodes EXCEPT ![node] = Unused]
    /\ Proceed(Flush, node)
    /\ UNCHANGED <<volume, mounted, cwd, torn, misplaced>>

\* fat12_remove_file after its lookup.  The node may be one that was never
\* used: the lookup returns it for a name that is not there.
Drop ==
    /\ Next1("drop")
    /\ node # 0
    /\ LET first == nodes[node].first
       IN  fat' = SetEntry(Reallocate(LoadedTable, first, 0), first, Free)
    /\ nodes' = [nodes EXCEPT ![node] = Deleted]
    /\ Proceed(Flush, node)
    /\ UNCHANGED <<volume, mounted, cwd, torn, misplaced>>

\* The lookup returned NULL to fat12_file_write or fat12_remove_file.
GiveUp ==
    /\ Next1("resize") \/ Next1("drop")
    /\ node = 0
    /\ Proceed(<<>>, 0)
    /\ UNCHANGED <<volume, memory, torn, misplaced>>

-----------------------------------------------------------------------------
(* Directories: fat12_load_directory under cd and mkdir.                    *)

\* Variants: the cluster of the working directory, or its nodes, left behind.
LoadKeepsCluster(c) ==
    /\ InDevice(c, DirSpan)
    /\ nodes' = Region(c)
    /\ UNCHANGED <<volume, mounted, fat, cwd, torn, misplaced>>

LoadKeepsNodes(c) ==
    /\ InDevice(c, DirSpan)
    /\ cwd' = c
    /\ UNCHANGED <<volume, mounted, fat, nodes, torn, misplaced>>

Load(c) ==
    /\ InDevice(c, DirSpan)
    /\ cwd' = c
    /\ nodes' = Region(c)
    /\ UNCHANGED <<volume, mounted, fat, torn, misplaced>>

ToRoot == Next1("root") /\ Load(RootCluster) /\ Proceed(Tail(todo), 0)

\* Variant: a file will do for a directory.
FoundAny == node # 0

FoundDir == node # 0 /\ nodes[node].dir

\* Variant: a cd that fails stays where it got to.
EnterStays ==
    /\ Next1("enter")
    /\ \/ FoundDir  /\ Load(nodes[node].first) /\ Proceed(Tail(todo), 0)
       \/ ~FoundDir /\ Proceed(<<>>, 0) /\ UNCHANGED <<volume, memory, torn, misplaced>>

\* cd: the next component is entered, or the original directory again.
Enter ==
    /\ Next1("enter")
    /\ \/ FoundDir  /\ Load(nodes[node].first) /\ Proceed(Tail(todo), 0)
       \/ ~FoundDir /\ Load(orig) /\ Proceed(<<>>, 0)

\* Variant: a directory just made is not entered.
DescendStays ==
    /\ Next1("descend")
    /\ node # 0
    /\ LET found == nodes[node]
       IN  \/ /\ found.state = "used" /\ ~found.dir
              /\ Load(orig) /\ Proceed(<<>>, 0)
           \/ /\ found.state = "used" /\ found.dir
              /\ Load(found.first) /\ Proceed(Tail(todo), 0)
           \/ /\ found.state = "unused"
              /\ Proceed(<<Get(Head(todo).name, "dir")>> \o Tail(todo), 0)
              /\ UNCHANGED <<volume, memory, torn, misplaced>>

\* mkdir: a file is in the way, there is a directory, or one is made.
Descend ==
    /\ Next1("descend")
    /\ node # 0
    /\ LET found == nodes[node]
       IN  \/ /\ found.state = "used" /\ ~found.dir
              /\ Load(orig) /\ Proceed(<<>>, 0)
           \/ /\ found.state = "used" /\ found.dir
              /\ Load(found.first) /\ Proceed(Tail(todo), 0)
           \/ /\ found.state = "unused"
              /\ Proceed(<<Get(Head(todo).name, "dir"), Step("into")>> \o Tail(todo), 0)
              /\ UNCHANGED <<volume, memory, torn, misplaced>>

IntoNew == Next1("into") /\ Load(nodes[node].first) /\ Proceed(Tail(todo), 0)

Back == Next1("back") /\ Load(orig) /\ Proceed(Tail(todo), 0)

\* vfs_mkdir looks into the node it was given, and there is none when every
\* slot of the directory is taken or deleted.
NullNode == Next1("descend") /\ node = 0 /\ Stop

-----------------------------------------------------------------------------
\* The sectors the next step accesses, as first cluster and count.
Access ==
    IF Idle THEN {}
    ELSE CASE Head(todo).do = "store"   -> {<<Head(todo).at, 1>>}
           [] Head(todo).do = "dir"     -> {<<cwd, DirSpan>>}
           [] Head(todo).do = "fetch"   -> {<<Source[i], 1>> : i \in DOMAIN Source}
           [] Head(todo).do = "enter"   ->
                  {<<IF FoundDir THEN nodes[node].first ELSE orig, DirSpan>>}
           [] Head(todo).do = "descend" ->
                  IF FoundDir THEN {<<nodes[node].first, DirSpan>>} ELSE {<<orig, DirSpan>>}
           [] Head(todo).do = "into"    -> {<<nodes[node].first, DirSpan>>}
           [] Head(todo).do = "back"    -> {<<orig, DirSpan>>}
           [] OTHER -> {}

\* An assertion of device_read_sectors or device_write_sectors fails.
AssertionFails == (\E a \in Access : ~InDevice(a[1], a[2])) /\ Stop

\* The process is killed in the middle of a command.
Kill == ~Idle /\ cmd.op \in MayCrash /\ Stop

\* Bound: nothing is written under the name of a directory.
WritesFiles(n) == \A i \in DOMAIN nodes : Matches(nodes[i], n) => ~nodes[i].dir

Command ==
    \/ \E n \in FileNames : TouchFile(n) \/ ReadFile(n)
                           \/ (WritesFiles(n) /\ \E len \in Lengths[n] : WriteFile(n, len))
    \/ \E n \in Removable : RemoveFile(n)
    \/ \E path \in Paths  : Cd(ConstructPath(path)) \/ Mkdir(ConstructPath(path))

Advance ==
    \/ Lookup \/ CreateNode
    \/ FlushFat1 \/ FlushFat2 \/ FlushDir
    \/ Resize \/ Store \/ Fetch \/ Drop \/ GiveUp
    \/ ToRoot \/ Enter \/ Descend \/ IntoNew \/ Back

Fail == Exhausted \/ NullTable \/ NullNode \/ AssertionFails \/ Kill

Next == Mount \/ Unmount \/ Reinitialise \/ Command \/ Advance \/ Fail

Spec == Init /\ [][Next]_vars

-----------------------------------------------------------------------------
(* Properties.                                                              *)

EntryNames ==
    {"", ".", ".."} \cup {Short[n] : n \in DOMAIN Short} \cup {Text[n] : n \in FileNames}

EntrySet == [state : {"unused", "used", "available"}, name : EntryNames, dir : BOOLEAN,
             first : Nat, size : Nat]

TypeOK ==
    /\ fat1 \in Table /\ fat2 \in Table
    /\ root \in Seq(EntrySet) /\ Len(root) = Slots(DirSpan)
    /\ \A c \in DeviceClusters :
          /\ data[c] \in Seq(EntrySet)
          /\ Len(data[c]) = SlotsPerCluster
    /\ mounted \in BOOLEAN /\ torn \in BOOLEAN /\ misplaced \in BOOLEAN
    /\ fat \in Table \cup {NoTable}
    /\ cwd \in Clusters \cup {RootCluster} /\ orig \in Clusters \cup {RootCluster}
    /\ nodes \in Seq(EntrySet) /\ Len(nodes) = IF mounted THEN Slots(DirSpan) ELSE 0
    /\ node \in 0..Slots(DirSpan)

\* Between commands the driver's memory is what the volume holds: every command
\* wrote back the table and the directory it had changed.
WriteThrough ==
    mounted /\ Idle =>
        /\ nodes = Region(cwd)
        /\ fat # NoTable => fat = fat1

\* A kill between the two writes of the table leaves the copies different.  They
\* are equal again after the first command that flushes a table it has loaded.
CopiesHeal ==
    [][Next1("dir") /\ cmd' = NoCmd /\ mounted' /\ fat # NoTable => fat1' = fat2']_vars

\* The directories of the volume, found from the root directory.
Children(c) ==
    {i \in DOMAIN Region(c) :
        Region(c)[i].state = "used" /\ Region(c)[i].name \notin {".", ".."}}

SubDirs(c) == {Region(c)[i].first : i \in {j \in Children(c) : Region(c)[j].dir}}

TreeDirs ==
    LET within[k \in 0..LastCluster] ==
            IF k = 0 THEN {RootCluster}
            ELSE LET above == within[k - 1] IN above \cup UNION {SubDirs(c) : c \in above}
    IN  within[LastCluster]

TreeEntries == UNION {{<<c, i>> : i \in Children(c)} : c \in TreeDirs}

OnVolume(e) == Region(e[1])[e[2]]

\* Every entry on the volume has a chain there, ended, long enough for its size
\* and shared with no other entry.
Whole ==
    LET entries == TreeEntries
        Owned(e) == ChainSet(fat1, OnVolume(e).first)
    IN  /\ \A e \in entries :
              /\ Terminated(fat1, OnVolume(e).first)
              /\ OnVolume(e).size <= Cardinality(Owned(e))
        /\ \A e, f \in entries : e # f => Owned(e) \cap Owned(f) = {}

\* Two things the program does to a volume that nothing can be said of afterwards: it
\* was killed where the volume was not whole, or it has made a directory that is not
\* Placed (RegionIsChain shows how).
Spoilt == torn \/ misplaced

\* At every moment, between any two writes of any command, and so wherever the
\* process is killed or exits, the volume is whole, but for the window in which
\* a command that gives clusters back has written the table and not the entry.
VolumeWhole == Spoilt \/ Exposed \/ Whole

\* Where an entry of that name is in the directory at c, as the volume has it,
\* and what the file holds.
StoredAt(c, n) ==
    LET slots == Region(c)
        ends  == {i \in DOMAIN slots : slots[i].state = "unused" \/ Matches(slots[i], n)}
    IN  IF ends # {} /\ Matches(slots[Min(ends)], n) THEN Min(ends) ELSE 0

PiecesOf(entry) ==
    [i \in 1..entry.size |->
        LET x == Visited(fat1, entry.first, i) IN IF x \in DeviceClusters THEN data[x] ELSE Blank]

Stored(c, n) == IF StoredAt(c, n) = 0 THEN <<>> ELSE PiecesOf(Region(c)[StoredAt(c, n)])

\* Files of the root directory the command under way may change.
Named ==
    IF Idle \/ cmd.op \notin {"touch", "write", "remove"} \/ cwd # RootCluster THEN {}
    ELSE {n \in FileNames : Short[n] = Short[cmd.name]}

\* No step of a command, and no kill in the middle of one, changes what the
\* volume holds for a file of the root directory, but for the commands that
\* name the file there.
BystandersKept ==
    [][\A n \in FileNames \ Named :
        Spoilt \/ /\ Stored(RootCluster, n)' = Stored(RootCluster, n)
                  /\ StoredAt(RootCluster, n) # 0 => StoredAt(RootCluster, n)' # 0]_vars

TextOf(n, len) == [i \in 1..len |-> Piece(n, len, i)]

\* The files of the root directory as its lookups find them, by stored name: those
\* before the first entry never used, in order.
StoredNames == {Short[n] : n \in FileNames \cup Removable}

RootFiles ==
    LET end   == SelectInSeq(root, LAMBDA e : e.state = "unused")
        found == IF end = 0 THEN root ELSE SubSeq(root, 1, end - 1)
        Of(n) == SelectSeq(found, LAMBDA e : e.state = "used" /\ e.name = n)
    IN  [n \in StoredNames |-> [k \in DOMAIN Of(n) |-> PiecesOf(Of(n)[k])]]

\* A command on files as FileStore has it.  A read changes nothing.
Request ==
    IF Idle \/ cmd.op = "read" THEN [op |-> "none"]
    ELSE IF cmd.op = "write"
    THEN [op |-> "write", name |-> Short[cmd.name],
          text |-> TextOf(cmd.name, cmd.len)]
    ELSE [op |-> cmd.op, name |-> Short[cmd.name]]

Promise == INSTANCE FileStore WITH
    Names <- StoredNames, Room <- Slots(DirSpan), Nothing <- Blank,
    Texts <- UNION {{TextOf(n, len) : len \in Lengths[n]} : n \in FileNames},
    files <- RootFiles, busy <- Request, lost <- torn

\* Through device writes in their order, tables, caches, kills and remounts, the root
\* directory does what FileStore promises, and nothing else is ever seen there.
RefinesFileStore == Promise!Spec

\* A read finds the pieces of the file it asked for, in order, and never follows
\* the chain past its end.
ReadsOwnContents ==
    Next1("fetch") =>
        \A i \in DOMAIN Source :
            /\ Source[i] \in Clusters
            /\ \E len \in Lengths[cmd.name] : data[Source[i]] = Piece(cmd.name, len, i)

\* Wherever the process is stopped, every directory of the volume starts with the
\* entries . and .., the first naming its own cluster, and the clusters read and
\* written as that directory are those of its chain.
DirectoriesBegun ==
    Spoilt \/ \A c \in TreeDirs \ {RootCluster} :
        /\ Exposed \/ Chain(fat1, c) = Row(c)
        /\ data[c][1] = Dots(c)[1]
        /\ data[c][2] = Dots(c)[2]


\* The directory that the components of a path lead to from c, Eof for none.
Resolve(c, names) ==
    LET walk[k \in 0..Len(names)] ==
            IF k = 0 THEN c
            ELSE LET d == walk[k - 1]
                     i == IF d = Eof THEN 0 ELSE StoredAt(d, names[k])
                 IN  IF i # 0 /\ Region(d)[i].dir THEN Region(d)[i].first ELSE Eof
    IN  walk[Len(names)]

Destination(path) ==
    LET start == IF path.is_root THEN RootCluster ELSE orig
    IN  IF cmd.op = "cd" /\ path.names[1] = "" THEN start ELSE Resolve(start, path.names)

\* A command that ends leaves the working directory where it was, but for a cd
\* whose path names a directory on the volume: it ends there.  A cd that fails on
\* a later component never stays part of the way.
NavigationIsAtomic ==
    [][~Idle /\ cmd' = NoCmd /\ mounted' =>
          cwd' = IF cmd.op = "cd" /\ Destination(cmd.path) # Eof
                 THEN Destination(cmd.path) ELSE orig]_vars

\* When mkdir has come to the end of its path, before it goes back, the path
\* leads on the volume to the directory it is in.
MkdirMakesPath == Next1("back") => misplaced \/ cwd = Destination(cmd.path)

\* The working directory is a directory of the volume.
InsideTree == mounted /\ ~Spoilt => {cwd, orig} \subseteq TreeDirs

-----------------------------------------------------------------------------
(* What comments and assertions of the source say, and the program does not *)
(* keep to: each is the property of a run of its own.                       *)

\* "Should we attempt to create a node for the file, if no file existed?"
\* (fat12_get_file): a node is created for a name no entry has.
CreatesOnlyMissing ==
    Next1("get") /\ MayCreate(Head(todo)) =>
        ~\E i \in DOMAIN nodes : Matches(nodes[i], Head(todo).name)

\* "Read the contents of the directory." (fat12_load_directory): the clusters
\* read, and written back by fat12_flush_directory, are those of its chain.
RegionIsChain ==
    mounted /\ cwd # RootCluster => cwd..(cwd + DirSpan - 1) = ChainSet(fat1, cwd)

\* assert(sector + n < device_total_sectors(device)) (device_read_sectors,
\* device_write_sectors), which refuses the last sector too: every access is to sectors
\* that the device has.
AccessOnDevice ==
    \A a \in Access : a[1] = RootCluster \/ a[1] + a[2] - 1 <= LastOnDevice

=============================================================================
