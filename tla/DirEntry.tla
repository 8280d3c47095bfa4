------------------------------- MODULE DirEntry -------------------------------
(***************************************************************************)
(* What a directory entry says besides where its file is: name, attributes *)
(* and dates (src/fat/fat12.c), on the volume and in the nodes the driver  *)
(* makes of it.  The two are kept alike by conversions in both directions, *)
(* and a node is converted back only when it is dirty.                     *)
(*                                                                         *)
(* This is one directory of a volume that has clusters enough; where the   *)
(* files are, and what happens between the writes of a command, is in      *)
(* Fat12.  A date is the number of its month since January 1980, taken in  *)
(* the middle of the month.                                                *)
(***************************************************************************)
EXTENDS ShortName, Integers

CONSTANTS
    Places,         \* the number of entries
    Typed,          \* names typed to touch, write and rm
    DirNames,       \* names typed to mkdir
    Found,          \* the names and attributes of an entry found on the volume
    Now,            \* the month it is
    MaxSlips        \* bound: first writes of an entry after a reload

VARIABLES
    stored,         \* the directory on the volume
    nodes,          \* fat->current_dir
    typed,          \* history: names that have been given to an entry that is still there
    past            \* history: what happened to each entry

dir_vars == <<stored, nodes, typed, past>>

Slots == 1..Places

\* fat12_construct_short_name of the names that are typed.
Short == [name \in Typed \cup DirNames |-> ShortNames(name)]

-----------------------------------------------------------------------------
(* Attributes and dates.                                                    *)

\* Variant: the system attribute is left out one way.
TranslatedWithoutSystem(attributes) == attributes \cap {"readonly", "hidden", "directory"}

\* fat12_translate_to_vfs_attributes and back again.
Translated(attributes) == attributes \cap {"readonly", "hidden", "system", "directory"}

ZeroDate  == [year |-> 0, month |-> 0]
YearsHeld == 128        \* seven bits

\* fat12_date_from_posix
DateFromPosix(time) == [year |-> (time \div 12) % YearsHeld, month |-> (time % 12) + 1]

\* Variant: the month is lowered again.
MonthLowered(date) == IF date = ZeroDate THEN -1 ELSE 12 * date.year + date.month - 1

\* fat12_date_time_to_posix.  Months count from 0 in a struct tm and from 1 in an
\* entry, and are taken as they are.  Day 0 is the last of the month before.
DateToPosix(date) == IF date = ZeroDate THEN -1 ELSE 12 * date.year + date.month

\* Dates as other programs write them.
Date == [year : 0 .. YearsHeld - 1, month : 1 .. 12]

Attributes == {"readonly", "hidden", "system", "directory", "archive", "volume_id"}

\* A typed name is any sequence of characters.  An entry that is found is in use, its
\* name of characters this program stores too.
ASSUME DirAssumption ==
    /\ Places \in Nat
    /\ \A name \in Typed \cup DirNames : name \in Seq(Range(name))
    /\ Found \subseteq [name : Stored, attributes : SUBSET Attributes,
                       cdate : Date, adate : Date \cup {ZeroDate}]
    /\ Now \in Nat

-----------------------------------------------------------------------------
(* Nodes and entries.                                                       *)

IsErased(name) == name # <<>> /\ name[1] = Erased

NodeState(name) ==
    IF IsErased(name) THEN "available" ELSE IF name[1] = Nul THEN "unused" ELSE "used"

NeverUsed == [name |-> [i \in 1 .. NameSize + ExtSize |-> Nul], attributes |-> {},
              cdate |-> ZeroDate, adate |-> ZeroDate]

\* What else is in a deleted entry is never looked at again.
Deleted == [NeverUsed EXCEPT !.name = [i \in 1 .. NameSize + ExtSize |-> IF i = 1 THEN Erased ELSE Nul]]

\* An entry of a directory as fat12_create_directory_node makes it.
DotEntry(text) == [name |-> Padded(text, NameSize + ExtSize), attributes |-> {"directory"},
                   cdate |-> ZeroDate, adate |-> ZeroDate]

\* fat12_construct_node_for_sfn
Node(sfn) ==
    [state |-> NodeState(sfn.name), name |-> StandardName(sfn.name),
     attributes |-> Translated(sfn.attributes), creation |-> DateToPosix(sfn.cdate),
     access |-> DateToPosix(sfn.adate), is_dirty |-> FALSE]

Load(volume) == [s \in Slots |-> Node(volume[s])]

\* Variant: the name of a deleted entry is rebuilt as well.
CommitRebuilds(node, sfn) ==
    IF ~node.is_dirty THEN sfn
    ELSE [name |-> CHOOSE short \in ShortNames(node.name) : TRUE,
          attributes |-> Translated(node.attributes),
          cdate |-> DateFromPosix(node.creation), adate |-> DateFromPosix(node.access)]

\* fat12_commit_node_changes_to_sfn.  The name of a node is within its buffer.
Commit(node, sfn) ==
    IF ~node.is_dirty THEN sfn
    ELSE IF IsErased(node.name) THEN Deleted
    ELSE [name |-> CHOOSE short \in ShortNames(node.name) : TRUE,
          attributes |-> Translated(node.attributes),
          cdate |-> DateFromPosix(node.creation), adate |-> DateFromPosix(node.access)]

\* fat12_flush_directory
Flushed(dir) ==
    [stored |-> [s \in Slots |-> Commit(dir.nodes[s], dir.stored[s])],
     nodes |-> [s \in Slots |-> [dir.nodes[s] EXCEPT !.is_dirty = FALSE]]]

-----------------------------------------------------------------------------
(* Lookups: fat12_get_file.                                                 *)

Least(slots) == IF slots = {} THEN 0 ELSE Min(slots)

\* Variant: a deleted entry ends the scan like one never used.
FindToDeleted(dir, name, short) ==
    Least({s \in Slots : \/ dir.nodes[s].state # "used"
                         \/ dir.nodes[s].name \in {name, StandardName(short)}})

\* Where the scan for a name ends, 0 past the last entry.
Find(dir, name, short) ==
    Least({s \in Slots : \/ dir.nodes[s].state = "unused"
                         \/ /\ dir.nodes[s].state = "used"
                            /\ dir.nodes[s].name \in {name, StandardName(short)}})

\* The first entry on the way that is not in use, 0 for none.
FirstAvailable(dir, name, short) ==
    Least({s \in Slots : /\ dir.nodes[s].state # "used"
                         /\ \/ Find(dir, name, short) = 0
                            \/ s <= Find(dir, name, short)})

\* fat12_create_file_node: sfn->adate is left as it is, 0.
Created(dir, s, short, attributes) ==
    LET sfn == [name |-> short, attributes |-> Translated(attributes),
                cdate |-> DateFromPosix(Now), adate |-> ZeroDate]
    IN  [stored |-> [dir.stored EXCEPT ![s] = sfn],
         nodes |-> [dir.nodes EXCEPT ![s] =
            [state |-> "used", name |-> StandardName(sfn.name), attributes |-> attributes,
             creation |-> DateToPosix(sfn.cdate), access |-> DateToPosix(sfn.adate),
             is_dirty |-> TRUE]]]

\* The directory after a lookup and the slot of the node it returns.  The short name
\* is made once for the scan and once more for a new entry.
Lookups(dir, name) ==
    {[dir |-> Flushed(dir), slot |-> Find(dir, name, short), new |-> FALSE] :
        short \in Short[name]}

LookupsOrNew(dir, name, attributes) ==
    UNION {LET s == FirstAvailable(dir, name, scan)
           IN  IF s = 0
               THEN {[dir |-> Flushed(dir), slot |-> Find(dir, name, scan), new |-> FALSE]}
               ELSE {[dir |-> Flushed(Created(dir, s, short, attributes)), slot |-> s, new |-> TRUE] :
                        short \in Short[name]}
           : scan \in Short[name]}

-----------------------------------------------------------------------------
Directory == [stored |-> stored, nodes |-> nodes]

\* The past of an entry: the month its creation date meant when the entry came to
\* be, whether this program made it, how often the date has been encoded from a
\* decoded one since, whether it would be decoded anew now, and whether the file
\* was written to.
Past(from, made, slips, fresh) ==
    [from |-> from, made |-> made, slips |-> slips, fresh |-> fresh, written |-> FALSE]

NoPast == Past(DateToPosix(ZeroDate), FALSE, 0, TRUE)

DirInit ==
    /\ \/ stored = [s \in Slots |-> NeverUsed]
       \/ \E entry \in Found : stored = [s \in Slots |-> IF s = 1 THEN entry ELSE NeverUsed]
       \/ stored = [s \in Slots |-> CASE s = 1 -> DotEntry(<<Dot>>)
                                      [] s = 2 -> DotEntry(<<Dot, Dot>>)
                                      [] OTHER -> NeverUsed]
    /\ nodes = Load(stored)
    /\ typed = {}
    /\ past = [s \in Slots |->
                 IF stored[s].cdate = ZeroDate THEN NoPast
                 ELSE Past(12 * stored[s].cdate.year + stored[s].cdate.month - 1, FALSE, 0, TRUE)]

Becomes(dir) ==
    /\ stored' = dir.stored
    /\ nodes' = dir.nodes

Name(name) == typed' = IF \A a, b \in Short[name] : a = b THEN typed \cup {name} ELSE typed

\* New entries are committed from the date decoded when they were made.
WithNew(old, got) == IF got.new THEN [old EXCEPT ![got.slot] = Past(Now, TRUE, 1, FALSE)] ELSE old

\* fat12_create_file
TouchFile(name) ==
    \E got \in LookupsOrNew(Directory, name, {}) :
        /\ got.slot # 0
        /\ Becomes(got.dir)
        /\ Name(name)
        /\ past' = WithNew(past, got)

\* vfs_write: a touch, then the lookup, the new dates and the flush of fat12_file_write.
WriteFile(name) ==
    \E touched \in LookupsOrNew(Directory, name, {}) :
    \E got \in LookupsOrNew(touched.dir, name, {}) :
        LET before == WithNew(WithNew(past, touched), got)
            old    == before[got.slot]
            slips  == IF old.fresh THEN old.slips + 1 ELSE old.slips
        IN  /\ got.slot # 0
            /\ slips <= MaxSlips
            /\ Becomes(Flushed([got.dir EXCEPT !.nodes[got.slot].is_dirty = TRUE,
                                               !.nodes[got.slot].access = Now]))
            /\ Name(name)
            /\ past' = [before EXCEPT ![got.slot] =
                    [old EXCEPT !.slips = slips, !.fresh = FALSE, !.written = TRUE]]

\* fat12_remove_file.  A name that is not there takes an entry never used.
RemoveFile(name) ==
    \E got \in Lookups(Directory, name) :
        LET s == got.slot
        IN  /\ s # 0
            /\ Becomes(Flushed([got.dir EXCEPT !.nodes[s] = [Node(Deleted) EXCEPT !.is_dirty = TRUE]]))
            /\ typed' = {other \in typed :
                            \A short \in Short[other] : Find(Directory, other, short) # s}
            /\ past' = [past EXCEPT ![s] = NoPast]

\* A directory is read when it is entered and when the volume is mounted.
LoadAll(volume, before) ==
    /\ nodes' = Load(volume)
    /\ past' = [s \in Slots |-> [before[s] EXCEPT !.fresh = TRUE]]

Reload ==
    /\ \E s \in Slots : ~past[s].fresh
    /\ LoadAll(stored, past)
    /\ UNCHANGED <<stored, typed>>

\* vfs_mkdir of one name: made when nothing has the name, and the directory is
\* read again in the end.
Mkdir(name) ==
    \E found \in Lookups(Directory, name) :
        /\ found.slot # 0
        /\ nodes[found.slot].state # "used"
        /\ \E got \in LookupsOrNew(found.dir, name, {"directory"}) :
              /\ stored' = got.dir.stored
              /\ LoadAll(got.dir.stored, WithNew(past, got))
        /\ Name(name)

DirNext ==
    \/ \E name \in Typed : TouchFile(name) \/ WriteFile(name) \/ RemoveFile(name)
    \/ \E name \in DirNames : Mkdir(name)
    \/ Reload

DirSpec == DirInit /\ [][DirNext]_dir_vars

-----------------------------------------------------------------------------
InUse(s) == NodeState(stored[s].name) = "used"

\* Between two commands a node and its entry say the same: reading the directory
\* again would change no state, name or attribute.  Except that an entry . or ..
\* that was written to has lost its name on the volume.
NamesSettle ==
    \A s \in Slots :
        LET read == Node(stored[s])
        IN  /\ nodes[s].state = read.state
            /\ ~nodes[s].is_dirty
            /\ read.state = "used" =>
                  /\ nodes[s].attributes = read.attributes
                  /\ \/ nodes[s].name = read.name
                     \/ nodes[s].name \in {<<Dot>>, <<Dot, Dot>>} /\ read.name = <<>>

\* A name that stays within its buffer is found again as long as its entry is not
\* removed, in whatever other forms it was typed and however often the directory
\* was read; and two of them share an entry only when their short names are the
\* same, as those of long names that begin alike are.
TypedNamesFound ==
    LET Where(name) == Find(Directory, name, CHOOSE short \in Short[name] : TRUE)
    IN  \A name \in typed :
            /\ Where(name) # 0 /\ InUse(Where(name))
            /\ \A other \in typed :
                  Where(other) = Where(name) => Short[other] = Short[name]

\* An entry in use keeps its attributes but for the volume and archive ones, which
\* it loses when it is written to.
AttributesKept ==
    [][\A s \in Slots :
          InUse(s) /\ InUse(s)' =>
              /\ stored[s].attributes \ {"archive", "volume_id"} \subseteq stored'[s].attributes
              /\ stored'[s].attributes \subseteq stored[s].attributes
              /\ stored'[s].attributes # stored[s].attributes =>
                    past'[s].written /\ stored'[s].adate = DateFromPosix(Now)]_dir_vars

\* On the volume a new file is one month old in advance, and another month for
\* each first write after its directory was read; its date of access is that of
\* the last write, and December 2107 while there was none.
DatesSlip ==
    \A s \in Slots : InUse(s) /\ nodes[s].name \notin {<<>>, <<Dot>>, <<Dot, Dot>>} =>
        /\ stored[s].cdate = DateFromPosix(past[s].from + past[s].slips)
        /\ past[s].made => stored[s].adate =
              (IF past[s].written THEN DateFromPosix(Now) ELSE [year |-> 127, month |-> 12])

=============================================================================
