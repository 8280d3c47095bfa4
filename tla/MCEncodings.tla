------------------------------ MODULE MCEncodings ------------------------------
(***************************************************************************)
(* The two encodings of the driver for TLC: the bytes of the table, and    *)
(* the entries of a directory.  They have nothing in common, so each moves *)
(* while the other is where it starts.                                     *)
(***************************************************************************)
EXTENDS Fat12Packing, DirEntry

EncodingsInit == Init /\ DirInit

TableMoves ==
    /\ stored = [s \in Slots |-> NeverUsed] /\ typed = {}
    /\ Next
    /\ UNCHANGED dir_vars

DirectoryMoves ==
    /\ table = EmptyTable
    /\ DirNext
    /\ UNCHANGED vars

EncodingsNext == TableMoves \/ DirectoryMoves

EncodingsSpec == EncodingsInit /\ [][EncodingsNext]_<<vars, dir_vars>>

-----------------------------------------------------------------------------
\* Two long names that begin alike, one typed in lower case with a sign that is
\* replaced, one with two extensions, one of the directory itself, and one that is
\* shorter than it looks.
Long  == <<"l", "e", "t", "t", "e", "r", "s", "_", "1">>
Alike == <<"L", "E", "T", "T", "E", "R", "-", "t", "o">>
MCTyped ==
    {Long, Alike, <<"a", "+", ".", "t", "a", "r", ".", "g", "z">>, <<Dot>>, <<"a", Space, "b">>}

MCDirNames == {<<"a", "_">>}

MCNow == 12 * 44 + 10       \* November 2024

OfAnother(name, attributes, month) ==
    [name |-> Padded(name, 11), attributes |-> attributes,
     cdate |-> [year |-> 40, month |-> month], adate |-> [year |-> 40, month |-> month]]

MCFound ==
    {OfAnother(<<"L", "E", "T", "T", "E", "R", "~", "1">>, {"hidden", "system", "archive"}, 12),
     OfAnother(<<"A", "_">>, {"readonly", "volume_id"}, 1)}

MCBeyond == {"0", "Z"}
=============================================================================
