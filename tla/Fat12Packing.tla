---------------------------- MODULE Fat12Packing ----------------------------
(***************************************************************************)
(* The bytes of the file allocation table: fat12_fat_table_entry and       *)
(* fat12_fat_table_set_entry (src/fat/fat12.c).  Two 12-bit entries share  *)
(* three bytes and both write into the middle one.  The other modules take *)
(* the table as a function from clusters to entries; this one shows that   *)
(* the bytes are one.                                                      *)
(***************************************************************************)
EXTENDS FatTable, Integers

CONSTANT TableBytes     \* fat12_fat_size in bytes

\* fat12_first_available_cluster looks at TableBytes / 3 entries.
ASSUME TableBytesAssumption ==
    TableBytes \in Nat /\ LastCluster = (TableBytes \div 3) - 1

VARIABLES
    fat_data,   \* the bytes
    table       \* history: what was last set for each cluster

vars == <<fat_data, table>>

Offsets == 0..(TableBytes - 1)
Byte    == 0..255
Word    == 0..4095
Bytes   == [Offsets -> Byte]

\* The numbers the driver asks for, those that have no entry included.
Numbers == Clusters \cup {RootCluster, 1, Eof}

-----------------------------------------------------------------------------
HasEntry(c) == c >= 2 /\ c # Eof

\* The first of the three bytes that hold the entry of c and that of its twin.
Offset(c) == 3 * (c \div 2)

\* 16-bit arithmetic; x & 0xF0 and x & 0x0F are the two halves of a byte.
High(byte) == byte \div 16
Low(byte)  == byte % 16

Join(high, low) == 16 * high + low

\* fat12_fat_table_entry
Entry(bytes, c) ==
    LET off == Offset(c)
    IN  IF ~HasEntry(c) THEN Eof
        ELSE IF c % 2 = 0 THEN bytes[off] + 256 * Low(bytes[off + 1])
        ELSE High(bytes[off + 1]) + 16 * bytes[off + 2]

\* Variant: the middle byte is not masked before its upper half is set.
SetBytesUnmasked(bytes, c, value) ==
    LET off == Offset(c)
        mid == bytes[off + 1]
    IN  IF ~HasEntry(c) THEN bytes
        ELSE IF c % 2 = 0
        THEN [bytes EXCEPT ![off] = value % 256, ![off + 1] = Join(High(mid), value \div 256)]
        ELSE [bytes EXCEPT ![off + 1] = Join(value % 16, mid), ![off + 2] = value \div 16]

\* Variant: the middle byte is written whole.
SetBytesWhole(bytes, c, value) ==
    LET off == Offset(c)
        mid == bytes[off + 1]
    IN  IF ~HasEntry(c) THEN bytes
        ELSE IF c % 2 = 0
        THEN [bytes EXCEPT ![off] = value % 256, ![off + 1] = value \div 256]
        ELSE [bytes EXCEPT ![off + 1] = Join(value % 16, Low(mid)), ![off + 2] = value \div 16]

\* fat12_fat_table_set_entry, for a value of 12 bits.
SetBytes(bytes, c, value) ==
    LET off == Offset(c)
        mid == bytes[off + 1]
    IN  IF ~HasEntry(c) THEN bytes
        ELSE IF c % 2 = 0
        THEN [bytes EXCEPT ![off] = value % 256, ![off + 1] = Join(High(mid), value \div 256)]
        ELSE [bytes EXCEPT ![off + 1] = Join(value % 16, Low(mid)), ![off + 2] = value \div 16]

-----------------------------------------------------------------------------
Init ==
    /\ fat_data = [i \in Offsets |-> 0]
    /\ table = EmptyTable

Set(c, value) ==
    /\ fat_data' = SetBytes(fat_data, c, value)
    /\ table' = SetEntry(table, c, value)

Next == \E c \in Numbers, value \in Link : Set(c, value)

Spec == Init /\ [][Next]_vars

-----------------------------------------------------------------------------
\* The bytes are bytes.
TypeOK ==
    /\ fat_data \in Bytes
    /\ table \in Table

\* After any sequence of writes every entry reads back as what was last written
\* to it, whatever was written to its twin, and the numbers that have no entry
\* read as the end of a chain.
ReadsBack == \A c \in Numbers : Entry(fat_data, c) = NextCluster(table, c)

=============================================================================
