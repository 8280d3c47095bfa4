-------------------------------- MODULE Geometry --------------------------------
(***************************************************************************)
(* Where a FAT12 volume keeps its table, its root directory and its        *)
(* clusters, computed from the boot sector (src/fat/fat12.c), and which    *)
(* volumes fat12_test and vfs_mount accept.  Sectors are counted in those  *)
(* of the boot sector; every volume has two tables of nine sectors, one    *)
(* sector in a cluster and a root directory of 224 entries, as             *)
(* fat12_format_device makes it.                                           *)
(***************************************************************************)
EXTENDS Naturals

Floppy == [bps |-> 512, count |-> 2880]     \* FLOPPY_DEFAULT_BPS, FLOPPY_DEFAULT_SECTORS

TableCount       == 2
SectorsPerFat    == 9
DirectoryEntries == 224
EntryBytes       == 32
MaxClusters12    == 4085    \* a volume of as many clusters is not FAT12

\* The fields that vary.  total is of 16 bits.
Layout == [bps : Nat, reserved : Nat, total : Nat]

FatStart(bpb, n) == bpb.reserved + n * SectorsPerFat
RootStart(bpb)   == FatStart(bpb, 0) + TableCount * SectorsPerFat

\* Variant: what does not fill a sector is left out.
RootSizeDown(bpb) == (DirectoryEntries * EntryBytes) \div bpb.bps

RootSize(bpb) == (DirectoryEntries * EntryBytes + bpb.bps - 1) \div bpb.bps

DataStart(bpb) == RootStart(bpb) + RootSize(bpb)

SectorForCluster(bpb, c) == IF c = 0 THEN RootStart(bpb) ELSE DataStart(bpb) + (c - 2)

\* total_sectors_16
TotalSectors16(sectors) == sectors % 65536

\* fat12_test, for a boot sector that was written.  The unsigned difference of
\* fat12_data_size is near 2^32, and no volume, when the areas exceed the total.
Recognised(bpb) ==
    bpb.total >= DataStart(bpb) /\ bpb.total - DataStart(bpb) < MaxClusters12

\* The asserts of device_read_sectors and device_write_sectors, which refuse the
\* last sector of a device.
InReach(start, n, sectors) == start < sectors /\ start + n < sectors

\* fat12_first_available_cluster looks at no more.
TableClusters(bpb) == (SectorsPerFat * bpb.bps) \div 3

\* The first cluster can be read and written.
HasClusters(bpb, sectors) == InReach(SectorForCluster(bpb, 2), 1, sectors)

\* fat12_load_directory makes a node of every entry the sectors have room for.
EntriesRead(bpb) == (RootSize(bpb) * bpb.bps) \div EntryBytes

\* The asserts on the way of fat12_load_directory hold for the root directory.
RootLoads(bpb, sectors) ==
    /\ InReach(RootStart(bpb), RootSize(bpb), sectors)
    /\ EntriesRead(bpb) <= DirectoryEntries

\* fat12_flush writes both tables and, in the root directory, its sectors.
FlushReaches(bpb, sectors) ==
    /\ \A n \in 0 .. TableCount - 1 : InReach(FatStart(bpb, n), SectorsPerFat, sectors)
    /\ InReach(RootStart(bpb), RootSize(bpb), sectors)
=================================================================================
