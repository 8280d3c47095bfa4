-------------------------------- MODULE Session --------------------------------
(***************************************************************************)
(* A session of the shell: the attached device, the mounted file system    *)
(* and the import buffer, which the commands attach, init, format, mount,  *)
(* unmount, detach, import, export, touch, write and read share through    *)
(* struct shell (src/include/shell/shell.h).                               *)
(*                                                                         *)
(* What a volume holds is a map from names to files; how the driver keeps  *)
(* it there is Fat12, and where on the device is Geometry.  A volume with  *)
(* clusters has room, and a command runs to its end or ends the process.   *)
(***************************************************************************)
EXTENDS Geometry

CONSTANTS
    Devices,    \* what device_create can return
    NoDevice,
    Images,     \* host paths of disk images
    Openable,   \* those the host lets the program create
    HostFiles,  \* host paths typed to import, export and format
    Exports,    \* bound: those typed to export
    Names,      \* names of files in the root directory
    Texts,      \* contents of files
    Nothing,    \* the contents of an empty file
    Size,       \* contents -> bytes
    HostText,   \* the contents of the host's files to begin with, Missing if none
    Missing,    \* no file, no buffer, no image
    Shapes      \* bytes and sectors typed to init -b -c, 0 for an option not typed

\* Bound: no file and no image has more bytes; the program counts them in 32 bits.
MaxBytes == 2147483647

ASSUME SessionAssumption ==
    /\ NoDevice \notin Devices
    /\ Openable \subseteq Images
    /\ Missing \notin Texts
    /\ Nothing \in Texts
    /\ Size \in [Texts -> 0 .. MaxBytes] /\ Size[Nothing] = 0
    /\ HostText \in [HostFiles -> Texts \cup {Missing}]
    /\ Shapes \subseteq [bps : Nat, count : Nat]
    /\ \A shape \in Shapes :
          shape.count * (IF shape.bps = 0 THEN Floppy.bps ELSE shape.bps % 65536) <= MaxBytes

VARIABLES
    \* struct shell.
    attached,   \* attached_device
    fs,         \* device_filesystem
    buffer,     \* import_buffer, Missing for NULL
    bufferSize, \* import_buffer_size
    \* The rest of the process.
    heap,       \* the devices
    dataSize,   \* the global data_size of format.c
    \* The host.
    image,
    host,
    misused     \* history: images treated as WholeUnlessMisused excludes

process == <<attached, fs, buffer, bufferSize, heap, dataSize>>
vars    == <<process, image, host, misused>>

-----------------------------------------------------------------------------
(* Values.                                                                  *)

Default == 512      \* the sector size device_create assumes

File == [text : Texts, size : Nat]
FileOf(t) == [text |-> t, size |-> Size[t]]

\* What fat12_format_device writes to the boot sector, as far as it varies.
Bpb   == [bps : Nat, reserved : Nat, total : Nat, code : Texts \cup {Missing}]
NoBpb == [bps |-> 0, reserved |-> 0, total |-> 0, code |-> Missing]

\* Two volumes of one layout have the table and the directory in the same place.
SameLayout(b, c) == b.bps = c.bps /\ b.reserved = c.reserved

NoFiles == [n \in Names |-> Missing]

\* whole: the table and the directory are what the driver wrote, where the boot
\* sector says.  What becomes of a volume that is not is not modelled.
Volume  == [there : BOOLEAN, bytes : Nat, bpb : Bpb, files : [Names -> File \cup {Missing}],
            whole : BOOLEAN]
NoImage == [there |-> FALSE, bytes |-> 0, bpb |-> NoBpb, files |-> NoFiles, whole |-> FALSE]
Zeroed(bytes) ==
    [there |-> TRUE, bytes |-> bytes, bpb |-> NoBpb, files |-> NoFiles, whole |-> TRUE]

Media  == {"floppy", "hard disk"}
Device == [path : Images, open : BOOLEAN, sector_size : Nat \ {0}, media : Media]
Freed  == [open |-> FALSE]

\* stale: the device was initialised anew under the mounted file system, whose
\* table and nodes in memory are of the volume before.
FileSystem == [dev : Devices, bpb : Bpb, stale : BOOLEAN]
NoFs       == [stale |-> FALSE]

-----------------------------------------------------------------------------
Init ==
    /\ attached = NoDevice
    /\ fs = NoFs
    /\ buffer = Missing
    /\ bufferSize = 0
    /\ heap = [d \in Devices |-> Freed]
    /\ dataSize = 0
    /\ image = [p \in Images |-> NoImage]
    /\ host = [h \in HostFiles |->
                  IF HostText[h] = Missing THEN Missing ELSE FileOf(HostText[h])]
    /\ misused = {}

\* The process ends, by exit, a kill, a fault or a failed assertion, and is
\* started again.
Restart ==
    /\ attached' = NoDevice
    /\ fs' = NoFs
    /\ buffer' = Missing
    /\ bufferSize' = 0
    /\ heap' = [d \in Devices |-> Freed]
    /\ dataSize' = 0
    /\ UNCHANGED host

\* What ends it before anything is written: exit, a kill, a command on files with
\* no file system (an assertion), format, mount or detach on a device whose image
\* is not open, the first flush after a mount (a null pointer to fwrite).
Exit == Restart /\ UNCHANGED <<image, misused>>

-----------------------------------------------------------------------------
(* Devices: src/shell/attach.c, src/shell/init.c, src/device/virtual.c.     *)

Mounted == fs # NoFs
Exists(p) == image[p].there
Path(d) == heap[d].path

\* device_total_sectors
Sectors(d) == image[Path(d)].bytes \div heap[d].sector_size

\* Variant: the sector size is that of the device attached before.
CreateInherits(d, p, media) ==
    heap' = [heap EXCEPT ![d] = [path |-> p, open |-> Exists(p), media |-> media,
                sector_size |-> IF attached = NoDevice THEN Default
                                ELSE heap[attached].sector_size]]

\* device_create.  A device that another attach replaces is never freed; nothing
\* reaches it any more, so it is forgotten here.
Create(d, p, media) ==
    heap' = [x \in Devices |->
                IF x = d THEN [path |-> p, open |-> Exists(p),
                               sector_size |-> Default, media |-> media]
                ELSE IF Mounted /\ x = fs.dev THEN heap[x] ELSE Freed]

\* shell_attach; no_exist is its flag -c.
Attach(p, media, no_exist) ==
    /\ ~(attached # NoDevice /\ Mounted)
    /\ no_exist => ~Exists(p)
    /\ \E d \in Devices \ {attached} :
          /\ Mounted => d # fs.dev
          /\ Create(d, p, media)
          /\ attached' = d
    /\ misused' = IF image[p].bpb.bps \in {0, Default} THEN misused ELSE misused \cup {p}
    /\ UNCHANGED <<fs, buffer, bufferSize, dataSize, image, host>>

\* Variant: the check for a mounted file system is missing.
DetachMounted ==
    /\ attached # NoDevice
    /\ heap' = [heap EXCEPT ![attached] = Freed]
    /\ attached' = NoDevice
    /\ UNCHANGED <<fs, buffer, bufferSize, dataSize, image, host, misused>>

\* shell_detach.
Detach ==
    /\ attached # NoDevice
    /\ ~Mounted
    /\ heap' = [heap EXCEPT ![attached] = Freed]
    /\ attached' = NoDevice
    /\ UNCHANGED <<fs, buffer, bufferSize, dataSize, image, host, misused>>

\* What shell_init_dev arrives at from what was typed, in 16 and in 32 bits.
BytesPerSector(shape) ==
    IF shape.bps = 0 /\ heap[attached].media = "floppy" THEN Floppy.bps ELSE shape.bps % 65536

SectorCount(shape) ==
    IF shape.count = 0 /\ heap[attached].media = "floppy" THEN Floppy.count ELSE shape.count

\* shell_init_dev and device_init: a mounted file system is not asked.
InitDevice(shape) ==
    /\ attached # NoDevice
    /\ BytesPerSector(shape) # 0 /\ SectorCount(shape) # 0
    /\ LET p     == Path(attached)
           bytes == BytesPerSector(shape) * SectorCount(shape)
       IN  /\ heap' = [heap EXCEPT ![attached] =
                        [path |-> p, open |-> p \in Openable,
                         sector_size |-> BytesPerSector(shape), media |-> @.media]]
           /\ image' = IF p \in Openable THEN [image EXCEPT ![p] = Zeroed(bytes)] ELSE image
           /\ misused' = IF Mounted THEN misused \cup {p} ELSE misused \ {p}
    /\ fs' = IF Mounted THEN [fs EXCEPT !.stale = TRUE] ELSE fs
    /\ UNCHANGED <<attached, buffer, bufferSize, dataSize, host>>

-----------------------------------------------------------------------------
(* Formatting: src/shell/format.c, fat12_format_device.                     *)

NotTyped == "not typed"
Typed == HostFiles \cup {NotTyped}

\* shell_format_import: the size of a file that is not there is the one before.
SizeAfter(h, before) ==
    IF h = NotTyped \/ host[h] = Missing THEN before ELSE host[h].size

BootText(h) == IF h = NotTyped \/ host[h] = Missing THEN Missing ELSE host[h].text

\* Sectors of 512 bytes, whatever the device has, in an argument of 16 bits.
ReservedSectors(h, before) ==
    IF h = NotTyped THEN 0 ELSE ((SizeAfter(h, before) + 511) \div 512) % 65536

\* A boot sector that is not as large as a sector is refused.
RefuseFormat(boot) ==
    /\ attached # NoDevice
    /\ boot # NotTyped
    /\ SizeAfter(boot, dataSize) # heap[attached].sector_size
    /\ dataSize' = SizeAfter(boot, dataSize)
    /\ UNCHANGED <<attached, fs, buffer, bufferSize, heap, image, host, misused>>

Formatted(v, bpb, kept) == [v EXCEPT !.bpb = bpb, !.whole = v.whole /\ kept]

\* fat12_format_device: the boot sector and the reserved sectors, nothing else.  With
\* no reserved sector at all the table begins on the boot sector.
WriteBootSector(p, bpb) ==
    LET old  == image[p].bpb
        kept == bpb.reserved # 0 /\ (old = NoBpb \/ SameLayout(old, bpb))
    IN  /\ image' = [image EXCEPT ![p] = Formatted(image[p], bpb, kept)]
        /\ misused' = IF kept THEN misused ELSE misused \cup {p}

\* What is formatted, and whether the process ends on the reserved sectors: the
\* device is too small for them, or their data is NULL or shorter than they are.
Format(boot, reserved) ==
    LET bps    == heap[attached].sector_size
        middle == SizeAfter(boot, dataSize)
        n      == ReservedSectors(reserved, middle)
        fits   == n > 0 => InReach(1, n, Sectors(attached))
    IN  /\ attached # NoDevice
        /\ heap[attached].open
        /\ Sectors(attached) > 0
        /\ reserved # NotTyped => boot # NotTyped
        /\ boot # NotTyped => middle = bps
        /\ WriteBootSector(Path(attached),
                           [bps |-> bps, reserved |-> (1 + n) % 65536,
                            total |-> TotalSectors16(Sectors(attached)), code |-> BootText(boot)])
        /\ \/ /\ fits
              /\ dataSize' = SizeAfter(reserved, middle)
              /\ UNCHANGED <<attached, fs, buffer, bufferSize, heap, host>>
           \/ /\ \/ ~fits
                 \/ n > 0 /\ (host[reserved] # Missing => host[reserved].size < n * bps)
              /\ Restart

-----------------------------------------------------------------------------
(* Mounting: src/shell/mount.c, src/vfs/vfs.c, fat12_test and fat12_mount.   *)

\* What vfs_mount is faced with.
Formatted12(d) == image[Path(d)].bpb # NoBpb /\ Recognised(image[Path(d)].bpb)

\* Variant: a device that is not attached is not noticed.
MountUnchecked ==
    /\ attached # NoDevice => heap[attached].open
    /\ fs' = [dev |-> attached, stale |-> FALSE,
              bpb |-> IF attached = NoDevice THEN NoBpb ELSE image[Path(attached)].bpb]
    /\ UNCHANGED <<attached, buffer, bufferSize, heap, dataSize, image, host, misused>>

\* Variant: the directory is loaded by the first command that needs it.
MountUnread ==
    /\ attached # NoDevice /\ heap[attached].open /\ Formatted12(attached)
    /\ fs' = [dev |-> attached, bpb |-> image[Path(attached)].bpb, stale |-> FALSE]
    /\ UNCHANGED <<attached, buffer, bufferSize, heap, dataSize, image, host, misused>>

\* shell_mount of a device with a volume: the root directory is loaded, and was the
\* file system mounted before, it is forgotten.
Mount ==
    /\ attached # NoDevice /\ heap[attached].open
    /\ Sectors(attached) > 0 /\ Formatted12(attached)
    /\ RootLoads(image[Path(attached)].bpb, Sectors(attached))
    /\ fs' = [dev |-> attached, bpb |-> image[Path(attached)].bpb, stale |-> FALSE]
    /\ UNCHANGED <<attached, buffer, bufferSize, heap, dataSize, image, host, misused>>

\* Without a device, a boot sector or a volume of the right size vfs_mount returns
\* NULL, and that is what is mounted from then on.
MountNothing ==
    /\ attached # NoDevice =>
          heap[attached].open /\ Sectors(attached) > 0 /\ ~Formatted12(attached)
    /\ fs' = NoFs
    /\ UNCHANGED <<attached, buffer, bufferSize, heap, dataSize, image, host, misused>>

\* An assertion fails, or the entries read go beyond the sectors read, which are
\* those of the device.
MountAborts ==
    /\ attached # NoDevice /\ heap[attached].open
    /\ \/ Sectors(attached) = 0
       \/ /\ Formatted12(attached)
          /\ LET bpb == image[Path(attached)].bpb
             IN  ~RootLoads(bpb, Sectors(attached)) \/ bpb.bps > heap[attached].sector_size
    /\ Restart
    /\ UNCHANGED <<image, misused>>

\* shell_unmount
Unmount ==
    /\ fs' = NoFs
    /\ UNCHANGED <<attached, buffer, bufferSize, heap, dataSize, image, host, misused>>

-----------------------------------------------------------------------------
(* Files: the commands on a mounted file system, which assert that it is.   *)

Here == Path(fs.dev)

\* What the driver holds in memory is of the volume on the image, and the
\* sectors of the one are those of the other.
Agrees ==
    /\ ~fs.stale
    /\ image[Here].whole
    /\ SameLayout(fs.bpb, image[Here].bpb)
    /\ fs.bpb.bps = heap[fs.dev].sector_size

Stored(v, n, f) == [v EXCEPT !.files[n] = f]
Broken(v) == [v EXCEPT !.whole = FALSE]

\* Every command flushes the table and the directory, to where the file system
\* has them.
Keep(n, f) ==
    /\ FlushReaches(fs.bpb, Sectors(fs.dev))
    /\ image' = [image EXCEPT ![Here] = IF Agrees THEN Stored(image[Here], n, f)
                                        ELSE Broken(image[Here])]

\* A flush that goes beyond the device, whose shape has changed under the file
\* system: nothing is written, or a part of it where it does not belong.
FlushAborts ==
    /\ Mounted
    /\ ~FlushReaches(fs.bpb, Sectors(fs.dev))
    /\ image' \in {image, [image EXCEPT ![Here] = Broken(image[Here])]}
    /\ Restart
    /\ UNCHANGED misused

Touched(n) ==
    IF image[Here].files[n] = Missing THEN FileOf(Nothing) ELSE image[Here].files[n]

\* shell_touch
Touch(n) ==
    /\ Mounted
    /\ Keep(n, Touched(n))
    /\ UNCHANGED <<process, host, misused>>

Cramped ==
    \/ ~HasClusters(fs.bpb, Sectors(fs.dev))
    \/ bufferSize > TableClusters(fs.bpb) * fs.bpb.bps

\* shell_write.
Write(n) ==
    /\ Mounted /\ ~Cramped
    /\ buffer # Missing \/ bufferSize = 0
    /\ Keep(n, [text |-> IF buffer = Missing THEN Nothing ELSE buffer, size |-> bufferSize])
    /\ UNCHANGED <<process, host, misused>>

\* A size without a buffer or beyond the table, or a device that ends with the root
\* directory: the file is touched, its chain changed in memory, and the first copy from
\* the NULL buffer faults, there is no free cluster left, or the first one written fails
\* an assertion.
WriteNothing(n) ==
    /\ Mounted
    /\ Cramped \/ (buffer = Missing /\ bufferSize > 0)
    /\ Keep(n, Touched(n))
    /\ Restart
    /\ UNCHANGED misused

\* Variant: the size is that of the buffer before.
ReadKeepsSize(n) ==
    /\ Mounted
    /\ Agrees /\ image[Here].files[n] # Missing
    /\ buffer' = image[Here].files[n].text
    /\ UNCHANGED <<attached, fs, bufferSize, heap, dataSize, image, host, misused>>

\* shell_read.  A name that is not there reads as empty.  From a volume that does
\* not agree something is read, in a buffer of its size.
Read(n) ==
    /\ Mounted
    /\ \E t \in Texts :
          LET f == IF image[Here].files[n] = Missing THEN FileOf(Nothing)
                   ELSE image[Here].files[n]
          IN  /\ buffer' = IF Agrees THEN f.text ELSE t
              /\ bufferSize' = IF Agrees THEN f.size ELSE Size[t]
    /\ Keep(n, image[Here].files[n])
    /\ UNCHANGED <<attached, fs, heap, dataSize, host, misused>>

-----------------------------------------------------------------------------
(* The buffer: src/shell/import.c, src/shell/export.c.                      *)

\* shell_import.  A file that cannot be opened leaves no buffer and the size of
\* the one before.
Import(h) ==
    /\ buffer' = IF host[h] = Missing THEN Missing ELSE host[h].text
    /\ bufferSize' = IF host[h] = Missing THEN bufferSize ELSE host[h].size
    /\ UNCHANGED <<attached, fs, heap, dataSize, image, host, misused>>

\* shell_export
Export(h) ==
    /\ buffer # Missing
    /\ host' = [host EXCEPT ![h] = [text |-> buffer, size |-> bufferSize]]
    /\ UNCHANGED <<process, image, misused>>

-----------------------------------------------------------------------------
Next ==
    \/ \E p \in Images, media \in Media, no_exist \in BOOLEAN : Attach(p, media, no_exist)
    \/ Detach
    \/ \E shape \in Shapes : InitDevice(shape)
    \/ \E boot \in Typed : RefuseFormat(boot)
    \/ \E boot, reserved \in Typed : Format(boot, reserved)
    \/ Mount \/ MountNothing \/ MountAborts
    \/ Unmount
    \/ \E n \in Names : Touch(n) \/ Write(n) \/ WriteNothing(n) \/ Read(n)
    \/ FlushAborts
    \/ \E h \in HostFiles : Import(h)
    \/ \E h \in Exports : Export(h)
    \/ Exit

Spec == Init /\ [][Next]_vars

-----------------------------------------------------------------------------
TypeOK ==
    /\ attached \in Devices \cup {NoDevice}
    /\ fs \in FileSystem \cup {NoFs}
    /\ buffer \in Texts \cup {Missing}
    /\ bufferSize \in Nat
    /\ heap \in [Devices -> Device \cup {Freed}]
    /\ dataSize \in Nat
    /\ image \in [Images -> Volume]
    /\ host \in [HostFiles -> File \cup {Missing}]
    /\ misused \subseteq Images

\* A mounted file system stands on the attached device, which has not been freed
\* and whose image is open and there, whatever was attached, initialised, mounted
\* or detached before: the commands of the file system use the device unasked.
MountedDeviceAlive ==
    Mounted =>
        /\ attached = fs.dev
        /\ heap[attached] # Freed
        /\ heap[attached].open
        /\ Exists(Path(attached))

\* The size that travels beside a text is that of the text, from the host through
\* the buffer to the volume and back, although buffer and size are set apart and
\* an import that fails leaves the old size.
SizesAgree ==
    /\ buffer # Missing => bufferSize = Size[buffer]
    /\ \A h \in HostFiles : host[h] # Missing => host[h].size = Size[host[h].text]
    /\ \A p \in Images, n \in Names :
          image[p].files[n] # Missing => image[p].files[n].size = Size[image[p].files[n].text]

\* A volume stays whole through any sequence of sessions but for four things, none
\* of which the program refuses: initialising a device under its file system,
\* formatting a formatted volume to another layout, attaching an image of sectors
\* that do not have 512 bytes, and formatting with a file of 65535 sectors, which
\* with the boot sector are none in 16 bits.
WholeUnlessMisused ==
    \A p \in Images : Exists(p) /\ p \notin misused => image[p].whole

\* The tables and the root directory a mounted file system writes back are on the
\* device, so that no flush fails an assertion with the table half written, unless the
\* device was initialised anew under the file system.
FlushOnDevice == Mounted /\ ~fs.stale => FlushReaches(fs.bpb, Sectors(fs.dev))

\* A volume mounts in sectors of its own size: fat12_test and the assertions let it.
Mounts(p) ==
    LET bpb == image[p].bpb
    IN  Recognised(bpb) /\ RootLoads(bpb, image[p].bytes \div bpb.bps)

\* A file once stored is not lost to the session after: the volume it is on can be
\* mounted, whatever was formatted, initialised or mounted since, but for the misuses.
FilesMount ==
    \A p \in Images \ misused :
        (\E n \in Names : image[p].files[n] # Missing) => Mounts(p)

\* A device mounts once formatted exactly when the root directory fills its sectors and
\* there are from 1 to 4084 behind it, through all the arithmetic in 16 and 32 bits; but
\* for devices of 65536 sectors and more, of which fat12_test sees the remainder, for
\* sectors that are no multiple of an entry, and for a volume that is no longer whole,
\* whose boot sector may have been written over.
FormattedMounts ==
    \A p \in Images :
        LET bpb     == image[p].bpb
            sectors == image[p].bytes \div bpb.bps
            areas   == bpb.reserved + 18 + 7168 \div bpb.bps
        IN  image[p].whole /\ bpb # NoBpb /\ bpb.bps % EntryBytes = 0 /\ sectors < 65536 =>
                (Mounts(p) <=> 7168 % bpb.bps = 0 /\ areas < sectors /\ sectors <= areas + 4084)

-----------------------------------------------------------------------------
\* "If the boot sector has been provided, then carve out the code portion of it."
\* (fat12_format_device): a boot sector whose file is not there is refused for its
\* size, and not passed over because the one before was as large as a sector.
MissingBootRefused ==
    attached # NoDevice =>
        \A h \in HostFiles :
            host[h] = Missing => SizeAfter(h, dataSize) # heap[attached].sector_size

=============================================================================
