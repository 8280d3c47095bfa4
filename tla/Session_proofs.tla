---------------------------- MODULE Session_proofs ----------------------------
(***************************************************************************)
(* Theorems about a session, for any images, files, contents and device    *)
(* shapes.                                                                 *)
(***************************************************************************)
EXTENDS Session, TLAPS

-----------------------------------------------------------------------------
(* The strengthening: what each command needs to find for the next one to    *)
(* find a device that is alive.                                              *)

\* The attached device has not been freed; an open one has an image; an image is
\* where the host lets the program make one, so init opens it again.
DevicesInv ==
    /\ attached # NoDevice => heap[attached] \in Device
    /\ attached # NoDevice => (heap[attached].open => Exists(Path(attached)))
    /\ \A p \in Images : Exists(p) => p \in Openable
    /\ MountedDeviceAlive

SessionInv == TypeOK /\ DevicesInv

LEMMA Sentinels == NoFs \notin FileSystem /\ Freed \notin Device
BY DEF NoFs, FileSystem, Freed, Device

LEMMA NoBpbType == NoBpb \in Bpb
BY DEF NoBpb, Bpb

LEMMA NoFilesType == NoFiles \in [Names -> File \cup {Missing}]
BY DEF NoFiles

LEMMA ZeroedType == NoImage \in Volume /\ \A bytes \in Nat : Zeroed(bytes) \in Volume
BY NoBpbType, NoFilesType DEF Zeroed, NoImage, Volume

\* No sector has 0 bytes.
LEMMA SectorsType ==
    ASSUME SessionInv, attached # NoDevice
    PROVE  /\ attached \in Devices /\ heap[attached] \in Device
           /\ Path(attached) \in Images
           /\ Sectors(attached) \in Nat
<1>1. attached \in Devices /\ heap[attached] \in Device
  BY DEF SessionInv, TypeOK, DevicesInv
<1>2. Path(attached) \in Images /\ heap[attached].sector_size \in Nat \ {0}
  BY <1>1 DEF Path, Device
<1>3. image[Path(attached)].bytes \in Nat
  BY <1>2 DEF SessionInv, TypeOK, Volume
<1> QED
  BY <1>1, <1>2, <1>3 DEF Sectors

LEMMA FileOfType == ASSUME NEW t \in Texts PROVE FileOf(t) \in File
BY SessionAssumption DEF FileOf, File

LEMMA InitInv == Init => SessionInv
<1> SUFFICES ASSUME Init PROVE SessionInv
  OBVIOUS
<1>1. host \in [HostFiles -> File \cup {Missing}]
  BY SessionAssumption, FileOfType DEF Init
<1>2. TypeOK
  BY <1>1, ZeroedType DEF Init, TypeOK
<1>3. DevicesInv
  BY DEF Init, DevicesInv, MountedDeviceAlive, Mounted, Exists, NoImage
<1> QED
  BY <1>2, <1>3 DEF SessionInv

\* What is known while a file system is mounted.
LEMMA WhileMounted ==
    ASSUME SessionInv, Mounted
    PROVE  /\ fs \in FileSystem
           /\ attached = fs.dev /\ attached \in Devices /\ attached # NoDevice
           /\ heap[attached] \in Device /\ heap[attached].open
           /\ Path(attached) \in Images /\ Exists(Path(attached))
           /\ Path(attached) \in Openable
<1>1. fs \in FileSystem
  BY DEF SessionInv, TypeOK, Mounted
<1>2. attached = fs.dev /\ attached \in Devices /\ attached # NoDevice
  BY <1>1, SessionAssumption DEF SessionInv, DevicesInv, MountedDeviceAlive, FileSystem
<1>3. heap[attached] \in Device
  BY <1>2 DEF SessionInv, DevicesInv
<1> QED
  BY <1>1, <1>2, <1>3 DEF SessionInv, DevicesInv, MountedDeviceAlive, Path, Device

-----------------------------------------------------------------------------
(* The commands, one lemma each where there is something to say.             *)

\* Whatever was written before, a restart leaves nothing attached or mounted.
LEMMA RestartInv ==
    ASSUME SessionInv, Restart, misused' \subseteq Images, image' \in [Images -> Volume],
           \A p \in Images : image'[p].there => image[p].there
    PROVE  SessionInv'
<1>1. TypeOK'
  BY DEF Restart, SessionInv, TypeOK
<1>2. DevicesInv'
  BY DEF Restart, SessionInv, DevicesInv, MountedDeviceAlive, Mounted, Exists, Path
<1> QED
  BY <1>1, <1>2 DEF SessionInv

\* A command that leaves the devices and the file system alone, and makes no image.
LEMMA QuietInv ==
    ASSUME SessionInv, UNCHANGED <<attached, fs, heap>>,
           buffer' \in Texts \cup {Missing}, bufferSize' \in Nat, dataSize' \in Nat,
           host' \in [HostFiles -> File \cup {Missing}], misused' \subseteq Images,
           image' \in [Images -> Volume],
           \A p \in Images : image'[p].there = image[p].there
    PROVE  SessionInv'
<1>1. TypeOK'
  BY DEF SessionInv, TypeOK
<1>2. attached # NoDevice => heap[attached].path \in Images
  BY DEF SessionInv, TypeOK, DevicesInv, Device
<1>3. DevicesInv'
  <2>1. (Mounted <=> Mounted') /\ Path(attached)' = Path(attached)
    BY DEF Mounted, Path
  <2>2. attached # NoDevice => (Exists(Path(attached)) <=> Exists(Path(attached))')
    BY <1>2, <2>1 DEF Exists, Path
  <2>3. MountedDeviceAlive'
    BY WhileMounted, <2>1, <2>2, Sentinels DEF MountedDeviceAlive
  <2> QED
    BY <2>1, <2>2, <2>3 DEF SessionInv, DevicesInv, Exists
<1> QED
  BY <1>1, <1>3 DEF SessionInv

LEMMA AttachInv ==
    ASSUME SessionInv, NEW p \in Images, NEW media \in Media, NEW no_exist \in BOOLEAN,
           Attach(p, media, no_exist)
    PROVE  SessionInv'
<1> DEFINE dev == [path |-> p, open |-> Exists(p), sector_size |-> Default, media |-> media]
<1>1. ~Mounted
  BY WhileMounted DEF Attach
<1>2. dev \in Device
  BY DEF Device, Exists, SessionInv, TypeOK, Volume, Default
<1>3. PICK d \in Devices : Create(d, p, media) /\ attached' = d
  BY DEF Attach
<1>4. heap' \in [Devices -> Device \cup {Freed}] /\ heap'[attached'] = dev /\ attached' \in Devices
  BY <1>1, <1>2, <1>3 DEF Create
<1>5. TypeOK'
  BY <1>4 DEF Attach, SessionInv, TypeOK
<1>6. DevicesInv'
  BY <1>1, <1>2, <1>4 DEF Attach, SessionInv, DevicesInv, MountedDeviceAlive, Mounted, Exists, Path
<1> QED
  BY <1>5, <1>6 DEF SessionInv

LEMMA DetachInv == ASSUME SessionInv, Detach PROVE SessionInv'
<1>1. TypeOK'
  BY DEF Detach, SessionInv, TypeOK
<1>2. DevicesInv'
  BY DEF Detach, SessionInv, DevicesInv, MountedDeviceAlive, Mounted, Exists, Path
<1> QED
  BY <1>1, <1>2 DEF SessionInv

LEMMA InitDeviceInv ==
    ASSUME SessionInv, NEW shape \in Shapes, InitDevice(shape)
    PROVE  SessionInv'
<1> DEFINE p == Path(attached)
           bytes == BytesPerSector(shape) * SectorCount(shape)
           dev == [path |-> p, open |-> p \in Openable,
                   sector_size |-> BytesPerSector(shape), media |-> heap[attached].media]
<1>1. attached \in Devices /\ heap[attached] \in Device
  BY DEF InitDevice, SessionInv, TypeOK, DevicesInv
<1>2. p \in Images
  BY <1>1 DEF Path, Device
<1>3. BytesPerSector(shape) \in Nat \ {0} /\ bytes \in Nat
  <2>1. shape.bps \in Nat /\ shape.count \in Nat
    BY SessionAssumption
  <2>2. BytesPerSector(shape) \in Nat /\ SectorCount(shape) \in Nat
    BY <2>1 DEF BytesPerSector, SectorCount, Floppy
  <2> QED
    BY <2>2 DEF InitDevice
<1>4. dev \in Device /\ dev.path = p /\ dev.open = (p \in Openable)
  BY <1>1, <1>2, <1>3 DEF Device
<1>5. heap' = [heap EXCEPT ![attached] = dev]
  BY <1>1 DEF InitDevice, SessionInv, TypeOK
<1> HIDE DEF dev
<1>6. image' \in [Images -> Volume] /\ \A q \in Images : image'[q].there <=>
          image[q].there \/ (q = p /\ p \in Openable)
  <2>1. image' = IF p \in Openable THEN [image EXCEPT ![p] = Zeroed(bytes)] ELSE image
    BY DEF InitDevice
  <2>2. Zeroed(bytes) \in Volume /\ Zeroed(bytes).there
    BY <1>3, ZeroedType DEF Zeroed
  <2> HIDE DEF bytes
  <2> QED
    BY <1>2, <2>1, <2>2 DEF SessionInv, TypeOK
<1>7. fs' \in FileSystem \cup {NoFs} /\ (fs' = NoFs <=> fs = NoFs) /\ (Mounted => fs'.dev = fs.dev)
  BY Sentinels DEF InitDevice, SessionInv, TypeOK, Mounted, FileSystem
<1>8. TypeOK'
  BY <1>1, <1>2, <1>4, <1>5, <1>6, <1>7 DEF InitDevice, SessionInv, TypeOK
<1>9. heap'[attached'] = dev /\ attached' = attached
  BY <1>1, <1>5 DEF InitDevice, SessionInv, TypeOK
<1>10. Mounted => p \in Openable
  BY WhileMounted
<1>11. DevicesInv'
  BY <1>2, <1>4, <1>6, <1>7, <1>9, <1>10, Sentinels
     DEF SessionInv, DevicesInv, MountedDeviceAlive, Mounted, Exists, Path
<1> QED
  BY <1>8, <1>11 DEF SessionInv

\* The image of a volume whose boot sector is written stays a volume, and no image
\* comes into being.
LEMMA WriteBootSectorType ==
    ASSUME SessionInv, NEW p \in Images, NEW bpb \in Bpb, WriteBootSector(p, bpb)
    PROVE  /\ image' \in [Images -> Volume]
           /\ \A q \in Images : image'[q].there = image[q].there
           /\ misused' \subseteq Images
<1>1. image \in [Images -> Volume] /\ misused \subseteq Images
  BY DEF SessionInv, TypeOK
<1>2. PICK kept \in BOOLEAN : image' = [image EXCEPT ![p] = Formatted(image[p], bpb, kept)]
  BY DEF WriteBootSector, SameLayout
<1>3. (image[p].whole /\ kept) \in BOOLEAN
  OBVIOUS
<1>4. Formatted(image[p], bpb, kept) \in Volume
  BY <1>1, <1>3 DEF Formatted, Volume
<1>5. Formatted(image[p], bpb, kept).there = image[p].there
  BY <1>1 DEF Formatted, Volume
<1>6. misused' \subseteq Images
  BY <1>1 DEF WriteBootSector
<1> QED
  BY <1>1, <1>2, <1>4, <1>5, <1>6

LEMMA SizeAfterType ==
    ASSUME SessionInv, NEW h \in Typed, NEW before \in Nat
    PROVE  SizeAfter(h, before) \in Nat
BY DEF SizeAfter, Typed, SessionInv, TypeOK, File

LEMMA RefuseFormatInv ==
    ASSUME SessionInv, NEW boot \in Typed, RefuseFormat(boot)
    PROVE  SessionInv'
<1>1. dataSize' \in Nat
  BY SizeAfterType DEF RefuseFormat, SessionInv, TypeOK
<1> QED
  BY <1>1, QuietInv DEF RefuseFormat, SessionInv, TypeOK

LEMMA FormatInv ==
    ASSUME SessionInv, NEW boot \in Typed, NEW reserved \in Typed, Format(boot, reserved)
    PROVE  SessionInv'
<1> DEFINE bps    == heap[attached].sector_size
           middle == SizeAfter(boot, dataSize)
           bpb    == [bps |-> bps, reserved |-> (1 + ReservedSectors(reserved, middle)) % 65536,
                      total |-> TotalSectors16(Sectors(attached)), code |-> BootText(boot)]
<1>1. heap[attached] \in Device /\ Path(attached) \in Images /\ Sectors(attached) \in Nat
  BY SectorsType DEF Format
<1>2. middle \in Nat /\ SizeAfter(reserved, middle) \in Nat
  BY SizeAfterType DEF SessionInv, TypeOK
<1>3. ReservedSectors(reserved, middle) \in Nat
  BY <1>2 DEF ReservedSectors
<1>4. BootText(boot) \in Texts \cup {Missing}
  BY DEF BootText, Typed, SessionInv, TypeOK, File
<1>5. bpb \in Bpb
  BY <1>1, <1>3, <1>4 DEF Bpb, Device, TotalSectors16
<1>6. /\ image' \in [Images -> Volume]
      /\ \A q \in Images : image'[q].there = image[q].there
      /\ misused' \subseteq Images
  BY <1>1, <1>5, WriteBootSectorType DEF Format
<1>7. CASE Restart
  BY <1>6, <1>7, RestartInv
<1>8. CASE /\ dataSize' = SizeAfter(reserved, middle)
           /\ UNCHANGED <<attached, fs, buffer, bufferSize, heap, host>>
  BY <1>2, <1>6, <1>8, QuietInv DEF SessionInv, TypeOK
<1> QED
  BY <1>7, <1>8 DEF Format

LEMMA MountInv == ASSUME SessionInv, Mount PROVE SessionInv'
<1>1. attached \in Devices /\ Path(attached) \in Images
  BY SectorsType DEF Mount
<1>2. fs' \in FileSystem /\ fs'.dev = attached
  BY <1>1 DEF Mount, SessionInv, TypeOK, Volume, FileSystem
<1>3. TypeOK'
  BY <1>2 DEF Mount, SessionInv, TypeOK
<1>4. DevicesInv'
  BY <1>2, Sentinels
     DEF Mount, SessionInv, DevicesInv, MountedDeviceAlive, Mounted, Exists, Path
<1> QED
  BY <1>3, <1>4 DEF SessionInv

LEMMA MountNothingInv == ASSUME SessionInv, MountNothing PROVE SessionInv'
<1>1. TypeOK'
  BY DEF MountNothing, SessionInv, TypeOK
<1>2. DevicesInv'
  BY DEF MountNothing, SessionInv, DevicesInv, MountedDeviceAlive, Mounted, Exists, Path
<1> QED
  BY <1>1, <1>2 DEF SessionInv

LEMMA UnmountInv == ASSUME SessionInv, Unmount PROVE SessionInv'
<1>1. TypeOK'
  BY DEF Unmount, SessionInv, TypeOK
<1>2. DevicesInv'
  BY DEF Unmount, SessionInv, DevicesInv, MountedDeviceAlive, Mounted, Exists, Path
<1> QED
  BY <1>1, <1>2 DEF SessionInv

-----------------------------------------------------------------------------
(* Commands on files.                                                       *)

LEMMA StoredType ==
    ASSUME NEW v \in Volume, NEW n \in Names, NEW f \in File \cup {Missing}
    PROVE  /\ Stored(v, n, f) \in Volume
           /\ Stored(v, n, f).there = v.there
           /\ Stored(v, n, f).files = [v.files EXCEPT ![n] = f]
           /\ Stored(v, n, f).whole = v.whole
           /\ Stored(v, n, f).bpb = v.bpb
           /\ Stored(v, n, f).bytes = v.bytes
BY DEF Stored, Volume

LEMMA BrokenType ==
    ASSUME NEW v \in Volume
    PROVE  /\ Broken(v) \in Volume
           /\ Broken(v).there = v.there
           /\ Broken(v).files = v.files
           /\ Broken(v).whole = FALSE
           /\ Broken(v).bpb = v.bpb
           /\ Broken(v).bytes = v.bytes
BY DEF Broken, Volume

\* What a command on a file leaves of the images.
LEMMA KeepType ==
    ASSUME SessionInv, Mounted, NEW n \in Names, NEW f \in File \cup {Missing}, Keep(n, f)
    PROVE  /\ image' \in [Images -> Volume]
           /\ \A q \in Images : image'[q].there = image[q].there
<1>1. Here \in Images /\ image \in [Images -> Volume]
  BY WhileMounted DEF Here, SessionInv, TypeOK
<1>2. image[Here] \in Volume
  BY <1>1
<1> DEFINE w == IF Agrees THEN Stored(image[Here], n, f) ELSE Broken(image[Here])
<1>3. w \in Volume /\ w.there = image[Here].there
  BY <1>2, StoredType, BrokenType
<1>4. image' = [image EXCEPT ![Here] = w]
  BY DEF Keep
<1> HIDE DEF w
<1> QED
  BY <1>1, <1>3, <1>4

\* A flush that aborts leaves all but whole as it was.
LEMMA FlushAbortsImages ==
    ASSUME SessionInv, FlushAborts
    PROVE  /\ image' \in [Images -> Volume]
           /\ \A q \in Images :
                 /\ image'[q].there = image[q].there
                 /\ image'[q].bytes = image[q].bytes
                 /\ image'[q].bpb = image[q].bpb
                 /\ image'[q].files = image[q].files
                 /\ q # Path(attached) => image'[q] = image[q]
<1>1. Here \in Images /\ image \in [Images -> Volume] /\ Here = Path(attached)
  BY WhileMounted DEF FlushAborts, Here, SessionInv, TypeOK
<1>2. PICK w \in {image[Here], Broken(image[Here])} : image' = [image EXCEPT ![Here] = w]
  BY <1>1 DEF FlushAborts
<1>3. /\ w \in Volume /\ w.there = image[Here].there /\ w.bytes = image[Here].bytes
      /\ w.bpb = image[Here].bpb /\ w.files = image[Here].files
  BY <1>1, BrokenType
<1> QED
  BY <1>1, <1>2, <1>3

LEMMA FlushAbortsInv == ASSUME SessionInv, FlushAborts PROVE SessionInv'
BY FlushAbortsImages, RestartInv DEF FlushAborts, SessionInv, TypeOK

LEMMA FileHere ==
    ASSUME SessionInv, Mounted, NEW n \in Names
    PROVE  image[Here].files[n] \in File \cup {Missing} /\ Touched(n) \in File
<1>1. image[Here].files[n] \in File \cup {Missing}
  BY WhileMounted DEF Here, SessionInv, TypeOK, Volume
<1> QED
  BY <1>1, SessionAssumption, FileOfType DEF Touched

LEMMA TouchInv ==
    ASSUME SessionInv, NEW n \in Names, Touch(n) PROVE SessionInv'
BY FileHere, KeepType, QuietInv DEF Touch, process, SessionInv, TypeOK

LEMMA WriteInv ==
    ASSUME SessionInv, NEW n \in Names, Write(n) PROVE SessionInv'
<1>1. [text |-> IF buffer = Missing THEN Nothing ELSE buffer, size |-> bufferSize] \in File
  BY SessionAssumption DEF SessionInv, TypeOK, File
<1> QED
  BY <1>1, KeepType, QuietInv DEF Write, process, SessionInv, TypeOK

LEMMA WriteNothingInv ==
    ASSUME SessionInv, NEW n \in Names, WriteNothing(n) PROVE SessionInv'
BY FileHere, KeepType, RestartInv DEF WriteNothing, SessionInv, TypeOK

LEMMA ReadInv ==
    ASSUME SessionInv, NEW n \in Names, Read(n) PROVE SessionInv'
<1>1. buffer' \in Texts /\ bufferSize' \in Nat
  BY SessionAssumption, FileHere, FileOfType DEF Read, File
<1> QED
  BY <1>1, FileHere, KeepType, QuietInv DEF Read, SessionInv, TypeOK

LEMMA ImportInv ==
    ASSUME SessionInv, NEW h \in HostFiles, Import(h) PROVE SessionInv'
<1>1. buffer' \in Texts \cup {Missing} /\ bufferSize' \in Nat
  BY DEF Import, SessionInv, TypeOK, File
<1> QED
  BY <1>1, QuietInv DEF Import, SessionInv, TypeOK

LEMMA ExportInv ==
    ASSUME SessionInv, NEW h \in Exports, Export(h) PROVE SessionInv'
<1>1. host' \in [HostFiles -> File \cup {Missing}]
  BY DEF Export, SessionInv, TypeOK, File
<1> QED
  BY <1>1, QuietInv DEF Export, process, SessionInv, TypeOK

LEMMA NextInv == SessionInv /\ [Next]_vars => SessionInv'
<1> SUFFICES ASSUME SessionInv, [Next]_vars PROVE SessionInv'
  OBVIOUS
<1>1. ASSUME NEW p \in Images, NEW media \in Media, NEW no_exist \in BOOLEAN,
             Attach(p, media, no_exist)
      PROVE  SessionInv'
  BY <1>1, AttachInv
<1>2. CASE Detach
  BY <1>2, DetachInv
<1>3. ASSUME NEW shape \in Shapes, InitDevice(shape) PROVE SessionInv'
  BY <1>3, InitDeviceInv
<1>4. ASSUME NEW boot \in Typed, RefuseFormat(boot) PROVE SessionInv'
  BY <1>4, RefuseFormatInv
<1>5. ASSUME NEW boot \in Typed, NEW reserved \in Typed, Format(boot, reserved)
      PROVE  SessionInv'
  BY <1>5, FormatInv
<1>6. CASE Mount \/ MountNothing \/ MountAborts
  BY <1>6, MountInv, MountNothingInv, RestartInv DEF MountAborts, SessionInv, TypeOK
<1>7. CASE Unmount
  BY <1>7, UnmountInv
<1>8. ASSUME NEW n \in Names, Touch(n) \/ Write(n) \/ WriteNothing(n) \/ Read(n)
      PROVE  SessionInv'
  BY <1>8, TouchInv, WriteInv, WriteNothingInv, ReadInv
<1>9. CASE FlushAborts
  BY <1>9, FlushAbortsInv
<1>10. ASSUME NEW h \in HostFiles, Import(h) PROVE SessionInv'
  BY <1>10, ImportInv
<1>11. ASSUME NEW h \in Exports, Export(h) PROVE SessionInv'
  BY <1>11, ExportInv
<1>12. CASE Exit
  BY <1>12, RestartInv DEF Exit, SessionInv, TypeOK
<1>13. CASE UNCHANGED vars
  BY <1>13, QuietInv DEF vars, process, SessionInv, TypeOK
<1> QED
  BY <1>1, <1>2, <1>3, <1>4, <1>5, <1>6, <1>7, <1>8, <1>9, <1>10, <1>11, <1>12, <1>13 DEF Next

LEMMA SessionSound == Spec => []SessionInv
BY InitInv, NextInv, PTL DEF Spec

\* Every variable of a session has its type in every state.
THEOREM TypeCorrect == Spec => []TypeOK
<1>1. SessionInv => TypeOK
  BY DEF SessionInv
<1> QED
  BY <1>1, SessionSound, PTL

\* A mounted file system always stands on the attached device, alive and open
\* (shell_attach, shell_detach, shell_init_dev, vfs_mount).
THEOREM DeviceAlive == Spec => []MountedDeviceAlive
<1>1. SessionInv => MountedDeviceAlive
  BY DEF SessionInv, DevicesInv
<1> QED
  BY <1>1, SessionSound, PTL

-----------------------------------------------------------------------------
(* Sizes and texts.                                                         *)

RightSize(f) == f # Missing => f.size = Size[f.text]
BufferSized  == buffer # Missing => bufferSize = Size[buffer]
HostSized    == \A h \in HostFiles : RightSize(host[h])
ImagesSized  == \A p \in Images, n \in Names : RightSize(image[p].files[n])

LEMMA SizesParts == SizesAgree <=> BufferSized /\ HostSized /\ ImagesSized
BY DEF SizesAgree, BufferSized, HostSized, ImagesSized, RightSize

LEMMA FileOfSize == ASSUME NEW t \in Texts PROVE RightSize(FileOf(t))
BY DEF RightSize, FileOf

LEMMA KeepSizes ==
    ASSUME SessionInv, Mounted, ImagesSized, NEW n \in Names,
           NEW f \in File \cup {Missing}, RightSize(f), Keep(n, f)
    PROVE  ImagesSized'
<1>1. Here \in Images /\ image \in [Images -> Volume]
  BY WhileMounted DEF Here, SessionInv, TypeOK
<1>2. image[Here] \in Volume
  BY <1>1
<1> DEFINE w == IF Agrees THEN Stored(image[Here], n, f) ELSE Broken(image[Here])
<1>3. \A m \in Names : w.files[m] = f \/ w.files[m] = image[Here].files[m]
  <2>1. image[Here].files \in [Names -> File \cup {Missing}]
    BY <1>2 DEF Volume
  <2>2. \A m \in Names : \/ Stored(image[Here], n, f).files[m] = f
                         \/ Stored(image[Here], n, f).files[m] = image[Here].files[m]
    BY <1>2, <2>1 DEF Stored, Volume
  <2>3. Broken(image[Here]).files = image[Here].files
    BY <1>2 DEF Broken, Volume
  <2>4. CASE Agrees
    BY <2>2, <2>4
  <2>5. CASE ~Agrees
    BY <2>3, <2>5
  <2> QED
    BY <2>4, <2>5
<1>4. image' = [image EXCEPT ![Here] = w]
  BY DEF Keep
<1> HIDE DEF w
<1>5. \A q \in Images, m \in Names :
        image'[q].files[m] = f \/ image'[q].files[m] = image[q].files[m]
  BY <1>1, <1>3, <1>4
<1> QED
  BY <1>5 DEF ImagesSized, RightSize

LEMMA WriteBootSectorSizes ==
    ASSUME SessionInv, ImagesSized, NEW p \in Images, NEW bpb, WriteBootSector(p, bpb)
    PROVE  ImagesSized'
<1>1. image \in [Images -> Volume]
  BY DEF SessionInv, TypeOK
<1>2. PICK kept : image' = [image EXCEPT ![p] = Formatted(image[p], bpb, kept)]
  BY DEF WriteBootSector
<1>3. Formatted(image[p], bpb, kept).files = image[p].files
  BY <1>1 DEF Formatted, Volume
<1>4. \A q \in Images : image'[q].files = image[q].files
  BY <1>1, <1>2, <1>3
<1> QED
  BY <1>4 DEF ImagesSized

LEMMA TouchedSize ==
    ASSUME SessionInv, Mounted, ImagesSized, NEW n \in Names
    PROVE  RightSize(Touched(n)) /\ RightSize(image[Here].files[n])
BY WhileMounted, FileOfSize, SessionAssumption DEF Touched, ImagesSized, Here

LEMMA NextSizes == SessionInv /\ SizesAgree /\ [Next]_vars => SizesAgree'
<1> SUFFICES ASSUME SessionInv, BufferSized, HostSized, ImagesSized, [Next]_vars
             PROVE  BufferSized' /\ HostSized' /\ ImagesSized'
  BY SizesParts, PTL
<1> USE SessionInv, BufferSized, HostSized, ImagesSized
<1>1. ASSUME NEW p \in Images, NEW media \in Media, NEW no_exist \in BOOLEAN,
             Attach(p, media, no_exist)
      PROVE  BufferSized' /\ HostSized' /\ ImagesSized'
  BY <1>1 DEF Attach, BufferSized, HostSized, ImagesSized
<1>2. CASE Detach
  BY <1>2 DEF Detach, BufferSized, HostSized, ImagesSized
<1>3. ASSUME NEW shape \in Shapes, InitDevice(shape)
      PROVE  BufferSized' /\ HostSized' /\ ImagesSized'
  <2> DEFINE zeroed == Zeroed(BytesPerSector(shape) * SectorCount(shape))
  <2>1. \A n \in Names : RightSize(zeroed.files[n])
    BY DEF Zeroed, NoFiles, RightSize
  <2>3. ASSUME NEW q \in Images PROVE image'[q] = zeroed \/ image'[q] = image[q]
    BY <1>3 DEF InitDevice, SessionInv, TypeOK
  <2> HIDE DEF zeroed
  <2>2. \A q \in Images : image'[q] = zeroed \/ image'[q] = image[q]
    BY <2>3
  <2>4. ImagesSized'
    BY <2>1, <2>2 DEF ImagesSized, RightSize
  <2> QED
    BY <1>3, <2>4 DEF InitDevice, BufferSized, HostSized
<1>4. ASSUME NEW boot \in Typed, RefuseFormat(boot)
      PROVE  BufferSized' /\ HostSized' /\ ImagesSized'
  BY <1>4 DEF RefuseFormat, BufferSized, HostSized, ImagesSized
<1>5. ASSUME NEW boot \in Typed, NEW reserved \in Typed, Format(boot, reserved)
      PROVE  BufferSized' /\ HostSized' /\ ImagesSized'
  <2>1. Path(attached) \in Images
    BY <1>5 DEF Format, SessionInv, DevicesInv, Device, Path
  <2>2. ImagesSized'
    BY <1>5, <2>1, WriteBootSectorSizes DEF Format
  <2> QED
    BY <1>5, <2>2 DEF Format, Restart, BufferSized, HostSized
<1>6. CASE Mount \/ MountNothing \/ MountAborts
  BY <1>6 DEF Mount, MountNothing, MountAborts, Restart, BufferSized, HostSized, ImagesSized
<1>7. CASE Unmount
  BY <1>7 DEF Unmount, BufferSized, HostSized, ImagesSized
<1>8. ASSUME NEW n \in Names, Touch(n) PROVE BufferSized' /\ HostSized' /\ ImagesSized'
  <2>1. ImagesSized'
    BY <1>8, FileHere, TouchedSize, KeepSizes DEF Touch
  <2> QED
    BY <1>8, <2>1 DEF Touch, process, BufferSized, HostSized
<1>9. ASSUME NEW n \in Names, Write(n) PROVE BufferSized' /\ HostSized' /\ ImagesSized'
  <2> DEFINE f == [text |-> IF buffer = Missing THEN Nothing ELSE buffer, size |-> bufferSize]
  <2>1. f \in File /\ RightSize(f)
    BY <1>9, SessionAssumption DEF Write, SessionInv, TypeOK, File, BufferSized, RightSize
  <2>2. ImagesSized'
    BY <1>9, <2>1, KeepSizes DEF Write
  <2> QED
    BY <1>9, <2>2 DEF Write, process, BufferSized, HostSized
<1>10. ASSUME NEW n \in Names, WriteNothing(n)
       PROVE  BufferSized' /\ HostSized' /\ ImagesSized'
  <2>1. ImagesSized'
    BY <1>10, FileHere, TouchedSize, KeepSizes DEF WriteNothing
  <2> QED
    BY <1>10, <2>1 DEF WriteNothing, Restart, BufferSized, HostSized
<1>11. ASSUME NEW n \in Names, Read(n) PROVE BufferSized' /\ HostSized' /\ ImagesSized'
  <2>1. ImagesSized'
    BY <1>11, FileHere, TouchedSize, KeepSizes DEF Read
  <2>2. PICK t \in Texts :
          LET f == IF image[Here].files[n] = Missing THEN FileOf(Nothing)
                   ELSE image[Here].files[n]
          IN  /\ buffer' = IF Agrees THEN f.text ELSE t
              /\ bufferSize' = IF Agrees THEN f.size ELSE Size[t]
    BY <1>11 DEF Read
  <2> DEFINE f == Touched(n)
  <2>3. f.size = Size[f.text]
    <3>1. FileOf(Nothing).size = Size[FileOf(Nothing).text]
      BY DEF FileOf
    <3> QED
      BY <1>11, <3>1, TouchedSize DEF Read, Touched, RightSize
  <2>4. /\ buffer' = IF Agrees THEN f.text ELSE t
        /\ bufferSize' = IF Agrees THEN f.size ELSE Size[t]
    BY <2>2 DEF Touched
  <2> HIDE DEF f
  <2>5. bufferSize' = Size[buffer']
    BY <2>3, <2>4
  <2>6. BufferSized'
    BY <2>5 DEF BufferSized
  <2> QED
    BY <1>11, <2>1, <2>6 DEF Read, HostSized
<1>12. CASE FlushAborts
  <2>1. ImagesSized'
    BY <1>12, FlushAbortsImages DEF ImagesSized
  <2> QED
    BY <1>12, <2>1 DEF FlushAborts, Restart, BufferSized, HostSized
<1>13. ASSUME NEW h \in HostFiles, Import(h)
       PROVE  BufferSized' /\ HostSized' /\ ImagesSized'
  BY <1>13 DEF Import, BufferSized, HostSized, ImagesSized, RightSize
<1>14. ASSUME NEW h \in Exports, Export(h)
       PROVE  BufferSized' /\ HostSized' /\ ImagesSized'
  <2>1. HostSized'
    BY <1>14 DEF Export, BufferSized, HostSized, RightSize, SessionInv, TypeOK
  <2> QED
    BY <1>14, <2>1 DEF Export, process, BufferSized, ImagesSized
<1>15. CASE Exit
  BY <1>15 DEF Exit, Restart, BufferSized, HostSized, ImagesSized
<1>16. CASE UNCHANGED vars
  BY <1>16 DEF vars, process, BufferSized, HostSized, ImagesSized
<1> QED
  BY <1>1, <1>2, <1>3, <1>4, <1>5, <1>6, <1>7, <1>8, <1>9, <1>10, <1>11, <1>12, <1>13,
     <1>14, <1>15, <1>16 DEF Next

LEMMA InitSizes == Init => SizesAgree
<1> SUFFICES ASSUME Init PROVE BufferSized /\ HostSized /\ ImagesSized
  BY SizesParts
<1>1. HostSized
  BY SessionAssumption, FileOfSize DEF Init, HostSized, RightSize
<1>2. BufferSized /\ ImagesSized
  BY DEF Init, BufferSized, ImagesSized, RightSize, NoImage, NoFiles
<1> QED
  BY <1>1, <1>2

\* Buffer, host and volumes never hold a text beside the size of another one
\* (shell_import, shell_read, shell_write, shell_export).
THEOREM SizesAlwaysAgree == Spec => []SizesAgree
BY InitSizes, NextSizes, SessionSound, PTL DEF Spec

-----------------------------------------------------------------------------
(* Flushes stay on the device.                                              *)

\* The tables lie before the root directory.
LEMMA TablesBeforeRoot ==
    ASSUME NEW bpb \in Bpb, NEW sectors \in Nat, RootLoads(bpb, sectors)
    PROVE  FlushReaches(bpb, sectors)
<1>1. bpb.reserved \in Nat
  BY DEF Bpb
<1>2. RootStart(bpb) = bpb.reserved + 18 /\ RootStart(bpb) < sectors
  BY <1>1 DEF RootLoads, InReach, RootStart, FatStart, TableCount, SectorsPerFat
<1>3. ASSUME NEW n \in 0 .. TableCount - 1
      PROVE  InReach(FatStart(bpb, n), SectorsPerFat, sectors)
  <2>1. n = 0 \/ n = 1
    BY DEF TableCount
  <2> QED
    BY <1>1, <1>2, <2>1 DEF InReach, FatStart, SectorsPerFat
<1> QED
  BY <1>3 DEF FlushReaches, RootLoads

\* A command that leaves the device and the file system alone.
LEMMA QuietFlush ==
    ASSUME SessionInv, FlushOnDevice, UNCHANGED <<attached, fs, heap>>,
           \A p \in Images : image'[p].bytes = image[p].bytes
    PROVE  FlushOnDevice'
<1> SUFFICES ASSUME Mounted PROVE FlushOnDevice'
  BY DEF FlushOnDevice, Mounted
<1>1. Path(fs.dev) \in Images /\ Path(fs.dev)' = Path(fs.dev)
  BY WhileMounted DEF Path
<1>2. Sectors(fs.dev)' = Sectors(fs.dev)
  BY <1>1 DEF Sectors
<1> QED
  BY <1>2 DEF FlushOnDevice, Mounted

LEMMA KeepBytes ==
    ASSUME SessionInv, Mounted, NEW n \in Names, NEW f \in File \cup {Missing}, Keep(n, f)
    PROVE  \A p \in Images : image'[p].bytes = image[p].bytes
<1>1. Here \in Images /\ image \in [Images -> Volume] /\ image[Here] \in Volume
  BY WhileMounted DEF Here, SessionInv, TypeOK
<1> DEFINE w == IF Agrees THEN Stored(image[Here], n, f) ELSE Broken(image[Here])
<1>2. w.bytes = image[Here].bytes
  BY <1>1, StoredType, BrokenType
<1>3. image' = [image EXCEPT ![Here] = w]
  BY DEF Keep
<1> HIDE DEF w
<1> QED
  BY <1>1, <1>2, <1>3

LEMMA WriteBootSectorBytes ==
    ASSUME SessionInv, NEW p \in Images, NEW bpb, WriteBootSector(p, bpb)
    PROVE  \A q \in Images :
              image'[q].bytes = image[q].bytes /\ image'[q].files = image[q].files
<1>1. image \in [Images -> Volume]
  BY DEF SessionInv, TypeOK
<1>2. PICK kept : image' = [image EXCEPT ![p] = Formatted(image[p], bpb, kept)]
  BY DEF WriteBootSector
<1>3. LET v == Formatted(image[p], bpb, kept)
      IN  v.bytes = image[p].bytes /\ v.files = image[p].files
  BY <1>1 DEF Formatted, Volume
<1> QED
  BY <1>1, <1>2, <1>3

LEMMA NextFlush == SessionInv /\ FlushOnDevice /\ [Next]_vars => FlushOnDevice'
<1> SUFFICES ASSUME SessionInv, FlushOnDevice, [Next]_vars PROVE FlushOnDevice'
  OBVIOUS
<1>1. ASSUME fs' = NoFs PROVE FlushOnDevice'
  BY <1>1 DEF FlushOnDevice, Mounted
<1>2. CASE Restart \/ MountNothing \/ Unmount
  BY <1>1, <1>2 DEF Restart, MountNothing, Unmount
<1>3. ASSUME NEW p \in Images, NEW media \in Media, NEW no_exist \in BOOLEAN,
             Attach(p, media, no_exist)
      PROVE  FlushOnDevice'
  BY <1>3, <1>1, WhileMounted DEF Attach, Mounted
<1>4. CASE Detach
  BY <1>4, <1>1 DEF Detach, Mounted
<1>5. ASSUME NEW shape \in Shapes, InitDevice(shape) PROVE FlushOnDevice'
  BY <1>5 DEF InitDevice, FlushOnDevice, Mounted, SessionInv, TypeOK, FileSystem
<1>6. ASSUME NEW boot \in Typed, RefuseFormat(boot) PROVE FlushOnDevice'
  BY <1>6, QuietFlush DEF RefuseFormat
<1>7. ASSUME NEW boot \in Typed, NEW reserved \in Typed, Format(boot, reserved), ~Restart
      PROVE  FlushOnDevice'
  <2>1. \A q \in Images : image'[q].bytes = image[q].bytes
    BY <1>7, SectorsType, WriteBootSectorBytes DEF Format
  <2> QED
    BY <1>7, <2>1, QuietFlush DEF Format
<1>8. CASE Mount
  <2>1. attached \in Devices /\ Path(attached) \in Images /\ Sectors(attached) \in Nat
    BY <1>8, SectorsType DEF Mount
  <2>2. image[Path(attached)].bpb \in Bpb
    BY <2>1 DEF SessionInv, TypeOK, Volume
  <2>3. FlushReaches(image[Path(attached)].bpb, Sectors(attached))
    BY <1>8, <2>1, <2>2, TablesBeforeRoot DEF Mount
  <2>4. Sectors(attached)' = Sectors(attached) /\ attached' = attached
    BY <1>8 DEF Mount, Sectors, Path
  <2>5. fs'.dev = attached /\ fs'.bpb = image[Path(attached)].bpb
    BY <1>8 DEF Mount
  <2>6. Sectors(fs.dev)' = Sectors(attached)
    BY <2>4, <2>5
  <2> QED
    BY <2>3, <2>5, <2>6 DEF FlushOnDevice
<1>9. ASSUME NEW n \in Names, Touch(n) \/ Write(n) \/ Read(n) PROVE FlushOnDevice'
  <2>1. PICK f \in File \cup {Missing} : Mounted /\ Keep(n, f)
    <3>1. CASE Touch(n)
      BY <3>1, FileHere DEF Touch
    <3>2. CASE Write(n)
      BY <3>2, SessionAssumption DEF Write, SessionInv, TypeOK, File
    <3>3. CASE Read(n)
      BY <3>3, FileHere DEF Read
    <3> QED
      BY <1>9, <3>1, <3>2, <3>3
  <2> QED
    BY <1>9, <2>1, KeepBytes, QuietFlush DEF Touch, Write, Read, process
<1>10. ASSUME NEW h \in HostFiles, Import(h) PROVE FlushOnDevice'
  BY <1>10, QuietFlush DEF Import
<1>11. ASSUME NEW h \in Exports, Export(h) PROVE FlushOnDevice'
  BY <1>11, QuietFlush DEF Export, process
<1>12. CASE UNCHANGED vars
  BY <1>12, QuietFlush DEF vars, process
<1> QED
  BY <1>2, <1>3, <1>4, <1>5, <1>6, <1>7, <1>8, <1>9, <1>10, <1>11, <1>12
     DEF Next, Exit, WriteNothing, MountAborts, FlushAborts

LEMMA InitFlush == Init => FlushOnDevice
BY DEF Init, FlushOnDevice, Mounted

\* Whatever was attached, formatted and mounted, in sectors of any size, the tables and
\* the root directory a file system writes back are on its device, unless the device was
\* initialised under it (fat12_flush, vfs_mount, device_write_sectors).
THEOREM FlushesReach == Spec => []FlushOnDevice
BY InitFlush, NextFlush, SessionSound, PTL DEF Spec

-----------------------------------------------------------------------------
(* Volumes stay whole.  A flush spares the volume when the file system in    *)
(* memory agrees with it, so the strengthening says that they agree wherever *)
(* nothing on the list of WholeUnlessMisused was done.                       *)

Told(p) == Exists(p) /\ p \notin misused

\* A boot sector with sectors of 0 bytes was never written.
SectorsPositive == \A p \in Images : image[p].bpb.bps = 0 => image[p].bpb = NoBpb

\* The sectors of the attached device are those of its volume.
SectorsMatch ==
    attached # NoDevice /\ Told(Path(attached)) =>
        \/ image[Path(attached)].bpb = NoBpb
        \/ image[Path(attached)].bpb.bps = heap[attached].sector_size

\* The mounted file system has the layout of the volume.
LayoutsMatch ==
    Mounted /\ Told(Path(attached)) =>
        /\ ~fs.stale
        /\ image[Path(attached)].bpb # NoBpb
        /\ SameLayout(fs.bpb, image[Path(attached)].bpb)

WholeInv == SectorsPositive /\ SectorsMatch /\ LayoutsMatch /\ WholeUnlessMisused

LEMMA InitWhole == Init => WholeInv
BY DEF Init, WholeInv, SectorsPositive, SectorsMatch, LayoutsMatch, WholeUnlessMisused,
       Mounted, Exists, NoImage

\* A command that leaves the devices, the file system and the boot sectors alone.
LEMMA QuietWhole ==
    ASSUME SessionInv, WholeInv, UNCHANGED <<attached, fs, heap, misused>>,
           \A p \in Images :
              /\ image'[p].there = image[p].there
              /\ image'[p].bpb = image[p].bpb
              /\ image[p].whole /\ p \notin misused => image'[p].whole
    PROVE  WholeInv'
<1>1. attached # NoDevice => Path(attached) \in Images /\ Path(attached)' = Path(attached)
  BY DEF SessionInv, DevicesInv, Device, Path
<1>2. Mounted => attached # NoDevice
  BY WhileMounted
<1>3. SectorsPositive' /\ WholeUnlessMisused'
  BY DEF WholeInv, SectorsPositive, WholeUnlessMisused, Exists
<1>4. SectorsMatch'
  BY <1>1 DEF WholeInv, SectorsMatch, Told, Exists
<1>5. LayoutsMatch'
  BY <1>1, <1>2 DEF WholeInv, LayoutsMatch, Told, Exists, Mounted
<1> QED
  BY <1>3, <1>4, <1>5 DEF WholeInv

\* Nothing is attached or mounted after a restart, so only the images are left.
LEMMA RestartWhole ==
    ASSUME SessionInv, WholeInv, Restart,
           \A p \in Images : image'[p].bpb.bps = 0 => image'[p].bpb = NoBpb,
           \A p \in Images : image'[p].there /\ p \notin misused' => image'[p].whole
    PROVE  WholeInv'
<1>1. attached' = NoDevice /\ ~Mounted'
  BY DEF Restart, Mounted
<1> QED
  BY <1>1 DEF WholeInv, SectorsPositive, SectorsMatch, LayoutsMatch, WholeUnlessMisused, Exists

LEMMA AttachWhole ==
    ASSUME SessionInv, WholeInv, NEW p \in Images, NEW media \in Media,
           NEW no_exist \in BOOLEAN, Attach(p, media, no_exist)
    PROVE  WholeInv'
<1>1. ~Mounted /\ ~Mounted'
  BY WhileMounted DEF Attach, Mounted
<1>2. PICK d \in Devices : Create(d, p, media) /\ attached' = d
  BY DEF Attach
<1>3. Path(attached)' = p /\ heap'[attached'].sector_size = Default
  BY <1>1, <1>2 DEF Create, Path
<1>4. SectorsPositive'
  BY DEF Attach, WholeInv, SectorsPositive
<1>5. SectorsMatch'
  BY <1>3 DEF Attach, WholeInv, SectorsMatch, SectorsPositive, Told
<1>6. LayoutsMatch'
  BY <1>1 DEF LayoutsMatch
<1>7. WholeUnlessMisused'
  BY DEF Attach, WholeInv, WholeUnlessMisused, Exists
<1> QED
  BY <1>4, <1>5, <1>6, <1>7 DEF WholeInv

LEMMA DetachWhole == ASSUME SessionInv, WholeInv, Detach PROVE WholeInv'
BY DEF Detach, WholeInv, SectorsPositive, SectorsMatch, LayoutsMatch, WholeUnlessMisused,
       Mounted, Exists

LEMMA InitDeviceWhole ==
    ASSUME SessionInv, WholeInv, NEW shape \in Shapes, InitDevice(shape)
    PROVE  WholeInv'
<1> DEFINE p == Path(attached)
           zeroed == Zeroed(BytesPerSector(shape) * SectorCount(shape))
<1>1. attached \in Devices /\ p \in Images /\ attached' = attached
  BY DEF InitDevice, SessionInv, TypeOK, DevicesInv, Device, Path
<1>2. Path(attached)' = p /\ heap'[attached].sector_size = BytesPerSector(shape)
  BY <1>1 DEF InitDevice, SessionInv, TypeOK, Path
<1>3. \A q \in Images : q # p => image'[q] = image[q]
  BY <1>1 DEF InitDevice, SessionInv, TypeOK
<1>4. image'[p] = IF p \in Openable THEN zeroed ELSE image[p]
  BY <1>1 DEF InitDevice, SessionInv, TypeOK
<1>5. p \notin Openable => ~image[p].there
  BY <1>1 DEF SessionInv, DevicesInv, Exists
<1>6. \A q \in Images : q # p => (q \in misused' <=> q \in misused)
  BY DEF InitDevice
<1>7. image'[p].there => image'[p] = zeroed
  BY <1>4, <1>5
<1>8. zeroed.bpb = NoBpb /\ zeroed.whole
  BY DEF Zeroed
<1> HIDE DEF zeroed
<1>9. SectorsPositive'
  BY <1>1, <1>2, <1>3, <1>4, <1>8 DEF WholeInv, SectorsPositive
<1>10. SectorsMatch'
  BY <1>1, <1>2, <1>7, <1>8 DEF SectorsMatch, Told, Exists
<1>11. LayoutsMatch'
  BY <1>2, Sentinels DEF InitDevice, LayoutsMatch, Told, Mounted
<1>12. WholeUnlessMisused'
  BY <1>3, <1>6, <1>7, <1>8 DEF WholeInv, WholeUnlessMisused, Exists
<1> QED
  BY <1>9, <1>10, <1>11, <1>12 DEF WholeInv

\* What formatting leaves of the images, the formatted one and the others.
LEMMA WriteBootSectorWhole ==
    ASSUME SessionInv, NEW p \in Images, NEW bpb, WriteBootSector(p, bpb)
    PROVE  /\ image'[p].bpb = bpb /\ image'[p].there = image[p].there
           /\ \A q \in Images : q # p => image'[q] = image[q]
           /\ misused \subseteq misused'
           /\ p \notin misused' =>
                 /\ image[p].bpb = NoBpb \/ SameLayout(image[p].bpb, bpb)
                 /\ image[p].whole => image'[p].whole
           /\ misused' \subseteq misused \cup {p}
<1> DEFINE kept == bpb.reserved # 0 /\ (image[p].bpb = NoBpb \/ SameLayout(image[p].bpb, bpb))
           w == Formatted(image[p], bpb, kept)
<1>1. image \in [Images -> Volume] /\ image[p] \in Volume
  BY DEF SessionInv, TypeOK
<1>2. image' = [image EXCEPT ![p] = w]
  BY DEF WriteBootSector
<1>3. misused' = IF kept THEN misused ELSE misused \cup {p}
  BY DEF WriteBootSector
<1>4. kept \in BOOLEAN
  BY DEF SameLayout
<1>5. w.bpb = bpb /\ w.there = image[p].there /\ w.whole = (image[p].whole /\ kept)
  <2> HIDE DEF kept
  <2> QED
    BY <1>1 DEF Formatted, Volume
<1> HIDE DEF w
<1>6. image'[p] = w /\ \A q \in Images : q # p => image'[q] = image[q]
  BY <1>1, <1>2
<1>7. p \notin misused' => kept
  BY <1>3
<1> QED
  BY <1>3, <1>4, <1>5, <1>6, <1>7

LEMMA FormatWhole ==
    ASSUME SessionInv, WholeInv, NEW boot \in Typed, NEW reserved \in Typed,
           Format(boot, reserved)
    PROVE  WholeInv'
<1> DEFINE p == Path(attached)
           bpb == [bps |-> heap[attached].sector_size,
                   reserved |-> (1 + ReservedSectors(reserved, SizeAfter(boot, dataSize))) % 65536,
                   total |-> TotalSectors16(Sectors(attached)), code |-> BootText(boot)]
<1>1. p \in Images /\ attached # NoDevice /\ heap[attached] \in Device
  BY SectorsType DEF Format
<1>2. WriteBootSector(p, bpb)
  BY DEF Format
<1>3. bpb.bps = heap[attached].sector_size /\ bpb.bps # 0 /\ bpb # NoBpb
  BY <1>1 DEF Device, NoBpb
<1> HIDE DEF bpb
<1>4. /\ image'[p].bpb = bpb /\ image'[p].there = image[p].there
      /\ \A q \in Images : q # p => image'[q] = image[q]
      /\ misused \subseteq misused'
      /\ p \notin misused' =>
            /\ image[p].bpb = NoBpb \/ SameLayout(image[p].bpb, bpb)
            /\ image[p].whole => image'[p].whole
      /\ misused' \subseteq misused \cup {p}
  BY <1>1, <1>2, WriteBootSectorWhole
<1>5. \A q \in Images : image'[q].bpb.bps = 0 => image'[q].bpb = NoBpb
  BY <1>3, <1>4 DEF WholeInv, SectorsPositive
<1>6. \A q \in Images : image'[q].there /\ q \notin misused' => image'[q].whole
  BY <1>4 DEF WholeInv, WholeUnlessMisused, Exists
<1>7. CASE Restart
  BY <1>5, <1>6, <1>7, RestartWhole
<1>8. CASE UNCHANGED <<attached, fs, buffer, bufferSize, heap, host>>
  <2>1. p' = p
    BY <1>8 DEF Path
  <2>2. SectorsPositive' /\ WholeUnlessMisused'
    BY <1>5, <1>6, <1>8 DEF WholeInv, SectorsPositive, WholeUnlessMisused, Exists
  <2>3. SectorsMatch'
    BY <1>3, <1>4, <1>8, <2>1 DEF SectorsMatch
  <2>4. LayoutsMatch'
    BY <1>3, <1>4, <1>8, <2>1 DEF WholeInv, LayoutsMatch, Told, Exists, Mounted, SameLayout
  <2> QED
    BY <2>2, <2>3, <2>4 DEF WholeInv
<1> QED
  BY <1>7, <1>8 DEF Format

LEMMA MountWhole == ASSUME SessionInv, WholeInv, Mount PROVE WholeInv'
<1>1. Path(attached)' = Path(attached)
  BY DEF Mount, Path
<1>2. LayoutsMatch'
  BY <1>1, Sentinels DEF Mount, LayoutsMatch, Mounted, SameLayout, NoFs, Formatted12
<1>3. SectorsPositive' /\ SectorsMatch' /\ WholeUnlessMisused'
  BY <1>1 DEF Mount, WholeInv, SectorsPositive, SectorsMatch, WholeUnlessMisused, Told, Exists
<1> QED
  BY <1>2, <1>3 DEF WholeInv

LEMMA MountNothingWhole == ASSUME SessionInv, WholeInv, MountNothing PROVE WholeInv'
<1>1. Path(attached)' = Path(attached)
  BY DEF MountNothing, Path
<1> QED
  BY <1>1 DEF MountNothing, WholeInv, SectorsPositive, SectorsMatch, LayoutsMatch,
              WholeUnlessMisused, Told, Exists, Mounted

\* A flush that goes beyond the device does so after a misuse, so that the part of the
\* volume it may spoil counts for nothing.
LEMMA FlushAbortsWhole ==
    ASSUME SessionInv, WholeInv, FlushOnDevice, FlushAborts PROVE WholeInv'
<1>1. Path(attached) \in Images /\ Exists(Path(attached))
  BY WhileMounted DEF FlushAborts
<1>2. fs.stale
  BY DEF FlushAborts, FlushOnDevice
<1>3. Path(attached) \in misused
  BY <1>1, <1>2 DEF FlushAborts, WholeInv, LayoutsMatch, Told
<1> QED
  BY <1>3, FlushAbortsImages, RestartWhole
     DEF FlushAborts, WholeInv, SectorsPositive, WholeUnlessMisused, Exists

LEMMA UnmountWhole == ASSUME SessionInv, WholeInv, Unmount PROVE WholeInv'
<1>1. Path(attached)' = Path(attached)
  BY DEF Unmount, Path
<1> QED
  BY <1>1 DEF Unmount, WholeInv, SectorsPositive, SectorsMatch, LayoutsMatch,
              WholeUnlessMisused, Told, Exists, Mounted

\* The heart of it: where nothing was misused a flush goes where the file system is.
LEMMA KeepWhole ==
    ASSUME SessionInv, WholeInv, Mounted, NEW n \in Names,
           NEW f \in File \cup {Missing}, Keep(n, f)
    PROVE  \A p \in Images :
              /\ image'[p].there = image[p].there
              /\ image'[p].bpb = image[p].bpb
              /\ image[p].whole /\ p \notin misused => image'[p].whole
<1>1. /\ Here \in Images /\ Here = Path(attached) /\ Exists(Here)
      /\ fs.dev = attached /\ attached # NoDevice
  BY WhileMounted DEF Here
<1>2. image \in [Images -> Volume] /\ image[Here] \in Volume
  BY <1>1 DEF SessionInv, TypeOK
<1>3. Here \notin misused => Agrees
  BY <1>1 DEF WholeInv, SectorsMatch, LayoutsMatch, WholeUnlessMisused, Told, Agrees, SameLayout
<1> DEFINE w == IF Agrees THEN Stored(image[Here], n, f) ELSE Broken(image[Here])
<1>4. /\ w.there = image[Here].there /\ w.bpb = image[Here].bpb
      /\ Agrees => w.whole = image[Here].whole
  BY <1>2, StoredType, BrokenType
<1>5. image' = [image EXCEPT ![Here] = w]
  BY DEF Keep
<1> HIDE DEF w
<1> QED
  BY <1>1, <1>2, <1>3, <1>4, <1>5

LEMMA FilesWhole ==
    ASSUME SessionInv, WholeInv, NEW n \in Names,
           Touch(n) \/ Write(n) \/ WriteNothing(n) \/ Read(n)
    PROVE  WholeInv'
<1>1. CASE Touch(n)
  BY <1>1, FileHere, KeepWhole, QuietWhole DEF Touch, process
<1>2. CASE Write(n)
  <2>1. [text |-> IF buffer = Missing THEN Nothing ELSE buffer, size |-> bufferSize] \in File
    BY SessionAssumption DEF SessionInv, TypeOK, File
  <2> QED
    BY <1>2, <2>1, KeepWhole, QuietWhole DEF Write, process
<1>3. CASE WriteNothing(n)
  BY <1>3, FileHere, KeepWhole, RestartWhole
     DEF WriteNothing, WholeInv, SectorsPositive, WholeUnlessMisused, Exists
<1>4. CASE Read(n)
  BY <1>4, FileHere, KeepWhole, QuietWhole DEF Read
<1> QED
  BY <1>1, <1>2, <1>3, <1>4

LEMMA NextWhole == SessionInv /\ WholeInv /\ FlushOnDevice /\ [Next]_vars => WholeInv'
<1> SUFFICES ASSUME SessionInv, WholeInv, FlushOnDevice, [Next]_vars PROVE WholeInv'
  OBVIOUS
<1>1. ASSUME NEW p \in Images, NEW media \in Media, NEW no_exist \in BOOLEAN,
             Attach(p, media, no_exist)
      PROVE  WholeInv'
  BY <1>1, AttachWhole
<1>2. CASE Detach
  BY <1>2, DetachWhole
<1>3. ASSUME NEW shape \in Shapes, InitDevice(shape) PROVE WholeInv'
  BY <1>3, InitDeviceWhole
<1>4. ASSUME NEW boot \in Typed, RefuseFormat(boot) PROVE WholeInv'
  BY <1>4, QuietWhole DEF RefuseFormat
<1>5. ASSUME NEW boot \in Typed, NEW reserved \in Typed, Format(boot, reserved)
      PROVE  WholeInv'
  BY <1>5, FormatWhole
<1>6. CASE Mount \/ MountNothing \/ MountAborts
  BY <1>6, MountWhole, MountNothingWhole, RestartWhole
     DEF MountAborts, WholeInv, SectorsPositive, WholeUnlessMisused, Exists
<1>7. CASE Unmount
  BY <1>7, UnmountWhole
<1>8. ASSUME NEW n \in Names, Touch(n) \/ Write(n) \/ WriteNothing(n) \/ Read(n)
      PROVE  WholeInv'
  BY <1>8, FilesWhole
<1>9. CASE FlushAborts
  BY <1>9, FlushAbortsWhole
<1>10. ASSUME NEW h \in HostFiles, Import(h) PROVE WholeInv'
  BY <1>10, QuietWhole DEF Import
<1>11. ASSUME NEW h \in Exports, Export(h) PROVE WholeInv'
  BY <1>11, QuietWhole DEF Export, process
<1>12. CASE Exit
  BY <1>12, RestartWhole DEF Exit, WholeInv, SectorsPositive, WholeUnlessMisused, Exists
<1>13. CASE UNCHANGED vars
  BY <1>13, QuietWhole DEF vars, process
<1> QED
  BY <1>1, <1>2, <1>3, <1>4, <1>5, <1>6, <1>7, <1>8, <1>9, <1>10, <1>11, <1>12, <1>13 DEF Next

\* Whatever commands the sessions gave, a volume is whole unless it was initialised
\* under its file system, formatted to another layout or without a reserved sector for
\* the boot sector, or attached with sectors that do not have 512 bytes (fat12_flush,
\* shell_init_dev, shell_format, fat12_format_device).
THEOREM VolumesStayWhole == Spec => []WholeUnlessMisused
<1>1. WholeInv => WholeUnlessMisused
  BY DEF WholeInv
<1> QED
  BY <1>1, InitWhole, NextWhole, SessionSound, FlushesReach, PTL DEF Spec

-----------------------------------------------------------------------------
(* What holds files can be mounted.  A file comes to a volume only through a *)
(* mounted file system, so the strengthening says that the volume of one     *)
(* mounts, and that the 16 bits of the size in a boot sector never change    *)
(* without its layout.  No boot sector says a sector has no bytes.           *)

HasFiles(p) == \E n \in Names : image[p].files[n] # Missing

FilesFormatted == \A p \in Images : HasFiles(p) => Exists(p) /\ image[p].bpb # NoBpb

TotalsRight ==
    \A p \in Images :
        image[p].bpb # NoBpb =>
            /\ image[p].bpb.bps # 0
            /\ image[p].bpb.total = TotalSectors16(image[p].bytes \div image[p].bpb.bps)

MountedMounts == Mounted /\ Told(Path(attached)) => Mounts(Path(attached))

FilesInv == FilesFormatted /\ TotalsRight /\ MountedMounts /\ FilesMount

LEMMA InitFiles == Init => FilesInv
BY DEF Init, FilesInv, FilesFormatted, TotalsRight, MountedMounts, FilesMount, HasFiles,
       Mounted, NoImage, NoFiles

\* Whether a volume mounts depends on the layout and the number of its sectors alone.
LEMMA MountsByLayout ==
    ASSUME NEW p \in Images, image'[p].bytes = image[p].bytes,
           SameLayout(image[p].bpb, image'[p].bpb),
           image'[p].bpb.total = image[p].bpb.total, Mounts(p)
    PROVE  Mounts(p)'
BY DEF Mounts, SameLayout, Recognised, RootLoads, InReach, EntriesRead, DataStart, RootStart,
       RootSize, FatStart

\* A command that writes no boot sector and no file.
LEMMA QuietFiles ==
    ASSUME SessionInv, FilesInv, misused \subseteq misused',
           Mounted' => Mounted /\ Path(attached)' = Path(attached),
           \A p \in Images :
              /\ image'[p].there = image[p].there
              /\ image'[p].bytes = image[p].bytes
              /\ image'[p].bpb = image[p].bpb
              /\ image'[p].files = image[p].files
    PROVE  FilesInv'
<1>1. \A p \in Images : (HasFiles(p)' <=> HasFiles(p)) /\ (Exists(p)' <=> Exists(p))
  BY DEF HasFiles, Exists
<1>2. \A p \in Images : Mounts(p)' <=> Mounts(p)
  BY DEF Mounts
<1>3. FilesFormatted' /\ TotalsRight'
  BY <1>1 DEF FilesInv, FilesFormatted, TotalsRight
<1>4. MountedMounts'
  BY <1>1, <1>2, WhileMounted DEF FilesInv, MountedMounts, Told
<1>5. FilesMount'
  BY <1>1, <1>2 DEF FilesInv, FilesMount, HasFiles
<1> QED
  BY <1>3, <1>4, <1>5 DEF FilesInv

\* A file that is stored is stored on a volume that mounts.
LEMMA KeepFiles ==
    ASSUME SessionInv, FilesInv, Mounted, NEW n \in Names, NEW f \in File \cup {Missing},
           Keep(n, f), misused' = misused,
           Mounted' => Path(attached)' = Path(attached)
    PROVE  FilesInv'
<1>1. /\ Here \in Images /\ Here = Path(attached) /\ Exists(Here)
      /\ heap[fs.dev] \in Device
      /\ image \in [Images -> Volume] /\ image[Here] \in Volume
  BY WhileMounted DEF Here, SessionInv, TypeOK
<1> DEFINE w == IF Agrees THEN Stored(image[Here], n, f) ELSE Broken(image[Here])
<1>2. /\ w.there = image[Here].there /\ w.bpb = image[Here].bpb
      /\ w.bytes = image[Here].bytes
      /\ ~Agrees => w.files = image[Here].files
  BY <1>1, StoredType, BrokenType
<1>3. image' = [image EXCEPT ![Here] = w]
  BY DEF Keep
<1> HIDE DEF w
<1>4. \A p \in Images :
         /\ image'[p].there = image[p].there /\ image'[p].bpb = image[p].bpb
         /\ image'[p].bytes = image[p].bytes
         /\ p # Here \/ ~Agrees => image'[p].files = image[p].files
  BY <1>1, <1>2, <1>3
<1>5. \A p \in Images : (Mounts(p)' <=> Mounts(p)) /\ (Exists(p)' <=> Exists(p))
  BY <1>4 DEF Mounts, Exists
<1>6. Agrees => image[Here].bpb # NoBpb
  <2>1. heap[fs.dev].sector_size # 0 /\ NoBpb.bps = 0
    BY <1>1 DEF Device, NoBpb
  <2>2. Agrees => image[Here].bpb.bps = heap[fs.dev].sector_size
    BY DEF Agrees, SameLayout
  <2> QED
    BY <2>1, <2>2
<1>7. Here \notin misused => Mounts(Here)
  BY <1>1 DEF FilesInv, MountedMounts, Told
<1>8. \A p \in Images : HasFiles(p)' => HasFiles(p) \/ (p = Here /\ Agrees)
  BY <1>4 DEF HasFiles
<1>9. FilesFormatted' /\ TotalsRight'
  BY <1>1, <1>4, <1>5, <1>6, <1>8 DEF FilesInv, FilesFormatted, TotalsRight
<1>10. MountedMounts'
  BY <1>1, <1>5, <1>7 DEF MountedMounts, Told
<1>11. FilesMount'
  <2>1. \A p \in Images \ misused : HasFiles(p) => Mounts(p)
    BY DEF FilesInv, FilesMount, HasFiles
  <2>2. \A p \in Images \ misused' : HasFiles(p)' => Mounts(p)'
    BY <1>5, <1>7, <1>8, <2>1
  <2> QED
    BY <2>2 DEF FilesMount, HasFiles
<1> QED
  BY <1>9, <1>10, <1>11 DEF FilesInv

LEMMA InitDeviceFiles ==
    ASSUME SessionInv, FilesInv, NEW shape \in Shapes, InitDevice(shape)
    PROVE  FilesInv'
<1> DEFINE zeroed == Zeroed(BytesPerSector(shape) * SectorCount(shape))
<1>1. PICK p \in Images : p = Path(attached) /\ Path(attached)' = p
  BY SectorsType DEF InitDevice, SessionInv, TypeOK, Path
<1>2. zeroed.bpb = NoBpb /\ \A n \in Names : zeroed.files[n] = Missing
  BY DEF Zeroed, NoFiles
<1>3. image' = IF p \in Openable THEN [image EXCEPT ![p] = zeroed] ELSE image
  BY <1>1 DEF InitDevice
<1> HIDE DEF zeroed
<1>4. \A q \in Images : image'[q] = image[q] \/ (q = p /\ image'[q] = zeroed)
  BY <1>1, <1>3 DEF SessionInv, TypeOK
<1>5. ~HasFiles(p)'
  <2>1. CASE p \in Openable
    BY <1>1, <1>2, <1>3, <2>1 DEF HasFiles, SessionInv, TypeOK
  <2>2. CASE p \notin Openable
    BY <1>1, <1>3, <2>2 DEF HasFiles, FilesInv, FilesFormatted, SessionInv, DevicesInv
  <2> QED
    BY <2>1, <2>2
<1>6. \A q \in Images : q # p => (q \in misused' <=> q \in misused)
  BY <1>1 DEF InitDevice
<1>7. \A q \in Images : q # p => (HasFiles(q)' <=> HasFiles(q)) /\ (Exists(q)' <=> Exists(q))
  BY <1>4 DEF HasFiles, Exists
<1>8. \A q \in Images : q # p => (Mounts(q)' <=> Mounts(q))
  BY <1>4 DEF Mounts
<1>9. FilesFormatted'
  <2>1. \A q \in Images : q # p /\ HasFiles(q)' => Exists(q)' /\ image'[q].bpb # NoBpb
    BY <1>4, <1>7 DEF FilesInv, FilesFormatted
  <2>2. \A q \in Images : HasFiles(q)' => Exists(q)' /\ image'[q].bpb # NoBpb
    BY <1>5, <2>1
  <2> QED
    BY <2>2 DEF FilesFormatted
<1>10. TotalsRight'
  BY <1>2, <1>4 DEF FilesInv, TotalsRight
<1>11. MountedMounts'
  BY <1>1, Sentinels DEF InitDevice, MountedMounts, Mounted, Told
<1>12. FilesMount'
  <2>1. ASSUME NEW q \in Images \ misused', HasFiles(q)' PROVE Mounts(q)'
    <3>1. q # p /\ q \notin misused
      BY <1>5, <1>6, <2>1
    <3>2. HasFiles(q)
      BY <1>7, <2>1, <3>1
    <3>3. Mounts(q)
      BY <3>1, <3>2 DEF FilesInv, FilesMount, HasFiles
    <3> QED
      BY <1>8, <3>1, <3>3
  <2> QED
    BY <2>1 DEF FilesMount, HasFiles
<1> QED
  BY <1>9, <1>10, <1>11, <1>12 DEF FilesInv

\* Formatting a volume again leaves its total alone: the device has as many sectors.
LEMMA FormatFiles ==
    ASSUME SessionInv, WholeInv, FilesInv, NEW boot \in Typed, NEW reserved \in Typed,
           Format(boot, reserved)
    PROVE  FilesInv'
<1>1. PICK p \in Images : p = Path(attached)
  BY SectorsType DEF Format
<1> DEFINE bpb == [bps |-> heap[attached].sector_size,
                   reserved |-> (1 + ReservedSectors(reserved, SizeAfter(boot, dataSize))) % 65536,
                   total |-> TotalSectors16(Sectors(attached)), code |-> BootText(boot)]
<1>2. attached # NoDevice /\ heap[attached] \in Device
  BY SectorsType DEF Format
<1>3. WriteBootSector(p, bpb)
  BY <1>1 DEF Format
<1>4. /\ bpb # NoBpb /\ bpb.bps # 0
      /\ bpb.total = TotalSectors16(image[p].bytes \div bpb.bps)
  BY <1>1, <1>2 DEF Device, NoBpb, Sectors
<1> HIDE DEF bpb
<1>5. /\ image'[p].bpb = bpb /\ image'[p].there = image[p].there
      /\ \A q \in Images : q # p => image'[q] = image[q]
      /\ misused \subseteq misused'
      /\ p \notin misused' => image[p].bpb = NoBpb \/ SameLayout(image[p].bpb, bpb)
  BY <1>1, <1>3, WriteBootSectorWhole
<1>6. \A q \in Images : image'[q].bytes = image[q].bytes /\ image'[q].files = image[q].files
  BY <1>1, <1>3, WriteBootSectorBytes
<1>7. \A q \in Images : (HasFiles(q)' <=> HasFiles(q)) /\ (Exists(q)' <=> Exists(q))
  BY <1>1, <1>5, <1>6 DEF HasFiles, Exists
<1>8. FilesFormatted'
  BY <1>4, <1>5, <1>7 DEF FilesInv, FilesFormatted
<1>9. TotalsRight'
  BY <1>4, <1>5, <1>6 DEF FilesInv, TotalsRight
<1>10. p \notin misused' /\ image[p].bpb # NoBpb /\ Mounts(p) => Mounts(p)'
  <2> SUFFICES ASSUME p \notin misused', image[p].bpb # NoBpb, Mounts(p) PROVE Mounts(p)'
    OBVIOUS
  <2>1. SameLayout(image[p].bpb, image'[p].bpb)
    BY <1>5
  <2>3. image[p].bpb.total = TotalSectors16(image[p].bytes \div image[p].bpb.bps)
    BY <1>1 DEF FilesInv, TotalsRight
  <2>2. image'[p].bpb.total = image[p].bpb.total
    BY <2>3, <1>1, <1>4, <1>5, <2>1 DEF FilesInv, TotalsRight, SameLayout
  <2> QED
    BY <1>1, <1>6, <2>1, <2>2, MountsByLayout
<1>11. \A q \in Images : q # p => (Mounts(q)' <=> Mounts(q))
  BY <1>5 DEF Mounts
<1>12. FilesMount'
  <2>1. \A q \in Images \ misused : HasFiles(q) => Mounts(q) /\ image[q].bpb # NoBpb
    BY DEF FilesInv, FilesMount, FilesFormatted, HasFiles
  <2>2. ASSUME NEW q \in Images \ misused', HasFiles(q)' PROVE Mounts(q)'
    <3>1. Mounts(q) /\ image[q].bpb # NoBpb
      BY <1>5, <1>7, <2>1, <2>2
    <3>2. CASE q = p
      BY <1>10, <2>2, <3>1, <3>2
    <3>3. CASE q # p
      BY <1>11, <3>1, <3>3
    <3> QED
      BY <3>2, <3>3
  <2> QED
    BY <2>2 DEF FilesMount, HasFiles
<1>13. MountedMounts'
  <2>1. CASE Restart
    BY <2>1 DEF Restart, MountedMounts, Mounted
  <2>2. CASE UNCHANGED <<attached, fs, buffer, bufferSize, heap, host>>
    <3>1. Path(attached)' = p /\ (Mounted' <=> Mounted)
      BY <1>1, <2>2 DEF Path, Mounted
    <3>2. ASSUME Mounted, Exists(p), p \notin misused'
          PROVE  Mounts(p)'
      BY <1>1, <1>5, <1>10, <3>2 DEF FilesInv, MountedMounts, Told, WholeInv, LayoutsMatch
    <3>3. Mounted' /\ Told(Path(attached))' => Mounted /\ Exists(p) /\ p \notin misused'
      BY <1>1, <1>5, <3>1 DEF Told, Exists
    <3>4. Mounts(p)' => Mounts(Path(attached))'
      BY <3>1 DEF Mounts
    <3> QED
      BY <3>2, <3>3, <3>4 DEF MountedMounts
  <2> QED
    BY <2>1, <2>2 DEF Format
<1> QED
  BY <1>8, <1>9, <1>12, <1>13 DEF FilesInv

LEMMA MountFiles ==
    ASSUME SessionInv, WholeInv, FilesInv, Mount PROVE FilesInv'
<1>1. Path(attached) \in Images /\ Path(attached)' = Path(attached)
  BY SectorsType DEF Mount, Path
<1>2. UNCHANGED <<image, misused>>
  BY DEF Mount
<1>3. Told(Path(attached)) => Mounts(Path(attached))
  BY <1>1 DEF Mount, Formatted12, WholeInv, SectorsMatch, Mounts, Sectors
<1>4. MountedMounts'
  <2>1. Mounts(Path(attached))' <=> Mounts(Path(attached))
    BY <1>1, <1>2 DEF Mounts
  <2>2. Told(Path(attached))' <=> Told(Path(attached))
    BY <1>1, <1>2 DEF Told, Exists
  <2> QED
    BY <1>3, <2>1, <2>2 DEF MountedMounts
<1>5. FilesFormatted' /\ TotalsRight' /\ FilesMount'
  BY <1>2 DEF FilesInv, FilesFormatted, TotalsRight, FilesMount, HasFiles, Exists, Mounts
<1> QED
  BY <1>4, <1>5 DEF FilesInv

LEMMA NextFiles == SessionInv /\ WholeInv /\ FilesInv /\ [Next]_vars => FilesInv'
<1> SUFFICES ASSUME SessionInv, WholeInv, FilesInv, [Next]_vars PROVE FilesInv'
  OBVIOUS
<1>1. ASSUME NEW p \in Images, NEW media \in Media, NEW no_exist \in BOOLEAN,
             Attach(p, media, no_exist)
      PROVE  FilesInv'
  BY <1>1, QuietFiles, WhileMounted DEF Attach, Mounted
<1>2. CASE Detach
  BY <1>2, QuietFiles DEF Detach, Mounted
<1>3. ASSUME NEW shape \in Shapes, InitDevice(shape) PROVE FilesInv'
  BY <1>3, InitDeviceFiles
<1>4. ASSUME NEW boot \in Typed, RefuseFormat(boot) PROVE FilesInv'
  BY <1>4, QuietFiles DEF RefuseFormat, Mounted, Path
<1>5. ASSUME NEW boot \in Typed, NEW reserved \in Typed, Format(boot, reserved)
      PROVE  FilesInv'
  BY <1>5, FormatFiles
<1>6. CASE Mount
  BY <1>6, MountFiles
<1>7. CASE MountNothing \/ MountAborts \/ Unmount \/ Exit
  BY <1>7, QuietFiles DEF MountNothing, MountAborts, Unmount, Exit, Restart, Mounted
<1>8. CASE FlushAborts
  BY <1>8, QuietFiles, FlushAbortsImages DEF FlushAborts, Restart, Mounted
<1>9. ASSUME NEW n \in Names, Touch(n) \/ Write(n) \/ WriteNothing(n) \/ Read(n)
      PROVE  FilesInv'
  <2>1. PICK f \in File \cup {Missing} : Mounted /\ Keep(n, f)
    <3>1. CASE Touch(n) \/ WriteNothing(n)
      BY <3>1, FileHere DEF Touch, WriteNothing
    <3>2. CASE Write(n)
      BY <3>2, SessionAssumption DEF Write, SessionInv, TypeOK, File
    <3>3. CASE Read(n)
      BY <3>3, FileHere DEF Read
    <3> QED
      BY <1>9, <3>1, <3>2, <3>3
  <2>2. misused' = misused /\ (Mounted' => Path(attached)' = Path(attached))
    BY <1>9 DEF Touch, Write, WriteNothing, Read, Restart, process, Mounted, Path
  <2> QED
    BY <2>1, <2>2, KeepFiles
<1>10. ASSUME NEW h \in HostFiles, Import(h) PROVE FilesInv'
  BY <1>10, QuietFiles DEF Import, Mounted, Path
<1>11. ASSUME NEW h \in Exports, Export(h) PROVE FilesInv'
  BY <1>11, QuietFiles DEF Export, process, Mounted, Path
<1>12. CASE UNCHANGED vars
  BY <1>12, QuietFiles DEF vars, process, Mounted, Path
<1> QED
  BY <1>1, <1>2, <1>3, <1>4, <1>5, <1>6, <1>7, <1>8, <1>9, <1>10, <1>11, <1>12 DEF Next

\* A volume that holds a file can be mounted, whatever was attached, formatted or mounted
\* since the file was stored, unless it was misused (shell_format, fat12_format_device,
\* vfs_mount, fat12_test).
THEOREM FilesAlwaysMount == Spec => []FilesMount
<1>1. FilesInv => FilesMount
  BY DEF FilesInv
<1>2. Spec => []WholeInv
  BY InitWhole, NextWhole, SessionSound, FlushesReach, PTL DEF Spec
<1> QED
  BY <1>1, <1>2, InitFiles, NextFiles, SessionSound, PTL DEF Spec

-----------------------------------------------------------------------------
(* Which formatted devices mount.                                            *)

\* The root directory has 224 entries of 32 bytes.  Rounded up to sectors it holds no
\* more than them exactly when it fills its sectors.
LEMMA RootFills ==
    ASSUME NEW a \in Nat \ {0}, a % 32 = 0
    PROVE  /\ (7168 + a - 1) \div a \in Nat
           /\ (((7168 + a - 1) \div a) * a) \div 32 <= 224 <=> 7168 % a = 0
           /\ 7168 % a = 0 => (7168 + a - 1) \div a = 7168 \div a
<1> DEFINE r == (7168 + a - 1) \div a
<1>1. r \in Nat /\ r * a >= 7168 /\ r * a < 7168 + a
  OBVIOUS
<1>2. PICK k \in Nat : a = 32 * k
  OBVIOUS
<1>3. PICK n \in Nat : n = r * k /\ r * a = 32 * n
  BY <1>1, <1>2
<1> HIDE DEF r
<1>4. (r * a) \div 32 = n /\ n >= 224
  BY <1>1, <1>3
<1>5. CASE 7168 % a = 0
  <2>1. PICK q \in Nat : q = 7168 \div a /\ q * a = 7168
    BY <1>5
  <2>2. CASE r < q
    <3>1. r * a <= (q - 1) * a /\ (q - 1) * a = q * a - a
      BY <2>2, <1>1
    <3> QED BY <3>1, <2>1, <1>1
  <2>3. CASE r > q
    <3>1. r * a >= (q + 1) * a /\ (q + 1) * a = q * a + a
      BY <2>3, <1>1
    <3> QED BY <3>1, <2>1, <1>1
  <2>4. r = q
    BY <2>1, <2>2, <2>3, <1>1
  <2> QED BY <2>1, <2>4, <1>1, <1>3, <1>4, <1>5 DEF r
<1>6. CASE 7168 % a # 0
  <2>1. r * a # 7168
    <3>1. SUFFICES ASSUME r * a = 7168 PROVE 7168 % a = 0
      BY <1>6
    <3>2. (a * r) % a = 0
      BY <1>1
    <3> QED BY <3>1, <3>2, <1>1
  <2> QED BY <2>1, <1>1, <1>3, <1>4, <1>6 DEF r
<1> QED
  BY <1>1, <1>5, <1>6 DEF r

\* The checks of fat12_test and the asserts on the way of fat12_load_directory, for a
\* boot sector with the true total.
LEMMA MountsPlainly ==
    ASSUME SessionInv, FilesInv, NEW p \in Images,
           image[p].bpb # NoBpb, image[p].bpb.bps % EntryBytes = 0,
           image[p].bytes \div image[p].bpb.bps < 65536
    PROVE  LET bpb     == image[p].bpb
               sectors == image[p].bytes \div bpb.bps
               areas   == bpb.reserved + 18 + 7168 \div bpb.bps
           IN  Mounts(p) <=> 7168 % bpb.bps = 0 /\ areas < sectors /\ sectors <= areas + 4084
<1> DEFINE bpb     == image[p].bpb
           sectors == image[p].bytes \div bpb.bps
           r       == RootSize(bpb)
           m       == 7168 \div bpb.bps
<1>1. /\ bpb.bps \in Nat \ {0} /\ bpb.reserved \in Nat /\ bpb.bps % 32 = 0
      /\ image[p].bytes \in Nat
      /\ bpb.total = TotalSectors16(sectors)
  BY DEF SessionInv, TypeOK, Volume, Bpb, FilesInv, TotalsRight, EntryBytes
<1>2. sectors \in Nat /\ m \in Nat /\ sectors < 65536
  BY <1>1
<1>3. r = (7168 + bpb.bps - 1) \div bpb.bps
  BY DEF RootSize, DirectoryEntries, EntryBytes
<1>4. /\ r \in Nat
      /\ EntriesRead(bpb) <= DirectoryEntries <=> 7168 % bpb.bps = 0
      /\ 7168 % bpb.bps = 0 => r = m
  BY <1>1, <1>3, RootFills DEF EntriesRead, DirectoryEntries, EntryBytes
<1>5. RootStart(bpb) = bpb.reserved + 18 /\ DataStart(bpb) = bpb.reserved + 18 + r
  BY <1>1, <1>4 DEF RootStart, DataStart, FatStart, TableCount, SectorsPerFat
<1>6. bpb.total = sectors
  BY <1>1, <1>2 DEF TotalSectors16
<1>7. Mounts(p) <=> /\ sectors >= bpb.reserved + 18 + r
                    /\ sectors - (bpb.reserved + 18 + r) < 4085
                    /\ bpb.reserved + 18 < sectors /\ bpb.reserved + 18 + r < sectors
                    /\ EntriesRead(bpb) <= DirectoryEntries
  BY <1>5, <1>6 DEF Mounts, Recognised, RootLoads, InReach, MaxClusters12
<1> HIDE DEF bpb, sectors, r, m
<1>8. Mounts(p) <=> /\ 7168 % bpb.bps = 0
                    /\ bpb.reserved + 18 + m < sectors
                    /\ sectors <= bpb.reserved + 18 + m + 4084
  BY <1>1, <1>2, <1>4, <1>7
<1> QED
  BY <1>8 DEF bpb, sectors, m

\* Through 16-bit totals, an unsigned difference that wraps and the asserts on sectors,
\* a formatted device mounts exactly when one plain inequality holds (fat12_test,
\* fat12_load_directory, device_read_sectors).
THEOREM FormattedDevicesMount == Spec => []FormattedMounts
<1>1. SessionInv /\ FilesInv => FormattedMounts
  BY MountsPlainly DEF FormattedMounts
<1>2. Spec => []WholeInv
  BY InitWhole, NextWhole, SessionSound, FlushesReach, PTL DEF Spec
<1> QED
  BY <1>1, <1>2, InitFiles, NextFiles, SessionSound, PTL DEF Spec

=============================================================================
