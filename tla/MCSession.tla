-------------------------------- MODULE MCSession --------------------------------
(* Session for TLC: the sizes of the contents and of the host's files. *)
EXTENDS Session, TLC

\* A boot sector, and a text that begins its 65535th sector: more than a table has clusters
\* for, and as reserved sectors, with the boot sector, none in 16 bits.
MCSize == [t \in {"", "text", "boot"} |->
    CASE t = "" -> 0 [] t = "text" -> 65534 * 512 + 1 [] t = "boot" -> 512]

\* A file for each, and a name no file has until it is exported to.
MCHostText == [h \in {"t.bin", "boot.bin", "out"} |->
    CASE h = "t.bin" -> "text" [] h = "boot.bin" -> "boot" [] h = "out" -> Missing]

\* A floppy; sectors of another size, and of one the root directory does not fill;
\* the fewest for a volume and one too many, which are none and the most when a sector
\* is reserved; and more sectors than 16 bits count.
MCShapes ==
    {[bps |-> 0, count |-> 0], [bps |-> 1024, count |-> 1000], [bps |-> 2048, count |-> 1000]}
        \cup [bps : {512}, count : {34, 4118, 65536 + 100}]

MCDevices == Permutations(Devices)
=============================================================================
