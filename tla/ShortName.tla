------------------------------- MODULE ShortName -------------------------------
(***************************************************************************)
(* File names (src/fat/fat12.c, src/vfs/path.c): the eleven characters of  *)
(* a directory entry made from what the user types, and the name a node    *)
(* gets from them.  A name is a sequence of characters.                    *)
(***************************************************************************)
EXTENDS Naturals, SequencesExt

CONSTANT Beyond     \* what may be found in memory after the buffer of a name

LowerCase == <<"a", "b", "c", "d", "e", "f", "g", "h", "i", "j", "k", "l", "m",
               "n", "o", "p", "q", "r", "s", "t", "u", "v", "w", "x", "y", "z">>
UpperCase == <<"A", "B", "C", "D", "E", "F", "G", "H", "I", "J", "K", "L", "M",
               "N", "O", "P", "Q", "R", "S", "T", "U", "V", "W", "X", "Y", "Z">>
Digits == {"0", "1", "2", "3", "4", "5", "6", "7", "8", "9"}
Signs  == {"!", "#", "$", "%", "&", "quote", "(", ")", "-", "@", "^", "_", "backquote", "{", "}", "~"}

\* The parts of a stored name.
NameSize == 8
ExtSize  == 3

Space  == " "
Dot    == "."
Erased == "E5"      \* the first character of a deleted entry
Nul    == "00"      \* the first character of an entry never used

NameChars == Range(UpperCase) \cup Digits \cup Signs
ExtChars  == Range(UpperCase) \cup Digits

ASSUME BeyondAssumption == Beyond \subseteq ExtChars /\ Cardinality(Beyond) > 1

-----------------------------------------------------------------------------
(* The short name.                                                          *)

\* The loop of vfs_parse_filename.  Every dot goes back to the start of the extension,
\* which keeps what is not written over: a.tar.gz has the extension gzr.
WithChar(p, c) ==
    IF c = Dot THEN [p EXCEPT !.at = 1]
    ELSE IF p.at = 0 THEN [p EXCEPT !.name = Append(p.name, c)]
    ELSE [p EXCEPT !.ext = IF p.at > Len(p.ext) THEN Append(p.ext, c)
                           ELSE [p.ext EXCEPT ![p.at] = c],
                   !.at = p.at + 1]

Unparsed == [name |-> <<>>, ext |-> <<>>, at |-> 0]

\* vfs_parse_filename
Parsed(file) ==
    LET parsed[i \in 0 .. Len(file)] ==
            IF i = 0 THEN Unparsed ELSE WithChar(parsed[i - 1], file[i])
    IN  parsed[Len(file)]

Capital(c) ==
    IF c \in Range(LowerCase)
    THEN UpperCase[CHOOSE i \in DOMAIN LowerCase : LowerCase[i] = c] ELSE c

NameChar(c) == IF c = "+" THEN "_" ELSE Capital(c)

\* The characters that are allowed; the others are skipped.
Kept(chars, allowed) ==
    LET kept[i \in 0 .. Len(chars)] ==
            IF i = 0 THEN <<>>
            ELSE IF chars[i] \in allowed THEN Append(kept[i - 1], chars[i])
            ELSE kept[i - 1]
    IN  kept[Len(chars)]

\* The first cut characters that may be stored; the others are not counted.  A text
\* with fewer than cut of them is read past its end.
Converted(chars, allowed, cut) ==
    LET kept == Kept(chars, allowed)
    IN  {SubSeq(kept \o more, 1, cut) : more \in [1..(cut - Len(kept)) -> Beyond]}

Padded(text, len) == [i \in 1..len |-> IF i <= Len(text) THEN text[i] ELSE Space]

\* fat12_convert_to_short_name, with a truncation number of 1.
NamePart(name) ==
    LET cut == IF Len(name) > NameSize THEN NameSize - 2 ELSE Len(name)
        end == IF Len(name) > NameSize THEN <<"~", "1">> ELSE <<>>
    IN  {Padded(text \o end, NameSize) :
            text \in Converted([i \in DOMAIN name |-> NameChar(name[i])], NameChars, cut)}

\* fat12_convert_to_extension
ExtPart(ext) ==
    LET cut == IF Len(ext) > ExtSize THEN ExtSize ELSE Len(ext)
    IN  {Padded(text, ExtSize) :
            text \in Converted([i \in DOMAIN ext |-> Capital(ext[i])], ExtChars, cut)}

\* fat12_construct_short_name.  There are several only where memory past the end
\* of a buffer decides.
ShortNames(file) ==
    LET parsed == Parsed(file)
    IN  {name \o ext : name \in NamePart(parsed.name), ext \in ExtPart(parsed.ext)}

-----------------------------------------------------------------------------
(* The standard name.                                                       *)

\* fat12_construct_standard_name_from_sfn
StandardName(short) ==
    LET Unpadded(part) == Kept(part, Range(part) \ {Space})
        name == SubSeq(short, 1, NameSize)
        ext  == SubSeq(short, NameSize + 1, NameSize + ExtSize)
    IN  Unpadded(name) \o (IF ext[1] = Space THEN <<>> ELSE <<Dot>> \o Unpadded(ext))

-----------------------------------------------------------------------------
\* The names of entries in use: at most eight characters and three, each with spaces
\* behind them.
Stored ==
    {short \in [1 .. NameSize + ExtSize -> NameChars \cup {Space}] :
        \E n \in 0 .. NameSize, e \in 0 .. ExtSize :
            /\ \A i \in 1 .. NameSize : short[i] = Space <=> i > n
            /\ \A i \in 1 .. ExtSize :
                  IF i > e THEN short[NameSize + i] = Space ELSE short[NameSize + i] \in ExtChars}

=============================================================================
