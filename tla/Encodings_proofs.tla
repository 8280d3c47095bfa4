--------------------------- MODULE Encodings_proofs ---------------------------
(***************************************************************************)
(* Theorems about the encodings: a short name is eleven characters that    *)
(* may be stored, and the name a node gets from it has that short name and *)
(* no other; for a table of any size, a 12-bit entry reads back as it was  *)
(* last written; for a directory of any size and whatever names are typed, *)
(* an entry and its node say the same between two commands.                *)
(***************************************************************************)
EXTENDS Fat12Packing, DirEntry, Inductions, SequenceTheorems

-----------------------------------------------------------------------------
(* Names: what the recursive functions of ShortName do.                     *)

\* A character that may be stored is none that means something.
LEMMA NameCharFacts ==
    ASSUME NEW c \in NameChars
    PROVE  /\ c \notin {Space, Dot, Erased, Nul, "+"}
           /\ c \notin Range(LowerCase)
<1>1. Range(UpperCase) = {"A", "B", "C", "D", "E", "F", "G", "H", "I", "J", "K", "L", "M",
               "N", "O", "P", "Q", "R", "S", "T", "U", "V", "W", "X", "Y", "Z"}
  BY DEF UpperCase, Range
<1>2. Range(LowerCase) = {"a", "b", "c", "d", "e", "f", "g", "h", "i", "j", "k", "l", "m",
               "n", "o", "p", "q", "r", "s", "t", "u", "v", "w", "x", "y", "z"}
  BY DEF LowerCase, Range
<1>3. c \notin {Space, Dot, Erased, Nul, "+"}
  BY <1>1 DEF NameChars, Digits, Signs, Space, Dot, Erased, Nul
<1>4. c \notin Range(LowerCase)
  BY <1>1, <1>2 DEF NameChars, Digits, Signs
<1> QED
  BY <1>3, <1>4

\* What has been kept after each character.
IsKept(g, S, chars, allowed) ==
    /\ Kept(chars, allowed) = g[Len(chars)]
    /\ g[0] = <<>>
    /\ \A i \in 1 .. Len(chars) :
          g[i] = IF chars[i] \in allowed THEN Append(g[i - 1], chars[i]) ELSE g[i - 1]
    /\ \A i \in 0 .. Len(chars) : g[i] \in Seq(S \cap allowed)

\* The values of the recursive function of Kept, one by one.
LEMMA KeptSteps ==
    ASSUME NEW S, NEW chars \in Seq(S), NEW allowed
    PROVE  \E g : IsKept(g, S, chars, allowed)
<1> DEFINE n == Len(chars)
           T == Seq(S \cap allowed)
           Next1(i, s) == IF chars[i] \in allowed THEN Append(s, chars[i]) ELSE s
           step == [i \in 1 .. n |-> [s \in T |-> Next1(i, s)]]
           Is(h) == h = [i \in 0 .. n |->
                            IF i = 0 THEN <<>>
                            ELSE IF chars[i] \in allowed THEN Append(h[i - 1], chars[i])
                            ELSE h[i - 1]]
<1>1. n \in Nat /\ <<>> \in T /\ \A i \in 1 .. n : chars[i] \in S
  OBVIOUS
<1>2. \A i \in 1 .. n : \A s \in T : Next1(i, s) \in T
  <2> SUFFICES ASSUME NEW i \in 1 .. n, NEW s \in T PROVE Next1(i, s) \in T
    OBVIOUS
  <2>1. CASE chars[i] \in allowed
    <3>1. chars[i] \in S \cap allowed
      BY <1>1, <2>1
    <3> QED BY <2>1, <3>1, AppendProperties
  <2> QED BY <2>1
<1>3. step \in [1 .. n -> [T -> T]]
  <2> HIDE DEF T, Next1, n
  <2> QED BY <1>2
<1>4. \A i \in 1 .. n : \A s \in T : step[i][s] = Next1(i, s)
  <2> HIDE DEF T, Next1, n
  <2> QED OBVIOUS
<1>5. PICK h : h \in Stepwise(T, n, <<>>, step)
  <2> HIDE DEF T, step, n
  <2> QED BY <1>1, <1>3, StepByStep
<1>6. Is(h)
  <2>1. \A i \in 1 .. n : h[i - 1] \in T
    <3> HIDE DEF T, step
    <3> QED BY <1>1, <1>5 DEF Stepwise
  <2>2. \A i \in 1 .. n : h[i] = Next1(i, h[i - 1])
    <3> HIDE DEF T, step, Next1, n
    <3> QED BY <1>4, <1>5, <2>1 DEF Stepwise
  <2>3. \A i \in 0 .. n : i # 0 => i \in 1 .. n
    BY <1>1
  <2>4. h[0] = <<>> /\ h = [i \in 0 .. n |-> h[i]]
    <3> HIDE DEF T, step, n
    <3> QED BY <1>5 DEF Stepwise
  <2>5. \A i \in 0 .. n : h[i] = IF i = 0 THEN <<>> ELSE Next1(i, h[i - 1])
    <3> HIDE DEF Next1, n
    <3> QED BY <2>2, <2>3, <2>4
  <2> HIDE DEF n
  <2> QED BY <2>4, <2>5
<1> DEFINE g == CHOOSE f : Is(f)
<1>7. Is(g)
  <2> HIDE DEF Is
  <2> QED BY <1>6
<1>8. Kept(chars, allowed) = g[n]
  BY DEF Kept
<1> HIDE DEF g
<1>9. g[0] = <<>> /\ \A i \in 1 .. n : g[i] = Next1(i, g[i - 1])
  <2>1. 0 \in 0 .. n /\ \A i \in 1 .. n : i \in 0 .. n /\ i # 0
    BY <1>1
  <2> HIDE DEF n
  <2> QED BY <1>7, <2>1
<1>10. \A i \in 0 .. n : g[i] \in T
  <2>1. \A i \in 1 .. n : g[i - 1] \in T => g[i] \in T
    <3> HIDE DEF T, Next1, n
    <3> QED BY <1>2, <1>9
  <2> HIDE DEF T, n, Next1, Is
  <2> QED BY <1>1, <1>9, <2>1, HoldsOfAll
<1> QED
  BY <1>9, <1>10, <1>8 DEF IsKept

\* The first characters of a text.
First(text, i) == [j \in 1 .. i |-> text[j]]

\* The first characters, one more at a time.
LEMMA FirstAppend ==
    ASSUME NEW S, NEW text \in Seq(S), NEW i \in 1 .. Len(text)
    PROVE  /\ First(text, i - 1) \in Seq(S)
           /\ Append(First(text, i - 1), text[i]) = First(text, i)
           /\ First(text, Len(text)) = text
           /\ First(text, 0) = <<>>
<1> DEFINE front == First(text, i - 1)
<1>1. front \in Seq(S) /\ Len(front) = i - 1 /\ \A j \in 1 .. i - 1 : front[j] = text[j]
  BY DEF First
<1>2. text[i] \in S
  OBVIOUS
<1>3. /\ Append(front, text[i]) \in Seq(S) /\ Len(Append(front, text[i])) = i
      /\ \A j \in 1 .. i : Append(front, text[i])[j] = text[j]
  <2> HIDE DEF front
  <2> QED BY <1>1, <1>2, AppendProperties
<1>4. Append(front, text[i]) = [j \in 1 .. i |-> text[j]]
  <2> HIDE DEF front
  <2> QED BY <1>3
<1> QED
  BY <1>1, <1>4 DEF First

\* A text that begins with characters that are all allowed and goes on with others
\* that are not keeps just those.
LEMMA KeptPrefix ==
    ASSUME NEW S, NEW chars \in Seq(S), NEW allowed, NEW k \in 0 .. Len(chars),
           \A i \in 1 .. k : chars[i] \in allowed,
           \A i \in k + 1 .. Len(chars) : chars[i] \notin allowed
    PROVE  Kept(chars, allowed) = First(chars, k)
<1>1. PICK g : IsKept(g, S, chars, allowed)
  BY KeptSteps
<1> DEFINE n == Len(chars)
           Upto(i) == First(chars, IF i <= k THEN i ELSE k)
<1>2. /\ Kept(chars, allowed) = g[n] /\ g[0] = <<>>
      /\ \A i \in 1 .. n :
            g[i] = IF chars[i] \in allowed THEN Append(g[i - 1], chars[i]) ELSE g[i - 1]
  BY <1>1 DEF IsKept
<1>3. n \in Nat /\ k \in Nat /\ k <= n
  OBVIOUS
<1> DEFINE D == {i \in 0 .. n : g[i] = Upto(i)}
<1>4. 0 \in D
  <2>1. First(chars, 0) = <<>>
    BY DEF First
  <2> HIDE DEF n
  <2> QED BY <1>2, <1>3, <2>1
<1>5. ASSUME NEW i \in 0 .. n - 1, i \in D PROVE i + 1 \in D
  <2>1. i + 1 \in 1 .. n /\ (i + 1) - 1 = i /\ i + 1 \in 0 .. n
    BY <1>3
  <2>2. g[i] = Upto(i)
    BY <1>5
  <2>3. CASE i + 1 <= k
    <3>1. chars[i + 1] \in allowed
      BY <2>1, <2>3
    <3>2. g[i + 1] = Append(g[i], chars[i + 1])
      <4> HIDE DEF n
      <4> QED BY <1>2, <2>1, <3>1
    <3>3. Append(First(chars, i), chars[i + 1]) = First(chars, i + 1)
      BY <2>1, FirstAppend
    <3>4. Upto(i) = First(chars, i) /\ Upto(i + 1) = First(chars, i + 1)
      BY <2>1, <2>3, <1>3
    <3> HIDE DEF n, Upto
    <3> QED BY <2>1, <2>2, <3>2, <3>3, <3>4
  <2>4. CASE i + 1 > k
    <3>1. chars[i + 1] \notin allowed
      BY <1>3, <2>1, <2>4
    <3>2. g[i + 1] = g[i]
      <4> HIDE DEF n
      <4> QED BY <1>2, <2>1, <3>1
    <3>3. Upto(i) = Upto(i + 1)
      <4>1. i = k \/ i > k
        BY <1>3, <2>1, <2>4
      <4> QED BY <2>4, <4>1
    <3> HIDE DEF n, Upto
    <3> QED BY <2>1, <2>2, <3>2, <3>3
  <2> QED BY <1>3, <2>1, <2>3, <2>4
<1>6. n \in D
  <2> HIDE DEF D
  <2>1. 0 .. n \subseteq D
    <3> HIDE DEF n
    <3> QED BY <1>3, <1>4, <1>5, UpTo
  <2> QED BY <1>3, <2>1
<1>7. Upto(n) = First(chars, k)
  BY <1>3
<1> HIDE DEF n, Upto
<1> QED
  BY <1>2, <1>6, <1>7

-----------------------------------------------------------------------------
(* Names as they are typed: whatever they are, what becomes of them is well  *)
(* formed.                                                                   *)

\* What is in memory may be stored in an extension.
LEMMA BeyondFacts == Beyond \subseteq ExtChars /\ ExtChars \subseteq NameChars
  BY BeyondAssumption DEF ExtChars, NameChars

\* What is converted has as many characters as were asked for, all of them allowed.
LEMMA ConvertedType ==
    ASSUME NEW S, NEW chars \in Seq(S), NEW allowed, Beyond \subseteq allowed,
           NEW cut \in Nat, NEW text \in Converted(chars, allowed, cut)
    PROVE  text \in [1 .. cut -> allowed]
<1>1. PICK g : IsKept(g, S, chars, allowed)
  BY KeptSteps
<1> DEFINE kept == Kept(chars, allowed)
<1>2. kept \in Seq(allowed)
  <2>1. Len(chars) \in Nat /\ Len(chars) \in 0 .. Len(chars)
    OBVIOUS
  <2>2. g[Len(chars)] \in Seq(S \cap allowed)
    BY <1>1, <2>1 DEF IsKept
  <2>3. kept \in Seq(S \cap allowed)
    BY <1>1, <2>2 DEF IsKept
  <2> HIDE DEF kept
  <2> QED BY <2>3
<1>3. PICK more \in [1 .. cut - Len(kept) -> Beyond] : text = SubSeq(kept \o more, 1, cut)
  BY DEF Converted
<1> HIDE DEF kept
<1>4. Len(kept) \in Nat /\ \A i \in 1 .. Len(kept) : kept[i] \in allowed
  BY <1>2
<1>5. CASE cut >= Len(kept)
  <2>1. cut - Len(kept) \in Nat
    BY <1>4, <1>5
  <2>2. more \in Seq(allowed) /\ Len(more) = cut - Len(kept)
    BY <2>1
  <2>3. /\ kept \o more \in Seq(allowed)
        /\ Len(kept \o more) = Len(kept) + Len(more)
    BY <1>2, <2>2, ConcatProperties
  <2>4. Len(kept \o more) = cut
    BY <1>4, <2>2, <2>3
  <2>5. \A i \in 1 .. cut : (kept \o more)[i] \in allowed
    BY <2>3, <2>4
  <2>6. /\ text \in Seq(allowed)
        /\ Len(text) = IF 1 <= cut THEN cut - 1 + 1 ELSE 0
    BY <1>3, <2>5, SubSeqProperties
  <2> QED BY <2>6
<1>6. CASE cut < Len(kept)
  <2>1. 1 .. cut - Len(kept) = {}
    BY <1>4, <1>6
  <2>2. more = <<>>
    <3>1. 1 .. cut - Len(kept) = 1 .. 0
      BY <2>1
    <3>2. more \in [1 .. 0 -> allowed]
      BY <3>1
    <3>3. more \in Seq(allowed) /\ Len(more) = 0
      BY <3>2
    <3> QED BY <3>3
  <2>3. kept \o more = kept
    BY <1>2, <2>2, ConcatEmptySeq
  <2>4. \A i \in 1 .. cut : (kept \o more)[i] \in allowed
    BY <1>4, <1>6, <2>3
  <2>5. /\ text \in Seq(allowed)
        /\ Len(text) = IF 1 <= cut THEN cut - 1 + 1 ELSE 0
    BY <1>3, <2>4, SubSeqProperties
  <2> QED BY <2>5
<1> QED
  BY <1>4, <1>5, <1>6

\* What vfs_parse_filename has after each character.
IsParsed(g, S, file) ==
    /\ Parsed(file) = g[Len(file)]
    /\ g[0] = Unparsed
    /\ \A i \in 1 .. Len(file) : g[i] = WithChar(g[i - 1], file[i])
    /\ \A i \in 0 .. Len(file) : g[i] \in [name : Seq(S), ext : Seq(S), at : Nat]

\* One step of vfs_parse_filename.
LEMMA WithCharType ==
    ASSUME NEW S, NEW p \in [name : Seq(S), ext : Seq(S), at : Nat], NEW c \in S
    PROVE  WithChar(p, c) \in [name : Seq(S), ext : Seq(S), at : Nat]
<1>1. /\ p.name \in Seq(S) /\ p.ext \in Seq(S) /\ p.at \in Nat /\ p.at + 1 \in Nat
      /\ p = [name |-> p.name, ext |-> p.ext, at |-> p.at]
  OBVIOUS
<1>2. Append(p.name, c) \in Seq(S) /\ Append(p.ext, c) \in Seq(S)
  BY <1>1, AppendProperties
<1>3. [p.ext EXCEPT ![p.at] = c] \in Seq(S)
  <2>1. Len(p.ext) \in Nat /\ p.ext \in [1 .. Len(p.ext) -> S]
    BY <1>1
  <2> DEFINE ext == [p.ext EXCEPT ![p.at] = c]
  <2>2. ext \in [1 .. Len(p.ext) -> S]
    <3> HIDE DEF ext
    <3>1. DOMAIN ext = 1 .. Len(p.ext) /\ ext = [i \in 1 .. Len(p.ext) |-> ext[i]]
      BY <2>1 DEF ext
    <3>2. \A i \in 1 .. Len(p.ext) : ext[i] \in S
      BY <2>1 DEF ext
    <3> QED BY <3>1, <3>2
  <2>3. ext \in Seq(S)
    <3> HIDE DEF ext
    <3> QED BY <2>1, <2>2
  <2> QED BY <2>3
<1>4. CASE c = Dot
  BY <1>4 DEF WithChar
<1>5. CASE c # Dot /\ p.at = 0
  BY <1>2, <1>5 DEF WithChar
<1>6. CASE c # Dot /\ p.at # 0
  <2> DEFINE ext == IF p.at > Len(p.ext) THEN Append(p.ext, c) ELSE [p.ext EXCEPT ![p.at] = c]
  <2>1. ext \in Seq(S)
    BY <1>2, <1>3
  <2>2. WithChar(p, c) = [p EXCEPT !.ext = ext, !.at = p.at + 1]
    BY <1>6 DEF WithChar
  <2> HIDE DEF ext
  <2> QED BY <1>1, <2>1, <2>2
<1> QED
  BY <1>4, <1>5, <1>6

\* The values of the recursive function of Parsed, one by one.
LEMMA ParsedSteps ==
    ASSUME NEW S, NEW file \in Seq(S)
    PROVE  \E g : IsParsed(g, S, file)
<1> DEFINE n == Len(file)
           T == [name : Seq(S), ext : Seq(S), at : Nat]
           step == [i \in 1 .. n |-> [p \in T |-> WithChar(p, file[i])]]
           Is(h) == h = [i \in 0 .. n |->
                            IF i = 0 THEN Unparsed ELSE WithChar(h[i - 1], file[i])]
<1>1. n \in Nat /\ Unparsed \in T /\ \A i \in 1 .. n : file[i] \in S
  BY DEF Unparsed
<1>2. \A i \in 1 .. n : \A p \in T : WithChar(p, file[i]) \in T
  <2> HIDE DEF T, n
  <2> QED BY <1>1, WithCharType DEF T
<1>3. step \in [1 .. n -> [T -> T]]
  <2> HIDE DEF T, n
  <2> QED BY <1>2
<1>4. \A i \in 1 .. n : \A p \in T : step[i][p] = WithChar(p, file[i])
  <2> HIDE DEF T, n
  <2> QED OBVIOUS
<1>5. PICK h : h \in Stepwise(T, n, Unparsed, step)
  <2> HIDE DEF T, step, n
  <2> QED BY <1>1, <1>3, StepByStep
<1>6. Is(h)
  <2>1. \A i \in 1 .. n : h[i - 1] \in T
    <3> HIDE DEF T, step
    <3> QED BY <1>1, <1>5 DEF Stepwise
  <2>2. \A i \in 1 .. n : h[i] = WithChar(h[i - 1], file[i])
    <3> HIDE DEF T, step, n
    <3> QED BY <1>4, <1>5, <2>1 DEF Stepwise
  <2>3. \A i \in 0 .. n : i # 0 => i \in 1 .. n
    BY <1>1
  <2>4. h[0] = Unparsed /\ h = [i \in 0 .. n |-> h[i]]
    <3> HIDE DEF T, step, n
    <3> QED BY <1>5 DEF Stepwise
  <2>5. \A i \in 0 .. n : h[i] = IF i = 0 THEN Unparsed ELSE WithChar(h[i - 1], file[i])
    <3> HIDE DEF n
    <3> QED BY <2>2, <2>3, <2>4
  <2> HIDE DEF n
  <2> QED BY <2>4, <2>5
<1> DEFINE g == CHOOSE f : Is(f)
<1>7. Is(g)
  <2> HIDE DEF Is
  <2> QED BY <1>6
<1>8. Parsed(file) = g[n]
  BY DEF Parsed
<1> HIDE DEF g
<1>9. g[0] = Unparsed /\ \A i \in 1 .. n : g[i] = WithChar(g[i - 1], file[i])
  <2>1. 0 \in 0 .. n /\ \A i \in 1 .. n : i \in 0 .. n /\ i # 0
    BY <1>1
  <2> HIDE DEF n
  <2> QED BY <1>7, <2>1
<1>10. \A i \in 0 .. n : g[i] \in T
  <2>1. \A i \in 1 .. n : g[i - 1] \in T => g[i] \in T
    <3> HIDE DEF T, n
    <3> QED BY <1>2, <1>9
  <2> HIDE DEF T, n, Is
  <2> QED BY <1>1, <1>9, <2>1, HoldsOfAll
<1> QED
  BY <1>8, <1>9, <1>10 DEF IsParsed

\* Eight or three characters of which the first are allowed and the others spaces.
Part(len, allowed) ==
    {x \in [1 .. len -> allowed \cup {Space}] :
        \E n \in 0 .. len : \A i \in 1 .. len : IF i > n THEN x[i] = Space ELSE x[i] \in allowed}

\* A function on 1 .. n is a sequence.
LEMMA FunctionIsSeq ==
    ASSUME NEW S, NEW n \in Nat, NEW f \in [1 .. n -> S]
    PROVE  f \in Seq(S) /\ Len(f) = n
  OBVIOUS

\* A part of a name is a sequence of its size.
LEMMA PartIsSeq ==
    ASSUME NEW len \in Nat, NEW allowed, NEW x \in Part(len, allowed)
    PROVE  x \in Seq(allowed \cup {Space}) /\ Len(x) = len
<1>1. x \in [1 .. len -> allowed \cup {Space}]
  BY DEF Part
<1> QED
  BY <1>1, FunctionIsSeq

\* Padding fills a part with spaces.
LEMMA PaddedType ==
    ASSUME NEW len \in Nat, NEW allowed, NEW n \in 0 .. len, NEW text \in [1 .. n -> allowed]
    PROVE  Padded(text, len) \in Part(len, allowed)
<1>1. text \in Seq(allowed) /\ Len(text) = n
  OBVIOUS
<1>2. \A i \in 1 .. len : Padded(text, len)[i] = IF i <= n THEN text[i] ELSE Space
  BY <1>1 DEF Padded
<1>3. \A i \in 1 .. len : i <= n => text[i] \in allowed
  OBVIOUS
<1>4. Padded(text, len) \in [1 .. len -> allowed \cup {Space}]
  BY <1>1, <1>3 DEF Padded
<1>5. \A i \in 1 .. len : IF i > n THEN Padded(text, len)[i] = Space
                          ELSE Padded(text, len)[i] \in allowed
  BY <1>2, <1>3
<1> QED
  BY <1>4, <1>5 DEF Part

\* A text of which every character is converted.
LEMMA MappedType ==
    ASSUME NEW S, NEW text \in Seq(S)
    PROVE  /\ [i \in DOMAIN text |-> NameChar(text[i])] \in Seq({NameChar(c) : c \in S})
           /\ [i \in DOMAIN text |-> Capital(text[i])] \in Seq({Capital(c) : c \in S})
<1>1. DOMAIN text = 1 .. Len(text) /\ Len(text) \in Nat /\ \A i \in 1 .. Len(text) : text[i] \in S
  OBVIOUS
<1> QED
  BY <1>1

\* Eight characters and three.
LEMMA Sizes == NameSize \in Nat /\ NameSize = 8 /\ ExtSize \in Nat /\ ExtSize = 3
  BY DEF NameSize, ExtSize

\* The name and the extension that are made of any texts.
LEMMA NamePartType ==
    ASSUME NEW S, NEW name \in Seq(S), NEW x \in NamePart(name)
    PROVE  x \in Part(NameSize, NameChars)
<1> DEFINE long == Len(name) > NameSize
           cut == IF long THEN NameSize - 2 ELSE Len(name)
           end == IF long THEN <<"~", "1">> ELSE <<>>
           chars == [i \in DOMAIN name |-> NameChar(name[i])]
<1>1. PICK text \in Converted(chars, NameChars, cut) : x = Padded(text \o end, NameSize)
  BY DEF NamePart
<1>2. cut \in Nat
  <2>1. Len(name) \in Nat
    OBVIOUS
  <2> QED BY <2>1, Sizes
<1>3. text \in Seq(NameChars) /\ Len(text) = cut
  <2> HIDE DEF chars, cut
  <2>1. chars \in Seq({NameChar(c) : c \in S})
    BY MappedType DEF chars
  <2>2. text \in [1 .. cut -> NameChars]
    BY <1>1, <1>2, <2>1, BeyondFacts, ConvertedType
  <2> QED BY <1>2, <2>2, FunctionIsSeq
<1>4. end \in Seq(NameChars) /\ Len(end) = IF long THEN 2 ELSE 0
  <2>1. "~" \in NameChars /\ "1" \in NameChars
    BY DEF NameChars, Signs, Digits
  <2> HIDE DEF long
  <2> QED BY <2>1
<1>5. PICK whole : whole = text \o end
  OBVIOUS
<1>6. whole \in Seq(NameChars) /\ Len(whole) = Len(text) + Len(end)
  <2> HIDE DEF end
  <2> QED BY <1>3, <1>4, <1>5, ConcatProperties
<1>7. Len(whole) \in 0 .. NameSize
  <2> HIDE DEF chars
  <2>1. Len(name) \in Nat
    OBVIOUS
  <2>2. CASE long
    <3>1. cut = 6 /\ Len(end) = 2
      BY <1>4, <2>2, Sizes
    <3> HIDE DEF end, cut
    <3> QED BY <1>3, <1>6, <3>1, Sizes
  <2>3. CASE ~long
    <3>1. cut = Len(name) /\ Len(end) = 0
      BY <1>4, <2>3
    <3> HIDE DEF end, cut
    <3>2. Len(whole) = Len(name)
      BY <1>3, <1>6, <2>1, <3>1
    <3>3. Len(name) <= NameSize
      BY <2>1, <2>3, Sizes
    <3>4. NameSize \in Int
      BY Sizes
    <3> QED BY <2>1, <3>2, <3>3, <3>4
  <2> QED BY <2>2, <2>3
<1>8. whole \in [1 .. Len(whole) -> NameChars]
  BY <1>6
<1> HIDE DEF end
<1> QED
  BY <1>1, <1>5, <1>7, <1>8, Sizes, PaddedType

\* fat12_convert_to_extension makes a part that may be stored.
LEMMA ExtPartType ==
    ASSUME NEW S, NEW ext \in Seq(S), NEW x \in ExtPart(ext)
    PROVE  x \in Part(ExtSize, ExtChars)
<1> DEFINE cut == IF Len(ext) > ExtSize THEN ExtSize ELSE Len(ext)
           chars == [i \in DOMAIN ext |-> Capital(ext[i])]
<1>1. PICK text \in Converted(chars, ExtChars, cut) : x = Padded(text, ExtSize)
  BY DEF ExtPart
<1>2. cut \in Nat /\ cut \in 0 .. ExtSize
  <2>1. PICK len \in Nat : len = Len(ext)
    OBVIOUS
  <2>2. cut = IF len > ExtSize THEN ExtSize ELSE len
    BY <2>1
  <2> HIDE DEF cut
  <2> QED BY <2>2, Sizes
<1>3. text \in [1 .. cut -> ExtChars]
  <2> HIDE DEF chars, cut
  <2>1. chars \in Seq({Capital(c) : c \in S})
    BY MappedType DEF chars
  <2> QED BY <1>1, <1>2, <2>1, BeyondFacts, ConvertedType
<1> HIDE DEF cut, chars
<1> QED
  BY <1>1, <1>2, <1>3, Sizes, PaddedType

\* The two parts of a stored name.
LEMMA StoredParts ==
    ASSUME NEW short \in Stored
    PROVE  /\ SubSeq(short, 1, NameSize) \in Part(NameSize, NameChars)
           /\ SubSeq(short, NameSize + 1, NameSize + ExtSize) \in Part(ExtSize, ExtChars)
           /\ SubSeq(short, 1, NameSize) \o SubSeq(short, NameSize + 1, NameSize + ExtSize) = short
           /\ SubSeq(short, 1, NameSize)[1] = short[1]
<1> DEFINE S == NameChars \cup {Space}
           size == NameSize + ExtSize
<1>1. PICK n \in 0 .. NameSize, e \in 0 .. ExtSize :
            /\ \A i \in 1 .. NameSize : short[i] = Space <=> i > n
            /\ \A i \in 1 .. ExtSize :
                  IF i > e THEN short[NameSize + i] = Space ELSE short[NameSize + i] \in ExtChars
  BY DEF Stored
<1>2. short \in [1 .. size -> S] /\ size \in Nat /\ size = 11
  BY Sizes DEF Stored
<1>3. short \in Seq(S) /\ Len(short) = size
  <2> HIDE DEF S, size
  <2> QED BY <1>2, FunctionIsSeq
<1>4. PICK x : x = SubSeq(short, 1, NameSize)
  OBVIOUS
<1>5. PICK y : y = SubSeq(short, NameSize + 1, size)
  OBVIOUS
<1> HIDE DEF S
<1>6. x \in Seq(S) /\ Len(x) = NameSize /\ \A i \in 1 .. NameSize : x[i] = short[i]
  <2>1. \A i \in 1 .. NameSize : short[i] \in S
    BY <1>2, Sizes
  <2>2. /\ x \in Seq(S) /\ Len(x) = IF 1 <= NameSize THEN NameSize - 1 + 1 ELSE 0
        /\ \A i \in 1 .. NameSize - 1 + 1 : x[i] = short[1 + i - 1]
    BY <1>4, <2>1, Sizes, SubSeqProperties
  <2>3. NameSize - 1 + 1 = NameSize /\ \A i \in 1 .. NameSize : 1 + i - 1 = i
    BY Sizes
  <2> QED BY <2>2, <2>3, Sizes
<1>7. y \in Seq(S) /\ Len(y) = ExtSize /\ \A i \in 1 .. ExtSize : y[i] = short[NameSize + i]
  <2>1. \A i \in NameSize + 1 .. size : short[i] \in S
    BY <1>2, Sizes
  <2>2. /\ y \in Seq(S)
        /\ Len(y) = IF NameSize + 1 <= size THEN size - (NameSize + 1) + 1 ELSE 0
        /\ \A i \in 1 .. size - (NameSize + 1) + 1 : y[i] = short[NameSize + 1 + i - 1]
    <3>1. NameSize + 1 \in Int /\ size \in Int
      BY <1>2, Sizes
    <3> HIDE DEF size
    <3> QED BY <1>5, <2>1, <3>1, SubSeqProperties
  <2>3. /\ size - (NameSize + 1) + 1 = ExtSize
        /\ \A i \in 1 .. ExtSize : NameSize + 1 + i - 1 = NameSize + i
    BY Sizes
  <2> QED BY <2>2, <2>3, <1>2, Sizes
<1>8. x \in Part(NameSize, NameChars)
  <2>1. x \in [1 .. NameSize -> S]
    BY <1>6
  <2>2. \A i \in 1 .. NameSize : IF i > n THEN x[i] = Space ELSE x[i] \in NameChars
    BY <1>1, <1>6, <2>1 DEF S
  <2> QED BY <2>1, <2>2 DEF Part, S
<1>9. y \in Part(ExtSize, ExtChars)
  <2>1. \A i \in 1 .. ExtSize : IF i > e THEN y[i] = Space ELSE y[i] \in ExtChars
    BY <1>1, <1>7
  <2>2. y \in [1 .. ExtSize -> ExtChars \cup {Space}]
    <3>1. \A i \in 1 .. ExtSize : y[i] \in ExtChars \cup {Space}
      BY <2>1
    <3>2. DOMAIN y = 1 .. ExtSize /\ y \in [1 .. ExtSize -> S]
      BY <1>7
    <3> QED BY <3>1, <3>2
  <2> QED BY <2>1, <2>2 DEF Part
<1>10. x \o y = short
  <2>1. SubSeq(short, 1, NameSize) \o SubSeq(short, NameSize + 1, size) = SubSeq(short, 1, size)
    BY <1>2, <1>3, Sizes, ConcatAdjacentSubSeq
  <2>2. SubSeq(short, 1, Len(short)) = short
    BY <1>3, SubSeqFull
  <2> QED BY <1>3, <1>4, <1>5, <2>1, <2>2
<1>11. x[1] = short[1]
  BY <1>6, Sizes
<1> QED
  BY <1>4, <1>5, <1>8, <1>9, <1>10, <1>11

\* A part for the name and one for the extension make a stored name.
LEMMA StoredOf ==
    ASSUME NEW x \in Part(NameSize, NameChars), NEW y \in Part(ExtSize, ExtChars)
    PROVE  x \o y \in Stored
<1>1. PICK n \in 0 .. NameSize :
            \A i \in 1 .. NameSize : IF i > n THEN x[i] = Space ELSE x[i] \in NameChars
  BY DEF Part
<1>2. PICK e \in 0 .. ExtSize :
            \A i \in 1 .. ExtSize : IF i > e THEN y[i] = Space ELSE y[i] \in ExtChars
  BY DEF Part
<1> DEFINE S == NameChars \cup {Space}
<1>3. x \in Seq(S) /\ Len(x) = NameSize
  BY Sizes, PartIsSeq
<1>4. y \in Seq(S) /\ Len(y) = ExtSize
  <2>1. y \in Seq(ExtChars \cup {Space}) /\ Len(y) = ExtSize
    BY Sizes, PartIsSeq
  <2>2. ExtChars \cup {Space} \subseteq S
    BY BeyondFacts
  <2> HIDE DEF S
  <2> QED BY <2>1, <2>2
<1> HIDE DEF S
<1>5. PICK z : z = x \o y
  OBVIOUS
<1>6. /\ z \in Seq(S) /\ Len(z) = NameSize + ExtSize
      /\ \A i \in 1 .. NameSize + ExtSize : z[i] = IF i <= NameSize THEN x[i] ELSE y[i - NameSize]
  BY <1>3, <1>4, <1>5, ConcatProperties
<1>7. z \in [1 .. NameSize + ExtSize -> S]
  BY <1>6
<1>8. \A i \in 1 .. NameSize : z[i] = Space <=> i > n
  <2>1. \A i \in 1 .. NameSize : z[i] = x[i]
    BY <1>6, Sizes
  <2>2. Space \notin NameChars
    BY NameCharFacts
  <2> QED BY <1>1, <2>1, <2>2
<1>9. \A i \in 1 .. ExtSize :
         IF i > e THEN z[NameSize + i] = Space ELSE z[NameSize + i] \in ExtChars
  <2>1. ASSUME NEW i \in 1 .. ExtSize PROVE z[NameSize + i] = y[i]
    <3>1. /\ NameSize + i \in 1 .. NameSize + ExtSize /\ ~(NameSize + i <= NameSize)
          /\ (NameSize + i) - NameSize = i
      BY Sizes
    <3> QED BY <1>6, <3>1
  <2> QED BY <1>2, <2>1
<1>10. z \in Stored
  BY <1>7, <1>8, <1>9 DEF Stored, S
<1> QED
  BY <1>5, <1>10

\* Whatever is typed, what becomes of it is a name that an entry can have.
LEMMA ShortNamesType ==
    ASSUME NEW S, NEW file \in Seq(S)
    PROVE  ShortNames(file) \subseteq Stored
<1>1. Parsed(file).name \in Seq(S) /\ Parsed(file).ext \in Seq(S)
  <2>1. PICK g : IsParsed(g, S, file)
    BY ParsedSteps
  <2>2. Len(file) \in 0 .. Len(file)
    OBVIOUS
  <2>3. Parsed(file) \in [name : Seq(S), ext : Seq(S), at : Nat]
    BY <2>1, <2>2 DEF IsParsed
  <2> QED BY <2>3
<1>2. \A x \in NamePart(Parsed(file).name), y \in ExtPart(Parsed(file).ext) : x \o y \in Stored
  BY <1>1, NamePartType, ExtPartType, StoredOf
<1>3. \A short \in ShortNames(file) :
         \E x \in NamePart(Parsed(file).name), y \in ExtPart(Parsed(file).ext) : short = x \o y
  BY DEF ShortNames
<1> QED
  BY <1>2, <1>3

-----------------------------------------------------------------------------
(* There and back: the standard name of a stored name is parsed into the     *)
(* parts it was made of.                                                     *)

\* A name and an extension, and the dot between them.
WithExt(name, ext) == name \o (IF ext = <<>> THEN <<>> ELSE <<Dot>> \o ext)

\* The characters of a joined name.
IsJoined(file, S, name, ext) ==
    /\ file \in Seq(S \cup {Dot})
    /\ ext = <<>> => file = name
    /\ ext # <<>> =>
          /\ Len(file) = Len(name) + 1 + Len(ext) /\ file[Len(name) + 1] = Dot
          /\ \A i \in 1 .. Len(ext) : file[Len(name) + 1 + i] = ext[i]
    /\ Len(file) >= Len(name) /\ \A i \in 1 .. Len(name) : file[i] = name[i]

\* Where the characters of a name with an extension are.
LEMMA JoinedFacts ==
    ASSUME NEW S, NEW name \in Seq(S), NEW ext \in Seq(S)
    PROVE  IsJoined(WithExt(name, ext), S, name, ext)
<1>1. PICK file : file = WithExt(name, ext)
  OBVIOUS
<1> SUFFICES IsJoined(file, S, name, ext)
  BY <1>1
<1> DEFINE T == S \cup {Dot}
<1>2. name \in Seq(T) /\ ext \in Seq(T) /\ <<Dot>> \in Seq(T) /\ Len(<<Dot>>) = 1
  OBVIOUS
<1>3. CASE ext = <<>>
  <2>1. file = name
    BY <1>1, <1>3, ConcatEmptySeq DEF WithExt
  <2> QED BY <1>2, <1>3, <2>1 DEF IsJoined
<1>4. CASE ext # <<>>
  <2>1. PICK tail : tail = <<Dot>> \o ext
    OBVIOUS
  <2> HIDE DEF T
  <2>2. PICK dot : dot = <<Dot>>
    OBVIOUS
  <2>3. dot \in Seq(T) /\ Len(dot) = 1 /\ dot[1] = Dot
    BY <1>2, <2>2
  <2>4. /\ tail \in Seq(T) /\ Len(tail) = 1 + Len(ext)
        /\ \A i \in 1 .. 1 + Len(ext) : tail[i] = IF i <= 1 THEN dot[i] ELSE ext[i - 1]
    <3>1. tail = dot \o ext
      BY <2>1, <2>2
    <3>2. /\ tail \in Seq(T) /\ Len(tail) = Len(dot) + Len(ext)
          /\ \A i \in 1 .. Len(dot) + Len(ext) : tail[i] = IF i <= Len(dot) THEN dot[i] ELSE ext[i - Len(dot)]
      BY <1>2, <2>3, <3>1, ConcatProperties
    <3> QED BY <2>3, <3>2
  <2>5. file = name \o tail
    BY <1>1, <1>4, <2>1 DEF WithExt
  <2>6. /\ file \in Seq(T) /\ Len(file) = Len(name) + Len(tail)
        /\ \A i \in 1 .. Len(name) + Len(tail) :
              file[i] = IF i <= Len(name) THEN name[i] ELSE tail[i - Len(name)]
    <3>1. tail \in Seq(T)
      BY <2>4
    <3> QED BY <1>2, <2>5, <3>1, ConcatProperties
  <2>7. Len(name) \in Nat /\ Len(ext) \in Nat
    BY <1>2
  <2>8. Len(file) = Len(name) + 1 + Len(ext) /\ file[Len(name) + 1] = Dot
    <3>1. /\ Len(name) + 1 \in 1 .. Len(name) + Len(tail) /\ ~(Len(name) + 1 <= Len(name))
          /\ Len(name) + 1 - Len(name) = 1 /\ 1 \in 1 .. 1 + Len(ext)
      BY <2>4, <2>7
    <3> QED BY <2>3, <2>4, <2>6, <2>7, <3>1
  <2>9. ASSUME NEW i \in 1 .. Len(ext) PROVE file[Len(name) + 1 + i] = ext[i]
    <3>1. /\ Len(name) + 1 + i \in 1 .. Len(name) + Len(tail) /\ ~(Len(name) + 1 + i <= Len(name))
          /\ Len(name) + 1 + i - Len(name) = 1 + i /\ 1 + i \in 1 .. 1 + Len(ext)
          /\ ~(1 + i <= 1) /\ 1 + i - 1 = i
      BY <2>4, <2>7
    <3>2. file[Len(name) + 1 + i] = tail[1 + i]
      BY <2>6, <3>1
    <3>3. tail[1 + i] = ext[i]
      BY <2>4, <3>1
    <3> QED BY <3>2, <3>3
  <2>10. /\ Len(file) >= Len(name) /\ \A i \in 1 .. Len(name) : file[i] = name[i]
    BY <2>4, <2>6, <2>7
  <2> QED BY <1>4, <2>6, <2>8, <2>9, <2>10 DEF T, IsJoined
<1> QED
  BY <1>3, <1>4

\* vfs_parse_filename takes a joined name apart again.
LEMMA ParsedJoined ==
    ASSUME NEW S, Dot \notin S, NEW name \in Seq(S), NEW ext \in Seq(S)
    PROVE  Parsed(WithExt(name, ext)).name = name /\ Parsed(WithExt(name, ext)).ext = ext
<1>1. PICK file : file = WithExt(name, ext)
  OBVIOUS
<1>2. /\ file \in Seq(S \cup {Dot})
      /\ ext = <<>> => file = name
      /\ ext # <<>> =>
            /\ Len(file) = Len(name) + 1 + Len(ext) /\ file[Len(name) + 1] = Dot
            /\ \A i \in 1 .. Len(ext) : file[Len(name) + 1 + i] = ext[i]
      /\ Len(file) >= Len(name) /\ \A i \in 1 .. Len(name) : file[i] = name[i]
  <2>1. IsJoined(file, S, name, ext)
    BY <1>1, JoinedFacts
  <2> QED BY <2>1 DEF IsJoined
<1>3. PICK g : IsParsed(g, S \cup {Dot}, file)
  BY <1>2, ParsedSteps
<1>4. /\ Parsed(file) = g[Len(file)] /\ g[0] = Unparsed
      /\ \A i \in 1 .. Len(file) : g[i] = WithChar(g[i - 1], file[i])
  BY <1>3 DEF IsParsed
<1>5. PICK n \in Nat : n = Len(name)
  OBVIOUS
<1>6. PICK m \in Nat : m = Len(ext)
  OBVIOUS
<1>7. Len(file) \in Nat /\ n <= Len(file)
  BY <1>2, <1>5
<1>8. (\A i \in 1 .. n : name[i] \in S /\ name[i] # Dot) /\ (\A i \in 1 .. m : ext[i] \in S /\ ext[i] # Dot)
  BY <1>5, <1>6
<1> DEFINE InName(i) == [name |-> First(name, i), ext |-> <<>>, at |-> 0]
           D == {i \in 0 .. n : g[i] = InName(i)}
<1>9. n \in D
  <2>1. 0 \in D
    <3>1. First(name, 0) = <<>>
      BY DEF First
    <3> QED BY <1>4, <1>5, <3>1 DEF Unparsed
  <2>2. ASSUME NEW i \in 0 .. n - 1, i \in D PROVE i + 1 \in D
    <3>1. i + 1 \in 1 .. n /\ i + 1 \in 1 .. Len(file) /\ i + 1 \in 0 .. n /\ (i + 1) - 1 = i
      BY <1>5, <1>7
    <3>2. g[i] = InName(i) /\ file[i + 1] = name[i + 1]
      BY <1>2, <1>5, <2>2, <3>1
    <3>3. g[i + 1] = WithChar(g[i], name[i + 1])
      BY <1>4, <3>1, <3>2
    <3>4. WithChar(InName(i), name[i + 1])
             = [name |-> Append(First(name, i), name[i + 1]), ext |-> <<>>, at |-> 0]
      <4>1. name[i + 1] # Dot
        BY <1>8, <3>1
      <4> QED BY <4>1 DEF WithChar
    <3>5. Append(First(name, i), name[i + 1]) = First(name, i + 1)
      BY <1>5, <3>1, FirstAppend
    <3>6. g[i + 1] = InName(i + 1)
      BY <3>2, <3>3, <3>4, <3>5
    <3> HIDE DEF InName
    <3> QED BY <3>1, <3>6
  <2>3. 0 .. n \subseteq D
    <3> HIDE DEF D
    <3> QED BY <2>1, <2>2, UpTo
  <2>4. n \in 0 .. n
    OBVIOUS
  <2> QED BY <2>3, <2>4
<1>10. First(name, n) = name
  BY <1>5 DEF First
<1>11. g[n] = [name |-> name, ext |-> <<>>, at |-> 0]
  BY <1>9, <1>10
<1>12. CASE ext = <<>>
  <2>1. file = name /\ Parsed(file) = g[n]
    BY <1>2, <1>4, <1>5, <1>12
  <2> QED BY <1>1, <1>11, <1>12, <2>1
<1>13. CASE ext # <<>>
  <2> DEFINE InExt(i) == [name |-> name, ext |-> First(ext, i), at |-> i + 1]
             E == {i \in 0 .. m : g[n + 1 + i] = InExt(i)}
  <2>1. Len(file) = n + 1 + m /\ file[n + 1] = Dot /\ \A i \in 1 .. m : file[n + 1 + i] = ext[i]
    BY <1>2, <1>5, <1>6, <1>13
  <2>2. 0 \in E
    <3>1. n + 1 \in 1 .. Len(file) /\ (n + 1) - 1 = n /\ n + 1 + 0 = n + 1
      BY <2>1
    <3>2. g[n + 1] = WithChar(g[n], Dot)
      BY <1>4, <2>1, <3>1
    <3>3. First(ext, 0) = <<>>
      BY DEF First
    <3>4. WithChar(g[n], Dot) = [name |-> name, ext |-> <<>>, at |-> 1]
      BY <1>11 DEF WithChar
    <3> QED BY <3>1, <3>2, <3>3, <3>4
  <2>3. ASSUME NEW i \in 0 .. m - 1, i \in E PROVE i + 1 \in E
    <3>1. /\ i + 1 \in 1 .. m /\ i + 1 \in 0 .. m /\ n + 1 + (i + 1) \in 1 .. Len(file)
          /\ (n + 1 + (i + 1)) - 1 = n + 1 + i
      <4> HIDE DEF D, E
      <4>1. i \in Int /\ i >= 0 /\ i + 1 <= m
        OBVIOUS
      <4> QED BY <2>1, <4>1
    <3>2. g[n + 1 + i] = InExt(i) /\ file[n + 1 + (i + 1)] = ext[i + 1]
      BY <2>1, <2>3, <3>1
    <3>3. g[n + 1 + (i + 1)] = WithChar(InExt(i), ext[i + 1])
      <4> HIDE DEF InExt
      <4> QED BY <1>4, <3>1, <3>2
    <3>4. WithChar(InExt(i), ext[i + 1])
             = [name |-> name, ext |-> Append(First(ext, i), ext[i + 1]), at |-> i + 2]
      <4>1. ext[i + 1] # Dot
        BY <1>8, <3>1
      <4>2. Len(First(ext, i)) = i /\ i + 1 > i /\ i + 1 # 0 /\ (i + 1) + 1 = i + 2
        BY <1>6 DEF First
      <4> HIDE DEF First
      <4> QED BY <4>1, <4>2 DEF WithChar
    <3>5. Append(First(ext, i), ext[i + 1]) = First(ext, i + 1)
      BY <1>6, <3>1, FirstAppend
    <3>6. g[n + 1 + (i + 1)] = InExt(i + 1)
      <4>1. (i + 1) + 1 = i + 2
        OBVIOUS
      <4> QED BY <3>3, <3>4, <3>5, <4>1
    <3> HIDE DEF InExt
    <3> QED BY <3>1, <3>6
  <2>4. m \in E
    <3>1. 0 .. m \subseteq E
      <4> HIDE DEF E
      <4> QED BY <2>2, <2>3, UpTo
    <3>2. m \in 0 .. m
      OBVIOUS
    <3> QED BY <3>1, <3>2
  <2>5. First(ext, m) = ext
    BY <1>6 DEF First
  <2>6. g[Len(file)] = [name |-> name, ext |-> ext, at |-> m + 1]
    BY <2>1, <2>4, <2>5
  <2> QED BY <1>1, <1>4, <2>6
<1> QED
  BY <1>12, <1>13

\* The characters of a part, without the spaces behind them.
IsUnpadded(x, len, allowed, n) ==
    /\ Kept(x, Range(x) \ {Space}) = First(x, n)
    /\ First(x, n) \in Seq(allowed) /\ Len(First(x, n)) = n
    /\ n = 0 <=> len = 0 \/ x[1] = Space
    /\ Padded(First(x, n), len) = x

\* Taking the spaces from a part leaves its first characters.
LEMMA UnpaddedPart ==
    ASSUME NEW len \in Nat, NEW allowed, Space \notin allowed, NEW x \in Part(len, allowed)
    PROVE  \E n \in 0 .. len : IsUnpadded(x, len, allowed, n)
<1>1. PICK n \in 0 .. len : \A i \in 1 .. len : IF i > n THEN x[i] = Space ELSE x[i] \in allowed
  BY DEF Part
<1>2. x \in Seq(allowed \cup {Space}) /\ Len(x) = len /\ x \in [1 .. len -> allowed \cup {Space}]
  BY PartIsSeq DEF Part
<1>3. \A i \in 1 .. n : x[i] \in allowed /\ x[i] \in Range(x) \ {Space}
  <2> SUFFICES ASSUME NEW i \in 1 .. n PROVE x[i] \in allowed /\ x[i] \in Range(x)
    OBVIOUS
  <2>1. i \in 1 .. len /\ ~(i > n) /\ i \in DOMAIN x
    BY <1>2
  <2> QED BY <1>1, <2>1 DEF Range
<1>4. \A i \in n + 1 .. Len(x) : x[i] \notin Range(x) \ {Space}
  <2> SUFFICES ASSUME NEW i \in n + 1 .. Len(x) PROVE x[i] = Space
    OBVIOUS
  <2>1. i \in 1 .. len /\ i > n
    BY <1>2
  <2> QED BY <1>1, <2>1
<1>5. Kept(x, Range(x) \ {Space}) = First(x, n)
  <2>1. n \in 0 .. Len(x)
    BY <1>2
  <2> QED BY <1>2, <1>3, <1>4, <2>1, KeptPrefix
<1>6. First(x, n) \in Seq(allowed) /\ Len(First(x, n)) = n
  BY <1>3 DEF First
<1>7. n = 0 <=> len = 0 \/ x[1] = Space
  <2>1. CASE n = 0 /\ len # 0
    <3>1. 1 \in 1 .. len /\ 1 > n
      BY <2>1
    <3> QED BY <1>1, <2>1, <3>1
  <2>2. CASE n # 0
    <3>1. 1 \in 1 .. n
      BY <2>2
    <3> QED BY <1>3, <2>2, <3>1
  <2> QED BY <2>1, <2>2
<1>8. Padded(First(x, n), len) = x
  <2>1. \A i \in 1 .. len : x[i] = IF i <= n THEN First(x, n)[i] ELSE Space
    BY <1>1 DEF First
  <2>2. Padded(First(x, n), len) = [i \in 1 .. len |-> x[i]]
    BY <1>6, <2>1 DEF Padded
  <2> QED BY <1>2, <2>2
<1> QED
  BY <1>5, <1>6, <1>7, <1>8 DEF IsUnpadded

\* What is allowed already is converted to itself.
LEMMA ConvertedSame ==
    ASSUME NEW allowed, NEW text \in Seq(allowed)
    PROVE  Converted(text, allowed, Len(text)) = {text}
<1>1. Len(text) \in 0 .. Len(text) /\ Len(text) \in Nat
  OBVIOUS
<1>2. Kept(text, allowed) = First(text, Len(text))
  <2>1. \A i \in 1 .. Len(text) : text[i] \in allowed
    OBVIOUS
  <2>2. \A i \in Len(text) + 1 .. Len(text) : text[i] \notin allowed
    BY <1>1
  <2> QED BY <1>1, <2>1, <2>2, KeptPrefix
<1>3. First(text, Len(text)) = text
  BY DEF First
<1>4. [1 .. Len(text) - Len(text) -> Beyond] = {<<>>}
  <2>1. 1 .. Len(text) - Len(text) = 1 .. 0
    BY <1>1
  <2>2. ASSUME NEW f \in [1 .. 0 -> Beyond] PROVE f = <<>>
    <3>1. f \in Seq(Beyond) /\ Len(f) = 0
      OBVIOUS
    <3> QED BY <3>1
  <2>3. <<>> \in [1 .. 0 -> Beyond]
    OBVIOUS
  <2> QED BY <2>1, <2>2, <2>3
<1>5. SubSeq(text \o <<>>, 1, Len(text)) = text
  BY ConcatEmptySeq, SubSeqFull
<1> QED
  BY <1>2, <1>3, <1>4, <1>5 DEF Converted

\* Characters that may be stored are converted to themselves.
LEMMA MappedSame ==
    ASSUME NEW text \in Seq(NameChars)
    PROVE  /\ [i \in DOMAIN text |-> NameChar(text[i])] = text
           /\ [i \in DOMAIN text |-> Capital(text[i])] = text
<1>1. \A i \in DOMAIN text : text[i] \in NameChars
  OBVIOUS
<1>2. \A c \in NameChars : NameChar(c) = c /\ Capital(c) = c
  BY NameCharFacts DEF NameChar, Capital
<1> QED
  BY <1>1, <1>2

\* The names made of texts that may be stored as they are.
LEMMA PartsSame ==
    ASSUME NEW name \in Seq(NameChars), Len(name) <= NameSize,
           NEW ext \in Seq(ExtChars), Len(ext) <= ExtSize
    PROVE  /\ NamePart(name) = {Padded(name, NameSize)}
           /\ ExtPart(ext) = {Padded(ext, ExtSize)}
<1>1. NamePart(name) = {Padded(name, NameSize)}
  <2>1. ~(Len(name) > NameSize)
    <3>1. Len(name) \in Nat /\ NameSize \in Nat
      BY Sizes
    <3> QED BY <3>1
  <2>2. Converted([i \in DOMAIN name |-> NameChar(name[i])], NameChars, Len(name)) = {name}
    BY MappedSame, ConvertedSame
  <2>3. name \o <<>> = name
    BY ConcatEmptySeq
  <2> QED BY <2>1, <2>2, <2>3 DEF NamePart
<1>2. ExtPart(ext) = {Padded(ext, ExtSize)}
  <2>1. ~(Len(ext) > ExtSize)
    <3>1. Len(ext) \in Nat /\ ExtSize \in Nat
      BY Sizes
    <3> QED BY <3>1
  <2>2. [i \in DOMAIN ext |-> Capital(ext[i])] = ext
    <3>1. ext \in Seq(NameChars)
      BY BeyondFacts
    <3> QED BY <3>1, MappedSame
  <2>3. Converted(ext, ExtChars, Len(ext)) = {ext}
    BY ConvertedSame
  <2> QED BY <2>1, <2>2, <2>3 DEF ExtPart
<1> QED
  BY <1>1, <1>2

\* The standard name of a stored name is made of the characters that it has, and has
\* that name as its only short name.
THEOREM ThereAndBack ==
    ASSUME NEW short \in Stored
    PROVE  /\ ShortNames(StandardName(short)) = {short}
           /\ \E name \in Seq(NameChars), ext \in Seq(ExtChars) : StandardName(short) = WithExt(name, ext)
<1>1. PICK x : x = SubSeq(short, 1, NameSize)
  OBVIOUS
<1>2. PICK y : y = SubSeq(short, NameSize + 1, NameSize + ExtSize)
  OBVIOUS
<1>3. x \in Part(NameSize, NameChars) /\ y \in Part(ExtSize, ExtChars) /\ x \o y = short
  BY <1>1, <1>2, StoredParts
<1>4. Space \notin NameChars /\ Dot \notin NameChars /\ Space \notin ExtChars
  BY NameCharFacts, BeyondFacts
<1>5. PICK n \in 0 .. NameSize : IsUnpadded(x, NameSize, NameChars, n)
  BY <1>3, <1>4, Sizes, UnpaddedPart
<1>6. PICK m \in 0 .. ExtSize : IsUnpadded(y, ExtSize, ExtChars, m)
  BY <1>3, <1>4, Sizes, UnpaddedPart
<1>7. PICK name \in Seq(NameChars) : name = First(x, n)
  BY <1>5 DEF IsUnpadded
<1>8. PICK ext \in Seq(ExtChars) : ext = First(y, m)
  BY <1>6 DEF IsUnpadded
<1>9. y[1] = Space <=> ext = <<>>
  <2>1. m = 0 <=> y[1] = Space
    BY <1>6, Sizes DEF IsUnpadded
  <2>2. ext = <<>> <=> m = 0
    BY <1>6, <1>8 DEF IsUnpadded
  <2> QED BY <2>1, <2>2
<1>10. StandardName(short) = WithExt(name, ext)
  BY <1>1, <1>2, <1>5, <1>6, <1>7, <1>8, <1>9 DEF IsUnpadded, StandardName, WithExt
<1>11. Parsed(StandardName(short)).name = name /\ Parsed(StandardName(short)).ext = ext
  <2>1. ext \in Seq(NameChars)
    BY BeyondFacts
  <2> QED BY <1>4, <1>10, <2>1, ParsedJoined
<1>12. NamePart(name) = {x} /\ ExtPart(ext) = {y}
  <2>1. Len(name) <= NameSize /\ Len(ext) <= ExtSize
    <3>1. NameSize \in Int /\ ExtSize \in Int
      BY Sizes
    <3> QED BY <1>5, <1>6, <1>7, <1>8, <3>1 DEF IsUnpadded
  <2> QED BY <1>5, <1>6, <1>7, <1>8, <2>1, PartsSame DEF IsUnpadded
<1>13. ShortNames(StandardName(short)) = {x \o y}
  BY <1>11, <1>12 DEF ShortNames
<1> QED
  BY <1>3, <1>10, <1>13

-----------------------------------------------------------------------------
(* The packed table.                                                         *)

\* The three bytes of an entry are inside the table.
LEMMA InTable ==
    ASSUME NEW c \in Clusters
    PROVE  /\ Offset(c) \in Offsets /\ Offset(c) + 1 \in Offsets /\ Offset(c) + 2 \in Offsets
           /\ HasEntry(c)
  BY LastClusterAssumption, TableBytesAssumption DEF Clusters, Offset, Offsets, HasEntry, Eof

\* Every link fits twelve bits.
LEMMA Values == \A v \in Link : v \in Word
  BY LastClusterAssumption DEF Link, Clusters, Free, Eof, Word

\* An entry by the place it has in its pair.
LEMMA EntryParts ==
    ASSUME NEW bytes, NEW c \in Clusters
    PROVE  /\ c % 2 = 0 => Entry(bytes, c) = bytes[Offset(c)] + 256 * Low(bytes[Offset(c) + 1])
           /\ c % 2 # 0 => Entry(bytes, c) = High(bytes[Offset(c) + 1]) + 16 * bytes[Offset(c) + 2]
  BY InTable DEF Entry

\* Clusters of different pairs have their bytes apart.
LEMMA Apart ==
    ASSUME NEW c \in Clusters, NEW d \in Clusters, c \div 2 # d \div 2
    PROVE  Offset(c) + 2 < Offset(d) \/ Offset(d) + 2 < Offset(c)
  BY LastClusterAssumption DEF Clusters, Offset

\* Two clusters with the same bytes are twins.
LEMMA Twins ==
    ASSUME NEW c \in Clusters, NEW d \in Clusters, c # d, Offset(c) = Offset(d)
    PROVE  c \div 2 = d \div 2 /\ (c % 2 = 0 <=> d % 2 # 0)
  BY LastClusterAssumption DEF Clusters, Offset

\* The parts a 12-bit value is cut into, and a byte.
LEMMA ValueParts ==
    ASSUME NEW v \in Word
    PROVE  /\ v % 256 \in 0..255 /\ v \div 256 \in 0..15
           /\ v % 16 \in 0..15   /\ v \div 16 \in 0..255
           /\ (v % 256) + 256 * (v \div 256) = v
           /\ (v % 16) + 16 * (v \div 16) = v
  BY DEF Word

\* The halves of a byte.
LEMMA Halves ==
    ASSUME NEW byte \in Byte
    PROVE  High(byte) \in 0..15 /\ Low(byte) \in 0..15
  BY DEF Byte, High, Low

\* A byte put together from two halves gives them back.
LEMMA Joined ==
    ASSUME NEW h \in 0..15, NEW l \in 0..15
    PROVE  Join(h, l) \in Byte /\ High(Join(h, l)) = h /\ Low(Join(h, l)) = l
  BY DEF Byte, High, Low, Join

\* What fat12_fat_table_set_entry leaves in the three bytes, and around them.
LEMMA BytesSet ==
    ASSUME NEW bytes \in Bytes, NEW c \in Clusters, NEW v \in Word
    PROVE  /\ SetBytes(bytes, c, v) \in Bytes
           /\ \A k \in Offsets : k < Offset(c) \/ Offset(c) + 2 < k => SetBytes(bytes, c, v)[k] = bytes[k]
           /\ c % 2 = 0 => /\ SetBytes(bytes, c, v)[Offset(c)] = v % 256
                           /\ SetBytes(bytes, c, v)[Offset(c) + 1] = Join(High(bytes[Offset(c) + 1]), v \div 256)
                           /\ SetBytes(bytes, c, v)[Offset(c) + 2] = bytes[Offset(c) + 2]
           /\ c % 2 # 0 => /\ SetBytes(bytes, c, v)[Offset(c)] = bytes[Offset(c)]
                           /\ SetBytes(bytes, c, v)[Offset(c) + 1] = Join(v % 16, Low(bytes[Offset(c) + 1]))
                           /\ SetBytes(bytes, c, v)[Offset(c) + 2] = v \div 16
<1>a. PICK next : next = SetBytes(bytes, c, v)
  OBVIOUS
<1>b. PICK off : off = Offset(c)
  OBVIOUS
<1>c. PICK mid : mid = bytes[off + 1]
  OBVIOUS
<1>1. off \in Offsets /\ off + 1 \in Offsets /\ off + 2 \in Offsets /\ HasEntry(c)
  BY <1>b, InTable
<1>2. off \in Int /\ off # off + 1 /\ off + 1 # off + 2 /\ off # off + 2
  BY <1>1 DEF Offsets
<1>3. mid \in Byte
  BY <1>1, <1>c DEF Bytes
<1>4. High(mid) \in 0..15 /\ Low(mid) \in 0..15
  BY <1>3, Halves
<1>5. CASE c % 2 = 0
  <2>1. next = [bytes EXCEPT ![off] = v % 256, ![off + 1] = Join(High(mid), v \div 256)]
    BY <1>a, <1>b, <1>c, <1>1, <1>5 DEF SetBytes
  <2>2. v % 256 \in Byte
    BY ValueParts DEF Byte
  <2>3. Join(High(mid), v \div 256) \in Byte
    BY <1>4, ValueParts, Joined
  <2>4. /\ next \in Bytes
        /\ next[off] = v % 256 /\ next[off + 1] = Join(High(mid), v \div 256)
        /\ \A k \in Offsets : k # off /\ k # off + 1 => next[k] = bytes[k]
    BY <1>1, <1>2, <2>1, <2>2, <2>3 DEF Bytes
  <2>5. \A k \in Offsets : k < off \/ off + 2 < k => k # off /\ k # off + 1
    BY <1>2 DEF Offsets
  <2> QED
    BY <1>a, <1>b, <1>c, <1>1, <1>2, <1>5, <2>4, <2>5
<1>6. CASE c % 2 # 0
  <2>1. next = [bytes EXCEPT ![off + 1] = Join(v % 16, Low(mid)), ![off + 2] = v \div 16]
    BY <1>a, <1>b, <1>c, <1>1, <1>6 DEF SetBytes
  <2>2. v \div 16 \in Byte
    BY ValueParts DEF Byte
  <2>3. Join(v % 16, Low(mid)) \in Byte
    BY <1>4, ValueParts, Joined
  <2>4. /\ next \in Bytes
        /\ next[off + 1] = Join(v % 16, Low(mid)) /\ next[off + 2] = v \div 16
        /\ \A k \in Offsets : k # off + 1 /\ k # off + 2 => next[k] = bytes[k]
    BY <1>1, <1>2, <2>1, <2>2, <2>3 DEF Bytes
  <2>5. \A k \in Offsets : k < off \/ off + 2 < k => k # off + 1 /\ k # off + 2
    BY <1>2 DEF Offsets
  <2> QED
    BY <1>a, <1>b, <1>c, <1>1, <1>2, <1>6, <2>4, <2>5
<1> QED
  BY <1>5, <1>6

\* An entry reads back as it was just written.
LEMMA SameEntry ==
    ASSUME NEW bytes \in Bytes, NEW c \in Clusters, NEW v \in Word
    PROVE  Entry(SetBytes(bytes, c, v), c) = v
<1>1. PICK next : next = SetBytes(bytes, c, v)
  OBVIOUS
<1>2. PICK off : off = Offset(c)
  OBVIOUS
<1>3. PICK mid : mid = bytes[off + 1]
  OBVIOUS
<1>4. HasEntry(c) /\ mid \in Byte
  BY <1>2, <1>3, InTable DEF Bytes
<1>5. High(mid) \in 0..15 /\ Low(mid) \in 0..15
  BY <1>4, Halves
<1>6. CASE c % 2 = 0
  <2>1. next[off] = v % 256 /\ next[off + 1] = Join(High(mid), v \div 256)
    BY <1>1, <1>2, <1>3, <1>6, BytesSet
  <2>2. Low(next[off + 1]) = v \div 256
    BY <2>1, <1>5, ValueParts, Joined
  <2> QED
    BY <1>1, <1>2, <1>6, <2>1, <2>2, ValueParts, EntryParts
<1>7. CASE c % 2 # 0
  <2>1. next[off + 1] = Join(v % 16, Low(mid)) /\ next[off + 2] = v \div 16
    BY <1>1, <1>2, <1>3, <1>7, BytesSet
  <2>2. High(next[off + 1]) = v % 16
    BY <2>1, <1>5, ValueParts, Joined
  <2> QED
    BY <1>1, <1>2, <1>7, <2>1, <2>2, ValueParts, EntryParts
<1> QED
  BY <1>6, <1>7

\* Writing an entry leaves its twin and all others as they were.
LEMMA OtherEntry ==
    ASSUME NEW bytes \in Bytes, NEW c \in Clusters, NEW v \in Word,
           NEW d \in Clusters, d # c
    PROVE  Entry(SetBytes(bytes, c, v), d) = Entry(bytes, d)
<1>1. PICK next : next = SetBytes(bytes, c, v)
  OBVIOUS
<1>2. PICK off : off = Offset(c)
  OBVIOUS
<1>3. PICK mid : mid = bytes[off + 1]
  OBVIOUS
<1>4. HasEntry(c) /\ HasEntry(d) /\ mid \in Byte
  BY <1>2, <1>3, InTable DEF Bytes
<1>5. High(mid) \in 0..15 /\ Low(mid) \in 0..15
  BY <1>4, Halves
<1>6. CASE Offset(d) # off
  <2>1. /\ Offset(d) \in Offsets /\ Offset(d) + 1 \in Offsets /\ Offset(d) + 2 \in Offsets
        /\ off \in Offsets
    BY <1>2, InTable
  <2>2. Offset(c) + 2 < Offset(d) \/ Offset(d) + 2 < Offset(c)
    BY <1>2, <1>6, Apart DEF Offset
  <2>3. \A k \in {Offset(d), Offset(d) + 1, Offset(d) + 2} : k < off \/ off + 2 < k
    BY <1>2, <2>1, <2>2 DEF Offsets
  <2>4. \A k \in {Offset(d), Offset(d) + 1, Offset(d) + 2} : next[k] = bytes[k]
    BY <1>1, <1>2, <1>3, <2>1, <2>3, BytesSet
  <2> QED
    BY <1>1, <2>4, EntryParts
<1>7. CASE Offset(d) = off
  <2>1. c \div 2 = d \div 2 /\ (c % 2 = 0 <=> d % 2 # 0)
    BY <1>2, <1>7, Twins
  <2>2. CASE c % 2 = 0
    <3>1. next[off + 1] = Join(High(mid), v \div 256) /\ next[off + 2] = bytes[off + 2]
      BY <1>1, <1>2, <1>3, <2>2, BytesSet
    <3>2. High(next[off + 1]) = High(mid)
      BY <3>1, <1>5, ValueParts, Joined
    <3> QED
      BY <1>1, <1>3, <1>7, <2>1, <2>2, <3>1, <3>2, EntryParts
  <2>3. CASE c % 2 # 0
    <3>1. next[off] = bytes[off] /\ next[off + 1] = Join(v % 16, Low(mid))
      BY <1>1, <1>2, <1>3, <2>3, BytesSet
    <3>2. Low(next[off + 1]) = Low(mid)
      BY <3>1, <1>5, ValueParts, Joined
    <3> QED
      BY <1>1, <1>3, <1>7, <2>1, <2>3, <3>1, <3>2, EntryParts
  <2> QED
    BY <2>2, <2>3
<1> QED
  BY <1>6, <1>7

-----------------------------------------------------------------------------
\* The bytes stay bytes and the entries read back: together they are inductive.
IInv == TypeOK /\ ReadsBack

\* An empty table reads back.
LEMMA InitIInv == Init => IInv
<1> SUFFICES ASSUME Init PROVE IInv
  OBVIOUS
<1>1. TypeOK
  BY DEF Init, TypeOK, EmptyTable, Table, Link, Byte, Bytes, Free
<1>2. ASSUME NEW c \in Numbers
      PROVE  Entry(fat_data, c) = NextCluster(table, c)
  <2>1. CASE c \in Clusters
    <3>1. \A k \in {Offset(c), Offset(c) + 1, Offset(c) + 2} : fat_data[k] = 0
      BY <2>1, InTable DEF Init
    <3>2. Entry(fat_data, c) = 0
      BY <2>1, <3>1, InTable DEF Entry, High, Low
    <3> QED
      BY <2>1, <3>2 DEF Init, NextCluster, EmptyTable, Free
  <2>2. CASE c \notin Clusters
    <3>1. ~HasEntry(c)
      BY <2>2 DEF Numbers, RootCluster, Eof, HasEntry
    <3> QED
      BY <2>2, <3>1 DEF Entry, NextCluster
  <2> QED
    BY <2>1, <2>2
<1> QED
  BY <1>1, <1>2 DEF IInv, ReadsBack

\* Setting an entry keeps the others.
LEMMA SetIInv ==
    ASSUME IInv, NEW c \in Numbers, NEW v \in Link, Set(c, v)
    PROVE  IInv'
<1>1. v \in Word
  BY Values
<1>2. CASE c \in Clusters
  <2>1. fat_data \in Bytes /\ table \in Table
    BY DEF IInv, TypeOK
  <2>2. fat_data' = SetBytes(fat_data, c, v) /\ table' = [table EXCEPT ![c] = v]
    BY <1>2 DEF Set, SetEntry
  <2>3. TypeOK'
    BY <1>1, <1>2, <2>1, <2>2, BytesSet DEF TypeOK, Table
  <2>4. ASSUME NEW d \in Numbers
        PROVE  Entry(fat_data', d) = NextCluster(table', d)
    <3>1. CASE d = c
      BY <1>1, <1>2, <2>1, <2>2, <3>1, SameEntry DEF NextCluster, Table
    <3>2. CASE d \in Clusters /\ d # c
      <4>1. Entry(fat_data', d) = Entry(fat_data, d)
        BY <1>1, <1>2, <2>1, <2>2, <3>2, OtherEntry
      <4>2. NextCluster(table', d) = NextCluster(table, d)
        BY <2>1, <2>2, <3>2 DEF NextCluster, Table
      <4> QED
        BY <4>1, <4>2 DEF IInv, ReadsBack
    <3>3. CASE d \notin Clusters
      <4>1. ~HasEntry(d)
        BY <3>3 DEF Numbers, RootCluster, Eof, HasEntry
      <4> QED
        BY <3>3, <4>1 DEF Entry, NextCluster
    <3> QED
      BY <1>2, <3>1, <3>2, <3>3
  <2> QED
    BY <2>3, <2>4 DEF IInv, ReadsBack
<1>3. CASE c \notin Clusters
  <2>1. ~HasEntry(c)
    BY <1>3 DEF Numbers, RootCluster, Eof, HasEntry
  <2>2. UNCHANGED vars
    BY <1>3, <2>1 DEF Set, SetBytes, SetEntry, vars
  <2> QED
    BY <2>2 DEF IInv, TypeOK, ReadsBack, vars
<1> QED
  BY <1>2, <1>3

\* So does every step.
LEMMA NextIInv == IInv /\ [Next]_vars => IInv'
<1> SUFFICES ASSUME IInv, [Next]_vars PROVE IInv'
  OBVIOUS
<1>1. CASE Next
  BY <1>1, SetIInv DEF Next
<1>2. CASE UNCHANGED vars
  BY <1>2 DEF IInv, TypeOK, ReadsBack, vars
<1> QED
  BY <1>1, <1>2

\* The bytes of the table stay bytes: no 12-bit write spills over.
THEOREM TypeCorrect == Spec => []TypeOK
<1>1. IInv => TypeOK
  BY DEF IInv
<1> QED
  BY <1>1, InitIInv, NextIInv, PTL DEF Spec

\* The packed bytes are the table the other modules take them for: every entry
\* reads back as it was last set, for a table of any size.
THEOREM AlwaysReadsBack == Spec => []ReadsBack
<1>1. IInv => ReadsBack
  BY DEF IInv
<1> QED
  BY <1>1, InitIInv, NextIInv, PTL DEF Spec

-----------------------------------------------------------------------------
(* Names in a directory.                                                     *)

Chars == NameChars \cup {Space, Dot, Erased, Nul}

Dots == {<<Dot>>, <<Dot, Dot>>}

\* Eleven spaces.
Blank == Padded(<<>>, NameSize) \o Padded(<<>>, ExtSize)

\* A name of one or two dots.
LEMMA DotsFacts ==
    ASSUME NEW dots \in Dots
    PROVE  /\ dots \in Seq({Dot}) /\ Len(dots) \in {1, 2}
           /\ \A i \in 1 .. Len(dots) : dots[i] = Dot
           /\ dots[1] = Dot /\ dots[Len(dots)] = Dot
<1>1. CASE dots = <<Dot>>
  <2>1. dots \in Seq({Dot}) /\ Len(dots) = 1
    BY <1>1
  <2> QED BY <2>1
<1>2. CASE dots = <<Dot, Dot>>
  <2>1. dots \in Seq({Dot}) /\ Len(dots) = 2
    BY <1>2
  <2> QED BY <2>1
<1> QED
  BY <1>1, <1>2 DEF Dots

\* A standard name is a sequence of the characters stored, and of the dot.
LEMMA StandardNameType ==
    ASSUME NEW short \in [1 .. NameSize + ExtSize -> Chars]
    PROVE  StandardName(short) \in Seq(Chars)
<1> DEFINE Unpadded(part) == Kept(part, Range(part) \ {Space})
<1>1. ASSUME NEW part \in Seq(Chars) PROVE Unpadded(part) \in Seq(Chars)
  <2>1. PICK g : IsKept(g, Chars, part, Range(part) \ {Space})
    BY KeptSteps
  <2>2. Len(part) \in 0 .. Len(part)
    OBVIOUS
  <2>3. Unpadded(part) \in Seq(Chars \cap (Range(part) \ {Space}))
    BY <2>1, <2>2 DEF IsKept
  <2> HIDE DEF Unpadded
  <2> QED BY <2>3
<1> DEFINE name == SubSeq(short, 1, NameSize)
           ext  == SubSeq(short, NameSize + 1, NameSize + ExtSize)
<1>2. name \in Seq(Chars) /\ ext \in Seq(Chars)
  <2>1. \A i \in 1 .. NameSize + ExtSize : short[i] \in Chars
    OBVIOUS
  <2>2. /\ \A i \in 1 .. NameSize : short[i] \in Chars
        /\ \A i \in NameSize + 1 .. NameSize + ExtSize : short[i] \in Chars
    BY <2>1, Sizes
  <2>3. NameSize \in Int /\ NameSize + 1 \in Int /\ NameSize + ExtSize \in Int
    BY Sizes
  <2> QED BY <2>2, <2>3, SubSeqProperties
<1>3. <<Dot>> \in Seq(Chars) /\ <<>> \in Seq(Chars)
  BY DEF Chars
<1>4. <<Dot>> \o Unpadded(ext) \in Seq(Chars)
  <2> HIDE DEF Unpadded, ext
  <2> QED BY <1>1, <1>2, <1>3, ConcatProperties
<1>5. StandardName(short) = Unpadded(name) \o (IF ext[1] = Space THEN <<>> ELSE <<Dot>> \o Unpadded(ext))
  BY DEF StandardName
<1> HIDE DEF Unpadded, name, ext
<1>6. Unpadded(name) \in Seq(Chars)
  BY <1>1, <1>2
<1> DEFINE rest == IF ext[1] = Space THEN <<>> ELSE <<Dot>> \o Unpadded(ext)
<1>7. rest \in Seq(Chars)
  BY <1>3, <1>4
<1> HIDE DEF rest
<1>8. Unpadded(name) \o rest \in Seq(Chars)
  BY <1>6, <1>7, ConcatProperties
<1> QED
  BY <1>5, <1>8 DEF rest

\* The standard name of a stored name is neither that of a deleted entry nor . nor ..
LEMMA OrdinaryName ==
    ASSUME NEW short \in Stored
    PROVE  /\ StandardName(short) \notin Dots
           /\ ~IsErased(StandardName(short))
           /\ ~IsErased(short)
           /\ NodeState(short) = "used"
<1>1. PICK name \in Seq(NameChars), ext \in Seq(ExtChars) : StandardName(short) = WithExt(name, ext)
  BY ThereAndBack
<1>2. PICK file : file = StandardName(short)
  OBVIOUS
<1>3. ext \in Seq(NameChars)
  BY BeyondFacts
<1>4. IsJoined(file, NameChars, name, ext)
  BY <1>1, <1>2, <1>3, JoinedFacts
<1>5. /\ file \in Seq(NameChars \cup {Dot})
      /\ ext = <<>> => file = name
      /\ ext # <<>> =>
          /\ Len(file) = Len(name) + 1 + Len(ext) /\ file[Len(name) + 1] = Dot
          /\ \A i \in 1 .. Len(ext) : file[Len(name) + 1 + i] = ext[i]
  BY <1>4 DEF IsJoined
<1>6. \A c \in NameChars : c # Space /\ c # Dot /\ c # Erased /\ c # Nul
  BY NameCharFacts
<1>7. Dot # Erased /\ Space # Erased /\ Space # Nul
  BY DEF Dot, Erased, Space, Nul
<1>8. ~IsErased(file)
  <2>1. CASE file = <<>>
    BY <2>1 DEF IsErased
  <2>2. CASE file # <<>>
    <3>1. file[1] \in NameChars \cup {Dot}
      BY <1>5, <2>2
    <3> QED BY <1>6, <1>7, <3>1 DEF IsErased
  <2> QED BY <2>1, <2>2
<1>9. file \notin Dots
  <2>1. CASE file = <<>>
    BY <2>1 DEF Dots
  <2>2. CASE file # <<>>
    <3>1. file[Len(file)] \in NameChars
      <4>1. CASE ext = <<>>
        BY <1>5, <2>2, <4>1
      <4>2. CASE ext # <<>>
        <5>1. Len(name) \in Nat /\ Len(ext) \in Nat /\ Len(ext) \in 1 .. Len(ext)
          BY <4>2
        <5>2. file[Len(file)] = ext[Len(ext)]
          BY <1>5, <4>2, <5>1
        <5> QED BY <1>3, <5>1, <5>2
      <4> QED BY <4>1, <4>2
    <3>2. \A dots \in Dots : dots[Len(dots)] = Dot
      BY DotsFacts
    <3> QED BY <1>6, <3>1, <3>2
  <2> QED BY <2>1, <2>2
<1>10. ~IsErased(short) /\ NodeState(short) = "used"
  <2>1. short[1] \in NameChars \cup {Space}
    <3>1. 1 \in 1 .. NameSize + ExtSize
      BY Sizes
    <3> QED BY <3>1 DEF Stored
  <2> QED BY <1>6, <1>7, <2>1 DEF IsErased, NodeState
<1> QED
  BY <1>2, <1>8, <1>9, <1>10

\* An entry without a name is one that can be stored, and has an empty standard name.
LEMMA BlankFacts ==
    /\ Blank \in Stored
    /\ StandardName(Blank) = <<>>
    /\ \A dots \in Dots : ShortNames(dots) = {Blank}
<1>1. Space \notin NameChars /\ Space \notin ExtChars
  BY NameCharFacts, BeyondFacts
<1>2. <<>> \in Seq(NameChars) /\ <<>> \in Seq(ExtChars) /\ Len(<<>>) = 0
  OBVIOUS
<1>3. NamePart(<<>>) = {Padded(<<>>, NameSize)} /\ ExtPart(<<>>) = {Padded(<<>>, ExtSize)}
  <2>1. 0 <= NameSize /\ 0 <= ExtSize
    BY Sizes
  <2> QED BY <1>2, <2>1, PartsSame
<1>4. /\ Padded(<<>>, NameSize) \in Part(NameSize, NameChars)
      /\ Padded(<<>>, ExtSize) \in Part(ExtSize, ExtChars)
  <2>1. <<>> \in [1 .. 0 -> NameChars] /\ <<>> \in [1 .. 0 -> ExtChars]
    OBVIOUS
  <2>2. NameSize \in Nat /\ ExtSize \in Nat
    BY Sizes
  <2>3. 0 \in 0 .. NameSize /\ 0 \in 0 .. ExtSize
    BY <2>2
  <2> QED BY <2>1, <2>2, <2>3, PaddedType
<1>5. Blank \in Stored
  BY <1>4, StoredOf DEF Blank
<1>6. \A dots \in Dots : Parsed(dots).name = <<>> /\ Parsed(dots).ext = <<>>
  <2> SUFFICES ASSUME NEW dots \in Dots PROVE Parsed(dots).name = <<>> /\ Parsed(dots).ext = <<>>
    OBVIOUS
  <2>1. dots \in Seq({Dot}) /\ Len(dots) \in {1, 2} /\ \A i \in 1 .. Len(dots) : dots[i] = Dot
    BY DotsFacts
  <2>2. PICK g : IsParsed(g, {Dot}, dots)
    BY <2>1, ParsedSteps
  <2>3. /\ Parsed(dots) = g[Len(dots)] /\ g[0] = Unparsed
        /\ \A i \in 1 .. Len(dots) : g[i] = WithChar(g[i - 1], Dot)
    BY <2>1, <2>2 DEF IsParsed
  <2>4. g[1] = [name |-> <<>>, ext |-> <<>>, at |-> 1]
    <3>1. 1 \in 1 .. Len(dots) /\ 1 - 1 = 0
      BY <2>1
    <3>2. g[1] = WithChar(Unparsed, Dot)
      BY <2>3, <3>1
    <3> QED BY <3>2 DEF Unparsed, WithChar
  <2>5. Len(dots) = 2 => g[2] = [name |-> <<>>, ext |-> <<>>, at |-> 1]
    <3> SUFFICES ASSUME Len(dots) = 2 PROVE g[2] = [name |-> <<>>, ext |-> <<>>, at |-> 1]
      OBVIOUS
    <3>1. 2 \in 1 .. Len(dots) /\ 2 - 1 = 1
      OBVIOUS
    <3>2. g[2] = WithChar([name |-> <<>>, ext |-> <<>>, at |-> 1], Dot)
      BY <2>3, <2>4, <3>1
    <3> QED BY <3>2 DEF WithChar
  <2> QED BY <2>1, <2>3, <2>4, <2>5
<1>7. \A dots \in Dots : ShortNames(dots) = {Blank}
  <2> SUFFICES ASSUME NEW dots \in Dots PROVE ShortNames(dots) = {Blank}
    OBVIOUS
  <2>1. NamePart(Parsed(dots).name) = {Padded(<<>>, NameSize)} /\ ExtPart(Parsed(dots).ext) = {Padded(<<>>, ExtSize)}
    BY <1>3, <1>6
  <2> QED BY <2>1 DEF ShortNames, Blank
<1>8. StandardName(Blank) = <<>>
  <2>1. PICK x : x = SubSeq(Blank, 1, NameSize)
    OBVIOUS
  <2>2. PICK y : y = SubSeq(Blank, NameSize + 1, NameSize + ExtSize)
    OBVIOUS
  <2>3. x \in Part(NameSize, NameChars) /\ y \in Part(ExtSize, ExtChars) /\ x \o y = Blank
    BY <1>5, <2>1, <2>2, StoredParts
  <2>5. PICK n \in 0 .. NameSize : IsUnpadded(x, NameSize, NameChars, n)
    BY <1>1, <2>3, Sizes, UnpaddedPart
  <2>6. x[1] = Space /\ y[1] = Space
    <3>1. PICK a \in Part(NameSize, NameChars) : a = Padded(<<>>, NameSize)
      BY <1>4
    <3>2. PICK b \in Part(ExtSize, ExtChars) : b = Padded(<<>>, ExtSize)
      BY <1>4
    <3>3. ASSUME NEW u \in Part(NameSize, NameChars), NEW v \in Part(ExtSize, ExtChars)
          PROVE  (u \o v)[1] = u[1] /\ (u \o v)[NameSize + 1] = v[1]
      <4>1. u \in Seq(NameChars \cup {Space}) /\ Len(u) = NameSize
        BY Sizes, PartIsSeq
      <4>2. v \in Seq(ExtChars \cup {Space}) /\ Len(v) = ExtSize
        BY Sizes, PartIsSeq
      <4>3. NameChars \cup {Space} \subseteq Chars /\ ExtChars \cup {Space} \subseteq Chars
        BY BeyondFacts DEF Chars
      <4>4. u \in Seq(Chars) /\ v \in Seq(Chars)
        BY <4>1, <4>2, <4>3
      <4>5. \A i \in 1 .. NameSize + ExtSize : (u \o v)[i] = IF i <= NameSize THEN u[i] ELSE v[i - NameSize]
        BY <4>1, <4>2, <4>4, ConcatProperties
      <4>6. /\ 1 \in 1 .. NameSize + ExtSize /\ 1 <= NameSize
            /\ NameSize + 1 \in 1 .. NameSize + ExtSize /\ ~(NameSize + 1 <= NameSize)
            /\ (NameSize + 1) - NameSize = 1
        BY Sizes
      <4> QED BY <4>5, <4>6
    <3>4. x \o y = a \o b
      BY <2>3, <3>1, <3>2 DEF Blank
    <3>5. x[1] = a[1] /\ y[1] = b[1]
      <4>1. (x \o y)[1] = x[1] /\ (x \o y)[NameSize + 1] = y[1]
        BY <2>3, <3>3
      <4>2. (a \o b)[1] = a[1] /\ (a \o b)[NameSize + 1] = b[1]
        BY <3>3
      <4> QED BY <3>4, <4>1, <4>2
    <3>6. a[1] = Space /\ b[1] = Space
      <4>1. 1 \in 1 .. NameSize /\ 1 \in 1 .. ExtSize
        BY Sizes
      <4> QED BY <1>2, <3>1, <3>2, <4>1 DEF Padded
    <3> QED BY <3>5, <3>6
  <2>7. Kept(x, Range(x) \ {Space}) = <<>>
    <3>1. n = 0
      BY <2>5, <2>6 DEF IsUnpadded
    <3> QED BY <2>5, <3>1 DEF IsUnpadded
  <2> QED BY <2>1, <2>2, <2>6, <2>7, ConcatEmptySeq DEF StandardName
<1> QED
  BY <1>5, <1>7, <1>8

\* The parts of any eleven characters, as fat12_construct_standard_name_from_sfn reads them.
LEMMA StandardNameParts ==
    ASSUME NEW short \in [1 .. NameSize + ExtSize -> Chars], NEW k \in 0 .. NameSize,
           \A i \in 1 .. k : short[i] # Space,
           \A i \in k + 1 .. NameSize : short[i] = Space
    PROVE  \E rest \in Seq(Chars) :
              /\ StandardName(short) = First(short, k) \o rest
              /\ short[NameSize + 1] = Space => rest = <<>>
<1>1. PICK name : name = SubSeq(short, 1, NameSize)
  OBVIOUS
<1>2. PICK ext : ext = SubSeq(short, NameSize + 1, NameSize + ExtSize)
  OBVIOUS
<1>3. \A i \in 1 .. NameSize + ExtSize : short[i] \in Chars
  OBVIOUS
<1>4. name \in Seq(Chars) /\ Len(name) = NameSize /\ \A i \in 1 .. NameSize : name[i] = short[i]
  <2>1. \A i \in 1 .. NameSize : short[i] \in Chars
    BY <1>3, Sizes
  <2>2. /\ name \in Seq(Chars) /\ Len(name) = IF 1 <= NameSize THEN NameSize - 1 + 1 ELSE 0
        /\ \A i \in 1 .. NameSize - 1 + 1 : name[i] = short[1 + i - 1]
    BY <1>1, <2>1, Sizes, SubSeqProperties
  <2>3. NameSize - 1 + 1 = NameSize /\ \A i \in 1 .. NameSize : 1 + i - 1 = i
    BY Sizes
  <2> QED BY <2>2, <2>3, Sizes
<1>5. ext \in Seq(Chars) /\ ext[1] = short[NameSize + 1]
  <2>1. \A i \in NameSize + 1 .. NameSize + ExtSize : short[i] \in Chars
    BY <1>3, Sizes
  <2>2. ext \in Seq(Chars) /\ ext[1] = short[NameSize + 1]
    <3>1. PICK from \in Int : from = NameSize + 1
      BY Sizes
    <3>2. PICK to \in Int : to = NameSize + ExtSize
      BY Sizes
    <3>3. \A i \in from .. to : short[i] \in Chars
      BY <2>1, <3>1, <3>2
    <3>4. /\ SubSeq(short, from, to) \in Seq(Chars)
          /\ \A i \in 1 .. to - from + 1 : SubSeq(short, from, to)[i] = short[from + i - 1]
      BY <3>3, SubSeqProperties
    <3>5. ext = SubSeq(short, from, to)
      BY <1>2, <3>1, <3>2
    <3>6. ext \in Seq(Chars) /\ \A i \in 1 .. to - from + 1 : ext[i] = short[from + i - 1]
      BY <3>4, <3>5
    <3>7. 1 \in 1 .. to - from + 1 /\ from + 1 - 1 = from
      BY <3>1, <3>2, Sizes
    <3>8. ext[1] = short[from]
      BY <3>6, <3>7
    <3> QED BY <3>1, <3>6, <3>8
  <2> QED BY <2>2
<1>6. Kept(name, Range(name) \ {Space}) = First(name, k)
  <2>1. k \in 0 .. Len(name)
    BY <1>4
  <2>2. \A i \in 1 .. k : name[i] \in Range(name) \ {Space}
    <3> SUFFICES ASSUME NEW i \in 1 .. k PROVE name[i] \in Range(name) /\ name[i] # Space
      OBVIOUS
    <3>1. i \in 1 .. NameSize /\ i \in DOMAIN name
      <4>1. k <= NameSize /\ NameSize \in Int
        BY Sizes
      <4> QED BY <1>4, <4>1
    <3> QED BY <1>4, <3>1 DEF Range
  <2>3. \A i \in k + 1 .. Len(name) : name[i] \notin Range(name) \ {Space}
    <3> SUFFICES ASSUME NEW i \in k + 1 .. Len(name) PROVE name[i] = Space
      OBVIOUS
    <3>1. i \in 1 .. NameSize /\ i \in k + 1 .. NameSize
      BY <1>4
    <3> QED BY <1>4, <3>1
  <2> QED BY <1>4, <2>1, <2>2, <2>3, KeptPrefix
<1>7. First(name, k) = First(short, k)
  <2>1. \A i \in 1 .. k : name[i] = short[i]
    <3>1. \A i \in 1 .. k : i \in 1 .. NameSize
      <4>1. k <= NameSize /\ NameSize \in Int
        BY Sizes
      <4> QED BY <4>1
    <3> QED BY <1>4, <3>1
  <2> QED BY <2>1 DEF First
<1>8. Kept(ext, Range(ext) \ {Space}) \in Seq(Chars)
  <2>1. PICK g : IsKept(g, Chars, ext, Range(ext) \ {Space})
    BY <1>5, KeptSteps
  <2>2. Len(ext) \in 0 .. Len(ext)
    BY <1>5
  <2>3. Kept(ext, Range(ext) \ {Space}) \in Seq(Chars \cap (Range(ext) \ {Space}))
    BY <2>1, <2>2 DEF IsKept
  <2> QED BY <2>3
<1> DEFINE rest == IF ext[1] = Space THEN <<>> ELSE <<Dot>> \o Kept(ext, Range(ext) \ {Space})
<1>9. rest \in Seq(Chars)
  <2>1. <<Dot>> \in Seq(Chars) /\ <<>> \in Seq(Chars)
    BY DEF Chars
  <2>2. <<Dot>> \o Kept(ext, Range(ext) \ {Space}) \in Seq(Chars)
    BY <1>8, <2>1, ConcatProperties
  <2> QED BY <2>1, <2>2
<1>10. StandardName(short) = First(short, k) \o rest
  BY <1>1, <1>2, <1>6, <1>7 DEF StandardName
<1>11. short[NameSize + 1] = Space => rest = <<>>
  BY <1>5
<1> HIDE DEF rest
<1> QED
  BY <1>9, <1>10, <1>11

CharsDiffer == Dot # Space /\ Dot # Erased /\ Dot # Nul /\ Nul # Space /\ Nul # Erased /\ Erased # Space

\* The characters that mean something.
LEMMA Different == CharsDiffer
  BY DEF CharsDiffer, Dot, Space, Erased, Nul

\* Entries that were never used or are deleted.
LEMMA FreeEntries ==
    /\ NeverUsed.name \in [1 .. NameSize + ExtSize -> Chars]
    /\ Deleted.name \in [1 .. NameSize + ExtSize -> Chars]
    /\ NodeState(NeverUsed.name) = "unused"
    /\ NodeState(Deleted.name) = "available"
    /\ IsErased(StandardName(Deleted.name))
<1>1. PICK n : n = NeverUsed.name
  OBVIOUS
<1>2. PICK d : d = Deleted.name
  OBVIOUS
<1>3. n = [i \in 1 .. NameSize + ExtSize |-> Nul]
  BY <1>1 DEF NeverUsed
<1>4. d = [i \in 1 .. NameSize + ExtSize |-> IF i = 1 THEN Erased ELSE Nul]
  BY <1>2 DEF Deleted, NeverUsed
<1>5. /\ n \in [1 .. NameSize + ExtSize -> Chars] /\ d \in [1 .. NameSize + ExtSize -> Chars]
  BY <1>3, <1>4 DEF Chars
<1>6. NameSize + ExtSize \in Nat /\ 1 \in 1 .. NameSize + ExtSize /\ NameSize \in Nat
  BY Sizes
<1>7. n[1] = Nul /\ d[1] = Erased
  BY <1>3, <1>4, <1>6
<1>8. d # <<>>
  <2>1. 1 \in DOMAIN d
    BY <1>4, <1>6
  <2> QED BY <2>1
<1>9. NodeState(n) = "unused" /\ NodeState(d) = "available"
  BY <1>7, <1>8, Different DEF NodeState, IsErased, CharsDiffer
<1>10. IsErased(StandardName(d))
  <2>1. PICK k : k = NameSize
    OBVIOUS
  <2>2. k \in Nat /\ k \in 0 .. NameSize /\ 1 \in 1 .. k /\ k <= NameSize + ExtSize
    BY <2>1, Sizes
  <2>3. \A i \in 1 .. k : d[i] # Space
    <3>1. \A i \in 1 .. k : i \in 1 .. NameSize + ExtSize
      BY <1>6, <2>2
    <3> QED BY <1>4, <3>1, Different DEF CharsDiffer
  <2>4. \A i \in k + 1 .. NameSize : d[i] = Space
    BY <2>1, <2>2
  <2>5. PICK rest \in Seq(Chars) : StandardName(d) = First(d, k) \o rest
    BY <1>5, <2>2, <2>3, <2>4, StandardNameParts
  <2>6. PICK front : front = First(d, k)
    OBVIOUS
  <2>7. front \in Seq(Chars) /\ Len(front) = k /\ front[1] = Erased
    <3>1. \A i \in 1 .. k : d[i] \in Chars
      <4>1. \A i \in 1 .. k : i \in 1 .. NameSize + ExtSize
        BY <1>6, <2>2
      <4> QED BY <1>5, <4>1
    <3>2. front = [i \in 1 .. k |-> d[i]]
      BY <2>6 DEF First
    <3> QED BY <1>7, <2>2, <3>1, <3>2
  <2>8. /\ front \o rest \in Seq(Chars) /\ Len(front \o rest) = k + Len(rest)
        /\ (front \o rest)[1] = Erased
    <3>1. /\ front \o rest \in Seq(Chars) /\ Len(front \o rest) = Len(front) + Len(rest)
          /\ \A i \in 1 .. Len(front) + Len(rest) :
                (front \o rest)[i] = IF i <= Len(front) THEN front[i] ELSE rest[i - Len(front)]
      BY <2>7, ConcatProperties
    <3>2. 1 \in 1 .. Len(front) + Len(rest) /\ 1 <= Len(front)
      BY <2>2, <2>7
    <3> QED BY <2>7, <3>1, <3>2
  <2>9. front \o rest # <<>>
    BY <2>2, <2>8
  <2> QED BY <2>5, <2>6, <2>8, <2>9 DEF IsErased
<1> QED
  BY <1>1, <1>2, <1>5, <1>9, <1>10

\* The entries . and ..
LEMMA DotEntries ==
    ASSUME NEW dots \in Dots
    PROVE  /\ DotEntry(dots).name \in [1 .. NameSize + ExtSize -> Chars]
           /\ NodeState(DotEntry(dots).name) = "used"
           /\ StandardName(DotEntry(dots).name) = dots
           /\ ~IsErased(dots)
           /\ StandardName(DotEntry(dots).name) # <<>>
<1>1. PICK n : n = DotEntry(dots).name
  OBVIOUS
<1>2. PICK k : k = Len(dots)
  OBVIOUS
<1>3. /\ dots \in Seq({Dot}) /\ k \in {1, 2} /\ \A i \in 1 .. k : dots[i] = Dot
  BY <1>2, DotsFacts
<1>4. n = [i \in 1 .. NameSize + ExtSize |-> IF i <= k THEN dots[i] ELSE Space]
  BY <1>1, <1>2 DEF DotEntry, Padded
<1>5. n \in [1 .. NameSize + ExtSize -> Chars]
  <2>1. \A i \in 1 .. NameSize + ExtSize : i <= k => dots[i] \in Chars
    BY <1>3 DEF Chars
  <2>2. Space \in Chars
    BY DEF Chars
  <2> QED BY <1>4, <2>1, <2>2
<1>6. k \in Nat /\ k \in 0 .. NameSize /\ NameSize \in Nat /\ k <= NameSize + ExtSize
      /\ 1 \in 1 .. NameSize + ExtSize /\ NameSize + 1 \in 1 .. NameSize + ExtSize
      /\ ~(NameSize + 1 <= k) /\ 1 <= k
  BY <1>3, Sizes
<1>7. \A i \in 1 .. k : n[i] = dots[i] /\ n[i] # Space
  <2>1. \A i \in 1 .. k : i \in 1 .. NameSize + ExtSize /\ i <= k
    <3>1. NameSize + ExtSize \in Nat
      BY Sizes
    <3> QED BY <1>6, <3>1
  <2> QED BY <1>3, <1>4, <2>1, Different DEF CharsDiffer
<1>8. \A i \in k + 1 .. NameSize : n[i] = Space
  <2>1. \A i \in k + 1 .. NameSize : i \in 1 .. NameSize + ExtSize /\ ~(i <= k)
    <3>1. ExtSize \in Nat
      BY Sizes
    <3> QED BY <1>6, <3>1
  <2> QED BY <1>4, <2>1
<1>9. n[NameSize + 1] = Space
  BY <1>4, <1>6
<1>10. PICK rest \in Seq(Chars) : StandardName(n) = First(n, k) \o rest /\ rest = <<>>
  BY <1>5, <1>6, <1>7, <1>8, <1>9, StandardNameParts
<1>11. First(n, k) = dots
  BY <1>2, <1>3, <1>7 DEF First
<1>12. StandardName(n) = dots
  BY <1>3, <1>10, <1>11, ConcatEmptySeq
<1>13. NodeState(n) = "used"
  <2>1. n[1] = Dot
    BY <1>3, <1>6, <1>7
  <2> QED BY <2>1, Different DEF NodeState, IsErased, CharsDiffer
<1>14. ~IsErased(dots) /\ dots # <<>>
  <2>1. dots[1] = Dot
    BY DotsFacts
  <2> QED BY <1>2, <1>3, <2>1, Different DEF IsErased, CharsDiffer
<1> QED
  BY <1>1, <1>5, <1>12, <1>13, <1>14

-----------------------------------------------------------------------------
(* The directory.                                                            *)

Dates == [year : 0 .. YearsHeld - 1, month : 0 .. 12]

\* The names of entries.
EntryNames == Stored \cup {NeverUsed.name, Deleted.name} \cup {DotEntry(dots).name : dots \in Dots}

EntryType == [name : EntryNames, attributes : SUBSET Attributes, cdate : Dates, adate : Dates]

NodeType ==
    [state : {"used", "available", "unused"}, name : Seq(Chars), attributes : SUBSET Attributes,
     creation : Int, access : Int, is_dirty : BOOLEAN]

PastType == [from : Int, made : BOOLEAN, slips : Nat, fresh : BOOLEAN, written : BOOLEAN]

DirType == [stored : [Slots -> EntryType], nodes : [Slots -> NodeType]]

\* A node has the name of its entry, or is . or .. and was written to.
NamedAlike(e, n) == n.name = StandardName(e.name) \/ (n.name \in Dots /\ e.name = Blank)

Agree(e, n) ==
    /\ n.state = NodeState(e.name)
    /\ ~n.is_dirty
    /\ n.state = "used" => n.attributes = Translated(e.attributes) /\ NamedAlike(e, n)

NeverMade == [year |-> 127, month |-> 12]

\* What the dates of an entry are, and what they will be when the node is committed.
Dated(e, n, p) ==
    n.state = "used" /\ n.name \notin Dots \cup {<<>>} =>
        /\ e.cdate = DateFromPosix(p.from + p.slips)
        /\ IF p.fresh THEN n.creation = DateToPosix(e.cdate) ELSE DateFromPosix(n.creation) = e.cdate
        /\ p.made => e.adate = IF p.written THEN DateFromPosix(Now) ELSE NeverMade

SlotOK(e, n, p) == Agree(e, n) /\ Dated(e, n, p)

Good(dir, before) ==
    /\ dir \in DirType
    /\ before \in [Slots -> PastType]
    /\ \A s \in Slots : SlotOK(dir.stored[s], dir.nodes[s], before[s])

\* An entry that is in use and has one of two names, and one that ends a lookup.
Hit(dir, s, name, short) ==
    dir.nodes[s].state = "used" /\ dir.nodes[s].name \in {name, StandardName(short)}

Stops(dir, s, name, short) == dir.nodes[s].state = "unused" \/ Hit(dir, s, name, short)

\* A name that has one short name and is found.
Present(dir, name) ==
    \E short \in Stored :
        /\ Short[name] = {short}
        /\ Find(dir, name, short) \in Slots
        /\ Hit(dir, Find(dir, name, short), name, short)

DirIInv ==
    /\ Good(Directory, past)
    /\ typed \subseteq Typed \cup DirNames
    /\ \A name \in typed : Present(Directory, name)

-----------------------------------------------------------------------------
(* Dates and attributes.                                                     *)

\* Dividing by twelve and by the years held.
LEMMA Division ==
    ASSUME NEW t \in Int
    PROVE  /\ t = 12 * (t \div 12) + (t % 12) /\ t % 12 \in 0 .. 11 /\ t \div 12 \in Int
           /\ t = 128 * (t \div 128) + (t % 128) /\ t % 128 \in 0 .. 127 /\ t \div 128 \in Int
  OBVIOUS

\* A quotient and a remainder by twelve are those of the sum they make.
LEMMA Quotient12 ==
    ASSUME NEW q \in Int, NEW r \in 0 .. 11
    PROVE  (12 * q + r) \div 12 = q /\ (12 * q + r) % 12 = r
  OBVIOUS

\* A multiple of 128 changes no remainder by 128.
LEMMA Remainder128 ==
    ASSUME NEW q \in Int, NEW k \in Int
    PROVE  (q - 128 * k) % 128 = q % 128
  OBVIOUS

\* What is encoded is a date, and what it decodes to.
LEMMA DateType ==
    ASSUME NEW t \in Int
    PROVE  /\ DateFromPosix(t) \in Dates
           /\ DateFromPosix(t) # ZeroDate
           /\ DateToPosix(DateFromPosix(t)) = 12 * ((t \div 12) % 128) + (t % 12) + 1
<1>1. /\ t % 12 \in 0 .. 11 /\ t \div 12 \in Int
  BY Division
<1>2. (t \div 12) % 128 \in 0 .. 127
  BY <1>1, Division
<1>3. DateFromPosix(t) = [year |-> (t \div 12) % 128, month |-> (t % 12) + 1]
  BY DEF DateFromPosix, YearsHeld
<1>4. (t % 12) + 1 \in 1 .. 12
  BY <1>1
<1>5. DateFromPosix(t) \in Dates
  BY <1>2, <1>3, <1>4 DEF Dates, YearsHeld
<1>6. DateFromPosix(t) # ZeroDate
  BY <1>3, <1>4 DEF ZeroDate
<1> QED
  BY <1>1, <1>2, <1>3, <1>5, <1>6 DEF DateToPosix

\* Every date decodes to a number.
LEMMA DecodedType ==
    ASSUME NEW date \in Dates
    PROVE  DateToPosix(date) \in Int
<1>1. date.year \in Int /\ date.month \in Int
  BY DEF Dates
<1> QED
  BY <1>1 DEF DateToPosix

\* A date that is encoded, decoded and encoded again is a month later.
LEMMA DateSlips ==
    ASSUME NEW t \in Int
    PROVE  DateFromPosix(DateToPosix(DateFromPosix(t))) = DateFromPosix(t + 1)
<1>1. PICK q \in Int : q = t \div 12
  BY Division
<1>2. PICK r \in 0 .. 11 : r = t % 12
  BY Division
<1>3. PICK k \in Int : q % 128 = q - 128 * k
  BY Division
<1>4. t = 12 * q + r
  BY <1>1, <1>2, Division
<1>5. PICK v \in Int : v = DateToPosix(DateFromPosix(t)) /\ v = 12 * (q - 128 * k) + r + 1
  BY <1>1, <1>2, <1>3, DateType
<1>6. CASE r < 11
  <2>1. r + 1 \in 0 .. 11 /\ q - 128 * k \in Int
    BY <1>6
  <2>2. v \div 12 = q - 128 * k /\ v % 12 = r + 1
    BY <1>5, <2>1, Quotient12
  <2>3. (t + 1) \div 12 = q /\ (t + 1) % 12 = r + 1
    BY <1>4, <2>1, Quotient12
  <2>4. (v \div 12) % 128 = q % 128
    BY <2>2, Remainder128
  <2> QED BY <1>5, <2>2, <2>3, <2>4 DEF DateFromPosix, YearsHeld
<1>7. CASE r = 11
  <2>1. q - 128 * k + 1 \in Int /\ q + 1 \in Int
    OBVIOUS
  <2>2. v = 12 * (q - 128 * k + 1) + 0 /\ t + 1 = 12 * (q + 1) + 0
    BY <1>4, <1>5, <1>7
  <2>3. v \div 12 = q - 128 * k + 1 /\ v % 12 = 0
    BY <2>1, <2>2, Quotient12
  <2>4. (t + 1) \div 12 = q + 1 /\ (t + 1) % 12 = 0
    BY <2>1, <2>2, Quotient12
  <2>5. (v \div 12) % 128 = (q + 1) % 128
    <3>1. q - 128 * k + 1 = (q + 1) - 128 * k
      OBVIOUS
    <3> QED BY <2>1, <2>3, <3>1, Remainder128
  <2> QED BY <1>5, <2>3, <2>4, <2>5 DEF DateFromPosix, YearsHeld
<1> QED
  BY <1>6, <1>7

\* A date that is found is the one it was made from.
LEMMA DateFound ==
    ASSUME NEW date \in Date
    PROVE  /\ date # ZeroDate
           /\ date = DateFromPosix(12 * date.year + date.month - 1)
           /\ 12 * date.year + date.month - 1 \in Int
<1>1. /\ date.year \in 0 .. 127 /\ date.month \in 1 .. 12
      /\ date = [year |-> date.year, month |-> date.month]
  BY DEF Date, YearsHeld
<1>2. PICK y \in 0 .. 127 : y = date.year
  BY <1>1
<1>3. PICK r \in 0 .. 11 : date.month = r + 1
  <2>1. date.month - 1 \in 0 .. 11 /\ date.month = (date.month - 1) + 1
    BY <1>1
  <2> QED BY <2>1
<1>4. 12 * date.year + date.month - 1 = 12 * y + r
  BY <1>2, <1>3
<1>5. (12 * y + r) \div 12 = y /\ (12 * y + r) % 12 = r
  BY Quotient12
<1>6. y % 128 = y
  OBVIOUS
<1>7. date # ZeroDate
  BY <1>1 DEF ZeroDate
<1> QED
  BY <1>1, <1>2, <1>3, <1>4, <1>5, <1>6, <1>7 DEF DateFromPosix, YearsHeld

\* What is read of a date never set, encoded again.
LEMMA DateNeverSet ==
    DateToPosix(ZeroDate) = -1 /\ DateFromPosix(-1) = NeverMade
<1>1. PICK t \in Int : t = -1
  OBVIOUS
<1>2. t = 12 * t + 11 /\ 127 = 127 - 128 * 0 /\ t = 127 - 128 * 1
  BY <1>1
<1>3. t \div 12 = t /\ t % 12 = 11
  <2>1. (12 * t + 11) \div 12 = t /\ (12 * t + 11) % 12 = 11
    BY Quotient12
  <2> QED BY <1>2, <2>1
<1>4. t % 128 = 127
  <2>1. PICK q \in Int : q = 127
    OBVIOUS
  <2>2. PICK k \in Int : k = 1
    OBVIOUS
  <2>3. (q - 128 * k) % 128 = q % 128
    BY Remainder128
  <2>4. q - 128 * k = t /\ q % 128 = 127
    BY <1>1, <2>1, <2>2
  <2> QED BY <2>3, <2>4
<1>5. DateFromPosix(t) = NeverMade
  BY <1>3, <1>4 DEF DateFromPosix, YearsHeld, NeverMade
<1>6. DateToPosix(ZeroDate) = -1
  BY DEF DateToPosix
<1> QED
  BY <1>1, <1>5, <1>6

\* Translating attributes drops the archive and volume ones, and no others.
LEMMA Translating ==
    ASSUME NEW attributes \in SUBSET Attributes
    PROVE  /\ Translated(attributes) \in SUBSET Attributes
           /\ Translated(Translated(attributes)) = Translated(attributes)
           /\ attributes \ {"archive", "volume_id"} \subseteq Translated(attributes)
           /\ Translated(attributes) \subseteq attributes
  BY DEF Translated, Attributes

-----------------------------------------------------------------------------
(* One entry and its node.                                                   *)

\* What the name of an entry says of its node.
LEMMA EntryNameFacts ==
    ASSUME NEW name \in EntryNames
    PROVE  /\ StandardName(name) \in Seq(Chars)
           /\ NodeState(name) \in {"used", "available", "unused"}
           /\ NodeState(name) = "used" => name \in Stored \cup {DotEntry(dots).name : dots \in Dots}
<1>1. name \in [1 .. NameSize + ExtSize -> Chars]
  <2>1. \A short \in Stored : short \in [1 .. NameSize + ExtSize -> Chars]
    BY DEF Stored, Chars
  <2> QED BY <2>1, FreeEntries, DotEntries DEF EntryNames
<1>2. NodeState(name) \in {"used", "available", "unused"}
  BY DEF NodeState
<1>3. NodeState(name) = "used" => name \in Stored \cup {DotEntry(dots).name : dots \in Dots}
  BY FreeEntries DEF EntryNames
<1> QED
  BY <1>1, <1>2, <1>3, StandardNameType

\* A node that was just read agrees with its entry.
LEMMA LoadedNode ==
    ASSUME NEW e \in EntryType
    PROVE  Node(e) \in NodeType /\ Agree(e, Node(e))
<1>1. /\ e.name \in EntryNames /\ e.attributes \in SUBSET Attributes
      /\ e.cdate \in Dates /\ e.adate \in Dates
  BY DEF EntryType
<1>2. /\ StandardName(e.name) \in Seq(Chars) /\ NodeState(e.name) \in {"used", "available", "unused"}
      /\ Translated(e.attributes) \in SUBSET Attributes
      /\ DateToPosix(e.cdate) \in Int /\ DateToPosix(e.adate) \in Int
  BY <1>1, EntryNameFacts, DecodedType, Translating
<1> QED
  BY <1>2 DEF Node, NodeType, Agree, NamedAlike

\* The parts of a node and of an entry that was read again.
LEMMA LoadedSlot ==
    ASSUME NEW e \in EntryType, NEW n \in NodeType, NEW p \in PastType, SlotOK(e, n, p)
    PROVE  /\ Node(e) \in NodeType /\ [p EXCEPT !.fresh = TRUE] \in PastType
           /\ SlotOK(e, Node(e), [p EXCEPT !.fresh = TRUE])
           /\ Node(e).state = n.state
<1>1. Node(e) \in NodeType /\ Agree(e, Node(e))
  BY LoadedNode
<1>2. PICK q : q = [p EXCEPT !.fresh = TRUE]
  OBVIOUS
<1>3. q \in PastType /\ q.from = p.from /\ q.slips = p.slips /\ q.fresh /\ q.made = p.made /\ q.written = p.written
  BY <1>2 DEF PastType
<1>4. Node(e).state = n.state /\ Node(e).name = StandardName(e.name) /\ Node(e).creation = DateToPosix(e.cdate)
  BY DEF SlotOK, Agree, Node
<1>5. Dated(e, Node(e), q)
  <2> SUFFICES ASSUME Node(e).state = "used", Node(e).name \notin Dots \cup {<<>>}
               PROVE  Dated(e, Node(e), q)
    BY DEF Dated
  <2>1. n.state = "used" /\ NamedAlike(e, n)
    BY <1>4 DEF SlotOK, Agree
  <2>2. e.name # Blank
    BY <1>4, BlankFacts
  <2>3. n.name = StandardName(e.name)
    BY <2>1, <2>2 DEF NamedAlike
  <2>4. n.name \notin Dots \cup {<<>>}
    BY <1>4, <2>3
  <2>5. /\ e.cdate = DateFromPosix(p.from + p.slips)
        /\ p.made => e.adate = IF p.written THEN DateFromPosix(Now) ELSE NeverMade
    BY <2>1, <2>4 DEF SlotOK, Dated
  <2> QED BY <1>3, <1>4, <2>5 DEF Dated
<1> QED
  BY <1>1, <1>2, <1>3, <1>4, <1>5 DEF SlotOK

\* What fat12_create_file_node puts into the directory, and its node.
NewEntry(short, attributes) ==
    [name |-> short, attributes |-> Translated(attributes), cdate |-> DateFromPosix(Now), adate |-> ZeroDate]

NewNode(short, attributes) ==
    [state |-> "used", name |-> StandardName(short), attributes |-> attributes,
     creation |-> DateToPosix(DateFromPosix(Now)), access |-> DateToPosix(ZeroDate), is_dirty |-> TRUE]

Settled(n) == [n EXCEPT !.is_dirty = FALSE]

\* A stored name is one an entry may have.
LEMMA StoredIsEntryName == \A short \in Stored : short \in EntryNames
  BY DEF EntryNames

\* A new entry after its first flush: a month late, and with the date of access of a date never set.
LEMMA CreatedSlot ==
    ASSUME NEW short \in Stored, NEW attributes \in {{}, {"directory"}},
           NEW e, e = Commit(NewNode(short, attributes), NewEntry(short, attributes)),
           NEW n, n = Settled(NewNode(short, attributes))
    PROVE  /\ e \in EntryType /\ n \in NodeType /\ Past(Now, TRUE, 1, FALSE) \in PastType
           /\ SlotOK(e, n, Past(Now, TRUE, 1, FALSE))
           /\ n.state = "used" /\ n.name = StandardName(short)
<1>1. Now \in Int
  BY DirAssumption
<1>2. attributes \in SUBSET Attributes /\ Translated(attributes) = attributes
  BY DEF Attributes, Translated
<1>3. StandardName(short) \in Seq(Chars) /\ ~IsErased(StandardName(short)) /\ NodeState(short) = "used"
  BY StoredIsEntryName, EntryNameFacts, OrdinaryName
<1>4. DateFromPosix(Now) \in Dates
  BY <1>1, DateType
<1>5. PICK c \in Int : c = DateToPosix(DateFromPosix(Now))
  BY <1>4, DecodedType
<1>6. DateFromPosix(c) = DateFromPosix(Now + 1) /\ DateFromPosix(c) \in Dates
  BY <1>1, <1>5, DateSlips, DateType
<1>7. DateToPosix(ZeroDate) \in Int /\ DateFromPosix(DateToPosix(ZeroDate)) = NeverMade
  <2>1. -1 \in Int
    OBVIOUS
  <2> QED BY <2>1, DateNeverSet
<1>8. (CHOOSE x \in ShortNames(StandardName(short)) : TRUE) = short
  <2>1. ShortNames(StandardName(short)) = {short}
    BY ThereAndBack
  <2> QED BY <2>1
<1>9. e = [name |-> short, attributes |-> attributes, cdate |-> DateFromPosix(c), adate |-> NeverMade]
  BY <1>2, <1>3, <1>5, <1>7, <1>8 DEF Commit, NewNode
<1>10. n = [state |-> "used", name |-> StandardName(short), attributes |-> attributes,
            creation |-> c, access |-> DateToPosix(ZeroDate), is_dirty |-> FALSE]
  BY <1>5 DEF Settled, NewNode
<1>11. NeverMade \in Dates
  BY DEF NeverMade, Dates, YearsHeld
<1>12. e \in EntryType
  BY <1>2, <1>6, <1>9, <1>11, StoredIsEntryName DEF EntryType
<1>13. n \in NodeType
  BY <1>2, <1>3, <1>7, <1>10 DEF NodeType
<1>14. PICK p : p = Past(Now, TRUE, 1, FALSE)
  OBVIOUS
<1>15. p \in PastType /\ p.from = Now /\ p.slips = 1 /\ p.made /\ ~p.fresh /\ ~p.written
  BY <1>1, <1>14 DEF Past, PastType
<1>16. Agree(e, n)
  BY <1>2, <1>3, <1>9, <1>10 DEF Agree, NamedAlike
<1>17. Dated(e, n, p)
  BY <1>6, <1>9, <1>10, <1>15 DEF Dated
<1>18. n.state = "used" /\ n.name = StandardName(short)
  BY <1>10
<1>19. SlotOK(e, n, p)
  BY <1>16, <1>17 DEF SlotOK
<1> QED
  BY <1>12, <1>13, <1>14, <1>15, <1>18, <1>19

\* The past of an entry that is written to.
WrittenPast(p) ==
    [p EXCEPT !.slips = IF p.fresh THEN p.slips + 1 ELSE p.slips, !.fresh = FALSE, !.written = TRUE]

Dirty(n) == [n EXCEPT !.is_dirty = TRUE, !.access = Now]

\* The entry and the node that come of it.
WrittenWell(e, n, p, f, m) ==
    /\ f \in EntryType /\ m \in NodeType /\ WrittenPast(p) \in PastType
    /\ SlotOK(f, m, WrittenPast(p))
    /\ m.state = n.state /\ m.name = n.name
    /\ f.attributes = Translated(e.attributes) /\ f.adate = DateFromPosix(Now)

\* An entry whose node was marked by fat12_file_write and flushed.
LEMMA WrittenSlot ==
    ASSUME NEW e \in EntryType, NEW n \in NodeType, NEW p \in PastType, SlotOK(e, n, p), n.state = "used"
    PROVE  WrittenWell(e, n, p, Commit(Dirty(n), e), Settled(Dirty(n)))
<1>1. PICK d : d = Dirty(n)
  OBVIOUS
<1>2. PICK f : f = Commit(d, e)
  OBVIOUS
<1>3. Now \in Int
  BY DirAssumption
<1>4. /\ n.name \in Seq(Chars) /\ n.attributes \in SUBSET Attributes /\ n.creation \in Int
      /\ n = [state |-> n.state, name |-> n.name, attributes |-> n.attributes,
              creation |-> n.creation, access |-> n.access, is_dirty |-> n.is_dirty]
  BY DEF NodeType
<1>5. d = [state |-> "used", name |-> n.name, attributes |-> n.attributes,
           creation |-> n.creation, access |-> Now, is_dirty |-> TRUE]
  BY <1>1, <1>4 DEF Dirty
<1>6. PICK m : m = Settled(d)
  OBVIOUS
<1>7. m = [state |-> "used", name |-> n.name, attributes |-> n.attributes,
           creation |-> n.creation, access |-> Now, is_dirty |-> FALSE]
  BY <1>5, <1>6 DEF Settled
<1>8. /\ NodeState(e.name) = "used" /\ n.attributes = Translated(e.attributes) /\ NamedAlike(e, n)
  BY DEF SlotOK, Agree
<1>9. e.name \in EntryNames /\ e.attributes \in SUBSET Attributes /\ e.cdate \in Dates
  BY DEF EntryType
<1>10. /\ ~IsErased(n.name)
      /\ \E short \in Stored :
            /\ ShortNames(n.name) = {short}
            /\ n.name = StandardName(short) \/ (n.name \in Dots /\ short = Blank)
  <2>1. CASE n.name \in Dots
    BY <2>1, BlankFacts, DotEntries
  <2>2. CASE n.name \notin Dots
    <3>1. n.name = StandardName(e.name)
      BY <1>8, <2>2 DEF NamedAlike
    <3>2. e.name \in Stored \cup {DotEntry(dots).name : dots \in Dots}
      BY <1>8, <1>9, EntryNameFacts
    <3>3. e.name \in Stored
      BY <2>2, <3>1, <3>2, DotEntries
    <3> QED BY <3>1, <3>3, ThereAndBack, OrdinaryName
  <2> QED BY <2>1, <2>2
<1>11. PICK short \in Stored :
          /\ ShortNames(n.name) = {short}
          /\ n.name = StandardName(short) \/ (n.name \in Dots /\ short = Blank)
  BY <1>10
<1>12. f = [name |-> short, attributes |-> Translated(n.attributes),
            cdate |-> DateFromPosix(n.creation), adate |-> DateFromPosix(Now)]
  <2>1. (CHOOSE x \in ShortNames(n.name) : TRUE) = short
    BY <1>11
  <2> QED BY <1>2, <1>5, <1>10, <2>1 DEF Commit
<1>13. Translated(n.attributes) = n.attributes
  BY <1>8, <1>9, Translating
<1>14. DateFromPosix(n.creation) \in Dates /\ DateFromPosix(Now) \in Dates
  BY <1>3, <1>4, DateType
<1>15. f \in EntryType
  BY <1>4, <1>12, <1>13, <1>14, StoredIsEntryName DEF EntryType
<1>16. m \in NodeType
  BY <1>3, <1>4, <1>7 DEF NodeType
<1>17. PICK q : q = WrittenPast(p)
  OBVIOUS
<1>18. p.slips \in Nat /\ p.from \in Int /\ p.made \in BOOLEAN
  BY DEF PastType
<1>19. /\ q \in PastType /\ ~q.fresh /\ q.written /\ q.from = p.from /\ q.made = p.made
       /\ q.slips = IF p.fresh THEN p.slips + 1 ELSE p.slips
  <2>1. (IF p.fresh THEN p.slips + 1 ELSE p.slips) \in Nat
    BY <1>18
  <2> QED BY <1>17, <2>1 DEF WrittenPast, PastType
<1>20. NodeState(short) = "used"
  BY OrdinaryName
<1>21. Agree(f, m)
  BY <1>7, <1>11, <1>12, <1>13, <1>20 DEF Agree, NamedAlike
<1>22. Dated(f, m, q)
  <2> SUFFICES ASSUME m.name \notin Dots \cup {<<>>} PROVE Dated(f, m, q)
    BY DEF Dated
  <2>1. /\ e.cdate = DateFromPosix(p.from + p.slips)
        /\ IF p.fresh THEN n.creation = DateToPosix(e.cdate) ELSE DateFromPosix(n.creation) = e.cdate
    BY <1>7 DEF SlotOK, Dated
  <2>2. f.cdate = DateFromPosix(n.creation) /\ f.adate = DateFromPosix(Now)
    BY <1>12
  <2>3. f.cdate = DateFromPosix(q.from + q.slips)
    <3>1. CASE p.fresh
      <4>1. p.from + p.slips \in Int /\ (p.from + p.slips) + 1 = p.from + (p.slips + 1)
        BY <1>18
      <4>2. f.cdate = DateFromPosix((p.from + p.slips) + 1)
        BY <2>1, <2>2, <3>1, <4>1, DateSlips
      <4> QED BY <1>19, <3>1, <4>1, <4>2
    <3>2. CASE ~p.fresh
      BY <1>19, <2>1, <2>2, <3>2
    <3> QED BY <3>1, <3>2
  <2>4. m.creation = n.creation
    BY <1>7
  <2> QED BY <1>19, <2>2, <2>3, <2>4 DEF Dated
<1> QED
  BY <1>1, <1>2, <1>6, <1>7, <1>8, <1>12, <1>13, <1>15, <1>16, <1>17, <1>19, <1>21, <1>22 DEF SlotOK, WrittenWell

\* An entry whose node was taken by fat12_remove_file and flushed.
LEMMA RemovedSlot ==
    ASSUME NEW e, NEW d, d = [Node(Deleted) EXCEPT !.is_dirty = TRUE]
    PROVE  /\ Commit(d, e) \in EntryType /\ Settled(d) \in NodeType /\ NoPast \in PastType
           /\ SlotOK(Commit(d, e), Settled(d), NoPast)
           /\ Settled(d).state = "available" /\ NodeState(Commit(d, e).name) = "available"
<1>1. Deleted \in EntryType
  <2>1. ZeroDate \in Dates
    BY DEF ZeroDate, Dates, YearsHeld
  <2>2. Deleted.name \in EntryNames
    BY DEF EntryNames
  <2>3. Deleted = [name |-> Deleted.name, attributes |-> {}, cdate |-> ZeroDate, adate |-> ZeroDate]
    <3>1. PICK name : name = [i \in 1 .. NameSize + ExtSize |-> IF i = 1 THEN Erased ELSE Nul]
      OBVIOUS
    <3>2. PICK never : never = [i \in 1 .. NameSize + ExtSize |-> Nul]
      OBVIOUS
    <3>3. NeverUsed = [name |-> never, attributes |-> {}, cdate |-> ZeroDate, adate |-> ZeroDate]
      BY <3>2 DEF NeverUsed
    <3>4. Deleted = [NeverUsed EXCEPT !.name = name]
      BY <3>1 DEF Deleted
    <3> QED BY <3>3, <3>4
  <2> QED BY <2>1, <2>2, <2>3 DEF EntryType
<1>2. PICK n \in NodeType : n = Node(Deleted) /\ Agree(Deleted, n)
  BY <1>1, LoadedNode
<1>3. n.state = "available" /\ n.name = StandardName(Deleted.name) /\ IsErased(n.name)
  BY <1>2, FreeEntries DEF Node
<1>4. n = [state |-> n.state, name |-> n.name, attributes |-> n.attributes,
           creation |-> n.creation, access |-> n.access, is_dirty |-> n.is_dirty]
  BY DEF NodeType
<1>5. d.is_dirty /\ d.name = n.name /\ Settled(d) = [n EXCEPT !.is_dirty = FALSE]
  BY <1>2, <1>4 DEF Settled
<1>6. Commit(d, e) = Deleted
  BY <1>3, <1>5 DEF Commit
<1>7. Settled(d) \in NodeType /\ Settled(d).state = "available" /\ ~Settled(d).is_dirty
  BY <1>3, <1>4, <1>5 DEF NodeType
<1>8. NodeState(Deleted.name) = "available"
  BY FreeEntries
<1>9. NoPast \in PastType
  BY DateNeverSet DEF NoPast, Past, PastType
<1> QED
  BY <1>1, <1>6, <1>7, <1>8, <1>9 DEF SlotOK, Agree, Dated

-----------------------------------------------------------------------------
(* Lookups.                                                                  *)

\* Entries are counted from 1.
LEMMA SlotFacts == Slots \in SUBSET Nat /\ 0 \notin Slots
  BY DirAssumption DEF Slots

\* The first of some entries.
LEMMA LeastFacts ==
    ASSUME NEW T \in SUBSET Slots
    PROVE  /\ T = {} => Least(T) = 0
           /\ T # {} => Least(T) \in T /\ \A i \in T : Least(T) <= i
  BY SlotFacts, MinFacts DEF Least

\* Where a lookup ends.
EndsAt(dir, name, short, f) ==
    /\ f \in Slots \cup {0}
    /\ f \in Slots => Stops(dir, f, name, short) /\ \A s \in Slots : s < f => ~Stops(dir, s, name, short)
    /\ f = 0 => \A s \in Slots : ~Stops(dir, s, name, short)

\* fat12_get_file looks at the entries in order.
LEMMA FindFacts ==
    ASSUME NEW dir, NEW name, NEW short
    PROVE  EndsAt(dir, name, short, Find(dir, name, short))
<1> DEFINE T == {s \in Slots : Stops(dir, s, name, short)}
<1>1. Find(dir, name, short) = Least(T)
  BY DEF Find, Stops, Hit
<1>2. T \in SUBSET Slots /\ \A s \in Slots : s \in T <=> Stops(dir, s, name, short)
  OBVIOUS
<1> HIDE DEF T
<1>3. CASE T = {}
  <2>1. Least(T) = 0
    BY <1>2, <1>3, LeastFacts
  <2> QED BY <1>1, <1>2, <1>3, <2>1, SlotFacts DEF EndsAt
<1>4. CASE T # {}
  <2>1. Least(T) \in T /\ \A i \in T : Least(T) <= i
    BY <1>2, <1>4, LeastFacts
  <2>2. ASSUME NEW s \in Slots, s < Least(T) PROVE s \notin T
    <3>1. PICK m : m = Least(T)
      OBVIOUS
    <3>2. m \in Nat /\ s \in Nat /\ s < m
      BY <1>2, <2>1, <2>2, <3>1, SlotFacts
    <3>3. ~(m <= s)
      BY <3>2
    <3> QED BY <2>1, <3>1, <3>3
  <2>3. Least(T) \in Slots /\ Least(T) # 0
    BY <1>2, <2>1, SlotFacts
  <2> QED BY <1>1, <1>2, <2>1, <2>2, <2>3 DEF EndsAt
<1> QED
  BY <1>3, <1>4

\* What ends a lookup where, when none before it does.
LEMMA FindIs ==
    ASSUME NEW dir, NEW name, NEW short, NEW f \in Slots, Stops(dir, f, name, short),
           \A s \in Slots : s < f => ~Stops(dir, s, name, short)
    PROVE  Find(dir, name, short) = f
<1>1. PICK g : g = Find(dir, name, short)
  OBVIOUS
<1>2. EndsAt(dir, name, short, g)
  BY <1>1, FindFacts
<1>3. g \in Slots
  BY <1>2 DEF EndsAt
<1>4. ~(g < f) /\ ~(f < g)
  BY <1>2, <1>3 DEF EndsAt
<1> QED
  BY <1>1, <1>3, <1>4, SlotFacts

\* A name is found as long as no entry turns into one never used, and its own entry
\* stays in use and keeps a name it is found by.
LEMMA PresentKept ==
    ASSUME NEW dir, NEW next, NEW name, NEW short \in Stored, Short[name] = {short},
           NEW f \in Slots, f = Find(dir, name, short), Hit(next, f, name, short),
           \A s \in Slots : next.nodes[s].state = "unused" => dir.nodes[s].state = "unused"
    PROVE  Present(next, name)
<1>1. EndsAt(dir, name, short, f)
  BY FindFacts
<1>2. PICK g : g = Find(next, name, short)
  OBVIOUS
<1>3. EndsAt(next, name, short, g)
  BY <1>2, FindFacts
<1>4. Stops(next, f, name, short)
  BY DEF Stops
<1>5. g \in Slots /\ ~(f < g)
  BY <1>3, <1>4, SlotFacts DEF EndsAt
<1>6. Hit(next, g, name, short)
  <2>1. CASE g = f
    BY <2>1
  <2>2. CASE g # f
    <3>1. g < f
      BY <1>5, <2>2, SlotFacts
    <3>2. ~Stops(dir, g, name, short)
      BY <1>1, <1>5, <3>1 DEF EndsAt
    <3>3. next.nodes[g].state # "unused"
      BY <1>5, <3>2 DEF Stops
    <3> QED BY <1>3, <1>5, <3>3 DEF EndsAt, Stops
  <2> QED BY <2>1, <2>2
<1> QED
  BY <1>2, <1>5, <1>6 DEF Present

-----------------------------------------------------------------------------
(* Flushes.                                                                  *)

\* A node that is not dirty is as it was.
LEMMA SettledSame ==
    ASSUME NEW n \in NodeType, ~n.is_dirty
    PROVE  Settled(n) = n
<1>1. /\ n = [state |-> n.state, name |-> n.name, attributes |-> n.attributes,
              creation |-> n.creation, access |-> n.access, is_dirty |-> n.is_dirty]
      /\ n.is_dirty = FALSE
  BY DEF NodeType
<1> QED
  BY <1>1 DEF Settled

\* A flush that writes one dirty node.
FlushedAt(next, entries, made, s) ==
    /\ next.stored = [entries EXCEPT ![s] = Commit(made[s], entries[s])]
    /\ next.nodes = [made EXCEPT ![s] = Settled(made[s])]
    /\ next = [stored |-> next.stored, nodes |-> next.nodes]

\* A flush writes the dirty node and nothing else.
LEMMA FlushOne ==
    ASSUME NEW S, NEW U, NEW entries \in [Slots -> S], NEW made \in [Slots -> U], NEW s \in Slots,
           \A i \in Slots : i # s => made[i] \in NodeType /\ ~made[i].is_dirty
    PROVE  FlushedAt(Flushed([stored |-> entries, nodes |-> made]), entries, made, s)
<1>1. PICK next : next = Flushed([stored |-> entries, nodes |-> made])
  OBVIOUS
<1>2. next = [stored |-> [i \in Slots |-> Commit(made[i], entries[i])],
              nodes |-> [i \in Slots |-> Settled(made[i])]]
  BY <1>1 DEF Flushed, Settled
<1>3. \A i \in Slots : i # s => Commit(made[i], entries[i]) = entries[i]
  BY DEF Commit
<1>4. \A i \in Slots : i # s => Settled(made[i]) = made[i]
  BY SettledSame
<1>5. [i \in Slots |-> Commit(made[i], entries[i])] = [entries EXCEPT ![s] = Commit(made[s], entries[s])]
  BY <1>3
<1>6. [i \in Slots |-> Settled(made[i])] = [made EXCEPT ![s] = Settled(made[s])]
  BY <1>4
<1> QED
  BY <1>1, <1>2, <1>5, <1>6 DEF FlushedAt

\* The parts of a directory.
LEMMA DirParts ==
    ASSUME NEW dir \in DirType
    PROVE  /\ dir = [stored |-> dir.stored, nodes |-> dir.nodes]
           /\ dir.stored \in [Slots -> EntryType] /\ dir.nodes \in [Slots -> NodeType]
  BY DEF DirType

\* A flush without a dirty node changes nothing.
LEMMA FlushNone ==
    ASSUME NEW dir \in DirType, \A s \in Slots : ~dir.nodes[s].is_dirty
    PROVE  Flushed(dir) = dir
<1>1. /\ dir = [stored |-> dir.stored, nodes |-> dir.nodes]
      /\ dir.stored \in [Slots -> EntryType] /\ dir.nodes \in [Slots -> NodeType]
  BY DirParts
<1>2. Flushed(dir) = [stored |-> [i \in Slots |-> Commit(dir.nodes[i], dir.stored[i])],
                      nodes |-> [i \in Slots |-> Settled(dir.nodes[i])]]
  BY DEF Flushed, Settled
<1>3. \A i \in Slots : Commit(dir.nodes[i], dir.stored[i]) = dir.stored[i]
  BY DEF Commit
<1>4. \A i \in Slots : Settled(dir.nodes[i]) = dir.nodes[i]
  BY <1>1, SettledSame
<1>5. [i \in Slots |-> Commit(dir.nodes[i], dir.stored[i])] = dir.stored
  BY <1>1, <1>3
<1>6. [i \in Slots |-> Settled(dir.nodes[i])] = dir.nodes
  BY <1>1, <1>4
<1> QED
  BY <1>1, <1>2, <1>5, <1>6

\* Between commands no node is dirty.
LEMMA GoodFacts ==
    ASSUME NEW dir, NEW before, Good(dir, before)
    PROVE  /\ dir \in DirType /\ before \in [Slots -> PastType] /\ Flushed(dir) = dir
           /\ dir = [stored |-> dir.stored, nodes |-> dir.nodes]
           /\ dir.stored \in [Slots -> EntryType] /\ dir.nodes \in [Slots -> NodeType]
           /\ \A s \in Slots : SlotOK(dir.stored[s], dir.nodes[s], before[s]) /\ ~dir.nodes[s].is_dirty
<1>1. \A s \in Slots : ~dir.nodes[s].is_dirty
  BY DEF Good, SlotOK, Agree
<1> QED
  BY <1>1, FlushNone, DirParts DEF Good

\* One slot of a good directory takes an entry, a node and a past that go together.
LEMMA GoodPut ==
    ASSUME NEW dir, NEW before, Good(dir, before), NEW s \in Slots,
           NEW e \in EntryType, NEW n \in NodeType, NEW p \in PastType, SlotOK(e, n, p),
           NEW next, next = [stored |-> [dir.stored EXCEPT ![s] = e], nodes |-> [dir.nodes EXCEPT ![s] = n]]
    PROVE  Good(next, [before EXCEPT ![s] = p])
<1>1. /\ dir.stored \in [Slots -> EntryType] /\ dir.nodes \in [Slots -> NodeType]
      /\ before \in [Slots -> PastType]
      /\ \A i \in Slots : SlotOK(dir.stored[i], dir.nodes[i], before[i])
  BY GoodFacts
<1>2. PICK after : after = [before EXCEPT ![s] = p]
  OBVIOUS
<1>3. /\ next.stored \in [Slots -> EntryType] /\ next.nodes \in [Slots -> NodeType]
      /\ next = [stored |-> next.stored, nodes |-> next.nodes]
      /\ after \in [Slots -> PastType]
  BY <1>1, <1>2
<1>4. ASSUME NEW i \in Slots PROVE SlotOK(next.stored[i], next.nodes[i], after[i])
  <2>1. CASE i = s
    <3>1. next.stored[i] = e /\ next.nodes[i] = n /\ after[i] = p
      BY <1>1, <1>2, <2>1
    <3> QED BY <3>1
  <2>2. CASE i # s
    <3>1. next.stored[i] = dir.stored[i] /\ next.nodes[i] = dir.nodes[i] /\ after[i] = before[i]
      BY <1>1, <1>2, <2>2
    <3> QED BY <1>1, <3>1
  <2> QED BY <2>1, <2>2
<1>5. next \in DirType
  BY <1>3 DEF DirType
<1> QED
  BY <1>2, <1>3, <1>4, <1>5 DEF Good

-----------------------------------------------------------------------------
(* fat12_get_file.                                                           *)

\* Every short name that is made may be stored.
LEMMA ShortStored ==
    ASSUME NEW name \in Typed \cup DirNames
    PROVE  Short[name] = ShortNames(name) /\ Short[name] \subseteq Stored
  BY ShortNamesType, DirAssumption DEF Short

\* What a lookup leaves as it was: the entries in use, and no entry turns into one
\* never used.
Keeps(dir, before, next, after) ==
    \A s \in Slots :
        /\ dir.nodes[s].state = "used" =>
              next.stored[s] = dir.stored[s] /\ next.nodes[s] = dir.nodes[s] /\ after[s] = before[s]
        /\ next.nodes[s].state = "unused" => dir.nodes[s].state = "unused"

\* A name that is found before a lookup is found after it.
LEMMA KeepsPresent ==
    ASSUME NEW dir, NEW before, NEW next, NEW after, Keeps(dir, before, next, after),
           NEW name, Present(dir, name)
    PROVE  Present(next, name)
<1>1. PICK short \in Stored :
          /\ Short[name] = {short}
          /\ Find(dir, name, short) \in Slots
          /\ Hit(dir, Find(dir, name, short), name, short)
  BY DEF Present
<1>2. PICK f \in Slots : f = Find(dir, name, short)
  BY <1>1
<1>3. Hit(dir, f, name, short)
  BY <1>1, <1>2
<1>4. Hit(next, f, name, short)
  BY <1>3 DEF Hit, Keeps
<1>5. \A s \in Slots : next.nodes[s].state = "unused" => dir.nodes[s].state = "unused"
  BY DEF Keeps
<1> QED
  BY <1>1, <1>2, <1>4, <1>5, PresentKept

\* What a lookup that may make an entry returns.
Got(dir, before, got, name) ==
    /\ Good(got.dir, WithNew(before, got))
    /\ Keeps(dir, before, got.dir, WithNew(before, got))
    /\ got.slot \in Slots \cup {0}
    /\ got.slot \in Slots => got.dir.nodes[got.slot].state = "used"
    /\ got.slot = 0 => \E short \in Short[name] : Find(dir, name, short) = 0
    /\ \A short \in Stored : Short[name] = {short} /\ got.slot \in Slots => Present(got.dir, name)

\* The entry a new file takes is not in use, and the scan ends at none before it.
LEMMA AvailableFacts ==
    ASSUME NEW dir, NEW name, NEW short, NEW f, f = Find(dir, name, short),
           NEW s, s = FirstAvailable(dir, name, short)
    PROVE  /\ s \in Slots \cup {0}
           /\ s = 0 /\ f \in Slots => Hit(dir, f, name, short)
           /\ s \in Slots =>
                 /\ dir.nodes[s].state # "used"
                 /\ \A i \in Slots : i < s => ~Stops(dir, i, name, short)
<1> DEFINE T == {i \in Slots : dir.nodes[i].state # "used" /\ (f = 0 \/ i <= f)}
<1>1. s = Least(T)
  BY DEF FirstAvailable
<1>2. T \in SUBSET Slots
      /\ \A i \in Slots : i \in T <=> (dir.nodes[i].state # "used" /\ (f = 0 \/ i <= f))
  OBVIOUS
<1> HIDE DEF T
<1>3. EndsAt(dir, name, short, f)
  BY FindFacts
<1>4. CASE T = {}
  <2>1. s = 0
    BY <1>1, <1>2, <1>4, LeastFacts
  <2>2. ASSUME f \in Slots PROVE Hit(dir, f, name, short)
    <3>1. f <= f
      BY <2>2, SlotFacts
    <3>2. dir.nodes[f].state = "used"
      BY <1>2, <1>4, <2>2, <3>1
    <3> QED BY <1>3, <2>2, <3>2 DEF EndsAt, Stops
  <2> QED BY <2>1, <2>2, SlotFacts
<1>5. CASE T # {}
  <2>1. s \in T /\ \A i \in T : s <= i
    BY <1>1, <1>2, <1>5, LeastFacts
  <2>2. s \in Slots /\ s # 0 /\ dir.nodes[s].state # "used" /\ (f = 0 \/ s <= f)
    BY <1>2, <2>1, SlotFacts
  <2>3. ASSUME NEW i \in Slots, i < s PROVE ~Stops(dir, i, name, short)
    <3>1. CASE f = 0
      BY <1>3, <3>1 DEF EndsAt
    <3>2. CASE f # 0
      <4>1. f \in Slots
        BY <1>3, <3>2 DEF EndsAt
      <4>2. i < f
        BY <2>2, <2>3, <3>2, <4>1, SlotFacts
      <4> QED BY <1>3, <4>1, <4>2 DEF EndsAt
    <3> QED BY <3>1, <3>2
  <2> QED BY <2>2, <2>3
<1> QED
  BY <1>4, <1>5

\* A lookup that finds no entry to take returns what the scan came to.
LEMMA FoundOrFull ==
    ASSUME NEW dir, NEW before, Good(dir, before), NEW name \in Typed \cup DirNames,
           NEW scan \in Short[name], FirstAvailable(dir, name, scan) = 0,
           NEW got, got = [dir |-> Flushed(dir), slot |-> Find(dir, name, scan), new |-> FALSE]
    PROVE  Got(dir, before, got, name)
<1>1. PICK f : f = Find(dir, name, scan)
  OBVIOUS
<1>2. got.dir = dir /\ got.slot = f /\ WithNew(before, got) = before
  BY <1>1, GoodFacts DEF WithNew
<1>3. f \in Slots \cup {0} /\ (f \in Slots => Hit(dir, f, name, scan))
  BY <1>1, AvailableFacts, FindFacts DEF EndsAt
<1>4. Keeps(dir, before, dir, before)
  BY DEF Keeps
<1>5. f = 0 => \E short \in Short[name] : Find(dir, name, short) = 0
  BY <1>1
<1>6. ASSUME NEW short \in Stored, Short[name] = {short}, f \in Slots PROVE Present(dir, name)
  <2>1. short = scan
    BY <1>6
  <2> QED BY <1>1, <1>3, <1>6, <2>1 DEF Present
<1> QED
  BY <1>2, <1>3, <1>4, <1>5, <1>6 DEF Got, Hit

\* A lookup that takes an entry.
LEMMA NewlyMade ==
    ASSUME NEW dir, NEW before, Good(dir, before), NEW name \in Typed \cup DirNames,
           NEW attributes \in {{}, {"directory"}},
           NEW scan \in Short[name], NEW s \in Slots, s = FirstAvailable(dir, name, scan),
           NEW short \in Short[name],
           NEW got, got = [dir |-> Flushed(Created(dir, s, short, attributes)), slot |-> s, new |-> TRUE]
    PROVE  Got(dir, before, got, name)
<1>1. short \in Stored
  BY ShortStored
<1>2. PICK next : next = got.dir
  OBVIOUS
<1>3. PICK after : after = WithNew(before, got)
  OBVIOUS
<1>4. after = [before EXCEPT ![s] = Past(Now, TRUE, 1, FALSE)] /\ got.slot = s
  BY <1>3 DEF WithNew
<1>5. /\ dir.stored \in [Slots -> EntryType] /\ dir.nodes \in [Slots -> NodeType]
      /\ before \in [Slots -> PastType]
      /\ \A i \in Slots : ~dir.nodes[i].is_dirty
  BY GoodFacts
<1>6. PICK e : e = Commit(NewNode(short, attributes), NewEntry(short, attributes))
  OBVIOUS
<1>7. PICK n : n = Settled(NewNode(short, attributes))
  OBVIOUS
<1>8. /\ e \in EntryType /\ n \in NodeType /\ Past(Now, TRUE, 1, FALSE) \in PastType
      /\ SlotOK(e, n, Past(Now, TRUE, 1, FALSE))
      /\ n.state = "used" /\ n.name = StandardName(short)
  BY <1>1, <1>6, <1>7, CreatedSlot
<1>9. next = [stored |-> [dir.stored EXCEPT ![s] = e], nodes |-> [dir.nodes EXCEPT ![s] = n]]
  <2>1. PICK entries : entries = [dir.stored EXCEPT ![s] = NewEntry(short, attributes)]
    OBVIOUS
  <2>2. PICK made : made = [dir.nodes EXCEPT ![s] = NewNode(short, attributes)]
    OBVIOUS
  <2>3. Created(dir, s, short, attributes) = [stored |-> entries, nodes |-> made]
    BY <2>1, <2>2 DEF Created, NewEntry, NewNode
  <2>4. /\ entries \in [Slots -> EntryType \cup {NewEntry(short, attributes)}]
        /\ made \in [Slots -> NodeType \cup {NewNode(short, attributes)}]
        /\ entries[s] = NewEntry(short, attributes) /\ made[s] = NewNode(short, attributes)
        /\ \A i \in Slots : i # s => made[i] \in NodeType /\ ~made[i].is_dirty
    BY <1>5, <2>1, <2>2
  <2>5. next = Flushed([stored |-> entries, nodes |-> made])
    BY <1>2, <2>3
  <2>6. /\ next.stored = [entries EXCEPT ![s] = e] /\ next.nodes = [made EXCEPT ![s] = n]
        /\ next = [stored |-> next.stored, nodes |-> next.nodes]
    <3>1. PICK S : S = EntryType \cup {NewEntry(short, attributes)}
      OBVIOUS
    <3>2. PICK U : U = NodeType \cup {NewNode(short, attributes)}
      OBVIOUS
    <3>3. entries \in [Slots -> S] /\ made \in [Slots -> U]
      BY <2>4, <3>1, <3>2
    <3>4. FlushedAt(next, entries, made, s)
      BY <2>4, <2>5, <3>3, FlushOne
    <3>5. Commit(made[s], entries[s]) = e /\ Settled(made[s]) = n
      BY <1>6, <1>7, <2>4
    <3> QED BY <3>4, <3>5 DEF FlushedAt
  <2>7. [entries EXCEPT ![s] = e] = [dir.stored EXCEPT ![s] = e]
    BY <1>5, <2>1
  <2>8. [made EXCEPT ![s] = n] = [dir.nodes EXCEPT ![s] = n]
    BY <1>5, <2>2
  <2> QED BY <2>6, <2>7, <2>8
<1>10. Good(next, after)
  BY <1>4, <1>8, <1>9, GoodPut
<1>11. /\ \A i \in Slots : i # s => /\ next.stored[i] = dir.stored[i] /\ next.nodes[i] = dir.nodes[i]
                                   /\ after[i] = before[i]
       /\ next.nodes[s] = n
  BY <1>4, <1>5, <1>9
<1>12. /\ dir.nodes[s].state # "used"
       /\ \A i \in Slots : i < s => ~Stops(dir, i, name, scan)
  BY AvailableFacts
<1>13. Keeps(dir, before, next, after)
  BY <1>8, <1>11, <1>12 DEF Keeps
<1>14. ASSUME NEW x \in Stored, Short[name] = {x} PROVE Present(next, name)
  <2>1. x = short /\ x = scan
    BY <1>14
  <2>2. Hit(next, s, name, x)
    BY <1>8, <1>11, <2>1 DEF Hit
  <2>3. ASSUME NEW i \in Slots, i < s PROVE ~Stops(next, i, name, x)
    <3>1. i # s
      BY <2>3, SlotFacts
    <3> QED BY <1>11, <1>12, <2>1, <2>3, <3>1 DEF Stops, Hit
  <2>4. Find(next, name, x) = s
    BY <2>2, <2>3, FindIs DEF Stops
  <2> QED BY <1>14, <2>2, <2>4 DEF Present
<1>15. got.slot \in Slots /\ got.slot # 0 /\ next.nodes[got.slot].state = "used"
  BY <1>4, <1>8, <1>11, SlotFacts
<1> QED
  BY <1>2, <1>3, <1>10, <1>13, <1>14, <1>15 DEF Got

\* Every lookup that may make an entry.
LEMMA GetOrNew ==
    ASSUME NEW dir, NEW before, Good(dir, before), NEW name \in Typed \cup DirNames,
           NEW attributes \in {{}, {"directory"}}, NEW got \in LookupsOrNew(dir, name, attributes)
    PROVE  Got(dir, before, got, name) /\ Short[name] # {}
<1>1. PICK scan \in Short[name] :
          got \in LET s == FirstAvailable(dir, name, scan)
                  IN  IF s = 0
                      THEN {[dir |-> Flushed(dir), slot |-> Find(dir, name, scan), new |-> FALSE]}
                      ELSE {[dir |-> Flushed(Created(dir, s, short, attributes)), slot |-> s, new |-> TRUE] :
                               short \in Short[name]}
  BY DEF LookupsOrNew
<1>2. PICK s : s = FirstAvailable(dir, name, scan)
  OBVIOUS
<1>3. PICK f : f = Find(dir, name, scan)
  OBVIOUS
<1>4. s \in Slots \cup {0}
  BY <1>2, <1>3, AvailableFacts
<1>5. CASE s = 0
  <2>1. got = [dir |-> Flushed(dir), slot |-> Find(dir, name, scan), new |-> FALSE]
    BY <1>1, <1>2, <1>5
  <2> QED BY <1>2, <1>5, <2>1, FoundOrFull
<1>6. CASE s # 0
  <2>1. PICK short \in Short[name] :
            got = [dir |-> Flushed(Created(dir, s, short, attributes)), slot |-> s, new |-> TRUE]
    BY <1>1, <1>2, <1>6
  <2> QED BY <1>2, <1>4, <1>6, <2>1, NewlyMade
<1> QED
  BY <1>5, <1>6

-----------------------------------------------------------------------------
(* The commands.                                                             *)

\* A typed name becomes one that is found where it has one short name.
LEMMA Named ==
    ASSUME NEW name \in Typed \cup DirNames, Short[name] # {}, Name(name),
           NEW dir, typed \subseteq Typed \cup DirNames,
           \A other \in typed : Present(dir, other),
           \A short \in Stored : Short[name] = {short} => Present(dir, name)
    PROVE  typed' \subseteq Typed \cup DirNames /\ \A other \in typed' : Present(dir, other)
<1>1. CASE \A a, b \in Short[name] : a = b
  <2>1. PICK short \in Short[name] : TRUE
    OBVIOUS
  <2>2. Short[name] = {short} /\ short \in Stored
    BY <1>1, <2>1, ShortStored
  <2>3. typed' = typed \cup {name}
    BY <1>1 DEF Name
  <2> QED BY <2>2, <2>3
<1>2. CASE ~(\A a, b \in Short[name] : a = b)
  <2>1. typed' = typed
    BY <1>2 DEF Name
  <2> QED BY <2>1
<1> QED
  BY <1>1, <1>2

\* So are all the names a directory holds.
LEMMA GotPresent ==
    ASSUME NEW dir, NEW before, NEW name, NEW got, Got(dir, before, got, name),
           NEW names, \A other \in names : Present(dir, other)
    PROVE  \A other \in names : Present(got.dir, other)
  BY KeepsPresent DEF Got

\* A command that ends with a directory that is good, and in which the typed names are
\* found.
LEMMA Becoming ==
    ASSUME NEW dir, Becomes(dir), Good(dir, past'), typed' \subseteq Typed \cup DirNames,
           \A other \in typed' : Present(dir, other)
    PROVE  DirIInv'
<1>1. dir = Directory'
  BY GoodFacts DEF Becomes, Directory
<1>2. (\A other \in typed : Present(Directory, other))'
  BY <1>1 DEF Present, Find, Hit, Stops
<1> QED
  BY <1>1, <1>2 DEF DirIInv

\* An entry is in use exactly when its node is.
LEMMA InUseIs ==
    ASSUME DirIInv, NEW s \in Slots
    PROVE  /\ InUse(s) <=> nodes[s].state = "used"
           /\ stored[s] \in EntryType /\ stored[s].attributes \in SUBSET Attributes
<1>1. stored[s] \in EntryType /\ SlotOK(stored[s], nodes[s], past[s])
  BY GoodFacts DEF DirIInv, Directory
<1> QED
  BY <1>1 DEF InUse, SlotOK, Agree, EntryType

\* The step of the action property.
AttributesStep ==
    \A s \in Slots :
        InUse(s) /\ InUse(s)' =>
            /\ stored[s].attributes \ {"archive", "volume_id"} \subseteq stored'[s].attributes
            /\ stored'[s].attributes \subseteq stored[s].attributes
            /\ stored'[s].attributes # stored[s].attributes =>
                  past'[s].written /\ stored'[s].adate = DateFromPosix(Now)

\* An entry in use that a command leaves alone, writes or removes.
LEMMA AttributesOf ==
    ASSUME DirIInv,
           \A s \in Slots : nodes[s].state = "used" =>
               \/ stored'[s] = stored[s]
               \/ /\ stored'[s].attributes = Translated(stored[s].attributes)
                  /\ past'[s].written /\ stored'[s].adate = DateFromPosix(Now)
               \/ ~InUse(s)'
    PROVE  AttributesStep
<1> SUFFICES ASSUME NEW s \in Slots, InUse(s), InUse(s)'
             PROVE  /\ stored[s].attributes \ {"archive", "volume_id"} \subseteq stored'[s].attributes
                    /\ stored'[s].attributes \subseteq stored[s].attributes
                    /\ stored'[s].attributes # stored[s].attributes =>
                          past'[s].written /\ stored'[s].adate = DateFromPosix(Now)
  BY DEF AttributesStep
<1>1. stored[s].attributes \in SUBSET Attributes /\ nodes[s].state = "used"
  BY InUseIs
<1>2. CASE stored'[s] = stored[s]
  BY <1>2
<1>3. CASE /\ stored'[s].attributes = Translated(stored[s].attributes)
           /\ past'[s].written /\ stored'[s].adate = DateFromPosix(Now)
  BY <1>1, <1>3, Translating
<1> QED
  BY <1>1, <1>2, <1>3

\* fat12_create_file.
LEMMA TouchKeeps ==
    ASSUME DirIInv, NEW name \in Typed \cup DirNames, TouchFile(name)
    PROVE  DirIInv' /\ AttributesStep
<1>1. PICK got \in LookupsOrNew(Directory, name, {}) :
          /\ got.slot # 0
          /\ Becomes(got.dir)
          /\ Name(name)
          /\ past' = WithNew(past, got)
  BY DEF TouchFile
<1>2. Got(Directory, past, got, name) /\ Short[name] # {}
  BY GetOrNew DEF DirIInv
<1>3. Good(got.dir, past')
  BY <1>1, <1>2 DEF Got
<1>4. \A other \in typed : Present(got.dir, other)
  BY <1>2, GotPresent DEF DirIInv
<1>5. \A short \in Stored : Short[name] = {short} => Present(got.dir, name)
  BY <1>1, <1>2 DEF Got
<1>6. typed' \subseteq Typed \cup DirNames /\ \A other \in typed' : Present(got.dir, other)
  BY <1>1, <1>2, <1>4, <1>5, Named DEF DirIInv
<1>7. \A s \in Slots : nodes[s].state = "used" => stored'[s] = stored[s]
  BY <1>1, <1>2 DEF Got, Keeps, Becomes, Directory
<1> QED
  BY <1>1, <1>3, <1>6, <1>7, Becoming, AttributesOf

\* Names are found by state and name alone.
LEMMA SameNames ==
    ASSUME NEW dir, NEW next,
           \A s \in Slots : next.nodes[s].state = dir.nodes[s].state /\ next.nodes[s].name = dir.nodes[s].name,
           NEW name, Present(dir, name)
    PROVE  Present(next, name)
<1>1. PICK short \in Stored :
          /\ Short[name] = {short}
          /\ Find(dir, name, short) \in Slots
          /\ Hit(dir, Find(dir, name, short), name, short)
  BY DEF Present
<1>2. PICK f \in Slots : f = Find(dir, name, short)
  BY <1>1
<1>3. Hit(next, f, name, short)
  BY <1>1, <1>2 DEF Hit
<1> QED
  BY <1>1, <1>2, <1>3, PresentKept

\* What fat12_file_write does to the entry, and to no other.
Marked(dir, s) == [dir EXCEPT !.nodes[s].is_dirty = TRUE, !.nodes[s].access = Now]

Wrote(dir, before, s, next) ==
    /\ Good(next, [before EXCEPT ![s] = WrittenPast(before[s])])
    /\ \A i \in Slots : next.nodes[i].state = dir.nodes[i].state /\ next.nodes[i].name = dir.nodes[i].name
    /\ \A i \in Slots : i # s => next.stored[i] = dir.stored[i]
    /\ next.stored[s].attributes = Translated(dir.stored[s].attributes)
    /\ next.stored[s].adate = DateFromPosix(Now)

\* The mark and the flush of fat12_file_write.
LEMMA WriteOne ==
    ASSUME NEW dir, NEW before, Good(dir, before), NEW s \in Slots, dir.nodes[s].state = "used"
    PROVE  Wrote(dir, before, s, Flushed(Marked(dir, s)))
<1>1. /\ dir.stored \in [Slots -> EntryType] /\ dir.nodes \in [Slots -> NodeType]
      /\ before \in [Slots -> PastType]
      /\ dir = [stored |-> dir.stored, nodes |-> dir.nodes]
      /\ \A i \in Slots : SlotOK(dir.stored[i], dir.nodes[i], before[i]) /\ ~dir.nodes[i].is_dirty
  BY GoodFacts
<1>2. PICK d : d = [dir.nodes[s] EXCEPT !.is_dirty = TRUE, !.access = Now]
  OBVIOUS
<1>3. PICK made : made = [dir.nodes EXCEPT ![s] = d]
  OBVIOUS
<1>4. Marked(dir, s) = [stored |-> dir.stored, nodes |-> made]
  <2>1. PICK old : old = dir.nodes
    OBVIOUS
  <2>2. PICK entries : entries = dir.stored
    OBVIOUS
  <2>3. dir = [stored |-> entries, nodes |-> old] /\ old \in [Slots -> NodeType]
    BY <1>1, <2>1, <2>2
  <2>4. PICK first : first = [old EXCEPT ![s].is_dirty = TRUE]
    OBVIOUS
  <2>5. PICK one : one = [dir EXCEPT !.nodes[s].is_dirty = TRUE]
    OBVIOUS
  <2>6. one = [stored |-> entries, nodes |-> first]
    BY <2>3, <2>4, <2>5
  <2>7. Marked(dir, s) = [one EXCEPT !.nodes[s].access = Now]
    BY <2>5 DEF Marked
  <2>8. Marked(dir, s) = [stored |-> entries, nodes |-> [first EXCEPT ![s].access = Now]]
    BY <2>6, <2>7
  <2>9. [first EXCEPT ![s].access = Now] = [old EXCEPT ![s] = d]
    BY <1>2, <2>1, <2>3, <2>4
  <2> QED BY <1>3, <2>1, <2>2, <2>8, <2>9
<1>5. /\ made \in [Slots -> NodeType \cup {d}] /\ made[s] = d
      /\ \A i \in Slots : i # s => made[i] \in NodeType /\ ~made[i].is_dirty /\ made[i] = dir.nodes[i]
  BY <1>1, <1>3
<1>6. PICK next : next = Flushed(Marked(dir, s))
  OBVIOUS
<1>7. FlushedAt(next, dir.stored, made, s)
  <2>1. PICK U : U = NodeType \cup {d}
    OBVIOUS
  <2>2. made \in [Slots -> U]
    BY <1>5, <2>1
  <2>3. PICK entries : entries = dir.stored
    OBVIOUS
  <2>4. entries \in [Slots -> EntryType]
    BY <1>1, <2>3
  <2>5. next = Flushed([stored |-> entries, nodes |-> made])
    BY <1>4, <1>6, <2>3
  <2>6. FlushedAt(next, entries, made, s)
    BY <1>5, <2>2, <2>4, <2>5, FlushOne
  <2> QED BY <2>3, <2>6
<1>8. PICK f : f = Commit(d, dir.stored[s])
  OBVIOUS
<1>9. PICK n : n = Settled(d)
  OBVIOUS
<1>10. /\ f \in EntryType /\ n \in NodeType /\ WrittenPast(before[s]) \in PastType
       /\ SlotOK(f, n, WrittenPast(before[s]))
       /\ n.state = dir.nodes[s].state /\ n.name = dir.nodes[s].name
       /\ f.attributes = Translated(dir.stored[s].attributes) /\ f.adate = DateFromPosix(Now)
  <2>1. PICK x : x = dir.stored[s]
    OBVIOUS
  <2>2. PICK y : y = dir.nodes[s]
    OBVIOUS
  <2>3. PICK z : z = before[s]
    OBVIOUS
  <2>4. x \in EntryType /\ y \in NodeType /\ z \in PastType /\ SlotOK(x, y, z) /\ y.state = "used"
    BY <1>1, <2>1, <2>2, <2>3
  <2>5. WrittenWell(x, y, z, Commit(Dirty(y), x), Settled(Dirty(y)))
    BY <2>4, WrittenSlot
  <2>6. f = Commit(Dirty(y), x) /\ n = Settled(Dirty(y))
    BY <1>2, <1>8, <1>9, <2>1, <2>2 DEF Dirty
  <2> QED BY <2>1, <2>2, <2>3, <2>5, <2>6 DEF WrittenWell
<1>11. next = [stored |-> [dir.stored EXCEPT ![s] = f], nodes |-> [dir.nodes EXCEPT ![s] = n]]
  <2>1. next.stored = [dir.stored EXCEPT ![s] = f] /\ next.nodes = [made EXCEPT ![s] = n]
    BY <1>5, <1>7, <1>8, <1>9 DEF FlushedAt
  <2>2. [made EXCEPT ![s] = n] = [dir.nodes EXCEPT ![s] = n]
    BY <1>1, <1>3
  <2> QED BY <1>7, <2>1, <2>2 DEF FlushedAt
<1>12. Good(next, [before EXCEPT ![s] = WrittenPast(before[s])])
  BY <1>10, <1>11, GoodPut
<1>13. /\ \A i \in Slots : i # s => next.stored[i] = dir.stored[i] /\ next.nodes[i] = dir.nodes[i]
       /\ next.stored[s] = f /\ next.nodes[s] = n
  BY <1>1, <1>11
<1> QED
  BY <1>6, <1>10, <1>12, <1>13 DEF Wrote

\* vfs_write.
LEMMA WriteKeeps ==
    ASSUME DirIInv, NEW name \in Typed \cup DirNames, WriteFile(name)
    PROVE  DirIInv' /\ AttributesStep
<1>1. PICK touched \in LookupsOrNew(Directory, name, {}) :
      \E got \in LookupsOrNew(touched.dir, name, {}) :
        LET before == WithNew(WithNew(past, touched), got)
            old    == before[got.slot]
            slips  == IF old.fresh THEN old.slips + 1 ELSE old.slips
        IN  /\ got.slot # 0
            /\ Becomes(Flushed(Marked(got.dir, got.slot)))
            /\ Name(name)
            /\ past' = [before EXCEPT ![got.slot] =
                    [old EXCEPT !.slips = slips, !.fresh = FALSE, !.written = TRUE]]
  BY DEF WriteFile, Marked
<1>2. PICK got \in LookupsOrNew(touched.dir, name, {}) :
        LET before == WithNew(WithNew(past, touched), got)
            old    == before[got.slot]
            slips  == IF old.fresh THEN old.slips + 1 ELSE old.slips
        IN  /\ got.slot # 0
            /\ Becomes(Flushed(Marked(got.dir, got.slot)))
            /\ Name(name)
            /\ past' = [before EXCEPT ![got.slot] =
                    [old EXCEPT !.slips = slips, !.fresh = FALSE, !.written = TRUE]]
  BY <1>1
<1>3. PICK between : between = WithNew(past, touched)
  OBVIOUS
<1>4. PICK before : before = WithNew(between, got)
  OBVIOUS
<1>5. PICK s : s = got.slot
  OBVIOUS
<1>6. PICK next : next = Flushed(Marked(got.dir, s))
  OBVIOUS
<1>7. /\ s # 0 /\ Becomes(next) /\ Name(name)
      /\ past' = [before EXCEPT ![s] = WrittenPast(before[s])]
  BY <1>2, <1>3, <1>4, <1>5, <1>6 DEF WrittenPast
<1>8. Got(Directory, past, touched, name) /\ Short[name] # {}
  BY GetOrNew DEF DirIInv
<1>9. Good(touched.dir, between)
  BY <1>3, <1>8 DEF Got
<1>10. Got(touched.dir, between, got, name)
  BY <1>9, GetOrNew
<1>11. Good(got.dir, before) /\ s \in Slots /\ got.dir.nodes[s].state = "used"
  BY <1>4, <1>5, <1>7, <1>10 DEF Got
<1>12. Wrote(got.dir, before, s, next)
  BY <1>6, <1>11, WriteOne
<1>13. Good(next, past')
  BY <1>7, <1>12 DEF Wrote
<1>14. ASSUME NEW other, Present(got.dir, other) PROVE Present(next, other)
  BY <1>12, <1>14, SameNames DEF Wrote
<1>15. \A other \in typed : Present(next, other)
  <2>1. \A other \in typed : Present(touched.dir, other)
    BY <1>8, GotPresent DEF DirIInv
  <2>2. \A other \in typed : Present(got.dir, other)
    BY <1>10, <2>1, GotPresent
  <2> QED BY <1>14, <2>2
<1>16. \A short \in Stored : Short[name] = {short} => Present(next, name)
  BY <1>5, <1>10, <1>11, <1>14 DEF Got
<1>17. typed' \subseteq Typed \cup DirNames /\ \A other \in typed' : Present(next, other)
  BY <1>7, <1>8, <1>15, <1>16, Named DEF DirIInv
<1>18. ASSUME NEW i \in Slots, nodes[i].state = "used"
       PROVE  \/ stored'[i] = stored[i]
              \/ /\ stored'[i].attributes = Translated(stored[i].attributes)
                 /\ past'[i].written /\ stored'[i].adate = DateFromPosix(Now)
  <2>1. touched.dir.stored[i] = stored[i] /\ touched.dir.nodes[i] = nodes[i] /\ between[i] = past[i]
    BY <1>3, <1>8, <1>18 DEF Got, Keeps, Directory
  <2>2. got.dir.stored[i] = stored[i]
    BY <1>4, <1>10, <1>18, <2>1 DEF Got, Keeps
  <2>3. stored' = next.stored
    BY <1>7 DEF Becomes
  <2>4. CASE i # s
    BY <1>12, <2>2, <2>3, <2>4 DEF Wrote
  <2>5. CASE i = s
    <3>1. before \in [Slots -> PastType]
      BY <1>11, GoodFacts
    <3>2. past'[s] = WrittenPast(before[s]) /\ before[s] \in PastType
      BY <1>7, <1>11, <3>1
    <3>3. past'[s].written
      BY <3>2 DEF WrittenPast, PastType
    <3> QED BY <1>12, <2>2, <2>3, <2>5, <3>3 DEF Wrote
  <2> QED BY <2>4, <2>5
<1> QED
  BY <1>7, <1>13, <1>17, <1>18, Becoming, AttributesOf

\* What fat12_remove_file leaves of the node.
Gone == [Node(Deleted) EXCEPT !.is_dirty = TRUE]

\* What a removal does to the directory.
LEMMA RemoveOne ==
    ASSUME NEW dir, NEW before, Good(dir, before), NEW s \in Slots,
           NEW next, next = Flushed([dir EXCEPT !.nodes[s] = Gone])
    PROVE  /\ Good(next, [before EXCEPT ![s] = NoPast])
           /\ \A i \in Slots : i # s => next.stored[i] = dir.stored[i] /\ next.nodes[i] = dir.nodes[i]
           /\ next.nodes[s].state = "available" /\ NodeState(next.stored[s].name) = "available"
<1>1. PICK old : old = dir.nodes
  OBVIOUS
<1>2. PICK entries : entries = dir.stored
  OBVIOUS
<1>3. /\ entries \in [Slots -> EntryType] /\ old \in [Slots -> NodeType]
      /\ dir = [stored |-> entries, nodes |-> old]
      /\ \A i \in Slots : ~old[i].is_dirty
  BY <1>1, <1>2, GoodFacts
<1>4. PICK made : made = [old EXCEPT ![s] = Gone]
  OBVIOUS
<1>5. next = Flushed([stored |-> entries, nodes |-> made])
  <2>1. [dir EXCEPT !.nodes[s] = Gone] = [stored |-> entries, nodes |-> made]
    BY <1>3, <1>4
  <2> QED BY <2>1
<1>6. PICK U : U = NodeType \cup {Gone}
  OBVIOUS
<1>7. /\ made \in [Slots -> U] /\ made[s] = Gone
      /\ \A i \in Slots : i # s => made[i] \in NodeType /\ ~made[i].is_dirty /\ made[i] = old[i]
  BY <1>3, <1>4, <1>6
<1>8. FlushedAt(next, entries, made, s)
  <2>1. entries \in [Slots -> EntryType] /\ made \in [Slots -> U]
    BY <1>3, <1>7
  <2>2. \A i \in Slots : i # s => made[i] \in NodeType /\ ~made[i].is_dirty
    BY <1>7
  <2>3. FlushedAt(Flushed([stored |-> entries, nodes |-> made]), entries, made, s)
    BY <2>1, <2>2, FlushOne
  <2> QED BY <1>5, <2>3
<1>9. PICK f : f = Commit(Gone, entries[s])
  OBVIOUS
<1>10. PICK n : n = Settled(Gone)
  OBVIOUS
<1>11. /\ f \in EntryType /\ n \in NodeType /\ NoPast \in PastType /\ SlotOK(f, n, NoPast)
       /\ n.state = "available" /\ NodeState(f.name) = "available"
  BY <1>9, <1>10, RemovedSlot DEF Gone
<1>12. next = [stored |-> [entries EXCEPT ![s] = f], nodes |-> [old EXCEPT ![s] = n]]
  <2>1. next.stored = [entries EXCEPT ![s] = f] /\ next.nodes = [made EXCEPT ![s] = n]
    BY <1>7, <1>8, <1>9, <1>10 DEF FlushedAt
  <2>2. [made EXCEPT ![s] = n] = [old EXCEPT ![s] = n]
    BY <1>3, <1>4
  <2> QED BY <1>8, <2>1, <2>2 DEF FlushedAt
<1>13. Good(next, [before EXCEPT ![s] = NoPast])
  BY <1>1, <1>2, <1>11, <1>12, GoodPut
<1>14. /\ \A i \in Slots : i # s => next.stored[i] = entries[i] /\ next.nodes[i] = old[i]
       /\ next.stored[s] = f /\ next.nodes[s] = n
  BY <1>3, <1>12
<1> QED
  BY <1>1, <1>2, <1>11, <1>13, <1>14

\* fat12_remove_file.
LEMMA RemoveKeeps ==
    ASSUME DirIInv, NEW name \in Typed \cup DirNames, RemoveFile(name)
    PROVE  DirIInv' /\ AttributesStep
<1>1. PICK got \in Lookups(Directory, name) :
        /\ got.slot # 0
        /\ Becomes(Flushed([got.dir EXCEPT !.nodes[got.slot] = Gone]))
        /\ typed' = {other \in typed :
                        \A short \in Short[other] : Find(Directory, other, short) # got.slot}
        /\ past' = [past EXCEPT ![got.slot] = NoPast]
  BY DEF RemoveFile, Gone
<1>2. PICK scan \in Short[name] :
        got = [dir |-> Flushed(Directory), slot |-> Find(Directory, name, scan), new |-> FALSE]
  BY DEF Lookups
<1>3. PICK s : s = got.slot
  OBVIOUS
<1>4. s \in Slots /\ got.dir = Directory
  <2>1. EndsAt(Directory, name, scan, s)
    <3>1. s = Find(Directory, name, scan)
      BY <1>2, <1>3
    <3> QED BY <3>1, FindFacts
  <2>2. got.dir = Flushed(Directory)
    BY <1>2
  <2> QED BY <1>1, <1>3, <2>1, <2>2, GoodFacts DEF EndsAt, DirIInv
<1>5. PICK next : next = Flushed([Directory EXCEPT !.nodes[s] = Gone])
  OBVIOUS
<1>6. /\ Becomes(next) /\ past' = [past EXCEPT ![s] = NoPast]
      /\ typed' = {other \in typed : \A short \in Short[other] : Find(Directory, other, short) # s}
  BY <1>1, <1>3, <1>4, <1>5
<1>7. /\ Good(next, past')
      /\ \A i \in Slots : i # s => next.stored[i] = stored[i] /\ next.nodes[i] = nodes[i]
      /\ next.nodes[s].state = "available" /\ NodeState(next.stored[s].name) = "available"
  <2>1. Good(Directory, past)
    BY DEF DirIInv
  <2>2. /\ Good(next, [past EXCEPT ![s] = NoPast])
        /\ \A i \in Slots : i # s => next.stored[i] = Directory.stored[i] /\ next.nodes[i] = Directory.nodes[i]
        /\ next.nodes[s].state = "available" /\ NodeState(next.stored[s].name) = "available"
    BY <1>4, <1>5, <2>1, RemoveOne
  <2> QED BY <1>6, <2>2 DEF Directory
<1>8. ASSUME NEW other \in typed' PROVE Present(next, other)
  <2>1. other \in typed /\ \A short \in Short[other] : Find(Directory, other, short) # s
    BY <1>6
  <2>2. PICK short \in Stored :
          /\ Short[other] = {short}
          /\ Find(Directory, other, short) \in Slots
          /\ Hit(Directory, Find(Directory, other, short), other, short)
    BY <2>1 DEF DirIInv, Present
  <2>3. PICK f \in Slots : f = Find(Directory, other, short)
    BY <2>2
  <2>4. f # s
    BY <2>1, <2>2, <2>3
  <2>5. Hit(next, f, other, short)
    BY <1>7, <2>2, <2>3, <2>4 DEF Hit, Directory
  <2>6. \A i \in Slots : next.nodes[i].state = "unused" => Directory.nodes[i].state = "unused"
    BY <1>7 DEF Directory
  <2> QED BY <2>2, <2>3, <2>5, <2>6, PresentKept
<1>9. typed' \subseteq Typed \cup DirNames
  BY <1>6 DEF DirIInv
<1>10. DirIInv'
  BY <1>6, <1>7, <1>8, <1>9, Becoming
<1>11. ASSUME NEW i \in Slots PROVE stored'[i] = stored[i] \/ ~InUse(i)'
  BY <1>6, <1>7 DEF Becomes, InUse
<1> QED
  BY <1>10, <1>11, AttributesOf

\* Reading a directory again.
ReadAgain(dir) == [stored |-> dir.stored, nodes |-> Load(dir.stored)]

Fresh(before) == [s \in Slots |-> [before[s] EXCEPT !.fresh = TRUE]]

\* A directory that is good stays so when it is read again, and its names are found again.
LEMMA ReadAgainGood ==
    ASSUME NEW dir, NEW before, Good(dir, before)
    PROVE  /\ Good(ReadAgain(dir), Fresh(before))
           /\ \A name \in Typed \cup DirNames : Present(dir, name) => Present(ReadAgain(dir), name)
<1>1. /\ dir.stored \in [Slots -> EntryType] /\ dir.nodes \in [Slots -> NodeType]
      /\ before \in [Slots -> PastType]
      /\ \A s \in Slots : SlotOK(dir.stored[s], dir.nodes[s], before[s])
  BY GoodFacts
<1>2. PICK next : next = ReadAgain(dir)
  OBVIOUS
<1>3. PICK after : after = Fresh(before)
  OBVIOUS
<1>4. /\ next.stored = dir.stored /\ next = [stored |-> next.stored, nodes |-> next.nodes]
      /\ next.nodes = [s \in Slots |-> Node(dir.stored[s])]
      /\ after = [s \in Slots |-> [before[s] EXCEPT !.fresh = TRUE]]
  BY <1>2, <1>3 DEF ReadAgain, Load, Fresh
<1>5. ASSUME NEW s \in Slots
      PROVE  /\ next.nodes[s] \in NodeType /\ after[s] \in PastType
             /\ SlotOK(next.stored[s], next.nodes[s], after[s])
             /\ next.nodes[s] = Node(dir.stored[s])
             /\ next.nodes[s].state = dir.nodes[s].state
  <2>1. PICK e \in EntryType : e = dir.stored[s]
    BY <1>1
  <2>2. PICK n \in NodeType : n = dir.nodes[s]
    BY <1>1
  <2>3. PICK p \in PastType : p = before[s]
    BY <1>1
  <2>4. SlotOK(e, n, p)
    BY <1>1, <2>1, <2>2, <2>3
  <2>5. /\ Node(e) \in NodeType /\ [p EXCEPT !.fresh = TRUE] \in PastType
        /\ SlotOK(e, Node(e), [p EXCEPT !.fresh = TRUE])
        /\ Node(e).state = n.state
    BY <2>4, LoadedSlot
  <2>6. next.nodes[s] = Node(e) /\ after[s] = [p EXCEPT !.fresh = TRUE] /\ next.stored[s] = e
    BY <1>4, <2>1, <2>3
  <2> QED BY <2>1, <2>2, <2>5, <2>6
<1>6. Good(next, after)
  <2>1. next.nodes \in [Slots -> NodeType] /\ after \in [Slots -> PastType]
    BY <1>4, <1>5
  <2>2. next \in DirType
    BY <1>1, <1>4, <2>1 DEF DirType
  <2> QED BY <1>5, <2>1, <2>2 DEF Good
<1>7. ASSUME NEW name \in Typed \cup DirNames, Present(dir, name) PROVE Present(next, name)
  <2>1. PICK short \in Stored :
          /\ Short[name] = {short}
          /\ Find(dir, name, short) \in Slots
          /\ Hit(dir, Find(dir, name, short), name, short)
    BY <1>7 DEF Present
  <2>2. PICK f \in Slots : f = Find(dir, name, short)
    BY <2>1
  <2>3. Hit(dir, f, name, short)
    BY <2>1, <2>2
  <2>4. PICK n : n = dir.nodes[f]
    OBVIOUS
  <2>5. PICK e : e = dir.stored[f]
    OBVIOUS
  <2>6. n.state = "used" /\ n.name \in {name, StandardName(short)} /\ NamedAlike(e, n)
    BY <1>1, <2>3, <2>4, <2>5 DEF Hit, SlotOK, Agree
  <2>7. next.nodes[f].state = "used" /\ next.nodes[f].name = StandardName(e.name)
    <3>1. next.nodes[f] = Node(e) /\ next.nodes[f].state = n.state
      BY <1>5, <2>4, <2>5
    <3>2. Node(e).name = StandardName(e.name)
      BY DEF Node
    <3> QED BY <2>6, <3>1, <3>2
  <2>8. ASSUME n.name = StandardName(e.name) PROVE Hit(next, f, name, short)
    <3>1. next.nodes[f].name = n.name
      BY <2>7, <2>8
    <3> QED BY <2>6, <2>7, <3>1 DEF Hit
  <2>9. ASSUME n.name \in Dots, e.name = Blank PROVE Hit(next, f, name, short)
    <3>1. ShortNames(n.name) = {short}
      BY <2>1, <2>6, ShortStored, ThereAndBack
    <3>2. short = Blank
      <4>1. {short} = {Blank}
        BY <2>9, <3>1, BlankFacts
      <4> QED BY <4>1
    <3>3. next.nodes[f].name = StandardName(short)
      BY <2>7, <2>9, <3>2
    <3> QED BY <2>7, <3>3 DEF Hit
  <2>10. Hit(next, f, name, short)
    BY <2>6, <2>8, <2>9 DEF NamedAlike
  <2> QED BY <1>5, <2>1, <2>2, <2>10, PresentKept
<1> QED
  BY <1>2, <1>3, <1>6, <1>7

\* A load of what a directory holds on the volume reads it again.
LEMMA LoadAllIs ==
    ASSUME NEW dir, NEW before, Good(dir, before), stored' = dir.stored, LoadAll(dir.stored, before)
    PROVE  Becomes(ReadAgain(dir)) /\ past' = Fresh(before)
  BY DEF Becomes, ReadAgain, LoadAll, Fresh

\* fat12_load_directory.
LEMMA ReloadKeeps ==
    ASSUME DirIInv, Reload
    PROVE  DirIInv' /\ AttributesStep
<1>1. Good(Directory, past) /\ Directory.stored = stored
  BY DEF DirIInv, Directory
<1>2. stored' = stored /\ typed' = typed /\ LoadAll(stored, past)
  BY DEF Reload
<1>3. Becomes(ReadAgain(Directory)) /\ past' = Fresh(past)
  BY <1>1, <1>2, LoadAllIs
<1>4. Good(ReadAgain(Directory), past')
  BY <1>1, <1>3, ReadAgainGood
<1>5. typed' \subseteq Typed \cup DirNames /\ \A other \in typed' : Present(ReadAgain(Directory), other)
  BY <1>1, <1>2, ReadAgainGood DEF DirIInv
<1> QED
  BY <1>2, <1>3, <1>4, <1>5, Becoming, AttributesOf

\* vfs_mkdir.
LEMMA MkdirKeeps ==
    ASSUME DirIInv, NEW name \in Typed \cup DirNames, Mkdir(name)
    PROVE  DirIInv' /\ AttributesStep
<1>1. PICK found \in Lookups(Directory, name) :
        /\ found.slot # 0
        /\ \E got \in LookupsOrNew(found.dir, name, {"directory"}) :
              /\ stored' = got.dir.stored
              /\ LoadAll(got.dir.stored, WithNew(past, got))
        /\ Name(name)
  BY DEF Mkdir
<1>2. PICK scan \in Short[name] :
        found = [dir |-> Flushed(Directory), slot |-> Find(Directory, name, scan), new |-> FALSE]
  BY DEF Lookups
<1>3. found.dir = Directory /\ found.slot = Find(Directory, name, scan)
  BY <1>2, GoodFacts DEF DirIInv
<1>4. PICK got \in LookupsOrNew(Directory, name, {"directory"}) :
        /\ stored' = got.dir.stored
        /\ LoadAll(got.dir.stored, WithNew(past, got))
  BY <1>1, <1>3
<1>5. PICK before : before = WithNew(past, got)
  OBVIOUS
<1>6. Got(Directory, past, got, name) /\ Short[name] # {}
  BY GetOrNew DEF DirIInv
<1>7. Good(got.dir, before)
  BY <1>5, <1>6 DEF Got
<1>8. PICK next : next = ReadAgain(got.dir)
  OBVIOUS
<1>9. Becomes(next) /\ past' = Fresh(before)
  BY <1>4, <1>5, <1>7, <1>8, LoadAllIs
<1>10. /\ Good(next, past')
       /\ \A other \in Typed \cup DirNames : Present(got.dir, other) => Present(next, other)
  BY <1>7, <1>8, <1>9, ReadAgainGood
<1>11. \A other \in typed : Present(next, other)
  BY <1>6, <1>10, GotPresent DEF DirIInv
<1>12. ASSUME NEW short \in Stored, Short[name] = {short} PROVE Present(next, name)
  <2>1. scan = short
    BY <1>12
  <2>2. got.slot # 0
    BY <1>1, <1>3, <1>6, <1>12, <2>1 DEF Got
  <2> QED BY <1>6, <1>10, <1>12, <2>2 DEF Got
<1>13. typed' \subseteq Typed \cup DirNames /\ \A other \in typed' : Present(next, other)
  BY <1>1, <1>6, <1>11, <1>12, Named DEF DirIInv
<1>14. \A s \in Slots : nodes[s].state = "used" => stored'[s] = stored[s]
  BY <1>4, <1>6 DEF Got, Keeps, Directory
<1> QED
  BY <1>9, <1>10, <1>13, <1>14, Becoming, AttributesOf

-----------------------------------------------------------------------------
(* The beginning.                                                            *)

FirstEntries == {NeverUsed} \cup Found \cup {DotEntry(dots) : dots \in Dots}

PastOf(e) ==
    IF e.cdate = ZeroDate THEN NoPast
    ELSE Past(12 * e.cdate.year + e.cdate.month - 1, FALSE, 0, TRUE)

\* The entries there are at first.
LEMMA FirstSlot ==
    ASSUME NEW e \in FirstEntries
    PROVE  e \in EntryType /\ PastOf(e) \in PastType /\ SlotOK(e, Node(e), PastOf(e))
<1>1. ZeroDate \in Dates
  BY DEF ZeroDate, Dates, YearsHeld
<1>2. e \in EntryType
  <2>1. ASSUME e = NeverUsed PROVE e \in EntryType
    <3>1. NeverUsed.name \in EntryNames
      BY DEF EntryNames
    <3>2. PICK name : name = [i \in 1 .. NameSize + ExtSize |-> Nul]
      OBVIOUS
    <3>3. e = [name |-> name, attributes |-> {}, cdate |-> ZeroDate, adate |-> ZeroDate]
      BY <2>1, <3>2 DEF NeverUsed
    <3>4. name \in EntryNames
      BY <2>1, <3>1, <3>3
    <3> QED BY <1>1, <3>3, <3>4 DEF EntryType
  <2>2. ASSUME e \in Found PROVE e \in EntryType
    <3>1. e \in [name : Stored, attributes : SUBSET Attributes, cdate : Date, adate : Date \cup {ZeroDate}]
      BY <2>2, DirAssumption
    <3>2. \A date \in Date : date \in Dates
      BY DEF Date, Dates
    <3> QED BY <1>1, <3>1, <3>2, StoredIsEntryName DEF EntryType
  <2>3. ASSUME NEW dots \in Dots, e = DotEntry(dots) PROVE e \in EntryType
    <3>1. DotEntry(dots).name \in EntryNames
      BY DEF EntryNames
    <3>2. PICK name : name = Padded(dots, NameSize + ExtSize)
      OBVIOUS
    <3>3. e = [name |-> name, attributes |-> {"directory"}, cdate |-> ZeroDate, adate |-> ZeroDate]
      BY <2>3, <3>2 DEF DotEntry
    <3>4. name \in EntryNames
      BY <2>3, <3>1, <3>3
    <3>5. {"directory"} \in SUBSET Attributes
      BY DEF Attributes
    <3> QED BY <1>1, <3>3, <3>4, <3>5 DEF EntryType
  <2> QED BY <2>1, <2>2, <2>3 DEF FirstEntries
<1>3. Agree(e, Node(e))
  BY <1>2, LoadedNode
<1>4. e.cdate = ZeroDate \/ e.cdate \in Date
  <2>1. ASSUME NEW dots \in Dots, e = DotEntry(dots) PROVE e.cdate = ZeroDate
    BY <2>1 DEF DotEntry
  <2>2. ASSUME e = NeverUsed PROVE e.cdate = ZeroDate
    BY <2>2 DEF NeverUsed
  <2>3. ASSUME e \in Found PROVE e.cdate \in Date
    BY <2>3, DirAssumption
  <2> QED BY <2>1, <2>2, <2>3 DEF FirstEntries
<1>5. PastOf(e) \in PastType
  <2>1. NoPast \in PastType
    BY DateNeverSet DEF NoPast, Past, PastType
  <2>2. ASSUME e.cdate \in Date PROVE Past(12 * e.cdate.year + e.cdate.month - 1, FALSE, 0, TRUE) \in PastType
    <3>1. PICK from \in Int : from = 12 * e.cdate.year + e.cdate.month - 1
      BY <2>2, DateFound
    <3>2. Past(from, FALSE, 0, TRUE) \in PastType
      BY DEF Past, PastType
    <3> QED BY <3>1, <3>2
  <2> QED BY <1>4, <2>1, <2>2 DEF PastOf
<1>6. Dated(e, Node(e), PastOf(e))
  <2>1. ASSUME e.cdate \in Date PROVE Dated(e, Node(e), PastOf(e))
    <3>1. e.cdate # ZeroDate /\ e.cdate = DateFromPosix(12 * e.cdate.year + e.cdate.month - 1)
      BY <2>1, DateFound
    <3>2. PICK from \in Int : from = 12 * e.cdate.year + e.cdate.month - 1
      BY <2>1, DateFound
    <3>3. PICK p : p = PastOf(e)
      OBVIOUS
    <3>4. p.from = from /\ p.slips = 0 /\ p.fresh /\ ~p.made /\ from + 0 = from
      BY <3>1, <3>2, <3>3 DEF PastOf, Past
    <3>5. Node(e).creation = DateToPosix(e.cdate)
      BY DEF Node
    <3>6. e.cdate = DateFromPosix(p.from + p.slips)
      BY <3>1, <3>2, <3>4
    <3> QED BY <3>3, <3>4, <3>5, <3>6 DEF Dated
  <2>2. ASSUME NEW dots \in Dots, e = DotEntry(dots) PROVE Dated(e, Node(e), PastOf(e))
    <3>1. Node(e).name \in Dots
      BY <2>2, DotEntries DEF Node
    <3> QED BY <3>1 DEF Dated
  <2>3. ASSUME e = NeverUsed PROVE Dated(e, Node(e), PastOf(e))
    <3>1. Node(e).state = "unused"
      BY <2>3, FreeEntries DEF Node
    <3> QED BY <3>1 DEF Dated
  <2>4. ASSUME e \in Found PROVE e.cdate \in Date
    BY <2>4, DirAssumption
  <2> QED BY <2>1, <2>2, <2>3, <2>4 DEF FirstEntries
<1> QED
  BY <1>2, <1>3, <1>5, <1>6 DEF SlotOK

\* The directory is good when the volume is mounted.
LEMMA DirBegins == DirInit => DirIInv
<1> SUFFICES ASSUME DirInit PROVE DirIInv
  OBVIOUS
<1>1. stored \in [Slots -> FirstEntries]
  <2>1. ASSUME stored = [s \in Slots |-> NeverUsed] PROVE stored \in [Slots -> FirstEntries]
    BY <2>1 DEF FirstEntries
  <2>2. ASSUME NEW entry \in Found, stored = [s \in Slots |-> IF s = 1 THEN entry ELSE NeverUsed]
        PROVE  stored \in [Slots -> FirstEntries]
    <3>1. \A s \in Slots : (IF s = 1 THEN entry ELSE NeverUsed) \in FirstEntries
      BY DEF FirstEntries
    <3> QED BY <2>2, <3>1
  <2>3. ASSUME stored = [s \in Slots |-> CASE s = 1 -> DotEntry(<<Dot>>)
                                          [] s = 2 -> DotEntry(<<Dot, Dot>>)
                                          [] OTHER -> NeverUsed]
        PROVE  stored \in [Slots -> FirstEntries]
    <3>1. \A s \in Slots : (CASE s = 1 -> DotEntry(<<Dot>>)
                              [] s = 2 -> DotEntry(<<Dot, Dot>>)
                              [] OTHER -> NeverUsed) \in FirstEntries
      BY DEF FirstEntries, Dots
    <3> QED BY <2>3, <3>1
  <2> QED BY <2>1, <2>2, <2>3 DEF DirInit
<1>2. \A s \in Slots : /\ stored[s] \in EntryType /\ PastOf(stored[s]) \in PastType
                       /\ SlotOK(stored[s], Node(stored[s]), PastOf(stored[s]))
  BY <1>1, FirstSlot
<1>3. nodes = [s \in Slots |-> Node(stored[s])] /\ past = [s \in Slots |-> PastOf(stored[s])] /\ typed = {}
  BY DEF DirInit, Load, PastOf
<1>4. \A s \in Slots : Node(stored[s]) \in NodeType
  BY <1>2, LoadedNode
<1>5. stored \in [Slots -> EntryType]
  BY <1>1, <1>2
<1>6. nodes \in [Slots -> NodeType] /\ past \in [Slots -> PastType]
  BY <1>2, <1>3, <1>4
<1>7. Directory \in DirType
  BY <1>5, <1>6 DEF Directory, DirType
<1>8. \A s \in Slots : SlotOK(Directory.stored[s], Directory.nodes[s], past[s])
  BY <1>2, <1>3 DEF Directory
<1> QED
  BY <1>3, <1>6, <1>7, <1>8 DEF Good, DirIInv

\* Every command keeps the invariant, and the attributes.
LEMMA DirSteps == DirIInv /\ [DirNext]_dir_vars => DirIInv' /\ [AttributesStep]_dir_vars
<1> SUFFICES ASSUME DirIInv, [DirNext]_dir_vars PROVE DirIInv' /\ [AttributesStep]_dir_vars
  OBVIOUS
<1>1. ASSUME NEW name \in Typed, TouchFile(name) \/ WriteFile(name) \/ RemoveFile(name)
      PROVE  DirIInv' /\ [AttributesStep]_dir_vars
  BY <1>1, TouchKeeps, WriteKeeps, RemoveKeeps
<1>2. ASSUME NEW name \in DirNames, Mkdir(name) PROVE DirIInv' /\ [AttributesStep]_dir_vars
  BY <1>2, MkdirKeeps
<1>3. CASE Reload
  BY <1>3, ReloadKeeps
<1>4. CASE UNCHANGED dir_vars
  <2>1. stored' = stored /\ nodes' = nodes /\ typed' = typed /\ past' = past
    BY <1>4 DEF dir_vars
  <2>2. Directory' = Directory
    BY <2>1 DEF Directory
  <2>3. Good(Directory', past')
    BY <2>1, <2>2 DEF DirIInv
  <2>4. \A other \in typed' : Present(Directory', other)
    BY <2>1, <2>2 DEF DirIInv
  <2>5. typed' \subseteq Typed \cup DirNames
    BY <2>1 DEF DirIInv
  <2>6. DirIInv'
    BY <2>1, <2>2, <2>3, <2>4, <2>5, Becoming DEF Becomes, Directory
  <2> QED BY <1>4, <2>6
<1> QED
  BY <1>1, <1>2, <1>3, <1>4 DEF DirNext

-----------------------------------------------------------------------------
(* What the directory promises.                                              *)

\* What the invariant says of nodes and entries.
LEMMA SettlesFromInv == DirIInv => NamesSettle
<1> SUFFICES ASSUME DirIInv, NEW s \in Slots
             PROVE  LET read == Node(stored[s])
                    IN  /\ nodes[s].state = read.state
                        /\ ~nodes[s].is_dirty
                        /\ read.state = "used" =>
                              /\ nodes[s].attributes = read.attributes
                              /\ \/ nodes[s].name = read.name
                                 \/ nodes[s].name \in {<<Dot>>, <<Dot, Dot>>} /\ read.name = <<>>
  BY DEF NamesSettle
<1>1. PICK e : e = stored[s]
  OBVIOUS
<1>2. PICK n : n = nodes[s]
  OBVIOUS
<1>3. Agree(e, n)
  BY <1>1, <1>2, GoodFacts DEF DirIInv, Directory, SlotOK
<1>4. /\ Node(e).state = NodeState(e.name) /\ Node(e).name = StandardName(e.name)
      /\ Node(e).attributes = Translated(e.attributes)
  BY DEF Node
<1>5. NamedAlike(e, n) => n.name = StandardName(e.name) \/ (n.name \in Dots /\ StandardName(e.name) = <<>>)
  BY BlankFacts DEF NamedAlike
<1> QED
  BY <1>1, <1>2, <1>3, <1>4, <1>5 DEF Agree, Dots

\* What the invariant says of dates.
LEMMA SlipsFromInv == DirIInv => DatesSlip
<1> SUFFICES ASSUME DirIInv, NEW s \in Slots, InUse(s), nodes[s].name \notin {<<>>, <<Dot>>, <<Dot, Dot>>}
             PROVE  /\ stored[s].cdate = DateFromPosix(past[s].from + past[s].slips)
                    /\ past[s].made => stored[s].adate =
                          (IF past[s].written THEN DateFromPosix(Now) ELSE [year |-> 127, month |-> 12])
  BY DEF DatesSlip
<1>1. nodes[s].state = "used"
  BY InUseIs
<1>2. Dated(stored[s], nodes[s], past[s])
  BY GoodFacts DEF DirIInv, Directory, SlotOK
<1>3. nodes[s].name \notin Dots \cup {<<>>}
  BY DEF Dots
<1> QED
  BY <1>1, <1>2, <1>3 DEF Dated, NeverMade

\* Names share an entry only with one short name, as the name of its node has just one.
LEMMA FoundFromInv == DirIInv => TypedNamesFound
<1> DEFINE Where(name) == Find(Directory, name, CHOOSE short \in Short[name] : TRUE)
<1> SUFFICES ASSUME DirIInv
             PROVE  \A name \in typed :
                       /\ Where(name) # 0 /\ InUse(Where(name))
                       /\ \A other \in typed : Where(other) = Where(name) => Short[other] = Short[name]
  BY DEF TypedNamesFound
<1>1. ASSUME NEW name \in typed
      PROVE  /\ Where(name) \in Slots /\ nodes[Where(name)].state = "used"
             /\ ShortNames(nodes[Where(name)].name) = Short[name]
  <2>1. PICK short \in Stored :
          /\ Short[name] = {short}
          /\ Find(Directory, name, short) \in Slots
          /\ Hit(Directory, Find(Directory, name, short), name, short)
    BY DEF DirIInv, Present
  <2>2. (CHOOSE x \in Short[name] : TRUE) = short
    BY <2>1
  <2>3. Where(name) = Find(Directory, name, short)
    BY <2>2
  <2>4. PICK f \in Slots : f = Where(name)
    BY <2>1, <2>3
  <2>5. nodes[f].state = "used" /\ nodes[f].name \in {name, StandardName(short)}
    BY <2>1, <2>3, <2>4 DEF Hit, Directory
  <2>6. Short[name] = ShortNames(name)
    BY ShortStored DEF DirIInv
  <2>7. ShortNames(nodes[f].name) = {short}
    BY <2>1, <2>5, <2>6, ThereAndBack
  <2> QED BY <2>1, <2>4, <2>5, <2>7
<1> HIDE DEF Where
<1>2. \A name \in typed : Where(name) # 0 /\ InUse(Where(name))
  BY <1>1, InUseIs, SlotFacts
<1> QED
  BY <1>1, <1>2

\* Between two commands the volume and fat->current_dir say the same of every entry:
\* its state, its attributes and its name, but for an entry . or .. that was written to.
THEOREM NamesAlwaysSettle == DirSpec => []NamesSettle
  BY DirBegins, DirSteps, SettlesFromInv, PTL DEF DirSpec

\* A file made under any name that stays within its buffer is found under that name
\* until it is removed (fat12_get_file), and two names share an entry only when
\* fat12_construct_short_name makes the same of them.
THEOREM TypedNamesStayFound == DirSpec => []TypedNamesFound
  BY DirBegins, DirSteps, FoundFromInv, PTL DEF DirSpec

\* The creation date on the volume is the month the file was made, one later, and one
\* later again for every first write after its directory was read, because
\* fat12_date_time_to_posix does not lower the month fat12_date_from_posix raised.
THEOREM DatesAlwaysSlip == DirSpec => []DatesSlip
  BY DirBegins, DirSteps, SlipsFromInv, PTL DEF DirSpec

\* No command takes an attribute from an entry in use but a write, which takes the
\* archive and volume ones, or gives it one.
THEOREM AttributesAlwaysKept == DirSpec => AttributesKept
<1>1. DirSpec => [][AttributesStep]_dir_vars
  BY DirBegins, DirSteps, PTL DEF DirSpec
<1>2. AttributesKept <=> [][AttributesStep]_dir_vars
  BY DEF AttributesKept, AttributesStep
<1> QED
  BY <1>1, <1>2

=============================================================================
