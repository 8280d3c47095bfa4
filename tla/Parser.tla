-------------------------------- MODULE Parser --------------------------------
(***************************************************************************)
(* From a line to the arguments of a statement (src/shell/parser.c).       *)
(*                                                                         *)
(* A line is a sequence of characters.  Those the parser treats alike are  *)
(* one: Blank is every character of isspace, and a run of other characters *)
(* is a letter.                                                            *)
(***************************************************************************)
EXTENDS Naturals, SequencesExt

CONSTANT Runs   \* the letters that stand for more than one character

Blank     == " "
Quote     == "quote"
Backslash == "backslash"
Hash      == "#"
Dollar    == "$"

\* The character behind the last one.
End == "end"

Marks == {Blank, Quote, Backslash, Hash, Dollar}

Trimmed(line) ==
    LET solid == {i \in DOMAIN line : line[i] # Blank}
    IN  IF solid = {} THEN <<>> ELSE SubSeq(line, Min(solid), Max(solid))

\* Variant: two quotes with nothing between them are taken for a word.
UnquotedLonger(token) ==
    LET quoted == Len(token) > 2 /\ token[1] = Quote
        word   == IF quoted THEN Tail(token) ELSE token
    IN  [quoted |-> quoted,
         word   |-> IF quoted /\ Last(word) = Quote THEN Front(word) ELSE word]

\* A token without its quotes.  quoted: it begins one byte into its allocation.  Where
\* no quote was taken away in front, the second last character is looked at for the
\* last, which in a run is no quote.
Unquoted(token) ==
    LET quoted == Len(token) >= 2 /\ token[1] = Quote
        word   == IF quoted THEN Tail(token) ELSE token
        last   == Len(token) - 1
        Cut    == Len(token) >= 2 /\ word[last] = Quote /\ (quoted \/ Last(token) \notin Runs)
    IN  [quoted |-> quoted, word |-> IF Cut THEN SubSeq(word, 1, last - 1) ELSE word]

\* The loop of shell_parse: what it has found before character i, and with it.
Found(argv, start, escaped, in_string) ==
    [argv |-> argv, start |-> start, escaped |-> escaped, in_string |-> in_string]

Take(input, s, i) ==
    LET c     == IF i > Len(input) THEN End ELSE input[i]
        token == SubSeq(input, s.start, i - 1)
        Ends  == c = End \/ (c = Blank /\ ~s.escaped /\ ~s.in_string)
        Opens == c = Quote /\ ~s.escaped /\ ~s.in_string
    IN  IF Ends
        THEN Found(IF token = <<>> THEN s.argv ELSE Append(s.argv, Unquoted(token)),
                   i + 1, FALSE, s.in_string)
        ELSE Found(s.argv,
                   IF Opens THEN i ELSE s.start,
                   c = Backslash,
                   IF c = Quote /\ ~s.escaped THEN ~s.in_string ELSE s.in_string)

\* found[i]: what the loop has after character i.
Tokens(input) ==
    LET found[i \in 0 .. Len(input) + 1] ==
            IF i = 0 THEN Found(<<>>, 1, FALSE, FALSE) ELSE Take(input, found[i - 1], i)
    IN  found[Len(input) + 1].argv

\* shell_parse sets no arguments, not even none, for a line that is empty or a comment.
HasArguments(line) ==
    line # <<>> /\ ~(Trimmed(line) # <<>> /\ Trimmed(line)[1] = Hash)

Parse(line) == Tokens(Trimmed(line))

\* The blanks behind a line are cleared from its end on: for a line of nothing else
\* the bytes before it are read too, and while they are blank cleared.
ClearsBefore(line) == line # <<>> /\ Trimmed(line) = <<>>

-----------------------------------------------------------------------------
(* The lines a user writes: words that hold no quote and no backslash, those *)
(* that are empty, hold a blank or begin with # between quotes, and blanks   *)
(* before, between and behind them.                                          *)

NeedsQuotes(word) == word = <<>> \/ Blank \in Range(word) \/ word[1] = Hash

Blanks(n) == [i \in 1 .. n |-> Blank]

Written(words, gap, margin) ==
    LET Word(w) == IF NeedsQuotes(w) THEN <<Quote>> \o w \o <<Quote>> ELSE w
    IN  Blanks(margin)
            \o FlattenSeq([i \in DOMAIN words |->
                   IF i = 1 THEN Word(words[i]) ELSE Blanks(gap) \o Word(words[i])])
            \o Blanks(margin)
===============================================================================
