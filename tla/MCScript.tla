-------------------------------- MODULE MCScript --------------------------------
(* Script for TLC: the lines, and every script of up to three of them. *)
EXTENDS Script

MCRuns == {"set", "setu", "echo", "exit", "ls", "what"}
MCLetters == MCRuns \cup {"x", "y", "a", "b"}
MCVolumeCommands == {<<"ls">>}

x == <<Dollar, "x">>
y == <<Dollar, "y">>

Meant(line, words, inner) == [line |-> line, words |-> words, inner |-> inner]
Plain(words) == Meant(Written(words, 1, 0), words, {})
Nothing(line) == Meant(line, Null, {})

\* Lines that say nothing; a reference to a reference, a name that is one, a command that
\* is one; a reference in quotes, a blank and a quote behind a backslash; quotes inside a
\* word, and a backslash and a quote before its last character.
MCLines ==
    {Nothing(<<>>), Nothing(<<Blank, Hash, "exit">>), Nothing(<<Blank>>)} \cup
    {Plain(l) : l \in {<<<<"set">>, <<"x">>, <<"a">>>>, <<<<"set">>, <<"y">>, x>>,
                       <<<<"set">>, y, <<"b">>>>, <<<<"setu">>, <<"x">>, y>>,
                       <<<<"set">>, <<"x">>>>, <<<<"echo">>, x, y>>, <<x>>,
                       <<<<"ls">>>>, <<<<"exit">>>>}} \cup
    {Meant(<<"echo", Blank, Quote, Dollar, "x", Quote>>, <<<<"echo">>, x>>, {}),
     Meant(<<"set", Blank, "x", Blank, "a", Backslash, Quote, "ls">>,
           <<<<"set">>, <<"x">>, <<"a", Backslash, Quote, "ls">>>>, {}),
     Meant(<<"echo", Blank, "a", Backslash, Blank, "b">>,
           <<<<"echo">>, <<"a", Backslash, Blank, "b">>>>, {}),
     Meant(<<"set", Blank, "a", Quote, "x", Quote, Blank, "b">>,
           <<<<"set">>, <<"a", "x">>, <<"b">>>>, {2}),
     Meant(<<"echo", Blank, "a", Backslash, Quote, "b">>,
           <<<<"echo">>, <<"a", Backslash, Quote, "b">>>>, {2})}

\* One line of up to two words of up to two characters, in all the ways to write it.
MCWords == BoundedSeq({"a", Blank, Hash, Dollar}, 2)

MCWritten ==
    {Meant(Written(words, gap, margin), words, {}) :
        words \in BoundedSeq(MCWords, 2) \ {<<>>}, gap \in 1..2, margin \in 0..1}

MCScripts == BoundedSeq(MCLines, 3) \cup {<<line>> : line \in MCWritten}

\* No variables; one in the environment twice; one without a value and one whose
\* value is a reference.
MCEnvironments ==
    {<<>>, <<<<<<"x">>, <<"a">>>>, <<<<"x">>, <<"b">>, <<"a">>>>>>, <<<<<<"x">>>>, <<<<"y">>, x>>>>}

MCTyped ==
    {<<>>, <<Blank>>} \cup
    {Plain(l).line : l \in {<<<<"setu">>, <<"y">>, x>>, <<<<"what">>>>, <<<<"exit">>>>}}

=================================================================================
