------------------------------- MODULE MCFat12 -------------------------------
(* Fat12 for TLC: the names and paths the runs use. *)
EXTENDS Fat12

\* fat12_construct_short_name followed by the conversion back: upper case, long
\* names cut, and nothing left of a name of dots.
MCShort == [n \in {"a", "b", "d", "e", "..", ".", ""} |->
    CASE n = "a" -> "A" [] n = "b" -> "B" [] n = "d" -> "D" [] n = "e" -> "E" [] OTHER -> ""]

MCText == [n \in DOMAIN MCShort |->
    CASE n = "a" -> "text a" [] n = "b" -> "text b" [] n = "d" -> "text d" [] OTHER -> "text"]

\* One file that grows and shrinks and one that keeps its size.
MCLengths == [n \in {"a", "b"} |-> IF n = "a" THEN {1, 2, 3} ELSE {1}]

MCOneLength == [n \in {"a"} |-> {1}]

\* Relative and absolute, up, to the root directory, and a slash at the end; three
\* names, one of them empty, for the two slots that a directory d has left.
MCPaths ==
    {<<"d", "/", "e">>, <<"d", "/", "a">>, <<"d", "/">>, <<"/", "a", "/", "d">>,
     <<"..">>, <<"/">>}

MCOnePath == {<<"d">>}
NoPaths == {}
=============================================================================
