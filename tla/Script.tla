-------------------------------- MODULE Script --------------------------------
(***************************************************************************)
(* The shell's interpreter: variables made of the environment, a script    *)
(* read before anything runs, its statements resolved and executed one by  *)
(* one, then the prompt (src/main.c, src/shell/shell.c, scripting.c,       *)
(* variable.c, set.c).                                                     *)
(*                                                                         *)
(* Lines and words are sequences of the characters of Parser.  The         *)
(* commands on devices and volumes are in Session and Fat12; here they     *)
(* succeed or fail.                                                        *)
(***************************************************************************)
EXTENDS Parser

CONSTANTS
    Letters,        \* runs of characters the parser takes as they are
    Null,
    Environments,   \* environments the process may be given
    Scripts,        \* lines of the file after -s, none for no script, the words meant, and
                    \* which of these were written with a quote inside
    Typed,          \* lines typed at the prompt
    VolumeCommands, \* the other commands of shell_register_commands
    MaxStatements   \* bound: statements of one process

Word == Seq(Letters \cup Marks)
Line == Word
Arg  == [word : Word, quoted : BOOLEAN]

\* An entry of the environment is split at its = signs: one part if it has none.
ASSUME ScriptAssumption ==
    /\ Letters \cap (Marks \cup {End}) = {}
    /\ Runs \subseteq Letters
    /\ \A e \in Environments : e \in Seq(Seq(Word) \ {<<>>})
    /\ \A script \in Scripts : script \in Seq([line : Line, words : Seq(Word) \cup {Null}, inner : SUBSET Nat])
    /\ Typed \subseteq Line
    /\ VolumeCommands \subseteq Word \ {<<"set">>, <<"setu">>, <<"echo">>, <<"exit">>}
    /\ MaxStatements \in Nat

VARIABLES
    variables,  \* the list at first_variable, head first
    mode,       \* "script", "prompt", "ended" (main returns) or "crashed"
    rest,       \* stmt and what follows it in the script
    \* History.
    env,
    meant,      \* the lines of the script that are to say something, and their words
    all,        \* the statements of the script
    done        \* the statements executed, their arguments and what they returned

vars == <<variables, mode, rest, env, meant, all, done>>

Variable == [symbol : Word, value : Word \cup {Null}]

-----------------------------------------------------------------------------
(* Starting: main.c, shell_script_open, shell_init.                         *)

\* Variant: symbol and value are taken in the wrong order.
ParsedSwapped(entry) ==
    [symbol |-> IF Len(entry) = 1 THEN Null ELSE entry[2], value |-> entry[1]]

\* parse_environment_variable: no value without a =, and nothing behind a second.
Parsed(entry) == [symbol |-> entry[1], value |-> IF Len(entry) = 1 THEN Null ELSE entry[2]]

\* construct_variables_from_environment
FromEnvironment(e) == Reverse([i \in DOMAIN e |-> Parsed(e[i])])

\* shell_statement_create: NULL for a line that is empty or a comment.  A line of
\* spaces is neither: its statement has no arguments.
StatementOf(line) == IF HasArguments(line) THEN Parse(line) ELSE Null

\* shell_script_open: the lines one by one.
Statements(script) ==
    LET read[n \in 0 .. Len(script)] ==
            IF n = 0 THEN <<>>
            ELSE LET stmt == StatementOf(script[n].line)
                 IN  IF stmt = Null THEN read[n - 1] ELSE Append(read[n - 1], stmt)
    IN  read[Len(script)]

Init ==
    /\ env \in Environments
    /\ variables = FromEnvironment(env)
    /\ \E script \in Scripts :
          /\ all = Statements(script)
          /\ meant = SelectSeq(script, LAMBDA l : l.words # Null)
          /\ \/ mode = "script"
             \/ mode = "crashed" /\ \E i \in DOMAIN script : ClearsBefore(script[i].line)
    /\ rest = all
    /\ done = <<>>

-----------------------------------------------------------------------------
(* A statement: shell_statement_resolve, shell_statement_execute.           *)

\* shell_find_variable: the place of the first of that name, 0 if there is none.
Find(symbol) == SelectInSeq(variables, LAMBDA v : v.symbol = symbol)

IsReference(word) == word # <<>> /\ word[1] = Dollar

Refers(arg) == IsReference(arg.word) /\ Find(Tail(arg.word)) # 0

\* Variant: the value is put in place of the name, and looked up again.
ResolvedTwice(stmt) ==
    [i \in DOMAIN stmt |->
        IF ~Refers(stmt[i]) THEN stmt[i].word
        ELSE LET v == variables[Find(Tail(stmt[i].word))].value
             IN  IF v # Null /\ IsReference(v) /\ Find(Tail(v)) # 0
                 THEN variables[Find(Tail(v))].value ELSE v]

\* The argument is swapped out whole, once; a name that is not found stays.
Resolved(stmt) ==
    [i \in DOMAIN stmt |->
        IF Refers(stmt[i]) THEN variables[Find(Tail(stmt[i].word))].value
        ELSE stmt[i].word]

\* The token of a quoted argument begins one byte into its allocation, which is
\* what resolving it frees.
FreesInside(stmt) == \E i \in DOMAIN stmt : stmt[i].quoted /\ Refers(stmt[i])

\* Variant: the script goes on after an error.
ReturnIgnored(err) == mode' = IF err = "terminate" THEN "ended" ELSE mode

\* What the command returned ends the process, the script or neither.
Return(err) ==
    mode' = CASE err = "terminate" -> "ended"
              [] err = "error"     -> "prompt"
              [] err = "ok"        -> mode

Returns(stmt, err) ==
    /\ Return(err)
    /\ done' = Append(done, [stmt |-> stmt, argv |-> Resolved(stmt), err |-> err])

\* A statement of no arguments.
Malformed(stmt) ==
    /\ stmt = <<>>
    /\ Returns(stmt, "terminate")
    /\ UNCHANGED variables

\* shell_set
Set(stmt) ==
    LET argv == Resolved(stmt)
        at   == Find(argv[2])
    IN  /\ Len(argv) = 3 /\ argv[1] = <<"set">> /\ argv[2] # Null
        /\ variables' = IF at = 0 THEN <<[symbol |-> argv[2], value |-> argv[3]]>> \o variables
                        ELSE [variables EXCEPT ![at].value = argv[3]]
        /\ Returns(stmt, "ok")

\* shell_setu
Setu(stmt) ==
    LET argv == Resolved(stmt)
    IN  /\ Len(argv) = 3 /\ argv[1] = <<"setu">> /\ argv[2] # Null
        /\ variables' = IF Find(argv[2]) # 0 THEN variables
                        ELSE <<[symbol |-> argv[2], value |-> argv[3]]>> \o variables
        /\ Returns(stmt, "ok")

\* The wrong number of arguments, or a command there is not.
Mistaken(stmt) ==
    LET argv == Resolved(stmt)
    IN  /\ Len(argv) > 0 /\ argv[1] # Null
        /\ \/ argv[1] \in {<<"set">>, <<"setu">>} /\ Len(argv) # 3
           \/ argv[1] \notin VolumeCommands \cup {<<"set">>, <<"setu">>, <<"echo">>, <<"exit">>}
        /\ Returns(stmt, "error")
        /\ UNCHANGED variables

\* shell_echo
Echo(stmt) ==
    /\ Len(stmt) > 0 /\ Resolved(stmt)[1] = <<"echo">>
    /\ Returns(stmt, "ok")
    /\ UNCHANGED variables

\* shell_exit
Exit(stmt) ==
    /\ Len(stmt) > 0 /\ Resolved(stmt)[1] = <<"exit">>
    /\ Returns(stmt, "terminate")
    /\ UNCHANGED variables

OnVolume(stmt) ==
    /\ Len(stmt) > 0 /\ Resolved(stmt)[1] \in VolumeCommands
    /\ \E err \in {"ok", "error"} : Returns(stmt, err)
    /\ UNCHANGED variables

\* NULL, the value of a variable that has none, is compared, printed or looked up.
MayFault(stmt) ==
    LET argv == Resolved(stmt)
    IN  \/ FreesInside(stmt)
        \/ Len(argv) > 0 /\ argv[1] = Null
        \/ Len(argv) = 3 /\ argv[1] \in {<<"set">>, <<"setu">>} /\ argv[2] = Null
        \/ Len(argv) > 1 /\ argv[1] = <<"echo">> /\ \E i \in 2 .. Len(argv) : argv[i] = Null
        \/ Len(argv) > 0 /\ argv[1] \in VolumeCommands

Fault(stmt) ==
    /\ MayFault(stmt)
    /\ mode' = "crashed"
    /\ UNCHANGED <<variables, done>>

Execute(stmt) ==
    /\ Len(done) < MaxStatements
    /\ \/ /\ ~FreesInside(stmt)
          /\ \/ Malformed(stmt) \/ Set(stmt) \/ Setu(stmt) \/ Mistaken(stmt)
             \/ Echo(stmt) \/ Exit(stmt) \/ OnVolume(stmt)
       \/ Fault(stmt)

-----------------------------------------------------------------------------
(* The script and the prompt: shell_script_execute, shell_do.               *)

\* Variant: the next statement is taken only after a statement that failed.
RunAgain ==
    /\ mode = "script" /\ rest # <<>>
    /\ Execute(Head(rest))
    /\ rest' = IF mode' = "script" THEN rest ELSE Tail(rest)
    /\ UNCHANGED <<env, meant, all>>

\* A script that fails is left as it is, and the prompt follows.
RunScript ==
    /\ mode = "script" /\ rest # <<>>
    /\ Execute(Head(rest))
    /\ rest' = IF mode' = "script" THEN Tail(rest) ELSE rest
    /\ UNCHANGED <<env, meant, all>>

ScriptDone ==
    /\ mode = "script" /\ rest = <<>>
    /\ mode' = "prompt"
    /\ UNCHANGED <<variables, rest, env, meant, all, done>>

\* A line that is empty or a comment is asked for again, and so is the end of the
\* input, for ever.
Prompt(line) ==
    /\ mode = "prompt"
    /\ StatementOf(line) # Null
    /\ Execute(StatementOf(line))
    /\ UNCHANGED <<rest, env, meant, all>>

\* What was cleared before the line was needed.
PromptFaults(line) ==
    /\ mode = "prompt"
    /\ ClearsBefore(line)
    /\ mode' = "crashed"
    /\ UNCHANGED <<variables, rest, env, meant, all, done>>

Next == RunScript \/ ScriptDone \/ \E line \in Typed : Prompt(line) \/ PromptFaults(line)

\* Nothing but the commands themselves holds up a script; nobody has to type.
Fairness == WF_vars(RunScript) /\ WF_vars(ScriptDone)

Spec == Init /\ [][Next]_vars /\ Fairness

-----------------------------------------------------------------------------
(* What a script means, with the variables as a map of names to values.      *)

\* The environment; the last entry of a name counts.
Given ==
    LET Entries(n) == {i \in DOMAIN env : env[i][1] = n}
    IN  [n \in {env[i][1] : i \in DOMAIN env} |->
            Parsed(env[CHOOSE i \in Entries(n) : \A j \in Entries(n) : j <= i]).value]

Expanded(map, stmt) ==
    [i \in DOMAIN stmt |->
        LET w == stmt[i].word
        IN  IF IsReference(w) /\ Tail(w) \in DOMAIN map THEN map[Tail(w)] ELSE w]

With(map, symbol, value) ==
    [n \in DOMAIN map \cup {symbol} |-> IF n = symbol THEN value ELSE map[n]]

After(map, argv) ==
    CASE Len(argv) = 3 /\ argv[1] = <<"set">> -> With(map, argv[2], argv[3])
      [] Len(argv) = 3 /\ argv[1] = <<"setu">> /\ argv[2] \notin DOMAIN map ->
             With(map, argv[2], argv[3])
      [] OTHER -> map

\* The map after the first n statements that ran.
Meaning[n \in 0 .. Len(done)] ==
    IF n = 0 THEN Given
    ELSE After(Meaning[n - 1], Expanded(Meaning[n - 1], done[n].stmt))

Bindings ==
    [n \in {variables[i].symbol : i \in DOMAIN variables} |-> variables[Find(n)].value]

-----------------------------------------------------------------------------
TypeOK ==
    /\ variables \in Seq(Variable)
    /\ mode \in {"script", "prompt", "ended", "crashed"}
    /\ rest \in Seq(Seq(Arg))
    /\ done \in Seq([stmt : Seq(Arg), argv : Seq(Word \cup {Null}),
                     err : {"ok", "error", "terminate"}])

\* The statements of the script that have words.
Said == SelectSeq(all, LAMBDA stmt : stmt # <<>>)

\* The statements of a script are what its lines are meant to say: words come apart at
\* the blanks outside of quotes, quotes around a word go and blanks in them stay, a word
\* in quotes may be empty, a backslash stays and makes a blank or a quote part of the
\* word, # makes a comment only where a line begins with it, and no other line that has
\* a word is left out (shell_parse, shell_script_open).  The exception is a word with a
\* quote inside, opened there or behind a backslash: it loses what stands before the quote
\* or its end, and nothing is lost of the words and lines around it.
ReadAsMeant ==
    /\ DOMAIN Said = DOMAIN meant
    /\ \A n \in DOMAIN Said :
          /\ DOMAIN Said[n] = DOMAIN meant[n].words
          /\ \A i \in DOMAIN Said[n] \ meant[n].inner : Said[n][i].word = meant[n].words[i]

\* Every statement ran with the values its variables had when its turn came, each put
\* in once, and what set and setu left is what the list of variables yields: a name
\* twice in it, from the environment or linked anew, hides nothing that counts.
ArgumentsAsWritten ==
    /\ \A n \in DOMAIN done : done[n].argv = Expanded(Meaning[n - 1], done[n].stmt)
    /\ Bindings = Meaning[Len(done)]

\* The statements of a script run in their order, each once and only after all before
\* it succeeded; the prompt follows a script that was run to its end or to an error,
\* never one that came to an exit.
ScriptInOrder ==
    LET n == Len(all) - Len(rest)
    IN  /\ \A i \in 1 .. n : done[i].stmt = all[i] /\ done[i].err = "ok"
        /\ mode = "script" => Len(done) = n
        /\ mode = "prompt" /\ rest # <<>> =>
              done[n + 1].stmt = Head(rest) /\ done[n + 1].err = "error"

\* A script is always left, for the prompt or for good, if its commands return.
ScriptEnds == <>(mode # "script")

\* "Malformed statement. Skipping." (shell_statement_execute): a line that is no
\* statement is passed over, and only exit ends the session.
EndsOnlyOnExit == mode = "ended" => Last(done).argv # <<>> /\ Last(done).argv[1] = <<"exit">>

=============================================================================
