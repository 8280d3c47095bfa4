----------------------------- MODULE Script_proofs -----------------------------
(***************************************************************************)
(* What the interpreter keeps to, for every script, every environment and  *)
(* whatever is typed: the types of its state, the order of the statements  *)
(* and the values they run with.                                           *)
(***************************************************************************)
EXTENDS Script, Inductions, SequenceTheorems

-----------------------------------------------------------------------------
(* Sequences.                                                               *)

\* A stretch of a sequence is a sequence.
LEMMA StretchType ==
    ASSUME NEW S, NEW s \in Seq(S), NEW i \in Nat \ {0}, NEW j \in Int, j <= Len(s)
    PROVE  SubSeq(s, i, j) \in Seq(S)
<1>1. \A k \in i .. j : s[k] \in S
  OBVIOUS
<1>2. i \in Int
  OBVIOUS
<1> QED
  BY <1>1, <1>2, SubSeqProperties

-----------------------------------------------------------------------------
(* The parser: its arguments are words.                                     *)

(* A line without the blanks around it is a line. *)
LEMMA TrimmedType ==
    ASSUME NEW line \in Line
    PROVE  Trimmed(line) \in Line
<1> DEFINE solid == {i \in DOMAIN line : line[i] # Blank}
<1>1. CASE solid = {}
  BY <1>1 DEF Trimmed, Line, Word
<1>2. CASE solid # {}
  <2>1. Len(line) \in Nat /\ DOMAIN line = 1 .. Len(line) /\ solid \in SUBSET (0 .. Len(line))
    BY DEF Line, Word
  <2>2. solid \in SUBSET Nat
    BY <2>1
  <2>3. Min(solid) \in solid /\ Max(solid) \in solid
    <3> HIDE DEF solid
    <3> QED BY <1>2, <2>1, <2>2, MinFacts, MaxFacts
  <2>4. Min(solid) \in Nat \ {0} /\ Max(solid) \in Int /\ Max(solid) <= Len(line)
    BY <2>1, <2>3
  <2>5. Trimmed(line) = SubSeq(line, Min(solid), Max(solid))
    BY <1>2 DEF Trimmed
  <2> HIDE DEF solid
  <2> QED BY <2>4, <2>5, StretchType DEF Line, Word
<1> QED
  BY <1>1, <1>2

\* A token without its quotes is an argument.
LEMMA UnquotedType ==
    ASSUME NEW token \in Word
    PROVE  Unquoted(token) \in Arg
<1> DEFINE quoted == Len(token) >= 2 /\ token[1] = Quote
           word   == IF quoted THEN Tail(token) ELSE token
           last   == Len(token) - 1
<1>1. token \in Seq(Letters \cup Marks) /\ Len(token) \in Nat
  BY DEF Word
<1>2. word \in Seq(Letters \cup Marks) /\ Len(word) \in {last, last + 1} /\ quoted \in BOOLEAN
  BY <1>1
<1>3. ASSUME Len(token) >= 2
      PROVE  SubSeq(word, 1, last - 1) \in Seq(Letters \cup Marks)
  <2>1. last - 1 \in Int /\ last - 1 <= Len(word)
    BY <1>1, <1>2
  <2> HIDE DEF word, last
  <2> QED BY <1>2, <2>1, StretchType
<1> DEFINE cut   == Len(token) >= 2 /\ word[last] = Quote /\ (quoted \/ Last(token) \notin Runs)
           rest0 == IF cut THEN SubSeq(word, 1, last - 1) ELSE word
<1>4. rest0 \in Word
  <2> HIDE DEF word, last
  <2> QED BY <1>2, <1>3 DEF Word
<1>5. Unquoted(token) = [quoted |-> quoted, word |-> rest0]
  BY DEF Unquoted
<1> QED
  <2> HIDE DEF rest0, quoted
  <2> QED BY <1>2, <1>4, <1>5 DEF Arg

Progress == [argv : Seq(Arg), start : Nat \ {0}, escaped : BOOLEAN, in_string : BOOLEAN]

\* What the parser has found is of its type after every character.
LEMMA TakeType ==
    ASSUME NEW input \in Line, NEW s \in Progress, NEW i \in 1 .. Len(input) + 1
    PROVE  Take(input, s, i) \in Progress
<1> DEFINE c     == IF i > Len(input) THEN End ELSE input[i]
           token == SubSeq(input, s.start, i - 1)
           Ends  == c = End \/ (c = Blank /\ ~s.escaped /\ ~s.in_string)
           Opens == c = Quote /\ ~s.escaped /\ ~s.in_string
           argv  == IF token = <<>> THEN s.argv ELSE Append(s.argv, Unquoted(token))
           start == IF Opens THEN i ELSE s.start
           inside == IF c = Quote /\ ~s.escaped THEN ~s.in_string ELSE s.in_string
<1>1. /\ s.argv \in Seq(Arg) /\ s.start \in Nat \ {0} /\ s.escaped \in BOOLEAN
      /\ s.in_string \in BOOLEAN
  BY DEF Progress
<1>2. input \in Seq(Letters \cup Marks) /\ i - 1 \in Int /\ i - 1 <= Len(input) /\ i \in Nat \ {0}
  BY DEF Line, Word
<1>3. token \in Word
  BY <1>1, <1>2, StretchType DEF Word
<1>4. argv \in Seq(Arg)
  <2>1. Unquoted(token) \in Arg
    BY <1>3, UnquotedType
  <2> HIDE DEF token
  <2> QED BY <1>1, <2>1
<1>5. start \in Nat \ {0} /\ i + 1 \in Nat \ {0}
  BY <1>1, <1>2
<1>6. inside \in BOOLEAN /\ (c = Backslash) \in BOOLEAN
  <2> HIDE DEF c
  <2> QED BY <1>1
<1>7. Take(input, s, i) = IF Ends THEN Found(argv, i + 1, FALSE, s.in_string)
                          ELSE Found(s.argv, start, c = Backslash, inside)
  BY DEF Take
<1> HIDE DEF argv, start, inside, c
<1> QED
  BY <1>1, <1>4, <1>5, <1>6, <1>7 DEF Found, Progress

\* The tokens of a line are arguments.
LEMMA TokensType ==
    ASSUME NEW input \in Line
    PROVE  Tokens(input) \in Seq(Arg)
<1> DEFINE n == Len(input) + 1
           b == Found(<<>>, 1, FALSE, FALSE)
           step == [i \in 1 .. n |-> [s \in Progress |-> Take(input, s, i)]]
           Is(g) == g = [i \in 0 .. n |-> IF i = 0 THEN b ELSE Take(input, g[i - 1], i)]
           found == CHOOSE g : Is(g)
<1>1. n \in Nat /\ b \in Progress
  BY DEF Line, Word, Found, Progress
<1>2. \A i \in 1 .. n : \A s \in Progress :
          step[i][s] = Take(input, s, i) /\ step[i][s] \in Progress
  BY TakeType
<1>3. \E g : Is(g)
  <2>1. PICK g : g \in Stepwise(Progress, n, b, step)
    <3>1. step \in [1 .. n -> [Progress -> Progress]]
      BY TakeType
    <3> HIDE DEF step, n, b, Is, found
    <3> QED BY <1>1, <3>1, StepByStep
  <2>2. \A i \in 1 .. n : step[i][g[i - 1]] = Take(input, g[i - 1], i)
    <3>1. \A i \in 1 .. n : g[i - 1] \in Progress
      BY <1>1, <2>1 DEF Stepwise
    <3> HIDE DEF step
    <3> QED BY <1>2, <3>1
  <2>3. Is(g)
    <3>1. \A i \in 0 .. n : i # 0 => i \in 1 .. n
      BY <1>1
    <3>2. \A i \in 0 .. n : g[i] = IF i = 0 THEN b ELSE Take(input, g[i - 1], i)
      <4> HIDE DEF step, b, n
      <4> QED BY <2>1, <2>2, <3>1 DEF Stepwise
    <3>3. g \in [0 .. n -> Progress]
      BY <2>1 DEF Stepwise
    <3> HIDE DEF step, b, n
    <3> QED BY <3>2, <3>3
  <2> QED BY <2>3
<1>4. Is(found)
  <2> HIDE DEF Is
  <2> QED BY <1>3
<1>5. /\ found[0] = b
      /\ \A i \in 1 .. n : found[i] = Take(input, found[i - 1], i)
  <2> HIDE DEF found, b
  <2> QED BY <1>1, <1>4
<1>6. found[n] \in Progress
  <2>1. \A i \in 1 .. n : found[i - 1] \in Progress => found[i] \in Progress
    <3> HIDE DEF found
    <3> QED BY <1>5, TakeType
  <2> HIDE DEF found, b, n
  <2>2. \A i \in 0 .. n : found[i] \in Progress
    BY <1>1, <1>5, <2>1, HoldsOfAll
  <2> QED BY <1>1, <2>2
<1>7. Tokens(input) = found[n].argv
  BY DEF Tokens
<1> HIDE DEF found, n
<1> QED
  BY <1>6, <1>7 DEF Progress

\* The statement of a line is its arguments, if it is one.
LEMMA StatementType ==
    ASSUME NEW line \in Line, StatementOf(line) # Null
    PROVE  StatementOf(line) \in Seq(Arg)
BY TrimmedType, TokensType DEF StatementOf, Parse

\* The statements of a script are statements.
LEMMA StatementsType ==
    ASSUME NEW script \in Scripts
    PROVE  Statements(script) \in Seq(Seq(Arg))
<1> DEFINE n == Len(script)
           Next0(s, i) == LET stmt == StatementOf(script[i].line)
                          IN  IF stmt = Null THEN s ELSE Append(s, stmt)
           step == [i \in 1 .. n |-> [s \in Seq(Seq(Arg)) |-> Next0(s, i)]]
           Is(g) == g = [i \in 0 .. n |-> IF i = 0 THEN <<>> ELSE Next0(g[i - 1], i)]
           read == CHOOSE g : Is(g)
<1>1. n \in Nat /\ <<>> \in Seq(Seq(Arg)) /\ \A i \in 1 .. n : script[i].line \in Line
  <2>1. script \in Seq([line : Line, words : Seq(Word) \cup {Null}, inner : SUBSET Nat])
    BY ScriptAssumption
  <2>2. ASSUME NEW i \in 1 .. n PROVE script[i].line \in Line
    <3> DEFINE L == [line : Line, words : Seq(Word) \cup {Null}, inner : SUBSET Nat]
    <3>1. script \in Seq(L)
      BY <2>1
    <3>2. script[i] \in L
      <4> HIDE DEF L
      <4> QED BY <3>1
    <3> QED BY <3>2
  <2> QED BY <2>1, <2>2
<1>2. ASSUME NEW i \in 1 .. n, NEW s \in Seq(Seq(Arg)) PROVE Next0(s, i) \in Seq(Seq(Arg))
  <2>1. StatementOf(script[i].line) # Null => StatementOf(script[i].line) \in Seq(Arg)
    BY <1>1, StatementType
  <2> QED BY <2>1
<1>3. \E g : Is(g)
  <2>1. PICK g : g \in Stepwise(Seq(Seq(Arg)), n, <<>>, step)
    <3>1. step \in [1 .. n -> [Seq(Seq(Arg)) -> Seq(Seq(Arg))]]
      <4> HIDE DEF Next0
      <4> QED BY <1>2
    <3> DEFINE b == <<>>
    <3>2. b \in Seq(Seq(Arg))
      OBVIOUS
    <3>3. Stepwise(Seq(Seq(Arg)), n, b, step) # {}
      <4> HIDE DEF step, n, Is, read, b, Next0
      <4> QED BY <1>1, <3>1, <3>2, StepByStep
    <3> HIDE DEF step, n, Is, read, Next0
    <3> QED BY <3>3
  <2>2. ASSUME NEW i \in 1 .. n PROVE g[i] = Next0(g[i - 1], i)
    <3>0. i - 1 \in 0 .. n
      BY <1>1
    <3>1. g[i - 1] \in Seq(Seq(Arg)) /\ g[i] = step[i][g[i - 1]]
      <4> HIDE DEF step, n
      <4> QED BY <3>0, <2>1 DEF Stepwise
    <3> HIDE DEF Next0
    <3> QED BY <3>1
  <2>3. g \in [0 .. n -> Seq(Seq(Arg))] /\ g[0] = <<>>
    BY <2>1 DEF Stepwise
  <2>4. \A i \in 0 .. n : g[i] = IF i = 0 THEN <<>> ELSE Next0(g[i - 1], i)
    <3>1. \A i \in 0 .. n : i # 0 => i \in 1 .. n
      BY <1>1
    <3> HIDE DEF Next0, n
    <3> QED BY <2>2, <2>3, <3>1
  <2>5. Is(g)
    <3> HIDE DEF Next0, n
    <3> QED BY <2>3, <2>4
  <2> QED BY <2>5
<1>4. Is(read)
  <2> HIDE DEF Is
  <2> QED BY <1>3
<1>5. /\ read[0] = <<>>
      /\ \A i \in 1 .. n : read[i] = Next0(read[i - 1], i)
  <2> HIDE DEF read, Next0
  <2> QED BY <1>1, <1>4
<1>6. read[n] \in Seq(Seq(Arg))
  <2> HIDE DEF read, Next0, n
  <2>1. \A i \in 1 .. n : read[i - 1] \in Seq(Seq(Arg)) => read[i] \in Seq(Seq(Arg))
    BY <1>2, <1>5
  <2>2. \A i \in 0 .. n : read[i] \in Seq(Seq(Arg))
    <3>1. read[0] \in Seq(Seq(Arg))
      BY <1>1, <1>5
    <3> QED BY <1>1, <2>1, <3>1, HoldsOfAll
  <2> QED BY <1>1, <2>2
<1>7. Statements(script) = read[n]
  BY DEF Statements
<1> QED
  BY <1>6, <1>7

-----------------------------------------------------------------------------
(* The list of variables.                                                   *)

\* Where a name is found in a list of variables.
FindIn(list, symbol) == SelectInSeq(list, LAMBDA v : v.symbol = symbol)

\* The names of a list of variables and what is found under each.
BindingsOf(list) ==
    [n \in {list[i].symbol : i \in DOMAIN list} |-> list[FindIn(list, n)].value]

\* What is found is the first of its name; what is not found is not there.
LEMMA FindFacts ==
    ASSUME NEW list \in Seq(Variable), NEW symbol
    PROVE  /\ \/ /\ FindIn(list, symbol) = 0
              /\ \A i \in 1 .. Len(list) : list[i].symbol # symbol
           \/ /\ FindIn(list, symbol) \in 1 .. Len(list)
              /\ list[FindIn(list, symbol)].symbol = symbol
              /\ \A i \in 1 .. Len(list) :
                     list[i].symbol = symbol => FindIn(list, symbol) <= i
<1> DEFINE T == {i \in 1 .. Len(list) : list[i].symbol = symbol}
<1>1. FindIn(list, symbol) = IF T # {} THEN Min(T) ELSE 0
  BY DEF FindIn, SelectInSeq
<1>2. T # {} => Min(T) \in T /\ \A i \in T : Min(T) <= i
  <2>1. T \in SUBSET Nat
    OBVIOUS
  <2> HIDE DEF T
  <2> QED BY <2>1, MinFacts
<1> QED
  BY <1>1, <1>2

\* The first of a name is the one that is found.
LEMMA FoundIs ==
    ASSUME NEW list \in Seq(Variable), NEW k \in 1 .. Len(list),
           \A i \in 1 .. Len(list) : list[i].symbol = list[k].symbol => k <= i
    PROVE  FindIn(list, list[k].symbol) = k
<1> DEFINE f == FindIn(list, list[k].symbol)
<1>1. f \in 1 .. Len(list) /\ list[f].symbol = list[k].symbol /\ f <= k
  <2> HIDE DEF f
  <2> USE FindFacts DEF f
  <2> QED OBVIOUS
<1>2. k <= f
  <2> HIDE DEF f
  <2> QED BY <1>1
<1> HIDE DEF f
<1> QED
  BY <1>1, <1>2 DEF f

(* What is written in a statement, resolved with a list of variables, is what the *)
(* map of the list makes of it.                                                    *)
LEMMA ResolvedIsExpanded ==
    ASSUME variables \in Seq(Variable), NEW stmt \in Seq(Arg)
    PROVE  Resolved(stmt) = Expanded(BindingsOf(variables), stmt)
<1> DEFINE B == BindingsOf(variables)
<1>1. \A n : Find(n) = FindIn(variables, n)
  BY DEF Find, FindIn
<1>2. DOMAIN variables = 1 .. Len(variables)
  OBVIOUS
<1>3. \A n : n \in DOMAIN B <=> Find(n) # 0
  <2> TAKE n
  <2>1. n \in DOMAIN B <=> \E i \in 1 .. Len(variables) : variables[i].symbol = n
    BY <1>2 DEF BindingsOf
  <2> QED BY <1>1, <2>1, FindFacts
<1>4. \A n \in DOMAIN B : B[n] = variables[Find(n)].value
  BY <1>1 DEF BindingsOf
<1> HIDE DEF B
<1> QED
  BY <1>3, <1>4 DEF Resolved, Expanded, Refers, B

\* Resolving gives words, or NULL for a variable without a value.
LEMMA ResolvedType ==
    ASSUME variables \in Seq(Variable), NEW stmt \in Seq(Arg)
    PROVE  /\ Resolved(stmt) \in Seq(Word \cup {Null})
           /\ Len(Resolved(stmt)) = Len(stmt)
           /\ \A i \in 1 .. Len(stmt) : Resolved(stmt)[i] \in Word \cup {Null}
<1>1. \A n : Find(n) # 0 => variables[Find(n)].value \in Word \cup {Null}
  <2> TAKE n
  <2>1. HAVE Find(n) # 0
  <2>2. Find(n) = FindIn(variables, n)
    BY DEF Find, FindIn
  <2>3. Find(n) \in 1 .. Len(variables)
    BY <2>1, <2>2, FindFacts
  <2>4. variables[Find(n)] \in Variable
    BY <2>3
  <2> QED BY <2>4 DEF Variable
<1>2. ASSUME NEW i \in DOMAIN stmt PROVE stmt[i].word \in Word
  <2>1. stmt[i] \in Arg
    OBVIOUS
  <2> QED BY <2>1 DEF Arg
<1>3. \A i \in DOMAIN stmt : Resolved(stmt)[i] \in Word \cup {Null}
  BY <1>1, <1>2 DEF Resolved, Refers
<1>4. DOMAIN Resolved(stmt) = 1 .. Len(stmt) /\ Len(stmt) \in Nat
  BY DEF Resolved
<1>5. Resolved(stmt) \in [1 .. Len(stmt) -> Word \cup {Null}]
  BY <1>3, <1>4 DEF Resolved
<1>6. Len(Resolved(stmt)) = Len(stmt)
  BY <1>4
<1> QED
  <2> HIDE DEF Resolved
  <2> QED BY <1>3, <1>4, <1>5, <1>6

\* The names of a list.
LEMMA BindingsDomain ==
    ASSUME NEW list \in Seq(Variable), NEW n
    PROVE  /\ n \in DOMAIN BindingsOf(list) <=> \E i \in 1 .. Len(list) : list[i].symbol = n
           /\ n \in DOMAIN BindingsOf(list) <=> FindIn(list, n) # 0
           /\ n \in DOMAIN BindingsOf(list) =>
                  BindingsOf(list)[n] = list[FindIn(list, n)].value
<1>1. DOMAIN list = 1 .. Len(list)
  OBVIOUS
<1>2. n \in DOMAIN BindingsOf(list) <=> \E i \in 1 .. Len(list) : list[i].symbol = n
  BY <1>1 DEF BindingsOf
<1>3. n \in DOMAIN BindingsOf(list) => BindingsOf(list)[n] = list[FindIn(list, n)].value
  BY DEF BindingsOf
<1> QED
  BY <1>2, <1>3, FindFacts

\* A variable linked in front of the list counts, whatever is behind it.
LEMMA PushBindings ==
    ASSUME NEW list \in Seq(Variable), NEW v \in Variable
    PROVE  /\ <<v>> \o list \in Seq(Variable)
           /\ BindingsOf(<<v>> \o list) = With(BindingsOf(list), v.symbol, v.value)
<1> DEFINE new == <<v>> \o list
           B == BindingsOf(list)
           C == BindingsOf(new)
<1>1. /\ new \in Seq(Variable) /\ Len(new) = Len(list) + 1 /\ new[1] = v
      /\ \A i \in 1 .. Len(list) : new[i + 1] = list[i]
      /\ Len(list) \in Nat
  OBVIOUS
<1> HIDE DEF new
<1>2. \A j \in 1 .. Len(new) : j = 1 \/ (j - 1 \in 1 .. Len(list) /\ new[j] = list[j - 1])
  <2> TAKE j \in 1 .. Len(new)
  <2>1. j # 1 => j - 1 \in 1 .. Len(list) /\ (j - 1) + 1 = j
    BY <1>1
  <2> QED BY <1>1, <2>1
<1>3. FindIn(new, v.symbol) = 1
  <2>1. 1 \in 1 .. Len(new) /\ \A i \in 1 .. Len(new) : 1 <= i
    BY <1>1
  <2> QED BY <1>1, <2>1, FoundIs
<1>4. ASSUME NEW n, n # v.symbol
      PROVE  /\ n \in DOMAIN C <=> n \in DOMAIN B
             /\ n \in DOMAIN B => C[n] = B[n]
  <2>1. n \in DOMAIN B => FindIn(new, n) = FindIn(list, n) + 1
    <3> HAVE n \in DOMAIN B
    <3> DEFINE f == FindIn(list, n)
    <3>1. /\ f \in 1 .. Len(list) /\ list[f].symbol = n
          /\ \A i \in 1 .. Len(list) : list[i].symbol = n => f <= i
      BY BindingsDomain, FindFacts
    <3> HIDE DEF f
    <3>2. f + 1 \in 1 .. Len(new) /\ new[f + 1].symbol = n
      BY <1>1, <3>1
    <3>3. ASSUME NEW j \in 1 .. Len(new), new[j].symbol = n PROVE f + 1 <= j
      <4>1. j - 1 \in 1 .. Len(list) /\ list[j - 1].symbol = n
        BY <1>1, <1>2, <1>4, <3>3
      <4>2. f <= j - 1
        BY <3>1, <4>1
      <4> QED BY <3>1, <4>2
    <3> QED BY <1>1, <3>2, <3>3, FoundIs DEF f
  <2>2. n \in DOMAIN C => n \in DOMAIN B
    <3> HAVE n \in DOMAIN C
    <3>1. PICK j \in 1 .. Len(new) : new[j].symbol = n
      BY <1>1, BindingsDomain
    <3>2. j - 1 \in 1 .. Len(list) /\ list[j - 1].symbol = n
      BY <1>1, <1>2, <1>4, <3>1
    <3> QED BY <3>2, BindingsDomain
  <2>3. n \in DOMAIN B => n \in DOMAIN C /\ C[n] = B[n]
    <3> HAVE n \in DOMAIN B
    <3>1. FindIn(list, n) \in 1 .. Len(list) /\ B[n] = list[FindIn(list, n)].value
      BY BindingsDomain, FindFacts
    <3>2. FindIn(new, n) # 0 /\ new[FindIn(new, n)] = list[FindIn(list, n)]
      BY <1>1, <2>1, <3>1
    <3>3. n \in DOMAIN C /\ C[n] = new[FindIn(new, n)].value
      BY <1>1, <3>2, BindingsDomain
    <3> QED BY <3>1, <3>2, <3>3
  <2> QED BY <2>2, <2>3
<1>5. v.symbol \in DOMAIN C /\ C[v.symbol] = v.value
  BY <1>1, <1>3, BindingsDomain
<1>6. C = [n \in DOMAIN C |-> C[n]]
  BY DEF BindingsOf
<1>7. DOMAIN C = DOMAIN B \cup {v.symbol}
  BY <1>4, <1>5
<1>8. \A n \in DOMAIN C : C[n] = IF n = v.symbol THEN v.value ELSE B[n]
  BY <1>4, <1>5, <1>7
<1>9. C = With(B, v.symbol, v.value)
  <2> HIDE DEF B, C
  <2> QED BY <1>6, <1>7, <1>8 DEF With
<1> QED
  BY <1>1, <1>9 DEF new

\* A value changed where its name is found is the value of the name.
LEMMA ChangeBindings ==
    ASSUME NEW list \in Seq(Variable), NEW n, NEW value \in Word \cup {Null},
           FindIn(list, n) # 0
    PROVE  /\ [list EXCEPT ![FindIn(list, n)].value = value] \in Seq(Variable)
           /\ BindingsOf([list EXCEPT ![FindIn(list, n)].value = value])
                  = With(BindingsOf(list), n, value)
<1> DEFINE at == FindIn(list, n)
           new == [list EXCEPT ![at].value = value]
           B == BindingsOf(list)
           C == BindingsOf(new)
<1>1. at \in 1 .. Len(list) /\ list[at].symbol = n
  BY FindFacts
<1> HIDE DEF at
<1>2. \A i \in 1 .. Len(list) :
          /\ list[i] \in Variable
          /\ new[i] = IF i = at THEN [list[i] EXCEPT !.value = value] ELSE list[i]
  BY <1>1
<1>3. \A i \in 1 .. Len(list) :
          /\ new[i] \in Variable /\ new[i].symbol = list[i].symbol
          /\ new[i].value = IF i = at THEN value ELSE list[i].value
  <2> TAKE i \in 1 .. Len(list)
  <2> HIDE DEF new
  <2>1. CASE i = at
    BY <1>2, <2>1 DEF Variable
  <2>2. CASE i # at
    BY <1>2, <2>2
  <2> QED BY <2>1, <2>2
<1>4. new \in Seq(Variable) /\ Len(new) = Len(list)
  <2>1. new = [i \in 1 .. Len(list) |-> new[i]] /\ Len(list) \in Nat
    OBVIOUS
  <2> HIDE DEF new
  <2> QED BY <1>3, <2>1
<1> HIDE DEF new
<1>5. ASSUME NEW m
      PROVE  /\ m \in DOMAIN C <=> m \in DOMAIN B
             /\ m \in DOMAIN B => FindIn(new, m) = FindIn(list, m)
  <2>1. m \in DOMAIN C <=> m \in DOMAIN B
    <3>1. m \in DOMAIN C <=> \E i \in 1 .. Len(new) : new[i].symbol = m
      BY <1>4, BindingsDomain
    <3>2. m \in DOMAIN B <=> \E i \in 1 .. Len(list) : list[i].symbol = m
      BY BindingsDomain
    <3> HIDE DEF B, C
    <3> QED BY <1>3, <1>4, <3>1, <3>2
  <2>2. ASSUME m \in DOMAIN B PROVE FindIn(new, m) = FindIn(list, m)
    <3> DEFINE f == FindIn(list, m)
    <3>1. /\ f \in 1 .. Len(list) /\ list[f].symbol = m
          /\ \A i \in 1 .. Len(list) : list[i].symbol = m => f <= i
      BY <2>2, BindingsDomain, FindFacts
    <3> HIDE DEF f
    <3> QED BY <1>3, <1>4, <3>1, FoundIs DEF f
  <2> QED BY <2>1, <2>2
<1>6. ASSUME NEW m \in DOMAIN C PROVE C[m] = IF m = n THEN value ELSE B[m]
  <2> DEFINE f == FindIn(list, m)
  <2>1. m \in DOMAIN B /\ f = FindIn(new, m) /\ C[m] = new[f].value /\ B[m] = list[f].value
    BY <1>4, <1>5, BindingsDomain
  <2>2. f \in 1 .. Len(list) /\ list[f].symbol = m
    BY <2>1, BindingsDomain, FindFacts
  <2>3. CASE m = n
    BY <1>3, <2>1, <2>2, <2>3 DEF at
  <2>4. CASE m # n
    BY <1>1, <1>3, <2>1, <2>2, <2>4
  <2> QED BY <2>3, <2>4
<1>7. C = [m \in DOMAIN C |-> C[m]] /\ n \in DOMAIN B
  BY BindingsDomain DEF BindingsOf
<1>8. DOMAIN C = DOMAIN B \cup {n}
  BY <1>5, <1>7
<1>9. C = With(B, n, value)
  <2> HIDE DEF B, C
  <2> QED BY <1>6, <1>7, <1>8 DEF With
<1> QED
  BY <1>4, <1>9 DEF new, at

-----------------------------------------------------------------------------
(* What a statement does.                                                   *)

\* What is no set and no setu leaves the map as it is.
LEMMA AfterOthers ==
    ASSUME NEW map, NEW argv,
           ~(Len(argv) = 3 /\ argv[1] \in {<<"set">>, <<"setu">>})
    PROVE  After(map, argv) = map
BY DEF After

\* set changes the value found or links a new variable.
LEMMA SetEffect ==
    ASSUME variables \in Seq(Variable), NEW stmt \in Seq(Arg), Set(stmt)
    PROVE  /\ variables' \in Seq(Variable)
           /\ BindingsOf(variables') = After(BindingsOf(variables), Resolved(stmt))
<1> DEFINE argv == Resolved(stmt)
           at   == Find(argv[2])
<1>1. /\ Len(argv) = 3 /\ argv[1] = <<"set">> /\ argv[2] # Null
      /\ variables' = IF at = 0 THEN <<[symbol |-> argv[2], value |-> argv[3]]>> \o variables
                      ELSE [variables EXCEPT ![at].value = argv[3]]
  BY DEF Set
<1>2. /\ \A i \in 1 .. Len(argv) : argv[i] \in Word \cup {Null}
      /\ at = FindIn(variables, argv[2])
  BY ResolvedType DEF Find, FindIn
<1>3. After(BindingsOf(variables), argv) = With(BindingsOf(variables), argv[2], argv[3])
  BY <1>1 DEF After
<1> HIDE DEF argv
<1>4. argv[2] \in Word /\ argv[3] \in Word \cup {Null}
  <2>1. \A i \in 1 .. 3 : argv[i] \in Word \cup {Null}
    BY <1>1, <1>2
  <2> QED BY <1>1, <2>1
<1>5. CASE at = 0
  <2> DEFINE v == [symbol |-> argv[2], value |-> argv[3]]
  <2>1. v \in Variable /\ v.symbol = argv[2] /\ v.value = argv[3]
    BY <1>4 DEF Variable
  <2>2. variables' = <<v>> \o variables
    BY <1>1, <1>5
  <2> HIDE DEF v
  <2>3. /\ <<v>> \o variables \in Seq(Variable)
        /\ BindingsOf(<<v>> \o variables) = With(BindingsOf(variables), v.symbol, v.value)
    BY <2>1, PushBindings
  <2> QED BY <1>3, <2>1, <2>2, <2>3 DEF argv
<1>6. CASE at # 0
  <2>1. variables' = [variables EXCEPT ![FindIn(variables, argv[2])].value = argv[3]]
    BY <1>1, <1>2, <1>6
  <2>2. FindIn(variables, argv[2]) # 0
    BY <1>2, <1>6
  <2> HIDE DEF at
  <2> QED BY <1>3, <1>4, <2>1, <2>2, ChangeBindings DEF argv
<1> QED
  BY <1>5, <1>6

\* setu links a new variable if there is none of the name.
LEMMA SetuEffect ==
    ASSUME variables \in Seq(Variable), NEW stmt \in Seq(Arg), Setu(stmt)
    PROVE  /\ variables' \in Seq(Variable)
           /\ BindingsOf(variables') = After(BindingsOf(variables), Resolved(stmt))
<1> DEFINE argv == Resolved(stmt)
           B == BindingsOf(variables)
<1>1. /\ Len(argv) = 3 /\ argv[1] = <<"setu">> /\ argv[2] # Null
      /\ variables' = IF Find(argv[2]) # 0 THEN variables
                      ELSE <<[symbol |-> argv[2], value |-> argv[3]]>> \o variables
  BY DEF Setu
<1>2. /\ \A i \in 1 .. Len(argv) : argv[i] \in Word \cup {Null}
      /\ Find(argv[2]) = FindIn(variables, argv[2])
  BY ResolvedType DEF Find, FindIn
<1>3. After(B, argv) = IF argv[2] \in DOMAIN B THEN B ELSE With(B, argv[2], argv[3])
  <2> HIDE DEF B, argv
  <2> QED BY <1>1 DEF After
<1> HIDE DEF argv
<1>4. argv[2] \in Word /\ argv[3] \in Word \cup {Null}
  <2>1. \A i \in 1 .. 3 : argv[i] \in Word \cup {Null}
    BY <1>1, <1>2
  <2> QED BY <1>1, <2>1
<1>5. argv[2] \in DOMAIN B <=> Find(argv[2]) # 0
  BY <1>2, BindingsDomain
<1>6. CASE Find(argv[2]) = 0
  <2> DEFINE v == [symbol |-> argv[2], value |-> argv[3]]
  <2>1. v \in Variable /\ v.symbol = argv[2] /\ v.value = argv[3]
    BY <1>4 DEF Variable
  <2>2. variables' = <<v>> \o variables
    BY <1>1, <1>6
  <2> HIDE DEF v
  <2>3. /\ <<v>> \o variables \in Seq(Variable)
        /\ BindingsOf(<<v>> \o variables) = With(B, v.symbol, v.value)
    BY <2>1, PushBindings
  <2> HIDE DEF B
  <2> QED BY <1>3, <1>5, <1>6, <2>1, <2>2, <2>3 DEF argv, B
<1>7. CASE Find(argv[2]) # 0
  <2>1. variables' = variables /\ After(B, argv) = B
    <3> HIDE DEF B
    <3> QED BY <1>1, <1>3, <1>5, <1>7
  <2> QED BY <2>1 DEF argv
<1> QED
  BY <1>6, <1>7

\* A statement that is executed faults and leaves everything, or it returns and the
\* map of the list is what it means.
LEMMA ExecuteEffect ==
    ASSUME variables \in Seq(Variable), NEW stmt \in Seq(Arg), Execute(stmt)
    PROVE  \/ mode' = "crashed" /\ UNCHANGED <<variables, done>>
           \/ /\ variables' \in Seq(Variable)
              /\ BindingsOf(variables') = After(BindingsOf(variables), Resolved(stmt))
              /\ \E err \in {"ok", "error", "terminate"} : Returns(stmt, err)
<1> DEFINE argv == Resolved(stmt)
<1>1. Len(argv) = Len(stmt)
  BY ResolvedType
<1>2. CASE Fault(stmt)
  BY <1>2 DEF Fault
<1>3. CASE Set(stmt)
  BY <1>3, SetEffect DEF Set
<1>4. CASE Setu(stmt)
  BY <1>4, SetuEffect DEF Setu
<1>5. ASSUME UNCHANGED variables, \E err \in {"ok", "error", "terminate"} : Returns(stmt, err),
             ~(Len(argv) = 3 /\ argv[1] \in {<<"set">>, <<"setu">>})
      PROVE  /\ variables' \in Seq(Variable)
             /\ BindingsOf(variables') = After(BindingsOf(variables), Resolved(stmt))
             /\ \E err \in {"ok", "error", "terminate"} : Returns(stmt, err)
  <2>1. After(BindingsOf(variables), argv) = BindingsOf(variables)
    BY <1>5, AfterOthers
  <2>2. variables' = variables
    BY <1>5
  <2> QED BY <1>5, <2>1, <2>2
<1>6. CASE Malformed(stmt)
  <2>1. Len(argv) = 0 /\ Returns(stmt, "terminate") /\ UNCHANGED variables
    BY <1>1, <1>6 DEF Malformed
  <2> HIDE DEF argv
  <2> QED BY <1>5, <2>1
<1>7. CASE Mistaken(stmt)
  <2>1. Returns(stmt, "error") /\ UNCHANGED variables
    BY <1>7 DEF Mistaken
  <2>2. ~(Len(argv) = 3 /\ argv[1] \in {<<"set">>, <<"setu">>})
    BY <1>7 DEF Mistaken
  <2> HIDE DEF argv
  <2> QED BY <1>5, <2>1, <2>2
<1>8. CASE Echo(stmt)
  <2>1. Returns(stmt, "ok") /\ UNCHANGED variables /\ argv[1] = <<"echo">>
    BY <1>8 DEF Echo
  <2>2. <<"echo">> # <<"set">> /\ <<"echo">> # <<"setu">>
    OBVIOUS
  <2> HIDE DEF argv
  <2> QED BY <1>5, <2>1, <2>2
<1>9. CASE Exit(stmt)
  <2>1. Returns(stmt, "terminate") /\ UNCHANGED variables /\ argv[1] = <<"exit">>
    BY <1>9 DEF Exit
  <2>2. <<"exit">> # <<"set">> /\ <<"exit">> # <<"setu">>
    OBVIOUS
  <2> HIDE DEF argv
  <2> QED BY <1>5, <2>1, <2>2
<1>10. CASE OnVolume(stmt)
  <2>1. /\ \E err \in {"ok", "error"} : Returns(stmt, err)
        /\ UNCHANGED variables /\ argv[1] \in VolumeCommands
    BY <1>10 DEF OnVolume
  <2>2. <<"set">> \notin VolumeCommands /\ <<"setu">> \notin VolumeCommands
    BY ScriptAssumption
  <2> HIDE DEF argv
  <2> QED BY <1>5, <2>1, <2>2
<1> QED
  BY <1>2, <1>3, <1>4, <1>6, <1>7, <1>8, <1>9, <1>10 DEF Execute

-----------------------------------------------------------------------------
(* Types.                                                                   *)

\* A statement that was executed.
Ran == [stmt : Seq(Arg), argv : Seq(Word \cup {Null}), err : {"ok", "error", "terminate"}]

(* The list of the environment: its entries from the last to the first. *)
LEMMA EnvironmentFacts ==
    ASSUME NEW e \in Environments
    PROVE  /\ Len(e) \in Nat /\ DOMAIN e = 1 .. Len(e)
           /\ \A i \in 1 .. Len(e) : Parsed(e[i]) \in Variable /\ Parsed(e[i]).symbol = e[i][1]
           /\ FromEnvironment(e) \in Seq(Variable) /\ Len(FromEnvironment(e)) = Len(e)
           /\ \A i \in 1 .. Len(e) : FromEnvironment(e)[i] = Parsed(e[(Len(e) - i) + 1])
<1>1. e \in Seq(Seq(Word) \ {<<>>})
  BY ScriptAssumption
<1>2. Len(e) \in Nat /\ DOMAIN e = 1 .. Len(e)
  BY <1>1
<1>3. ASSUME NEW i \in 1 .. Len(e)
      PROVE  Parsed(e[i]) \in Variable /\ Parsed(e[i]).symbol = e[i][1]
  <2>1. e[i] \in Seq(Word) /\ e[i] # <<>>
    BY <1>1
  <2>2. Len(e[i]) \in Nat \ {0} /\ \A j \in 1 .. Len(e[i]) : e[i][j] \in Word
    BY <2>1
  <2> DEFINE l == Len(e[i])
  <2>3. 1 \in 1 .. l /\ (l # 1 => 2 \in 1 .. l)
    <3>1. l \in Nat \ {0}
      BY <2>2
    <3> HIDE DEF l
    <3> QED BY <3>1
  <2>4. e[i][1] \in Word /\ (Len(e[i]) # 1 => e[i][2] \in Word)
    BY <2>2, <2>3
  <2> QED BY <2>4 DEF Parsed, Variable
<1> DEFINE f == [i \in DOMAIN e |-> Parsed(e[i])]
<1>4. f \in Seq(Variable) /\ Len(f) = Len(e) /\ \A i \in 1 .. Len(e) : f[i] = Parsed(e[i])
  <2>1. \A i \in 1 .. Len(e) : f[i] = Parsed(e[i]) /\ f[i] \in Variable
    BY <1>2, <1>3
  <2>2. f = [i \in 1 .. Len(e) |-> f[i]]
    BY <1>2
  <2> HIDE DEF f
  <2> QED BY <1>2, <2>1, <2>2
<1> HIDE DEF f
<1>5. FromEnvironment(e) = [i \in 1 .. Len(f) |-> f[(Len(f) - i) + 1]]
  BY DEF FromEnvironment, Reverse, f
<1>6. \A i \in 1 .. Len(e) : (Len(e) - i) + 1 \in 1 .. Len(e)
  BY <1>2
<1>7. \A i \in 1 .. Len(e) :
          /\ FromEnvironment(e)[i] = Parsed(e[(Len(e) - i) + 1])
          /\ FromEnvironment(e)[i] \in Variable
  BY <1>3, <1>4, <1>5, <1>6
<1>8. FromEnvironment(e) \in Seq(Variable) /\ Len(FromEnvironment(e)) = Len(e)
  <2>1. FromEnvironment(e) = [i \in 1 .. Len(e) |-> FromEnvironment(e)[i]]
    BY <1>4, <1>5
  <2> QED BY <1>2, <1>7, <2>1
<1> QED
  BY <1>2, <1>3, <1>7, <1>8

\* What a command that returns adds to the history.
LEMMA ReturnsEffect ==
    ASSUME TypeOK, NEW stmt \in Seq(Arg), NEW err \in {"ok", "error", "terminate"},
           Returns(stmt, err)
    PROVE  /\ mode' = IF err = "terminate" THEN "ended" ELSE IF err = "error" THEN "prompt" ELSE mode
           /\ \E r \in Ran :
                 /\ r.stmt = stmt /\ r.argv = Resolved(stmt) /\ r.err = err
                 /\ done' = Append(done, r)
           /\ done \in Seq(Ran) /\ done' \in Seq(Ran)
<1>1. mode' = IF err = "terminate" THEN "ended" ELSE IF err = "error" THEN "prompt" ELSE mode
  BY DEF Returns, Return
<1> DEFINE r == [stmt |-> stmt, argv |-> Resolved(stmt), err |-> err]
<1>2. r \in Ran /\ r.stmt = stmt /\ r.argv = Resolved(stmt) /\ r.err = err
  <2>1. Resolved(stmt) \in Seq(Word \cup {Null})
    BY ResolvedType DEF TypeOK
  <2> QED BY <2>1 DEF Ran
<1>3. done' = Append(done, r)
  BY DEF Returns
<1>4. done \in Seq(Ran)
  BY DEF TypeOK, Ran
<1> HIDE DEF r
<1> QED
  BY <1>1, <1>2, <1>3, <1>4

\* The statement at the head of what is left of the script, and what follows it.
LEMMA RestType ==
    ASSUME TypeOK, rest # <<>>
    PROVE  /\ Head(rest) \in Seq(Arg) /\ Tail(rest) \in Seq(Seq(Arg))
           /\ Len(rest) \in Nat \ {0} /\ Head(rest) = rest[1]
           /\ Len(Tail(rest)) = Len(rest) - 1
           /\ \A i \in 1 .. Len(rest) - 1 : Tail(rest)[i] = rest[i + 1]
<1> DEFINE S == Seq(Arg)
<1>1. rest \in Seq(S)
  BY DEF TypeOK
<1> HIDE DEF S
<1>2. /\ Head(rest) \in S /\ Tail(rest) \in Seq(S)
      /\ Len(rest) \in Nat \ {0} /\ Head(rest) = rest[1]
      /\ Len(Tail(rest)) = Len(rest) - 1
      /\ \A i \in 1 .. Len(rest) - 1 : Tail(rest)[i] = rest[i + 1]
  BY <1>1
<1> QED
  BY <1>2 DEF S

\* A statement keeps the types.
LEMMA ExecuteTypes ==
    ASSUME TypeOK, NEW stmt \in Seq(Arg), Execute(stmt)
    PROVE  /\ variables' \in Seq(Variable) /\ done' \in Seq(Ran)
           /\ mode' \in {"script", "prompt", "ended", "crashed"}
<1>1. variables \in Seq(Variable) /\ done \in Seq(Ran)
  BY DEF TypeOK, Ran
<1>2. CASE mode' = "crashed" /\ UNCHANGED <<variables, done>>
  BY <1>1, <1>2
<1>3. ASSUME variables' \in Seq(Variable),
             NEW err \in {"ok", "error", "terminate"}, Returns(stmt, err)
      PROVE  /\ variables' \in Seq(Variable) /\ done' \in Seq(Ran)
             /\ mode' \in {"script", "prompt", "ended", "crashed"}
  BY <1>3, ReturnsEffect DEF TypeOK
<1> QED
  BY <1>1, <1>2, <1>3, ExecuteEffect

(* The types are right when the process starts. *)
LEMMA TypesFirst == Init => TypeOK
<1> SUFFICES ASSUME Init PROVE TypeOK
  OBVIOUS
<1>1. variables \in Seq(Variable)
  BY EnvironmentFacts DEF Init
<1>2. rest \in Seq(Seq(Arg))
  BY StatementsType DEF Init
<1>3. mode \in {"script", "crashed"} /\ done = <<>>
  BY DEF Init
<1> QED
  BY <1>1, <1>2, <1>3 DEF TypeOK

(* Every step keeps the types. *)
LEMMA TypesKept == TypeOK /\ [Next]_vars => TypeOK'
<1> SUFFICES ASSUME TypeOK, [Next]_vars PROVE TypeOK'
  OBVIOUS
<1>1. CASE RunScript
  <2>1. rest # <<>> /\ Execute(Head(rest)) /\ rest' \in {rest, Tail(rest)}
    BY <1>1 DEF RunScript
  <2>2. rest' \in Seq(Seq(Arg)) /\ Head(rest) \in Seq(Arg)
    BY <2>1, RestType DEF TypeOK
  <2>3. /\ variables' \in Seq(Variable) /\ done' \in Seq(Ran)
        /\ mode' \in {"script", "prompt", "ended", "crashed"}
    BY <2>1, <2>2, ExecuteTypes
  <2> QED BY <2>2, <2>3 DEF TypeOK, Ran
<1>2. CASE ScriptDone
  BY <1>2 DEF ScriptDone, TypeOK
<1>3. CASE \E line \in Typed : Prompt(line)
  <2>1. PICK line \in Typed : Prompt(line)
    BY <1>3
  <2>2. /\ StatementOf(line) \in Seq(Arg) /\ Execute(StatementOf(line)) /\ UNCHANGED rest
    BY <2>1, StatementType, ScriptAssumption DEF Prompt
  <2>3. /\ variables' \in Seq(Variable) /\ done' \in Seq(Ran)
        /\ mode' \in {"script", "prompt", "ended", "crashed"}
    BY <2>2, ExecuteTypes
  <2> QED BY <2>2, <2>3 DEF TypeOK, Ran
<1>4. CASE UNCHANGED vars
  BY <1>4 DEF vars, TypeOK
<1>5. CASE \E line \in Typed : PromptFaults(line)
  BY <1>5 DEF PromptFaults, TypeOK
<1> QED
  BY <1>1, <1>2, <1>3, <1>4, <1>5 DEF Next

(* The list of variables, what is left of the script and the history are of their *)
(* types: a parsed line is made of words and every value put in is one, or the    *)
(* NULL of a variable that has none (shell_parse, shell_statement_resolve).        *)
THEOREM InterpreterTypes == Spec => []TypeOK
<1>1. Init => TypeOK
  BY TypesFirst
<1>2. TypeOK /\ [Next]_vars => TypeOK'
  BY TypesKept
<1> QED
  BY <1>1, <1>2, PTL DEF Spec

-----------------------------------------------------------------------------
(* Order.                                                                   *)

\* The statements of the script that were executed and did not fail.
Passed == Len(all) - Len(rest)

(* What is left of the script is its end, and the history holds at least what is *)
(* before it, and the statement the script came to the prompt with.              *)
Place ==
    /\ all \in Seq(Seq(Arg))
    /\ Passed \in Nat /\ Passed <= Len(done)
    /\ \A i \in 1 .. Len(rest) : rest[i] = all[Passed + i]
    /\ mode = "prompt" /\ rest # <<>> => Passed + 1 <= Len(done)

OrderInv == TypeOK /\ Place /\ ScriptInOrder

\* The history only grows.
LEMMA HistoryKept ==
    ASSUME NEW s \in Seq(Ran), NEW r \in Ran
    PROVE  /\ Append(s, r) \in Seq(Ran) /\ Len(Append(s, r)) = Len(s) + 1 /\ Len(s) \in Nat
           /\ \A i \in 1 .. Len(s) : Append(s, r)[i] = s[i]
           /\ Append(s, r)[Len(s) + 1] = r
<1> DEFINE S == Ran
<1>1. s \in Seq(S) /\ r \in S
  OBVIOUS
<1> HIDE DEF S
<1>2. /\ Append(s, r) \in Seq(S) /\ Len(Append(s, r)) = Len(s) + 1 /\ Len(s) \in Nat
      /\ \A i \in 1 .. Len(s) : Append(s, r)[i] = s[i]
      /\ Append(s, r)[Len(s) + 1] = r
  BY <1>1
<1> QED
  BY <1>2 DEF S

(* A script that has not run is in order. *)
LEMMA OrderFirst == Init => OrderInv
<1> SUFFICES ASSUME Init PROVE OrderInv
  OBVIOUS
<1>1. TypeOK
  BY TypesFirst
<1>2. all \in Seq(Seq(Arg)) /\ rest = all /\ mode \in {"script", "crashed"} /\ done = <<>>
  BY StatementsType DEF Init
<1>3. Len(all) \in Nat /\ Passed = 0 /\ Len(done) = 0
  BY <1>2 DEF Passed
<1>4. Place
  BY <1>2, <1>3 DEF Place
<1>5. ScriptInOrder
  BY <1>2, <1>3 DEF ScriptInOrder, Passed
<1> QED
  BY <1>1, <1>4, <1>5 DEF OrderInv

\* A statement of the script keeps the order.
LEMMA RunScriptKeepsOrder ==
    ASSUME OrderInv, RunScript
    PROVE  Place' /\ ScriptInOrder'
<1> DEFINE stmt == Head(rest)
           n == Passed
<1>1. /\ mode = "script" /\ rest # <<>> /\ Execute(stmt)
      /\ rest' = IF mode' = "script" THEN Tail(rest) ELSE rest
      /\ all' = all
  BY DEF RunScript
<1>2. TypeOK /\ all \in Seq(Seq(Arg)) /\ n \in Nat
  BY DEF OrderInv, Place
<1>3. /\ stmt \in Seq(Arg) /\ Tail(rest) \in Seq(Seq(Arg))
      /\ Len(rest) \in Nat \ {0} /\ stmt = rest[1]
      /\ Len(Tail(rest)) = Len(rest) - 1
      /\ \A i \in 1 .. Len(rest) - 1 : Tail(rest)[i] = rest[i + 1]
  BY <1>1, <1>2, RestType
<1>4. /\ n = Len(done) /\ Len(all) \in Nat /\ n = Len(all) - Len(rest)
      /\ \A i \in 1 .. Len(rest) : rest[i] = all[n + i]
      /\ \A i \in 1 .. n : done[i].stmt = all[i] /\ done[i].err = "ok"
  BY <1>1, <1>2 DEF OrderInv, Place, ScriptInOrder, Passed
<1>5. stmt = all[n + 1]
  BY <1>3, <1>4
<1> HIDE DEF stmt, n
<1>6. CASE mode' = "crashed" /\ UNCHANGED <<variables, done>>
  <2>1. rest' = rest /\ mode' # "script" /\ mode' # "prompt" /\ done' = done
    BY <1>1, <1>6
  <2>2. Passed' = n
    BY <1>1, <1>4, <2>1 DEF Passed
  <2>3. Place'
    <3>0. all' = all /\ Len(done') = n
      BY <1>1, <1>4, <2>1
    <3>1. all' \in Seq(Seq(Arg)) /\ n <= Len(done')
      BY <1>2, <3>0
    <3>2. \A i \in 1 .. Len(rest') : rest'[i] = all'[n + i]
      BY <1>1, <1>4, <2>1
    <3> QED BY <1>2, <2>1, <2>2, <3>1, <3>2 DEF Place
  <2>4. ScriptInOrder'
    BY <1>1, <1>4, <2>1, <2>2 DEF ScriptInOrder, Passed
  <2> QED BY <2>3, <2>4
<1>7. ASSUME NEW err \in {"ok", "error", "terminate"}, Returns(stmt, err)
      PROVE  Place' /\ ScriptInOrder'
  <2>1. PICK r \in Ran : r.stmt = stmt /\ r.err = err /\ done' = Append(done, r)
    BY <1>2, <1>3, <1>7, ReturnsEffect
  <2>2. done \in Seq(Ran)
    BY <1>2, <1>3, <1>7, ReturnsEffect
  <2>3. /\ Len(done') = n + 1
        /\ \A i \in 1 .. n : done'[i].stmt = all[i] /\ done'[i].err = "ok"
        /\ done'[n + 1].stmt = stmt /\ done'[n + 1].err = err
    <3>1. /\ Len(done') = Len(done) + 1
          /\ \A i \in 1 .. Len(done) : done'[i] = done[i]
          /\ done'[Len(done) + 1] = r
      BY <2>1, <2>2, HistoryKept
    <3>2. n = Len(done)
      BY <1>4
    <3> QED BY <1>4, <2>1, <3>1, <3>2
  <2>4. mode' = IF err = "terminate" THEN "ended" ELSE IF err = "error" THEN "prompt" ELSE "script"
    BY <1>1, <1>2, <1>3, <1>7, ReturnsEffect
  <2>5. CASE err = "ok"
    <3>1. mode' = "script" /\ rest' = Tail(rest)
      BY <1>1, <2>4, <2>5
    <3>2. Passed' = n + 1 /\ Len(rest') = Len(rest) - 1
      BY <1>1, <1>3, <1>4, <3>1 DEF Passed
    <3>3. \A i \in 1 .. Len(rest') : rest'[i] = all[n + 1 + i]
      <4> TAKE i \in 1 .. Len(rest')
      <4>1. rest'[i] = rest[i + 1] /\ i + 1 \in 1 .. Len(rest)
        BY <1>3, <3>1
      <4>2. n + 1 + i = n + (i + 1)
        BY <1>2, <1>3, <3>2
      <4> QED BY <1>4, <4>1, <4>2
    <3>4. Place'
      BY <1>1, <1>2, <2>3, <3>1, <3>2, <3>3 DEF Place
    <3>5. \A i \in 1 .. n + 1 : done'[i].stmt = all[i] /\ done'[i].err = "ok"
      <4> TAKE i \in 1 .. n + 1
      <4>1. i \in 1 .. n \/ i = n + 1
        BY <1>2
      <4> QED BY <1>5, <2>3, <2>5, <4>1
    <3>6. Len(all') - Len(rest') = n + 1
      BY <3>2 DEF Passed
    <3>7. ScriptInOrder'
      BY <1>1, <2>3, <3>1, <3>5, <3>6 DEF ScriptInOrder
    <3> QED BY <3>4, <3>7
  <2>6. CASE err # "ok"
    <3>1. rest' = rest /\ mode' # "script" /\ (mode' = "prompt" => err = "error")
      BY <1>1, <2>4, <2>6
    <3>2. Passed' = n /\ Len(all') - Len(rest') = n
      BY <1>1, <1>4, <3>1 DEF Passed
    <3>3. Place'
      BY <1>1, <1>2, <1>4, <2>3, <3>1, <3>2 DEF Place
    <3>4. ScriptInOrder'
      BY <1>1, <2>3, <3>1, <3>2 DEF ScriptInOrder, stmt
    <3> QED BY <3>3, <3>4
  <2> QED BY <2>5, <2>6
<1> QED
  <2>1. variables \in Seq(Variable)
    BY <1>2 DEF TypeOK
  <2> QED BY <1>1, <1>3, <1>6, <1>7, <2>1, ExecuteEffect

\* So does a statement that is typed.
LEMMA PromptKeepsOrder ==
    ASSUME OrderInv, NEW line \in Typed, Prompt(line)
    PROVE  Place' /\ ScriptInOrder'
<1> DEFINE stmt == StatementOf(line)
           n == Passed
<1>1. mode = "prompt" /\ Execute(stmt) /\ rest' = rest /\ all' = all /\ stmt \in Seq(Arg)
  BY StatementType, ScriptAssumption DEF Prompt
<1>2. TypeOK /\ all \in Seq(Seq(Arg)) /\ n \in Nat
  BY DEF OrderInv, Place
<1>3. /\ n <= Len(done) /\ n = Len(all) - Len(rest)
      /\ rest # <<>> => n + 1 <= Len(done)
      /\ \A i \in 1 .. Len(rest) : rest[i] = all[n + i]
      /\ \A i \in 1 .. n : done[i].stmt = all[i] /\ done[i].err = "ok"
      /\ rest # <<>> => done[n + 1].stmt = Head(rest) /\ done[n + 1].err = "error"
  BY <1>1, <1>2 DEF OrderInv, Place, ScriptInOrder, Passed
<1>4. Passed' = n /\ Len(all') - Len(rest') = n
  BY <1>1 DEF Passed
<1> HIDE DEF stmt, n
<1>5. CASE mode' = "crashed" /\ UNCHANGED <<variables, done>>
  <2>1. mode' # "script" /\ mode' # "prompt" /\ done' = done
    BY <1>5
  <2>2. Place'
    BY <1>1, <1>2, <1>3, <1>4, <2>1 DEF Place
  <2>3. ScriptInOrder'
    BY <1>1, <1>3, <1>4, <2>1 DEF ScriptInOrder
  <2> QED BY <2>2, <2>3
<1>6. ASSUME NEW err \in {"ok", "error", "terminate"}, Returns(stmt, err)
      PROVE  Place' /\ ScriptInOrder'
  <2>1. PICK r \in Ran : done' = Append(done, r)
    BY <1>1, <1>2, <1>6, ReturnsEffect
  <2>2. done \in Seq(Ran) /\ mode' # "script"
    BY <1>1, <1>2, <1>6, ReturnsEffect
  <2>3. /\ Len(done) \in Nat /\ Len(done') = Len(done) + 1
        /\ \A i \in 1 .. Len(done) : done'[i] = done[i]
    BY <2>1, <2>2, HistoryKept
  <2>4. Place'
    BY <1>1, <1>2, <1>3, <1>4, <2>2, <2>3 DEF Place
  <2>5. \A i \in 1 .. n : i \in 1 .. Len(done)
    BY <1>2, <1>3, <2>3
  <2>6. rest # <<>> => n + 1 \in 1 .. Len(done)
    BY <1>2, <1>3, <2>3
  <2>7. ScriptInOrder'
    BY <1>1, <1>3, <1>4, <2>2, <2>3, <2>5, <2>6 DEF ScriptInOrder
  <2> QED BY <2>4, <2>7
<1> QED
  <2>1. variables \in Seq(Variable)
    BY <1>2 DEF TypeOK
  <2> QED BY <1>1, <1>5, <1>6, <2>1, ExecuteEffect

(* Every step keeps the order. *)
LEMMA OrderKept == OrderInv /\ [Next]_vars => OrderInv'
<1> SUFFICES ASSUME OrderInv, [Next]_vars PROVE OrderInv'
  OBVIOUS
<1>1. TypeOK'
  BY TypesKept DEF OrderInv
<1>2. CASE RunScript
  BY <1>1, <1>2, RunScriptKeepsOrder DEF OrderInv
<1>3. CASE ScriptDone
  <2>1. rest = <<>> /\ rest' = rest /\ all' = all /\ done' = done /\ mode' = "prompt"
    BY <1>3 DEF ScriptDone
  <2>2. Place /\ ScriptInOrder
    BY DEF OrderInv
  <2>3. Place'
    BY <2>1, <2>2 DEF Place, Passed
  <2>4. ScriptInOrder'
    BY <2>1, <2>2 DEF ScriptInOrder
  <2> QED BY <1>1, <2>3, <2>4 DEF OrderInv
<1>4. CASE \E line \in Typed : Prompt(line)
  BY <1>1, <1>4, PromptKeepsOrder DEF OrderInv
<1>5. CASE UNCHANGED vars \/ \E line \in Typed : PromptFaults(line)
  <2>1. rest' = rest /\ all' = all /\ done' = done /\ mode' \in {mode, "crashed"}
    BY <1>5 DEF vars, PromptFaults
  <2>2. Place /\ ScriptInOrder
    BY DEF OrderInv
  <2>3. Place'
    BY <2>1, <2>2 DEF Place, Passed
  <2>4. ScriptInOrder'
    BY <2>1, <2>2 DEF ScriptInOrder
  <2> QED BY <1>1, <2>3, <2>4 DEF OrderInv
<1> QED
  BY <1>2, <1>3, <1>4, <1>5 DEF Next

(* Every script runs its statements in their order, each once and only after all  *)
(* before it succeeded; the prompt comes after the last one or after the one that *)
(* failed, which is the next in the history, and after no exit                    *)
(* (shell_script_execute, shell_do).                                              *)
THEOREM StatementsInOrder == Spec => []ScriptInOrder
<1>1. Init => OrderInv
  BY OrderFirst
<1>2. OrderInv /\ [Next]_vars => OrderInv'
  BY OrderKept
<1>3. OrderInv => ScriptInOrder
  BY DEF OrderInv
<1> QED
  BY <1>1, <1>2, <1>3, PTL DEF Spec

-----------------------------------------------------------------------------
(* Values.                                                                  *)

\* The map after a statement of the history.
Next1(map, r) == After(map, Expanded(map, r.stmt))

\* Meaning, of a map to begin with and a history.
MeaningOf(given, s) ==
    LET Meaning1[n \in 0 .. Len(s)] ==
            IF n = 0 THEN given ELSE After(Meaning1[n - 1], Expanded(Meaning1[n - 1], s[n].stmt))
    IN  Meaning1

(* Meaning is what the environment and the history mean, before a step and after. *)
LEMMA MeaningIs ==
    /\ Meaning = MeaningOf(Given, done)
    /\ Meaning' = MeaningOf(Given', done')
BY DEF Meaning, MeaningOf

\* The map follows the history one statement at a time.
LEMMA MeaningFacts ==
    ASSUME NEW given, NEW s \in Seq(Ran)
    PROVE  /\ MeaningOf(given, s)[0] = given
           /\ \A n \in 1 .. Len(s) :
                  MeaningOf(given, s)[n] = Next1(MeaningOf(given, s)[n - 1], s[n])
<1> DEFINE l == Len(s)
           Is(g, k) == g = [n \in 0 .. k |-> IF n = 0 THEN given ELSE Next1(g[n - 1], s[n])]
           T == {k \in Nat : \E g : Is(g, k)}
           M == CHOOSE g : Is(g, l)
<1>1. l \in Nat
  OBVIOUS
<1>2. 0 \in T
  <2>1. Is([n \in 0 .. 0 |-> given], 0)
    OBVIOUS
  <2> HIDE DEF Is
  <2> QED BY <2>1
<1>3. ASSUME NEW k \in 0 .. l - 1, k \in T PROVE k + 1 \in T
  <2>1. PICK g : Is(g, k)
    BY <1>3
  <2> DEFINE h == [n \in 0 .. k + 1 |-> IF n = k + 1 THEN Next1(g[k], s[k + 1]) ELSE g[n]]
  <2>2. ASSUME NEW n \in 0 .. k + 1
        PROVE  h[n] = IF n = 0 THEN given ELSE Next1(h[n - 1], s[n])
    <3>1. CASE n = k + 1
      <4>1. h[n] = Next1(g[k], s[k + 1]) /\ h[n - 1] = g[k] /\ n # 0
        BY <3>1
      <4> QED BY <3>1, <4>1
    <3>2. CASE n # k + 1
      <4>1. n \in 0 .. k /\ h[n] = g[n] /\ (n # 0 => h[n - 1] = g[n - 1])
        BY <3>2
      <4>2. g[n] = IF n = 0 THEN given ELSE Next1(g[n - 1], s[n])
        BY <2>1, <4>1
      <4> HIDE DEF h
      <4> QED BY <4>1, <4>2
    <3> QED BY <3>1, <3>2
  <2>3. h = [n \in 0 .. k + 1 |-> h[n]]
    OBVIOUS
  <2>4. Is(h, k + 1)
    <3> HIDE DEF h
    <3> QED BY <2>2, <2>3
  <2> HIDE DEF h, Is
  <2> QED BY <2>4
<1>4. l \in T
  <2> HIDE DEF T, l
  <2>1. 0 .. l \subseteq T
    BY <1>1, <1>2, <1>3, UpTo
  <2> QED BY <1>1, <2>1
<1>5. Is(M, l)
  <2> HIDE DEF Is
  <2> QED BY <1>4
<1>6. M = MeaningOf(given, s)
  BY DEF MeaningOf, Next1
<1>7. M[0] = given /\ \A n \in 1 .. l : M[n] = Next1(M[n - 1], s[n])
  <2> HIDE DEF M
  <2> QED BY <1>1, <1>5
<1> HIDE DEF M
<1> QED
  BY <1>6, <1>7

\* A statement more in the history changes no map before it.
LEMMA MeaningGrows ==
    ASSUME NEW given, NEW s \in Seq(Ran), NEW r \in Ran
    PROVE  /\ \A n \in 0 .. Len(s) : MeaningOf(given, Append(s, r))[n] = MeaningOf(given, s)[n]
           /\ MeaningOf(given, Append(s, r))[Len(s) + 1] = Next1(MeaningOf(given, s)[Len(s)], r)
<1> DEFINE t == Append(s, r)
           M == MeaningOf(given, s)
           N == MeaningOf(given, t)
           l == Len(s)
           T == {n \in 0 .. l : N[n] = M[n]}
<1>1. /\ t \in Seq(Ran) /\ Len(t) = l + 1 /\ l \in Nat
      /\ \A i \in 1 .. l : t[i] = s[i]
      /\ t[l + 1] = r
  BY HistoryKept
<1>2. /\ M[0] = given /\ N[0] = given
      /\ \A n \in 1 .. l : M[n] = Next1(M[n - 1], s[n])
      /\ \A n \in 1 .. l + 1 : N[n] = Next1(N[n - 1], t[n])
  <2> HIDE DEF t
  <2>1. /\ N[0] = given
        /\ \A n \in 1 .. Len(t) : N[n] = Next1(N[n - 1], t[n])
    BY <1>1, MeaningFacts
  <2> QED BY <1>1, <2>1, MeaningFacts
<1> HIDE DEF t, M, N, l
<1>3. 0 \in T
  BY <1>1, <1>2
<1>4. ASSUME NEW n \in 0 .. l - 1, n \in T PROVE n + 1 \in T
  <2>1. n + 1 \in 1 .. l /\ n + 1 \in 1 .. l + 1 /\ (n + 1) - 1 = n
    BY <1>1
  <2>2. M[n + 1] = Next1(M[n], s[n + 1]) /\ N[n + 1] = Next1(N[n], t[n + 1]) /\ N[n] = M[n]
    BY <1>2, <1>4, <2>1
  <2> QED BY <1>1, <2>1, <2>2
<1>5. 0 .. l \subseteq T
  <2> HIDE DEF T
  <2> QED BY <1>1, <1>3, <1>4, UpTo
<1>6. \A n \in 0 .. l : N[n] = M[n]
  BY <1>5
<1>7. N[l + 1] = Next1(M[l], r)
  <2>1. l + 1 \in 1 .. l + 1 /\ (l + 1) - 1 = l /\ l \in 0 .. l
    BY <1>1
  <2>2. N[l + 1] = Next1(N[l], r) /\ N[l] = M[l]
    BY <1>1, <1>2, <1>6, <2>1
  <2> QED BY <2>2
<1> QED
  BY <1>6, <1>7 DEF t, M, N, l

(* What the list of the environment yields is the environment, the last entry of a *)
(* name before the others.                                                          *)
LEMMA GivenFirst ==
    ASSUME Init
    PROVE  BindingsOf(variables) = Given
<1> DEFINE l == Len(env)
           Entries(n) == {i \in DOMAIN env : env[i][1] = n}
           Last0(n) == CHOOSE i \in Entries(n) : \A j \in Entries(n) : j <= i
           B == BindingsOf(variables)
<1>1. /\ l \in Nat /\ DOMAIN env = 1 .. l
      /\ \A i \in 1 .. l : Parsed(env[i]) \in Variable /\ Parsed(env[i]).symbol = env[i][1]
      /\ variables \in Seq(Variable) /\ Len(variables) = l
      /\ \A i \in 1 .. l : variables[i] = Parsed(env[(l - i) + 1])
  BY EnvironmentFacts DEF Init
<1>2. Given = [n \in {env[i][1] : i \in DOMAIN env} |-> Parsed(env[Last0(n)]).value]
  BY DEF Given
<1> HIDE DEF l
<1>3. \A i \in 1 .. l : (l - i) + 1 \in 1 .. l /\ (l - ((l - i) + 1)) + 1 = i
  BY <1>1
<1>4. \A i \in 1 .. l : variables[i].symbol = env[(l - i) + 1][1]
  BY <1>1, <1>3
<1>5. ASSUME NEW n
      PROVE  n \in DOMAIN B <=> \E i \in 1 .. l : env[i][1] = n
  <2>1. n \in DOMAIN B <=> \E i \in 1 .. l : variables[i].symbol = n
    BY <1>1, BindingsDomain
  <2>2. ASSUME NEW i \in 1 .. l, env[i][1] = n PROVE \E j \in 1 .. l : variables[j].symbol = n
    <3>1. (l - i) + 1 \in 1 .. l /\ variables[(l - i) + 1].symbol = env[i][1]
      BY <1>3, <1>4
    <3> QED BY <2>2, <3>1
  <2> HIDE DEF B
  <2> QED BY <1>3, <1>4, <2>1, <2>2
<1>6. ASSUME NEW n \in DOMAIN B
      PROVE  B[n] = Parsed(env[Last0(n)]).value
  <2>1. Entries(n) \in SUBSET (0 .. l) /\ Entries(n) # {}
    BY <1>1, <1>5
  <2>2. \E i \in Entries(n) : \A j \in Entries(n) : j <= i
    <3> HIDE DEF Entries
    <3> QED BY <1>1, <2>1, GreatestNatural
  <2> DEFINE k == Last0(n)
             at == (l - k) + 1
  <2>3. k \in Entries(n) /\ \A j \in Entries(n) : j <= k
    <3> HIDE DEF Entries
    <3> QED BY <2>2
  <2> HIDE DEF k
  <2>4. k \in 1 .. l /\ env[k][1] = n
    BY <1>1, <2>3
  <2>5. at \in 1 .. l /\ variables[at].symbol = n /\ variables[at] = Parsed(env[k])
    BY <1>1, <1>3, <1>4, <2>4
  <2>6. ASSUME NEW i \in 1 .. l, variables[i].symbol = n PROVE at <= i
    <3>1. (l - i) + 1 \in Entries(n)
      BY <1>1, <1>3, <1>4, <2>6
    <3>2. (l - i) + 1 <= k
      BY <2>3, <3>1
    <3> QED BY <1>1, <2>4, <3>2
  <2>7. FindIn(variables, n) = at
    <3> HIDE DEF at
    <3> QED BY <1>1, <2>5, <2>6, FoundIs
  <2>8. B[n] = variables[at].value
    <3> HIDE DEF at
    <3> QED BY <1>1, <2>7, BindingsDomain
  <2> QED BY <2>5, <2>8 DEF k
<1>7. B = [n \in DOMAIN B |-> B[n]]
  BY DEF BindingsOf
<1>8. DOMAIN B = {env[i][1] : i \in DOMAIN env}
  <2> HIDE DEF B
  <2> QED BY <1>1, <1>5
<1> HIDE DEF B, Last0
<1>9. B = Given
  BY <1>2, <1>6, <1>7, <1>8
<1> QED
  BY <1>9 DEF B

(* Bindings are those of the list, before a step and after. *)
LEMMA BindingsIs ==
    /\ Bindings = BindingsOf(variables)
    /\ Bindings' = BindingsOf(variables')
<1>1. Bindings = BindingsOf(variables)
  BY DEF Bindings, BindingsOf, Find, FindIn
<1>2. \A n : Find(n)' = FindIn(variables', n)
  BY DEF Find, FindIn, SelectInSeq
<1>3. Bindings' = BindingsOf(variables')
  BY <1>2 DEF Bindings, BindingsOf
<1> QED
  BY <1>1, <1>3

\* ArgumentsAsWritten, of a map, a history and a list.
WrittenIn(given, s, list) ==
    /\ \A n \in 1 .. Len(s) : s[n].argv = Expanded(MeaningOf(given, s)[n - 1], s[n].stmt)
    /\ BindingsOf(list) = MeaningOf(given, s)[Len(s)]

\* It is said of the state before a step and of the one after.
LEMMA WrittenIs ==
    ASSUME TypeOK, TypeOK'
    PROVE  /\ ArgumentsAsWritten <=> WrittenIn(Given, done, variables)
           /\ ArgumentsAsWritten' <=> WrittenIn(Given', done', variables')
<1>1. DOMAIN done = 1 .. Len(done) /\ DOMAIN done' = 1 .. Len(done')
  <2>1. done \in Seq(Ran) /\ done' \in Seq(Ran)
    BY DEF TypeOK, Ran
  <2> QED BY <2>1
<1>2. ArgumentsAsWritten <=> WrittenIn(Given, done, variables)
  BY <1>1, MeaningIs, BindingsIs DEF ArgumentsAsWritten, WrittenIn
<1>3. ArgumentsAsWritten' <=> WrittenIn(Given', done', variables')
  BY <1>1, MeaningIs, BindingsIs DEF ArgumentsAsWritten, WrittenIn
<1> QED
  BY <1>2, <1>3

(* The list the process starts with yields its environment. *)
LEMMA ValuesFirst == Init => ArgumentsAsWritten
<1> SUFFICES ASSUME Init PROVE ArgumentsAsWritten
  OBVIOUS
<1>1. done = <<>> /\ Len(done) = 0 /\ DOMAIN done = {}
  BY DEF Init
<1>2. done \in Seq(Ran)
  BY <1>1
<1>3. Meaning[0] = Given
  BY <1>2, MeaningIs, MeaningFacts
<1> QED
  BY <1>1, <1>3, GivenFirst, BindingsIs DEF ArgumentsAsWritten

\* A statement that is executed keeps the values.
LEMMA ExecuteKeepsValues ==
    ASSUME TypeOK, TypeOK', ArgumentsAsWritten, UNCHANGED env,
           NEW stmt \in Seq(Arg), Execute(stmt)
    PROVE  ArgumentsAsWritten'
<1> DEFINE M == MeaningOf(Given, done)
           N == MeaningOf(Given, done')
           l == Len(done)
<1>1. variables \in Seq(Variable) /\ done \in Seq(Ran)
  BY DEF TypeOK, Ran
<1>2. Given' = Given
  BY DEF Given
<1>3. WrittenIn(Given, done, variables)
  BY WrittenIs
<1>4. CASE mode' = "crashed" /\ UNCHANGED <<variables, done>>
  <2>1. WrittenIn(Given', done', variables')
    BY <1>2, <1>3, <1>4
  <2> QED BY <2>1, WrittenIs
<1>5. ASSUME BindingsOf(variables') = After(BindingsOf(variables), Resolved(stmt)),
             NEW err \in {"ok", "error", "terminate"}, Returns(stmt, err)
      PROVE  ArgumentsAsWritten'
  <2>1. PICK r \in Ran : /\ r.stmt = stmt /\ r.argv = Resolved(stmt)
                         /\ done' = Append(done, r)
    BY <1>5, ReturnsEffect
  <2>2. /\ Len(done') = l + 1 /\ l \in Nat
        /\ \A i \in 1 .. l : done'[i] = done[i]
        /\ done'[l + 1] = r
    BY <1>1, <2>1, HistoryKept
  <2>3. /\ \A n \in 0 .. l : N[n] = M[n]
        /\ N[l + 1] = Next1(M[l], r)
    BY <1>1, <2>1, MeaningGrows
  <2>4. /\ \A n \in 1 .. l : done[n].argv = Expanded(M[n - 1], done[n].stmt)
        /\ BindingsOf(variables) = M[l]
    BY <1>3 DEF WrittenIn
  <2>5. Resolved(stmt) = Expanded(M[l], stmt)
    BY <1>1, <2>4, ResolvedIsExpanded
  <2>6. BindingsOf(variables') = N[l + 1]
    BY <1>5, <2>1, <2>3, <2>4, <2>5 DEF Next1
  <2> HIDE DEF M, N, l
  <2>7. ASSUME NEW n \in 1 .. l + 1 PROVE done'[n].argv = Expanded(N[n - 1], done'[n].stmt)
    <3>1. n - 1 \in 0 .. l /\ N[n - 1] = M[n - 1]
      BY <2>2, <2>3
    <3>2. CASE n = l + 1
      <4>1. n - 1 = l
        BY <2>2, <3>2
      <4> QED BY <2>1, <2>2, <2>5, <3>1, <3>2, <4>1
    <3>3. CASE n # l + 1
      <4>1. n \in 1 .. l
        BY <2>2, <3>3
      <4> QED BY <2>2, <2>4, <3>1, <4>1
    <3> QED BY <3>2, <3>3
  <2>8. WrittenIn(Given', done', variables')
    BY <1>2, <2>2, <2>6, <2>7 DEF WrittenIn, N
  <2> QED BY <2>8, WrittenIs
<1> QED
  BY <1>1, <1>4, <1>5, ExecuteEffect

(* Every step keeps the values. *)
LEMMA ValuesKept == TypeOK /\ ArgumentsAsWritten /\ [Next]_vars => ArgumentsAsWritten'
<1> SUFFICES ASSUME TypeOK, ArgumentsAsWritten, [Next]_vars PROVE ArgumentsAsWritten'
  OBVIOUS
<1>1. TypeOK'
  BY TypesKept
<1>2. ASSUME UNCHANGED <<variables, env, done>> PROVE ArgumentsAsWritten'
  <2>1. Given' = Given
    BY <1>2 DEF Given
  <2>2. WrittenIn(Given', done', variables')
    BY <1>1, <1>2, <2>1, WrittenIs
  <2> QED BY <1>1, <2>2, WrittenIs
<1>3. CASE RunScript
  <2>1. Head(rest) \in Seq(Arg)
    BY <1>3, RestType DEF RunScript
  <2> QED BY <1>1, <1>3, <2>1, ExecuteKeepsValues DEF RunScript
<1>4. CASE ScriptDone
  BY <1>2, <1>4 DEF ScriptDone
<1>5. CASE \E line \in Typed : Prompt(line)
  <2>1. PICK line \in Typed : Prompt(line)
    BY <1>5
  <2>2. StatementOf(line) \in Seq(Arg)
    BY <2>1, StatementType, ScriptAssumption DEF Prompt
  <2> QED BY <1>1, <2>1, <2>2, ExecuteKeepsValues DEF Prompt
<1>6. CASE UNCHANGED vars \/ \E line \in Typed : PromptFaults(line)
  BY <1>2, <1>6 DEF vars, PromptFaults
<1> QED
  BY <1>3, <1>4, <1>5, <1>6 DEF Next

(* Every statement ran with what its references meant when its turn came, each put *)
(* in once, and the list of variables, with the names that are twice in it, always *)
(* yields what the environment and the set and setu that ran left                  *)
(* (construct_variables_from_environment, shell_statement_resolve, shell_set,      *)
(* shell_setu).                                                                    *)
THEOREM ValuesAsWritten == Spec => []ArgumentsAsWritten
<1>1. Init => TypeOK /\ ArgumentsAsWritten
  BY TypesFirst, ValuesFirst
<1>2. (TypeOK /\ ArgumentsAsWritten) /\ [Next]_vars => (TypeOK /\ ArgumentsAsWritten)'
  BY TypesKept, ValuesKept
<1> QED
  BY <1>1, <1>2, PTL DEF Spec

================================================================================
