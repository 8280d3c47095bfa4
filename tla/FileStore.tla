------------------------------- MODULE FileStore -------------------------------
(***************************************************************************)
(* What the FAT12 driver promises to who touches, writes and removes files *)
(* of a directory: a command changes the file it names and no other, and   *)
(* a process that stops in the middle of one leaves that file as far as    *)
(* the command had got.  Fat12, with its tables, entries and clusters,     *)
(* refines this specification.                                             *)
(*                                                                         *)
(* Two things callers would not expect are part of the promise: a name may *)
(* come to have a second file that hides the first, which a removal brings *)
(* to light again, and a process that stops while it gives space back may  *)
(* lose the volume.                                                        *)
(***************************************************************************)
EXTENDS Naturals, Sequences, FiniteSetsExt

CONSTANTS
    Names,      \* names as they are stored
    Texts,      \* what is written to files, as sequences of pieces
    Room,       \* entries the directory has room for
    Nothing     \* a piece whose space was given back

VARIABLES
    files,      \* name -> its files, the one that is found at the head
    busy,       \* the command under way
    lost        \* the volume is in pieces

vars == <<files, busy, lost>>

Quiet == [op |-> "none"]

Commands ==
    [op : {"touch", "remove"}, name : Names]
        \cup [op : {"write"}, name : Names, text : Texts]

Init == files = [n \in Names |-> <<>>] /\ busy = Quiet /\ lost = FALSE

-----------------------------------------------------------------------------
Exists(n) == files[n] # <<>>

Full == MapThenSumSet(LAMBDA n : Len(files[n]), Names) = Room

Becomes(n, stack) == files' = [files EXCEPT ![n] = stack]

HeadBecomes(n, text) == Exists(n) /\ Becomes(n, <<text>> \o Tail(files[n]))

-----------------------------------------------------------------------------
Start(command) ==
    /\ busy = Quiet /\ ~lost
    /\ busy' = command
    /\ UNCHANGED <<files, lost>>

\* An empty file, in front of one of that name there may be.
Create(n) == ~Full /\ Becomes(n, <<<<>>>> \o files[n])

NoRoom(n) == Full /\ ~Exists(n) /\ UNCHANGED files

\* A write creates its file first, and puts its pieces one by one over those there.
CreateFirst(n) == busy.op = "write" /\ Create(n) /\ UNCHANGED <<busy, lost>>

Put(n) ==
    /\ busy.op = "write" /\ Exists(n)
    /\ LET old == Head(files[n])
       IN  \E i \in DOMAIN old :
              HeadBecomes(n, [old EXCEPT ![i] = IF i \in DOMAIN busy.text THEN busy.text[i]
                                                ELSE Nothing])
    /\ UNCHANGED <<busy, lost>>

\* A removal, or a write of fewer pieces than there are, gives space back, and the
\* pieces beyond are gone before the file is shorter.
GivesBack(n) ==
    /\ Exists(n)
    /\ \/ busy.op = "remove"
       \/ busy.op = "write" /\ Len(busy.text) < Len(Head(files[n]))

GiveBack(n) ==
    /\ GivesBack(n)
    /\ LET old  == Head(files[n])
           kept == IF busy.op = "write" THEN Len(busy.text) ELSE 0
       IN  \E k \in kept..Len(old) :
              HeadBecomes(n, [i \in DOMAIN old |-> IF i <= k THEN old[i] ELSE Nothing])
    /\ UNCHANGED <<busy, lost>>

\* What a command comes to.
Finish(n) ==
    /\ CASE busy.op = "touch"  -> (Exists(n) /\ UNCHANGED files) \/ Create(n) \/ NoRoom(n)
         [] busy.op = "write"  -> HeadBecomes(n, busy.text) \/ NoRoom(n)
         [] busy.op = "remove" -> IF Exists(n) THEN Becomes(n, Tail(files[n])) ELSE UNCHANGED files
    /\ busy' = Quiet
    /\ UNCHANGED lost

\* The process ends.
Stop ==
    /\ busy # Quiet
    /\ busy' = Quiet
    /\ lost' \in {FALSE, GivesBack(busy.name)}
    /\ UNCHANGED files

Reinitialise ==
    /\ lost
    /\ files' = [n \in Names |-> <<>>]
    /\ lost' = FALSE
    /\ UNCHANGED busy

Next ==
    \/ \E command \in Commands : Start(command)
    \/ /\ busy # Quiet
       /\ LET n == busy.name IN CreateFirst(n) \/ Put(n) \/ GiveBack(n) \/ Finish(n)
    \/ Stop
    \/ Reinitialise

Spec == Init /\ [][Next]_vars
================================================================================
