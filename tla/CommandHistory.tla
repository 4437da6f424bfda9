--------------------------- MODULE CommandHistory ---------------------------
(***************************************************************************)
(* The commands entered so far and the cursor that Up, Down, PgUp and PgDn *)
(* move through them (src/src/cmdEx/command_history.cc).  A command is a   *)
(* sequence of characters; a search is for the commands that begin with a  *)
(* prefix, and every command begins with the empty one.                    *)
(*                                                                         *)
(* Indices follow the code: position is 0-based, so commands[i + 1] is     *)
(* the code's commands_[i].                                                *)
(***************************************************************************)
EXTENDS Integers, Sequences, SequencesExt

CONSTANTS Lines,         \* the commands and prefixes there are
          HistoryFiles,  \* what ReadHistoryFile may return when the DLL loads
          MaxCommands    \* bound on the length of the list

ASSUME HistoryAssumption ==
    /\ <<>> \in Lines
    /\ HistoryFiles \subseteq Seq(Lines)
    /\ MaxCommands \in Nat

VARIABLES commands,      \* commands_
          position       \* position_

vars == <<commands, position>>

Size == Len(commands)

TypeOK == /\ commands \in Seq(Lines)
          /\ position \in 0 .. Size

-----------------------------------------------------------------------------

\* OnAttach: a new history is populated from the history file.
Populate == /\ commands \in HistoryFiles
            /\ position = Size

\* Variants of definitions, each with a plausible mistake, stand before the
\* definition they vary.  No action uses them; they show which property
\* notices the mistake.

AddCommand(command) ==
    /\ Size < MaxCommands
    /\ commands' = Append(commands, command)
    /\ position' = Len(commands')

\* Variants: stuck at the older end; stuck at either end.
WrapHalf(i) == IF i < 0 THEN 0 ELSE IF i >= Size THEN 0 ELSE i
Clamp(i) == IF i < 0 THEN 0 ELSE IF i >= Size THEN Size - 1 ELSE i

\* The cursor after one step, wrapped around at either end.
Wrap(i) == IF i < 0 THEN Size - 1 ELSE IF i >= Size THEN 0 ELSE i

Original == position % Size

\* Variant: the search begins at the command that is already shown.
ProbeFromHere(direction, k) == (Wrap(position) + direction * (k - 1)) % Size

\* The k-th index (from 1) that the loop of MoveInHistory looks at.
Probe(direction, k) == (Wrap(position + direction) + direction * (k - 1)) % Size

Matches(i, prefix) == IsPrefix(prefix, commands[i + 1])

\* The loop ends at the first probe that matches or is where it started.
Ends(direction, prefix, k) ==
    Matches(Probe(direction, k), prefix) \/ Probe(direction, k) = Original

IsLanding(direction, prefix, i) ==
    \E k \in 1 .. Size :
        /\ Ends(direction, prefix, k)
        /\ \A j \in 1 .. k - 1 : ~Ends(direction, prefix, j)
        /\ i = Probe(direction, k)

Landing(direction, prefix) ==
    CHOOSE i \in 0 .. Size - 1 : IsLanding(direction, prefix, i)

\* What MoveInHistory returns, and the command it stores in *result.
Found(direction, prefix) ==
    commands # <<>> /\ Matches(Landing(direction, prefix), prefix)

Result(direction, prefix) == commands[Landing(direction, prefix) + 1]

MoveInHistory(direction, prefix) ==
    /\ commands # <<>>
    /\ position' = Landing(direction, prefix)
    /\ UNCHANGED commands

Init == Populate

Next == \/ \E c \in Lines \ {<<>>} : AddCommand(c)
        \/ \E direction \in {-1, 1}, prefix \in Lines :
               MoveInHistory(direction, prefix)

Spec == Init /\ [][Next]_vars

-----------------------------------------------------------------------------
(* Properties *)

Matching(prefix) == {i \in 0 .. Size - 1 : Matches(i, prefix)}

\* The nearest match on the older side of the cursor, else the newest one.
NearestOlder(prefix) ==
    LET older == {i \in Matching(prefix) : i < position}
    IN  Max(IF older # {} THEN older ELSE Matching(prefix))

NearestNewer(prefix) ==
    LET newer == {i \in Matching(prefix) : i > position}
    IN  Min(IF newer # {} THEN newer ELSE Matching(prefix))

\* PgUp, from any position and for any prefix, finds a match if there is one,
\* and of the matches the nearest older one.
BackwardFindsNearest ==
    \A prefix \in Lines :
        Matching(prefix) # {} => /\ Found(-1, prefix)
                                 /\ Landing(-1, prefix) = NearestOlder(prefix)

\* The same of PgDown, once the cursor is on a command.
ForwardFindsNearest ==
    position < Size =>
        \A prefix \in Lines :
            Matching(prefix) # {} =>
                /\ Found(1, prefix)
                /\ Landing(1, prefix) = NearestNewer(prefix)

\* From one past the newest command, which the loop takes for the place of the
\* oldest, PgDown ends at the oldest, and finds nothing else.
ForwardFromNewPrompt ==
    commands # <<>> /\ position = Size =>
        \A prefix \in Lines :
            /\ Landing(1, prefix) = 0
            /\ Found(1, prefix) <=> 0 \in Matching(prefix)

\* What the loop over the list, with its remainder and its two ends, comes to in
\* either direction, from every place of the cursor.
SearchFindsNearest ==
    BackwardFindsNearest /\ ForwardFindsNearest /\ ForwardFromNewPrompt

\* Pressing one of the keys over and over comes past every match again and
\* again: the cursor gets stuck nowhere, and skips nothing.
KeepsSearching(direction, prefix) ==
    /\ <>[][MoveInHistory(direction, prefix)]_vars
    /\ WF_vars(MoveInHistory(direction, prefix))

SearchCyclesThroughMatches ==
    \A direction \in {-1, 1}, prefix \in Lines :
        KeepsSearching(direction, prefix) =>
            \A i \in 0 .. MaxCommands - 1 :
                []<>(i \in Matching(prefix) => position = i)

=============================================================================
