----------------------------- MODULE HistoryFile -----------------------------
(***************************************************************************)
(* The file that commands outlive the shell in (src/src/cmdEx_dll_x64_dll/ *)
(* dll.cc: ReadHistoryFile when a shell starts, WriteHistoryFile when it   *)
(* exits).  Any number of shells share the file, nothing locks it, and a   *)
(* shell may be killed at any time.                                        *)
(*                                                                         *)
(* A command is a sequence of characters; a pasted one may hold newlines.  *)
(* The C library reads and writes the file in blocks.                      *)
(***************************************************************************)
EXTENDS Integers, Sequences, SequencesExt, FiniteSetsExt

CONSTANTS Shells,        \* each lives once
          Commands,      \* what may be entered
          Newline,
          Nul,           \* what fills a gap in a file
          BlockSize,     \* characters the C library reads or writes at a time
          MaxSaved,      \* 1000 in the code
          MaxCommands    \* bound on the length of one shell's history

Chars == (UNION {ToSet(c) : c \in Commands}) \cup {Newline}

ASSUME HistoryFileAssumption ==
    /\ Commands \subseteq Seq(Chars) \ {<<>>}
    /\ Nul \notin Chars
    /\ BlockSize \in Nat \ {0} /\ MaxSaved \in Nat \ {0} /\ MaxCommands \in Nat

VARIABLES
    file,        \* what is on disk
    phase,       \* "none", "reading", "running", "saving", "gone" or "failed"
    commands,    \* g_command_history's commands_
    stream,      \* what was read from the file, or is to be written to it
    offset,      \* how far
    saved,       \* history variable: the commands last begun to be saved
    torn,        \* history variable: that save may not be what is read
    mixed,       \* history variable: a save began in another's file
    entered      \* history variable: every line of every command entered

vars == <<file, phase, commands, stream, offset, saved, torn, mixed, entered>>

TypeOK ==
    /\ file \in Seq(Chars \cup {Nul})
    /\ phase \in [Shells -> {"none", "reading", "running", "saving", "gone", "failed"}]
    /\ commands \in [Shells -> Seq(Seq(Chars))]
    /\ stream \in [Shells -> Seq(Chars \cup {Nul})]
    /\ offset \in [Shells -> Nat]
    /\ \A s \in Shells : offset[s] <= Len(stream[s])
    /\ saved \in Seq(Seq(Chars))
    /\ torn \in BOOLEAN /\ mixed \in BOOLEAN
    /\ entered \subseteq Seq(Chars \ {Newline})

Init ==
    /\ file = <<>>
    /\ phase = [s \in Shells |-> "none"]
    /\ commands = [s \in Shells |-> <<>>]
    /\ stream = [s \in Shells |-> <<>>]
    /\ offset = [s \in Shells |-> 0]
    /\ saved = <<>>
    /\ torn = FALSE /\ mixed = FALSE
    /\ entered = {}

Go(s, p) == phase' = [phase EXCEPT ![s] = p]

Busy(s) == \E t \in Shells \ {s} : phase[t] \in {"reading", "saving"}

-----------------------------------------------------------------------------
(* The format: every command is followed by a newline *)

\* Variants of definitions, each with a plausible mistake, stand before the
\* definition they vary; nothing uses them, and they show which property
\* notices the mistake.  This one puts newlines only between commands.
EncodedBetween(cs) ==
    FlattenSeq([i \in DOMAIN cs |-> IF i = 1 THEN cs[i] ELSE <<Newline>> \o cs[i]])

Encoded(cs) == FlattenSeq([i \in DOMAIN cs |-> Append(cs[i], Newline)])

\* Variant: the oldest are saved.
WindowOfOldest(cs) == SubSeq(cs, 1, Min({Len(cs), MaxSaved}))

\* The last MaxSaved.
Window(cs) == SubSeq(cs, Max({Len(cs) - MaxSaved, 0}) + 1, Len(cs))

\* A line that begins with a Nul ends the list, and one that holds a Nul is
\* read up to it.
Readable(text) ==
    LET nuls == {i \in DOMAIN text : text[i] = Nul}
    IN  IF nuls = {} THEN text ELSE SubSeq(text, 1, Min(nuls) - 1)

\* The CHECK: every line that is read ends in a newline.
Intact(text) == text = <<>> \/ Last(text) = Newline

\* The lines that are over, and the one that is not, after one more character.
LineStep(st, c) ==
    IF c = Newline
    THEN [lines |-> Append(st.lines, st.rest), rest |-> <<>>]
    ELSE [lines |-> st.lines, rest |-> Append(st.rest, c)]

\* fgetws, until the end of the file.
Splitting(text) ==
    LET at[i \in 0 .. Len(text)] ==
            IF i = 0 THEN [lines |-> <<>>, rest |-> <<>>]
            ELSE LineStep(at[i - 1], text[i])
    IN  at

LinesOf(text) == Splitting(text)[Len(text)].lines

-----------------------------------------------------------------------------
(* A shell starts *)

\* OnAttach, ReadHistoryFile: the file is opened.
Attach(s) ==
    /\ phase[s] = "none"
    /\ Go(s, "reading")
    /\ torn' = (torn \/ \E t \in Shells : phase[t] = "saving")
    /\ UNCHANGED <<file, commands, stream, offset, saved, mixed, entered>>

ReadBlock(s) ==
    /\ phase[s] = "reading"
    /\ offset[s] < Len(file)
    /\ LET to == Min({Len(file), offset[s] + BlockSize})
       IN  /\ stream' = [stream EXCEPT ![s] = @ \o SubSeq(file, offset[s] + 1, to)]
           /\ offset' = [offset EXCEPT ![s] = to]
    /\ UNCHANGED <<file, phase, commands, saved, torn, mixed, entered>>

\* Variant: a last line without a newline is taken for a command.
PopulateUnchecked(s) ==
    /\ phase[s] = "reading"
    /\ offset[s] >= Len(file)
    /\ Go(s, "running")
    /\ commands' = [commands EXCEPT ![s] =
                       LET text == Readable(stream[s])
                       IN  LinesOf(IF Intact(text) THEN text ELSE Append(text, Newline))]
    /\ stream' = [stream EXCEPT ![s] = <<>>]
    /\ offset' = [offset EXCEPT ![s] = 0]
    /\ UNCHANGED <<file, saved, torn, mixed, entered>>

\* At the end of the file the history is populated, or the CHECK fails.
\* (Checking line by line as the code does comes to the same.)
Populate(s) ==
    /\ phase[s] = "reading"
    /\ offset[s] >= Len(file)
    /\ LET text == Readable(stream[s])
       IN  IF Intact(text)
           THEN /\ Go(s, "running")
                /\ commands' = [commands EXCEPT ![s] = LinesOf(text)]
           ELSE Go(s, "failed") /\ UNCHANGED commands
    /\ stream' = [stream EXCEPT ![s] = <<>>]
    /\ offset' = [offset EXCEPT ![s] = 0]
    /\ UNCHANGED <<file, saved, torn, mixed, entered>>

\* The file could not be opened, which is only logged.
AttachWithout(s) ==
    /\ phase[s] = "none"
    /\ Go(s, "running")
    /\ UNCHANGED <<file, commands, stream, offset, saved, torn, mixed, entered>>

-----------------------------------------------------------------------------
(* It runs and exits, or is killed *)

\* AddCommand.
Enter(s, c) ==
    /\ phase[s] = "running"
    /\ Len(commands[s]) < MaxCommands
    /\ commands' = [commands EXCEPT ![s] = Append(@, c)]
    /\ entered' = entered \cup ToSet(LinesOf(Append(c, Newline)))
    /\ UNCHANGED <<file, phase, stream, offset, saved, torn, mixed>>

\* ExitReplacement, WriteHistoryFile: opening the file empties it.
BeginSave(s) ==
    /\ phase[s] = "running"
    /\ Go(s, "saving")
    /\ file' = <<>>
    /\ stream' = [stream EXCEPT ![s] = Encoded(Window(commands[s]))]
    /\ saved' = commands[s]
    /\ torn' = Busy(s)
    /\ mixed' = (mixed \/ Busy(s))
    /\ UNCHANGED <<commands, offset, entered>>

\* What the file holds when text was written to it at an offset.
Written(text, at) ==
    [i \in 1 .. Max({Len(file), at + Len(text)}) |->
        CASE i \in at + 1 .. at + Len(text) -> text[i - at]
          [] i \notin at + 1 .. at + Len(text) /\ i <= Len(file) -> file[i]
          [] OTHER -> Nul]

WriteBlock(s) ==
    /\ phase[s] = "saving"
    /\ offset[s] < Len(stream[s])
    /\ LET to == Min({Len(stream[s]), offset[s] + BlockSize})
       IN  /\ file' = Written(SubSeq(stream[s], offset[s] + 1, to), offset[s])
           /\ offset' = [offset EXCEPT ![s] = to]
    /\ UNCHANGED <<phase, commands, stream, saved, torn, mixed, entered>>

\* The process is over: nothing of it is left but the file.
Over(s) ==
    /\ Go(s, "gone")
    /\ commands' = [commands EXCEPT ![s] = <<>>]
    /\ stream' = [stream EXCEPT ![s] = <<>>]
    /\ offset' = [offset EXCEPT ![s] = 0]

EndSave(s) ==
    /\ phase[s] = "saving"
    /\ offset[s] >= Len(stream[s])
    /\ Over(s)
    /\ UNCHANGED <<file, saved, torn, mixed, entered>>

\* The file could not be opened for writing: the shell exits without saving.
SaveRefused(s) ==
    /\ phase[s] = "running"
    /\ Over(s)
    /\ UNCHANGED <<file, saved, torn, mixed, entered>>

\* The window is closed, the machine crashes.
Kill(s) ==
    /\ phase[s] \in {"reading", "running", "saving"}
    /\ Over(s)
    /\ torn' = (torn \/ phase[s] = "saving")
    /\ UNCHANGED <<file, saved, mixed, entered>>

Next == \E s \in Shells :
            \/ Attach(s) \/ ReadBlock(s) \/ Populate(s) \/ AttachWithout(s)
            \/ \E c \in Commands : Enter(s, c)
            \/ BeginSave(s) \/ WriteBlock(s) \/ EndSave(s)
            \/ SaveRefused(s) \/ Kill(s)

Spec == Init /\ [][Next]_vars

-----------------------------------------------------------------------------
(* Properties *)

\* The next shell has the last commands of the one that saved last, in their
\* order, unless that save was killed or went on beside another's access to
\* the file: then too if earlier saves were.
LoadsWhatWasSaved ==
    [][\A s \in Shells :
          Populate(s) /\ ~torn /\ (\A i \in DOMAIN saved : Newline \notin ToSet(saved[i]))
             => /\ IsSuffix(commands'[s], saved)
                /\ Len(commands'[s]) = Min({Len(saved), MaxSaved})]_vars

\* A shell does not start only if the last save was killed or went on beside
\* another's access to the file.
FailsOnlyTorn ==
    [][\A s \in Shells : phase'[s] = "failed" /\ phase[s] # "failed" => torn]_vars

\* As long as no shell begins to save while another reads or saves, every
\* command in any history is a line that somebody entered: kills, however
\* many, leave at worst a file that is refused.
NothingInvented ==
    ~mixed => \A s \in Shells : \A i \in DOMAIN commands[s] :
                  ToSet(LinesOf(Append(commands[s][i], Newline))) \subseteq entered

=============================================================================
