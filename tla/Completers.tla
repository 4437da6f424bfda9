----------------------------- MODULE Completers -----------------------------
(***************************************************************************)
(* The seven completers (src/src/cmdEx_dll_x64_dll/dll.cc) and how         *)
(* LineEditor::TabComplete (line_editor.cc) asks them: one after another,  *)
(* until one says that it has completed.  Each is given the words of the   *)
(* line, as Windows will see them, and the place of the word at the        *)
(* cursor; its candidates are a set.  What the file system, git, ninja and *)
(* the environment would answer is constant.                               *)
(***************************************************************************)
EXTENDS CompletionLine

CONSTANTS Beginnings,           \* the lines that more is typed to
          MaxLine,              \* bound on the length of the line
          Slash, Dash,          \* characters
          Git, Checkout, Ninja, InDirectory, SetCommand,   \* words: git,
                                \* checkout, ninja, -C, set
          DirectoryCommands,    \* md, rd, cd and their long names
          Porcelain,            \* kGitCommandsPorcelain
          CheckoutArgs,         \* kCheckoutLongArgs
          Refs,                 \* tags, heads and remotes of the repository
          Targets,              \* what ninja -t targets all lists
          Variables,            \* names in the environment block
          Builtins,             \* kCmdBuiltins
          Programs,             \* in PATH: a name and an extension of PATHEXT
          Entries,              \* of directories: where, a name, and which kind
          Folded                \* a character's lower case

-----------------------------------------------------------------------------
(* The line, typed character by character: every line is a state. *)

Init == line \in Beginnings

Type(c) == /\ Len(line) < MaxLine
           /\ line' = Append(line, c)

Next == \E c \in Chars : Type(c)

Spec == Init /\ [][Next]_line

-----------------------------------------------------------------------------
(* CompleterInput *)

\* The words as Windows splits and de-escapes them.
Arguments(l) ==
    LET end == ExecutableEnd(l)
        quoted == l # <<>> /\ l[1] = Quote
        closed == quoted /\ end > 1 /\ l[end] = Quote
    IN  <<SubSeq(l, IF quoted THEN 2 ELSE 1, IF closed THEN end - 1 ELSE end)>>
            \o CommandLineToArgvW(l)

InOrder(ws) == SetToSortSeq(ws, LAMBDA u, v : u.begin < v.begin)

\* deescaped_word: of a word that was merged, that of its parts; of the empty
\* one past the end, nothing.
Deescaped(l, ws, arguments) ==
    LET parsed == InOrder(ParsedWords(l))
        Part(w, i) == IF w.begin <= parsed[i].begin /\ parsed[i].end <= w.end
                      THEN arguments[i] ELSE <<>>
    IN  [k \in DOMAIN ws |->
            FlattenSeq([i \in DOMAIN parsed |-> Part(ws[k], i)])]

\* The words and the place of the one at the cursor.
Input(l, p) ==
    LET ws == InOrder(Words(l))
    IN  [words |-> Deescaped(l, ws, Arguments(l)),
         at |-> CHOOSE k \in DOMAIN ws : ws[k] = WordAt(l, p)]

\* What a completer returns: whether it has completed, and CompleterOutput.
Answer(done, results, space) == [done |-> done, results |-> results, space |-> space]

Declined == Answer(FALSE, {}, TRUE)

IsCommand(in, command) == Len(in.words) > 1 /\ in.words[1] = command

Extending(prefix, candidates) == {c \in candidates : IsPrefix(prefix, c)}

FoldedText(text) == [i \in DOMAIN text |-> Folded[text[i]]]

-----------------------------------------------------------------------------
(* The completers, in the order in which they are registered *)

\* Where -C is, if ninja has one that is followed by something.
Directed(in) ==
    {i \in 2 .. Len(in.words) - 1 :
        in.words[i] = InDirectory /\ \A j \in 2 .. i - 1 : in.words[j] # InDirectory}

\* Variant: the last word is completed, wherever the cursor is.
WordAtEnd(in) == in.words[Len(in.words)]

WordOf(in) == in.words[in.at]

\* The word and the argument of -C are left to the directories.  The last line
\* of ninja's output is empty, and is a target like the others.
NinjaTargetCompleter(in, succeeds) ==
    IF /\ IsCommand(in, Ninja)
       /\ \A i \in Directed(in) : in.at \notin {i, i + 1}
       /\ succeeds
    THEN Answer(TRUE, Extending(WordOf(in), Targets \cup {<<>>}), TRUE)
    ELSE Declined

GitCommandNameCompleter(in) ==
    IF IsCommand(in, Git) /\ in.at = 2
    THEN Answer(TRUE, Extending(in.words[2], Porcelain), TRUE)
    ELSE Declined

\* It looks at the third word, wherever the cursor is.
GitCommandArgCompleter(in, inRepository) ==
    IF /\ IsCommand(in, Git)
       /\ Len(in.words) > 2 /\ in.words[2] = Checkout
    THEN LET args == IF in.words[3] # <<>> /\ in.words[3][1] = Dash
                     THEN Extending(in.words[3], CheckoutArgs) ELSE {}
             refs == IF inRepository THEN Extending(in.words[3], Refs) ELSE {}
             results == IF args # {} THEN args ELSE refs
         IN  Answer(results # {}, results, TRUE)
    ELSE Declined

EnvironmentVariableCompleter(in) ==
    IF IsCommand(in, SetCommand) /\ in.at = 2
    THEN Answer(TRUE,
                {v \in Variables : IsPrefix(FoldedText(in.words[2]), FoldedText(v))},
                FALSE)
    ELSE Declined

\* SearchPathByPrefix.  A file's name is compared with its extension, and
\* offered without.
Found(prefix) ==
    Extending(prefix, Builtins)
      \cup {f.name : f \in {g \in Programs : IsPrefix(prefix, g.name \o g.extension)}}

CommandInPathCompleter(in) ==
    IF in.at = 1 /\ {Slash, Backslash} \cap ToSet(in.words[1]) = {}
    THEN Answer(Found(in.words[1]) # {}, Found(in.words[1]), TRUE)
    ELSE Declined

\* A path up to its last slash, which is what _wsplitpath calls the directory.
DirectoryEnd(path) ==
    CHOOSE n \in 0 .. Len(path) :
        /\ n = 0 \/ path[n] \in {Slash, Backslash}
        /\ \A i \in n + 1 .. Len(path) : path[i] \notin {Slash, Backslash}

NormalizeSlashes(path, commandIsGit) ==
    FlattenSeq([i \in DOMAIN path |->
        CASE path[i] \notin {Slash, Backslash} -> <<path[i]>>
          [] i > 1 /\ path[i - 1] \in {Slash, Backslash} -> <<>>
          [] OTHER -> IF commandIsGit THEN <<Slash>> ELSE <<Backslash>>])

FindFiles(prefix, dirOnly, commandIsGit) ==
    LET end == DirectoryEnd(prefix)
        directory == SubSeq(prefix, 1, end)
        name == SubSeq(prefix, end + 1, Len(prefix))
        Matches(f) == /\ FoldedText(f.directory) = FoldedText(NormalizeSlashes(directory, FALSE))
                      /\ IsPrefix(FoldedText(name), FoldedText(f.name))
                      /\ dirOnly => f.isDirectory
    IN  {NormalizeSlashes(directory, commandIsGit) \o f.name :
            f \in {g \in Entries : Matches(g)}}

DirectoryCompleter(in) ==
    IF in.words[1] \in DirectoryCommands /\ (Len(in.words) = 1 \/ in.at = 2)
    THEN LET results == FindFiles(IF Len(in.words) = 1 THEN <<>> ELSE in.words[2],
                                  TRUE, FALSE)
         IN  Answer(results # {}, results, FALSE)
    ELSE Declined

FilenameCompleter(in) ==
    LET results == FindFiles(WordOf(in), FALSE, in.words[1] = Git)
    IN  Answer(results # {}, results, FALSE)

-----------------------------------------------------------------------------
(* TabComplete *)

Answers(in, ninjaSucceeds, inRepository) ==
    <<NinjaTargetCompleter(in, ninjaSucceeds), GitCommandNameCompleter(in),
      GitCommandArgCompleter(in, inRepository), EnvironmentVariableCompleter(in),
      CommandInPathCompleter(in), DirectoryCompleter(in), FilenameCompleter(in)>>

\* The first that has completed; it may have no candidate, and then no other
\* is asked either.
FirstDone(answers) ==
    LET done == {i \in DOMAIN answers : answers[i].done}
    IN  IF done = {} THEN Declined
        ELSE answers[CHOOSE i \in done : \A j \in done : i <= j]

\* The line when a candidate has taken the place of the word.
Completing(w, c, space) ==
    Replaced(w, QuoteWord(c) \o IF space THEN <<Blank>> ELSE <<>>)

-----------------------------------------------------------------------------
(* Properties *)

\* A candidate goes on from what has been typed of the word it replaces, if one
\* does not tell apart the case and the slashes; but an extension that has been
\* typed may be dropped.
GoesOn(c, word) ==
    LET Path(text) == NormalizeSlashes(FoldedText(text), FALSE)
    IN  \/ IsPrefix(Path(word), Path(c))
        \/ \E f \in Programs : f.name = c /\ IsPrefix(word, c \o f.extension)

\* What the line's words are to be when the one at the cursor becomes c.  The
\* empty word that the cursor was not in is none for Windows.
Changed(l, in, w, c) ==
    LET words == [in.words EXCEPT ![in.at] = c]
        spaced == l # <<>> /\ l[Len(l)] = Blank /\ in.words[Len(in.words)] = <<>>
    IN  IF spaced /\ in.at # Len(words) THEN Front(words) ELSE words

\* Tab changes the argument the cursor is in, as Windows will see it, into one
\* that begins with what was typed of it, and no other argument.  (Where the
\* third word of git checkout is completed in the place of another, it does not
\* begin with that.  The word has to stand between blanks, and no word of the
\* line to be one that Windows takes for two.)
CompletesTheArgument ==
    \A p \in Positions : \A in \in {Input(line, p)}, w \in {WordAt(line, p)} :
    \A ninjaSucceeds, inRepository \in BOOLEAN :
    \A answer \in {FirstDone(Answers(in, ninjaSucceeds, inRepository))} :
    \A c \in answer.results :
        /\ \/ GoesOn(c, WordOf(in))
           \/ answer = GitCommandArgCompleter(in, inRepository) /\ in.at # 3
        /\ StandsBetweenBlanks(w) /\ IsPrefix(Arguments(line), in.words) =>
               Arguments(Completing(w, c, answer.space)) = Changed(line, in, w, c)

=============================================================================
