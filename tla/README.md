# A formal model of cmdEx

cmdEx puts a better line editor into Windows' `cmd.exe`: a launcher extracts a
DLL and an injector, the injector loads the DLL into the shell, and the DLL
replaces `ReadConsole`. Every key of every prompt then goes through cmdEx's own
editor, with tab completion, a command history that outlives the shell, and a
directory history that Alt-Left and Alt-Right walk.

These modules model what that program *does*, read off its source; they say
which parts of it are right, for every order of keys, prompts, children and
shells, and where it is not what its own documentation says.

- [Inventory](#inventory)
- [The modules](#the-modules)
- [What the runs check](#what-the-runs-check)
- [Fairness](#fairness)
- [What is proved](#what-is-proved)
- [Where the code differs from its documentation](#where-the-code-differs-from-its-documentation)
- [What is not modelled](#what-is-not-modelled)
- [Plan](#plan)

`PROJECT.json` lists the components, the runs, the mutants that show each
property can fail, the source lines behind each definition, the hazards and the
theorems. Paths below are relative to `src/src/` unless they begin with README.

## Inventory

| Component | Source | State | Operations | What makes it hard |
|---|---|---|---|---|
| Directory history | `cmdEx/directory_history.cc` | `dirs_`, `last_known_`, `position_`; the process's current directory | `StartingEdit`, `NavigateInHistory` | Learns of a change of directory only at the next prompt; directories vanish; the list changes size in the middle of a step |
| Command history | `cmdEx/command_history.cc` | `commands_`, `position_` | `Populate`, `AddCommand`, `MoveInHistory` | A cursor one past the end, a search that wraps around and must end |
| Word splitting and quoting | `cmdEx/completion.cc` | none | `CompletionBreakIntoWords`, `CompletionWordIndex`, `QuoteWord` | Reimplements Windows' rules for quotes and backslashes, and asserts that it agrees with them |
| Line editor | `cmdEx/line_editor.cc` | the line, the cursor, a saved line, the completion in progress, the screen | one per key; `Init`, `ToCmdBuffer` | Modes that the next key ends implicitly; offsets remembered from one key to the next; keys that do not redraw |
| ReadConsole replacement | `cmdEx_dll_x64_dll/dll.cc` 745-865 | which editor is alive | one call of `ReadConsole` | The editor survives some calls and not others |
| Subprocesses | `cmdEx/subprocess.cc` | the two lists, each pipe's overlapped read, the completion port | `Add`, `DoWork`, `Finish`, construction, destruction | Children, kernel completions and the Ctrl-C thread are concurrent |
| History file | `cmdEx_dll_x64_dll/dll.cc` 82-127, 753-759 | one file | read it when a shell starts, write it when it exits | Several shells, no lock, kills, newlines in commands |
| Completers | `cmdEx_dll_x64_dll/dll.cc` 407-743 | none; their answers come from files, the environment, git and ninja | seven functions tried in order | The first that says it has completed ends the search; which word is replaced is the editor's decision, which one is completed the completer's |
| Hook | `cmdEx_dll_x64_dll/dll.cc` 755-759, 1020-1215 | a one-byte trap, the handler, import tables, the exit that was saved | `OnAttach`, the exception handler, `ExitReplacement` | A trap that works once and removes itself while another thread may hit it |
| Git prompt | `cmdEx_dll_x64_dll/dll.cc` 45-80, 163-272 | none; what libgit2 has given | find a repository, name its branch or its state | Many states of a repository, which changes between two questions; every refusal has other things to free |
| Extraction | `cmdEx_exe/main.cc` 25-202 | three files, their times | check, compare, write, set the time, run the injector | Two launchers at once, a crash while writing, a write that fails |
| Injector | `cmdEx_x64_exe/inject.cc` | threads that are suspended | suspend, write, start a thread | Which threads are suspended, and that nothing resumes them if a later step fails |

**How they interact.** `cmd.exe` calls `ReadConsole`; the replacement makes an
editor unless the last call left one, and `LineEditor::Init` tells the directory
history (`StartingEdit`) and draws. Each key goes to `HandleKeyEvent`, which asks
the directory history (Alt-Left, Alt-Right), the command history (Up, Down,
PgUp, PgDn, F8), the clipboard (Ctrl-V) or the completers (Tab), and answers
`kIncomplete`, `kReturnToCmd` (the line goes to `cmd.exe`, the editor is
deleted) or `kReturnToCmdThenResume` (a command of the editor's own goes to
`cmd.exe` — `cd ..`, `cd .`, `cls`, `exit` — and the editor stays for the next
call). The ninja completer runs a child through `SubprocessSet` while `cmd.exe`'s
thread waits. `OnAttach` populates the command history from the file;
`ExitReplacement` writes it.

**What is shared.** The editor, the two histories and `SubprocessSet` are used
by one thread; `NotifyInterrupted` runs on a thread of Windows' own and shares
the static `ioport_`. `OnAttach` runs on the injector's thread, and the trap it
sets is in the way of every thread of the shell. Shells share the history file;
launchers share the temporary directory, without a lock.

## The modules

| Module | Models | State and actions |
|---|---|---|
| `DirectoryHistory` | directory history | `dirs`, `lastKnown`, `dirPosition` are `dirs_`, `last_known_`, `position_`; `cwd` and `onDisk` are what `WorkingDirectoryInterface` sees. `StartingEdit`; `Navigate` is `NavigateInHistory` with `CommitLastKnown`, the clamp and the unchecked `Set`; `NavigateOutOfRange` is the same when the clamp yields -1. `ChangeDirectory`, `RemoveDirectory`, `MakeDirectory` are the environment |
| `CommandHistory` | command history | `commands`, `position`. `AddCommand`, `MoveInHistory`; the loop of the latter is `Landing`, the first probe at which it ends |
| `Completion` | splitting, quoting | operators only: `Words` is `CompletionBreakIntoWords`, `WordAt` is `CompletionWordIndex`, `QuoteWord`. Recursion over the line is by recursive functions |
| `CompletionLine` | what splitting and quoting promise of a line | `CommandLineToArgvW` (external); the line as a variable, without actions; the properties |
| `LineEditor` | line editor | extends `CompletionLine`, whose `line` is `line_`: one action per group of keys, each of which first takes down the message and ends the completion unless it is Tab (`Line`, `Pos`, `NothingPending`, `CompletionOver`); `Put` is `RedrawConsole`; `Resume` is `Init` |
| `Session` | ReadConsole replacement | extends `DirectoryHistory`, with instances of `LineEditor` and `CommandHistory` that share its `phase`; each action is a call of `HandleKeyEvent` with every call it makes, `Resume` the next `ReadConsole`, `RunChangesDirectory` and `RunExits` the commands in between |
| `Subprocess` | subprocesses | the thread that uses a set, step by step (`Construct` … `ClosePort`); `AddStarted`, `AddMissing` and `AddUnstartable` are `Add` by what `CreateProcess` answers; `DoWork` takes one packet and does what `OnPipeReady` does; `CtrlC`, `NotifyInterrupted`; `Write`, `CloseWriter`, `Exit` are the children, with the kernel's completion of a pending read |
| `HistoryFile` | history file | per shell: `Attach`, `ReadBlock`, `Populate` (with the `CHECK`), `Enter`, `BeginSave`, `WriteBlock`, `EndSave`; `Kill` at any time |
| `Screen` | `RedrawConsole`, `ScrollByOneLine`, `RealConsole` | a console of cells (`size`, `cells`, `cursor`) and the editor's `startX`, `startY`, `largestY`, `line`, `position`. `RedrawConsole` draws a new line or cursor, breaking, clearing and scrolling as the code does; the last drawing before Return and the `Init` of the next prompt; output of a command, `cls`, and a window that is resized |
| `Completers` | the seven completers, `TabComplete` | extends `CompletionLine`, whose `line` is typed character by character; operators otherwise: each completer takes a line and a cursor and gives what it says, `Tab` asks them in order and puts the first answer into the line. The file system, the environment, the repository and ninja are constants |
| `Launcher` | extraction and injector | per launcher: check each file's time, open, truncate, write one half and the other, set the time, compare where the file could not be opened, run the injector, suspend, load. `Kill` at any step, the shell's exit, writes that fail |
| `Hook` | hook and import patching | `OnAttach` and `HookTrap`, one step per thing they read or write; any thread may call `GetDriveTypeW` in between; `ExitReplacement` |
| `GitPrompt` | git prompt | `GetGitBranch`, one step per call of libgit2 and per file it looks at or reads; `RepositoryChanges` between any two |
| `Prompt` | the two together | extends `Hook` and `GitPrompt`: cmd.exe's prompt asks the type of the drive through the trap, compares it with what the hook has put there, and calls the import that the hook may have replaced; `ChangeDrive` |

`CommandHistoryProofs`, `LineEditorProofs`, `SessionProofs` (which has those about
the directory history too), `SubprocessProofs`, `LauncherProofs`, `PromptProofs`,
`HistoryFileProofs` and `ScreenProofs` hold the theorems. The `MC…` modules give
the constants small values.

In several modules a definition is preceded by one or more *variants*, each the
same definition with a plausible mistake. No action uses them. `PROJECT.json`
pairs each property with a variant that violates it.

**Abstractions.** A directory is a model value. A character is a string of
length one; only the blank, the quote, the backslash and the newline are told
apart from the others (the slash stops Ctrl-Backspace like the backslash and is
not distinguished from it). The message that Ctrl-V puts up is a constant text
over a character that no key types. In `LineEditor` the screen is the pair of
line and cursor that `RedrawConsole` last drew, and its crash on an empty list of
chunks is kept (`Drawable`); how they get to the cells of a console is `Screen`'s.
A chunk of a child's output is a number, a file in `Launcher` two halves and a
time, an executable in `Hook` the set of the imports it has, a text in
`GitPrompt` a sequence of words. Of the three files that are extracted two are
modelled, the injector and the library; `git2.dll` is used as the library is. An uninitialised `completion_word_begin_` holds a value of `Garbage`.
Reading or writing outside an array, and a failed `CHECK` or `Fatal`, end the
process (`phase = "ended"`, `main = "fatal"`, `phase[s] = "failed"`).

## What the runs check

Ten runs pass; two show a disagreement with the documentation (below). The type
invariants (`TypeOK`) are those of the theorems.

**DirectoryHistory** (4 directories, 23192 states). The list never holds a
directory twice (`NoDuplicates`); at every prompt the directory it believes in
is the process's (`KnowsWhereItIs`), although `Set`'s failure is ignored and
`cmd.exe` changes directory unobserved. No step loses a directory
the history could lead back to, except Alt-Right at the newest place
(`OnlyForwardAtNewestForgets`). Alt-Right undoes Alt-Left (`ForwardUndoesBack`).
Who presses nothing but Alt-Left comes to rest at the oldest directory if all
exist (`BackReachesOldest`). Four directories allow a cursor strictly inside a
list of three with the current one outside it, which is where an entry taken
out below or above the cursor makes a difference. The list needs no bound: it is
without duplicates.

**CommandHistory** (lists of up to 5 over 4 lines, 3561 states).
`SearchFindsNearest` compares the loop, for every list, cursor and prefix, with
what the user expects: the nearest match on that side, else the one farthest on
the other side; and, from one past the newest command, says what PgDn does
instead (`ForwardFromNewPrompt`, below). A repeated search comes past
every match (`SearchCyclesThroughMatches`). Two of the lines share a prefix, so that there
are matching, non-matching and repeated commands on both sides of the cursor.

**CompletionLine** (all lines up to 6 characters over blank, quote, backslash
and a letter, and command lines for each completer, 6856 states). The assertion
in `CompletionBreakIntoWords`, that Windows finds as many words, never fails
(`WordCountAgrees`); the word found for a cursor is the one the user means, and
words and gaps partition the line (`CursorWord`); what a completer offers
survives quoting and Windows' splitting (`QuotedWordComesBack`); completing again
replaces the inserted word and nothing else, and Windows reads it in the place of
the argument it was inserted for and every other argument as before
(`InsertedWordStands`). With the
completers and the editor composed, Tab changes the argument in which the cursor
is and no other (`CompletesTheArgument`); the exception is `git checkout`, below.
Six characters hold a run of backslashes before a quote inside a quoted word, the
longest pattern that the rules mention, with a word on one side of it.

**LineEditor** (lines up to 3 characters, every key, 45764 states). No mix of
keys moves the cursor out of the line (`CursorInLine`), but for the one that ends
the shell (Ctrl-Right on an empty line, below). The offsets
remembered for completion are those of the candidate (`CompletionStands`), so
that cycling leaves the rest of the line alone, and cycling comes past all
candidates (`TabGoesRound`);
the message is never part of a line (`MessageIsNotText`), nothing with a newline
is pasted without it (`PasteIsConfirmed`), and the screen shows the line or the
message (`ScreenAgrees`). The completers' answers are one of: none, one, one
that has to be quoted, two, with and without a blank after them; the clipboard
may be different at the second Ctrl-V.

**Session** (lines of 1 character, 2 directories, 2 commands, 154278 states).
`ComponentsImplemented` says that the composition is an implementation of each
component: what the editor gets
from the histories is among the answers it was checked with, and it calls them
only as they expect. The other properties reach over several prompts: Return
hands over and files the line the user sees (`WhatIsShownRuns`), Up brings the
last command whatever lies in between (`UpRecallsWhatRan`), Alt-Right takes an
Alt-Left back (`AltRightTakesBack`), and the line and the cursor survive the keys
that README:10-15 says maintain the current command (`MaintainsCommand`). A line
of one character is enough for a line to be empty or not, equal to another or
not, and hidden under the message; longer ones are the editor's own run.

**Subprocess** (2 children of 2 chunks, 1 Ctrl-C, 1 set, 27836 states). Nothing
is lost between the child and `buf_` and one that is
`Done` has all its output (`NothingIsLost`); one that is not has exactly one
read pending or one packet in the port and is in exactly one list
(`EveryReadIsAnswered`), so that the destructor finds no child to kill. The
process fails only if a program is found but cannot be started (the second branch
of `Start`, `subprocess.cc:138`), or if the packet of one that is not found is
taken (`FatalOnlyOfStart`); Ctrl-C, whenever it comes, finds the port open. And the
loop ends if the children do (`SetReturns`). Each of the two programs may be
found and started, missing, or found and not startable. Two chunks let a child write between a read's
completion and its packet; two children let their packets be taken in either
order. Ctrl-C may come before, during and after the set's life.

**HistoryFile** (3 shells, 2 commands, blocks of 4 characters, 505290 states up
to symmetry). A shell loads the last `MaxSaved` commands of the shell that saved
last (`LoadsWhatWasSaved`), fails to start only if that save was killed or
overlapped (`FailsOnlyTorn`), and as long as no shell saves while another is
using the file no command is made up (`NothingInvented`). `MaxSaved = 2` with up
to three commands puts the cut at every place; blocks of four characters end
inside a command and between two. A command with a newline comes back as two,
which the properties allow. Three shells: two that disturb each other and the
one that reads what they left.

**Screen** (consoles of 2 by 2 and 3 by 2 cells, lines up to 5 characters in two
colours, 78899 states). Wherever the prompt left the console's cursor and whatever
was on the rows below, the line and the cursor are where they should be
(`ShowsLine`), what is no longer in the line is gone from the screen
(`NothingLeftOver`), and nothing above the line is touched but by scrolling
(`TextAboveStays`), all of it until the window is resized while a line is edited.
A `PCHECK` ends the shell only after a line that was longer than the console, or
where the window has become narrower than the prompt (`DiesOnlyOfLongLines`). Two rows of two or three columns let a line
fill a row exactly, wrap, scroll, and be longer than the console; in two colours
no cell of the old line is mistaken for one of the new.

**Launcher** (3 launchers of two versions, 2 active at once, 1312189 states up to
symmetry). A file that the next launcher skips for its time is whole
(`StampedIsWhole`) and a shell gets the library of its own launcher
(`LoadsItsOwn`) unless a write failed or two launchers truncated one file under
each other; apart from that, a launcher fails only if another launcher, or a
shell's exit, came in between, or if a shell runs another library, whatever was
left behind by those that were killed (`FailsOnlyDisturbed`). Two copies of a launcher and one of a later version, with
another library and the same injector, cover equal and different times and
contents; the third comes to what two have left.

**Prompt** (2 threads, 2 executables, 10 repositories, 374440 states). The trap
ends the shell only if a second thread is in it, or if libgit2 has not been
loaded (`DiesOnlyRaced`). A prompt on a local drive shows the branch, the commit
or the rebase (`PromptTellsRepository`), provided the first call that hit the
trap was a prompt's and the repository did not change meanwhile; whatever libgit2
gives is given back, also when it does change (`FreesWhatItGot`). The
executables have all imports under the names of today, or under the other ones
and no `_o_exit`. The repositories are those that `src/test.py` tries and those
of rebases and of `git am` that it does not. The repository changes only between
the return of `GetDriveTypeW` and the end of the prompt, as nothing else reads it.

`CHECK_DEADLOCK FALSE` stands where the system really stops: the shell ends, the
line or the list reaches its bound, the number of sets is bounded, every launcher
has ended.

## Fairness

- `BackSpec` (DirectoryHistory): the prompt comes back after a command (`cmd.exe`
  returns from the `cd .` it was fed), and the user keeps pressing Alt-Left.
  `BackReachesOldest` is about that user, and says so in its premise too.
- `SearchCyclesThroughMatches` states its own premise: the same key is pressed
  again and again.
- `TabSpec` (LineEditor): Tab is held down. Again the property is about a user
  who does that.
- `EndingSpec` (Subprocess): the thread that uses the set and the handler's
  thread are scheduled, a set is added to before it is waited on forever, and the
  children end and close their output. The last is an assumption about the
  children: the completer waits without a timeout, and would wait for ever for a
  child that does not end.

The handler runs under the lock that `SetConsoleCtrlHandler` takes: the set's
destructor waits for it. This is modelled in `RemoveHandler`'s guard, and
`FatalOnlyOfStart` rests on it.

## What is proved

The theorems hold for every value of the constants: any number of directories,
threads, children and launchers, any set of commands, lines and completions of
any length. They rest only on the named assumptions next to the constants, which
every run evaluates:

- `StartDirAssumption`, `HistoryAssumption`, `EditorAssumption`: the start
  directory is a directory; the history file holds commands; texts and candidates
  are over `Chars` and the message is not empty.
- `CharsAssumption` (CompletionLine): the blank, the quote and the backslash are
  three different characters of `Chars`.
- `MessageAssumption`: the message's characters are marked, so that where they
  come from can be told. No key looks at a character of the message, so that
  marking them changes nothing that the editor does.
- `ComponentsAssumption` (Session): those of the components, and that a command
  holds none of the marked characters.
- `HistoryFileAssumption`: a command is not empty; the character that an empty
  file is read as is in no command; a block holds a character, and a history one
  command at least.
- `ScreenAssumption`: a console has a row and a column, and a line is a sequence.
- `SubprocessAssumption`: finitely many children; `Null` is not one of them.
- `LauncherAssumption`: launchers built at the same time are the same; a half that
  is missing or broken is nobody's contents.
- `HookAssumption`: every `cmd.exe` imports `WNetGetConnectionW`, by itself or as a
  stub, without which `$M` could not be shown at all.
- `WordsAssumption`, `RepositoriesAssumption`: a file of a repository is a text of
  words, with a newline after it or not, and a `head-name` may begin with
  `refs/heads/`; a rebase's files are where its directory is.

The argument of each module:

- **CommandHistoryProofs.** `TypeCorrect` (the cursor is an index or one past the
  end), and `SearchIsNearest` from `BackwardSearch`, `ForwardSearch` and
  `NewPromptSearch`. The proof turns the loop into
  arithmetic: the k-th probe is a number without a division (`Remainder`,
  `ProbeFacts`), the landing is the least number of steps at which the loop ends
  (`LandingFacts`), each command is come past in exactly one turn
  (`BackTurnFacts`, `ForwardTurnFacts`), and the least turn is the greatest index
  below the cursor or the least above it (`NearestOlderFacts`,
  `NearestNewerFacts`). The two directions are not symmetric: from one past the
  end a step back wraps to the newest command, a step forward to the oldest, which
  the loop takes for the place it started at.
- **LineEditorProofs, the keys.** `IInv` is `TypeOK`, `CursorInLine`,
  `CompletionStands`, `ScreenAgrees` and two strengthenings: `PendingHolds` (what
  is saved under the message has its own cursor inside it, and the message is on
  the screen and in the line) and `CompletingHolds` (what `completion_index_` and
  the offsets are when a completion is in progress, in whatever phase). Without
  `PendingHolds` the cursor could be restored to a place outside the line; without
  `CompletingHolds` an editor resumed after `cmd.exe` ran would not be covered.
  Each group of keys has a lemma of its own. From it follow `TypeCorrect`,
  `CursorStaysInLine`, `CompletionTakesOutWhatItPutIn`, `ScreenAgreesWithLine` and
  `NewlinesAreConfirmed`. A second invariant on top of it, `LineIsText` (the line
  is a text without marked characters, or the message under confirmation), gives
  `MessageNeverText`.
- **LineEditorProofs, the completion.** Here nothing has to be inductive but the
  type of the line: what `CompletionLine` promises is so of every line there is,
  and the work is in what the scanners compute. `Divides` says what a list of
  words is to a line, first of the parsed words (`ParsedWordsFacts`), then of
  those that are put together again (`WordsFacts`); it gives
  `CompletesTheCursorsWord`. `ScannersAgree`: Windows' scanner and the
  reimplementation go through the same quotes and backslashes at each character,
  so that they break at the same blanks, which gives `AsManyWordsAsWindows`. For
  `QuotingIsUndone`, `Within` says where Windows is after each character of a word
  that `QuoteWord` has escaped: it has put out that much of the word, and twice as
  many backslashes as it has read if they run into a quote; `WithinStep` is a case
  for each kind of character, `QuoteWordReads` the word with its quotes, and
  `Reading` an argument that stands among others. `CompletionIsTheNextWord`
  compares two lines, that before and that after the replacement: they begin alike
  up to the word, so the breaks before it are the same (`SameBeginning`,
  `SameBreaks`), and the inserted text is read as in `QuotedArgument`, or as the
  name of a command. What comes behind it is read alike in both lines, character
  by character (`RestIsRead`: the two states differ in one argument at most, and
  `InsteadStep` keeps it so); which argument that is, `PlaceOfArgument` says, from
  the count that also gives `AsManyWordsAsWindows`. `NameIsRead` and
  `ArgumentIsRead` put it together.
- **SessionProofs, the directory history.** `DirectoryInv` is `DirectoryTypeOK`,
  `NoDuplicates`, `KnowsWhereItIs`, `Coherent` (away from the newest place, the
  entry under the cursor is `last_known_`) and the position's range strengthened
  by phase. It is needed whole: that `CommitLastKnown` produces no duplicates uses
  the old list's, and that the cursor's entry is `last_known_` uses the size that
  only the absence of duplicates gives. `CommitFacts` and `BackFacts` say what
  `CommitLastKnown` and Alt-Left do to such a list. From it follow
  `DirectoryTypeCorrect`, `ListHasNoDuplicates`, `AlwaysKnowsWhereItIs`,
  `NothingElseForgets` and `AltRightUndoesAltLeft`.
- **SessionProofs, the session.** `SessionInv` joins the invariants of the three
  components, those of the editor and of the command history being proved about
  them once and instantiated here, with every text for `Lines` and `Recalled`
  (`EditorLemmas`, `HistoryLemmas`; a section of lemmas shows that these instances
  take the same steps), with three parts about more than one of them:
  `KeptIsLine`, `RanIsNewest`, `FromIsNext`. `ComponentsGo` says of each action of
  the session what it is to each component. With it the invariant follows part by
  part, and from the invariant `CommandIsMaintained`, `ShownRuns`, `UpRecalls` and
  `AltRightUndoes`. `SessionImplements` is the refinement: every step of the
  session is, to the editor, to the command history and to the directory history,
  a step of its own specification or a stutter, until the process ends. It is
  stated for `EveryText` (commands are all texts, as in the code, which bounds
  neither the line nor the search); with fewer, a line that is not among `Lines`
  could be filed.
- **SubprocessProofs.** `SubprocessInv` says that every command is in one of eight
  phases, from `NotAdded` over `Connecting`, `Pending`, `Answered` and `BrokenOff`
  to `Drained` (or `NotFound`, or `Unstarted`), each of which fixes its pipe, its read, its packet
  and where its chunks are; that no command has two packets (`OnePacketEach`) and
  is in the list of its phase (`Listed`); and what stands at each stage of the
  set's life (`Staged`), `FatalOnlyOfStart` being one part. Neither `NothingIsLost` nor `EveryReadIsAnswered` is
  inductive without the other: which chunks are on their way depends on whether
  there is a packet. Each action moves one command from one phase to the next, and
  `Others…` lemmas leave the rest. From it follow `OutputIsWhole`,
  `EveryReadWakes` and `OnlyStartIsFatal`.
- **LauncherProofs.** `LauncherInv`: of a file that has not been damaged, one
  launcher at most is rewriting (`OneRewrites`), and the file is as far as it is
  (`RewrittenSoFar`); launchers that are active at once know of each other
  (`KnowEachOther`); what a launcher has behind it is its own or of one that it
  knows (`PastIsWritten`); a library that is loaded stays (`LoadedStays`).
  `StampedIsWhole` needs the first two, as a time is set long after the contents;
  `LoadsItsOwn` needs the others, as the library is loaded long after it was
  written. From it follow `StampIsTrue`, `ShellLoadsItsOwn` and, with a second
  look at each step that can fail, `UndisturbedSucceeds`.
- **PromptProofs.** `HookInv`: as long as no second thread has been in the trap,
  one at most is in it (`OneInTrap`), the byte, the handler and their order are as
  far as that one is (`TrapIsSet`), and exit is saved before it is replaced
  (`ExitIsSaved`). `GitInv`: what is held is what was given up to this step
  (`HeldSoFar`), and, undisturbed, what has been put together so far is the part
  of `Shown` that belongs there (`KnownSoFar`, `PutTogether`). `PromptInv` ties
  them together: `PromptIsHooked` (after a first prompt in the trap, the
  comparison and the import are changed) and `AskingIsCalling`. From it follow
  `HookIsSafe`, `NothingLeaks` and `PromptIsTrue`.
- **HistoryFileProofs.** What a file holds is a text, and what a shell does with
  it is put together from lines and taken apart again; that one undoes the other
  (`EncodedBack`) rests on two facts about texts of any length: splitting one that
  is put together of two is splitting the one and then the other (`SplitConcat`),
  and the lines of a beginning of a text are a beginning of its lines, but for the
  last (`LinesOfPrefix`). `IInv`: unless a save began beside another shell's use
  of the file (`mixed`) and the last one was killed or disturbed (`torn`), the
  file is a beginning of what was last begun to be saved, one shell at most is
  writing the rest, and what the others have read is a beginning too
  (`FileIsSaved`); unless `torn`, the file is whole but while it is written, when
  nobody reads it (`SaveIsAlone`); histories hold what was entered
  (`EnteredOnly`); who neither reads nor saves holds nothing of the file (`Idle`).
  `NothingInvented` is not inductive without the first: a command that was torn by
  a kill is the beginning of one only because the file is the beginning of a text
  that was entered. From it follow `NobodyInventsCommands`, `OnlyTornFilesFail`
  and `HistorySurvives`, for blocks, commands and histories of any size and any
  number of shells.
- **ScreenProofs.** The cell of a character is its offset's quotient and remainder
  by the width, which no solver finds by itself (`DivMod`, `DivOrder`,
  `PlaceFacts`). `RedrawFacts` says what one call leaves in each cell, wrapped,
  cleared and scrolled, and `RedrawShows` that this is the line. `IInv`: as long
  as the console has not been resized, `start_x_`, `start_y_` and `largest_y_` say
  where the line begins and ends (`RemembersWhere`), and unless a line was longer
  than the console it begins on it (`BeginsOnConsole`); with `ShowsLine` and
  `DiesOnlyOfLongLines` it is inductive. From it follow `LineIsShown`,
  `ShortLinesDoNotKill` and, with another look at each drawing, `TextAboveIsKept`
  and `ShorterLineClears`.

Only model-checked:

- everything about liveness (`BackReachesOldest`, `SearchCyclesThroughMatches`,
  `TabGoesRound`, `SetReturns`), which the prover does not do;
- `CompletesTheArgument`: that a quoted candidate changes no argument but the one
  it was inserted for is so for every line and proved (`CompletionIsTheNextWord`);
  that the completers ask for the word in which the cursor is depends on what the
  file system, git and ninja answer, of which the run has an example for each.

**Induction.** The prover instantiates no theorem that takes a predicate. Where a
proof goes along a line, a text or a list, the induction is over a set instead:
`Upwards`, `Downwards` (LineEditorProofs) and `UpToInduction`,
`SequenceInduction` (HistoryFileProofs) say that a set which has the first number,
and with each the next, has all up to the last; they follow from the least number
that is missing. The recursive functions of the models are unfolded by such a set
too (`ScanFacts`, `ArgvFacts`, `FlattenFacts`).

## Where the code differs from its documentation

Two runs end in a counterexample:

- **DirectoryHistoryRange.** With an empty list, Alt-Right reads `dirs_[-1]`
  (`directory_history.cc:33`): the crash README:39 wonders about. One key at the
  first prompt suffices.
- **SubprocessMissing.** A program that is not found is documented to be "a
  normal build action failure"; the packet that it leaves in the port is fatal
  to the `DoWork` that takes it (`subprocess.cc:131`). That a program which is
  found but cannot be started ends the shell at once is what the code says it does
  (`subprocess.cc:139`); `MissingIsNormal` exempts it.

The modules show others, with the properties that allow for them.

Directories and commands:

- Alt-Right at the newest place goes to the last entry of the list and forgets
  the current directory, unlike a web browser (README:14-15); hence the exception
  in `OnlyForwardAtNewestForgets`.
- `Set` fails silently on a removed directory, and Alt-Left then gets no further
  than it (the TODO at `directory_history.cc:34`); hence the premise of
  `BackReachesOldest`.
- A jump to a new directory drops nothing, although `dll.cc:287-289` says so.
- PgDn at a fresh prompt stops after its first probe (`command_history.cc:31`:
  the place one past the end is taken for 0), so that it finds only a match at
  the oldest command; hence the premise of `ForwardFindsNearest`, and
  `ForwardFromNewPrompt`.
- Two shells that save at the same time leave a mixture of both files that may
  hold commands nobody entered; hence the premise of `NothingInvented`. A shell
  that was killed while it saved leaves a file on which the `CHECK` at
  `dll.cc:104` ends every shell that starts; hence `FailsOnlyTorn`.

Line and screen:

- Ctrl-Right on an empty line sets the cursor to -1, and `RedrawConsole` reads
  the last of no chunks (`line_editor.cc:153`, `:284`): the `"ended"` phase.
- A key that returns before `RedrawConsole` (Backspace at the beginning, Ctrl-D)
  leaves the message "Ctrl-V again to confirm" on the screen although the next
  Ctrl-V will not confirm it; hence the second disjunct of `ScreenAgrees`.
- Ctrl-D while `cmd.exe` reads an answer for `set /p` gives the answer "exit" and
  leaves "exit" on the next prompt's line.
- A line longer than the console makes `start_y_` negative, and a key that puts
  the cursor into the part that has scrolled away (Home, Escape) fails the
  `PCHECK` of `SetCursorLocation`; a window that was made narrower than
  `start_x_` does the same. Hence `DiesOnlyOfLongLines`.
- Rows below `largest_y_` are not cleared when the line first wraps into them, so
  that older text can stand behind the line; and Return with the cursor in an
  earlier row lets the command's output overwrite the rest of the line.

Completion:

- `git checkout` completes the third word whichever word the cursor is in
  (`dll.cc:496`), and the editor puts the candidate in the place of that one;
  hence the exception in `CompletesTheArgument`.
- The completers of ninja, of git's commands and of the environment say that
  they have completed when they have no candidate, and nobody else is asked;
  ninja's output ends in an empty line, which is a candidate. `cd` without a
  matching directory goes on to the files.
- The branches for `no_command` are never taken. A quote in `PATH` fails a
  `CHECK`, and `GitRefsHelper` does not free `git_dir` when the repository does
  not open.
- The completer ignores that `DoWork` was interrupted (`dll.cc:538`); hence the
  children that end in `SetReturns`.

Extraction and injection:

- Two launchers that rewrite one file, one of which is killed, leave a broken file
  under the right time, and every later launcher skips it; so does an `fwrite`
  that fails, as nobody looks at what it returns (`main.cc:135`).
- A launcher that cannot overwrite the library because a shell uses it is fatal if
  that shell exits before the file is opened for comparison, and so is one that
  sets a time while another launcher has the file open.
- `SetThreadsRunning` is documented to be about "all thread in the process
  identified by |pid|" (`inject.cc:20-21`). The snapshot is of all processes,
  `te.dwSize` is not set, and the loop's `ok` is never updated: it does nothing,
  or goes on until it has suspended the injector itself.

Hook and prompt:

- The comment at `dll.cc:1200-1204` expects the trap to be hit where the prompt
  asks. A call from elsewhere that comes first removes the trap and the
  comparison is never changed; hence `first` in `PromptTellsRepository`.
- A second thread in the trap meets no handler, saves `ExitReplacement` as the
  original exit (which then calls itself for ever), or writes a breakpoint in the
  place of the trap; hence `raced`.
- A `git2.dll` that does not load is only a message, and the first prompt on a
  local drive calls address 0. Without `_o_exit` exit is not replaced, and the
  history never saved.
- `MERGE_HEAD`, `CHERRY_PICK_HEAD`, `REVERT_HEAD` and `BISECT_LOG` are files, but
  `IsDirectory` is asked about them: these states are never shown. During a
  `git am` no branch is shown.
- A repository that changes during the prompt may be shown as a mixture of two
  states, or as "(unknown)". `ReadInto` of an empty file looks at the byte before
  its buffer, and of one of 260 bytes writes behind it (`dll.cc:75`).

## What is not modelled

- The length of `cmd.exe`'s buffer and `ReadHistoryFile`'s line buffer: lines are
  assumed to be shorter than both.
- `ReadConsole` calls that are passed on (`CMDEX_NOREADCONSOLE`, a buffer of one
  character) and Ctrl-Enter, which starts Explorer.
- In `Completers`: drives, wildcard characters and the order of the candidates.
- In `Subprocess`: `NextFinished`, a subprocess deleted while it runs and the
  killing loop of `Clear`, which the completer never reaches
  (`EveryReadIsAnswered`); the console mode of children. Of the calls that end in
  `Fatal`, `CreateProcess`, `ReadFile` on a closed pipe and the handler's post are
  modelled; that Windows refuses a pipe, its connection, a duplicate handle,
  `NUL`, the port or the handler (`subprocess.cc` 54, 57, 62, 76, 100, 218, 220), or
  fails a read or a wait for another reason than a broken pipe (162, 184, 264), is
  not, nor that `CreateFile` at 67, which nobody checks, fails.
- In `Completion`: `QuoteWord` also quotes a word with a newline or a vertical tab
  (`completion.cc:157`). Names of files and branches cannot hold either, and
  candidates with one are not modelled. `Blank` stands for the blank and the tab.
- In `Hook` the walk through the tables of the executable (`GetImportByName`), in
  `GitPrompt` the size of the buffers and the layout of the stack, in `Launcher`
  the injector's arithmetic on addresses and its check of the architecture.
- The Windows calls, libgit2, git and ninja are external throughout.
- Utilities (`common/util.cc`, `string_util.cc`), build files, tests: no state.

## Plan

Done, in this order: `DirectoryHistory`, `CommandHistory`, `Completion`,
`LineEditor` with their proofs; `Subprocess`; `HistoryFile`; `Session`; `Screen`;
`Launcher`; `Completers`; `Hook`, `GitPrompt` and `Prompt`; the proofs about
`Prompt`, `Launcher`, `Subprocess` and `Session`; those about `HistoryFile`,
`Screen` and the completion of any line. What could follow:

1. `CompletesTheArgument` for every answer of the completers: from
   `CompletionIsTheNextWord` and an assumption on what they return.
2. An abstract specification of the command search (the nearest match) and of
   the history file (a register of lists) and their refinement.
3. The length of `cmd.exe`'s buffer in `LineEditor` and `Session`.
