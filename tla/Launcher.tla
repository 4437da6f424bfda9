------------------------------ MODULE Launcher ------------------------------
(***************************************************************************)
(* cmdEx.exe (src/src/cmdEx_exe/main.cc) as run from several shells: each  *)
(* launcher puts its embedded files into the one temporary directory,      *)
(* unless their modification times are that of the launcher itself, and    *)
(* starts the injector (src/src/cmdEx_x64_exe/inject.cc), which loads the  *)
(* library into the shell.  No file is locked or renamed into its place:   *)
(* what keeps launchers apart is only how Windows shares open files.       *)
(* A launcher may be killed at any step.  A file is two halves and a time. *)
(***************************************************************************)
EXTENDS Naturals, Sequences, FiniteSets

CONSTANTS Launchers,     \* the launchers, each with a shell of its own
          Injector,      \* cmdEx_x64.exe
          Library,       \* cmdEx_dll_x64.dll
          Contents,      \* contents of files
          Content,       \* what a launcher has embedded for each file
          Times,         \* modification times of launchers
          Stamp,         \* a launcher's own modification time
          Missing,       \* half a file that is not there; no library
          Broken,        \* a library that is not one of Contents
          Never, Now,    \* the FILETIMEs of no file and of a write
          MaxActive      \* bound on the launchers that are active at once

Files == <<Injector, Library>>
FileNames == {Injector, Library}

\* Two launchers with the same time are copies of one file.
ASSUME LauncherAssumption ==
    /\ Content \in [Launchers -> [FileNames -> Contents]]
    /\ Stamp \in [Launchers -> Times]
    /\ \A l, k \in Launchers : Stamp[l] = Stamp[k] => Content[l] = Content[k]
    /\ Injector # Library
    /\ {Missing, Broken} \cap Contents = {} /\ Missing # Broken
    /\ {Never, Now} \cap Times = {} /\ Never # Now

VARIABLES
    file,       \* the files: their halves and their times
    pc,         \* the next step of a launcher, or how it has ended
    at,         \* the place in Files of the file it is about
    loaded,     \* the library in a launcher's shell
    suspended,  \* launchers some of whose threads, or their shells', are suspended
    clashed,    \* history: files truncated while another was rewriting them
    short,      \* history: files to which a write has failed
    others      \* history: the launchers that were active, or whose shell
                \* exited, while a launcher was active

vars == <<file, pc, at, loaded, suspended, clashed, short, others>>

Ended == {"done", "fatal", "killed"}
Reading == {"checking", "comparing"}
Writing == {"first", "second"}
Rewriting == Writing \cup {"closed", "stamping"}
Steps == {"idle", "check", "extract", "compare", "run", "injecting"}
            \cup Reading \cup Rewriting \cup Ended

TypeOK ==
    /\ file \in [FileNames -> [halves : [1 .. 2 -> Contents \cup {Missing}],
                               time : Times \cup {Never, Now}]]
    /\ pc \in [Launchers -> Steps]
    /\ at \in [Launchers -> 1 .. 2]
    /\ loaded \in [Launchers -> Contents \cup {Missing, Broken}]
    /\ suspended \subseteq Launchers
    /\ clashed \subseteq FileNames /\ short \subseteq FileNames
    /\ others \in [Launchers -> SUBSET Launchers]

Whole(c, time) == [halves |-> <<c, c>>, time |-> time]

\* The temporary directory is empty, or as a launcher has left it.
Init ==
    /\ file \in {[f \in FileNames |-> Whole(Missing, Never)]}
                   \cup {[f \in FileNames |-> Whole(Content[l][f], Stamp[l])] : l \in Launchers}
    /\ pc = [l \in Launchers |-> "idle"]
    /\ at = [l \in Launchers |-> 1]
    /\ loaded = [l \in Launchers |-> Missing]
    /\ suspended = {} /\ clashed = {} /\ short = {}
    /\ others = [l \in Launchers |-> {}]

Active(l) == pc[l] \notin Ended \cup {"idle"}

CurrentFile(l) == Files[at[l]]

-----------------------------------------------------------------------------
(* The files, as Windows shares them *)

\* Who is at one of these steps of the file.
At(f, steps) == {l \in Launchers : pc[l] \in steps /\ CurrentFile(l) = f}

Exists(f) == file[f].time # Never

\* A program that runs, or a library that is loaded, cannot be written to.
InUse(f) ==
    \/ f = Injector /\ \E l \in Launchers : pc[l] = "injecting"
    \/ f = Library /\ \E l \in Launchers : loaded[l] # Missing

\* CreateFile for reading, shared with readers.
CanCheck(f) == Exists(f) /\ At(f, Writing \cup {"stamping"}) = {}

\* fopen for writing, shared with everybody.
CanWrite(f) == ~InUse(f) /\ At(f, {"checking"}) = {}

\* fopen for reading, shared with everybody.
CanCompare(f) == Exists(f) /\ At(f, {"stamping"}) = {}

\* CreateFile for writing, shared with writers.
CanStamp(f) == ~InUse(f) /\ At(f, Reading) = {}

\* CreateProcess and LoadLibrary: for executing, shared with readers.
CanExecute(f) == Exists(f) /\ At(f, Writing \cup {"stamping"}) = {}

\* What is executed: half a file that is not there, or is another's, makes
\* Windows refuse it, or not.
Executed(f) ==
    IF file[f].halves[1] = file[f].halves[2]
    THEN {file[f].halves[1]}
    ELSE {Missing, Broken}

-----------------------------------------------------------------------------
(* ExtractFileResource *)

Goes(l, step) == pc' = [pc EXCEPT ![l] = step]

\* Launcher l, at this step, is scheduled.
Step(l, step) == pc[l] = step /\ l \notin suspended

\* The file is in its place; on to the next one.
FileDone(l) ==
    IF at[l] < Len(Files)
    THEN /\ Goes(l, "check")
         /\ at' = [at EXCEPT ![l] = @ + 1]
    ELSE Goes(l, "run") /\ UNCHANGED at

\* History: launcher l may disturb those that are active.
Noticed(l) ==
    [k \in Launchers |-> IF Active(k) THEN others[k] \cup {l} ELSE others[k]]

Launch(l) ==
    /\ Step(l, "idle")
    /\ Cardinality({k \in Launchers : Active(k)}) < MaxActive
    /\ Goes(l, "check")
    /\ others' = [Noticed(l) EXCEPT ![l] = {k \in Launchers : Active(k)}]
    /\ UNCHANGED <<file, at, loaded, suspended, clashed, short>>

\* GetMtimeOfFile: CreateFile.  A file that cannot be opened has no time.
OpenToCheck(l) ==
    /\ Step(l, "check")
    /\ Goes(l, IF CanCheck(CurrentFile(l)) THEN "checking" ELSE "extract")
    /\ UNCHANGED <<file, at, loaded, suspended, clashed, short, others>>

\* Variants: any file that is there is taken for the launcher's own; any that
\* has the time of a launcher.
MatchesAny(l) == Exists(CurrentFile(l))
MatchesAnyVersion(l) == file[CurrentFile(l)].time \in Times

MtimeMatchesSelf(l) == file[CurrentFile(l)].time = Stamp[l]

Check(l) ==
    /\ Step(l, "checking")
    /\ IF MtimeMatchesSelf(l) THEN FileDone(l) ELSE Goes(l, "extract") /\ UNCHANGED at
    /\ UNCHANGED <<file, loaded, suspended, clashed, short, others>>

\* fopen(filename, "wb"), which truncates.
OpenToWrite(l) ==
    \E f \in {CurrentFile(l)} :
        /\ Step(l, "extract")
        /\ CanWrite(f)
        /\ Goes(l, "first")
        /\ file' = [file EXCEPT ![f] = Whole(Missing, Now)]
        /\ clashed' = IF At(f, Rewriting) = {} THEN clashed \ {f} ELSE clashed \cup {f}
        /\ short' = short \ {f}
        /\ UNCHANGED <<at, loaded, suspended, others>>

\* Variant: the time is set as soon as the file is open, not when it is written.
WrittenStamping(l, f, i) ==
    [file EXCEPT ![f] = [halves |-> [@.halves EXCEPT ![i] = Content[l][f]], time |-> Stamp[l]]]

Written(l, f, i) ==
    [file EXCEPT ![f] = [halves |-> [@.halves EXCEPT ![i] = Content[l][f]], time |-> Now]]

\* fwrite, in two parts.  Nobody looks at how much it has written.
Write(l, i, next) ==
    \E f \in {CurrentFile(l)} :
        /\ Step(l, IF i = 1 THEN "first" ELSE "second")
        /\ Goes(l, next)
        /\ \/ /\ file' = Written(l, f, i)
              /\ UNCHANGED short
           \/ /\ short' = short \cup {f}
              /\ UNCHANGED file
        /\ UNCHANGED <<at, loaded, suspended, clashed, others>>

WriteFirst(l) == Write(l, 1, "second")
WriteSecond(l) == Write(l, 2, "closed")

\* SetMtimeOfFile: CreateFile.
OpenToStamp(l) ==
    /\ Step(l, "closed")
    /\ Goes(l, IF CanStamp(CurrentFile(l)) THEN "stamping" ELSE "fatal")
    /\ UNCHANGED <<file, at, loaded, suspended, clashed, short, others>>

SetMtimeOfFile(l) ==
    /\ Step(l, "stamping")
    /\ file' = [file EXCEPT ![CurrentFile(l)].time = Stamp[l]]
    /\ FileDone(l)
    /\ UNCHANGED <<loaded, suspended, clashed, short, others>>

\* The file cannot be written to: fopen(filename, "rb").
OpenToCompare(l) ==
    \/ /\ Step(l, "extract")
       /\ ~CanWrite(CurrentFile(l))
       /\ Goes(l, "compare")
       /\ UNCHANGED <<file, at, loaded, suspended, clashed, short, others>>
    \/ /\ Step(l, "compare")
       /\ Goes(l, IF CanCompare(CurrentFile(l)) THEN "comparing" ELSE "fatal")
       /\ UNCHANGED <<file, at, loaded, suspended, clashed, short, others>>

\* It is in use, but it may be the same as what is embedded.
Same(l) ==
    file[CurrentFile(l)].halves = [i \in 1 .. 2 |-> Content[l][CurrentFile(l)]]

Compare(l) ==
    /\ Step(l, "comparing")
    /\ IF Same(l) THEN FileDone(l) ELSE Goes(l, "fatal") /\ UNCHANGED at
    /\ UNCHANGED <<file, loaded, suspended, clashed, short, others>>

-----------------------------------------------------------------------------
(* RunProcess and Inject *)

RunProcess(l) ==
    /\ Step(l, "run")
    /\ \E what \in IF CanExecute(Injector) THEN Executed(Injector) ELSE {Missing} :
           Goes(l, IF what \in Contents THEN "injecting" ELSE "fatal")
    /\ UNCHANGED <<file, at, loaded, suspended, clashed, short, others>>

\* SetThreadsRunning(target_pid, false): te.dwSize is not initialised, and
\* Thread32First may refuse it; then no thread is suspended.  Otherwise the loop
\* has no end, and the snapshot is of the threads of all processes: it stops
\* when the injector has suspended itself.
SuspendThreads(l) ==
    /\ Step(l, "injecting")
    /\ \E k \in SUBSET {o \in Launchers : Active(o) \/ loaded[o] # Missing} :
           suspended' = suspended \cup k \cup {l}
    /\ UNCHANGED <<file, pc, at, loaded, clashed, short, others>>

\* Thread32First has refused: CreateRemoteThread with LoadLibrary, whose result
\* nobody looks at; or OpenProcess, WriteProcessMemory or CreateRemoteThread
\* fail.  RunProcess does not look at the injector's result either.
LoadLibrary(l) ==
    /\ Step(l, "injecting")
    /\ Goes(l, "done")
    /\ loaded' \in {[loaded EXCEPT ![l] = what] :
                        what \in {Missing} \cup
                            IF CanExecute(Library) THEN Executed(Library) ELSE {}}
    /\ UNCHANGED <<file, at, suspended, clashed, short, others>>

-----------------------------------------------------------------------------
(* The environment *)

Kill(l) ==
    /\ Active(l)
    /\ Goes(l, "killed")
    /\ at' = [at EXCEPT ![l] = 1]
    /\ suspended' = suspended \ {l}
    /\ others' = [others EXCEPT ![l] = {}]
    /\ UNCHANGED <<file, loaded, clashed, short>>

ShellExits(l) ==
    /\ loaded[l] # Missing /\ l \notin suspended
    /\ loaded' = [loaded EXCEPT ![l] = Missing]
    /\ others' = [Noticed(l) EXCEPT ![l] = {}]
    /\ UNCHANGED <<file, pc, at, suspended, clashed, short>>

Next == \E l \in Launchers :
           \/ Launch(l) \/ OpenToCheck(l) \/ Check(l)
           \/ OpenToWrite(l) \/ WriteFirst(l) \/ WriteSecond(l)
           \/ OpenToStamp(l) \/ SetMtimeOfFile(l)
           \/ OpenToCompare(l) \/ Compare(l)
           \/ RunProcess(l) \/ SuspendThreads(l) \/ LoadLibrary(l)
           \/ Kill(l) \/ ShellExits(l)

Spec == Init /\ [][Next]_vars

-----------------------------------------------------------------------------
(* Properties *)

Damaged == clashed \cup short

\* A file with a launcher's time is what that launcher has embedded, whoever
\* was killed at whatever step: MtimeMatchesSelf may skip it.  Two launchers
\* that rewrite one file at the same time, and a write that fails, break this.
StampedIsWhole ==
    \A l \in Launchers, f \in FileNames \ Damaged :
        file[f].time = Stamp[l] => file[f] = Whole(Content[l][f], Stamp[l])

\* A shell runs the library of the launcher that was started in it, or one that
\* a launcher which was active at the same time has written, or begun to write.
LoadsItsOwn ==
    \A l \in Launchers :
        \/ loaded[l] \in {Missing, Content[l][Library]}
        \/ \E o \in others[l] : loaded[l] \in {Broken, Content[o][Library]}
        \/ Library \in Damaged

\* A launcher that nobody disturbs does not fail, whatever those before it have
\* left behind: what was only half written is written again, and a library in
\* use does no harm unless it is another one.
FailsOnlyDisturbed ==
    [][\A l \in Launchers :
          Active(l) /\ pc'[l] = "fatal" =>
              \/ others[l] # {}
              \/ Damaged # {}
              \/ \E k \in Launchers : loaded[k] \notin {Missing, Content[l][Library]}]_vars

=============================================================================
