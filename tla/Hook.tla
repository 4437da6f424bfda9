-------------------------------- MODULE Hook --------------------------------
(***************************************************************************)
(* How the library gets hold of cmd.exe (OnAttach and HookTrap,            *)
(* src/src/cmdEx_dll_x64_dll/dll.cc).  The first byte of GetDriveTypeW     *)
(* becomes a HALT.  Whichever thread of the shell calls it next is caught  *)
(* in a handler, which puts the byte back, replaces imports of cmd.exe     *)
(* and, if the call is the prompt's, changes the comparison after it.      *)
(* Nothing keeps a second thread out of the trap in the meantime.          *)
(***************************************************************************)
EXTENDS Naturals

CONSTANTS Threads,  \* the shell's threads that call GetDriveTypeW
          Shell,    \* the one that shows prompts
          Images    \* what a cmd.exe imports, delayed or not

Imports == {"WNetGetConnectionW", "WNetGetConnectionWStub",
            "ReadConsoleW", "ReadConsoleWStub", "_o_exit"}
Null == "null"

\* cmd.exe asks for the connection of a drive under one name or the other.
ASSUME HookAssumption ==
    /\ Shell \in Threads
    /\ Images \subseteq SUBSET Imports
    /\ \A i \in Images : i \cap {"WNetGetConnectionW", "WNetGetConnectionWStub"} # {}

VARIABLES
    attach,   \* the next step of OnAttach
    git2,     \* libgit2 is loaded, and its functions are known
    byte,     \* the first byte of GetDriveTypeW
    trap,     \* g_hook_trap_addr and g_veh, unless 0, and g_hook_trap_value
    image,    \* what this cmd.exe imports
    import,   \* where its imports lead
    original, \* g_original_exit
    compare,  \* the type of drive that the prompt compares with
    drive,    \* the type of the current drive
    at,       \* the next step of a thread
    site,     \* what it has called GetDriveTypeW for
    target,   \* in the handler: it has read g_hook_trap_addr, and it was not 0
    process,  \* what has become of the shell
    first,    \* history: the call that was trapped first
    raced     \* history: two threads were in the trap at once

threadVars == <<at, site, target, first, raced>>
cmdVars == <<image, import, original, compare>>
shellVars == <<drive, process>>
hookVars == <<attach, git2, byte, trap, cmdVars, shellVars, threadVars>>

InTrap == {"trapped", "patch", "restore", "write", "connection", "console",
           "save", "exit", "remove", "forget"}

HookTypeOK ==
    /\ attach \in {"git2", "address", "handler", "halt", "done"}
    /\ git2 \in BOOLEAN
    /\ byte \in {"own", "halt", "breakpoint"}
    /\ trap \in [addr : BOOLEAN, handler : BOOLEAN, value : {"zero", "own", "breakpoint"}]
    /\ image \in Images
    /\ import \in [Imports -> {"own", "replacement"}]
    /\ original \in {Null, "own", "replacement"}
    /\ {compare, drive} \subseteq {"fixed", "remote"}
    /\ at \in [Threads -> {"outside", "entered", "returned", "asking"} \cup InTrap]
    /\ site \in [Threads -> {"prompt", "elsewhere"}]
    /\ target \in [Threads -> BOOLEAN]
    /\ process \in {"running", "ended", "dead"}
    /\ first \in {"none", "prompt", "elsewhere"}
    /\ raced \in BOOLEAN

HookInit ==
    /\ attach = "git2" /\ git2 = FALSE
    /\ byte = "own"
    /\ trap = [addr |-> FALSE, handler |-> FALSE, value |-> "zero"]
    /\ image \in Images
    /\ import = [i \in Imports |-> "own"]
    /\ original = Null
    /\ compare = "remote" /\ drive \in {"fixed", "remote"}
    /\ at = [t \in Threads |-> "outside"]
    /\ site = [t \in Threads |-> "elsewhere"]
    /\ target = [t \in Threads |-> FALSE]
    /\ process = "running"
    /\ first = "none" /\ raced = FALSE

-----------------------------------------------------------------------------
(* OnAttach, in the thread the injector has made *)

AttachStep(step, next) ==
    /\ process = "running"
    /\ attach = step
    /\ attach' = next
    /\ UNCHANGED <<cmdVars, shellVars, threadVars>>

\* A library that does not load is an Error, which is but a message.
LoadGit2FunctionPointers ==
    /\ AttachStep("git2", "address")
    /\ git2' \in BOOLEAN
    /\ UNCHANGED <<byte, trap>>

SetTrapAddress ==
    /\ AttachStep("address", "handler")
    /\ trap' = [trap EXCEPT !.addr = TRUE, !.value = byte]
    /\ UNCHANGED <<git2, byte>>

AddHandler ==
    /\ AttachStep("handler", "halt")
    /\ trap' = [trap EXCEPT !.handler = TRUE]
    /\ UNCHANGED <<git2, byte>>

WriteHalt ==
    /\ AttachStep("halt", "done")
    /\ byte' = "halt"
    /\ UNCHANGED <<git2, trap>>

\* Variant: the trap is set before there is a handler.
OnAttachTrapFirst ==
    \/ LoadGit2FunctionPointers
    \/ SetTrapAddress
    \/ AttachStep("handler", "halt") /\ byte' = "halt" /\ UNCHANGED <<git2, trap>>
    \/ /\ AttachStep("halt", "done")
       /\ trap' = [trap EXCEPT !.handler = TRUE]
       /\ UNCHANGED <<git2, byte>>

OnAttach == LoadGit2FunctionPointers \/ SetTrapAddress \/ AddHandler \/ WriteHalt

-----------------------------------------------------------------------------
(* GetDriveTypeW *)

\* Thread t goes from one step to another, and nothing else of it changes.
Moves(t, step, next) ==
    /\ process = "running"
    /\ at[t] = step
    /\ at' = [at EXCEPT ![t] = next]
    /\ UNCHANGED <<attach, git2, image, drive>>

Call(t) ==
    /\ Moves(t, "outside", "entered")
    /\ \E s \in {"prompt", "elsewhere"} :
           /\ s = "prompt" => t = Shell
           /\ site' = [site EXCEPT ![t] = s]
    /\ UNCHANGED <<byte, trap, import, original, compare, process, target, first, raced>>

\* The process ends with an exception that nobody handles.
Dies ==
    /\ process = "running"
    /\ process' = "dead"
    /\ UNCHANGED <<attach, git2, byte, trap, cmdVars, drive, threadVars>>

\* The first byte is executed: for the first time, or again after the handler.
Execute(t) ==
    \/ /\ byte = "own"
       /\ Moves(t, "entered", "returned")
       /\ UNCHANGED <<byte, trap, import, original, compare, process, site, target, first, raced>>
    \/ /\ byte = "halt"
       /\ Moves(t, "entered", "trapped")
       /\ first' = IF first = "none" THEN site[t] ELSE first
       /\ raced' = (raced \/ \E u \in Threads : at[u] \in InTrap)
       /\ UNCHANGED <<byte, trap, import, original, compare, process, site, target>>
    \/ byte = "breakpoint" /\ at[t] = "entered" /\ Dies

-----------------------------------------------------------------------------
(* HookTrap *)

Unraced == UNCHANGED <<site, first, raced, process>>

\* The exception is of the right kind.  Is it at the right address?
CheckAddress(t) ==
    \/ /\ trap.handler /\ trap.addr
       /\ Moves(t, "trapped", "patch")
       /\ UNCHANGED <<byte, trap, import, original, compare, target>> /\ Unraced
    \/ ~(trap.handler /\ trap.addr) /\ at[t] = "trapped" /\ Dies

\* Only the prompt's call is followed by: cmp eax, 4; jnz.
PatchCompare(t) ==
    /\ Moves(t, "patch", "restore")
    /\ compare' = IF site[t] = "prompt" THEN "fixed" ELSE compare
    /\ UNCHANGED <<byte, trap, import, original, target>> /\ Unraced

\* WriteMemory(g_hook_trap_addr, &g_hook_trap_value, 1): the address is read
\* first, the value when it is written.  At 0 it is an Error.
RestoreByte(t) ==
    \/ /\ Moves(t, "restore", "write")
       /\ target' = [target EXCEPT ![t] = trap.addr]
       /\ UNCHANGED <<byte, trap, import, original, compare>> /\ Unraced
    \/ /\ Moves(t, "write", "connection")
       /\ byte' = IF target[t] THEN trap.value ELSE byte
       /\ target' = [target EXCEPT ![t] = FALSE]
       /\ UNCHANGED <<trap, import, original, compare>> /\ Unraced

\* Variant: delayed imports are not looked for.
GetUndelayedImport(name) == IF name \in image \ {"WNetGetConnectionWStub"} THEN name ELSE Null

GetImportByName(name) == IF name \in image THEN name ELSE Null

\* WriteMemory to the import of this name, or of its stub; at 0 it is an Error.
Replaced(name, stub) ==
    LET found == {GetImportByName(name)} \ {Null}
        imp == IF found # {} THEN found ELSE {GetImportByName(stub)}
    IN  [i \in Imports |-> IF i \in imp THEN "replacement" ELSE import[i]]

PatchConnection(t) ==
    /\ Moves(t, "connection", "console")
    /\ import' = Replaced("WNetGetConnectionW", "WNetGetConnectionWStub")
    /\ UNCHANGED <<byte, trap, original, compare, target>> /\ Unraced

PatchReadConsole(t) ==
    /\ Moves(t, "console", "save")
    /\ import' = Replaced("ReadConsoleW", "ReadConsoleWStub")
    /\ UNCHANGED <<byte, trap, original, compare, target>> /\ Unraced

\* Variant: the import is replaced before it is saved.
PatchExitFirst(t) ==
    \/ /\ Moves(t, "save", "exit")
       /\ import' = Replaced("_o_exit", "_o_exit")
       /\ UNCHANGED <<byte, trap, original, compare, target>> /\ Unraced
    \/ /\ Moves(t, "exit", "remove")
       /\ original' = IF "_o_exit" \in image THEN import["_o_exit"] ELSE original
       /\ UNCHANGED <<byte, trap, import, compare, target>> /\ Unraced

PatchExit(t) ==
    \/ /\ Moves(t, "save", "exit")
       /\ original' = IF "_o_exit" \in image THEN import["_o_exit"] ELSE original
       /\ UNCHANGED <<byte, trap, import, compare, target>> /\ Unraced
    \/ /\ Moves(t, "exit", "remove")
       /\ import' = Replaced("_o_exit", "_o_exit")
       /\ UNCHANGED <<byte, trap, original, compare, target>> /\ Unraced

\* And the instruction is executed again.
RemoveTrap(t) ==
    \/ /\ Moves(t, "remove", "forget")
       /\ trap' = [trap EXCEPT !.handler = FALSE]
       /\ UNCHANGED <<byte, import, original, compare, target>> /\ Unraced
    \/ /\ Moves(t, "forget", "entered")
       /\ trap' = [trap EXCEPT !.addr = FALSE, !.value = "breakpoint"]
       /\ UNCHANGED <<byte, import, original, compare, target>> /\ Unraced

HookTrap(t) ==
    \/ CheckAddress(t) \/ PatchCompare(t) \/ RestoreByte(t) \/ PatchConnection(t)
    \/ PatchReadConsole(t) \/ PatchExit(t) \/ RemoveTrap(t)

-----------------------------------------------------------------------------
(* The shell's end *)

\* cmd.exe calls exit, or ExitReplacement, which saves the history and calls
\* g_original_exit: 0, or itself, over and over, if that is what was saved.
ExitReplacement ==
    /\ process = "running"
    /\ at[Shell] = "outside"
    /\ process' = IF "_o_exit" \in image /\ import["_o_exit"] = "replacement" /\ original # "own"
                  THEN "dead" ELSE "ended"
    /\ UNCHANGED <<attach, git2, byte, trap, cmdVars, drive, threadVars>>

HookStep == OnAttach \/ ExitReplacement \/ \E t \in Threads : Call(t) \/ Execute(t) \/ HookTrap(t)

=============================================================================
