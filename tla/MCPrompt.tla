------------------------------ MODULE MCPrompt ------------------------------
(***************************************************************************)
(* The prompt's thread and another one; a cmd.exe of today, and one that   *)
(* has its functions under other names and no _o_exit; the states of a     *)
(* repository that src/test.py tries, and those of rebases and of git am   *)
(* that it does not, with a rebase whose files are still being written.    *)
(***************************************************************************)
EXTENDS Prompt, TLC

CONSTANTS Other, Child, One, Two

MCImages == {{"WNetGetConnectionWStub", "ReadConsoleW", "_o_exit"},
             {"WNetGetConnectionW", "ReadConsoleWStub"}}

MCWords == {Child, One, Two}

NoFile == [f \in FileNames |-> Missing]

HeadFile == "head-name" :> <<Prefix, Child, Newline>>

Repository(head, directory, files) ==
    [head |-> head, directory |-> directory, file |-> files @@ NoFile]

Steps(this, last) == this :> <<One, Newline>> @@ last :> <<Two>>

MCRepositories ==
    {Repository(head, "none", NoFile) : head \in {"none", "unborn", "branch", "detached", "damaged"}}
    \cup {Repository("detached", "rebase-merge", files) :
              files \in {HeadFile @@ Steps("msgnum", "end"), HeadFile @@ "end" :> <<>>}}
    \cup {Repository("detached", "rebase-apply", HeadFile @@ "rebasing" :> <<>> @@ Steps("next", "last"))}
    \cup {Repository("branch", "rebase-apply", files @@ Steps("next", "last")) :
              files \in {NoFile, "applying" :> <<>>}}

=============================================================================
