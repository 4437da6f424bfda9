------------------------------- MODULE Prompt -------------------------------
(***************************************************************************)
(* The shell's prompt: cmd.exe asks GetDriveTypeW of the current drive,    *)
(* compares the answer and calls WNetGetConnectionW for $M.  The library   *)
(* hooks all three while other threads of the shell run (Hook), and the    *)
(* prompt then shows what GetGitBranch makes of the repository, which      *)
(* other programs change (GitPrompt).                                      *)
(***************************************************************************)
EXTENDS Hook, GitPrompt

vars == <<hookVars, gitVars>>

TypeOK == HookTypeOK /\ GitTypeOK

Init == HookInit /\ GitInit

\* The call, and what it was for, are over.
GoesOn(t, step) ==
    /\ Moves(t, step, "outside")
    /\ site' = [site EXCEPT ![t] = "elsewhere"]
    /\ UNCHANGED <<byte, trap, import, original, compare, process, target, first, raced>>

ReturnElsewhere(t) ==
    /\ site[t] = "elsewhere"
    /\ GoesOn(t, "returned")
    /\ UNCHANGED gitVars

\* The function that cmd.exe calls for $M.
Connection == IF "WNetGetConnectionW" \in image THEN "WNetGetConnectionW" ELSE "WNetGetConnectionWStub"

\* $M is empty of another drive; the real WNetGetConnectionW knows only remote
\* ones.
PromptWithoutBranch ==
    /\ site[Shell] = "prompt"
    /\ drive # compare \/ import[Connection] = "own"
    /\ GoesOn(Shell, "returned")
    /\ UNCHANGED gitVars

AskBranch ==
    /\ site[Shell] = "prompt"
    /\ drive = compare /\ import[Connection] = "replacement"
    /\ git2
    /\ Moves(Shell, "returned", "asking")
    /\ UNCHANGED <<byte, trap, import, original, compare, process, site, target, first, raced>>
    /\ GetGitBranch

\* git_repository_discover is 0 if libgit2 has not been loaded.
AskWithoutGit2 ==
    /\ at[Shell] = "returned" /\ site[Shell] = "prompt"
    /\ drive = compare /\ import[Connection] = "replacement"
    /\ ~git2
    /\ Dies
    /\ UNCHANGED gitVars

PromptWithBranch ==
    /\ call.step = "returned"
    /\ GoesOn(Shell, "asking")
    /\ call' = NoCall /\ disturbed' = FALSE
    /\ UNCHANGED <<repository, held>>

ChangeDrive ==
    /\ process = "running"
    /\ at[Shell] = "outside"
    /\ drive' \in {"fixed", "remote"} \ {drive}
    /\ UNCHANGED <<attach, git2, byte, trap, cmdVars, process, threadVars, gitVars>>

Next ==
    \/ HookStep /\ UNCHANGED gitVars
    \/ \E t \in Threads : ReturnElsewhere(t)
    \/ PromptWithoutBranch \/ AskBranch \/ AskWithoutGit2 \/ PromptWithBranch
    \/ process = "running" /\ GitStep /\ UNCHANGED hookVars
    \/ at[Shell] \in {"returned", "asking"} /\ RepositoryChanges /\ UNCHANGED hookVars
    \/ ChangeDrive

Spec == Init /\ [][Next]_vars

-----------------------------------------------------------------------------
(* Properties *)

\* The trap, the repairs and the replaced exit never cost the shell its life:
\* no thread is caught without a handler, and exit reaches the C library.  A
\* second thread in the trap breaks this, and so does a prompt without libgit2.
DiesOnlyRaced == process = "dead" => raced \/ (at[Shell] = "returned" /\ ~git2)

\* A prompt on a local drive shows the branch, or the commit, or the rebase that
\* the repository is in, however the hook got there -- unless the first call of
\* GetDriveTypeW was another than the prompt's, after which no prompt does.
\* Prompts while the repository changes may mix what was with what is.
PromptTellsRepository ==
    [][/\ site[Shell] = "prompt" /\ at'[Shell] = "outside"
       /\ drive = "fixed" /\ first = "prompt" /\ ~raced /\ ~disturbed
       => at[Shell] = "asking" /\ call.remote = Shown(repository)]_vars

\* Whichever of its questions fails, and whatever the repository becomes in the
\* meantime, GetGitBranch frees all that libgit2 has given to it: a shell shows
\* many prompts.
FreesWhatItGot == held # {} => call.step \notin {"none", "discover", "returned"}

=============================================================================
