---------------------------- MODULE PromptProofs ----------------------------
(***************************************************************************)
(* What TLAPS proves about the shell's prompt for any number of threads    *)
(* and every kind of cmd.exe and of repository.                            *)
(***************************************************************************)
EXTENDS Prompt, TLAPS

\* The trap as it is set, and stays until HookTrap takes it away.
Armed == [addr |-> TRUE, handler |-> TRUE, value |-> "own"]

\* The steps of HookTrap before and after the byte is put back.
BeforeRestore == {"trapped", "patch", "restore", "write"}
BeforeRemove == {"connection", "console", "save", "exit", "remove"}

\* As long as no second thread has been in the trap: there is one thread in it,
\* and only after OnAttach is done; until the byte is put back it is the trap's,
\* and from then on never again.
OneInTrap ==
    /\ \A t, u \in Threads : at[t] \in InTrap /\ at[u] \in InTrap => t = u
    /\ \A t \in Threads :
           /\ at[t] \in InTrap => first = site[t]
           /\ at[t] \in BeforeRestore => byte = "halt"
           /\ at[t] \in BeforeRemove => byte = "own" /\ trap = Armed
           /\ at[t] = "write" => target[t]
           /\ at[t] = "forget" => byte = "own"

TrapIsSet ==
    /\ byte \in {"own", "halt"}
    /\ attach = "handler" => trap.addr /\ trap.value = "own"
    /\ attach = "halt" => trap = Armed
    /\ attach # "done" => first = "none"
    /\ byte = "halt" => trap = Armed
    /\ first = "none" /\ attach = "done" => byte = "halt"
    /\ byte = "halt" /\ first # "none" => \E t \in Threads : at[t] \in BeforeRestore

\* exit is replaced after it has been saved.
ExitIsSaved ==
    /\ first = "none" => import["_o_exit"] = "own"
    /\ \A t \in Threads : at[t] \in InTrap \ {"remove", "forget"} => import["_o_exit"] = "own"
    /\ \A t \in Threads : at[t] = "exit" /\ "_o_exit" \in image => original = "own"
    /\ import["_o_exit"] = "replacement" => original = "own"

\* A thread that is outside has called for nothing, and only the shell's shows
\* prompts.
CalledFor ==
    \A t \in Threads :
        /\ at[t] = "outside" => site[t] = "elsewhere"
        /\ site[t] = "prompt" => t = Shell

\* Nobody is in the trap before it is there.
Attached ==
    /\ attach # "done" => byte = "own" /\ ~raced
    /\ \A t \in Threads : at[t] \in InTrap => attach = "done"
    /\ attach \notin {"git2", "address"} => trap.value # "zero"

HookInv ==
    /\ HookTypeOK
    /\ CalledFor
    /\ Attached
    /\ ~raced => OneInTrap /\ TrapIsSet /\ ExitIsSaved
    /\ DiesOnlyRaced

\* If the prompt's call was the first in the trap, the comparison and the import
\* are changed by the time it is let go.
PromptIsHooked ==
    first = "prompt" /\ ~raced =>
        /\ compare # "fixed" => at[Shell] \in {"trapped", "patch"} /\ site[Shell] = "prompt"
        /\ \/ import[Connection] = "replacement"
           \/ at[Shell] \in BeforeRestore \cup {"connection"}

\* No step of OnAttach, HookTrap, an imported function or ExitReplacement
\* disturbs the invariant of the hook.
LEMMA HookStepFacts == HookInv /\ HookStep => HookInv'
<1> SUFFICES ASSUME HookInv, HookStep PROVE HookInv'
  OBVIOUS
<1> USE HookAssumption DEF HookInv, HookTypeOK, CalledFor, Attached, OneInTrap, TrapIsSet,
    ExitIsSaved, DiesOnlyRaced,
    InTrap, Armed, BeforeRestore, BeforeRemove, cmdVars, shellVars, threadVars, Moves, AttachStep
<1>1. ASSUME LoadGit2FunctionPointers PROVE HookInv'
  BY <1>1 DEF LoadGit2FunctionPointers
<1>2. ASSUME SetTrapAddress PROVE HookInv'
  <2>1. HookTypeOK' /\ CalledFor' /\ Attached'
    BY <1>2 DEF SetTrapAddress
  <2>2. ASSUME ~raced' PROVE OneInTrap'
    BY <1>2, <2>2 DEF SetTrapAddress
  <2>3. ASSUME ~raced' PROVE TrapIsSet'
    BY <1>2, <2>3 DEF SetTrapAddress
  <2>4. ASSUME ~raced' PROVE ExitIsSaved'
    BY <1>2, <2>4 DEF SetTrapAddress
  <2>5. DiesOnlyRaced'
    BY <1>2 DEF SetTrapAddress
  <2> QED BY <2>1, <2>2, <2>3, <2>4, <2>5
<1>3. ASSUME AddHandler PROVE HookInv'
  BY <1>3 DEF AddHandler
<1>4. ASSUME WriteHalt PROVE HookInv'
  BY <1>4 DEF WriteHalt
<1>5. ASSUME NEW t \in Threads, Call(t) PROVE HookInv'
  BY <1>5 DEF Call
<1>6. ASSUME NEW t \in Threads, Execute(t) PROVE HookInv'
  BY <1>6 DEF Execute, Dies
<1>7. ASSUME NEW t \in Threads, CheckAddress(t) PROVE HookInv'
  BY <1>7 DEF CheckAddress, Unraced, Dies
<1>8. ASSUME NEW t \in Threads, PatchCompare(t) PROVE HookInv'
  BY <1>8 DEF PatchCompare, Unraced
<1>9. ASSUME NEW t \in Threads, RestoreByte(t) PROVE HookInv'
  <2>1. HookTypeOK'
    <3>1. HookTypeOK /\ (at[t] = "write" => trap.value \in {"own", "breakpoint"})
      OBVIOUS
    <3> HIDE DEF CalledFor, Attached, OneInTrap, TrapIsSet, ExitIsSaved, DiesOnlyRaced, HookInv
    <3>2. CASE at[t] = "restore"
      BY <1>9, <3>1, <3>2 DEF RestoreByte, Unraced
    <3>3. CASE at[t] = "write"
      <4>1. /\ at' = [at EXCEPT ![t] = "connection"]
            /\ byte' \in {byte, trap.value}
            /\ target' = [target EXCEPT ![t] = FALSE]
            /\ UNCHANGED <<attach, git2, trap, image, import, original, compare, drive, site,
                           process, first, raced>>
        BY <1>9, <3>3 DEF RestoreByte, Unraced
      <4>2. byte' \in {"own", "halt", "breakpoint"}
        BY <3>1, <3>3, <4>1
      <4> QED BY <3>1, <4>1, <4>2
    <3> QED BY <1>9, <3>2, <3>3 DEF RestoreByte
  <2>6. CalledFor'
    BY <1>9 DEF RestoreByte, Unraced
  <2>7. Attached'
    BY <1>9 DEF RestoreByte, Unraced
  <2>2. ASSUME ~raced' PROVE OneInTrap'
    BY <1>9, <2>2 DEF RestoreByte, Unraced
  <2>3. ASSUME ~raced' PROVE TrapIsSet'
    BY <1>9, <2>3 DEF RestoreByte, Unraced
  <2>4. ASSUME ~raced' PROVE ExitIsSaved'
    BY <1>9, <2>4 DEF RestoreByte, Unraced
  <2>5. DiesOnlyRaced'
    BY <1>9 DEF RestoreByte, Unraced
  <2> QED BY <2>1, <2>2, <2>3, <2>4, <2>5, <2>6, <2>7
<1>10. ASSUME NEW t \in Threads, PatchConnection(t) PROVE HookInv'
  BY <1>10 DEF PatchConnection, Unraced, Replaced, GetImportByName, Null, Imports
<1>11. ASSUME NEW t \in Threads, PatchReadConsole(t) PROVE HookInv'
  BY <1>11 DEF PatchReadConsole, Unraced, Replaced, GetImportByName, Null, Imports
<1>12. ASSUME NEW t \in Threads, PatchExit(t) PROVE HookInv'
  BY <1>12 DEF PatchExit, Unraced, Replaced, GetImportByName, Null, Imports
<1>13. ASSUME NEW t \in Threads, RemoveTrap(t) PROVE HookInv'
  <2>1. PICK next \in {"forget", "entered"} :
            /\ at[t] = (IF next = "forget" THEN "remove" ELSE "forget")
            /\ at' = [at EXCEPT ![t] = next]
            /\ trap' = (IF next = "forget" THEN [trap EXCEPT !.handler = FALSE]
                        ELSE [trap EXCEPT !.addr = FALSE, !.value = "breakpoint"])
    BY <1>13, Zenon DEF RemoveTrap, Moves
  <2>2. UNCHANGED <<attach, git2, byte, cmdVars, shellVars, site, target, first, raced>>
    BY <1>13, Zenon DEF RemoveTrap, Moves, Unraced, cmdVars, shellVars
  <2>3. /\ trap' \in [addr : BOOLEAN, handler : BOOLEAN, value : {"zero", "own", "breakpoint"}]
        /\ trap'.value \in {trap.value, "breakpoint"}
    BY <2>1
  <2>4. at[t] \in InTrap /\ (at'[t] \in InTrap <=> next = "forget")
    BY <2>1
  <2>5. HookTypeOK'
    BY <2>1, <2>2, <2>3
  <2>6. CalledFor'
    BY <2>1, <2>2
  <2>7. Attached'
    BY <2>1, <2>2, <2>3, <2>4
  <2>8. ASSUME ~raced' PROVE OneInTrap'
    BY <2>1, <2>2, <2>8
  <2>9. ASSUME ~raced' PROVE TrapIsSet'
    BY <2>1, <2>2, <2>4, <2>9
  <2>10. ASSUME ~raced' PROVE ExitIsSaved'
    BY <2>1, <2>2, <2>10
  <2>11. DiesOnlyRaced'
    BY <2>1, <2>2, <2>4
  <2> HIDE DEF HookTypeOK, CalledFor, Attached, OneInTrap, TrapIsSet, ExitIsSaved, DiesOnlyRaced
  <2> QED BY <2>5, <2>6, <2>7, <2>8, <2>9, <2>10, <2>11
<1>14. ASSUME ExitReplacement PROVE HookInv'
  BY <1>14 DEF ExitReplacement
<1> QED BY <1>1, <1>2, <1>3, <1>4, <1>5, <1>6, <1>7, <1>8, <1>9, <1>10, <1>11, <1>12, <1>13,
    <1>14 DEF HookStep, OnAttach, HookTrap

\* Neither does a step of cmd.exe or of GetGitBranch.
LEMMA PromptStepFacts ==
    ASSUME HookInv, Next
    PROVE  HookInv'
<1> USE HookAssumption
<1>1. ASSUME HookStep PROVE HookInv'
  BY <1>1, HookStepFacts
<1>2. ASSUME NEW t \in Threads, NEW step \in {"returned", "asking"}, GoesOn(t, step) PROVE HookInv'
  BY <1>2 DEF GoesOn, Moves, HookInv, HookTypeOK, CalledFor, Attached, OneInTrap, TrapIsSet,
      ExitIsSaved, DiesOnlyRaced, InTrap, Armed, BeforeRestore, BeforeRemove
<1>3. ASSUME AskBranch PROVE HookInv'
  BY <1>3 DEF AskBranch, Moves, HookInv, HookTypeOK, CalledFor, Attached, OneInTrap,
      TrapIsSet, ExitIsSaved, DiesOnlyRaced, InTrap, Armed, BeforeRestore, BeforeRemove
<1>4. ASSUME AskWithoutGit2 PROVE HookInv'
  BY <1>4 DEF AskWithoutGit2, Dies, cmdVars, threadVars, HookInv, HookTypeOK, CalledFor,
      Attached, OneInTrap, TrapIsSet, ExitIsSaved, DiesOnlyRaced, InTrap, Armed,
      BeforeRestore, BeforeRemove
<1>5. ASSUME ChangeDrive PROVE HookInv'
  BY <1>5 DEF ChangeDrive, cmdVars, threadVars, HookInv, HookTypeOK, CalledFor, Attached,
      OneInTrap, TrapIsSet, ExitIsSaved, DiesOnlyRaced, InTrap, Armed, BeforeRestore,
      BeforeRemove
<1>6. ASSUME UNCHANGED hookVars PROVE HookInv'
  BY <1>6 DEF hookVars, shellVars, cmdVars, threadVars, HookInv, HookTypeOK, CalledFor,
      Attached, OneInTrap, TrapIsSet, ExitIsSaved, DiesOnlyRaced, InTrap, Armed,
      BeforeRestore, BeforeRemove
<1> QED BY <1>1, <1>2, <1>3, <1>4, <1>5, <1>6 DEF Next, ReturnElsewhere, PromptWithoutBranch,
    PromptWithBranch

\* Once the shell shows a prompt, the import it calls for $M is the replacement,
\* and stays so.
LEMMA HookedStepFacts ==
    ASSUME HookInv, PromptIsHooked, Next
    PROVE  PromptIsHooked'
<1> USE HookAssumption DEF PromptIsHooked, Connection, BeforeRestore
<1>1. ASSUME HookStep PROVE PromptIsHooked'
  <2> USE DEF cmdVars, shellVars, threadVars, Moves, AttachStep
  <2>1. ASSUME OnAttach PROVE PromptIsHooked'
    BY <2>1 DEF OnAttach, LoadGit2FunctionPointers, SetTrapAddress, AddHandler, WriteHalt
  <2>2. ASSUME ExitReplacement PROVE PromptIsHooked'
    BY <2>2 DEF ExitReplacement
  <2>3. ASSUME NEW t \in Threads, Call(t) PROVE PromptIsHooked'
    BY <2>3 DEF Call, HookInv, CalledFor, HookTypeOK
  <2>4. ASSUME NEW t \in Threads, Execute(t) PROVE PromptIsHooked'
    BY <2>4 DEF Execute, Dies, HookInv, CalledFor, TrapIsSet, HookTypeOK, InTrap
  <2>5. ASSUME NEW t \in Threads, HookTrap(t) PROVE PromptIsHooked'
    <3> USE DEF Unraced, HookInv, HookTypeOK, CalledFor, OneInTrap, InTrap
    <3>1. ASSUME CheckAddress(t) PROVE PromptIsHooked'
      BY <3>1 DEF CheckAddress, Dies
    <3>2. ASSUME PatchCompare(t) PROVE PromptIsHooked'
      BY <3>2 DEF PatchCompare
    <3>3. ASSUME RestoreByte(t) PROVE PromptIsHooked'
      BY <3>3 DEF RestoreByte
    <3>4. ASSUME PatchConnection(t) PROVE PromptIsHooked'
      BY <3>4 DEF PatchConnection, Replaced, GetImportByName, Null, Imports
    <3>5. ASSUME PatchReadConsole(t) PROVE PromptIsHooked'
      BY <3>5 DEF PatchReadConsole, Replaced, GetImportByName, Null, Imports
    <3>6. ASSUME PatchExit(t) PROVE PromptIsHooked'
      BY <3>6 DEF PatchExit, Replaced, GetImportByName, Null, Imports
    <3>7. ASSUME RemoveTrap(t) PROVE PromptIsHooked'
      BY <3>7 DEF RemoveTrap
    <3> QED BY <2>5, <3>1, <3>2, <3>3, <3>4, <3>5, <3>6, <3>7, Zenon DEF HookTrap
  <2> QED BY <1>1, <2>1, <2>2, <2>3, <2>4, <2>5, Zenon DEF HookStep
<1>2. ASSUME NEW t \in Threads, NEW step \in {"returned", "asking"}, GoesOn(t, step) PROVE PromptIsHooked'
  BY <1>2 DEF GoesOn, Moves, HookInv, HookTypeOK
<1>3. ASSUME AskBranch PROVE PromptIsHooked'
  BY <1>3 DEF AskBranch, Moves, HookInv, HookTypeOK
<1>4. ASSUME AskWithoutGit2 PROVE PromptIsHooked'
  BY <1>4 DEF AskWithoutGit2, Dies, cmdVars, threadVars
<1>5. ASSUME ChangeDrive PROVE PromptIsHooked'
  BY <1>5 DEF ChangeDrive, cmdVars, threadVars
<1>6. ASSUME UNCHANGED hookVars PROVE PromptIsHooked'
  BY <1>6 DEF hookVars, shellVars, cmdVars, threadVars
<1> QED BY <1>1, <1>2, <1>3, <1>4, <1>5, <1>6 DEF Next, ReturnElsewhere, PromptWithoutBranch,
    PromptWithBranch

-----------------------------------------------------------------------------

\* Putting texts together is associative, and an empty one adds nothing.
LEMMA ConcatFacts ==
    ASSUME NEW S, NEW s \in Seq(S), NEW t \in Seq(S), NEW u \in Seq(S)
    PROVE  /\ (s \o t) \o u = s \o (t \o u)
           /\ s \o t \in Seq(S)
           /\ s \o <<>> = s /\ <<>> \o s = s
OBVIOUS

\* A sequence over a set is one over a larger set.
LEMMA SeqOfMore ==
    ASSUME NEW S, NEW T, S \subseteq T, NEW s \in Seq(S)
    PROVE  s \in Seq(T)
<1>1. Len(s) \in Nat /\ s = [i \in 1..Len(s) |-> s[i]] /\ \A i \in 1..Len(s) : s[i] \in T
  OBVIOUS
<1> QED BY <1>1

\* A text ends with a word if its last word is that one.
LEMMA SuffixFacts ==
    ASSUME NEW S, NEW s \in Seq(S), NEW x
    PROVE  IsSuffix(<<x>>, s) <=> s # <<>> /\ s[Len(s)] = x
<1> DEFINE n == Len(s)
           r == [i \in 1..n |-> s[(n - i) + 1]]
<1>1. n \in Nat /\ s \in [1..n -> S] /\ \A i \in 1..n : (n - i) + 1 \in 1..n
  OBVIOUS
<1>2. r \in [1..n -> S]
  BY <1>1
<1>3. r \in Seq(S) /\ Len(r) = n
  BY <1>1, <1>2
<1>4. n > 0 => r[1] = s[n]
  BY <1>1
<1>5. Reverse(s) = r /\ Reverse(<<x>>) = <<x>>
  BY DEF Reverse
<1>6. IsPrefix(<<x>>, r) <=> n > 0 /\ r[1] = x
  <2> HIDE DEF r
  <2> QED BY <1>1, <1>3 DEF IsPrefix
<1>7. s # <<>> <=> n > 0
  OBVIOUS
<1> QED BY <1>4, <1>5, <1>6, <1>7 DEF IsSuffix

\* What ReadInto and TrimRefsHead leave of a file is its text.
LEMMA ReadFacts ==
    ASSUME GitTypeOK, NEW f \in FileNames
    PROVE  /\ ReadInto(f) \in Seq(Pieces)
           /\ TrimRefsHead(ReadInto(f)) \in Seq(Pieces)
           /\ Text(repository, f) \in Seq(Pieces)
           /\ f # "head-name" => ReadInto(f) = Text(repository, f)
           /\ f = "head-name" => TrimRefsHead(ReadInto(f)) = Text(repository, f)
<1> DEFINE file == repository.file[f]
           text == Text(repository, f)
<1> USE DEF TrimRefsHead, IsPrefix
<1>1. CASE file = Missing
  <2>1. ReadInto(f) = <<>>
    BY <1>1 DEF ReadInto
  <2>2. text = <<>>
    BY <1>1 DEF Text
  <2>3. TrimRefsHead(<<>>) = <<>> /\ <<>> \in Seq(Pieces)
    OBVIOUS
  <2> QED BY <2>1, <2>2, <2>3
<1>2. CASE file # Missing
  <2>1. text \in Parts(file) /\ IsText(text, f, file)
    BY <1>2, RepositoriesAssumption DEF Text, GitTypeOK
  <2>2. PICK prefix \in {<<>>, <<Prefix>>}, end \in {<<>>, <<Newline>>} :
            /\ f = "head-name" \/ prefix = <<>>
            /\ file = prefix \o text \o end
    BY <2>1 DEF IsText
  <2>3. text \in Seq(Words) /\ text \in Seq(Pieces)
    BY <2>1, SeqOfMore DEF IsText, Pieces
  <2> DEFINE body == prefix \o text
  <2>4. /\ body \in Seq(Words \cup {Prefix}) /\ body \in Seq(Pieces)
        /\ file \in Seq(Pieces) /\ file = body \o end
    <3>1. prefix \in Seq(Words \cup {Prefix}) /\ prefix \in Seq(Pieces) /\ end \in Seq(Pieces)
      <4>1. Prefix \in Pieces /\ Newline \in Pieces
        BY DEF Pieces
      <4>2. <<Prefix>> \in Seq(Pieces) /\ <<Newline>> \in Seq(Pieces) /\ <<>> \in Seq(Pieces)
        BY <4>1
      <4>3. <<Prefix>> \in Seq(Words \cup {Prefix}) /\ <<>> \in Seq(Words \cup {Prefix})
        OBVIOUS
      <4> QED BY <2>2, <4>2, <4>3, Zenon
    <3>2. text \in Seq(Words \cup {Prefix})
      BY <2>3, SeqOfMore
    <3>3. body \in Seq(Words \cup {Prefix})
      BY <3>1, <3>2, ConcatFacts
    <3>4. body \in Seq(Pieces)
      BY <2>3, <3>1, ConcatFacts
    <3>5. body \o end \in Seq(Pieces)
      BY <3>1, <3>4, ConcatFacts
    <3> QED BY <2>2, <3>3, <3>4, <3>5
  <2>5. IsSuffix(<<Newline>>, file) <=> file # <<>> /\ file[Len(file)] = Newline
    BY <2>4, SuffixFacts
  <2> HIDE DEF body
  <2>6. ReadInto(f) = body
    <3>1. CASE end = <<Newline>>
      <4>1. Front(file) = body /\ file # <<>> /\ file[Len(file)] = Newline
        BY <2>4, <3>1 DEF Front
      <4> QED BY <1>2, <2>5, <4>1 DEF ReadInto
    <3>2. CASE end = <<>>
      <4>1. file = body
        BY <2>4, <3>2
      <4>2. file = <<>> \/ file[Len(file)] # Newline
        BY <2>4, <4>1, WordsAssumption
      <4> QED BY <1>2, <2>5, <4>1, <4>2 DEF ReadInto
    <3> QED BY <3>1, <3>2
  <2>7. Tail(<<Prefix>> \o text) = text
    BY <2>3
  <2>8. ~IsPrefix(<<Prefix>>, text) /\ IsPrefix(<<Prefix>>, <<Prefix>> \o text)
    BY <2>3, WordsAssumption
  <2>9. CASE prefix = <<>>
    BY <2>3, <2>4, <2>6, <2>8, <2>9 DEF body
  <2>10. CASE prefix = <<Prefix>>
    BY <2>2, <2>3, <2>4, <2>6, <2>7, <2>8, <2>10 DEF body
  <2> QED BY <2>9, <2>10
<1> QED BY <1>1, <1>2

\* GetGitBranch after git_repository_head.
AfterHead == {"rebase-merge", "head-name", "msgnum", "end", "rebase-apply", "next", "last",
              "rebasing", "apply-name", "applying", "branch", "id", "text"}

\* GetGitBranch has no more of libgit2 than the next step, if it is the last one,
\* gives back.
HeldSoFar ==
    /\ held \subseteq {"git_dir", "repo", "head_ref"}
    /\ call.step \in {"none", "discover", "returned"} => held = {}
    /\ call.step \in {"open", "not found"} => held \subseteq {"git_dir"}
    /\ call.step \in {"head", "no head"} => held \subseteq {"git_dir", "repo"}

\* What GetGitBranch has found out of a repository that has not changed since.
KnownSoFar ==
    /\ call.step \in {"open", "head"} \cup AfterHead => call.head = repository.head
    /\ call.step = "not found" => repository.head \in {"none", "damaged"}
    /\ call.step = "no head" => repository.head = "unborn"
    /\ call.step = "head" => repository.head \notin {"none", "damaged"}
    /\ call.step \in AfterHead => repository.head \in {"branch", "detached"}
    /\ call.step \in {"head-name", "msgnum", "end"} => IsDirectory("rebase-merge")
    /\ call.step \in {"rebase-apply", "branch", "id"} => ~IsDirectory("rebase-merge")
    /\ call.step \in {"next", "last", "rebasing", "apply-name", "applying"} => IsDirectory("rebase-apply")
    /\ call.step \in {"branch", "id"} => ~IsDirectory("rebase-apply")
    /\ call.step = "apply-name" => IsFile("rebasing")
    /\ call.step = "applying" => ~IsFile("rebasing")
    /\ call.step = "id" => repository.head # "branch"

\* And what it has put together of it.
PutTogether ==
    /\ call.step \in ({"discover", "open", "head"} \cup AfterHead) \ {"msgnum", "end", "text"} => call.name = <<>>
    /\ call.step \in {"msgnum", "end"} => call.name = Text(repository, "head-name")
    /\ call.step \in ({"discover", "open", "head"} \cup AfterHead)
                       \ {"end", "last", "rebasing", "apply-name", "applying", "text"} => call.extra = <<>>
    /\ call.step = "end" => call.extra = <<" ">> \o Text(repository, "msgnum")
    /\ call.step = "last" => call.extra = <<" ">> \o Text(repository, "next")
    /\ call.step \in {"rebasing", "applying"} => call.extra = Progress(repository, "next", "last")
    /\ call.step = "apply-name" => call.extra = Progress(repository, "next", "last") \o <<"|REBASE">>
    /\ call.step = "text" => <<"[">> \o call.name \o call.extra \o <<"]">> = Shown(repository)
    /\ call.step = "returned" => call.remote = Shown(repository)

GitInv ==
    /\ GitTypeOK
    /\ HeldSoFar
    /\ ~disturbed => KnownSoFar /\ PutTogether

\* A step of GetGitBranch between git_repository_head and the end.
Went(step, next, name, extra) ==
    /\ GitTypeOK'
    /\ UNCHANGED <<repository, held, disturbed>>
    /\ call.step = step /\ call'.step = next
    /\ call'.head = call.head
    /\ call'.name = call.name \o name
    /\ call'.extra = call.extra \o extra

\* A step that adds to |name| and |extra| goes on to the next with them.
LEMMA AddsFacts ==
    ASSUME GitTypeOK, NEW step, NEW next \in GitSteps, NEW name \in Seq(Pieces), NEW extra \in Seq(Pieces),
           Adds(step, name, extra, next)
    PROVE  Went(step, next, name, extra)
<1>1. call.name \o name \in Seq(Pieces) /\ call.extra \o extra \in Seq(Pieces)
  BY ConcatFacts DEF GitTypeOK
<1> QED BY <1>1 DEF Adds, GitTypeOK, Went

\* A step that looks at the disk goes on to the next and adds nothing.
LEMMA LooksFacts ==
    ASSUME GitTypeOK, NEW step, NEW next \in GitSteps, Looks(step, next)
    PROVE  Went(step, next, <<>>, <<>>)
<1>1. call.name \o <<>> = call.name /\ call.extra \o <<>> = call.extra
  BY ConcatFacts DEF GitTypeOK
<1> QED BY <1>1 DEF Looks, GitTypeOK, Went

\* The fixed parts of a prompt are texts.
LEMMA PieceFacts ==
    {<<BranchWord>>, <<CommitWord, "...">>, <<"(unknown)">>, <<"|REBASE">>, <<"|AM">>, <<"|AM/REBASE">>,
     <<"[">>, <<"]">>, <<" ">>, <<"/">>, <<>>} \subseteq Seq(Pieces)
<1>1. {BranchWord, CommitWord, "[", "]", " ", "/", "...", "(unknown)", "|REBASE", "|AM", "|AM/REBASE"}
          \subseteq Pieces
  BY DEF Pieces
<1>2. \A x, y \in Pieces : <<x>> \in Seq(Pieces) /\ <<x, y>> \in Seq(Pieces)
  OBVIOUS
<1>3. <<>> \in Seq(Pieces)
  OBVIOUS
<1> QED BY <1>1, <1>2, <1>3, Zenon

\* The branch that a rebase is of, and a number of it.
Branch == Text(repository, "head-name")
Number(mark, f) == <<mark>> \o Text(repository, f)

\* What GetGitBranch adds of the files of a rebase is what the prompt is to show of them.
LEMMA NumberFacts ==
    ASSUME GitTypeOK
    PROVE  /\ TrimRefsHead(ReadInto("head-name")) = Branch /\ Branch \in Seq(Pieces)
           /\ \A f \in FileNames \ {"head-name"}, mark \in {" ", "/"} :
                  <<mark>> \o ReadInto(f) = Number(mark, f) /\ Number(mark, f) \in Seq(Pieces)
<1>1. "head-name" \in FileNames
  BY DEF FileNames
<1>2. ASSUME NEW f \in FileNames \ {"head-name"}, NEW mark \in {" ", "/"}
      PROVE  <<mark>> \o ReadInto(f) = Number(mark, f) /\ Number(mark, f) \in Seq(Pieces)
  <2>1. ReadInto(f) = Text(repository, f) /\ Text(repository, f) \in Seq(Pieces)
    BY <1>2, ReadFacts
  <2>2. <<mark>> \in Seq(Pieces)
    BY PieceFacts
  <2> QED BY <2>1, <2>2, ConcatFacts DEF Number
<1> QED BY <1>1, <1>2, ReadFacts DEF Branch

\* The steps of a rebase with rebase-merge: where they go, and what they add.
LEMMA RebaseMergeFacts ==
    ASSUME GitTypeOK, RebaseMerge
    PROVE  \/ Went("rebase-merge", IF IsDirectory("rebase-merge") THEN "head-name" ELSE "rebase-apply", <<>>, <<>>)
           \/ Went("head-name", "msgnum", Branch, <<>>)
           \/ Went("msgnum", "end", <<>>, Number(" ", "msgnum"))
           \/ Went("end", "text", <<>>, Number("/", "end"))
<1> QED BY AddsFacts, LooksFacts, NumberFacts, PieceFacts DEF GitSteps, FileNames, RebaseMerge

\* The steps of a rebase with rebase-apply.
LEMMA RebaseApplyFacts ==
    ASSUME GitTypeOK, RebaseApply
    PROVE  \/ Went("rebase-apply", IF IsDirectory("rebase-apply") THEN "next" ELSE "branch", <<>>, <<>>)
           \/ Went("next", "last", <<>>, Number(" ", "next"))
           \/ Went("last", "rebasing", <<>>, Number("/", "last"))
           \/ IsFile("rebasing") /\ Went("rebasing", "apply-name", <<>>, <<"|REBASE">>)
           \/ ~IsFile("rebasing") /\ Went("rebasing", "applying", <<>>, <<>>)
           \/ Went("apply-name", "text", Branch, <<>>)
           \/ IsFile("applying") /\ Went("applying", "text", <<>>, <<"|AM">>)
           \/ ~IsFile("applying") /\ Went("applying", "text", <<>>, <<"|AM/REBASE">>)
<1>1. {"rebase-apply", "next", "last", "rebasing", "apply-name", "applying", "branch", "text"}
          \subseteq GitSteps
  BY DEF GitSteps
<1>2. /\ <<" ">> \o ReadInto("next") = Number(" ", "next") /\ Number(" ", "next") \in Seq(Pieces)
      /\ <<"/">> \o ReadInto("last") = Number("/", "last") /\ Number("/", "last") \in Seq(Pieces)
  BY NumberFacts DEF FileNames
<1>3. TrimRefsHead(ReadInto("head-name")) = Branch /\ Branch \in Seq(Pieces)
  BY NumberFacts
<1>4. CASE Looks("rebase-apply", IF IsDirectory("rebase-apply") THEN "next" ELSE "branch")
  BY <1>1, <1>4, LooksFacts
<1>5. CASE Adds("next", <<>>, <<" ">> \o ReadInto("next"), "last")
  BY <1>1, <1>2, <1>5, AddsFacts, PieceFacts
<1>6. CASE Adds("last", <<>>, <<"/">> \o ReadInto("last"), "rebasing")
  BY <1>1, <1>2, <1>6, AddsFacts, PieceFacts
<1>7. CASE IsFile("rebasing") /\ Adds("rebasing", <<>>, <<"|REBASE">>, "apply-name")
  BY <1>1, <1>7, AddsFacts, PieceFacts
<1>8. CASE ~IsFile("rebasing") /\ Looks("rebasing", "applying")
  BY <1>1, <1>8, LooksFacts
<1>9. CASE Adds("apply-name", TrimRefsHead(ReadInto("head-name")), <<>>, "text")
  BY <1>1, <1>3, <1>9, AddsFacts, PieceFacts
<1>10. CASE IsFile("applying") /\ Adds("applying", <<>>, <<"|AM">>, "text")
  BY <1>1, <1>10, AddsFacts, PieceFacts
<1>11. CASE ~IsFile("applying") /\ Adds("applying", <<>>, <<"|AM/REBASE">>, "text")
  BY <1>1, <1>11, AddsFacts, PieceFacts
<1> QED BY <1>4, <1>5, <1>6, <1>7, <1>8, <1>9, <1>10, <1>11, Zenon DEF RebaseApply

\* The steps when there is no rebase.
LEMMA HeadNameFacts ==
    ASSUME GitTypeOK, HeadName
    PROVE  \/ call.head = "branch" /\ Went("branch", "text", <<BranchWord>>, <<>>)
           \/ call.head # "branch" /\ Went("branch", "id", <<>>, <<>>)
           \/ repository.head \in {"branch", "detached"} /\ Went("id", "text", <<CommitWord, "...">>, <<>>)
           \/ repository.head \notin {"branch", "detached"} /\ Went("id", "text", <<"(unknown)">>, <<>>)
<1> QED BY AddsFacts, LooksFacts, NumberFacts, PieceFacts DEF GitSteps, FileNames, HeadName

\* Between the head and the end, libgit2 has nothing to give back, and what is
\* known stays so.
LEMMA MiddleFacts ==
    ASSUME GitInv, RebaseMerge \/ RebaseApply \/ HeadName
    PROVE  /\ HeldSoFar'
           /\ ~disturbed' => KnownSoFar'
<1>1. GitTypeOK /\ repository.head \in Heads /\ repository.directory \in Directories
  BY RepositoriesAssumption DEF GitInv, GitTypeOK
<1> USE <1>1 DEF GitInv, Went, AfterHead, IsDirectory, IsFile, Directories
<1>2. HeldSoFar'
  <2> USE DEF HeldSoFar
  <2>1. CASE RebaseMerge
    BY <2>1, RebaseMergeFacts
  <2>2. CASE RebaseApply
    BY <2>2, RebaseApplyFacts
  <2>3. CASE HeadName
    BY <2>3, HeadNameFacts
  <2> QED BY <2>1, <2>2, <2>3
<1>3. ASSUME ~disturbed' PROVE KnownSoFar'
  <2> USE <1>3 DEF KnownSoFar
  <2>1. CASE RebaseMerge
    BY <2>1, RebaseMergeFacts
  <2>2. CASE RebaseApply
    BY <2>2, RebaseApplyFacts
  <2>3. CASE HeadName
    BY <2>3, HeadNameFacts
  <2> QED BY <2>1, <2>2, <2>3
<1> QED BY <1>2, <1>3

\* How far a rebase is consists of two numbers.
LEMMA ProgressFacts ==
    ASSUME GitTypeOK, NEW this \in FileNames \ {"head-name"}, NEW last \in FileNames \ {"head-name"}
    PROVE  /\ Progress(repository, this, last) \in Seq(Pieces)
           /\ Progress(repository, this, last) = Number(" ", this) \o Number("/", last)
<1> DEFINE slash == <<"/">>
           n == Number(" ", this)
           t == Text(repository, last)
<1>1. slash \in Seq(Pieces) /\ n \in Seq(Pieces) /\ t \in Seq(Pieces) /\ Number("/", last) \in Seq(Pieces)
  BY NumberFacts, ReadFacts, PieceFacts
<1> HIDE DEF slash, n, t
<1>2. n \o slash \o t = n \o (slash \o t) /\ n \o Number("/", last) \in Seq(Pieces)
  BY <1>1, ConcatFacts
<1>3. n \o (slash \o t) = n \o Number("/", last) /\ Progress(repository, this, last) = n \o slash \o t
  BY DEF slash, n, t, Number, Progress
<1> QED BY <1>2, <1>3 DEF n

\* What is shown of a repository that has a head.
LEMMA ShownFacts ==
    ASSUME GitTypeOK, repository.head \in {"branch", "detached"}
    PROVE  /\ IsDirectory("rebase-merge") =>
                  Shown(repository) = <<"[">> \o Branch \o Progress(repository, "msgnum", "end") \o <<"]">>
           /\ IsDirectory("rebase-apply") /\ IsFile("rebasing") =>
                  Shown(repository) =
                      <<"[">> \o Branch \o (Progress(repository, "next", "last") \o <<"|REBASE">>) \o <<"]">>
           /\ IsDirectory("rebase-apply") /\ ~IsFile("rebasing") =>
                  Shown(repository) =
                      <<"[">> \o <<>> \o (Progress(repository, "next", "last")
                          \o <<IF IsFile("applying") THEN "|AM" ELSE "|AM/REBASE">>) \o <<"]">>
           /\ IsDirectory("none") =>
                  Shown(repository) =
                      <<"[">> \o (IF repository.head = "branch" THEN <<BranchWord>> ELSE <<CommitWord, "...">>)
                          \o <<>> \o <<"]">>
<1> DEFINE numbers == Progress(repository, "next", "last")
           tag == IF IsFile("rebasing") THEN "|REBASE" ELSE IF IsFile("applying") THEN "|AM" ELSE "|AM/REBASE"
           name == IF IsFile("rebasing") THEN Branch ELSE <<>>
<1>1. "msgnum" \in FileNames /\ "end" \in FileNames /\ "next" \in FileNames /\ "last" \in FileNames
  BY DEF FileNames
<1>2. Branch \in Seq(Pieces) /\ name \in Seq(Pieces) /\ numbers \in Seq(Pieces)
      /\ Progress(repository, "msgnum", "end") \in Seq(Pieces)
  BY <1>1, NumberFacts, ProgressFacts, PieceFacts
<1>3. <<"[">> \in Seq(Pieces) /\ <<"]">> \in Seq(Pieces) /\ <<tag>> \in Seq(Pieces)
  BY PieceFacts, Zenon
<1>4. Shown(repository) =
          <<"[">> \o (IF repository.directory # "none" THEN ShownRebase(repository)
                      ELSE IF repository.head = "branch" THEN <<BranchWord>>
                      ELSE <<CommitWord, "...">>) \o <<"]">>
  BY DEF Shown
<1>5. CASE IsDirectory("rebase-merge")
  <2>1. ShownRebase(repository) = Branch \o Progress(repository, "msgnum", "end")
    BY <1>1, <1>2, <1>5, ProgressFacts DEF ShownRebase, IsDirectory, Branch
  <2>2. <<"[">> \o (Branch \o Progress(repository, "msgnum", "end")) = <<"[">> \o Branch \o Progress(repository, "msgnum", "end")
    BY <1>2, <1>3, ConcatFacts, SMTT(30)
  <2> QED BY <1>4, <1>5, <2>1, <2>2 DEF IsDirectory
<1>6. CASE IsDirectory("rebase-apply")
  <2>1. ShownRebase(repository) = name \o numbers \o <<tag>>
    BY <1>6 DEF ShownRebase, IsDirectory, IsFile, Branch
  <2> HIDE DEF numbers, tag, name
  <2>3. name \o numbers \o <<tag>> = name \o (numbers \o <<tag>>) /\ numbers \o <<tag>> \in Seq(Pieces)
    BY <1>2, <1>3, ConcatFacts, SMTT(30)
  <2>4. <<"[">> \o (name \o (numbers \o <<tag>>)) = <<"[">> \o name \o (numbers \o <<tag>>)
    BY <1>2, <1>3, <2>3, ConcatFacts, SMTT(30)
  <2>5. Shown(repository) = <<"[">> \o name \o (numbers \o <<tag>>) \o <<"]">>
    BY <1>4, <1>6, <2>1, <2>3, <2>4 DEF IsDirectory
  <2> QED BY <1>6, <2>5 DEF IsDirectory, numbers, tag, name
<1>7. CASE IsDirectory("none")
  <2>1. \A s \in Seq(Pieces) : <<"[">> \o s \o <<>> = <<"[">> \o s
    BY <1>3
  <2>2. <<BranchWord>> \in Seq(Pieces) /\ <<CommitWord, "...">> \in Seq(Pieces)
    BY PieceFacts
  <2> QED BY <1>4, <1>7, <2>1, <2>2 DEF IsDirectory
<1>8. repository.directory \in Directories
  BY RepositoriesAssumption DEF GitTypeOK
<1> QED BY <1>5, <1>6, <1>7, <1>8 DEF IsDirectory, Directories

\* As long as nobody changes the repository, every step between the head and the
\* end adds the next part of what is to be shown.
LEMMA MiddlePutsTogether ==
    ASSUME GitInv, RebaseMerge \/ RebaseApply \/ HeadName, ~disturbed'
    PROVE  PutTogether'
<1>1. GitTypeOK /\ KnownSoFar /\ PutTogether
  BY RebaseMergeFacts, RebaseApplyFacts, HeadNameFacts DEF GitInv, Went
<1> \A s \in Seq(Pieces) : <<>> \o s = s /\ s \o <<>> = s
  OBVIOUS
<1>2. /\ <<>> \in Seq(Pieces) /\ <<BranchWord>> \in Seq(Pieces) /\ <<CommitWord, "...">> \in Seq(Pieces)
      /\ <<"|REBASE">> \in Seq(Pieces) /\ <<"|AM">> \in Seq(Pieces) /\ <<"|AM/REBASE">> \in Seq(Pieces)
  BY PieceFacts, Zenon
<1> {"msgnum", "end", "next", "last"} \subseteq FileNames \ {"head-name"}
  BY DEF FileNames
<1>3. /\ Branch \in Seq(Pieces)
      /\ Number(" ", "msgnum") \in Seq(Pieces) /\ Number("/", "end") \in Seq(Pieces)
      /\ Number(" ", "next") \in Seq(Pieces) /\ Number("/", "last") \in Seq(Pieces)
  BY <1>1, NumberFacts
<1>4. /\ Progress(repository, "msgnum", "end") = Number(" ", "msgnum") \o Number("/", "end")
      /\ Progress(repository, "next", "last") = Number(" ", "next") \o Number("/", "last")
      /\ Progress(repository, "next", "last") \in Seq(Pieces)
  BY <1>1, ProgressFacts
<1> USE <1>1, <1>2 DEF Went, PutTogether, AfterHead
<1>5. ASSUME RebaseMerge PROVE PutTogether'
  <2>1. CASE Went("rebase-merge", IF IsDirectory("rebase-merge") THEN "head-name" ELSE "rebase-apply", <<>>, <<>>)
    BY <2>1
  <2>2. CASE Went("head-name", "msgnum", Branch, <<>>)
    BY <1>3, <2>2 DEF Branch
  <2>3. CASE Went("msgnum", "end", <<>>, Number(" ", "msgnum"))
    BY <1>3, <2>3 DEF Branch, Number
  <2>4. CASE Went("end", "text", <<>>, Number("/", "end"))
    <3>1. call'.name = Branch /\ call'.extra = Progress(repository, "msgnum", "end")
      BY <1>3, <1>4, <2>4 DEF Branch, Number
    <3>2. Shown(repository) = <<"[">> \o Branch \o Progress(repository, "msgnum", "end") \o <<"]">>
      BY <2>4, ShownFacts DEF KnownSoFar
    <3> QED BY <2>4, <3>1, <3>2
  <2> QED BY <1>5, <2>1, <2>2, <2>3, <2>4, RebaseMergeFacts
<1>6. ASSUME RebaseApply PROVE PutTogether'
  <2>1. CASE Went("rebase-apply", IF IsDirectory("rebase-apply") THEN "next" ELSE "branch", <<>>, <<>>)
    BY <2>1
  <2>2. CASE Went("next", "last", <<>>, Number(" ", "next"))
    BY <1>3, <2>2 DEF Number
  <2>3. CASE Went("last", "rebasing", <<>>, Number("/", "last"))
    BY <1>3, <1>4, <2>3 DEF Number
  <2>4. CASE Went("rebasing", "apply-name", <<>>, <<"|REBASE">>)
    BY <2>4
  <2>5. CASE Went("rebasing", "applying", <<>>, <<>>)
    BY <1>4, <2>5
  <2>6. CASE Went("apply-name", "text", Branch, <<>>)
    <3>1. call'.name = Branch /\ call'.extra = Progress(repository, "next", "last") \o <<"|REBASE">>
      <4>1. call.extra = Progress(repository, "next", "last") \o <<"|REBASE">> /\ call.extra \in Seq(Pieces)
        BY <2>6 DEF GitTypeOK
      <4> QED BY <1>3, <2>6, <4>1
    <3>2. Shown(repository)
              = <<"[">> \o Branch \o (Progress(repository, "next", "last") \o <<"|REBASE">>) \o <<"]">>
      BY <2>6, ShownFacts DEF KnownSoFar
    <3> QED BY <2>6, <3>1, <3>2
  <2>7. ASSUME NEW tag \in {"|AM", "|AM/REBASE"}, IsFile("applying") <=> tag = "|AM",
               Went("applying", "text", <<>>, <<tag>>)
        PROVE  PutTogether'
    <3>1. call'.name = <<>> /\ call'.extra = Progress(repository, "next", "last") \o <<tag>>
      BY <2>7
    <3>2. Shown(repository) = <<"[">> \o <<>> \o (Progress(repository, "next", "last") \o <<tag>>) \o <<"]">>
      BY <2>7, ShownFacts DEF KnownSoFar
    <3> QED BY <2>7, <3>1, <3>2
  <2> QED BY <1>6, <2>1, <2>2, <2>3, <2>4, <2>5, <2>6, <2>7, RebaseApplyFacts
<1>7. ASSUME HeadName PROVE PutTogether'
  <2>1. CASE Went("branch", "id", <<>>, <<>>)
    BY <2>1
  <2>2. ASSUME NEW step \in {"branch", "id"}, NEW name \in Seq(Pieces), Went(step, "text", name, <<>>),
               name = (IF repository.head = "branch" THEN <<BranchWord>> ELSE <<CommitWord, "...">>)
        PROVE  PutTogether'
    <3>1. call'.name = name /\ call'.extra = <<>>
      BY <2>2
    <3>2. repository.directory \in Directories
      BY RepositoriesAssumption DEF GitTypeOK
    <3>3. Shown(repository) = <<"[">> \o name \o <<>> \o <<"]">>
      BY <2>2, <3>2, ShownFacts DEF KnownSoFar, IsDirectory, Directories
    <3> QED BY <2>2, <3>1, <3>3
  <2> QED BY <1>7, <2>1, <2>2, HeadNameFacts DEF KnownSoFar
<1> QED BY <1>5, <1>6, <1>7

\* The invariant of GetGitBranch is about its own variables.
LEMMA GitUnchanged ==
    ASSUME GitInv, UNCHANGED gitVars
    PROVE  GitInv'
<1>1. GitTypeOK'
  BY DEF gitVars, GitInv, GitTypeOK
<1>2. HeldSoFar'
  BY DEF gitVars, GitInv, HeldSoFar
<1>3. ASSUME ~disturbed' PROVE KnownSoFar'
  BY <1>3 DEF gitVars, GitInv, KnownSoFar, IsDirectory, IsFile
<1>4. ASSUME ~disturbed' PROVE PutTogether'
  BY <1>4 DEF gitVars, GitInv, PutTogether
<1> QED BY <1>1, <1>2, <1>3, <1>4 DEF GitInv

\* A call that begins or returns has the type of a call.
LEMMA NewCallFacts ==
    \A step \in GitSteps, remote \in Seq(Pieces) :
        [step |-> step, head |-> "none", name |-> <<>>, extra |-> <<>>, remote |-> remote]
            \in [step : GitSteps, head : Heads,
                 name : Seq(Pieces), extra : Seq(Pieces), remote : Seq(Pieces)]
<1>1. "none" \in Heads /\ <<>> \in Seq(Pieces)
  BY DEF Heads
<1> QED BY <1>1

\* The steps of libgit2 and the return keep the invariant of GetGitBranch.
LEMMA EndsFacts ==
    ASSUME GitInv, FindGitRepo \/ RepositoryHead \/ ReturnBranch
    PROVE  GitInv'
<1>1. GitTypeOK /\ repository.head \in Heads
  BY RepositoriesAssumption DEF GitInv, GitTypeOK
<1>2. HeldSoFar /\ (~disturbed => KnownSoFar /\ PutTogether)
  BY DEF GitInv
<1> USE <1>2
<1>3. ASSUME FindGitRepo \/ RepositoryHead PROVE GitInv'
  <2>1. CASE Libgit2("discover", repository.head # "none", "git_dir", "open", "not found")
    <3>1. /\ call.step = "discover" /\ call' = [call EXCEPT !.step = IF repository.head # "none" THEN "open" ELSE "not found",
                                                   !.head = repository.head]
          /\ held' = (IF repository.head # "none" THEN held \cup {"git_dir"} ELSE held)
          /\ UNCHANGED <<repository, disturbed>>
      BY <2>1 DEF Libgit2
    <3>2. call'.step = (IF repository.head # "none" THEN "open" ELSE "not found") /\ call'.head = repository.head
          /\ call'.name = call.name /\ call'.extra = call.extra
      BY <1>1, <3>1 DEF GitTypeOK
    <3>3. GitTypeOK'
      BY <1>1, <3>1 DEF GitTypeOK, GitSteps, HeldSoFar
    <3>4. HeldSoFar'
      BY <1>1, <3>1, <3>2 DEF HeldSoFar
    <3>5. ASSUME ~disturbed' PROVE KnownSoFar' /\ PutTogether'
      BY <1>1, <3>1, <3>2, <3>5 DEF KnownSoFar, PutTogether, AfterHead, Heads
    <3> QED BY <3>3, <3>4, <3>5 DEF GitInv
  <2>2. CASE Libgit2("open", repository.head \notin {"none", "damaged"}, "repo", "head", "not found")
    <3>1. /\ call.step = "open" /\ call' = [call EXCEPT !.step = IF repository.head \notin {"none", "damaged"} THEN "head" ELSE "not found",
                                                   !.head = repository.head]
          /\ held' = (IF repository.head \notin {"none", "damaged"} THEN held \cup {"repo"} ELSE held)
          /\ UNCHANGED <<repository, disturbed>>
      BY <2>2 DEF Libgit2
    <3>2. call'.step = (IF repository.head \notin {"none", "damaged"} THEN "head" ELSE "not found") /\ call'.head = repository.head
          /\ call'.name = call.name /\ call'.extra = call.extra
      BY <1>1, <3>1 DEF GitTypeOK
    <3>3. GitTypeOK'
      BY <1>1, <3>1 DEF GitTypeOK, GitSteps, HeldSoFar
    <3>4. HeldSoFar'
      BY <1>1, <3>1, <3>2 DEF HeldSoFar
    <3>5. ASSUME ~disturbed' PROVE KnownSoFar' /\ PutTogether'
      BY <1>1, <3>1, <3>2, <3>5 DEF KnownSoFar, PutTogether, AfterHead, Heads
    <3> QED BY <3>3, <3>4, <3>5 DEF GitInv
  <2>3. CASE Libgit2("head", repository.head \in {"branch", "detached"}, "head_ref", "rebase-merge", "no head")
    <3>1. /\ call.step = "head" /\ call' = [call EXCEPT !.step = IF repository.head \in {"branch", "detached"} THEN "rebase-merge" ELSE "no head",
                                                   !.head = repository.head]
          /\ held' = (IF repository.head \in {"branch", "detached"} THEN held \cup {"head_ref"} ELSE held)
          /\ UNCHANGED <<repository, disturbed>>
      BY <2>3 DEF Libgit2
    <3>2. call'.step = (IF repository.head \in {"branch", "detached"} THEN "rebase-merge" ELSE "no head") /\ call'.head = repository.head
          /\ call'.name = call.name /\ call'.extra = call.extra
      BY <1>1, <3>1 DEF GitTypeOK
    <3>3. GitTypeOK'
      BY <1>1, <3>1 DEF GitTypeOK, GitSteps, HeldSoFar
    <3>4. HeldSoFar'
      BY <1>1, <3>1, <3>2 DEF HeldSoFar
    <3>5. ASSUME ~disturbed' PROVE KnownSoFar' /\ PutTogether'
      BY <1>1, <3>1, <3>2, <3>5 DEF KnownSoFar, PutTogether, AfterHead, Heads
    <3> QED BY <3>3, <3>4, <3>5 DEF GitInv
  <2> QED BY <1>3, <2>1, <2>2, <2>3 DEF FindGitRepo, RepositoryHead
<1>4. ASSUME ReturnBranch PROVE GitInv'
  <2>1. Remote(call.step) \in Seq(Pieces)
    <3>1. <<>> \in Seq(Pieces) /\ <<"[">> \in Seq(Pieces) /\ <<"]">> \in Seq(Pieces)
      BY PieceFacts, Zenon
    <3>2. <<"[", "(no head)", "]">> \in Seq(Pieces)
      <4>1. {"[", "(no head)", "]"} \subseteq Pieces
        BY DEF Pieces
      <4>2. \A x, y, z \in Pieces : <<x, y, z>> \in Seq(Pieces)
        OBVIOUS
      <4> QED BY <4>1, <4>2, Zenon
    <3>3. <<"[">> \o call.name \in Seq(Pieces)
      BY <1>1, <3>1 DEF GitTypeOK
    <3>4. <<"[">> \o call.name \o call.extra \in Seq(Pieces)
      BY <1>1, <3>3 DEF GitTypeOK
    <3>5. <<"[">> \o call.name \o call.extra \o <<"]">> \in Seq(Pieces)
      BY <3>1, <3>4
    <3> QED BY <1>4, <3>1, <3>2, <3>5 DEF Remote, ReturnBranch
  <2>2. /\ call' = [step |-> "returned", head |-> "none", name |-> <<>>, extra |-> <<>>, remote |-> Remote(call.step)]
        /\ held' = held \ Freed(call.step)
        /\ UNCHANGED <<repository, disturbed>>
    BY <1>4 DEF ReturnBranch, NoCall
  <2>3. GitTypeOK'
    <3>1. "returned" \in GitSteps
      BY DEF GitSteps
    <3> QED BY <1>1, <2>1, <2>2, <3>1, NewCallFacts DEF GitTypeOK
  <2>4. HeldSoFar'
    BY <1>4, <2>2 DEF HeldSoFar, ReturnBranch, Freed
  <2>5. ASSUME ~disturbed' PROVE Remote(call.step) = Shown(repository)
    <3>1. KnownSoFar /\ PutTogether
      BY <2>2, <2>5
    <3>2. CASE call.step = "text"
      BY <3>1, <3>2 DEF Remote, PutTogether
    <3>3. CASE call.step = "no head"
      BY <3>1, <3>3 DEF Remote, KnownSoFar, Shown
    <3>4. CASE call.step = "not found"
      BY <3>1, <3>4 DEF Remote, KnownSoFar, Shown
    <3> QED BY <1>4, <3>2, <3>3, <3>4 DEF ReturnBranch
  <2>6. ASSUME ~disturbed' PROVE KnownSoFar' /\ PutTogether'
    BY <2>2, <2>5, <2>6 DEF KnownSoFar, PutTogether, AfterHead
  <2> QED BY <2>3, <2>4, <2>6 DEF GitInv
<1> QED BY <1>3, <1>4

\* Every step of GetGitBranch does.
LEMMA GitStepFacts ==
    ASSUME GitInv, GitStep
    PROVE  GitInv'
<1>1. CASE FindGitRepo \/ RepositoryHead \/ ReturnBranch
  BY <1>1, EndsFacts
<1>2. CASE RebaseMerge \/ RebaseApply \/ HeadName
  <2>1. GitTypeOK'
    BY <1>2, RebaseMergeFacts, RebaseApplyFacts, HeadNameFacts DEF GitInv, Went
  <2> QED BY <1>2, <2>1, MiddleFacts, MiddlePutsTogether DEF GitInv
<1> QED BY <1>1, <1>2 DEF GitStep

\* A step of GetGitBranch belongs to a call and does not end it: the caller does.
LEMMA GitStepGoesOn ==
    ASSUME GitTypeOK, GitStep
    PROVE  call.step # "none" /\ call'.step # "none"
<1>1. CASE FindGitRepo \/ RepositoryHead
  BY <1>1 DEF FindGitRepo, RepositoryHead, Libgit2, GitTypeOK
<1>2. CASE ReturnBranch
  BY <1>2 DEF ReturnBranch, NoCall
<1>3. CASE RebaseMerge
  BY <1>3, RebaseMergeFacts DEF Went
<1>4. CASE RebaseApply
  BY <1>4, RebaseApplyFacts DEF Went
<1>5. CASE HeadName
  BY <1>5, HeadNameFacts DEF Went
<1> QED BY <1>1, <1>2, <1>3, <1>4, <1>5 DEF GitStep

-----------------------------------------------------------------------------

\* GetGitBranch runs while the prompt's thread asks.
AskingIsCalling == at[Shell] = "asking" <=> call.step # "none"

PromptInv == HookInv /\ PromptIsHooked /\ GitInv /\ AskingIsCalling

\* No step of the hook lets the shell call for a branch or return from that.
LEMMA HookStepMoves ==
    ASSUME HookTypeOK, HookStep
    PROVE  /\ at'[Shell] = "asking" <=> at[Shell] = "asking"
           /\ at'[Shell] = "outside" => at[Shell] = "outside"
<1> DEFINE Stays == /\ at'[Shell] = "asking" <=> at[Shell] = "asking"
                    /\ at'[Shell] = "outside" => at[Shell] = "outside"
<1> USE HookAssumption DEF HookTypeOK, threadVars
<1>1. ASSUME OnAttach \/ ExitReplacement \/ Dies PROVE Stays
  BY <1>1 DEF OnAttach, ExitReplacement, Dies, LoadGit2FunctionPointers, SetTrapAddress,
      AddHandler,
              WriteHalt, AttachStep
<1>2. ASSUME NEW t \in Threads, NEW step, NEW next, Moves(t, step, next),
             step # "asking", next \notin {"asking", "outside"}
      PROVE  Stays
  BY <1>2 DEF Moves
<1> HIDE DEF Stays
<1>3. ASSUME NEW t \in Threads, Call(t) PROVE Stays
  BY <1>2, <1>3 DEF Call
<1>4. ASSUME NEW t \in Threads, Execute(t) PROVE Stays
  BY <1>1, <1>2, <1>4 DEF Execute
<1>5. ASSUME NEW t \in Threads, HookTrap(t) PROVE Stays
  BY <1>1, <1>2, <1>5 DEF HookTrap, CheckAddress, PatchCompare, RestoreByte, PatchConnection,
                          PatchReadConsole, PatchExit, RemoveTrap
<1>6. Stays
  BY <1>1, <1>3, <1>4, <1>5 DEF HookStep
<1> QED BY <1>6 DEF Stays

\* The invariant holds when the shell starts.
LEMMA PromptInit == Init => PromptInv
<1> SUFFICES ASSUME Init PROVE PromptInv
  OBVIOUS
<1> USE HookAssumption, RepositoriesAssumption DEF Init, HookInit, GitInit
<1>1. HookTypeOK /\ CalledFor /\ Attached /\ DiesOnlyRaced
  BY DEF HookTypeOK, CalledFor, Attached, DiesOnlyRaced, InTrap, Imports, Null
<1>2. OneInTrap /\ TrapIsSet /\ ExitIsSaved
  BY DEF OneInTrap, TrapIsSet, ExitIsSaved, InTrap, BeforeRestore, BeforeRemove, Imports, Armed
<1>3. PromptIsHooked
  BY DEF PromptIsHooked
<1>4. GitTypeOK
  <2>1. call = [step |-> "none", head |-> "none", name |-> <<>>, extra |-> <<>>, remote |-> <<>>]
    BY DEF NoCall
  <2>2. "none" \in GitSteps /\ <<>> \in Seq(Pieces)
    BY DEF GitSteps
  <2> QED BY <2>1, <2>2, NewCallFacts DEF GitTypeOK
<1>5. HeldSoFar /\ KnownSoFar /\ PutTogether
  BY DEF HeldSoFar, KnownSoFar, PutTogether, AfterHead, NoCall
<1>6. AskingIsCalling
  BY DEF AskingIsCalling, NoCall
<1> QED BY <1>1, <1>2, <1>3, <1>4, <1>5, <1>6 DEF PromptInv, HookInv, GitInv

\* Every step of the threads, of GetGitBranch and of other programs keeps it.
LEMMA PromptStep == PromptInv /\ [Next]_vars => PromptInv'
<1> SUFFICES ASSUME PromptInv, [Next]_vars PROVE PromptInv'
  OBVIOUS
<1> USE DEF PromptInv
<1>1. CASE UNCHANGED vars
  <2>1. HookInv'
    BY <1>1 DEF vars, hookVars, shellVars, cmdVars, threadVars, HookInv, HookTypeOK,
        CalledFor, Attached, OneInTrap,
                TrapIsSet, ExitIsSaved, DiesOnlyRaced, InTrap, Armed, BeforeRestore, BeforeRemove
  <2>2. PromptIsHooked'
    BY <1>1 DEF vars, hookVars, shellVars, cmdVars, threadVars, PromptIsHooked, Connection,
        BeforeRestore
  <2>3. GitInv' /\ AskingIsCalling'
    BY <1>1, GitUnchanged DEF vars, hookVars, threadVars, gitVars, AskingIsCalling
  <2> QED BY <2>1, <2>2, <2>3
<1>2. CASE Next
  <2>1. HookInv' /\ PromptIsHooked'
    BY <1>2, PromptStepFacts, HookedStepFacts
  <2>2. GitInv' /\ AskingIsCalling'
    <3>1. ASSUME UNCHANGED gitVars PROVE GitInv'
      BY <3>1, GitUnchanged
    <3>2. ASSUME HookStep, UNCHANGED gitVars PROVE GitInv' /\ AskingIsCalling'
      BY <3>1, <3>2, HookStepMoves DEF HookInv, AskingIsCalling, gitVars
    <3>3. ASSUME NEW t \in Threads, GoesOn(t, "returned"), UNCHANGED gitVars PROVE GitInv' /\ AskingIsCalling'
      BY <3>1, <3>3, HookAssumption DEF GoesOn, Moves, HookInv, HookTypeOK, AskingIsCalling,
          gitVars
    <3>4. ASSUME AskBranch PROVE GitInv' /\ AskingIsCalling'
      <4>1. at[Shell] = "returned" /\ at' = [at EXCEPT ![Shell] = "asking"]
        BY <3>4 DEF AskBranch, Moves
      <4>2. call' = [step |-> "discover", head |-> "none", name |-> <<>>, extra |-> <<>>, remote |-> <<>>]
            /\ UNCHANGED <<repository, held, disturbed>>
        BY <3>4 DEF AskBranch, GetGitBranch, NoCall
      <4>3. held = {}
        BY <4>1 DEF AskingIsCalling, GitInv, HeldSoFar
      <4>4. GitTypeOK'
        <5>1. "discover" \in GitSteps /\ <<>> \in Seq(Pieces)
          BY DEF GitSteps
        <5> QED BY <4>2, <5>1, NewCallFacts DEF GitInv, GitTypeOK
      <4>5. HeldSoFar' /\ KnownSoFar' /\ PutTogether'
        BY <4>2, <4>3 DEF HeldSoFar, KnownSoFar, PutTogether, AfterHead
      <4>6. AskingIsCalling'
        BY <4>1, <4>2, HookAssumption DEF AskingIsCalling, HookInv, HookTypeOK
      <4> QED BY <4>4, <4>5, <4>6 DEF GitInv
    <3>5. ASSUME AskWithoutGit2 PROVE GitInv' /\ AskingIsCalling'
      BY <3>1, <3>5 DEF AskWithoutGit2, Dies, threadVars, gitVars, AskingIsCalling
    <3>6. ASSUME PromptWithBranch PROVE GitInv' /\ AskingIsCalling'
      <4>1. at' = [at EXCEPT ![Shell] = "outside"]
        BY <3>6 DEF PromptWithBranch, GoesOn, Moves
      <4>2. call' = [step |-> "none", head |-> "none", name |-> <<>>, extra |-> <<>>, remote |-> <<>>]
            /\ ~disturbed' /\ UNCHANGED <<repository, held>>
        BY <3>6 DEF PromptWithBranch, NoCall
      <4>3. held = {}
        BY <3>6 DEF PromptWithBranch, GitInv, HeldSoFar
      <4>4. GitTypeOK'
        <5>1. "none" \in GitSteps /\ <<>> \in Seq(Pieces)
          BY DEF GitSteps
        <5>2. disturbed' \in BOOLEAN
          BY <3>6 DEF PromptWithBranch
        <5> QED BY <4>2, <5>1, <5>2, NewCallFacts DEF GitInv, GitTypeOK
      <4>5. HeldSoFar' /\ KnownSoFar' /\ PutTogether'
        BY <4>2, <4>3 DEF HeldSoFar, KnownSoFar, PutTogether, AfterHead
      <4>6. AskingIsCalling'
        BY <4>1, <4>2, HookAssumption DEF AskingIsCalling, HookInv, HookTypeOK
      <4> QED BY <4>4, <4>5, <4>6 DEF GitInv
    <3>7. ASSUME GitStep, UNCHANGED hookVars PROVE GitInv' /\ AskingIsCalling'
      BY <3>7, GitStepFacts, GitStepGoesOn DEF hookVars, threadVars, AskingIsCalling, GitInv
    <3>8. ASSUME RepositoryChanges, UNCHANGED hookVars PROVE GitInv' /\ AskingIsCalling'
      <4>1. GitTypeOK' /\ HeldSoFar' /\ AskingIsCalling'
        BY <3>8 DEF RepositoryChanges, GitInv, GitTypeOK, HeldSoFar, AskingIsCalling,
            hookVars, threadVars
      <4>2. ASSUME ~disturbed' PROVE KnownSoFar' /\ PutTogether'
        BY <3>8, <4>2 DEF RepositoryChanges, KnownSoFar, PutTogether, AfterHead
      <4> QED BY <4>1, <4>2 DEF GitInv
    <3>9. ASSUME ChangeDrive PROVE GitInv' /\ AskingIsCalling'
      BY <3>1, <3>9 DEF ChangeDrive, threadVars, gitVars, AskingIsCalling
    <3> QED BY <1>2, <3>2, <3>3, <3>4, <3>5, <3>6, <3>7, <3>8, <3>9, HookAssumption
            DEF Next, ReturnElsewhere, PromptWithoutBranch
  <2> QED BY <2>1, <2>2
<1> QED BY <1>1, <1>2

\* For any number of threads, every kind of cmd.exe and of repositories: the trap,
\* the imports, what libgit2 has given and what the prompt is put together from are
\* as HookInv, PromptIsHooked and GitInv say, after every step.
THEOREM PromptInvariant == Spec => []PromptInv
BY PromptInit, PromptStep, PTL DEF Spec

\* Whatever the threads of the shell, its imports and its repositories are, every
\* variable of the hook and of GetGitBranch has its type.
THEOREM TypeCorrect == Spec => []TypeOK
<1>1. PromptInv => TypeOK
  BY DEF PromptInv, HookInv, GitInv, TypeOK
<1> QED BY <1>1, PromptInvariant, PTL

\* The hook does not kill a shell in which only one thread gets into the trap
\* (OnAttach, HookTrap, ExitReplacement), unless libgit2 is missing.
THEOREM HookIsSafe == Spec => []DiesOnlyRaced
<1>1. PromptInv => DiesOnlyRaced
  BY DEF PromptInv, HookInv
<1> QED BY <1>1, PromptInvariant, PTL

\* GetGitBranch frees what it got on every path, whatever git does meanwhile.
THEOREM NothingLeaks == Spec => []FreesWhatItGot
<1>1. PromptInv => FreesWhatItGot
  BY DEF PromptInv, GitInv, HeldSoFar, FreesWhatItGot
<1> QED BY <1>1, PromptInvariant, PTL

\* A prompt on a local drive asks git, if the first call in the trap was a
\* prompt's and the only one, and is answered with what the repository is in.
THEOREM PromptIsTrue == Spec => PromptTellsRepository
<1>1. ASSUME PromptInv, [Next]_vars, site[Shell] = "prompt", at'[Shell] = "outside",
             drive = "fixed", first = "prompt", ~raced, ~disturbed
      PROVE  at[Shell] = "asking" /\ call.remote = Shown(repository)
  <2>1. at[Shell] # "outside" /\ HookTypeOK
    BY <1>1, HookAssumption DEF PromptInv, HookInv, CalledFor
  <2>2. ASSUME HookStep PROVE FALSE
    BY <1>1, <2>1, <2>2, HookStepMoves
  <2>3. ASSUME UNCHANGED at PROVE FALSE
    BY <1>1, <2>1, <2>3
  <2>4. ASSUME NEW t \in Threads, ReturnElsewhere(t) PROVE FALSE
    BY <1>1, <2>1, <2>4, HookAssumption DEF ReturnElsewhere, GoesOn, Moves, HookTypeOK
  <2>5. ASSUME PromptWithoutBranch PROVE FALSE
    BY <1>1, <2>5 DEF PromptWithoutBranch, GoesOn, Moves, PromptInv, PromptIsHooked,
        BeforeRestore
  <2>6. ASSUME AskBranch PROVE FALSE
    BY <1>1, <2>1, <2>6, HookAssumption DEF AskBranch, Moves, HookTypeOK
  <2>7. ASSUME PromptWithBranch PROVE at[Shell] = "asking" /\ call.remote = Shown(repository)
    BY <1>1, <2>7 DEF PromptWithBranch, GoesOn, Moves, PromptInv, GitInv, PutTogether
  <2>8. UNCHANGED hookVars \/ AskWithoutGit2 \/ ChangeDrive \/ UNCHANGED vars => UNCHANGED at
    BY DEF hookVars, threadVars, AskWithoutGit2, Dies, ChangeDrive, vars
  <2> QED BY <1>1, <2>2, <2>3, <2>4, <2>5, <2>6, <2>7, <2>8 DEF Next
<1> QED BY <1>1, PromptInvariant, PTL DEF Spec, PromptTellsRepository

=============================================================================
