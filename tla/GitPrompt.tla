----------------------------- MODULE GitPrompt ------------------------------
(***************************************************************************)
(* GetGitBranch (src/src/cmdEx_dll_x64_dll/dll.cc), which cmd.exe calls    *)
(* for $M of its prompt as if it was WNetGetConnectionW.  It asks libgit2  *)
(* and reads files of the repository one after another, while other        *)
(* programs go on changing them.  Texts are sequences of words.            *)
(***************************************************************************)
EXTENDS Integers, Sequences, SequencesExt

CONSTANTS Repositories,  \* what git may find on the disk
          Missing,       \* a file that is not there
          Words,         \* what the texts in files are made of
          Prefix,        \* refs/heads/
          Newline,
          BranchWord,    \* the branch of HEAD
          CommitWord     \* the first seven digits of the commit of HEAD

Heads == {"none", "damaged", "unborn", "branch", "detached"}
Directories == {"none", "rebase-merge", "rebase-apply"}
FileNames == {"head-name", "msgnum", "end", "next", "last", "rebasing", "applying"}

\* The text of this file of a repository: without refs/heads/, with which only a
\* head-name begins, and without the white space at its end.
IsText(text, f, file) ==
    /\ text \in Seq(Words)
    /\ \E prefix \in {<<>>, <<Prefix>>}, end \in {<<>>, <<Newline>>} :
           /\ f = "head-name" \/ prefix = <<>>
           /\ file = prefix \o text \o end

Parts(file) == {SubSeq(file, i, j) : i \in 1..Len(file) + 1, j \in 0..Len(file)}

ASSUME WordsAssumption == Prefix # Newline /\ {Prefix, Newline} \cap Words = {}

\* The head is what libgit2 says of it: there is no repository, one that cannot
\* be opened, one without a commit, a branch, a commit.  The files are those of
\* the directory.
ASSUME RepositoriesAssumption ==
    \A r \in Repositories :
        /\ r.head \in Heads
        /\ r.directory \in Directories
        /\ DOMAIN r.file = FileNames
        /\ r.directory = "none" => \A f \in FileNames : r.file[f] = Missing
        /\ \A f \in FileNames :
               r.file[f] # Missing => \E text \in Parts(r.file[f]) : IsText(text, f, r.file[f])

VARIABLES
    repository, \* what git finds on the disk
    call,       \* GetGitBranch: its next step and variables
    held,       \* what libgit2 has given to it and not got back
    disturbed   \* history: the repository has changed during the call

gitVars == <<repository, call, held, disturbed>>

NoCall == [step |-> "none", head |-> "none", name |-> <<>>, extra |-> <<>>, remote |-> <<>>]

GitSteps == {"none", "discover", "open", "not found", "head", "no head", "rebase-merge",
             "head-name", "msgnum", "end", "rebase-apply", "next", "last", "rebasing",
             "apply-name", "applying", "branch", "id", "text", "returned"}

\* What a prompt is made of.
Pieces == Words \cup {Prefix, Newline, BranchWord, CommitWord, "[", "]", " ", "/", "...",
                     "(unknown)", "(no head)", "|REBASE", "|AM", "|AM/REBASE"}

GitTypeOK ==
    /\ repository \in Repositories
    /\ call \in [step : GitSteps, head : Heads,
                name : Seq(Pieces), extra : Seq(Pieces), remote : Seq(Pieces)]
    /\ held \subseteq {"git_dir", "repo", "head_ref"}
    /\ disturbed \in BOOLEAN

GitInit ==
    /\ repository \in Repositories
    /\ call = NoCall
    /\ held = {}
    /\ disturbed = FALSE

-----------------------------------------------------------------------------
(* Files *)

IsDirectory(name) == repository.directory = name

IsFile(name) == repository.file[name] # Missing

\* A file that is not there has no text, and white space at its end is trimmed.
ReadInto(name) ==
    LET file == repository.file[name] IN
    IF file = Missing THEN <<>>
    ELSE IF IsSuffix(<<Newline>>, file) THEN Front(file) ELSE file

\* Variant: the prefix is left in its place.
TrimNothing(head) == head

TrimRefsHead(head) == IF IsPrefix(<<Prefix>>, head) THEN Tail(head) ELSE head

-----------------------------------------------------------------------------
(* GetGitBranch *)

\* A step of libgit2: what it gives, if it does.
Libgit2(step, succeeds, given, next, otherwise) ==
    /\ call.step = step
    /\ call' = [call EXCEPT !.step = IF succeeds THEN next ELSE otherwise,
                            !.head = repository.head]
    /\ held' = IF succeeds THEN held \cup {given} ELSE held
    /\ UNCHANGED <<repository, disturbed>>

\* A step that looks at a file or directory.
Looks(step, next) ==
    /\ call.step = step
    /\ call' = [call EXCEPT !.step = next]
    /\ UNCHANGED <<repository, held, disturbed>>

\* A step that puts this into |name| and adds that to |extra|.
Adds(step, name, extra, next) ==
    /\ call.step = step
    /\ call' = [call EXCEPT !.step = next, !.name = @ \o name, !.extra = @ \o extra]
    /\ UNCHANGED <<repository, held, disturbed>>

GetGitBranch ==
    /\ call' = [NoCall EXCEPT !.step = "discover"]
    /\ UNCHANGED <<repository, held, disturbed>>

\* GetCurrentDirectory fails as if there was no repository.
FindGitRepo ==
    \/ Libgit2("discover", repository.head # "none", "git_dir", "open", "not found")
    \/ Libgit2("open", repository.head \notin {"none", "damaged"}, "repo", "head", "not found")

RepositoryHead ==
    Libgit2("head", repository.head \in {"branch", "detached"}, "head_ref", "rebase-merge", "no head")

RebaseMerge ==
    \/ Looks("rebase-merge", IF IsDirectory("rebase-merge") THEN "head-name" ELSE "rebase-apply")
    \/ Adds("head-name", TrimRefsHead(ReadInto("head-name")), <<>>, "msgnum")
    \/ Adds("msgnum", <<>>, <<" ">> \o ReadInto("msgnum"), "end")
    \/ Adds("end", <<>>, <<"/">> \o ReadInto("end"), "text")

RebaseApply ==
    \/ Looks("rebase-apply", IF IsDirectory("rebase-apply") THEN "next" ELSE "branch")
    \/ Adds("next", <<>>, <<" ">> \o ReadInto("next"), "last")
    \/ Adds("last", <<>>, <<"/">> \o ReadInto("last"), "rebasing")
    \/ IsFile("rebasing") /\ Adds("rebasing", <<>>, <<"|REBASE">>, "apply-name")
    \/ ~IsFile("rebasing") /\ Looks("rebasing", "applying")
    \/ Adds("apply-name", TrimRefsHead(ReadInto("head-name")), <<>>, "text")
    \/ IsFile("applying") /\ Adds("applying", <<>>, <<"|AM">>, "text")
    \/ ~IsFile("applying") /\ Adds("applying", <<>>, <<"|AM/REBASE">>, "text")

\* MERGE_HEAD, CHERRY_PICK_HEAD, REVERT_HEAD and BISECT_LOG are files, and none
\* is a directory.  git_branch_name is asked of |head_ref|, and
\* git_reference_name_to_id of the disk.
HeadName ==
    \/ call.head = "branch" /\ Adds("branch", <<BranchWord>>, <<>>, "text")
    \/ call.head # "branch" /\ Looks("branch", "id")
    \/ /\ repository.head \in {"branch", "detached"}
       /\ Adds("id", <<CommitWord, "...">>, <<>>, "text")
    \/ /\ repository.head \notin {"branch", "detached"}
       /\ Adds("id", <<"(unknown)">>, <<>>, "text")

\* Variant: without a head, the repository is not freed.
FreedButRepo(step) ==
    CASE step \in {"not found", "no head"} -> {"git_dir"}
      [] step = "text" -> {"git_dir", "head_ref", "repo"}

Freed(step) ==
    CASE step = "not found" -> {"git_dir"}
      [] step = "no head" -> {"git_dir", "repo"}
      [] step = "text" -> {"git_dir", "head_ref", "repo"}

Remote(step) ==
    CASE step = "not found" -> <<>>
      [] step = "no head" -> <<"[", "(no head)", "]">>
      [] step = "text" -> <<"[">> \o call.name \o call.extra \o <<"]">>

\* It always returns NO_ERROR.
ReturnBranch ==
    /\ call.step \in {"not found", "no head", "text"}
    /\ call' = [NoCall EXCEPT !.step = "returned", !.remote = Remote(call.step)]
    /\ held' = held \ Freed(call.step)
    /\ UNCHANGED <<repository, disturbed>>

GitStep ==
    \/ FindGitRepo \/ RepositoryHead \/ RebaseMerge \/ RebaseApply \/ HeadName
    \/ ReturnBranch

\* Somebody uses git, or the shell goes to another directory.
RepositoryChanges ==
    /\ repository' \in Repositories \ {repository}
    /\ disturbed' = (call.step # "none")
    /\ UNCHANGED <<call, held>>

-----------------------------------------------------------------------------
(* What the prompt is to be of a repository: the branch; the commit, if there *)
(* is none; and of a rebase the branch that it is of, and how far it is.      *)

Text(r, f) ==
    IF r.file[f] = Missing
    THEN <<>>
    ELSE CHOOSE text \in Parts(r.file[f]) : IsText(text, f, r.file[f])

Progress(r, this, last) == <<" ">> \o Text(r, this) \o <<"/">> \o Text(r, last)

ShownRebase(r) ==
    CASE r.directory = "rebase-merge" -> Text(r, "head-name") \o Progress(r, "msgnum", "end")
      [] r.directory = "rebase-apply" ->
            (IF r.file["rebasing"] # Missing THEN Text(r, "head-name") ELSE <<>>)
               \o Progress(r, "next", "last")
               \o << IF r.file["rebasing"] # Missing THEN "|REBASE"
                     ELSE IF r.file["applying"] # Missing THEN "|AM" ELSE "|AM/REBASE" >>

Shown(r) ==
    CASE r.head \in {"none", "damaged"} -> <<>>
      [] r.head = "unborn" -> <<"[", "(no head)", "]">>
      [] r.head \in {"branch", "detached"} ->
            <<"[">> \o (IF r.directory # "none" THEN ShownRebase(r)
                      ELSE IF r.head = "branch" THEN <<BranchWord>>
                      ELSE <<CommitWord, "...">>) \o <<"]">>

=============================================================================
