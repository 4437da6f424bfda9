---------------------------- MODULE SessionProofs ----------------------------
(***************************************************************************)
(* What TLAPS proves about a whole session, for every set of texts and of  *)
(* directories: what the shell hands to cmd.exe and gets back, and that    *)
(* the composition implements each of its components.                      *)
(***************************************************************************)
EXTENDS Session, SequenceTheorems, TLAPS

\* What is proved about the components; the lines of the command history, and the
\* answers it gives the editor, are here all texts there are.
Texts == Seq(Editor!TextChars)

EditorLemmas == INSTANCE LineEditorProofs WITH Recalled <- Texts
HistoryLemmas == INSTANCE CommandHistoryProofs
                     WITH position <- commandPosition, Lines <- Texts

-----------------------------------------------------------------------------
(* The components of the lemmas are those of the session. *)

\* The editor of the lemmas finds the same words.
LEMMA SameWords == \A l, p : Editor!WordAt(l, p) = EditorLemmas!WordAt(l, p)
<1>1. \A l : Editor!ExecutableEnd(l) = EditorLemmas!ExecutableEnd(l)
  BY DEF Editor!ExecutableEnd, EditorLemmas!ExecutableEnd, Editor!FirstFrom,
     EditorLemmas!FirstFrom, Editor!IsBlankAt, EditorLemmas!IsBlankAt
<1>2. \A l : Editor!ArgumentsBegin(l) = EditorLemmas!ArgumentsBegin(l)
  BY <1>1 DEF Editor!ArgumentsBegin, EditorLemmas!ArgumentsBegin, Editor!FirstFrom,
     EditorLemmas!FirstFrom, Editor!IsBlankAt, EditorLemmas!IsBlankAt
<1>3. \A l, b : Editor!Breaks(l, b) = EditorLemmas!Breaks(l, b)
  BY DEF Editor!Breaks, EditorLemmas!Breaks, Editor!Scan, EditorLemmas!Scan,
     Editor!Scanned, EditorLemmas!Scanned, Editor!Settled, EditorLemmas!Settled,
     Editor!IsBlankAt, EditorLemmas!IsBlankAt
<1>4. \A l, b, s : Editor!Separated(l, b, s) = EditorLemmas!Separated(l, b, s)
  BY DEF Editor!Separated, EditorLemmas!Separated, Editor!Word, EditorLemmas!Word,
     Editor!FirstFrom, EditorLemmas!FirstFrom
<1>5. \A l : Editor!ParsedWords(l) = EditorLemmas!ParsedWords(l)
  BY <1>1, <1>2, <1>3, <1>4 DEF Editor!ParsedWords, EditorLemmas!ParsedWords,
     Editor!ArgumentsFrom, EditorLemmas!ArgumentsFrom, Editor!Word, EditorLemmas!Word
<1>6. \A l, ws : Editor!Joined(l, ws) = EditorLemmas!Joined(l, ws)
  BY DEF Editor!Joined, EditorLemmas!Joined, Editor!Attached, EditorLemmas!Attached,
     Editor!TrailingWord, EditorLemmas!TrailingWord, Editor!Word, EditorLemmas!Word
<1> QED
  BY <1>5, <1>6 DEF Editor!WordAt, EditorLemmas!WordAt, Editor!LastBefore,
     EditorLemmas!LastBefore, Editor!Words, EditorLemmas!Words

\* It quotes them the same.
LEMMA SameQuotes == \A w : Editor!QuoteWord(w) = EditorLemmas!QuoteWord(w)
<1>1. \A w, i : Editor!Escaped(w, i) = EditorLemmas!Escaped(w, i)
  BY DEF Editor!Escaped, EditorLemmas!Escaped, Editor!RunsIntoQuote,
     EditorLemmas!RunsIntoQuote
<1>2. \A s : Editor!FlattenSeq(s) = EditorLemmas!FlattenSeq(s)
  BY DEF Editor!FlattenSeq, EditorLemmas!FlattenSeq
<1> QED
  BY <1>1, <1>2 DEF Editor!QuoteWord, EditorLemmas!QuoteWord, Editor!NeedsQuotes,
     EditorLemmas!NeedsQuotes

\* It has the same state.
LEMMA SameEditor ==
    /\ Editor!Line = EditorLemmas!Line /\ Editor!Pos = EditorLemmas!Pos
    /\ Editor!vars = EditorLemmas!vars
    /\ Editor!TextChars = EditorLemmas!TextChars
    /\ Editor!Init => EditorLemmas!Init
BY DEF Editor!Line, EditorLemmas!Line, Editor!Pos, EditorLemmas!Pos, Editor!Confirming,
   EditorLemmas!Confirming, Editor!vars, EditorLemmas!vars, Editor!TextChars,
   EditorLemmas!TextChars, Editor!ToSet, EditorLemmas!ToSet, Editor!Init,
   EditorLemmas!Init, Editor!NewEditor, EditorLemmas!NewEditor, Editor!Drawn,
   EditorLemmas!Drawn, Editor!NoOutput, EditorLemmas!NoOutput

\* Its keys that edit do the same.
LEMMA SameEdit ==
    /\ \A l, p : Editor!Edit(l, p) <=> EditorLemmas!Edit(l, p)
    /\ Editor!EditUndrawn <=> EditorLemmas!EditUndrawn
    /\ \A l, i, j : Editor!Without(l, i, j) = EditorLemmas!Without(l, i, j)
    /\ \A l, i, t : Editor!Insert(l, i, t) = EditorLemmas!Insert(l, i, t)
    /\ \A l, i, s : Editor!FindBackwards(l, i, s) = EditorLemmas!FindBackwards(l, i, s)
    /\ \A l, i : Editor!NextWord(l, i) = EditorLemmas!NextWord(l, i)
<1>1. /\ \A l, p : Editor!Edit(l, p) <=> EditorLemmas!Edit(l, p)
      /\ Editor!EditUndrawn <=> EditorLemmas!EditUndrawn
  BY DEF Editor!Edit, EditorLemmas!Edit, Editor!Put, EditorLemmas!Put, Editor!Drawable,
     EditorLemmas!Drawable, Editor!Drawn, EditorLemmas!Drawn, Editor!NothingPending,
     EditorLemmas!NothingPending, Editor!CompletionOver, EditorLemmas!CompletionOver,
     Editor!Line, EditorLemmas!Line, Editor!Pos, EditorLemmas!Pos, Editor!Confirming,
     EditorLemmas!Confirming, Editor!EditUndrawn, EditorLemmas!EditUndrawn
<1>2. /\ \A l, i, j : Editor!Without(l, i, j) = EditorLemmas!Without(l, i, j)
      /\ \A l, i, t : Editor!Insert(l, i, t) = EditorLemmas!Insert(l, i, t)
  BY DEF Editor!Without, EditorLemmas!Without, Editor!Insert, EditorLemmas!Insert
<1>3. \A l, i, s : Editor!FindBackwards(l, i, s) = EditorLemmas!FindBackwards(l, i, s)
  BY DEF Editor!FindBackwards, EditorLemmas!FindBackwards, Editor!LastUpTo,
     EditorLemmas!LastUpTo, Editor!IsAny, EditorLemmas!IsAny
<1>4. \A l, i : Editor!NextWord(l, i) = EditorLemmas!NextWord(l, i)
  BY DEF Editor!NextWord, EditorLemmas!NextWord, Editor!FindForwards,
     EditorLemmas!FindForwards, Editor!FirstFrom, EditorLemmas!FirstFrom,
     Editor!IsBlankAt, EditorLemmas!IsBlankAt
<1> QED BY <1>1, <1>2, <1>3, <1>4

\* So it takes the same steps.
LEMMA EditorSteps ==
    /\ Editor!Next => EditorLemmas!Next
    /\ \A command \in Texts :
          Editor!Recall(command) \/ Editor!RecallPrefixed(command) => EditorLemmas!Next
<1> USE SameEdit, SameEditor
<1>1. Editor!EraseKey => EditorLemmas!EraseKey
  BY DEF Editor!EraseKey, EditorLemmas!EraseKey, Editor!Escape, EditorLemmas!Escape,
     Editor!Backspace, EditorLemmas!Backspace, Editor!Delete, EditorLemmas!Delete,
     Editor!DeleteToEnd, EditorLemmas!DeleteToEnd, Editor!DeleteToBegin,
     EditorLemmas!DeleteToBegin, Editor!CtrlW, EditorLemmas!CtrlW, Editor!CtrlBack,
     EditorLemmas!CtrlBack, Editor!EraseWord, EditorLemmas!EraseWord, Editor!Confirming,
     EditorLemmas!Confirming
<1>2. Editor!MoveKey => EditorLemmas!MoveKey
  BY DEF Editor!MoveKey, EditorLemmas!MoveKey, Editor!Left, EditorLemmas!Left,
     Editor!Right, EditorLemmas!Right, Editor!Home, EditorLemmas!Home, Editor!End,
     EditorLemmas!End, Editor!CtrlLeft, EditorLemmas!CtrlLeft, Editor!CtrlRight,
     EditorLemmas!CtrlRight
<1>3. Editor!TabKey => EditorLemmas!TabKey
  <2>1. \A o, i : Editor!Inserted(o, i) = EditorLemmas!Inserted(o, i)
    BY SameQuotes DEF Editor!Inserted, EditorLemmas!Inserted
  <2>2. \A b, e, o, i : Editor!Completed(b, e, o, i) = EditorLemmas!Completed(b, e, o, i)
    BY <2>1 DEF Editor!Completed, EditorLemmas!Completed
  <2>3. \A l, p : Editor!Put(l, p) <=> EditorLemmas!Put(l, p)
    BY DEF Editor!Put, EditorLemmas!Put, Editor!Drawable, EditorLemmas!Drawable,
       Editor!Drawn, EditorLemmas!Drawn
  <2>4. \A b, e, o, i : Editor!Complete(b, e, o, i) => EditorLemmas!Complete(b, e, o, i)
    BY <2>1, <2>2, <2>3 DEF Editor!Complete, EditorLemmas!Complete,
       Editor!NothingPending, EditorLemmas!NothingPending
  <2>5. \A step : Editor!TabContinues(step) => EditorLemmas!TabContinues(step)
    BY <2>4 DEF Editor!TabContinues, EditorLemmas!TabContinues, Editor!IsCompleting,
       EditorLemmas!IsCompleting
  <2>6. \A step, o : Editor!TabStarts(step, o) => EditorLemmas!TabStarts(step, o)
    BY <2>2, <2>4, SameWords DEF Editor!TabStarts, EditorLemmas!TabStarts,
       Editor!IsCompleting, EditorLemmas!IsCompleting, Editor!Fits, EditorLemmas!Fits
  <2>7. Editor!TabFindsNothing => EditorLemmas!TabFindsNothing
    BY <2>3, SameWords DEF Editor!TabFindsNothing, EditorLemmas!TabFindsNothing,
       Editor!IsCompleting, EditorLemmas!IsCompleting, Editor!NothingPending,
       EditorLemmas!NothingPending, Editor!NoOutput, EditorLemmas!NoOutput
  <2> QED
    BY <2>5, <2>6, <2>7 DEF Editor!TabKey, EditorLemmas!TabKey
<1>4. /\ Editor!InsertKey => EditorLemmas!InsertKey
      /\ \A command \in Texts :
            Editor!Recall(command) \/ Editor!RecallPrefixed(command) => EditorLemmas!InsertKey
  <2>1. \A c : Editor!Type(c) => EditorLemmas!Type(c)
    BY DEF Editor!Type, EditorLemmas!Type, Editor!Fits, EditorLemmas!Fits
  <2>2. Editor!OtherKey => EditorLemmas!OtherKey
    BY DEF Editor!OtherKey, EditorLemmas!OtherKey
  <2>3. \A c : Editor!Recall(c) => EditorLemmas!Recall(c)
    BY DEF Editor!Recall, EditorLemmas!Recall
  <2>4. \A c : Editor!RecallPrefixed(c) => EditorLemmas!RecallPrefixed(c)
    BY DEF Editor!RecallPrefixed, EditorLemmas!RecallPrefixed, Editor!Prefix,
       EditorLemmas!Prefix, Editor!IsPrefix, EditorLemmas!IsPrefix
  <2>5. \A text : Editor!Paste(text) => EditorLemmas!Paste(text)
    BY DEF Editor!Paste, EditorLemmas!Paste, Editor!Ask, EditorLemmas!Ask, Editor!Fits,
       EditorLemmas!Fits, Editor!ToSet, EditorLemmas!ToSet, Editor!Confirming,
       EditorLemmas!Confirming, Editor!CompletionOver, EditorLemmas!CompletionOver,
       Editor!Drawn, EditorLemmas!Drawn
  <2>6. \A command \in Texts :
            Editor!Recall(command) \/ Editor!RecallPrefixed(command) => EditorLemmas!InsertKey
    BY <2>3, <2>4 DEF EditorLemmas!InsertKey
  <2>7. Recalled \subseteq Texts
    BY ComponentsAssumption DEF Editor!MessageAssumption, Texts
  <2> QED
    BY <2>1, <2>2, <2>5, <2>6, <2>7 DEF Editor!InsertKey, EditorLemmas!InsertKey
<1>5. Editor!LeaveKey => EditorLemmas!LeaveKey
  BY DEF Editor!LeaveKey, EditorLemmas!LeaveKey, Editor!AltNavigate,
     EditorLemmas!AltNavigate, Editor!CommandKey, EditorLemmas!CommandKey,
     Editor!RunAndResume, EditorLemmas!RunAndResume, Editor!CtrlD, EditorLemmas!CtrlD,
     Editor!Return, EditorLemmas!Return, Editor!InputFails, EditorLemmas!InputFails,
     Editor!Discarded, EditorLemmas!Discarded, Editor!NewEditor, EditorLemmas!NewEditor,
     Editor!NoOutput, EditorLemmas!NoOutput, Editor!NothingPending,
     EditorLemmas!NothingPending, Editor!CompletionOver, EditorLemmas!CompletionOver,
     Editor!Drawn, EditorLemmas!Drawn
<1>6. Editor!Resume => EditorLemmas!Resume
  BY DEF Editor!Resume, EditorLemmas!Resume, Editor!pending, EditorLemmas!pending,
     Editor!completion, EditorLemmas!completion, Editor!Drawn, EditorLemmas!Drawn
<1> QED
  BY <1>1, <1>2, <1>3, <1>4, <1>5, <1>6 DEF Editor!Next, EditorLemmas!Next

\* The command history of the lemmas lands where that of the session does.
LEMMA SameLanding ==
    \A direction, prefix :
        History!Landing(direction, prefix) = HistoryLemmas!Landing(direction, prefix)
<1>1. \A direction, prefix, k :
          /\ History!Probe(direction, k) = HistoryLemmas!Probe(direction, k)
          /\ History!Ends(direction, prefix, k) <=> HistoryLemmas!Ends(direction, prefix, k)
  BY DEF History!Ends, HistoryLemmas!Ends, History!Matches, HistoryLemmas!Matches,
     History!Probe, HistoryLemmas!Probe, History!Wrap, HistoryLemmas!Wrap,
     History!Original, HistoryLemmas!Original, History!Size, HistoryLemmas!Size,
     History!IsPrefix, HistoryLemmas!IsPrefix
<1> QED
  BY <1>1 DEF History!Landing, HistoryLemmas!Landing, History!IsLanding,
     HistoryLemmas!IsLanding, History!Size, HistoryLemmas!Size

-----------------------------------------------------------------------------
(* The directory history *)

\* Taking an entry out of a duplicate-free list leaves a duplicate-free list of
\* exactly the other entries.
LEMMA RemoveFirstFacts ==
    ASSUME NEW S, NEW s \in Seq(S), IsInjective(s), NEW e
    PROVE  /\ RemoveFirst(s, e) \in Seq(S)
           /\ IsInjective(RemoveFirst(s, e))
           /\ ToSet(RemoveFirst(s, e)) = ToSet(s) \ {e}
<1> DEFINE r == RemoveFirst(s, e)
<1>1. CASE ~ \E i \in 1 .. Len(s) : s[i] = e
  BY <1>1 DEF RemoveFirst, ToSet
<1>2. CASE \E i \in 1 .. Len(s) : s[i] = e
  <2>1. PICK i \in 1 .. Len(s) : s[i] = e
    BY <1>2
  <2>2. \A j \in 1 .. Len(s) : s[j] = e <=> j = i
    BY <2>1 DEF IsInjective
  <2>3. SelectInSeq(s, LAMBDA v : v = e) = i
    <3>1. {j \in 1 .. Len(s) : s[j] = e} = {i}
      BY <2>2
    <3>2. Min({i}) = i
      BY <2>1 DEF Min
    <3> QED BY <3>1, <3>2 DEF SelectInSeq
  <2> DEFINE front == SubSeq(s, 1, i - 1)
             back  == SubSeq(s, i + 1, Len(s))
  <2>4. r = front \o back
    BY <1>2, <2>3 DEF RemoveFirst, RemoveAt
  <2>5. /\ front \in Seq(S) /\ Len(front) = i - 1
        /\ \A j \in 1 .. i - 1 : front[j] = s[j]
    <3>1. /\ 1 \in Int /\ i - 1 \in Int
          /\ \A j \in 1 .. i - 1 : j \in 1 .. Len(s)
      BY <2>1
    <3> QED BY <3>1, <2>1, SubSeqProperties
  <2>6. /\ back \in Seq(S) /\ Len(back) = Len(s) - i
        /\ \A j \in 1 .. Len(s) - i : back[j] = s[i + j]
    <3>1. /\ i + 1 \in Int /\ Len(s) \in Int
          /\ \A j \in i + 1 .. Len(s) : j \in 1 .. Len(s)
      BY <2>1
    <3> QED BY <3>1, <2>1, SubSeqProperties
  <2>7. /\ r \in Seq(S) /\ Len(r) = Len(s) - 1
        /\ \A j \in 1 .. Len(s) - 1 : r[j] = IF j < i THEN s[j] ELSE s[j + 1]
    <3> HIDE DEF r, front, back
    <3>1. /\ r \in Seq(S) /\ Len(r) = Len(front) + Len(back)
          /\ \A j \in 1 .. Len(front) + Len(back) :
                 r[j] = IF j <= Len(front) THEN front[j] ELSE back[j - Len(front)]
      BY <2>4, <2>5, <2>6, ConcatProperties
    <3>2. Len(front) + Len(back) = Len(s) - 1 /\ Len(s) \in Nat
      BY <2>1, <2>5, <2>6
    <3>3. ASSUME NEW j \in 1 .. Len(s) - 1
          PROVE  r[j] = IF j < i THEN s[j] ELSE s[j + 1]
      <4>1. CASE j < i
        BY <4>1, <2>1, <2>5, <3>1, <3>2
      <4>2. CASE j >= i
        <5> DEFINE k == j - (i - 1)
        <5>1. r[j] = back[k]
          BY <4>2, <2>1, <2>5, <3>1, <3>2
        <5>2. k \in 1 .. Len(s) - i /\ i + k = j + 1 /\ ~(j < i)
          BY <4>2, <2>1
        <5> HIDE DEF k
        <5>3. back[k] = s[i + k]
          BY <2>6, <5>2
        <5> QED BY <5>1, <5>2, <5>3
      <4> QED BY <4>1, <4>2, <2>1
    <3> QED BY <3>1, <3>2, <3>3
  <2> HIDE DEF r
  <2>8. IsInjective(r)
    <3>1. SUFFICES ASSUME NEW a \in 1 .. Len(s) - 1, NEW b \in 1 .. Len(s) - 1,
                          r[a] = r[b]
                   PROVE  a = b
      BY <2>7 DEF IsInjective
    <3> DEFINE old(j) == IF j < i THEN j ELSE j + 1
    <3>2. old(a) \in 1 .. Len(s) /\ old(b) \in 1 .. Len(s)
      BY <2>1
    <3>3. s[old(a)] = r[a] /\ s[old(b)] = r[b]
      BY <2>7
    <3>4. old(a) = old(b)
      BY <3>1, <3>2, <3>3 DEF IsInjective
    <3> QED BY <3>4, <2>1
  <2>9. ToSet(r) = ToSet(s) \ {e}
    <3>1. ASSUME NEW x \in ToSet(r) PROVE x \in ToSet(s) \ {e}
      BY <2>7, <2>2 DEF ToSet
    <3>2. ASSUME NEW x \in ToSet(s) \ {e} PROVE x \in ToSet(r)
      <4>1. PICK j \in 1 .. Len(s) : x = s[j] /\ j # i
        BY <2>2 DEF ToSet
      <4>2. CASE j < i
        BY <4>1, <4>2, <2>7 DEF ToSet
      <4>3. CASE j > i
        <5>1. j - 1 \in 1 .. Len(r) /\ r[j - 1] = x
          BY <4>1, <4>3, <2>7
        <5> QED BY <5>1, <2>7 DEF ToSet
      <4> QED BY <4>1, <4>2, <4>3
    <3> QED BY <3>1, <3>2
  <2> QED BY <2>7, <2>8, <2>9 DEF r
<1> QED BY <1>1, <1>2

\* CommitLastKnown keeps the list duplicate-free, makes d its newest entry, and
\* loses nothing.
LEMMA CommitFacts ==
    ASSUME NEW S, NEW s \in Seq(S), IsInjective(s), NEW d \in S
    PROVE  /\ CommitLastKnown(s, d) \in Seq(S)
           /\ IsInjective(CommitLastKnown(s, d))
           /\ ToSet(CommitLastKnown(s, d)) = ToSet(s) \cup {d}
           /\ Len(CommitLastKnown(s, d)) \in Nat \ {0}
           /\ CommitLastKnown(s, d)[Len(CommitLastKnown(s, d))] = d
<1> DEFINE r == RemoveFirst(s, d)
           c == CommitLastKnown(s, d)
<1>1. r \in Seq(S) /\ IsInjective(r) /\ ToSet(r) = ToSet(s) \ {d}
  BY RemoveFirstFacts
<1>2. c = Append(r, d)
  BY DEF CommitLastKnown
<1> HIDE DEF r, c
<1>3. /\ c \in Seq(S) /\ Len(c) = Len(r) + 1 /\ Len(r) \in Nat
      /\ c[Len(c)] = d /\ \A j \in 1 .. Len(r) : c[j] = r[j]
  BY <1>1, <1>2
<1>4. IsInjective(c)
  <2>1. \A j \in 1 .. Len(r) : r[j] \in ToSet(r)
    <3>1. DOMAIN r = 1 .. Len(r)
      BY <1>1
    <3> QED BY <3>1 DEF ToSet
  <2>2. \A j \in 1 .. Len(r) : r[j] # d
    BY <1>1, <2>1, Zenon
  <2> QED BY <1>1, <1>3, <2>2, SMTT(30) DEF IsInjective
<1>5. ToSet(c) = ToSet(r) \cup {d}
  BY <1>1, <1>3 DEF ToSet
<1> QED BY <1>1, <1>3, <1>4, <1>5 DEF c

-----------------------------------------------------------------------------

\* Away from the newest place, the entry under the cursor is the directory the
\* history believes the shell is in.
Coherent ==
    dirPosition < Len(dirs) /\ phase # "ended" => lastKnown = dirs[dirPosition + 1]

\* NoDuplicates, Coherent and KnowsWhereItIs are inductive together: an
\* Alt-Left that does not move stays on the entry lastKnown names, which is the
\* current directory, and each of the two needs the other to be preserved.
DirectoryInv ==
    /\ DirectoryTypeOK
    /\ phase # "ended" => dirPosition >= 0
    /\ NoDuplicates
    /\ Coherent
    /\ KnowsWhereItIs

\* The history starts empty, in the directory the shell is in.
LEMMA InitDirectoryInv == DirectoryInit => DirectoryInv
BY StartDirAssumption
   DEF DirectoryInit, DirectoryInv, DirectoryTypeOK, NoDuplicates, Coherent,
       KnowsWhereItIs, IsInjective

\* Where an Alt-Left or Alt-Right takes the list and the cursor.
LEMMA NavigateFacts ==
    ASSUME DirectoryInv, phase = "editing", NEW direction \in {-1, 1}
    PROVE  /\ DirsAt(direction) \in Seq(Dirs)
           /\ IsInjective(DirsAt(direction))
           /\ ToSet(dirs) \subseteq ToSet(DirsAt(direction))
           /\ Original(direction) \in 0 .. Len(DirsAt(direction))
           /\ Target(direction) \in -1 .. Len(DirsAt(direction)) - 1
           /\ Original(direction) < Len(DirsAt(direction)) =>
                  DirsAt(direction)[Original(direction) + 1] = lastKnown
           /\ direction = -1 =>
                  /\ Original(direction) < Len(DirsAt(direction))
                  /\ Target(direction)
                    \in {Original(direction), Original(direction) - 1}
<1> DEFINE ds == DirsAt(direction)
<1>1. /\ ds \in Seq(Dirs) /\ IsInjective(ds)
      /\ ToSet(dirs) \subseteq ToSet(ds)
      /\ Committed(direction) => Len(ds) >= 1 /\ ds[Len(ds)] = lastKnown
      /\ ~Committed(direction) => ds = dirs
  <2>1. /\ dirs \in Seq(Dirs) /\ IsInjective(dirs) /\ lastKnown \in Dirs
    BY DEF DirectoryInv, DirectoryTypeOK, NoDuplicates
  <2>2. CASE Committed(direction)
    <3> DEFINE c == CommitLastKnown(dirs, lastKnown)
    <3>1. ds = c
      BY <2>2 DEF DirsAt
    <3>2. /\ c \in Seq(Dirs) /\ IsInjective(c)
          /\ ToSet(c) = ToSet(dirs) \cup {lastKnown}
          /\ Len(c) \in Nat \ {0} /\ c[Len(c)] = lastKnown
      BY <2>1, CommitFacts
    <3> HIDE DEF ds, c
    <3> QED BY <2>2, <3>1, <3>2
  <2>3. CASE ~Committed(direction)
    BY <2>1, <2>3 DEF DirsAt
  <2> QED BY <2>2, <2>3
<1>2. /\ Original(direction) \in 0 .. Len(ds)
      /\ Committed(direction) => Original(direction) = Len(ds) - 1
      /\ ~Committed(direction) => Original(direction) = dirPosition
  BY <1>1 DEF Original, DirectoryInv, DirectoryTypeOK
<1> HIDE DEF ds
<1>3. Target(direction) \in -1 .. Len(ds) - 1
  BY <1>1, <1>2 DEF Target, ds
<1>4. ASSUME Original(direction) < Len(ds)
      PROVE  ds[Original(direction) + 1] = lastKnown
  <2>1. CASE Committed(direction)
    BY <1>1, <1>2, <2>1
  <2>2. CASE ~Committed(direction)
    BY <1>1, <1>2, <1>4, <2>2 DEF DirectoryInv, Coherent
  <2> QED BY <2>1, <2>2
<1>5. ASSUME direction = -1
      PROVE  /\ Original(direction) < Len(ds)
             /\ Target(direction) \in {Original(direction), Original(direction) - 1}
  <2>1. Original(direction) < Len(ds)
    <3>1. CASE Committed(direction)
      BY <1>1, <1>2, <3>1
    <3>2. CASE ~Committed(direction)
      BY <1>1, <1>2, <1>5, <3>2 DEF Committed, DirectoryInv, DirectoryTypeOK
    <3> QED BY <3>1, <3>2
  <2> QED BY <1>1, <1>2, <1>5, <2>1 DEF Target, ds
<1> QED BY <1>1, <1>2, <1>3, <1>4, <1>5 DEF ds

\* Every action preserves the invariant.
LEMMA StepDirectoryInv == DirectoryInv /\ [DirectoryNext]_directoryVars => DirectoryInv'
<1> SUFFICES ASSUME DirectoryInv, [DirectoryNext]_directoryVars PROVE DirectoryInv'
  OBVIOUS
<1> USE DEF DirectoryInv
<1>1. CASE StartingEdit
  <2>1. CASE lastKnown # cwd
    <3> DEFINE ds == CommitLastKnown(dirs, lastKnown)
    <3>1. /\ dirs' = ds /\ dirPosition' = Len(ds) /\ lastKnown' = cwd
          /\ phase' = "editing" /\ visited' = visited \cup {cwd}
          /\ UNCHANGED <<cwd, onDisk>>
      BY <1>1, <2>1 DEF StartingEdit, Arrive
    <3>2. ds \in Seq(Dirs) /\ IsInjective(ds) /\ Len(ds) \in Nat
      BY CommitFacts DEF DirectoryTypeOK, NoDuplicates
    <3> HIDE DEF ds
    <3> QED BY <3>1, <3>2
      DEF DirectoryTypeOK, NoDuplicates, Coherent, KnowsWhereItIs
  <2>2. CASE lastKnown = cwd
    BY <1>1, <2>2
       DEF StartingEdit, Arrive, DirectoryTypeOK,
           NoDuplicates, Coherent, KnowsWhereItIs
  <2> QED BY <2>1, <2>2
<1>2. ASSUME NEW direction \in {-1, 1}, Navigate(direction) PROVE DirectoryInv'
  <2> DEFINE ds == DirsAt(direction)
             target == Target(direction)
             original == Original(direction)
  <2>1. /\ phase = "editing" /\ target >= 0 /\ dirs' = ds /\ dirPosition' = target
        /\ lastKnown' = ds[target + 1]
        /\ cwd' = IF lastKnown' \in onDisk THEN lastKnown' ELSE cwd
        /\ phase' = IF target # original THEN "command" ELSE "editing"
        /\ UNCHANGED <<onDisk, visited>>
    BY <1>2 DEF Navigate
  <2>2. /\ ds \in Seq(Dirs) /\ IsInjective(ds)
        /\ target \in -1 .. Len(ds) - 1
        /\ target = original => ds[target + 1] = lastKnown
    BY <2>1, NavigateFacts, SMTT(30)
  <2> HIDE DEF ds, target, original
  <2>3. target + 1 \in 1 .. Len(ds) /\ ds[target + 1] \in Dirs
    BY <2>1, <2>2
  <2>4. DirectoryTypeOK'
    BY <2>1, <2>2, <2>3 DEF DirectoryTypeOK
  <2>5. KnowsWhereItIs'
    BY <2>1, <2>2 DEF KnowsWhereItIs
  <2> QED BY <2>1, <2>2, <2>4, <2>5 DEF NoDuplicates, Coherent
<1>3. CASE NavigateOutOfRange(1)
  <2> DEFINE ds == DirsAt(1)
  <2>1. /\ phase = "editing" /\ dirs' = ds /\ dirPosition' = Target(1)
        /\ phase' = "ended" /\ UNCHANGED <<cwd, onDisk, lastKnown, visited>>
    BY <1>3 DEF NavigateOutOfRange
  <2>2. /\ ds \in Seq(Dirs) /\ IsInjective(ds) /\ Len(ds) \in Nat
        /\ Target(1) \in -1 .. Len(ds) - 1
    BY <2>1, NavigateFacts
  <2> HIDE DEF ds
  <2> QED BY <2>1, <2>2
    DEF DirectoryTypeOK, NoDuplicates, Coherent, KnowsWhereItIs
<1>4. CASE LeavePrompt
  BY <1>4
    DEF LeavePrompt, DirectoryTypeOK, NoDuplicates, Coherent,
        KnowsWhereItIs
<1>5. ASSUME NEW d \in Dirs, ChangeDirectory(d) PROVE DirectoryInv'
  BY <1>5
    DEF ChangeDirectory, DirectoryTypeOK, NoDuplicates, Coherent,
        KnowsWhereItIs
<1>6. ASSUME NEW d \in Dirs, RemoveDirectory(d) PROVE DirectoryInv'
  BY <1>6
    DEF RemoveDirectory, DirectoryTypeOK, NoDuplicates, Coherent,
        KnowsWhereItIs
<1>7. ASSUME NEW d \in Dirs, MakeDirectory(d) PROVE DirectoryInv'
  BY <1>7
    DEF MakeDirectory, DirectoryTypeOK, NoDuplicates, Coherent,
        KnowsWhereItIs
<1>8. CASE UNCHANGED directoryVars
  BY <1>8
    DEF directoryVars, DirectoryTypeOK, NoDuplicates, Coherent,
        KnowsWhereItIs
<1> QED BY <1>1, <1>2, <1>3, <1>4, <1>5, <1>6, <1>7, <1>8
  DEF DirectoryNext, Back, Forward

\* The inductive invariant, for the theorems below.
LEMMA DirectoryInvariant == DirectorySpec => []DirectoryInv
BY InitDirectoryInv, StepDirectoryInv, PTL DEF DirectorySpec

\* Every variable stays in its type, and the cursor between -1 and the end.
THEOREM DirectoryTypeCorrect == DirectorySpec => []DirectoryTypeOK
<1>1. DirectoryInv => DirectoryTypeOK
  BY DEF DirectoryInv
<1> QED BY <1>1, DirectoryInvariant, PTL

\* The list never holds a directory twice.
THEOREM ListHasNoDuplicates == DirectorySpec => []NoDuplicates
<1>1. DirectoryInv => NoDuplicates
  BY DEF DirectoryInv
<1> QED BY <1>1, DirectoryInvariant, PTL

\* Whatever the shell, the user and the disk do, at every prompt the history
\* and the process agree on the current directory.
THEOREM AlwaysKnowsWhereItIs == DirectorySpec => []KnowsWhereItIs
<1>1. DirectoryInv => KnowsWhereItIs
  BY DEF DirectoryInv
<1> QED BY <1>1, DirectoryInvariant, PTL

\* Only an Alt-Right at the newest place loses a directory.
THEOREM NothingElseForgets == DirectorySpec => OnlyForwardAtNewestForgets
<1>1. ASSUME DirectoryInv, [DirectoryNext]_directoryVars,
             ~(Known \subseteq Known')
      PROVE  Forward /\ dirPosition = Len(dirs)
  <2> SUFFICES ASSUME ~(Forward /\ dirPosition = Len(dirs)) PROVE FALSE
    OBVIOUS
  <2> USE DEF DirectoryInv
  <2>1. ~StartingEdit
    <3>1. SUFFICES ASSUME StartingEdit, lastKnown # cwd
          PROVE Known \subseteq Known'
      BY <1>1 DEF StartingEdit, Known
    <3>2. ToSet(CommitLastKnown(dirs, lastKnown))
              = ToSet(dirs) \cup {lastKnown}
      BY <1>1, CommitFacts DEF DirectoryTypeOK, NoDuplicates
    <3> QED BY <3>1, <3>2 DEF StartingEdit, Arrive, Known
  <2>2. ~Back
    <3>1. SUFFICES ASSUME Back PROVE Known \subseteq Known'
      BY <1>1
    <3>2. /\ phase = "editing" /\ dirs' = DirsAt(-1)
      BY <3>1 DEF Back, Navigate
    <3>3. /\ dirs \in Seq(Dirs) /\ IsInjective(dirs) /\ lastKnown \in Dirs
          /\ dirPosition \in 0 .. Len(dirs)
      BY <1>1, <3>2 DEF DirectoryTypeOK, NoDuplicates
    <3>4. CASE dirPosition = Len(dirs)
      <4>1. dirs' = CommitLastKnown(dirs, lastKnown)
        BY <3>2, <3>4 DEF DirsAt, Committed
      <4> QED BY <3>3, <4>1, CommitFacts DEF Known
    <3>5. CASE dirPosition < Len(dirs)
      <4>1. dirs' = dirs /\ lastKnown = dirs[dirPosition + 1]
        BY <1>1, <3>2, <3>3, <3>5 DEF DirsAt, Committed, Coherent
      <4>2. lastKnown \in ToSet(dirs)
        BY <3>3, <3>5, <4>1 DEF ToSet
      <4> QED BY <4>1, <4>2 DEF Known
    <3> QED BY <3>3, <3>4, <3>5
  <2>3. ~Forward
    <3>1. SUFFICES ASSUME Forward, dirPosition < Len(dirs)
          PROVE Known \subseteq Known'
      BY <1>1 DEF DirectoryTypeOK, Forward, Navigate
    <3>2. /\ phase = "editing" /\ dirs' = dirs
      BY <3>1 DEF Forward, Navigate, DirsAt, Committed
    <3>3. lastKnown \in ToSet(dirs)
      BY <1>1, <3>1, <3>2 DEF DirectoryTypeOK, Coherent, ToSet
    <3> QED BY <3>2, <3>3 DEF Known
  <2>4. ~NavigateOutOfRange(1)
    BY <1>1 DEF NavigateOutOfRange, DirsAt, Committed, Known
  <2>5. Known' = Known
    BY <1>1, <2>1, <2>2, <2>3, <2>4
       DEF DirectoryNext, LeavePrompt, ChangeDirectory, RemoveDirectory, MakeDirectory,
           directoryVars, Known
  <2> QED BY <1>1, <2>5
<1>2. DirectoryInv /\ [DirectoryNext]_directoryVars =>
         [~(Known \subseteq Known')
             => Forward /\ dirPosition = Len(dirs)]_directoryVars
  BY <1>1
<1> QED BY <1>2, DirectoryInvariant, PTL
  DEF DirectorySpec, OnlyForwardAtNewestForgets

\* An Alt-Left that moves puts the directory it was pressed in next to the cursor.
LEMMA BackFacts ==
    ASSUME DirectoryInv, Back, phase' = "command"
    PROVE  dirPosition' + 2 \in DOMAIN dirs' /\ dirs'[dirPosition' + 2] = lastKnown
<1> DEFINE ds == DirsAt(-1)
           target == Target(-1)
           original == Original(-1)
<1>1. /\ phase = "editing" /\ dirs' = ds /\ dirPosition' = target
      /\ target # original
  BY DEF Back, Navigate
<1>2. /\ ds \in Seq(Dirs) /\ original \in 0 .. Len(ds) /\ original < Len(ds)
      /\ target \in {original, original - 1} /\ ds[original + 1] = lastKnown
  BY <1>1, NavigateFacts
<1> HIDE DEF ds, target, original
<1>3. dirPosition' + 2 = original + 1
  BY <1>1, <1>2
<1> QED BY <1>1, <1>2, <1>3

\* After an Alt-Left that moved, Alt-Right leads back.
THEOREM AltRightUndoesAltLeft == DirectorySpec => ForwardUndoesBack
<1>1. DirectoryInv =>
          [Back /\ phase' = "command" =>
              /\ dirPosition' + 2 \in DOMAIN dirs'
              /\ dirs'[dirPosition' + 2] = lastKnown]_directoryVars
  BY BackFacts
<1> QED BY <1>1, DirectoryInvariant, PTL DEF ForwardUndoesBack

-----------------------------------------------------------------------------
(* The inductive invariant *)

\* What the prompt is to show again is what the editor keeps while cmd.exe runs a
\* command.
KeptIsLine == phase = "command" => kept = Editor!Drawn(line, position)

\* Until the history is moved in, the command entered last is its newest, and its
\* cursor past that.
RanIsNewest ==
    ran # <<>> => /\ commands # <<>> /\ commandPosition = Len(commands)
                  /\ commands[Len(commands)] = ran

\* Until the directory is changed in another way, the one that Alt-Left was
\* pressed in is next to the cursor, and the next prompt has nothing to file.
FromIsNext ==
    from # Nowhere /\ phase # "ended" =>
        /\ dirPosition + 2 \in DOMAIN dirs /\ dirs[dirPosition + 2] = from
        /\ lastKnown = cwd

SessionInv ==
    /\ EditorLemmas!IInv /\ EditorLemmas!LineIsText
    /\ HistoryLemmas!TypeOK
    /\ DirectoryInv
    /\ KeptIsLine
    /\ RanIsNewest
    /\ FromIsNext

\* The session makes the assumptions that the components' proofs rest on.
LEMMA Assumptions ==
    /\ Lines \subseteq Texts /\ Recalled \subseteq Texts /\ <<>> \in Texts
    /\ HistoryFiles \subseteq Seq(Texts)
    /\ EditorLemmas!CharsAssumption /\ EditorLemmas!EditorAssumption
    /\ EditorLemmas!MessageAssumption
    /\ HistoryLemmas!HistoryAssumption /\ StartDirAssumption
<1>1. Lines \subseteq Texts /\ Recalled \subseteq Texts /\ HistoryFiles \subseteq Seq(Lines)
  BY ComponentsAssumption DEF Texts, Editor!MessageAssumption, History!HistoryAssumption
<1>2. HistoryFiles \subseteq Seq(Texts)
  <2> SUFFICES ASSUME NEW file \in Seq(Lines) PROVE file \in Seq(Texts)
    BY <1>1
  <2>1. /\ Len(file) \in Nat /\ file = [i \in 1 .. Len(file) |-> file[i]]
        /\ \A i \in 1 .. Len(file) : file[i] \in Texts
    BY <1>1
  <2> QED BY <2>1
<1>3. <<>> \in Texts
  BY DEF Texts
<1>4. /\ \A s : Editor!ToSet(s) = EditorLemmas!ToSet(s)
      /\ Editor!TextChars = EditorLemmas!TextChars
  BY DEF Editor!ToSet, EditorLemmas!ToSet, Editor!TextChars, EditorLemmas!TextChars
<1>5. Texts \subseteq Seq(Chars)
  <2> SUFFICES ASSUME NEW text \in Texts PROVE text \in Seq(Chars)
    OBVIOUS
  <2>1. Editor!TextChars \subseteq Chars
    BY DEF Editor!TextChars
  <2>2. /\ Len(text) \in Nat /\ text = [i \in 1 .. Len(text) |-> text[i]]
        /\ \A i \in 1 .. Len(text) : text[i] \in Editor!TextChars
    BY DEF Texts
  <2> QED BY <2>1, <2>2
<1>6. EditorLemmas!EditorAssumption /\ EditorLemmas!MessageAssumption
  BY <1>1, <1>4, <1>5, ComponentsAssumption
     DEF Editor!EditorAssumption, Editor!MessageAssumption, EditorLemmas!EditorAssumption,
         EditorLemmas!MessageAssumption, Texts
<1>7. HistoryLemmas!HistoryAssumption /\ StartDirAssumption
  BY <1>2, <1>3, ComponentsAssumption, StartDirAssumption
     DEF History!HistoryAssumption, HistoryLemmas!HistoryAssumption
<1>8. EditorLemmas!CharsAssumption
  BY ComponentsAssumption DEF Editor!CharsAssumption, EditorLemmas!CharsAssumption
<1> QED BY <1>1, <1>2, <1>3, <1>6, <1>7, <1>8

\* What is known of the editor.
LEMMA EditorFacts ==
    /\ EditorLemmas!Init => EditorLemmas!IInv
    /\ EditorLemmas!IInv /\ [EditorLemmas!Next]_(EditorLemmas!vars) => EditorLemmas!IInv'
    /\ EditorLemmas!IInv /\ EditorLemmas!LineIsText /\ [EditorLemmas!Next]_(EditorLemmas!vars)
          => EditorLemmas!LineIsText'
    /\ EditorLemmas!IInv /\ EditorLemmas!LineIsText /\ phase = "editing"
          => EditorLemmas!Line \in Texts /\ EditorLemmas!Pos \in 0 .. Len(EditorLemmas!Line)
<1> USE Assumptions DEF EditorLemmas!CharsAssumption, EditorLemmas!EditorAssumption,
        EditorLemmas!MessageAssumption
<1>1. EditorLemmas!Init => EditorLemmas!IInv
  BY EditorLemmas!InitIInv
<1>2. EditorLemmas!IInv /\ [EditorLemmas!Next]_(EditorLemmas!vars) => EditorLemmas!IInv'
  BY EditorLemmas!StepIInv
<1>3. EditorLemmas!IInv /\ EditorLemmas!LineIsText /\ [EditorLemmas!Next]_(EditorLemmas!vars)
          => EditorLemmas!LineIsText'
  BY EditorLemmas!StepLineIsText
<1>4. EditorLemmas!IInv /\ EditorLemmas!LineIsText /\ phase = "editing"
          => EditorLemmas!Line \in Texts /\ EditorLemmas!Pos \in 0 .. Len(EditorLemmas!Line)
  BY EditorLemmas!LineTextFacts, SameEditor DEF Texts
<1> QED BY <1>1, <1>2, <1>3, <1>4

\* What is known of the command history.
LEMMA HistoryFacts ==
    ASSUME HistoryLemmas!TypeOK, commands # <<>>
    PROVE  /\ \A direction \in {-1, 1} : \A prefix :
                 History!Landing(direction, prefix) \in 0 .. Len(commands) - 1
           /\ commandPosition = Len(commands) => History!Landing(-1, <<>>) = Len(commands) - 1
<1> USE Assumptions DEF HistoryLemmas!HistoryAssumption
<1>1. \A direction \in {-1, 1} : \A prefix :
          HistoryLemmas!Landing(direction, prefix) \in 0 .. Len(commands) - 1
  BY HistoryLemmas!LandingFacts DEF HistoryLemmas!Size
<1>2. commandPosition = Len(commands) => HistoryLemmas!Landing(-1, <<>>) = Len(commands) - 1
  BY HistoryLemmas!NewestFirst DEF HistoryLemmas!Size, Texts
<1> QED BY <1>1, <1>2, SameLanding

\* The first prompt has an empty line and no command before it.
LEMMA SessionInit == Init => SessionInv
<1> SUFFICES ASSUME Init PROVE SessionInv
  OBVIOUS
<1>1. EditorLemmas!IInv /\ EditorLemmas!LineIsText
  <2>1. EditorLemmas!Init
    BY SameEditor DEF Init
  <2>2. EditorLemmas!LineIsText
    BY <2>1 DEF EditorLemmas!Init, EditorLemmas!NewEditor, EditorLemmas!LineIsText
  <2> QED BY <2>1, <2>2, EditorFacts
<1>2. HistoryLemmas!TypeOK
  <2>1. commands \in Seq(Texts) /\ commandPosition = Len(commands)
    BY Assumptions DEF Init, History!Init, History!Populate, History!Size
  <2> HIDE DEF Texts
  <2> QED BY <2>1 DEF HistoryLemmas!TypeOK, HistoryLemmas!Size
<1>3. DirectoryInv
  BY InitDirectoryInv DEF Init
<1>4. KeptIsLine /\ RanIsNewest /\ FromIsNext
  BY DEF Init, Editor!Init, KeptIsLine, RanIsNewest, FromIsNext
<1> QED BY <1>1, <1>2, <1>3, <1>4 DEF SessionInv

-----------------------------------------------------------------------------
(* What a step of the session is for each component *)

\* To the editor, a step of its own, or the end of the process.
EditorGoes ==
    \/ Editor!Next \/ UNCHANGED Editor!vars
    \/ \E command \in Texts : Editor!Recall(command) \/ Editor!RecallPrefixed(command)
    \/ phase' = "ended" /\ UNCHANGED editor

\* To the command history, one of the two calls it is made for.
HistoryGoes ==
    \/ UNCHANGED history
    \/ \E command \in Texts \ {<<>>} : History!AddCommand(command)
    \/ \E direction \in {-1, 1}, prefix \in Texts : History!MoveInHistory(direction, prefix)

\* To the directory history, a step of its own, or the end of the process.
DirectoryGoes ==
    \/ DirectoryNext \/ UNCHANGED directoryVars
    \/ phase' = "ended" /\ UNCHANGED directories

\* A key that the editor handles by itself is pressed at a prompt, and leaves no
\* command for cmd.exe.
LEMMA KeyPhases ==
    /\ \A l, p : Editor!Edit(l, p) => phase = "editing" /\ phase' \in {"editing", "ended"}
    /\ Editor!EditUndrawn => phase = "editing" /\ phase' = "editing"
    /\ Editor!EraseKey \/ Editor!MoveKey \/ Editor!TabKey \/ Editor!OtherKey
          => phase = "editing" /\ phase' \in {"editing", "ended"}
    /\ \A c : Editor!Type(c) => phase = "editing" /\ phase' \in {"editing", "ended"}
    /\ \A text : Editor!Paste(text) => phase = "editing" /\ phase' \in {"editing", "ended"}
    /\ \A c : Editor!RecallPrefixed(c) => phase = "editing" /\ phase' \in {"editing", "ended"}
    /\ \A c : Editor!Recall(c) => phase = "editing" /\ phase' \in {"editing", "ended"}
<1>1. \A l, p : Editor!Edit(l, p) => phase = "editing" /\ phase' \in {"editing", "ended"}
  BY DEF Editor!Edit, Editor!Put
<1>2. Editor!EditUndrawn => phase = "editing" /\ phase' = "editing"
  BY DEF Editor!EditUndrawn
<1>3. Editor!EraseKey => phase = "editing" /\ phase' \in {"editing", "ended"}
  BY <1>1, <1>2 DEF Editor!EraseKey, Editor!Escape, Editor!Backspace, Editor!Delete,
     Editor!DeleteToEnd, Editor!DeleteToBegin, Editor!CtrlW, Editor!CtrlBack, Editor!EraseWord
<1>4. Editor!MoveKey => phase = "editing" /\ phase' \in {"editing", "ended"}
  BY <1>1 DEF Editor!MoveKey, Editor!Left, Editor!Right, Editor!Home, Editor!End,
     Editor!CtrlLeft, Editor!CtrlRight
<1>5. Editor!TabKey => phase = "editing" /\ phase' \in {"editing", "ended"}
  BY DEF Editor!TabKey, Editor!TabContinues, Editor!TabStarts, Editor!TabFindsNothing,
     Editor!Complete, Editor!Put
<1>6. /\ Editor!OtherKey => phase = "editing" /\ phase' \in {"editing", "ended"}
      /\ \A c : Editor!Type(c) => phase = "editing" /\ phase' \in {"editing", "ended"}
  BY <1>1 DEF Editor!OtherKey, Editor!Type
<1>7. \A text : Editor!Paste(text) => phase = "editing" /\ phase' \in {"editing", "ended"}
  BY <1>1 DEF Editor!Paste, Editor!Ask
<1>8. /\ \A c : Editor!RecallPrefixed(c) => phase = "editing" /\ phase' \in {"editing", "ended"}
      /\ \A c : Editor!Recall(c) => phase = "editing" /\ phase' \in {"editing", "ended"}
  BY <1>1 DEF Editor!RecallPrefixed, Editor!Recall
<1> QED BY <1>1, <1>2, <1>3, <1>4, <1>5, <1>6, <1>7, <1>8

\* Leaving the prompt, or staying in it, is all that the directory history sees of
\* the other keys.
LEMMA DirectoryLeft ==
    ASSUME UNCHANGED directories, phase = "editing", phase' \in {"editing", "command", "ended"}
    PROVE  DirectoryGoes
BY DEF DirectoryGoes, directories, directoryVars, DirectoryNext, LeavePrompt

\* What Return files, and what is searched for, is a text; so is what is found.
LEMMA CommandFacts ==
    ASSUME SessionInv, phase = "editing"
    PROVE  /\ Editor!Line \in Texts /\ Editor!Prefix \in Texts
           /\ commands # <<>> =>
                 \A direction \in {-1, 1} : \A prefix : History!Result(direction, prefix) \in Texts
<1>1. Editor!Line \in Texts /\ Editor!Pos \in 0 .. Len(Editor!Line)
  BY EditorFacts, SameEditor DEF SessionInv
<1>2. Editor!Prefix \in Texts
  BY <1>1 DEF Editor!Prefix, Texts
<1>3. ASSUME commands # <<>>, NEW direction \in {-1, 1}, NEW prefix
      PROVE  History!Result(direction, prefix) \in Texts
  <2>1. History!Landing(direction, prefix) \in 0 .. Len(commands) - 1
    BY <1>3, HistoryFacts DEF SessionInv
  <2>2. commands \in Seq(Texts)
    BY DEF SessionInv, HistoryLemmas!TypeOK
  <2> HIDE DEF Texts
  <2> QED BY <2>1, <2>2 DEF History!Result
<1> QED BY <1>1, <1>2, <1>3

\* Return discards the editor, files the line and leaves the prompt.
LEMMA EnterGoes ==
    ASSUME SessionInv, Enter PROVE EditorGoes /\ HistoryGoes /\ DirectoryGoes
<1>1. phase = "editing" /\ phase' = "command"
  BY DEF Enter, Editor!Return, Editor!Discarded
<1>2. EditorGoes
  BY DEF Enter, EditorGoes, Editor!Next, Editor!LeaveKey
<1>3. HistoryGoes
  BY <1>1, CommandFacts DEF Enter, HistoryGoes
<1>4. DirectoryGoes
  BY <1>1, DirectoryLeft DEF Enter
<1> QED BY <1>2, <1>3, <1>4

\* Up and Down move in the command history and put the answer into the line.
LEMMA ArrowKeyGoes ==
    ASSUME SessionInv, NEW direction \in {-1, 1}, ArrowKey(direction)
    PROVE  EditorGoes /\ HistoryGoes /\ DirectoryGoes
<1>1. phase = "editing" /\ phase' \in {"editing", "ended"}
  BY KeyPhases DEF ArrowKey
<1>2. EditorGoes
  BY <1>1, CommandFacts DEF ArrowKey, EditorGoes, Editor!Next, Editor!InsertKey
<1>3. HistoryGoes
  BY Assumptions DEF ArrowKey, HistoryGoes
<1>4. DirectoryGoes
  BY <1>1, DirectoryLeft DEF ArrowKey
<1> QED BY <1>2, <1>3, <1>4

\* PgUp and PgDn do too, if the search finds a command.
LEMMA PageKeyGoes ==
    ASSUME SessionInv, NEW direction \in {-1, 1}, PageKey(direction)
    PROVE  EditorGoes /\ HistoryGoes /\ DirectoryGoes
<1>1. phase = "editing" /\ phase' \in {"editing", "ended"}
  BY KeyPhases DEF PageKey
<1>2. EditorGoes
  BY <1>1, CommandFacts DEF PageKey, EditorGoes, Editor!Next, Editor!InsertKey
<1>3. HistoryGoes
  BY <1>1, CommandFacts DEF PageKey, HistoryGoes
<1>4. DirectoryGoes
  BY <1>1, DirectoryLeft DEF PageKey
<1> QED BY <1>2, <1>3, <1>4

\* The other keys that the editor handles touch neither history.
LEMMA EditKeyGoes ==
    ASSUME EditKey PROVE EditorGoes /\ HistoryGoes /\ DirectoryGoes
<1>1. phase = "editing" /\ phase' \in {"editing", "ended"}
  BY KeyPhases DEF EditKey
<1>2. EditorGoes
  BY DEF EditKey, EditorGoes, Editor!Next, Editor!InsertKey
<1> QED BY <1>1, <1>2, DirectoryLeft DEF EditKey, HistoryGoes

\* The keys that leave the prompt to cmd.exe.
LEMMA LeavingGoes ==
    ASSUME InputFails \/ CtrlD \/ \E command \in {"cd ..", "cls"} : CommandKey(command)
    PROVE  EditorGoes /\ HistoryGoes /\ DirectoryGoes
<1>1. phase = "editing" /\ phase' \in {"editing", "command"}
  BY KeyPhases DEF InputFails, CtrlD, CommandKey, Editor!InputFails, Editor!Discarded,
     Editor!CtrlD, Editor!CommandKey, Editor!RunAndResume
<1>2. EditorGoes
  <2>1. Editor!AltNavigate(TRUE) <=> Editor!CommandKey
    BY DEF Editor!AltNavigate
  <2> QED
    BY <2>1 DEF InputFails, CtrlD, CommandKey, EditorGoes, Editor!Next, Editor!LeaveKey
<1> QED BY <1>1, <1>2, DirectoryLeft DEF InputFails, CtrlD, CommandKey, HistoryGoes

\* Alt-Left and Alt-Right move in the directory history; the editor leaves the prompt
\* exactly when that does.
LEMMA AltNavigateGoes ==
    ASSUME NEW direction \in {-1, 1}, AltNavigate(direction)
    PROVE  EditorGoes /\ HistoryGoes /\ DirectoryGoes
<1>1. EditorGoes
  BY DEF AltNavigate, EditorGoes, Editor!Next, Editor!LeaveKey
<1>2. DirectoryGoes
  BY DEF AltNavigate, DirectoryGoes, DirectoryNext, Back, Forward
<1> QED BY <1>1, <1>2 DEF AltNavigate, HistoryGoes

\* What cmd.exe and other processes do.
LEMMA OthersGo ==
    ASSUME \/ AltRightCrashes \/ Resume \/ RunExits \/ DirectoriesChange
           \/ \E d \in Dirs : RunChangesDirectory(d)
    PROVE  EditorGoes /\ HistoryGoes /\ DirectoryGoes
<1>1. CASE AltRightCrashes
  BY <1>1 DEF AltRightCrashes, EditorGoes, HistoryGoes, DirectoryGoes, DirectoryNext,
     NavigateOutOfRange
<1>2. CASE Resume
  BY <1>2 DEF Resume, EditorGoes, HistoryGoes, DirectoryGoes, DirectoryNext, Editor!Next
<1>3. CASE RunExits
  BY <1>3 DEF RunExits, EditorGoes, HistoryGoes, DirectoryGoes
<1>4. CASE DirectoriesChange
  BY <1>4 DEF DirectoriesChange, EditorGoes, HistoryGoes, DirectoryGoes, DirectoryNext,
     RemoveDirectory, MakeDirectory, editor, Editor!vars
<1>5. CASE \E d \in Dirs : RunChangesDirectory(d)
  BY <1>5 DEF RunChangesDirectory, EditorGoes, HistoryGoes, DirectoryGoes, DirectoryNext,
     ChangeDirectory, editor, Editor!vars
<1> QED BY <1>1, <1>2, <1>3, <1>4, <1>5

\* Every step is one of these for each of them.
LEMMA ComponentsGo ==
    ASSUME SessionInv, [Next]_vars PROVE EditorGoes /\ HistoryGoes /\ DirectoryGoes
<1>1. CASE UNCHANGED vars
  BY <1>1 DEF vars, editor, directories, EditorGoes, HistoryGoes, DirectoryGoes,
     Editor!vars, directoryVars
<1>2. CASE Next
  BY <1>2, EnterGoes, ArrowKeyGoes, PageKeyGoes, EditKeyGoes, LeavingGoes, AltNavigateGoes,
     OthersGo DEF Next
<1> QED BY <1>1, <1>2

-----------------------------------------------------------------------------
(* A step preserves the invariant *)

\* The editor's invariant holds after a step of its own and at the end of the process.
LEMMA EditorStep ==
    ASSUME SessionInv, EditorGoes
    PROVE  EditorLemmas!IInv' /\ EditorLemmas!LineIsText'
<1>1. EditorLemmas!IInv /\ EditorLemmas!LineIsText
  BY DEF SessionInv
<1>2. CASE phase' = "ended" /\ UNCHANGED editor
  <2>1. EditorLemmas!IInv'
    BY <1>1, <1>2 DEF editor, EditorLemmas!IInv, EditorLemmas!TypeOK,
       EditorLemmas!CursorInLine, EditorLemmas!CompletionStands, EditorLemmas!ScreenAgrees,
       EditorLemmas!PendingHolds, EditorLemmas!CompletingHolds, EditorLemmas!Confirming
  <2>2. EditorLemmas!LineIsText'
    BY <1>1, <1>2 DEF editor, EditorLemmas!LineIsText, EditorLemmas!Confirming
  <2> QED BY <2>1, <2>2
<1>3. CASE ~(phase' = "ended" /\ UNCHANGED editor)
  <2>1. [EditorLemmas!Next]_(EditorLemmas!vars)
    <3>1. UNCHANGED Editor!vars => UNCHANGED EditorLemmas!vars
      BY DEF Editor!vars, EditorLemmas!vars
    <3> QED BY <1>3, <3>1, EditorSteps DEF EditorGoes
  <2> QED BY <1>1, <2>1, EditorFacts
<1> QED BY <1>2, <1>3

\* The command history stays a sequence of texts with the cursor in or just past it.
LEMMA HistoryStep ==
    ASSUME SessionInv, HistoryGoes PROVE HistoryLemmas!TypeOK'
<1>1. HistoryLemmas!TypeOK /\ commands \in Seq(Texts) /\ commandPosition \in 0 .. Len(commands)
  BY DEF SessionInv, HistoryLemmas!TypeOK, HistoryLemmas!Size
<1> HIDE DEF Texts
<1>2. CASE UNCHANGED history
  BY <1>1, <1>2 DEF history, HistoryLemmas!TypeOK, HistoryLemmas!Size
<1>3. ASSUME NEW command \in Texts, History!AddCommand(command)
      PROVE  HistoryLemmas!TypeOK'
  BY <1>1, <1>3 DEF History!AddCommand, HistoryLemmas!TypeOK, HistoryLemmas!Size
<1>4. ASSUME NEW direction \in {-1, 1}, NEW prefix, History!MoveInHistory(direction, prefix)
      PROVE  HistoryLemmas!TypeOK'
  <2>1. commandPosition' \in 0 .. Len(commands) - 1 /\ commands' = commands
    BY <1>1, <1>4, HistoryFacts DEF History!MoveInHistory
  <2> QED BY <1>1, <2>1 DEF HistoryLemmas!TypeOK, HistoryLemmas!Size
<1> QED BY <1>2, <1>3, <1>4 DEF HistoryGoes

\* The directory history's invariant holds after a step of its own and at the end of
\* the process.
LEMMA DirectoryStep ==
    ASSUME SessionInv, DirectoryGoes PROVE DirectoryInv'
<1>1. DirectoryInv
  BY DEF SessionInv
<1>2. CASE phase' = "ended" /\ UNCHANGED directories
  BY <1>1, <1>2 DEF directories, DirectoryInv, DirectoryTypeOK,
     NoDuplicates, Coherent, KnowsWhereItIs
<1>3. CASE ~(phase' = "ended" /\ UNCHANGED directories)
  <2>1. UNCHANGED directoryVars => UNCHANGED directoryVars
    BY DEF directoryVars, directoryVars
  <2> QED BY <1>1, <1>3, <2>1, StepDirectoryInv DEF DirectoryGoes
<1> QED BY <1>2, <1>3

\* A command of the editor's own leaves the line that kept records.
LEMMA KeptStep ==
    ASSUME SessionInv, [Next]_vars PROVE KeptIsLine'
<1> USE DEF KeptIsLine, Editor!Drawn
<1>1. CASE Enter \/ InputFails
  <2>1. line' = <<>> /\ position' = 0 /\ kept' = Editor!Drawn(<<>>, 0)
    BY <1>1 DEF Enter, InputFails, Leaving, Editor!Return, Editor!InputFails, Editor!Discarded,
       Editor!NewEditor
  <2> QED BY <2>1
<1>2. ASSUME NEW command, CommandKey(command) PROVE KeptIsLine'
  BY <1>2 DEF CommandKey, Editor!CommandKey, Leaving
<1>3. CASE CtrlD
  <2>1. CASE phase' = "command"
    <3>1. line' = Exit /\ position' = 0
      BY <1>3, <2>1 DEF CtrlD, Editor!CtrlD, Editor!EditUndrawn
    <3> QED BY <1>3, <2>1, <3>1 DEF CtrlD, Leaving
  <2> QED BY <2>1
<1>4. ASSUME NEW direction, AltNavigate(direction) PROVE KeptIsLine'
  <2>1. CASE dirPosition' # Original(direction)
    BY <1>4, <2>1 DEF AltNavigate, Editor!AltNavigate, Editor!CommandKey, Leaving
  <2>2. CASE dirPosition' = Original(direction)
    BY <1>4, <2>2 DEF AltNavigate, Navigate
  <2> QED BY <2>1, <2>2
<1>5. CASE \/ EditKey
           \/ \E direction \in {-1, 1} : ArrowKey(direction) \/ PageKey(direction)
  BY <1>5, KeyPhases DEF EditKey, ArrowKey, PageKey
<1>6. CASE AltRightCrashes \/ Resume \/ RunExits
  BY <1>6 DEF AltRightCrashes, NavigateOutOfRange, Resume, Editor!Resume, RunExits
<1>7. ASSUME UNCHANGED <<editor, phase, kept>> PROVE KeptIsLine'
  BY <1>7 DEF SessionInv, editor
<1>8. CASE DirectoriesChange \/ \E d \in Dirs : RunChangesDirectory(d)
  BY <1>7, <1>8 DEF DirectoriesChange, RunChangesDirectory, RemoveDirectory,
     MakeDirectory, ChangeDirectory
<1> QED
  BY <1>1, <1>2, <1>3, <1>4, <1>5, <1>6, <1>7, <1>8 DEF Next, vars

\* Only Return and moves in the command history change what ran and the history.
LEMMA RanStep ==
    ASSUME SessionInv, [Next]_vars PROVE RanIsNewest'
<1> USE DEF RanIsNewest
<1>1. RanIsNewest /\ commands \in Seq(Texts)
  BY DEF SessionInv, HistoryLemmas!TypeOK
<1>2. CASE Enter
  <2>1. CASE Editor!Line # <<>>
    <3>1. /\ commands' = Append(commands, Editor!Line) /\ commandPosition' = Len(commands')
          /\ ran' = Editor!Line
      BY <1>2, <2>1 DEF Enter, History!AddCommand
    <3> QED BY <1>1, <3>1
  <2>2. CASE Editor!Line = <<>>
    BY <1>1, <1>2, <2>2 DEF Enter, history
  <2> QED BY <2>1, <2>2
<1>3. CASE \E direction \in {-1, 1} : ArrowKey(direction) \/ PageKey(direction)
  BY <1>3 DEF ArrowKey, PageKey
<1>4. ASSUME UNCHANGED <<history, ran>> PROVE RanIsNewest'
  BY <1>1, <1>4 DEF history
<1> QED
  BY <1>2, <1>3, <1>4 DEF Next, vars, InputFails, CtrlD, AltRightCrashes, CommandKey,
     AltNavigate, EditKey, Resume, RunExits, DirectoriesChange, RunChangesDirectory

\* Only Alt-Left, Alt-Right, a prompt in a new directory and a change of directory move
\* the directory history; each of them keeps the way back or forgets where it led.
LEMMA FromStep ==
    ASSUME SessionInv, [Next]_vars PROVE FromIsNext'
<1> USE DEF FromIsNext
<1>1. FromIsNext /\ DirectoryInv
  BY DEF SessionInv
<1>2. ASSUME UNCHANGED <<directories, from>>, phase # "ended" PROVE FromIsNext'
  BY <1>1, <1>2 DEF directories
<1>3. ASSUME NEW direction \in {-1, 1}, AltNavigate(direction) PROVE FromIsNext'
  <2>1. CASE from' = Nowhere
    BY <2>1
  <2>2. CASE from' # Nowhere
    <3>1. /\ direction = -1 /\ Navigate(-1) /\ dirPosition' # Original(-1)
          /\ cwd' = lastKnown' /\ from' = cwd
      BY <1>3, <2>2 DEF AltNavigate
    <3>2. phase = "editing" /\ phase' = "command"
      BY <3>1 DEF Navigate
    <3>3. lastKnown = cwd
      BY <1>1, <3>2 DEF DirectoryInv, KnowsWhereItIs
    <3>4. dirPosition' + 2 \in DOMAIN dirs' /\ dirs'[dirPosition' + 2] = lastKnown
      BY <1>1, <3>1, <3>2, BackFacts DEF Back
    <3> QED BY <3>1, <3>3, <3>4
  <2> QED BY <2>1, <2>2
<1>4. CASE Resume
  <2>1. phase = "command" /\ UNCHANGED from /\ StartingEdit
    BY <1>4 DEF Resume, StartingEdit
  <2>2. CASE from = Nowhere
    BY <2>1, <2>2
  <2>3. CASE from # Nowhere
    BY <1>1, <2>1, <2>3 DEF StartingEdit
  <2> QED BY <2>2, <2>3
<1>5. CASE \E d \in Dirs : RunChangesDirectory(d)
  BY <1>5 DEF RunChangesDirectory
<1>6. CASE DirectoriesChange
  BY <1>1, <1>6 DEF DirectoriesChange, RemoveDirectory, MakeDirectory
<1>7. CASE AltRightCrashes \/ RunExits
  BY <1>7 DEF AltRightCrashes, NavigateOutOfRange, RunExits
<1>8. CASE \/ Enter \/ InputFails \/ CtrlD \/ EditKey
           \/ \E command \in {"cd ..", "cls"} : CommandKey(command)
           \/ \E direction \in {-1, 1} : ArrowKey(direction) \/ PageKey(direction)
  <2>1. UNCHANGED <<directories, from>>
    BY <1>8 DEF Enter, InputFails, CtrlD, EditKey, CommandKey, ArrowKey, PageKey
  <2>2. phase = "editing"
    BY <1>8, KeyPhases DEF Enter, InputFails, CtrlD, EditKey, CommandKey, ArrowKey, PageKey,
       Editor!Return, Editor!InputFails, Editor!CtrlD, Editor!CommandKey, Editor!RunAndResume
  <2> QED BY <1>2, <2>1, <2>2
<1>9. CASE UNCHANGED vars
  BY <1>1, <1>9 DEF vars, directories
<1> QED BY <1>3, <1>4, <1>5, <1>6, <1>7, <1>8, <1>9 DEF Next

\* Every step preserves the invariant.
LEMMA SessionStep == SessionInv /\ [Next]_vars => SessionInv'
<1> SUFFICES ASSUME SessionInv, [Next]_vars PROVE SessionInv'
  OBVIOUS
<1>1. EditorLemmas!IInv' /\ EditorLemmas!LineIsText'
  BY ComponentsGo, EditorStep
<1>2. HistoryLemmas!TypeOK' /\ DirectoryInv'
  BY ComponentsGo, HistoryStep, DirectoryStep
<1>3. KeptIsLine' /\ RanIsNewest' /\ FromIsNext'
  BY KeptStep, RanStep, FromStep
<1> QED BY <1>1, <1>2, <1>3 DEF SessionInv

-----------------------------------------------------------------------------
(* Theorems *)

\* The components' invariants hold in the composition, and what ties them together:
\* KeptIsLine, RanIsNewest and FromIsNext.
THEOREM SessionInvariant == Spec => []SessionInv
BY SessionInit, SessionStep, PTL DEF Spec

\* The prompt after Alt-Up, Alt-Left, Alt-Right or Ctrl-L has the line and the cursor
\* that were there (line_editor.cc, kReturnToCmdThenResume and Init), the prompt after
\* Return neither.
THEOREM CommandIsMaintained == Spec => MaintainsCommand
<1>1. SessionInv /\ [Next]_vars => [Resume => Editor!Drawn(line', position') = kept]_vars
  BY DEF SessionInv, KeptIsLine, Resume, Editor!Resume
<1> QED BY <1>1, SessionInvariant, PTL DEF Spec, MaintainsCommand

\* Return hands cmd.exe what is on the screen or what the message stands over, and the
\* history never files the message (dll.cc, ReadConsoleReplacement).
THEOREM ShownRuns == Spec => WhatIsShownRuns
<1>1. SessionInv /\ [Next]_vars
        => [Enter => /\ buffer'.line = shown.line \/ shown.line = Message
                     /\ Message \notin ToSet(commands')]_vars
  <2> SUFFICES ASSUME SessionInv, Enter, [Next]_vars
               PROVE  /\ buffer'.line = shown.line \/ shown.line = Message
                      /\ Message \notin ToSet(commands')
    OBVIOUS
  <2>1. buffer'.line = Editor!Line /\ phase = "editing"
    BY DEF Enter, Leaving, Users, Editor!Return
  <2>2. Editor!Line = shown.line \/ shown.line = Message
    BY <2>1 DEF SessionInv, EditorLemmas!IInv, EditorLemmas!ScreenAgrees,
       EditorLemmas!PendingHolds, EditorLemmas!Drawn, EditorLemmas!Confirming,
       Editor!Line, Editor!Confirming
  <2>3. Message \notin Texts
    <3>1. Message # <<>> /\ Message \in Seq(Chars)
      BY ComponentsAssumption DEF Editor!EditorAssumption
    <3>2. Len(Message) \in Nat /\ Len(Message) > 0
      BY <3>1
    <3>3. 1 \in DOMAIN Message /\ Message[1] \in Editor!ToSet(Message)
      BY <3>1, <3>2 DEF Editor!ToSet
    <3>4. Message[1] \notin Editor!TextChars
      BY <3>3 DEF Editor!TextChars
    <3> QED BY <3>2, <3>4 DEF Texts
  <2>4. commands' \in Seq(Texts)
    <3>1. HistoryLemmas!TypeOK'
      BY ComponentsGo, HistoryStep
    <3> QED BY <3>1 DEF HistoryLemmas!TypeOK
  <2>5. Message \notin ToSet(commands')
    <3> HIDE DEF Texts
    <3> QED BY <2>3, <2>4 DEF ToSet
  <2> QED BY <2>1, <2>2, <2>5
<1> QED BY <1>1, SessionInvariant, PTL DEF Spec, WhatIsShownRuns

\* Up recalls the command entered last, whatever lies between but other moves in the
\* history (command_history.cc, AddCommand and MoveInHistory).
THEOREM UpRecalls == Spec => UpRecallsWhatRan
<1>1. SessionInv /\ [Next]_vars => [ArrowKey(-1) /\ ran # <<>> => line' = ran]_vars
  <2> SUFFICES ASSUME SessionInv, ArrowKey(-1), ran # <<>> PROVE line' = ran
    OBVIOUS
  <2>1. /\ commands # <<>> /\ commandPosition = Len(commands)
        /\ commands[Len(commands)] = ran /\ HistoryLemmas!TypeOK
    BY DEF SessionInv, RanIsNewest
  <2>2. History!Result(-1, <<>>) = ran
    <3>1. Len(commands) \in Nat
      BY <2>1 DEF HistoryLemmas!TypeOK
    <3> QED BY <2>1, <3>1, HistoryFacts DEF History!Result
  <2>3. Editor!Recall(ran)
    BY <2>1, <2>2 DEF ArrowKey
  <2> QED BY <2>3 DEF Editor!Recall, Editor!Edit, Editor!Put
<1> QED BY <1>1, SessionInvariant, PTL DEF Spec, UpRecallsWhatRan

\* Alt-Right goes back to where Alt-Left was pressed, with the prompts in between
\* (directory_history.cc, NavigateInHistory and StartingEdit).
THEOREM AltRightUndoes == Spec => AltRightTakesBack
<1>1. SessionInv /\ [Next]_vars
        => [AltNavigate(1) /\ from # Nowhere => cwd' = from \/ from \notin onDisk]_vars
  <2> SUFFICES ASSUME SessionInv, AltNavigate(1), from # Nowhere
               PROVE  cwd' = from \/ from \notin onDisk
    OBVIOUS
  <2>1. Navigate(1) /\ phase = "editing"
    BY DEF AltNavigate, Navigate
  <2>2. dirPosition + 2 \in DOMAIN dirs /\ dirs[dirPosition + 2] = from
    BY <2>1 DEF SessionInv, FromIsNext
  <2>3. /\ dirs \in Seq(Dirs) /\ dirPosition \in -1 .. Len(dirs) /\ dirPosition >= 0
        /\ Len(dirs) \in Nat /\ dirPosition + 2 \in 1 .. Len(dirs)
    BY <2>1, <2>2 DEF SessionInv, DirectoryInv, DirectoryTypeOK
  <2>4. Target(1) = dirPosition + 1 /\ DirsAt(1) = dirs
    BY <2>3 DEF Target, DirsAt, Original, Committed
  <2>5. lastKnown' = from /\ (lastKnown' \in onDisk => cwd' = lastKnown')
    BY <2>1, <2>2, <2>3, <2>4 DEF Navigate
  <2> QED BY <2>5
<1> QED BY <1>1, SessionInvariant, PTL DEF Spec, AltRightTakesBack

\* The histories' answers are among those the editor is specified with, and the
\* commands and prefixes among those that the command history is: all texts, as in
\* the code, which bounds neither.
EveryText == Lines = Texts /\ Recalled = Texts

\* Each component, seen alone, behaves as its module says, until the process ends
\* (dll.cc composes them and adds nothing).
THEOREM SessionImplements ==
    ASSUME EveryText PROVE Spec => ComponentsImplemented
<1>1. Init => Editor!Init /\ History!Init /\ DirectoryInit
  BY DEF Init
<1>2. SessionInv /\ [Next]_vars => [Editor!Next \/ phase' = "ended"]_(Editor!vars)
  <2>1. \A command \in Texts :
            Editor!Recall(command) \/ Editor!RecallPrefixed(command) => Editor!Next
    BY EveryText DEF EveryText, Editor!Next, Editor!InsertKey
  <2> QED BY <2>1, ComponentsGo DEF EditorGoes
<1>3. SessionInv /\ [Next]_vars => [History!Next]_(History!vars)
  BY EveryText, ComponentsGo DEF EveryText, HistoryGoes, History!Next, History!vars, history
<1>4. SessionInv /\ [Next]_vars => [DirectoryNext \/ phase' = "ended"]_directoryVars
  BY ComponentsGo DEF DirectoryGoes
<1> QED
  BY <1>1, <1>2, <1>3, <1>4, SessionInvariant, PTL DEF Spec, ComponentsImplemented

=============================================================================
