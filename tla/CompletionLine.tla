--------------------------- MODULE CompletionLine ---------------------------
(***************************************************************************)
(* The command line that is typed, edited and completed, and what          *)
(* completion.cc's splitting and quoting promise about it.  The yardstick  *)
(* is the function Windows itself splits command lines with,               *)
(* CommandLineToArgvW, written from the rules completion.cc quotes for it  *)
(* and from its use there.                                                 *)
(***************************************************************************)
EXTENDS Completion, FiniteSets

CONSTANTS Chars,         \* the characters a line may hold
          Candidates     \* what completers offer: the words to be inserted

ASSUME CharsAssumption ==
    /\ {Blank, Quote, Backslash} \subseteq Chars
    /\ Blank # Quote /\ Blank # Backslash /\ Quote # Backslash
    /\ Candidates \subseteq Seq(Chars)

VARIABLE line   \* line_, in the editor

-----------------------------------------------------------------------------
(* CommandLineToArgvW: the arguments after the executable, de-escaped *)

Dropped(out, n) == SubSeq(out, 1, Len(out) - n)

\* One quote.  In a run of quotes every third is a literal one.
ArgvQuote(st) ==
    LET half == st.backslashes \div 2
    IN  [st EXCEPT
           !.backslashes = 0,
           !.inRun = TRUE,
           !.quotes = CASE st.inRun -> (st.quotes + 1) % 3
                        [] ~st.inRun /\ st.backslashes % 2 = 0 -> Settled(st.quotes) + 1
                        [] OTHER -> Settled(st.quotes),
           !.out = CASE st.inRun /\ st.quotes = 2 -> Append(st.out, Quote)
                     [] st.inRun /\ st.quotes # 2 -> st.out
                     [] ~st.inRun /\ st.backslashes % 2 = 0 -> Dropped(st.out, half)
                     [] OTHER -> Append(Dropped(st.out, half + 1), Quote)]

ArgvStep(st, c) ==
    CASE c = Blank /\ Settled(st.quotes) = 0 ->
             [args |-> IF st.open THEN Append(st.args, st.out) ELSE st.args,
              open |-> FALSE, out |-> <<>>,
              quotes |-> 0, backslashes |-> 0, inRun |-> FALSE]
      [] c = Quote -> [ArgvQuote(st) EXCEPT !.open = TRUE]
      [] OTHER ->
             [args |-> st.args, open |-> TRUE, out |-> Append(st.out, c),
              quotes |-> Settled(st.quotes),
              backslashes |-> IF c = Backslash THEN st.backslashes + 1 ELSE 0,
              inRun |-> FALSE]

CommandLineToArgvW(l) ==
    LET from == ExecutableEnd(l)
        at[i \in from .. Len(l)] ==
            IF i = from
            THEN [args |-> <<>>, open |-> FALSE, out |-> <<>>,
                  quotes |-> 0, backslashes |-> 0, inRun |-> FALSE]
            ELSE ArgvStep(at[i - 1], l[i])
        st == at[Len(l)]
    IN  IF st.open THEN Append(st.args, st.out) ELSE st.args

-----------------------------------------------------------------------------
(* Properties *)

Positions == 0 .. Len(line)

\* The assertion in CompletionBreakIntoWords: Windows finds as many words as
\* the reimplementation does, so the de-escaped words can be paired with them.
\* (An empty line never gets that far.)
WordCountAgrees ==
    line # <<>> =>
        Cardinality(ParsedWords(line)) = Len(CommandLineToArgvW(line)) + 1

\* The words do not overlap and leave out nothing but blanks: whatever word the
\* completion replaces, it takes no other word's characters with it.  And the
\* word that is completed for a cursor position is the one the cursor is in or at
\* the end of, or the last one before the gap of blanks that it is in.
CursorWord ==
    /\ \A i \in 0 .. Len(line) - 1 :
           \A holders \in {{w \in Words(line) : w.begin <= i /\ i < w.end}} :
               Cardinality(holders) = 1 \/ (holders = {} /\ IsBlankAt(line, i))
    /\ \A p \in Positions : \A w \in {WordAt(line, p)} :
           /\ w.begin <= p
           /\ p > w.end => \A i \in w.end .. p - 1 : IsBlankAt(line, i)

\* Whatever a completer offers comes back unchanged through Windows' own
\* splitting when it is inserted, quoted, as an argument: QuoteWord's
\* backslash doubling undoes the de-escaping exactly.
QuotedWordComesBack ==
    LET l == <<Backslash, Blank>> \o QuoteWord(line)
    IN  /\ CommandLineToArgvW(l) = <<line>>
        /\ Words(l) = {Word(0, 1), Word(2, Len(l))}

\* The line with a text in the place of a word.
Replaced(w, text) ==
    SubSeq(line, 1, w.begin) \o text \o SubSeq(line, w.end + 1, Len(line))

StandsBetweenBlanks(w) ==
    /\ w.begin = 0 \/ line[w.begin] = Blank
    /\ w.end = Len(line) \/ line[w.end + 1] = Blank

\* How many arguments Windows finds before the word; the executable is none.
Place(w) == Cardinality({u \in ParsedWords(line) : u.begin < w.begin})

\* What Windows read in the line, with c as the argument at that place.
WithArgument(place, c) ==
    LET before == CommandLineToArgvW(line)
    IN  IF place = 0 THEN before
        ELSE IF place \in DOMAIN before THEN ReplaceAt(before, place, c)
        ELSE Append(before, c)

\* After a completion was inserted for a word that stands between blanks, that
\* word is what the cursor is at the end of: completing again replaces it and
\* nothing else.  And unless the word was put together from two, Windows reads
\* the completion in its place and every other argument as before.  (The
\* executable's rule knows no escaped quotes.)
InsertedWordStands ==
    \A p \in Positions, c \in Candidates :
        \A w \in {WordAt(line, p)}, quoted \in {QuoteWord(c)} :
            /\ StandsBetweenBlanks(w)
            /\ w.begin = 0 => Quote \notin ToSet(c)
            => LET end == w.begin + Len(quoted)
               IN  /\ WordAt(Replaced(w, quoted), end) = Word(w.begin, end)
                   /\ w \in ParsedWords(line) \/ w.begin = Len(line) =>
                          CommandLineToArgvW(Replaced(w, quoted))
                              = WithArgument(Place(w), c)

=============================================================================
