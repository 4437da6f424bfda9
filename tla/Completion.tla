----------------------------- MODULE Completion -----------------------------
(***************************************************************************)
(* How tab completion splits a command line into words and quotes what it  *)
(* inserts (src/src/cmdEx/completion.cc).  Pure operators on lines, which  *)
(* are sequences of characters.                                            *)
(*                                                                         *)
(* A word is a record [begin, end] of 0-based offsets: it holds the        *)
(* characters line[begin + 1] .. line[end].                                *)
(***************************************************************************)
EXTENDS Integers, Sequences, SequencesExt

CONSTANTS Blank,         \* space and tab
          Quote,         \* the double quote
          Backslash

Word(b, e) == [begin |-> b, end |-> e]

Text(l, w) == SubSeq(l, w.begin + 1, w.end)

\* The first offset from b on at which Stop holds, else the end of the line.
FirstFrom(l, b, Stop(_)) ==
    CHOOSE e \in b .. Len(l) :
        /\ e = Len(l) \/ Stop(e)
        /\ \A i \in b .. e - 1 : ~Stop(i)

IsBlankAt(l, i) == l[i + 1] = Blank

-----------------------------------------------------------------------------
(* CompletionBreakIntoWords *)

\* The executable's own rule: to the closing quote if it begins with one, else
\* to the first blank; backslashes do not escape.
ExecutableEnd(l) ==
    IF l # <<>> /\ l[1] = Quote
    THEN FirstFrom(l, 1, LAMBDA i : i > 1 /\ l[i] = Quote)
    ELSE FirstFrom(l, 0, LAMBDA i : IsBlankAt(l, i))

\* SkipWhitespace.
ArgumentsBegin(l) ==
    FirstFrom(l, ExecutableEnd(l), LAMBDA i : ~IsBlankAt(l, i))

\* num_active_quotes and num_backslashes after one more character; a run of
\* quotes counts modulo 3 and, when it is over, 2 counts as 0.
Settled(quotes) == IF quotes = 2 THEN 0 ELSE quotes

\* Variants of definitions, each with a plausible mistake, stand before the
\* definition they vary; nothing uses them, and they show which property
\* notices the mistake.  This one takes every quote for an unescaped one.
ScannedUnescaped(st, c) ==
    IF c = Quote
    THEN [quotes |-> (st.quotes + 1) % 3, backslashes |-> 0, inRun |-> TRUE]
    ELSE [quotes |-> Settled(st.quotes), backslashes |-> 0, inRun |-> FALSE]

Scanned(st, c) ==
    IF c = Quote
    THEN [quotes |-> IF st.inRun
                     THEN (st.quotes + 1) % 3
                     ELSE (Settled(st.quotes) + (IF st.backslashes % 2 = 0 THEN 1 ELSE 0)) % 3,
          backslashes |-> 0,
          inRun |-> TRUE]
    ELSE [quotes |-> Settled(st.quotes),
          backslashes |-> IF c = Backslash THEN st.backslashes + 1 ELSE 0,
          inRun |-> FALSE]

\* The scanner's state at every offset of the arguments, which begin at from.
Scan(l, from) ==
    LET at[i \in from .. Len(l)] ==
            IF i = from
            THEN [quotes |-> 0, backslashes |-> 0, inRun |-> FALSE]
            ELSE Scanned(at[i - 1], l[i])
    IN  at

\* Where one argument is over: at a blank outside quotes.
Breaks(l, from) ==
    LET scan == Scan(l, from)
    IN  {i \in from .. Len(l) - 1 :
            IsBlankAt(l, i) /\ Settled(scan[i].quotes) = 0}

Separated(l, from, breaks) ==
    {Word(b, FirstFrom(l, b, LAMBDA i : i \in breaks)) :
        b \in {i \in from .. Len(l) - 1 :
                  /\ i \notin breaks
                  /\ i = from \/ i - 1 \in breaks}}

ArgumentsFrom(l, from) == Separated(l, from, Breaks(l, from))

ParsedWords(l) ==
    {Word(0, ExecutableEnd(l))} \cup ArgumentsFrom(l, ArgumentsBegin(l))

\* An empty word when the cursor was spaced past the last one.
TrailingWord(l, ws) ==
    IF \A w \in ws : w.end < Len(l) THEN {Word(Len(l), Len(l))} ELSE {}

\* A word that begins with a backslash right where another ends belongs to it:
\* it is the rest of a path after a quoted first part.
Attached(l, u, v) ==
    /\ u.begin < v.begin /\ u.end = v.begin
    /\ v.begin < v.end /\ l[v.begin + 1] = Backslash

Joined(l, ws) ==
    LET Merged(w) == \E u \in ws : Attached(l, u, w)
        Whole(w) == IF \E v \in ws : Attached(l, w, v)
                    THEN Word(w.begin, (CHOOSE v \in ws : Attached(l, w, v)).end)
                    ELSE w
    IN  {Whole(w) : w \in {v \in ws : ~Merged(v)}} \cup TrailingWord(l, ws)

Words(l) == Joined(l, ParsedWords(l))

\* Variant: the last word, wherever the cursor is.
LastOf(ws, p) == CHOOSE w \in ws : \A v \in ws : v.begin <= w.begin

\* CompletionWordIndex: the last word that begins at or before the cursor.
LastBefore(ws, p) ==
    CHOOSE w \in ws : w.begin <= p /\ \A v \in ws : v.begin <= p => v.begin <= w.begin

WordAt(l, p) == LastBefore(Words(l), p)

-----------------------------------------------------------------------------
(* QuoteWord *)

\* The code quotes a word with a newline or a vertical tab as well, which the
\* names of files and branches cannot hold; it is left out here.

\* Variant: only blanks are quoted.
BlanksNeedQuotes(word) ==
    word = <<>> \/ \E i \in DOMAIN word : word[i] = Blank

NeedsQuotes(word) ==
    word = <<>> \/ \E i \in DOMAIN word : word[i] \in {Blank, Quote}

\* Variant: the closing quote is forgotten.
RunsIntoInnerQuote(word, i) ==
    \E j \in i + 1 .. Len(word) :
        word[j] = Quote /\ \A k \in i .. j - 1 : word[k] = Backslash

\* Backslashes that run into a quote, or into the closing one, are doubled.
RunsIntoQuote(word, i) ==
    \E j \in i + 1 .. Len(word) + 1 :
        /\ j = Len(word) + 1 \/ word[j] = Quote
        /\ \A k \in i .. j - 1 : word[k] = Backslash

Escaped(word, i) ==
    CASE word[i] = Quote -> <<Backslash, Quote>>
      [] word[i] = Backslash /\ RunsIntoQuote(word, i) -> <<Backslash, Backslash>>
      [] OTHER -> <<word[i]>>

QuoteWord(word) ==
    IF NeedsQuotes(word)
    THEN <<Quote>>
           \o FlattenSeq([i \in DOMAIN word |-> Escaped(word, i)])
           \o <<Quote>>
    ELSE word

=============================================================================
