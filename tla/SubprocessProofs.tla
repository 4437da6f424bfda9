-------------------------- MODULE SubprocessProofs --------------------------
(***************************************************************************)
(* What TLAPS proves about Subprocess, for any number of commands, chunks, *)
(* interrupts and sets.                                                    *)
(***************************************************************************)
EXTENDS Subprocess, FiniteSetTheorems, SequenceTheorems, TLAPS

-----------------------------------------------------------------------------
(* Lists *)

\* Taking an entry out of a duplicate-free list leaves a duplicate-free list of
\* exactly the other entries.
LEMMA RemoveFirstFacts ==
    ASSUME NEW S, NEW s \in Seq(S), IsInjective(s), NEW e
    PROVE  /\ RemoveFirst(s, e) \in Seq(S)
           /\ IsInjective(RemoveFirst(s, e))
           /\ ToSet(RemoveFirst(s, e)) = ToSet(s) \ {e}
<1> DEFINE r == RemoveFirst(s, e)
<1>1. CASE ~ \E i \in 1 .. Len(s) : s[i] = e
  BY <1>1 DEF RemoveFirst, ToSet
<1>2. CASE \E i \in 1 .. Len(s) : s[i] = e
  <2>1. PICK i \in 1 .. Len(s) : s[i] = e
    BY <1>2
  <2>2. \A j \in 1 .. Len(s) : s[j] = e <=> j = i
    BY <2>1 DEF IsInjective
  <2>3. SelectInSeq(s, LAMBDA v : v = e) = i
    <3>1. {j \in 1 .. Len(s) : s[j] = e} = {i}
      BY <2>2
    <3>2. Min({i}) = i
      BY <2>1 DEF Min
    <3> QED BY <3>1, <3>2 DEF SelectInSeq
  <2> DEFINE front == SubSeq(s, 1, i - 1)
             back  == SubSeq(s, i + 1, Len(s))
  <2>4. r = front \o back
    BY <1>2, <2>3 DEF RemoveFirst, RemoveAt
  <2>5. /\ front \in Seq(S) /\ Len(front) = i - 1
        /\ \A j \in 1 .. i - 1 : front[j] = s[j]
    <3>1. /\ 1 \in Int /\ i - 1 \in Int
          /\ \A j \in 1 .. i - 1 : j \in 1 .. Len(s)
      BY <2>1
    <3> QED BY <3>1, <2>1, SubSeqProperties
  <2>6. /\ back \in Seq(S) /\ Len(back) = Len(s) - i
        /\ \A j \in 1 .. Len(s) - i : back[j] = s[i + j]
    <3>1. /\ i + 1 \in Int /\ Len(s) \in Int
          /\ \A j \in i + 1 .. Len(s) : j \in 1 .. Len(s)
      BY <2>1
    <3> QED BY <3>1, <2>1, SubSeqProperties
  <2>7. /\ r \in Seq(S) /\ Len(r) = Len(s) - 1
        /\ \A j \in 1 .. Len(s) - 1 : r[j] = IF j < i THEN s[j] ELSE s[j + 1]
    <3> HIDE DEF r, front, back
    <3>1. /\ r \in Seq(S) /\ Len(r) = Len(front) + Len(back)
          /\ \A j \in 1 .. Len(front) + Len(back) :
                 r[j] = IF j <= Len(front) THEN front[j] ELSE back[j - Len(front)]
      BY <2>4, <2>5, <2>6, ConcatProperties
    <3>2. Len(front) + Len(back) = Len(s) - 1 /\ Len(s) \in Nat
      BY <2>1, <2>5, <2>6
    <3>3. ASSUME NEW j \in 1 .. Len(s) - 1
          PROVE  r[j] = IF j < i THEN s[j] ELSE s[j + 1]
      <4>1. CASE j < i
        BY <4>1, <2>1, <2>5, <3>1, <3>2
      <4>2. CASE j >= i
        <5> DEFINE k == j - (i - 1)
        <5>1. r[j] = back[k]
          BY <4>2, <2>1, <2>5, <3>1, <3>2
        <5>2. k \in 1 .. Len(s) - i /\ i + k = j + 1 /\ ~(j < i)
          BY <4>2, <2>1
        <5> HIDE DEF k
        <5>3. back[k] = s[i + k]
          BY <2>6, <5>2
        <5> QED BY <5>1, <5>2, <5>3
      <4> QED BY <4>1, <4>2, <2>1
    <3> QED BY <3>1, <3>2, <3>3
  <2> HIDE DEF r
  <2>8. IsInjective(r)
    <3>1. SUFFICES ASSUME NEW a \in 1 .. Len(s) - 1, NEW b \in 1 .. Len(s) - 1,
                          r[a] = r[b]
                   PROVE  a = b
      BY <2>7 DEF IsInjective
    <3> DEFINE old(j) == IF j < i THEN j ELSE j + 1
    <3>2. old(a) \in 1 .. Len(s) /\ old(b) \in 1 .. Len(s)
      BY <2>1
    <3>3. s[old(a)] = r[a] /\ s[old(b)] = r[b]
      BY <2>7
    <3>4. old(a) = old(b)
      BY <3>1, <3>2, <3>3 DEF IsInjective
    <3> QED BY <3>4, <2>1
  <2>9. ToSet(r) = ToSet(s) \ {e}
    <3>1. ASSUME NEW x \in ToSet(r) PROVE x \in ToSet(s) \ {e}
      BY <2>7, <2>2 DEF ToSet
    <3>2. ASSUME NEW x \in ToSet(s) \ {e} PROVE x \in ToSet(r)
      <4>1. PICK j \in 1 .. Len(s) : x = s[j] /\ j # i
        BY <2>2 DEF ToSet
      <4>2. CASE j < i
        BY <4>1, <4>2, <2>7 DEF ToSet
      <4>3. CASE j > i
        <5>1. j - 1 \in 1 .. Len(r) /\ r[j - 1] = x
          BY <4>1, <4>3, <2>7
        <5> QED BY <5>1, <2>7 DEF ToSet
      <4> QED BY <4>1, <4>2, <4>3
    <3> QED BY <3>1, <3>2
  <2> QED BY <2>7, <2>8, <2>9 DEF r
<1> QED BY <1>1, <1>2

-----------------------------------------------------------------------------
(* The inductive invariant: every command is in one of these phases *)

Queued(p) == p \in ToSet(queue)

NotAdded(p) ==
    /\ p \notin added /\ child[p] = "none" /\ pipe[p] = "unset"
    /\ ~isReading[p] /\ buf[p] = <<>> /\ written[p] = 0
    /\ ~writer[p] /\ unread[p] = <<>> /\ ~Queued(p)

\* Its program does not exist.  The packet of its connect may be in the port.
NotFound(p) ==
    /\ p \in added /\ child[p] = "none" /\ pipe[p] = "null"
    /\ ~writer[p] /\ unread[p] = <<>>

\* Its program could not be started, and the process has ended.
Unstarted(p) == FailedToStart(p) /\ main = "fatal"

Started(p) == p \in added /\ child[p] # "none"

\* Connected, and nothing read yet.
Connecting(p) ==
    /\ Started(p) /\ pipe[p] = "open"
    /\ overlapped[p] = "ok" /\ ~isReading[p] /\ Queued(p)
    /\ buf[p] = <<>> /\ unread[p] = UpTo(written[p])

\* A read waits for the child.
Pending(p) ==
    /\ Started(p) /\ pipe[p] = "open"
    /\ overlapped[p] = "pending" /\ isReading[p] /\ ~Queued(p)
    /\ writer[p] /\ unread[p] = <<>> /\ buf[p] = UpTo(written[p])

\* A read has its chunk, and its packet waits for DoWork.
Answered(p) ==
    /\ Started(p) /\ pipe[p] = "open"
    /\ overlapped[p] = "ok" /\ isReading[p] /\ Queued(p)
    /\ buf[p] \o inflight[p] \o unread[p] = UpTo(written[p])

\* A read has found the pipe closed, and its packet waits for DoWork.
BrokenOff(p) ==
    /\ Started(p) /\ pipe[p] = "open"
    /\ overlapped[p] = "broken" /\ isReading[p] /\ Queued(p)
    /\ ~writer[p] /\ unread[p] = <<>> /\ buf[p] = UpTo(written[p])

\* DoWork has closed the pipe.
Drained(p) ==
    /\ Started(p) /\ pipe[p] = "null" /\ ~Queued(p)
    /\ ~writer[p] /\ unread[p] = <<>> /\ buf[p] = UpTo(written[p])

InPhase(p) ==
    \/ NotAdded(p) \/ NotFound(p) \/ Unstarted(p)
    \/ Connecting(p) \/ Pending(p) \/ Answered(p) \/ BrokenOff(p) \/ Drained(p)

\* No command has two packets.
AtMostOnce(s) == \A i, j \in DOMAIN s : s[i] = s[j] /\ s[i] # Null => i = j

OnePacketEach == AtMostOnce(queue)

\* The lists are those of the open pipes and of the closed ones.
Listed ==
    /\ IsInjective(running) /\ IsInjective(finished)
    /\ \A p \in Procs :
           /\ p \in ToSet(running) <=> p \in added /\ pipe[p] = "open"
           /\ p \in ToSet(finished) <=> p \in added /\ pipe[p] = "null"

\* What is there at each stage of a set's life.
Staged ==
    /\ main \in {"constructing", "using", "finishing", "destroying"} => port = "open"
    /\ handler => port = "open" /\ main \in {"using", "finishing", "destroying", "fatal"}
    /\ interrupt = "posting" => handler
    /\ main \in {"idle", "finishing", "destroying", "closing"} => \A p \in added : Done(p)

SubprocessInv ==
    /\ TypeOK /\ OnePacketEach /\ Listed /\ Staged /\ FatalOnlyOfStart
    /\ \A p \in Procs : InPhase(p)

-----------------------------------------------------------------------------
(* Lemmas about sequences *)

\* The chunks written so far, and the next one.
LEMMA UpToFacts ==
    ASSUME NEW n \in Nat
    PROVE  /\ UpTo(n) \in Seq(Nat) /\ UpTo(0) = <<>>
           /\ UpTo(n) \o <<n + 1>> = UpTo(n + 1)
           /\ Append(UpTo(n), n + 1) = UpTo(n + 1)
<1>1. UpTo(n) \in Seq(Nat) /\ Len(UpTo(n)) = n /\ \A i \in 1 .. n : UpTo(n)[i] = i
  BY DEF UpTo
<1>2. UpTo(n + 1) \in Seq(Nat) /\ Len(UpTo(n + 1)) = n + 1 /\ \A i \in 1 .. n + 1 : UpTo(n + 1)[i] = i
  BY DEF UpTo
<1>3. UpTo(0) = <<>>
  <2>1. UpTo(0) \in Seq(Nat) /\ Len(UpTo(0)) = 0
    BY DEF UpTo
  <2> QED BY <2>1, EmptySeq
<1>4. /\ Append(UpTo(n), n + 1) \in Seq(Nat) /\ Len(Append(UpTo(n), n + 1)) = n + 1
      /\ \A i \in 1 .. n + 1 : Append(UpTo(n), n + 1)[i] = i
  BY <1>1, AppendProperties
<1>5. Append(UpTo(n), n + 1) = UpTo(n + 1)
  BY <1>2, <1>4, SeqEqual
<1>6. UpTo(n) \o <<n + 1>> = Append(UpTo(n), n + 1)
  BY <1>1, AppendIsConcat
<1> QED BY <1>1, <1>3, <1>5, <1>6

\* A chunk that is read moves from the kernel to the reader.
LEMMA ChunkMoves ==
    ASSUME NEW a \in Seq(Nat), NEW u \in Seq(Nat), u # <<>>
    PROVE  /\ Head(u) \in Nat /\ Tail(u) \in Seq(Nat) /\ <<Head(u)>> \in Seq(Nat)
           /\ a \o <<Head(u)>> \o Tail(u) = a \o u
<1>1. Head(u) \in Nat /\ Tail(u) \in Seq(Nat) /\ <<Head(u)>> \in Seq(Nat)
  BY HeadTailProperties
<1>2. <<Head(u)>> \o Tail(u) = u
  BY <1>1
<1>3. a \o <<Head(u)>> \o Tail(u) = a \o (<<Head(u)>> \o Tail(u))
  BY <1>1, ConcatAssociative, SMTT(30)
<1> QED BY <1>1, <1>2, <1>3

\* A chunk that is written comes behind the others.
LEMMA ChunkArrives ==
    ASSUME NEW a \in Seq(Nat), NEW b \in Seq(Nat), NEW u \in Seq(Nat), NEW n \in Nat,
           a \o b \o u = UpTo(n)
    PROVE  a \o b \o Append(u, n + 1) = UpTo(n + 1)
<1>1. Append(u, n + 1) = u \o <<n + 1>>
  BY AppendIsConcat
<1> DEFINE ab == a \o b
<1>2. ab \in Seq(Nat) /\ <<n + 1>> \in Seq(Nat)
  BY ConcatProperties
<1> HIDE DEF ab
<1>3. ab \o (u \o <<n + 1>>) = (ab \o u) \o <<n + 1>>
  BY <1>2, ConcatAssociative, SMTT(30)
<1>4. ab \o u = UpTo(n)
  BY DEF ab
<1>5. ab \o Append(u, n + 1) = UpTo(n + 1)
  BY <1>1, <1>3, <1>4, UpToFacts
<1> QED BY <1>5 DEF ab

\* A packet that is posted.
LEMMA PostFacts ==
    ASSUME NEW S, NEW s \in Seq(S), NEW x \in S
    PROVE  /\ Append(s, x) \in Seq(S)
           /\ ToSet(Append(s, x)) = ToSet(s) \cup {x}
           /\ AtMostOnce(s) /\ (x = Null \/ x \notin ToSet(s)) => AtMostOnce(Append(s, x))
<1> DEFINE r == Append(s, x)
<1>1. /\ r \in Seq(S) /\ Len(r) = Len(s) + 1
      /\ \A i \in 1 .. Len(s) : r[i] = s[i]
      /\ r[Len(s) + 1] = x
  BY AppendProperties
<1>2. Len(s) \in Nat /\ DOMAIN s = 1 .. Len(s) /\ DOMAIN r = 1 .. Len(s) + 1
  BY <1>1, LenProperties
<1> HIDE DEF r
<1>3. ToSet(r) = ToSet(s) \cup {x}
  <2>1. ASSUME NEW y \in ToSet(r) PROVE y \in ToSet(s) \cup {x}
    <3>1. PICK i \in 1 .. Len(s) + 1 : y = r[i]
      BY <1>2 DEF ToSet
    <3>2. CASE i \in 1 .. Len(s)
      BY <1>1, <1>2, <3>1, <3>2 DEF ToSet
    <3>3. CASE i = Len(s) + 1
      BY <1>1, <3>1, <3>3
    <3> QED BY <1>2, <3>2, <3>3
  <2>2. ASSUME NEW y \in ToSet(s) PROVE y \in ToSet(r)
    <3>1. PICK i \in 1 .. Len(s) : y = s[i]
      BY <1>2 DEF ToSet
    <3>2. i \in DOMAIN r /\ r[i] = y
      BY <1>1, <1>2, <3>1
    <3> QED BY <3>2 DEF ToSet
  <2>3. x \in ToSet(r)
    BY <1>1, <1>2 DEF ToSet
  <2> QED BY <2>1, <2>2, <2>3
<1>4. ASSUME AtMostOnce(s), x = Null \/ x \notin ToSet(s) PROVE AtMostOnce(r)
  <2>1. SUFFICES ASSUME NEW i \in 1 .. Len(s) + 1, NEW j \in 1 .. Len(s) + 1,
                        r[i] = r[j], r[i] # Null
                 PROVE  i = j
    BY <1>2 DEF AtMostOnce
  <2>2. ASSUME NEW k \in 1 .. Len(s), r[k] # Null PROVE r[k] # x
    <3>1. r[k] \in ToSet(s)
      BY <1>1, <1>2 DEF ToSet
    <3> QED BY <1>4, <2>2, <3>1
  <2>3. CASE i \in 1 .. Len(s) /\ j \in 1 .. Len(s)
    BY <1>1, <1>2, <1>4, <2>1, <2>3 DEF AtMostOnce
  <2>4. CASE i = Len(s) + 1 \/ j = Len(s) + 1
    BY <1>1, <1>2, <2>1, <2>2, <2>4
  <2> QED BY <1>2, <2>3, <2>4
<1> QED BY <1>1, <1>3, <1>4 DEF r

\* A packet that is taken.
LEMMA TakeFacts ==
    ASSUME NEW S, NEW s \in Seq(S), AtMostOnce(s), s # <<>>
    PROVE  /\ Tail(s) \in Seq(S) /\ AtMostOnce(Tail(s))
           /\ Head(s) \in ToSet(s) /\ Head(s) \in S
           /\ \A x : x # Null => (x \in ToSet(Tail(s)) <=> x \in ToSet(s) /\ x # Head(s))
<1> DEFINE r == Tail(s)
<1>1. /\ r \in Seq(S) /\ Len(r) = Len(s) - 1
      /\ \A i \in 1 .. Len(s) - 1 : r[i] = s[i + 1]
      /\ Head(s) = s[1] /\ Head(s) \in S
  BY HeadTailProperties
<1>2. /\ Len(s) \in Nat \ {0} /\ DOMAIN s = 1 .. Len(s) /\ DOMAIN r = 1 .. Len(s) - 1
  BY <1>1, LenProperties, EmptySeq
<1> HIDE DEF r
<1>3. AtMostOnce(r)
  <2>1. SUFFICES ASSUME NEW i \in 1 .. Len(s) - 1, NEW j \in 1 .. Len(s) - 1,
                        r[i] = r[j], r[i] # Null
                 PROVE  i = j
    BY <1>2 DEF AtMostOnce
  <2>2. s[i + 1] = s[j + 1] /\ s[i + 1] # Null /\ i + 1 \in DOMAIN s /\ j + 1 \in DOMAIN s
    BY <1>1, <1>2, <2>1
  <2>3. i + 1 = j + 1
    BY <2>2 DEF AtMostOnce
  <2> QED BY <2>3
<1>4. Head(s) \in ToSet(s)
  BY <1>1, <1>2 DEF ToSet
<1>5. ASSUME NEW x, x # Null PROVE x \in ToSet(r) <=> x \in ToSet(s) /\ x # Head(s)
  <2>1. ASSUME x \in ToSet(r) PROVE x \in ToSet(s) /\ x # Head(s)
    <3>1. PICK i \in 1 .. Len(s) - 1 : x = r[i]
      BY <1>2, <2>1 DEF ToSet
    <3>2. x = s[i + 1] /\ i + 1 \in DOMAIN s /\ 1 \in DOMAIN s /\ i + 1 # 1
      BY <1>1, <1>2, <3>1
    <3>3. x \in ToSet(s)
      BY <3>2 DEF ToSet
    <3>4. s[i + 1] # s[1]
      BY <1>5, <3>2 DEF AtMostOnce
    <3> QED BY <1>1, <3>2, <3>3, <3>4
  <2>2. ASSUME x \in ToSet(s), x # Head(s) PROVE x \in ToSet(r)
    <3>1. PICK i \in 1 .. Len(s) : x = s[i]
      BY <1>2, <2>2 DEF ToSet
    <3>2. i - 1 \in DOMAIN r /\ r[i - 1] = x
      BY <1>1, <1>2, <2>2, <3>1
    <3> QED BY <3>2 DEF ToSet
  <2> QED BY <2>1, <2>2
<1> QED BY <1>1, <1>3, <1>4, <1>5 DEF r

\* A command that is listed.
LEMMA ListFacts ==
    ASSUME NEW S, NEW s \in Seq(S), IsInjective(s), NEW x \in S, x \notin ToSet(s)
    PROVE  /\ Append(s, x) \in Seq(S) /\ IsInjective(Append(s, x))
           /\ ToSet(Append(s, x)) = ToSet(s) \cup {x}
<1> DEFINE r == Append(s, x)
<1>1. /\ r \in Seq(S) /\ Len(r) = Len(s) + 1
      /\ \A i \in 1 .. Len(s) : r[i] = s[i]
      /\ r[Len(s) + 1] = x
  BY AppendProperties
<1>2. Len(s) \in Nat /\ DOMAIN s = 1 .. Len(s) /\ DOMAIN r = 1 .. Len(s) + 1
  BY <1>1, LenProperties
<1> HIDE DEF r
<1>3. \A i \in 1 .. Len(s) : r[i] # x
  BY <1>1, <1>2 DEF ToSet
<1>4. IsInjective(r)
  <2>1. SUFFICES ASSUME NEW i \in 1 .. Len(s) + 1, NEW j \in 1 .. Len(s) + 1, r[i] = r[j]
                 PROVE  i = j
    BY <1>2 DEF IsInjective
  <2>2. CASE i \in 1 .. Len(s) /\ j \in 1 .. Len(s)
    BY <1>1, <1>2, <2>1, <2>2 DEF IsInjective
  <2>3. CASE i = Len(s) + 1 \/ j = Len(s) + 1
    BY <1>1, <1>2, <1>3, <2>1, <2>3
  <2> QED BY <1>2, <2>2, <2>3
<1>5. ToSet(r) = ToSet(s) \cup {x}
  BY PostFacts DEF r
<1> QED BY <1>1, <1>4, <1>5 DEF r

-----------------------------------------------------------------------------
(* What a step leaves alone *)

\* The phase of a command that a step does not concern.
LEMMA PhaseStays ==
    ASSUME NEW p, InPhase(p), p \in added' <=> p \in added, Queued(p)' <=> Queued(p),
           child'[p] = "none" <=> child[p] = "none", pipe'[p] = pipe[p], buf'[p] = buf[p],
           isReading'[p] <=> isReading[p], overlapped'[p] = overlapped[p],
           inflight'[p] = inflight[p], writer'[p] <=> writer[p],
           written'[p] = written[p], unread'[p] = unread[p],
           main = "fatal" => main' = "fatal"
    PROVE  InPhase(p)'
<1>1. CASE NotAdded(p)
  BY <1>1 DEF InPhase, NotAdded
<1>2. CASE NotFound(p)
  BY <1>2 DEF InPhase, NotFound
<1>3. CASE Connecting(p)
  BY <1>3 DEF InPhase, Connecting, Started
<1>4. CASE Pending(p)
  BY <1>4 DEF InPhase, Pending, Started
<1>5. CASE Answered(p)
  BY <1>5 DEF InPhase, Answered, Started
<1>6. CASE BrokenOff(p)
  BY <1>6 DEF InPhase, BrokenOff, Started
<1>7. CASE Drained(p)
  BY <1>7 DEF InPhase, Drained, Started
<1>8. CASE Unstarted(p)
  BY <1>8 DEF InPhase, Unstarted, FailedToStart
<1> QED BY <1>1, <1>2, <1>3, <1>4, <1>5, <1>6, <1>7, <1>8 DEF InPhase

\* A step that moves the thread, the handler or the port, and no command.
LEMMA QuietStep ==
    ASSUME SubprocessInv, TypeOK', Staged',
           main = "fatal" => main' = "fatal", main' # "fatal" \/ FatalOnlyOfStart',
           UNCHANGED <<added, running, finished, pipes, queue, children>>
    PROVE  SubprocessInv'
<1>1. Listed' /\ OnePacketEach'
  BY DEF SubprocessInv, Listed, OnePacketEach, pipes
<1>2. ASSUME NEW p \in Procs PROVE InPhase(p)'
  BY PhaseStays DEF SubprocessInv, pipes, children, Queued
<1> QED BY <1>1, <1>2 DEF SubprocessInv, FatalOnlyOfStart

\* A step that concerns one command.
LEMMA OneCommandStep ==
    ASSUME SubprocessInv, NEW p \in Procs,
           \A q \in Procs \ {p} :
               /\ q \in added' <=> q \in added
               /\ Queued(q)' <=> Queued(q)
               /\ child'[q] = child[q] /\ pipe'[q] = pipe[q] /\ buf'[q] = buf[q]
               /\ isReading'[q] = isReading[q] /\ overlapped'[q] = overlapped[q]
               /\ inflight'[q] = inflight[q] /\ writer'[q] = writer[q]
               /\ written'[q] = written[q] /\ unread'[q] = unread[q],
           TypeOK', OnePacketEach', Listed', Staged', InPhase(p)',
           main # "fatal", main' # "fatal" \/ FatalOnlyOfStart'
    PROVE  SubprocessInv'
<1>1. ASSUME NEW q \in Procs PROVE InPhase(q)'
  <2>1. CASE q = p
    BY <2>1
  <2>2. CASE q # p
    BY <2>2, PhaseStays DEF SubprocessInv
  <2> QED BY <2>1, <2>2
<1> QED BY <1>1 DEF SubprocessInv, FatalOnlyOfStart

-----------------------------------------------------------------------------
(* The steps of the thread that uses the set *)

\* A new set finds nothing left of the last one: its pipes are closed and empty.
LEMMA ConstructStep ==
    ASSUME SubprocessInv, Construct
    PROVE  SubprocessInv'
<1>1. TypeOK /\ Staged /\ \A p \in Procs : InPhase(p)
  BY DEF SubprocessInv
<1>2. ASSUME NEW p \in Procs PROVE ~writer[p] /\ unread[p] = <<>>
  <2>1. p \in added => Done(p)
    BY <1>1 DEF Construct, Staged
  <2>2. NotAdded(p) \/ NotFound(p) \/ Drained(p)
    BY <1>1, <2>1 DEF Construct, InPhase, Unstarted, Connecting, Pending, Answered,
        BrokenOff, Started, Done
  <2> QED BY <2>2 DEF NotAdded, NotFound, Drained
<1>3. TypeOK'
  <2>1. sets' \in 0 .. MaxSets
    BY <1>1, SubprocessAssumption DEF Construct, TypeOK
  <2>2. /\ main' = "constructing" /\ port' = "open" /\ queue' = <<>>
        /\ added' = {} /\ running' = <<>> /\ finished' = <<>>
        /\ UNCHANGED <<handler, interrupt, interrupts, writer, unread>>
    BY DEF Construct, control
  <2>3. /\ pipe' \in [Procs -> {"unset", "open", "null"}]
        /\ buf' \in [Procs -> Seq(Nat)] /\ inflight' \in [Procs -> Seq(Nat)]
        /\ overlapped' \in [Procs -> {"idle", "pending", "ok", "broken"}]
        /\ child' \in [Procs -> {"none", "running", "exited"}]
        /\ written' \in [Procs -> 0 .. MaxChunks]
    BY SubprocessAssumption DEF Construct
  <2>4. isReading' \in [Procs -> BOOLEAN]
    BY DEF Construct
  <2> QED BY <1>1, <2>1, <2>2, <2>3, <2>4 DEF TypeOK
<1>4. OnePacketEach'
  BY DEF Construct, OnePacketEach, AtMostOnce
<1>5. Listed'
  BY DEF Construct, Listed, IsInjective, ToSet
<1>6. Staged' /\ FatalOnlyOfStart'
  BY <1>1 DEF Construct, Staged, control, FatalOnlyOfStart
<1>7. ASSUME NEW p \in Procs PROVE InPhase(p)'
  BY <1>2 DEF Construct, InPhase, NotAdded, Queued, ToSet
<1> QED BY <1>3, <1>4, <1>5, <1>6, <1>7 DEF SubprocessInv

\* From here Ctrl-C posts to the port, which is open.
LEMMA RegisterHandlerStep ==
    ASSUME SubprocessInv, RegisterHandler
    PROVE  SubprocessInv'
<1>1. TypeOK' /\ Staged'
  <2>1. TypeOK'
    BY DEF SubprocessInv, RegisterHandler, TypeOK, pipes, control, children
  <2>2. Staged'
    BY DEF SubprocessInv, RegisterHandler, Staged, control
  <2> QED BY <2>1, <2>2
<1> QED BY <1>1, QuietStep DEF RegisterHandler

\* The pipes of the set are connected at once.
LEMMA AddStartedStep ==
    ASSUME SubprocessInv, NEW p \in Procs, AddStarted(p)
    PROVE  SubprocessInv'
<1>1. TypeOK /\ OnePacketEach /\ Listed /\ Staged /\ InPhase(p)
  BY DEF SubprocessInv
<1>2. NotAdded(p)
  BY <1>1 DEF AddStarted, InPhase, NotFound, Unstarted, Connecting, Pending, Answered,
      BrokenOff, Drained, Started
<1>3. /\ queue' \in Seq(Procs \cup {Null}) /\ ToSet(queue') = ToSet(queue) \cup {p}
      /\ AtMostOnce(queue')
  BY <1>1, <1>2, PostFacts DEF AddStarted, Connected, TypeOK, OnePacketEach, NotAdded, Queued
<1>4. /\ running' \in Seq(Procs) /\ IsInjective(running')
      /\ ToSet(running') = ToSet(running) \cup {p}
  <2>1. p \notin ToSet(running)
    BY <1>1, <1>2 DEF Listed, NotAdded
  <2> QED BY <1>1, <2>1, ListFacts DEF AddStarted, TypeOK, Listed
<1>5. TypeOK'
  BY <1>1, <1>3, <1>4 DEF AddStarted, Connected, TypeOK, control
<1>6. Listed'
  BY <1>1, <1>2, <1>4 DEF AddStarted, Listed, TypeOK
<1>7. Staged'
  BY <1>1 DEF AddStarted, Staged, control
<1>8. Connecting(p)'
  <2>1. p \in added' /\ Queued(p)'
    BY <1>3 DEF AddStarted, Queued
  <2>2. /\ child'[p] = "running" /\ pipe'[p] = "open" /\ overlapped'[p] = "ok"
        /\ UNCHANGED <<isReading, buf, written, unread>>
    BY <1>1 DEF AddStarted, Connected, TypeOK
  <2>3. UpTo(0) = <<>>
    BY UpToFacts
  <2> QED BY <1>2, <2>1, <2>2, <2>3 DEF NotAdded, Connecting, Started
<1>9. \A q \in Procs \ {p} : Queued(q)' <=> Queued(q)
  BY <1>3 DEF Queued
<1> QED BY <1>1, <1>3, <1>5, <1>6, <1>7, <1>8, <1>9, OneCommandStep
        DEF AddStarted, Connected, TypeOK, OnePacketEach, InPhase

\* A command whose program is not found is finished_ at once.
LEMMA AddMissingStep ==
    ASSUME SubprocessInv, NEW p \in Procs, AddMissing(p)
    PROVE  SubprocessInv'
<1>1. TypeOK /\ OnePacketEach /\ Listed /\ Staged /\ InPhase(p)
  BY DEF SubprocessInv
<1>2. NotAdded(p)
  BY <1>1 DEF AddMissing, InPhase, NotFound, Unstarted, Connecting, Pending, Answered,
      BrokenOff, Drained, Started
<1>3. /\ queue' \in Seq(Procs \cup {Null}) /\ ToSet(queue') = ToSet(queue) \cup {p}
      /\ AtMostOnce(queue')
  BY <1>1, <1>2, PostFacts DEF AddMissing, Connected, TypeOK, OnePacketEach, NotAdded, Queued
<1>4. /\ finished' \in Seq(Procs) /\ IsInjective(finished')
      /\ ToSet(finished') = ToSet(finished) \cup {p}
  <2>1. p \notin ToSet(finished)
    BY <1>1, <1>2 DEF Listed, NotAdded
  <2> QED BY <1>1, <2>1, ListFacts DEF AddMissing, TypeOK, Listed
<1>5. TypeOK'
  BY <1>1, <1>3, <1>4 DEF AddMissing, Connected, TypeOK, control, children
<1>6. Listed'
  BY <1>1, <1>2, <1>4 DEF AddMissing, Listed, TypeOK
<1>7. Staged'
  BY <1>1 DEF AddMissing, Staged, control
<1>8. NotFound(p)'
  BY <1>1, <1>2 DEF AddMissing, TypeOK, children, NotAdded, NotFound
<1>9. \A q \in Procs \ {p} : Queued(q)' <=> Queued(q)
  BY <1>3 DEF Queued
<1> QED BY <1>1, <1>3, <1>5, <1>6, <1>7, <1>8, <1>9, OneCommandStep
        DEF AddMissing, Connected, children, TypeOK, OnePacketEach, InPhase

\* A command whose program cannot be started is in no list, and the process ends.
LEMMA AddUnstartableStep ==
    ASSUME SubprocessInv, NEW p \in Procs, AddUnstartable(p)
    PROVE  SubprocessInv'
<1>1. TypeOK /\ OnePacketEach /\ Listed /\ Staged /\ InPhase(p)
  BY DEF SubprocessInv
<1>2. NotAdded(p)
  BY <1>1 DEF AddUnstartable, InPhase, NotFound, Unstarted, Connecting, Pending, Answered,
      BrokenOff, Drained, Started
<1>3. /\ queue' \in Seq(Procs \cup {Null}) /\ ToSet(queue') = ToSet(queue) \cup {p}
      /\ AtMostOnce(queue')
  BY <1>1, <1>2, PostFacts
      DEF AddUnstartable, Connected, TypeOK, OnePacketEach, NotAdded, Queued
<1>4. TypeOK'
  BY <1>1, <1>3 DEF AddUnstartable, Connected, TypeOK, control
<1>5. Listed'
  BY <1>1, <1>2 DEF AddUnstartable, Listed, TypeOK, NotAdded
<1>6. Staged'
  BY <1>1 DEF AddUnstartable, Staged, control
<1>7. Unstarted(p)'
  BY <1>1 DEF AddUnstartable, Unstarted, FailedToStart, TypeOK
<1>8. FatalOnlyOfStart'
  BY <1>1, <1>7 DEF AddUnstartable, Unstarted, Staged, FatalOnlyOfStart
<1>9. \A q \in Procs \ {p} : Queued(q)' <=> Queued(q)
  BY <1>3 DEF Queued
<1> QED BY <1>1, <1>3, <1>4, <1>5, <1>6, <1>7, <1>8, <1>9, OneCommandStep
        DEF AddUnstartable, Connected, TypeOK, OnePacketEach, InPhase

\* A command whose pipe is closed moves from one list to the other.
LEMMA PipeEndsFacts ==
    ASSUME TypeOK, Listed, NEW p \in Procs, p \in added, pipe[p] = "open",
           PipeEnds(p), UNCHANGED added
    PROVE  /\ running' \in Seq(Procs) /\ finished' \in Seq(Procs)
           /\ pipe' = [pipe EXCEPT ![p] = "null"]
           /\ Listed'
<1>1. /\ running' = RemoveFirst(running, p) /\ finished' = Append(finished, p)
      /\ pipe' = [pipe EXCEPT ![p] = "null"] /\ p \notin ToSet(finished)
  BY DEF PipeEnds, Listed
<1>2. /\ running' \in Seq(Procs) /\ IsInjective(running')
      /\ ToSet(running') = ToSet(running) \ {p}
  BY <1>1, RemoveFirstFacts DEF TypeOK, Listed
<1>3. /\ finished' \in Seq(Procs) /\ IsInjective(finished')
      /\ ToSet(finished') = ToSet(finished) \cup {p}
  BY <1>1, ListFacts DEF TypeOK, Listed
<1>4. Listed'
  BY <1>1, <1>2, <1>3 DEF Listed, TypeOK
<1> QED BY <1>1, <1>2, <1>3, <1>4

\* The read DoWork starts: what was received so far and what the kernel holds are
\* all of it.
LEMMA StartReadFacts ==
    ASSUME TypeOK, OnePacketEach, Listed, Staged, NEW p \in Procs,
           queue # <<>>, Head(queue) = p, Started(p), pipe[p] = "open", main # "fatal",
           buf' \in [Procs -> Seq(Nat)], buf'[p] \o unread[p] = UpTo(written[p]),
           isReading'[p], StartRead(p),
           UNCHANGED <<main, added, port, handler, interrupt, child, writer, written>>
    PROVE  /\ running' \in Seq(Procs) /\ finished' \in Seq(Procs)
           /\ pipe' \in [Procs -> {"unset", "open", "null"}]
           /\ overlapped' \in [Procs -> {"idle", "pending", "ok", "broken"}]
           /\ inflight' \in [Procs -> Seq(Nat)] /\ unread' \in [Procs -> Seq(Nat)]
           /\ queue' \in Seq(Procs \cup {Null}) /\ OnePacketEach'
           /\ Listed' /\ InPhase(p)'
           /\ \A q \in Procs \ {p} :
                 /\ Queued(q)' <=> Queued(q)
                 /\ pipe'[q] = pipe[q] /\ overlapped'[q] = overlapped[q]
                 /\ inflight'[q] = inflight[q] /\ unread'[q] = unread[q]
<1> DEFINE rest == Tail(queue)
<1>1. /\ rest \in Seq(Procs \cup {Null}) /\ AtMostOnce(rest) /\ p \notin ToSet(rest)
      /\ \A q \in Procs \ {p} : q \in ToSet(rest) <=> Queued(q)
  BY TakeFacts, SubprocessAssumption DEF TypeOK, OnePacketEach, Queued
<1>2. Started(p)'
  BY DEF Started
<1>3. buf'[p] \in Seq(Nat) /\ unread[p] \in Seq(Nat)
  BY DEF TypeOK
<1> HIDE DEF rest
<1>4. CASE unread[p] # <<>>
  <2>1. /\ overlapped' = [overlapped EXCEPT ![p] = "ok"]
        /\ inflight' = [inflight EXCEPT ![p] = <<Head(unread[p])>>]
        /\ unread' = [unread EXCEPT ![p] = Tail(unread[p])]
        /\ queue' = Append(rest, p)
        /\ UNCHANGED <<pipe, running, finished>>
    BY <1>4 DEF StartRead, rest
  <2>2. /\ <<Head(unread[p])>> \in Seq(Nat) /\ Tail(unread[p]) \in Seq(Nat)
        /\ buf'[p] \o <<Head(unread[p])>> \o Tail(unread[p]) = UpTo(written[p])
    BY <1>3, <1>4, ChunkMoves
  <2>3. /\ queue' \in Seq(Procs \cup {Null}) /\ OnePacketEach'
        /\ \A q \in Procs : Queued(q)' <=> q \in ToSet(rest) \/ q = p
    BY <1>1, <2>1, PostFacts DEF OnePacketEach, Queued
  <2>4. Answered(p)'
    BY <1>2, <2>1, <2>2, <2>3 DEF Answered, TypeOK
  <2>5. Listed'
    BY <2>1 DEF Listed
  <2>6. inflight' \in [Procs -> Seq(Nat)] /\ unread' \in [Procs -> Seq(Nat)]
    BY <2>1, <2>2 DEF TypeOK
  <2> QED BY <1>1, <2>1, <2>3, <2>4, <2>5, <2>6 DEF TypeOK, InPhase
<1>5. CASE unread[p] = <<>> /\ ~writer[p]
  <2>1. /\ PipeEnds(p)
        /\ overlapped' = [overlapped EXCEPT ![p] = "idle"]
        /\ inflight' = [inflight EXCEPT ![p] = <<>>]
        /\ queue' = rest
        /\ UNCHANGED unread
    BY <1>5 DEF StartRead, rest
  <2>2. /\ running' \in Seq(Procs) /\ finished' \in Seq(Procs)
        /\ pipe' = [pipe EXCEPT ![p] = "null"] /\ Listed'
    BY <2>1, PipeEndsFacts DEF Started
  <2>3. buf'[p] = UpTo(written[p])
    BY <1>3, <1>5
  <2>4. Drained(p)'
    BY <1>1, <1>2, <1>5, <2>1, <2>2, <2>3 DEF Drained, Queued, TypeOK
  <2>5. /\ inflight' \in [Procs -> Seq(Nat)]
        /\ overlapped' \in [Procs -> {"idle", "pending", "ok", "broken"}]
        /\ pipe' \in [Procs -> {"unset", "open", "null"}]
    BY <2>1, <2>2, SMTT(30) DEF TypeOK
  <2> QED BY <1>1, <2>1, <2>2, <2>4, <2>5 DEF TypeOK, InPhase, OnePacketEach, Queued
<1>6. CASE unread[p] = <<>> /\ writer[p]
  <2>1. /\ overlapped' = [overlapped EXCEPT ![p] = "pending"]
        /\ inflight' = [inflight EXCEPT ![p] = <<>>]
        /\ queue' = rest
        /\ UNCHANGED <<pipe, running, finished, unread>>
    BY <1>6 DEF StartRead, rest
  <2>2. buf'[p] = UpTo(written[p])
    BY <1>3, <1>6
  <2>3. Pending(p)'
    BY <1>1, <1>2, <1>6, <2>1, <2>2 DEF Pending, Queued, TypeOK
  <2>4. Listed'
    BY <2>1 DEF Listed
  <2>5. /\ inflight' \in [Procs -> Seq(Nat)]
        /\ overlapped' \in [Procs -> {"idle", "pending", "ok", "broken"}]
    BY <2>1, SMTT(30) DEF TypeOK
  <2> QED BY <1>1, <2>1, <2>3, <2>4, <2>5 DEF TypeOK, InPhase, OnePacketEach, Queued
<1> QED BY <1>4, <1>5, <1>6

\* A packet is taken, and its command is Drained, or a read is pending or answered.
LEMMA DoWorkStep ==
    ASSUME SubprocessInv, NEW p \in Procs, DoWork(p)
    PROVE  SubprocessInv'
<1>1. TypeOK /\ OnePacketEach /\ Listed /\ Staged /\ InPhase(p)
  BY DEF SubprocessInv
<1>2. /\ main = "using" /\ queue # <<>> /\ Head(queue) = p /\ pipe[p] = "open"
      /\ UNCHANGED <<main, added, sets, port, handler, interrupt, interrupts, child, writer, written>>
  BY DEF DoWork, Working, control
<1>3. Queued(p)
  BY <1>1, <1>2, TakeFacts DEF TypeOK, OnePacketEach, Queued
<1>4. Connecting(p) \/ Answered(p) \/ BrokenOff(p)
  BY <1>1, <1>2, <1>3 DEF InPhase, NotAdded, NotFound, Unstarted, Pending, Drained
<1>5. Started(p) /\ Started(p)'
  BY <1>2, <1>4 DEF Connecting, Answered, BrokenOff, Started
<1>6. Staged'
  BY <1>1, <1>2 DEF Staged
<1>7. CASE overlapped[p] = "broken"
  <2>1. /\ PipeEnds(p) /\ queue' = Tail(queue)
        /\ UNCHANGED <<buf, isReading, overlapped, inflight, unread>>
    BY <1>7 DEF DoWork
  <2>2. /\ running' \in Seq(Procs) /\ finished' \in Seq(Procs)
        /\ pipe' = [pipe EXCEPT ![p] = "null"] /\ Listed'
    BY <1>1, <1>2, <1>5, <2>1, PipeEndsFacts DEF Started
  <2>3. /\ queue' \in Seq(Procs \cup {Null}) /\ OnePacketEach' /\ ~Queued(p)'
        /\ \A q \in Procs \ {p} : Queued(q)' <=> Queued(q)
    BY <1>1, <1>2, <2>1, TakeFacts, SubprocessAssumption DEF TypeOK, OnePacketEach, Queued
  <2>4. BrokenOff(p)
    BY <1>4, <1>7 DEF Connecting, Answered
  <2>5. Drained(p)'
    BY <1>1, <1>2, <1>5, <2>1, <2>2, <2>3, <2>4 DEF BrokenOff, Drained, TypeOK
  <2>6. TypeOK'
    BY <1>1, <1>2, <2>1, <2>2, <2>3 DEF TypeOK
  <2> QED BY <1>1, <1>2, <1>6, <2>1, <2>2, <2>3, <2>5, <2>6, OneCommandStep DEF InPhase, TypeOK
<1>8. CASE overlapped[p] # "broken"
  <2>1. /\ buf' = [buf EXCEPT ![p] = IF isReading[p] THEN @ \o inflight[p] ELSE @]
        /\ isReading' = [isReading EXCEPT ![p] = TRUE]
        /\ StartRead(p)
    BY <1>8 DEF DoWork
  <2>2. buf[p] \in Seq(Nat) /\ inflight[p] \in Seq(Nat) /\ unread[p] \in Seq(Nat)
    BY <1>1 DEF TypeOK
  <2>3. buf[p] \o inflight[p] \in Seq(Nat)
    BY <2>2, ConcatProperties
  <2>4. buf' \in [Procs -> Seq(Nat)]
    BY <1>1, <2>1, <2>2, <2>3 DEF TypeOK
  <2>5. isReading'[p] /\ isReading' \in [Procs -> BOOLEAN]
    BY <1>1, <2>1 DEF TypeOK
  <2>6. buf'[p] \o unread[p] = UpTo(written[p])
    <3>1. CASE Connecting(p)
      <4>1. buf'[p] = <<>> /\ unread[p] = UpTo(written[p])
        BY <1>1, <2>1, <3>1 DEF Connecting, TypeOK
      <4> QED BY <2>2, <4>1
    <3>2. CASE Answered(p)
      BY <1>1, <2>1, <3>2 DEF Answered, TypeOK
    <3> QED BY <1>4, <1>8, <3>1, <3>2 DEF BrokenOff
  <2>7. /\ running' \in Seq(Procs) /\ finished' \in Seq(Procs)
        /\ pipe' \in [Procs -> {"unset", "open", "null"}]
        /\ overlapped' \in [Procs -> {"idle", "pending", "ok", "broken"}]
        /\ inflight' \in [Procs -> Seq(Nat)] /\ unread' \in [Procs -> Seq(Nat)]
        /\ queue' \in Seq(Procs \cup {Null}) /\ OnePacketEach'
        /\ Listed' /\ InPhase(p)'
        /\ \A q \in Procs \ {p} :
              /\ Queued(q)' <=> Queued(q)
              /\ pipe'[q] = pipe[q] /\ overlapped'[q] = overlapped[q]
              /\ inflight'[q] = inflight[q] /\ unread'[q] = unread[q]
    BY <1>1, <1>2, <1>5, <2>1, <2>4, <2>5, <2>6, StartReadFacts
  <2>8. TypeOK'
    BY <1>1, <1>2, <2>4, <2>5, <2>7 DEF TypeOK
  <2>9. \A q \in Procs \ {p} : buf'[q] = buf[q] /\ isReading'[q] = isReading[q]
    BY <1>1, <2>1 DEF TypeOK
  <2> QED BY <1>2, <1>6, <2>7, <2>8, <2>9, OneCommandStep
<1> QED BY <1>7, <1>8

\* Only the connect of a command that was not found is answered without a pipe, and
\* its packet is taken then.
LEMMA DoWorkWithoutPipeStep ==
    ASSUME SubprocessInv, NEW p \in Procs, DoWorkWithoutPipe(p)
    PROVE  SubprocessInv'
<1>1. TypeOK /\ OnePacketEach /\ Listed /\ Staged /\ InPhase(p)
  BY DEF SubprocessInv
<1>2. /\ main = "using" /\ main' = "fatal" /\ queue # <<>> /\ Head(queue) = p /\ pipe[p] = "null"
      /\ queue' = Tail(queue)
      /\ UNCHANGED <<added, running, finished, sets, pipes, port, handler, control, children>>
  BY DEF DoWorkWithoutPipe, Working, Done
<1>3. /\ queue' \in Seq(Procs \cup {Null}) /\ OnePacketEach' /\ Queued(p) /\ ~Queued(p)'
      /\ \A q \in Procs \ {p} : Queued(q)' <=> Queued(q)
  BY <1>1, <1>2, TakeFacts, SubprocessAssumption DEF TypeOK, OnePacketEach, Queued
<1>4. NotFound(p)
  BY <1>1, <1>2, <1>3 DEF InPhase, NotAdded, Unstarted, Connecting, Pending, Answered,
      BrokenOff, Drained
<1>5. NotFound(p)'
  BY <1>2, <1>4 DEF NotFound, pipes, children
<1>6. TypeOK'
  BY <1>1, <1>2, <1>3 DEF TypeOK, pipes, control, children
<1>7. Staged'
  BY <1>1, <1>2 DEF Staged, control, children
<1>8. Listed'
  BY <1>1, <1>2 DEF Listed, pipes
<1>9. FatalOnlyOfStart'
  <2>1. TakenWithoutPipe(p)'
    BY <1>2, <1>3, <1>5 DEF TakenWithoutPipe, NotFound, Queued
  <2>2. port' = "open"
    BY <1>1, <1>2 DEF Staged
  <2> QED BY <2>1, <2>2 DEF FatalOnlyOfStart
<1> QED BY <1>2, <1>3, <1>5, <1>6, <1>7, <1>8, <1>9, OneCommandStep DEF InPhase, pipes, children

\* The packet of NotifyInterrupted is nobody's.
LEMMA NullPacketStep ==
    ASSUME SubprocessInv, TypeOK', Staged', OnePacketEach',
           \A q \in Procs : Queued(q)' <=> Queued(q),
           main # "fatal", main' # "fatal",
           UNCHANGED <<added, running, finished, pipes, children>>
    PROVE  SubprocessInv'
<1>1. Listed'
  BY DEF SubprocessInv, Listed, pipes
<1>2. ASSUME NEW p \in Procs PROVE InPhase(p)'
  BY PhaseStays DEF SubprocessInv, pipes, children
<1> QED BY <1>1, <1>2 DEF SubprocessInv, FatalOnlyOfStart

\* The packet of NotifyInterrupted is taken.
LEMMA DoWorkInterruptedStep ==
    ASSUME SubprocessInv, DoWorkInterrupted
    PROVE  SubprocessInv'
<1>1. TypeOK /\ OnePacketEach /\ Staged
  BY DEF SubprocessInv
<1>2. /\ queue' \in Seq(Procs \cup {Null}) /\ OnePacketEach'
      /\ \A q \in Procs : Queued(q)' <=> Queued(q)
  BY <1>1, TakeFacts, SubprocessAssumption DEF DoWorkInterrupted, TypeOK, OnePacketEach, Queued
<1>3. TypeOK'
  BY <1>1, <1>2 DEF DoWorkInterrupted, TypeOK, parent, pipes, control, children
<1>4. Staged'
  BY <1>1 DEF DoWorkInterrupted, Staged, parent, pipes, control, children, Done
<1> QED BY <1>2, <1>3, <1>4, NullPacketStep DEF DoWorkInterrupted, Working, parent

\* The loop around DoWork is left when every command is Done.
LEMMA AllDoneStep ==
    ASSUME SubprocessInv, AllDone
    PROVE  SubprocessInv'
<1>1. TypeOK'
  BY DEF SubprocessInv, AllDone, TypeOK, pipes, kernel, control, children
<1>2. Staged'
  BY DEF SubprocessInv, AllDone, Working, Staged, Done, pipes, kernel, control, children
<1> QED BY <1>1, <1>2, QuietStep DEF AllDone, kernel

\* Finish changes nothing that the phases are about.
LEMMA FinishStep ==
    ASSUME SubprocessInv, Finish
    PROVE  SubprocessInv'
<1>1. TypeOK'
  BY DEF SubprocessInv, Finish, TypeOK, pipes, kernel, control, children
<1>2. Staged'
  BY DEF SubprocessInv, Finish, Staged, Done, pipes, kernel, control, children
<1> QED BY <1>1, <1>2, QuietStep DEF Finish, kernel

\* No handler is at work when it is removed.
LEMMA RemoveHandlerStep ==
    ASSUME SubprocessInv, RemoveHandler
    PROVE  SubprocessInv'
<1>1. TypeOK'
  BY DEF SubprocessInv, RemoveHandler, TypeOK, pipes, control, children
<1>2. Staged'
  BY DEF SubprocessInv, RemoveHandler, Staged, Done, pipes, control, children
<1> QED BY <1>1, <1>2, QuietStep DEF RemoveHandler

\* With the port go the packets, of commands that were not found.
LEMMA ClosePortStep ==
    ASSUME SubprocessInv, ClosePort
    PROVE  SubprocessInv'
<1>1. TypeOK /\ OnePacketEach /\ Listed /\ Staged
  BY DEF SubprocessInv
<1>2. /\ main = "closing" /\ main' = "idle" /\ port' = "closed" /\ queue' = <<>>
      /\ UNCHANGED <<added, running, finished, sets, pipes, handler, control, children>>
  BY DEF ClosePort
<1>3. TypeOK'
  BY <1>1, <1>2 DEF TypeOK, pipes, control, children
<1>4. OnePacketEach' /\ Listed'
  BY <1>1, <1>2 DEF OnePacketEach, AtMostOnce, Listed, pipes
<1>5. Staged' /\ FatalOnlyOfStart'
  BY <1>1, <1>2 DEF Staged, Done, pipes, control, FatalOnlyOfStart
<1>6. ASSUME NEW p \in Procs PROVE InPhase(p)'
  <2>1. ~Queued(p)'
    BY <1>2 DEF Queued, ToSet
  <2>2. InPhase(p) /\ (p \in added => Done(p))
    BY <1>1, <1>2 DEF SubprocessInv, Staged
  <2>3. NotAdded(p) \/ NotFound(p) \/ Drained(p)
    BY <1>2, <2>2 DEF InPhase, Unstarted, Connecting, Pending, Answered, BrokenOff,
        Started, Done
  <2> QED BY <1>2, <2>1, <2>3 DEF InPhase, NotAdded, NotFound, Drained, Started, pipes, children
<1> QED BY <1>3, <1>4, <1>5, <1>6 DEF SubprocessInv

-----------------------------------------------------------------------------
(* Ctrl-C *)

\* Only a handler that is registered is started.
LEMMA CtrlCStep ==
    ASSUME SubprocessInv, CtrlC
    PROVE  SubprocessInv'
<1>1. TypeOK'
  <2>1. TypeOK
    BY DEF SubprocessInv
  <2>2. interrupts' \in 0 .. MaxInterrupts /\ interrupt' \in {"none", "posting"}
    BY <2>1, SubprocessAssumption DEF CtrlC, TypeOK
  <2>3. UNCHANGED <<parent, pipes, kernel, children>>
    BY DEF CtrlC
  <2> QED BY <2>1, <2>2, <2>3 DEF TypeOK, parent, pipes, kernel, children
<1>2. Staged'
  BY DEF SubprocessInv, CtrlC, Staged, Done, parent, pipes, kernel, children
<1>3. /\ main # "fatal" /\ main' = main
      /\ UNCHANGED <<added, running, finished, pipes, queue, children>>
  BY DEF CtrlC, parent, kernel
<1> QED BY <1>1, <1>2, <1>3, QuietStep

\* The handler finds the port open.
LEMMA NotifyInterruptedStep ==
    ASSUME SubprocessInv, NotifyInterrupted
    PROVE  SubprocessInv'
<1>1. TypeOK /\ OnePacketEach /\ Staged
  BY DEF SubprocessInv
<1>2. /\ interrupt = "posting" /\ main # "fatal"
      /\ interrupt' = "none" /\ queue' = Append(queue, Null)
      /\ UNCHANGED <<main, added, running, finished, sets, pipes, port, handler, interrupts, children>>
  BY <1>1 DEF NotifyInterrupted, Staged
<1>3. /\ queue' \in Seq(Procs \cup {Null}) /\ OnePacketEach'
      /\ \A q \in Procs : Queued(q)' <=> Queued(q)
  BY <1>1, <1>2, PostFacts, SubprocessAssumption DEF TypeOK, OnePacketEach, Queued
<1>4. TypeOK'
  BY <1>1, <1>2, <1>3 DEF TypeOK, pipes, children
<1>5. Staged'
  BY <1>1, <1>2 DEF Staged, Done, pipes, children
<1> QED BY <1>2, <1>3, <1>4, <1>5, NullPacketStep

-----------------------------------------------------------------------------
(* The children and the kernel *)

\* The answer to a pending read.
LEMMA CompletesFacts ==
    ASSUME TypeOK, OnePacketEach, NEW p \in Procs, ~Queued(p),
           NEW result \in {"ok", "broken"}, NEW chunk \in Seq(Nat),
           Completes(p, result, chunk)
    PROVE  /\ overlapped' = [overlapped EXCEPT ![p] = result]
           /\ overlapped' \in [Procs -> {"idle", "pending", "ok", "broken"}]
           /\ inflight' = [inflight EXCEPT ![p] = chunk] /\ inflight' \in [Procs -> Seq(Nat)]
           /\ queue' \in Seq(Procs \cup {Null}) /\ OnePacketEach' /\ Queued(p)'
           /\ \A q \in Procs \ {p} : Queued(q)' <=> Queued(q)
<1>1. /\ queue' \in Seq(Procs \cup {Null}) /\ AtMostOnce(queue')
      /\ ToSet(queue') = ToSet(queue) \cup {p}
  BY PostFacts DEF Completes, TypeOK, OnePacketEach, Queued
<1>2. /\ overlapped' = [overlapped EXCEPT ![p] = result]
      /\ inflight' = [inflight EXCEPT ![p] = chunk]
  BY DEF Completes
<1>3. /\ overlapped' \in [Procs -> {"idle", "pending", "ok", "broken"}]
      /\ inflight' \in [Procs -> Seq(Nat)]
  BY <1>2 DEF TypeOK
<1> QED BY <1>1, <1>2, <1>3 DEF OnePacketEach, Queued

\* What a child writes answers a pending read, or stays with the kernel.
LEMMA WriteStep ==
    ASSUME SubprocessInv, NEW p \in Procs, Write(p)
    PROVE  SubprocessInv'
<1> DEFINE n == written[p]
<1>1. TypeOK /\ OnePacketEach /\ Listed /\ Staged /\ InPhase(p)
  BY DEF SubprocessInv
<1>2. /\ writer[p] /\ main # "fatal" /\ n < MaxChunks
      /\ written' = [written EXCEPT ![p] = n + 1]
      /\ UNCHANGED <<main, added, running, finished, sets, pipe, buf, isReading, port, handler,
                     interrupt, interrupts, child, writer>>
  BY DEF Write, parent, control
<1>3. n \in Nat /\ written' \in [Procs -> 0 .. MaxChunks] /\ written'[p] = n + 1
  BY <1>1, <1>2, SubprocessAssumption DEF TypeOK
<1>4. Staged' /\ Listed'
  BY <1>1, <1>2 DEF Staged, Listed, Done
<1>5. Connecting(p) \/ Pending(p) \/ Answered(p)
  BY <1>1, <1>2 DEF InPhase, NotAdded, NotFound, Unstarted, BrokenOff, Drained
<1>6. buf[p] \in Seq(Nat) /\ inflight[p] \in Seq(Nat) /\ unread[p] \in Seq(Nat)
  BY <1>1 DEF TypeOK
<1>7. CASE Pending(p)
  <2>1. /\ Completes(p, "ok", <<n + 1>>) /\ UNCHANGED unread
    BY <1>3, <1>7 DEF Write, Pending
  <2>2. <<n + 1>> \in Seq(Nat)
    BY <1>3
  <2>3. /\ overlapped' = [overlapped EXCEPT ![p] = "ok"]
        /\ overlapped' \in [Procs -> {"idle", "pending", "ok", "broken"}]
        /\ inflight' = [inflight EXCEPT ![p] = <<n + 1>>] /\ inflight' \in [Procs -> Seq(Nat)]
        /\ queue' \in Seq(Procs \cup {Null}) /\ OnePacketEach' /\ Queued(p)'
        /\ \A q \in Procs \ {p} : Queued(q)' <=> Queued(q)
    BY <1>1, <1>7, <2>1, <2>2, CompletesFacts DEF Pending
  <2>4. buf[p] \o <<n + 1>> \o <<>> = UpTo(n + 1)
    <3>1. buf[p] \o <<n + 1>> = UpTo(n + 1)
      BY <1>3, <1>7, UpToFacts DEF Pending
    <3>2. UpTo(n + 1) \o <<>> = UpTo(n + 1)
      BY <1>3, UpToFacts, ConcatEmptySeq
    <3> QED BY <3>1, <3>2
  <2>5. Answered(p)'
    BY <1>1, <1>2, <1>3, <1>7, <2>1, <2>3, <2>4 DEF Pending, Answered, Started, TypeOK
  <2>6. TypeOK'
    BY <1>1, <1>2, <1>3, <2>1, <2>3 DEF TypeOK
  <2> QED BY <1>1, <1>2, <1>4, <2>1, <2>3, <2>5, <2>6, OneCommandStep DEF InPhase, TypeOK
<1>8. CASE Connecting(p) \/ Answered(p)
  <2>1. /\ unread' = [unread EXCEPT ![p] = Append(unread[p], n + 1)]
        /\ UNCHANGED <<overlapped, inflight, queue>>
    BY <1>3, <1>8 DEF Write, Connecting, Answered
  <2>2. Append(unread[p], n + 1) \in Seq(Nat)
    BY <1>3, <1>6
  <2>3. unread' \in [Procs -> Seq(Nat)] /\ unread'[p] = Append(unread[p], n + 1)
    BY <1>1, <2>1, <2>2 DEF TypeOK
  <2>4. ASSUME Connecting(p) PROVE InPhase(p)'
    BY <1>2, <1>3, <2>1, <2>3, <2>4, UpToFacts DEF Connecting, Started, InPhase, Queued
  <2>5. ASSUME Answered(p) PROVE InPhase(p)'
    <3>1. buf[p] \o inflight[p] \o Append(unread[p], n + 1) = UpTo(n + 1)
      BY <1>3, <1>6, <2>5, ChunkArrives DEF Answered
    <3> QED BY <1>2, <1>3, <2>1, <2>3, <2>5, <3>1 DEF Answered, Started, InPhase, Queued
  <2>6. InPhase(p)'
    BY <1>8, <2>4, <2>5
  <2>7. TypeOK' /\ OnePacketEach'
    BY <1>1, <1>2, <1>3, <2>1, <2>3 DEF TypeOK, OnePacketEach
  <2> QED BY <1>1, <1>2, <1>4, <2>1, <2>6, <2>7, OneCommandStep DEF TypeOK, Queued
<1> QED BY <1>5, <1>7, <1>8

\* The end of the output answers a pending read, or is found by the next one.
LEMMA CloseWriterStep ==
    ASSUME SubprocessInv, NEW p \in Procs, CloseWriter(p)
    PROVE  SubprocessInv'
<1>1. TypeOK /\ OnePacketEach /\ Listed /\ Staged /\ InPhase(p)
  BY DEF SubprocessInv
<1>2. /\ writer[p] /\ main # "fatal"
      /\ writer' = [writer EXCEPT ![p] = FALSE]
      /\ UNCHANGED <<main, added, running, finished, sets, pipe, buf, isReading, port, handler,
                     interrupt, interrupts, child, written, unread>>
  BY DEF CloseWriter, parent, control
<1>3. writer' \in [Procs -> BOOLEAN] /\ ~writer'[p]
  BY <1>1, <1>2 DEF TypeOK
<1>4. Staged' /\ Listed'
  BY <1>1, <1>2 DEF Staged, Listed, Done
<1>5. Connecting(p) \/ Pending(p) \/ Answered(p)
  BY <1>1, <1>2 DEF InPhase, NotAdded, NotFound, Unstarted, BrokenOff, Drained
<1>6. CASE Pending(p)
  <2>1. Completes(p, "broken", <<>>)
    BY <1>6 DEF CloseWriter, Pending
  <2>2. <<>> \in Seq(Nat)
    OBVIOUS
  <2>3. /\ overlapped' = [overlapped EXCEPT ![p] = "broken"]
        /\ overlapped' \in [Procs -> {"idle", "pending", "ok", "broken"}]
        /\ inflight' = [inflight EXCEPT ![p] = <<>>] /\ inflight' \in [Procs -> Seq(Nat)]
        /\ queue' \in Seq(Procs \cup {Null}) /\ OnePacketEach' /\ Queued(p)'
        /\ \A q \in Procs \ {p} : Queued(q)' <=> Queued(q)
    BY <1>1, <1>6, <2>1, <2>2, CompletesFacts DEF Pending
  <2>4. BrokenOff(p)'
    BY <1>1, <1>2, <1>3, <1>6, <2>3 DEF Pending, BrokenOff, Started, TypeOK
  <2>5. TypeOK'
    BY <1>1, <1>2, <1>3, <2>3 DEF TypeOK
  <2> QED BY <1>1, <1>2, <1>4, <2>3, <2>4, <2>5, OneCommandStep DEF InPhase, TypeOK
<1>7. CASE Connecting(p) \/ Answered(p)
  <2>1. UNCHANGED <<overlapped, inflight, queue>>
    BY <1>7 DEF CloseWriter, Connecting, Answered
  <2>2. InPhase(p)'
    BY <1>2, <1>7, <2>1 DEF Connecting, Answered, Started, InPhase, Queued
  <2>3. TypeOK' /\ OnePacketEach'
    BY <1>1, <1>2, <1>3, <2>1 DEF TypeOK, OnePacketEach
  <2> QED BY <1>1, <1>2, <1>4, <2>1, <2>2, <2>3, OneCommandStep DEF TypeOK, Queued
<1> QED BY <1>5, <1>6, <1>7

\* That a child exits, before or after it closes its output, changes no phase.
LEMMA ExitStep ==
    ASSUME SubprocessInv, NEW p \in Procs, Exit(p)
    PROVE  SubprocessInv'
<1>1. TypeOK /\ OnePacketEach /\ Listed /\ Staged /\ InPhase(p)
  BY DEF SubprocessInv
<1>2. /\ child[p] = "running" /\ main # "fatal"
      /\ child' = [child EXCEPT ![p] = "exited"]
      /\ UNCHANGED <<parent, pipes, kernel, control, writer, written, unread>>
  BY DEF Exit
<1>3. child'[p] = "exited" /\ \A q \in Procs \ {p} : child'[q] = child[q]
  BY <1>1, <1>2 DEF TypeOK
<1>4. TypeOK'
  BY <1>1, <1>2 DEF TypeOK, parent, pipes, kernel, control
<1>5. OnePacketEach' /\ Listed' /\ Staged'
  BY <1>1, <1>2 DEF OnePacketEach, Listed, Staged, Done, parent, pipes, kernel, control
<1>6. InPhase(p)'
  BY <1>1, <1>2, <1>3, PhaseStays DEF parent, pipes, kernel, Queued
<1> QED BY <1>2, <1>3, <1>4, <1>5, <1>6, OneCommandStep DEF parent, pipes, kernel, Queued

-----------------------------------------------------------------------------
(* Every execution *)

\* No set, no command.
LEMMA SubprocessInit ==
    ASSUME Init
    PROVE  SubprocessInv
<1>1. TypeOK
  <2>1. /\ pipe \in [Procs -> {"unset", "open", "null"}]
        /\ buf \in [Procs -> Seq(Nat)] /\ inflight \in [Procs -> Seq(Nat)]
        /\ overlapped \in [Procs -> {"idle", "pending", "ok", "broken"}]
        /\ child \in [Procs -> {"none", "running", "exited"}]
        /\ written \in [Procs -> 0 .. MaxChunks] /\ unread \in [Procs -> Seq(Nat)]
    BY SubprocessAssumption DEF Init
  <2>2. isReading \in [Procs -> BOOLEAN] /\ writer \in [Procs -> BOOLEAN]
    BY DEF Init
  <2>3. /\ main = "idle" /\ added = {} /\ running = <<>> /\ finished = <<>>
        /\ port = "none" /\ queue = <<>> /\ handler = FALSE
        /\ interrupt = "none" /\ interrupts = 0 /\ sets = 0
    BY DEF Init
  <2>4. 0 \in 0 .. MaxInterrupts /\ 0 \in 0 .. MaxSets
    BY SubprocessAssumption
  <2>5. handler \in BOOLEAN
    BY <2>3
  <2>6. /\ interrupts \in 0 .. MaxInterrupts /\ sets \in 0 .. MaxSets
        /\ running \in Seq(Procs) /\ finished \in Seq(Procs) /\ queue \in Seq(Procs \cup {Null})
        /\ added \subseteq Procs /\ interrupt \in {"none", "posting"}
        /\ port \in {"none", "open", "closed"}
    BY <2>3, <2>4
  <2>7. main \in {"idle", "constructing", "using", "finishing", "destroying", "closing", "fatal"}
    BY <2>3
  <2> QED BY <2>1, <2>2, <2>5, <2>6, <2>7 DEF TypeOK
<1>2. OnePacketEach /\ Listed /\ Staged /\ FatalOnlyOfStart
  BY DEF Init, OnePacketEach, AtMostOnce, Listed, IsInjective, ToSet, Staged,
      FatalOnlyOfStart
<1>3. ASSUME NEW p \in Procs PROVE InPhase(p)
  BY DEF Init, InPhase, NotAdded, Queued, ToSet
<1> QED BY <1>1, <1>2, <1>3 DEF SubprocessInv

\* Every step keeps the inductive invariant: one lemma for each action.
LEMMA SubprocessStep ==
    ASSUME SubprocessInv, [Next]_vars
    PROVE  SubprocessInv'
<1>1. ASSUME NEW p \in Procs,
             \/ AddStarted(p) \/ AddMissing(p) \/ AddUnstartable(p)
             \/ DoWork(p) \/ DoWorkWithoutPipe(p)
      PROVE  SubprocessInv'
  BY <1>1, AddStartedStep, AddMissingStep, AddUnstartableStep, DoWorkStep,
     DoWorkWithoutPipeStep
<1>2. ASSUME NEW p \in Procs, Write(p) \/ CloseWriter(p) \/ Exit(p)
      PROVE  SubprocessInv'
  BY <1>2, WriteStep, CloseWriterStep, ExitStep
<1>3. CASE Construct \/ RegisterHandler \/ DoWorkInterrupted \/ AllDone \/ Finish
  BY <1>3, ConstructStep, RegisterHandlerStep, DoWorkInterruptedStep, AllDoneStep, FinishStep
<1>4. CASE RemoveHandler \/ ClosePort \/ CtrlC \/ NotifyInterrupted
  BY <1>4, RemoveHandlerStep, ClosePortStep, CtrlCStep, NotifyInterruptedStep
<1>5. CASE UNCHANGED vars
  <2>1. UNCHANGED <<parent, pipes, kernel, control, children>>
    BY <1>5 DEF vars
  <2>2. TypeOK' /\ Staged'
    BY <2>1 DEF SubprocessInv, TypeOK, Staged, Done, parent, pipes, kernel, control, children
  <2>3. FatalOnlyOfStart'
    BY <2>1 DEF SubprocessInv, FatalOnlyOfStart, FailedToStart, TakenWithoutPipe,
        parent, pipes, kernel, children
  <2> QED BY <2>1, <2>2, <2>3, QuietStep DEF parent, kernel
<1> QED BY <1>1, <1>2, <1>3, <1>4, <1>5 DEF Next, Main

\* The inductive invariant holds in every state of every execution.
THEOREM SubprocessInvariant == Spec => []SubprocessInv
<1>1. Init => SubprocessInv
  BY SubprocessInit
<1>2. SubprocessInv /\ [Next]_vars => SubprocessInv'
  BY SubprocessStep
<1> QED BY <1>1, <1>2, PTL DEF Spec

\* The variables of a set have their types.
THEOREM TypeCorrect == Spec => []TypeOK
BY SubprocessInvariant, PTL DEF SubprocessInv

\* However reads, writes and the closing of a pipe interleave, what a command has
\* written is in buf_, in the one read that is answered, or in the kernel, in
\* order and once; and all of it is in buf_ when the command is Done.
THEOREM OutputIsWhole == Spec => []NothingIsLost
<1>1. SubprocessInv => NothingIsLost
  <2>1. SUFFICES ASSUME SubprocessInv, main # "fatal", NEW p \in Procs, child[p] # "none"
                 PROVE  /\ buf[p] \o Received(p) \o unread[p] = UpTo(written[p])
                        /\ Done(p) => buf[p] = UpTo(written[p]) /\ ~writer[p]
    BY DEF NothingIsLost
  <2>2. buf[p] \in Seq(Nat) /\ unread[p] \in Seq(Nat) /\ InPhase(p)
    BY <2>1 DEF SubprocessInv, TypeOK
  <2>3. CASE Connecting(p)
    <3>1. Received(p) = <<>> /\ buf[p] = <<>> /\ unread[p] = UpTo(written[p]) /\ ~Done(p)
      BY <2>3 DEF Connecting, Received, Done
    <3> QED BY <2>2, <3>1
  <2>4. CASE Answered(p)
    BY <2>4 DEF Answered, Received, Done
  <2>5. CASE Pending(p) \/ BrokenOff(p) \/ Drained(p)
    <3>1. /\ Received(p) = <<>> /\ unread[p] = <<>> /\ buf[p] = UpTo(written[p])
          /\ Done(p) => ~writer[p]
      BY <2>5 DEF Pending, BrokenOff, Drained, Received, Done
    <3> QED BY <2>2, <3>1
  <2> QED BY <2>1, <2>2, <2>3, <2>4, <2>5 DEF InPhase, NotAdded, NotFound, Unstarted
<1> QED BY <1>1, SubprocessInvariant, PTL

\* How many packets a command has.
LEMMA PacketsFacts ==
    ASSUME TypeOK, OnePacketEach, NEW p \in Procs
    PROVE  /\ ~Queued(p) => Packets(p) = 0
           /\ Queued(p) => Packets(p) = 1
<1> DEFINE places == {i \in DOMAIN queue : queue[i] = p}
<1>1. Packets(p) = Cardinality(places)
  BY DEF Packets
<1>2. ASSUME ~Queued(p) PROVE Packets(p) = 0
  <2>1. places = {}
    BY <1>2 DEF Queued, ToSet
  <2> QED BY <1>1, <2>1, FS_EmptySet
<1>3. ASSUME Queued(p) PROVE Packets(p) = 1
  <2>1. PICK i \in DOMAIN queue : queue[i] = p
    BY <1>3 DEF Queued, ToSet
  <2>2. places = {i}
    BY <2>1, SubprocessAssumption DEF OnePacketEach, AtMostOnce
  <2> QED BY <1>1, <2>2, FS_Singleton
<1> QED BY <1>2, <1>3

\* Two lists without duplicates and without common entries.
LEMMA BothListsFacts ==
    ASSUME NEW S, NEW s \in Seq(S), NEW t \in Seq(S), IsInjective(s), IsInjective(t),
           ToSet(s) \cap ToSet(t) = {}
    PROVE  IsInjective(s \o t)
<1> DEFINE r == s \o t
<1>1. /\ Len(s) \in Nat /\ Len(t) \in Nat /\ Len(r) = Len(s) + Len(t)
      /\ DOMAIN s = 1 .. Len(s) /\ DOMAIN t = 1 .. Len(t) /\ DOMAIN r = 1 .. Len(s) + Len(t)
      /\ \A i \in 1 .. Len(s) + Len(t) : r[i] = IF i <= Len(s) THEN s[i] ELSE t[i - Len(s)]
  BY ConcatProperties, LenProperties
<1> HIDE DEF r
<1>2. ASSUME NEW i \in 1 .. Len(s) + Len(t), i <= Len(s)
      PROVE  i \in DOMAIN s /\ r[i] = s[i] /\ r[i] \in ToSet(s)
  BY <1>1, <1>2 DEF ToSet
<1>3. ASSUME NEW i \in 1 .. Len(s) + Len(t), ~(i <= Len(s))
      PROVE  i - Len(s) \in DOMAIN t /\ r[i] = t[i - Len(s)] /\ r[i] \in ToSet(t)
  <2>1. i - Len(s) \in DOMAIN t /\ r[i] = t[i - Len(s)]
    BY <1>1, <1>3
  <2> QED BY <2>1 DEF ToSet
<1>4. ASSUME NEW i \in 1 .. Len(s) + Len(t), NEW j \in 1 .. Len(s) + Len(t), r[i] = r[j]
      PROVE  i = j
  <2>1. CASE i <= Len(s) /\ j <= Len(s)
    BY <1>2, <1>4, <2>1 DEF IsInjective
  <2>2. CASE ~(i <= Len(s)) /\ ~(j <= Len(s))
    <3>1. i - Len(s) = j - Len(s)
      BY <1>3, <1>4, <2>2 DEF IsInjective
    <3> QED BY <1>1, <3>1
  <2>3. CASE i <= Len(s) /\ ~(j <= Len(s))
    BY <1>2, <1>3, <1>4, <2>3
  <2>4. CASE ~(i <= Len(s)) /\ j <= Len(s)
    BY <1>2, <1>3, <1>4, <2>4
  <2> QED BY <2>1, <2>2, <2>3, <2>4
<1> QED BY <1>1, <1>4 DEF IsInjective, r

\* DoWork is never left waiting for a command that is not Done: its read is pending
\* or its one packet is in the port; and the two lists are right.
THEOREM EveryReadWakes == Spec => []EveryReadIsAnswered
<1>1. SubprocessInv => EveryReadIsAnswered
  <2> SUFFICES ASSUME SubprocessInv PROVE EveryReadIsAnswered
    OBVIOUS
  <2>1. TypeOK /\ OnePacketEach /\ Listed
    BY DEF SubprocessInv
  <2>2. ASSUME NEW p \in ToSet(running)
        PROVE  \/ overlapped[p] = "pending" /\ Packets(p) = 0
               \/ overlapped[p] \in {"ok", "broken"} /\ Packets(p) = 1
    <3>1. p \in Procs
      BY <2>1 DEF TypeOK, ToSet
    <3>2. p \in added /\ pipe[p] = "open" /\ InPhase(p)
      BY <2>1, <3>1 DEF SubprocessInv, Listed
    <3>3. Connecting(p) \/ Pending(p) \/ Answered(p) \/ BrokenOff(p)
      BY <3>2 DEF InPhase, NotAdded, NotFound, Unstarted, FailedToStart, Drained
    <3> QED BY <2>1, <3>1, <3>3, PacketsFacts DEF Connecting, Pending, Answered, BrokenOff
  <2>3. ASSUME NEW p \in added
        PROVE  /\ Done(p) <=> p \in ToSet(finished)
               /\ ~Done(p) <=> p \in ToSet(running)
    <3>1. p \in Procs /\ InPhase(p)
      BY <2>1 DEF SubprocessInv, TypeOK
    <3>2. pipe[p] \in {"open", "null"}
      BY <3>1 DEF InPhase, NotAdded, NotFound, Unstarted, FailedToStart, Connecting,
          Pending, Answered, BrokenOff, Drained
    <3> QED BY <2>1, <3>1, <3>2 DEF Listed, Done
  <2>4. IsInjective(running \o finished)
    <3>1. ToSet(running) \cap ToSet(finished) = {}
      <4>1. ToSet(running) \subseteq Procs
        BY <2>1 DEF TypeOK, ToSet
      <4> QED BY <2>1, <4>1 DEF Listed
    <3> QED BY <2>1, <3>1, BothListsFacts DEF Listed, TypeOK
  <2> QED BY <2>2, <2>3, <2>4 DEF EveryReadIsAnswered
<1> QED BY <1>1, SubprocessInvariant, PTL

\* Only a program that cannot be started ends the shell, or one that is not found,
\* when its packet is taken: whenever Ctrl-C is pressed, NotifyInterrupted finds the
\* port open, and no packet is ever left for a pipe that DoWork has closed.
THEOREM OnlyStartIsFatal == Spec => []FatalOnlyOfStart
<1>1. SubprocessInv => FatalOnlyOfStart
  BY DEF SubprocessInv
<1> QED BY <1>1, SubprocessInvariant, PTL

=============================================================================
