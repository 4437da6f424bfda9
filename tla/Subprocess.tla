----------------------------- MODULE Subprocess -----------------------------
(***************************************************************************)
(* Running other programs and collecting what they print                   *)
(* (src/src/cmdEx/subprocess.cc), as the ninja completer and the tests do  *)
(* it: construct a SubprocessSet, Add commands, DoWork until all are Done, *)
(* Finish each, destroy the set.                                           *)
(*                                                                         *)
(* Concurrent with that thread are the children, the kernel that completes *)
(* the reads from their pipes into the completion port, and the thread     *)
(* Windows starts for the handler NotifyInterrupted when Ctrl-C is         *)
(* pressed.  A chunk is what one read returns; the n-th chunk a child      *)
(* writes is the number n.                                                 *)
(***************************************************************************)
EXTENDS Integers, Sequences, SequencesExt, FiniteSets

CONSTANTS Procs,           \* the commands of one set
          MayMiss,         \* those whose program may not be found
          MayNotStart,     \* those whose program may be found and not be started
          Null,            \* the key of the packet NotifyInterrupted posts
          MaxChunks,       \* bound on what a child writes
          MaxInterrupts,   \* bound on the times Ctrl-C is pressed
          MaxSets          \* bound on the sets constructed

ASSUME SubprocessAssumption ==
    /\ IsFiniteSet(Procs) /\ Procs # {}
    /\ MayMiss \subseteq Procs /\ MayNotStart \subseteq Procs
    /\ Null \notin Procs
    /\ MaxChunks \in Nat /\ MaxInterrupts \in Nat /\ MaxSets \in Nat

VARIABLES
    main,        \* where the thread that uses the set is
    added,       \* the commands it has added
    running,     \* running_
    finished,    \* finished_
    pipe,        \* pipe_: "unset", "open" or "null"
    buf,         \* buf_
    isReading,   \* is_reading_
    overlapped,  \* overlapped_: "idle", "pending", "ok" or "broken"
    inflight,    \* overlapped_buf_
    port,        \* ioport_: "none", "open" or "closed"
    queue,       \* the completion packets in it: the key of each
    handler,     \* whether NotifyInterrupted is registered
    interrupt,   \* the handler's thread: "none" or "posting"
    interrupts,  \* how often Ctrl-C was pressed
    child,       \* the child process: "none", "running" or "exited"
    writer,      \* whether the write end of the pipe is open anywhere
    written,     \* how many chunks were written
    unread,      \* those the kernel holds
    sets         \* how many sets were constructed

parent == <<main, added, running, finished, sets>>
pipes == <<pipe, buf, isReading, overlapped, inflight>>
kernel == <<port, queue, handler>>
control == <<interrupt, interrupts>>
children == <<child, writer, written, unread>>
vars == <<parent, pipes, kernel, control, children>>

\* The chunks 1 .. n.
UpTo(n) == [i \in 1 .. n |-> i]

TypeOK ==
    /\ main \in {"idle", "constructing", "using", "finishing", "destroying",
                 "closing", "fatal"}
    /\ added \subseteq Procs
    /\ running \in Seq(Procs) /\ finished \in Seq(Procs)
    /\ pipe \in [Procs -> {"unset", "open", "null"}]
    /\ buf \in [Procs -> Seq(Nat)]
    /\ isReading \in [Procs -> BOOLEAN]
    /\ overlapped \in [Procs -> {"idle", "pending", "ok", "broken"}]
    /\ inflight \in [Procs -> Seq(Nat)]
    /\ port \in {"none", "open", "closed"}
    /\ queue \in Seq(Procs \cup {Null})
    /\ handler \in BOOLEAN
    /\ interrupt \in {"none", "posting"} /\ interrupts \in 0 .. MaxInterrupts
    /\ child \in [Procs -> {"none", "running", "exited"}]
    /\ writer \in [Procs -> BOOLEAN]
    /\ written \in [Procs -> 0 .. MaxChunks]
    /\ unread \in [Procs -> Seq(Nat)]
    /\ sets \in 0 .. MaxSets

Init ==
    /\ main = "idle" /\ added = {} /\ sets = 0
    /\ running = <<>> /\ finished = <<>>
    /\ pipe = [p \in Procs |-> "unset"]
    /\ buf = [p \in Procs |-> <<>>]
    /\ isReading = [p \in Procs |-> FALSE]
    /\ overlapped = [p \in Procs |-> "idle"]
    /\ inflight = [p \in Procs |-> <<>>]
    /\ port = "none" /\ queue = <<>> /\ handler = FALSE
    /\ interrupt = "none" /\ interrupts = 0
    /\ child = [p \in Procs |-> "none"]
    /\ writer = [p \in Procs |-> FALSE]
    /\ written = [p \in Procs |-> 0]
    /\ unread = [p \in Procs |-> <<>>]

\* Variant: it is Done as soon as the child has exited.
DoneWhenExited(p) == pipe[p] = "null" \/ child[p] = "exited"

Done(p) == pipe[p] = "null"

\* The loop around DoWork, whose condition is that some command is not Done.
Working == main = "using" /\ ~(added = Procs /\ \A p \in Procs : Done(p))

-----------------------------------------------------------------------------
(* The thread that uses the set *)

\* SubprocessSet(): a new port, with new Subprocess objects to come.
Construct ==
    /\ main = "idle"
    /\ sets < MaxSets
    /\ sets' = sets + 1
    /\ main' = "constructing"
    /\ port' = "open"
    /\ queue' = <<>>
    /\ added' = {} /\ running' = <<>> /\ finished' = <<>>
    /\ pipe' = [p \in Procs |-> "unset"]
    /\ buf' = [p \in Procs |-> <<>>]
    /\ isReading' = [p \in Procs |-> FALSE]
    /\ overlapped' = [p \in Procs |-> "idle"]
    /\ inflight' = [p \in Procs |-> <<>>]
    /\ child' = [p \in Procs |-> "none"]
    /\ written' = [p \in Procs |-> 0]
    /\ UNCHANGED <<handler, control, writer, unread>>

RegisterHandler ==
    /\ main = "constructing"
    /\ handler' = TRUE
    /\ main' = "using"
    /\ UNCHANGED <<added, running, finished, sets, pipes, port, queue, control, children>>

\* SetupPipe: opening the other end completes the ConnectNamedPipe, which
\* posts a packet.
Connected(p) ==
    /\ overlapped' = [overlapped EXCEPT ![p] = "ok"]
    /\ queue' = Append(queue, p)

\* Add, when CreateProcess succeeds.
AddStarted(p) ==
    /\ main = "using" /\ p \in Procs \ added
    /\ added' = added \cup {p}
    /\ running' = Append(running, p)
    /\ pipe' = [pipe EXCEPT ![p] = "open"]
    /\ Connected(p)
    /\ child' = [child EXCEPT ![p] = "running"]
    /\ writer' = [writer EXCEPT ![p] = TRUE]
    /\ UNCHANGED <<main, finished, sets, buf, isReading, inflight, port, handler,
                   control, written, unread>>

\* Add, when the program is not found: the pipe is closed, but its packet is
\* in the port.
AddMissing(p) ==
    /\ main = "using" /\ p \in MayMiss \ added
    /\ added' = added \cup {p}
    /\ finished' = Append(finished, p)
    /\ pipe' = [pipe EXCEPT ![p] = "null"]
    /\ Connected(p)
    /\ UNCHANGED <<main, running, sets, buf, isReading, inflight, port, handler,
                   control, children>>

\* Add, when CreateProcess fails with any other error (access denied, a file
\* that is no program): Fatal, with the pipe connected and its write end, meant
\* for the child, still open.
AddUnstartable(p) ==
    /\ main = "using" /\ p \in MayNotStart \ added
    /\ main' = "fatal"
    /\ pipe' = [pipe EXCEPT ![p] = "open"]
    /\ Connected(p)
    /\ writer' = [writer EXCEPT ![p] = TRUE]
    /\ UNCHANGED <<added, running, finished, sets, buf, isReading, inflight, port,
                   handler, control, child, written, unread>>

\* Variant: it is listed again, and stays in running_.
PipeEndsListedTwice(p) ==
    /\ pipe' = [pipe EXCEPT ![p] = "null"]
    /\ finished' = Append(finished, p)
    /\ UNCHANGED running

\* pipe_ is closed; a subprocess that is Done moves from running_, if it is
\* there, to finished_.  std::remove takes it out wherever it is listed, which is
\* once (EveryReadIsAnswered).
PipeEnds(p) ==
    /\ pipe' = [pipe EXCEPT ![p] = "null"]
    /\ running' = RemoveFirst(running, p)
    /\ finished' = IF p \in ToSet(running) THEN Append(finished, p) ELSE finished

\* The read that OnPipeReady starts.  The kernel has a chunk, or the write end
\* is closed, or the read is left pending.
StartRead(p) ==
    CASE unread[p] # <<>> ->
            /\ overlapped' = [overlapped EXCEPT ![p] = "ok"]
            /\ inflight' = [inflight EXCEPT ![p] = <<Head(unread[p])>>]
            /\ unread' = [unread EXCEPT ![p] = Tail(unread[p])]
            /\ queue' = Append(Tail(queue), p)
            /\ UNCHANGED <<pipe, running, finished>>
      [] unread[p] = <<>> /\ ~writer[p] ->
            /\ PipeEnds(p)
            /\ overlapped' = [overlapped EXCEPT ![p] = "idle"]
            /\ inflight' = [inflight EXCEPT ![p] = <<>>]
            /\ queue' = Tail(queue)
            /\ UNCHANGED unread
      [] OTHER ->
            /\ overlapped' = [overlapped EXCEPT ![p] = "pending"]
            /\ inflight' = [inflight EXCEPT ![p] = <<>>]
            /\ queue' = Tail(queue)
            /\ UNCHANGED <<pipe, running, finished, unread>>

\* As DoWork, but what ReadFile returns at once is taken then as well.
DoWorkReadingTwice(p) ==
    /\ Working
    /\ queue # <<>> /\ Head(queue) = p
    /\ pipe[p] = "open"
    /\ overlapped[p] # "broken"
    /\ buf' = [buf EXCEPT ![p] = (IF isReading[p] THEN @ \o inflight[p] ELSE @)
                                 \o (IF unread[p] = <<>> THEN <<>> ELSE <<Head(unread[p])>>)]
    /\ isReading' = [isReading EXCEPT ![p] = TRUE]
    /\ StartRead(p)
    /\ UNCHANGED <<main, added, sets, port, handler, control, child, writer, written>>

\* As DoWork, but the connect's packet starts no read.
DoWorkWithoutRead(p) ==
    /\ Working
    /\ queue # <<>> /\ Head(queue) = p
    /\ pipe[p] = "open"
    /\ isReading' = [isReading EXCEPT ![p] = TRUE]
    /\ IF isReading[p]
       THEN buf' = [buf EXCEPT ![p] = @ \o inflight[p]] /\ StartRead(p)
       ELSE /\ queue' = Tail(queue)
            /\ UNCHANGED <<running, finished, pipe, buf, overlapped, inflight, unread>>
    /\ UNCHANGED <<main, added, sets, port, handler, control, child, writer, written>>

\* DoWork takes a packet and calls OnPipeReady.
DoWork(p) ==
    /\ Working
    /\ queue # <<>> /\ Head(queue) = p
    /\ pipe[p] = "open"
    /\ IF overlapped[p] = "broken"
       THEN /\ PipeEnds(p)
            /\ queue' = Tail(queue)
            /\ UNCHANGED <<buf, isReading, overlapped, inflight, unread>>
       ELSE /\ buf' = [buf EXCEPT ![p] =
                          IF isReading[p] THEN @ \o inflight[p] ELSE @]
            /\ isReading' = [isReading EXCEPT ![p] = TRUE]
            /\ StartRead(p)
    /\ UNCHANGED <<main, added, sets, port, handler, control, child, writer, written>>

\* OnPipeReady for a pipe that is closed: the connect has its result, and
\* ReadFile fails on the handle, which is Fatal.
DoWorkWithoutPipe(p) ==
    /\ Working
    /\ queue # <<>> /\ Head(queue) = p
    /\ Done(p)
    /\ main' = "fatal"
    /\ queue' = Tail(queue)
    /\ UNCHANGED <<added, running, finished, sets, pipes, port, handler, control, children>>

\* DoWork returns true, which the completer and the tests ignore.
DoWorkInterrupted ==
    /\ Working
    /\ queue # <<>> /\ Head(queue) = Null
    /\ queue' = Tail(queue)
    /\ UNCHANGED <<parent, pipes, port, handler, control, children>>

\* All are added and Done: the loop is left.
AllDone ==
    /\ main = "using"
    /\ ~Working
    /\ main' = "finishing"
    /\ UNCHANGED <<added, running, finished, sets, pipes, kernel, control, children>>

\* Finish of every subprocess, which waits for a child that was started.
Finish ==
    /\ main = "finishing"
    /\ \A p \in Procs : child[p] # "running"
    /\ main' = "destroying"
    /\ UNCHANGED <<added, running, finished, sets, pipes, kernel, control, children>>

RemoveHandlerForgotten ==
    /\ main = "destroying"
    /\ main' = "closing"
    /\ UNCHANGED <<added, running, finished, sets, pipes, kernel, control, children>>

\* ~SubprocessSet: Clear finds nothing running (EveryReadIsAnswered, since all
\* are Done), the handler is removed (Windows calls handlers under the lock that
\* this takes), and the port closed.
RemoveHandler ==
    /\ main = "destroying"
    /\ interrupt = "none"
    /\ handler' = FALSE
    /\ main' = "closing"
    /\ UNCHANGED <<added, running, finished, sets, pipes, port, queue, control, children>>

ClosePort ==
    /\ main = "closing"
    /\ port' = "closed"
    /\ queue' = <<>>
    /\ main' = "idle"
    /\ UNCHANGED <<added, running, finished, sets, pipes, handler, control, children>>

-----------------------------------------------------------------------------
(* Ctrl-C *)

\* Windows starts a thread for the handler.
CtrlC ==
    /\ handler /\ main # "fatal"
    /\ interrupt = "none"
    /\ interrupts < MaxInterrupts
    /\ interrupts' = interrupts + 1
    /\ interrupt' = "posting"
    /\ UNCHANGED <<parent, pipes, kernel, children>>

\* NotifyInterrupted.
NotifyInterrupted ==
    /\ interrupt = "posting" /\ main # "fatal"
    /\ interrupt' = "none"
    /\ IF port = "open"
       THEN queue' = Append(queue, Null) /\ UNCHANGED main
       ELSE main' = "fatal" /\ UNCHANGED queue
    /\ UNCHANGED <<added, running, finished, sets, pipes, port, handler, interrupts, children>>

-----------------------------------------------------------------------------
(* The children and the kernel *)

\* A pending read is completed: its packet is posted.
Completes(p, result, chunk) ==
    /\ overlapped' = [overlapped EXCEPT ![p] = result]
    /\ inflight' = [inflight EXCEPT ![p] = chunk]
    /\ queue' = Append(queue, p)

\* The child, or a process it started, writes.
Write(p) ==
    /\ writer[p] /\ main # "fatal"
    /\ written[p] < MaxChunks
    /\ written' = [written EXCEPT ![p] = @ + 1]
    /\ IF overlapped[p] = "pending"
       THEN Completes(p, "ok", <<written'[p]>>) /\ UNCHANGED unread
       ELSE /\ unread' = [unread EXCEPT ![p] = Append(@, written'[p])]
            /\ UNCHANGED <<overlapped, inflight, queue>>
    /\ UNCHANGED <<parent, pipe, buf, isReading, port, handler, control, child, writer>>

\* The last handle to the write end is closed: by the child, or by a process it
\* started, before or after the child exits.
CloseWriter(p) ==
    /\ writer[p] /\ main # "fatal"
    /\ writer' = [writer EXCEPT ![p] = FALSE]
    /\ IF overlapped[p] = "pending"
       THEN Completes(p, "broken", <<>>)
       ELSE UNCHANGED <<overlapped, inflight, queue>>
    /\ UNCHANGED <<parent, pipe, buf, isReading, port, handler, control, child, written, unread>>

Exit(p) ==
    /\ child[p] = "running" /\ main # "fatal"
    /\ child' = [child EXCEPT ![p] = "exited"]
    /\ UNCHANGED <<parent, pipes, kernel, control, writer, written, unread>>

-----------------------------------------------------------------------------

Main == \/ Construct \/ RegisterHandler
        \/ \E p \in Procs : \/ AddStarted(p) \/ AddMissing(p) \/ AddUnstartable(p)
                            \/ DoWork(p) \/ DoWorkWithoutPipe(p)
        \/ DoWorkInterrupted \/ AllDone \/ Finish \/ RemoveHandler \/ ClosePort

Next == \/ Main \/ CtrlC \/ NotifyInterrupted
        \/ \E p \in Procs : Write(p) \/ CloseWriter(p) \/ Exit(p)

Spec == Init /\ [][Next]_vars

\* The threads of the shell run, and a set is added to before it is worked on
\* forever.  That the children end and close their output is an assumption of
\* SetReturns.
EndingSpec ==
    /\ Spec
    /\ WF_vars(Main) /\ WF_vars(NotifyInterrupted)
    /\ \A p \in Procs : /\ WF_vars(AddStarted(p) \/ AddMissing(p) \/ AddUnstartable(p))
                         /\ WF_vars(CloseWriter(p))
                         /\ WF_vars(Exit(p))

-----------------------------------------------------------------------------
(* Properties *)

\* Nothing a child wrote is lost, doubled or out of order on its way through
\* the kernel, overlapped_buf_ and buf_, however reads, writes and the closing
\* of the pipe interleave; and when a subprocess is Done, GetOutput is all of it,
\* and nothing can be written any more.
Received(p) == IF overlapped[p] = "ok" /\ isReading[p] /\ pipe[p] = "open"
               THEN inflight[p] ELSE <<>>

NothingIsLost ==
    main # "fatal" =>
        \A p \in Procs : child[p] # "none" =>
            /\ buf[p] \o Received(p) \o unread[p] = UpTo(written[p])
            /\ Done(p) => buf[p] = UpTo(written[p]) /\ ~writer[p]

\* A subprocess that is not Done has a read that will wake DoWork up: either
\* one is pending in the kernel or its one packet is in the port.  And each is
\* in one of the two lists, once: in finished_ when it is Done.
Packets(p) == Cardinality({i \in DOMAIN queue : queue[i] = p})

EveryReadIsAnswered ==
    /\ main = "using" =>
           \A p \in ToSet(running) :
               \/ overlapped[p] = "pending" /\ Packets(p) = 0
               \/ overlapped[p] \in {"ok", "broken"} /\ Packets(p) = 1
    /\ \A p \in added :
           /\ Done(p) <=> p \in ToSet(finished)
           /\ ~Done(p) <=> p \in ToSet(running)
    /\ IsInjective(running \o finished)

\* Its program was found and could not be started (the Fatal of Start).
FailedToStart(p) == p \notin added /\ pipe[p] = "open"

\* Its program was not found, and DoWork has taken the packet of its connect.
TakenWithoutPipe(p) ==
    p \in added /\ pipe[p] = "null" /\ child[p] = "none" /\ p \notin ToSet(queue)

\* As long as Windows gives the pipes, handles and the port that are asked for,
\* only a program that could not be started ends the shell, or one that was not
\* found once its packet is taken.  Ctrl-C does not, whenever it is pressed: the
\* handler finds the port open; and no packet is for a pipe that DoWork has closed.
FatalOnlyOfStart ==
    main = "fatal" => /\ port = "open"
                      /\ \E p \in Procs : FailedToStart(p) \/ TakenWithoutPipe(p)

\* If the children end (EndingSpec), the completer returns, or the process has
\* failed (FatalOnlyOfStart), whenever Ctrl-C is pressed.
SetReturns == [](main = "using" => <>(main \in {"idle", "fatal"}))

-----------------------------------------------------------------------------
(* What the code's comments say and the code does not do *)

\* A file that is not found "is treated as a normal build action failure": only
\* other errors of CreateProcess end the shell.
MissingIsNormal == main = "fatal" => \E p \in Procs : FailedToStart(p)

=============================================================================
