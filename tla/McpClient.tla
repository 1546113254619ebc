----------------------------- MODULE McpClient ------------------------------
(***************************************************************************)
(* A client of an MCP server (src/mcp/): the calls of McpClient, the table *)
(* of JsonRpcClient, and the transport's own thread.  A server is a child  *)
(* process on pipes (StdioTransport, which differs between POSIX and       *)
(* Windows) or an HTTP endpoint (HttpTransport).                           *)
(*                                                                         *)
(* One thread calls, the transport's thread reads and dispatches, and a    *)
(* route that rebuilds the toolbox disconnects under a call in progress:   *)
(* nothing keeps the two apart.  The server is external and does what it   *)
(* likes: it reads its input or not, answers in any order, late, in pieces *)
(* or never, asks things of its own and dies.                              *)
(*                                                                         *)
(* Abstractions.  A message is its id and what it answers; `call` numbers  *)
(* the calls across connections, whose ids start over.  A line is sent     *)
(* whole, in two pieces, or cut off by the end of its stream.  Of the tool *)
(* list is kept whether it is cached.  Where a thread uses what another    *)
(* has freed or closed the model ends ("undefined"): the reader a Windows  *)
(* stop gave up on, a call that begins under a stop.  It ends as well      *)
(* where a signal ends the process ("killed").  The next connection is     *)
(* another client's and shares nothing with the one before it: it is begun *)
(* when the last call has returned.                                        *)
(***************************************************************************)
EXTENDS Integers, Sequences, FiniteSets

CONSTANTS
  Kind,      \* the transports: a subset of {"posix", "windows", "http"}
  MaxCalls,  \* bound: requests sent
  MaxOwn,    \* bound: messages the server sends of its own
  Server,    \* the author of a message that answers no call
  None       \* nothing

ASSUME McpAssumption ==
  /\ Kind \subseteq {"posix", "windows", "http"}
  /\ MaxCalls \in Nat /\ MaxOwn \in Nat
  /\ Server \notin Nat /\ None \notin Nat \cup {Server}
  /\ None \notin [id : Nat, by : Nat \cup {Server}, good : BOOLEAN]

VARIABLES
  kind,       \* which transport Connect chose
  pc,         \* where the caller is: idle, starting, writing, waiting, stopping, and its ends
  job,        \* the method it waits for
  connected,  \* Impl::connected
  cached,     \* whether cached_tools is not empty
  rpc,        \* whether Impl::transport and Impl::rpc exist
  stop,       \* where a Disconnect is: none, join, reap
  running,    \* the transport's running_
  reader,     \* its thread: none, idle, posting (HTTP), leaving (Windows), done
  leftover,   \* the pieces of a line that has not ended
  queue,      \* queue_: the lines HttpTransport has to post
  next_id,    \* JsonRpcClient::next_id_
  pending,    \* JsonRpcClient::pending_
  answer,     \* the future of the call in progress: None, or what the promise was given
  server,     \* the child, or the response to a POST: none, up, exited, reaped
  inbox,      \* requests the server has not answered
  pipe,       \* what the server wrote and the reader has not read
  made,       \* history: calls begun
  own,        \* messages the server sent of its own
  last,       \* history: the call that ended last and what ended it
  cut,        \* history: a POST failed in the middle of a line
  garbled     \* history: a line was put together from pieces of two

transport == <<running, reader, leftover, queue>>
table == <<next_id, pending, answer>>
remote == <<server, inbox, pipe, own>>
client == <<connected, cached, rpc, stop>>
history == <<made, last, cut, garbled>>
vars == <<kind, pc, job, client, transport, table, remote, history>>

Stdio == kind \in {"posix", "windows"}

\* A call is in progress; the process lives and uses nothing that was freed.
InCall == pc \in {"writing", "waiting"}
Alive == pc \notin {"killed", "undefined"}

-----------------------------------------------------------------------------
(* Lines and the table of promises.                                        *)

\* What a line says; `good` is FALSE for an error and for a reply without a result.
Message(id, by, good) == [id |-> id, by |-> by, good |-> good]

Piece(part, m) == [part |-> part, msg |-> m]

\* A line, two pieces of one, a line without its end, half a line.
Pieces(m) ==
  {<<Piece("line", m)>>, <<Piece("head", m), Piece("tail", m)>>, <<Piece("open", m)>>,
   <<Piece("head", m)>>}

Ends(piece) == piece.part \in {"line", "tail"}

\* boost::json::parse of the pieces put together: a message, or an exception that is logged.
Parse(s) ==
  IF \/ Len(s) = 1 /\ s[1].part \in {"line", "open"}
     \/ Len(s) = 2 /\ s[1].part = "head" /\ s[2].part = "tail" /\ s[1].msg = s[2].msg
    THEN s[1].msg ELSE None

\* Mutant: a reply is looked up by its place in the table, not by its id.
OnMessageAny(s, entry) == Parse(s) # None /\ pending # {}

\* The entry a line resolves: the one with its id, whatever else the line is.
OnMessage(s, entry) == Parse(s) # None /\ entry.id = Parse(s).id

\* OnMessage: the promise found is set and its entry erased; nobody reads the future of a
\* call that timed out.  Anything else changes nothing.
Dispatch(s) ==
  IF \E e \in pending : OnMessage(s, e)
    THEN LET e == CHOOSE e \in pending : OnMessage(s, e)
         IN  /\ pending' = pending \ {e}
             /\ answer' = IF e.call = made /\ InCall
                            THEN [by |-> Parse(s).by, good |-> Parse(s).good] ELSE answer
             /\ UNCHANGED next_id
    ELSE UNCHANGED table

\* Mutant: the pieces of a line stay behind when it has been dispatched.
ReadPieceKept(piece) ==
  LET s == Append(leftover, piece)
  IN  IF Ends(piece)
        THEN /\ Dispatch(s)
             /\ leftover' = IF Len(s) > 1 THEN s ELSE <<>>
             /\ garbled' = (garbled \/ (Len(s) > 1 /\ Parse(s) = None))
        ELSE /\ leftover' = s
             /\ UNCHANGED <<table, garbled>>

\* ReaderLoop and DispatchChunk: a chunk is added to what is left over, a line that has
\* ended is dispatched.
ReadPiece(piece) ==
  LET s == Append(leftover, piece)
  IN  IF Ends(piece)
        THEN /\ Dispatch(s)
             /\ leftover' = <<>>
             /\ garbled' = (garbled \/ (Len(s) > 1 /\ Parse(s) = None))
        ELSE /\ leftover' = s
             /\ UNCHANGED <<table, garbled>>

\* The end of the stream: HTTP and Windows dispatch what is left over.
Flush ==
  /\ IF leftover # <<>> THEN Dispatch(leftover) ELSE UNCHANGED table
  /\ leftover' = <<>>
  /\ garbled' = (garbled \/ Len(leftover) > 1)

-----------------------------------------------------------------------------
(* The caller.                                                             *)

\* How a call ends for its caller.
Ended(by) == last' = [call |-> made, by |-> by]

\* WriteLine: a write to the pipe of a child that has gone raises SIGPIPE, which nothing in
\* the program handles; on Windows it fails, and so does one to a pipe a stop has closed.
Dies == kind = "posix" /\ server # "up" /\ stop = "none"
WriteFails == Stdio /\ ~Dies /\ (server # "up" \/ stop # "none")

\* WriteLine of the HTTP transport: the line waits for the worker.
Enqueue(line) == queue' = IF Stdio THEN queue ELSE Append(queue, line)

\* WriteLine of a child's pipe.
ToChild(request) == inbox' = IF Stdio THEN inbox \cup {request} ELSE inbox

\* next_id_++
TakenId(id) == id = next_id /\ next_id' = next_id + 1

\* The promise is in the table and the line is written, or the write waits for a child that
\* has not read what was written before: nothing bounds that wait.  The first line of a
\* connection always fits its pipe.
Write(method, request) ==
  /\ job' = method /\ answer' = None
  /\ pending' = pending \cup {request}
  /\ \/ /\ pc' = "waiting"
        /\ ToChild(request)
        /\ Enqueue(request)
     \/ /\ Stdio /\ method # "initialize"
        /\ pc' = "writing"
        /\ UNCHANGED <<inbox, queue>>

\* JsonRpcClient::SendRequest: the promise is in the table before the line is written.  A
\* write that fails takes it out again.
SendRequest(method) ==
  /\ made < MaxCalls
  /\ made' = made + 1
  /\ \E id \in 1..(MaxCalls + 1) :
      /\ TakenId(id)
      /\ \/ /\ Dies \/ stop # "none"
            /\ pc' = IF Dies THEN "killed" ELSE "undefined"
            /\ UNCHANGED <<queue, inbox, pending, job, answer>>
         \/ /\ WriteFails
            /\ pc' = "waiting" /\ job' = method /\ answer' = [by |-> None, good |-> FALSE]
            /\ UNCHANGED <<queue, inbox, pending>>
         \/ ~Dies /\ ~WriteFails /\ Write(method, [id |-> id, call |-> made + 1])
  /\ UNCHANGED <<last, cut, garbled>>

\* The request whose write waits.
Unwritten == [id |-> next_id - 1, call |-> made]

\* The child has read enough: write returns.
Written ==
  /\ pc = "writing" /\ server = "up"
  /\ pc' = "waiting"
  /\ ToChild(Unwritten)
  /\ UNCHANGED <<kind, job, client, transport, table, server, pipe, own, history>>

\* The child is gone, so the write ends; a promise still in the table is given an exception.
WriteBroken ==
  /\ pc = "writing" /\ server # "up"
  /\ \/ /\ kind = "posix"
        /\ pc' = "killed"
        /\ UNCHANGED <<pending, answer>>
     \/ /\ kind = "windows"
        /\ pc' = "waiting"
        /\ pending' = pending \ {Unwritten}
        /\ answer' = IF Unwritten \in pending THEN [by |-> None, good |-> FALSE] ELSE answer
  /\ UNCHANGED <<kind, job, client, transport, next_id, remote, history>>

\* A child on two pipes: a fork, or CreateProcess.  One that cannot be started has no effect.
SpawnProcess == server' = "up"

CreateChild == server' = "up"

\* The transport's thread runs.
StartReader == running' = TRUE /\ reader' = "idle" /\ leftover' = <<>>

\* Start of a transport: the child first, if it has one.
Start(k) ==
  /\ CASE k = "http" -> server' = "none"
       [] k = "posix" -> SpawnProcess
       [] k = "windows" -> CreateChild
  /\ StartReader

\* Connect: a new transport with its thread, and a new table.
Connect(k) ==
  /\ pc = "idle" /\ ~rpc
  /\ made < MaxCalls
  /\ kind' = k
  /\ rpc' = TRUE /\ cached' = FALSE
  /\ Start(k)
  /\ pc' = "starting"
  /\ UNCHANGED <<job, connected, stop, queue, table, inbox, pipe, own, history>>

\* Handshake's request.  The child may be gone already: its program was not found.
Handshake ==
  /\ pc = "starting"
  /\ SendRequest("initialize")
  /\ UNCHANGED <<kind, client, running, reader, leftover, server, pipe, own>>

ListTools ==
  /\ pc = "idle" /\ connected /\ ~cached
  /\ SendRequest("list")
  /\ UNCHANGED <<kind, client, running, reader, leftover, server, pipe, own>>

CallTool ==
  /\ pc = "idle" /\ connected
  /\ SendRequest("call")
  /\ UNCHANGED <<kind, client, running, reader, leftover, server, pipe, own>>

\* Stop: the flag first, then the end of the child's input.
BeginStop == stop' = "join" /\ running' = FALSE

\* The line that ends a handshake; nobody waits for an answer to it.
Notice == [id |-> 0, call |-> 0]

\* The rest of it: a result is followed by the notification; anything else disconnects.
Handshaken(good) ==
  \/ /\ good /\ Dies
     /\ pc' = "killed"
     /\ UNCHANGED <<connected, stop, running, queue>>
  \/ /\ good /\ ~Dies
     /\ pc' = "idle" /\ connected' = TRUE
     /\ Enqueue(Notice)
     /\ UNCHANGED <<stop, running>>
  \/ ~good /\ pc' = "stopping" /\ BeginStop /\ UNCHANGED <<connected, queue>>

\* The method's own part of a return.
Finished(good) ==
  \/ /\ job = "initialize"
     /\ Handshaken(good)
     /\ UNCHANGED cached
  \/ /\ job = "list"
     /\ cached' \in {good, FALSE} /\ pc' = "idle"
     /\ UNCHANGED <<connected, stop, running, queue>>
  \/ /\ job = "call"
     /\ pc' = "idle"
     /\ UNCHANGED <<connected, cached, stop, running, queue>>

\* McpClient::SendRequest: the future became ready.
Return ==
  /\ pc = "waiting" /\ answer # None
  /\ Ended(answer.by)
  /\ Finished(answer.good)
  /\ answer' = None
  /\ UNCHANGED <<kind, job, rpc, reader, leftover, next_id, pending, remote, made, cut, garbled>>

\* Mutant: the wait ends early only when the reader has seen the end of the stream.
TimeoutWhenGone ==
  /\ reader = "done"
  /\ pc = "waiting" /\ answer = None
  /\ Ended(None)
  /\ Finished(FALSE)
  /\ UNCHANGED <<kind, job, rpc, reader, leftover, table, remote, made, cut, garbled>>

\* McpClient::SendRequest: five seconds passed.  The promise stays in the table.
Timeout ==
  /\ pc = "waiting" /\ answer = None
  /\ Ended(None)
  /\ Finished(FALSE)
  /\ UNCHANGED <<kind, job, rpc, reader, leftover, table, remote, made, cut, garbled>>

\* DisconnectMcpServers: the end of the program, or a toolbox that a route rebuilds, whatever
\* the caller is doing with the client meanwhile.
Disconnect ==
  /\ connected /\ stop = "none" /\ Alive
  /\ BeginStop
  /\ UNCHANGED <<kind, pc, job, connected, cached, rpc, reader, leftover, queue, table, remote,
                 history>>

\* What is left of a client when Disconnect returns: transport, table and caches are gone.
\* The promise of a call that waits is broken; one that still writes uses what is freed,
\* unless the end of its child has raised the signal.
Gone ==
  /\ rpc' = FALSE /\ connected' = FALSE /\ cached' = FALSE /\ stop' = "none"
  /\ leftover' = <<>> /\ queue' = <<>> /\ pending' = {} /\ next_id' = 1
  /\ inbox' = {} /\ pipe' = <<>>
  /\ reader' = "none"
  /\ answer' = IF pc = "waiting" /\ \E e \in pending : e.call = made
                 THEN [by |-> None, good |-> FALSE] ELSE answer
  /\ pc' = CASE pc = "stopping" -> "idle"
             [] pc = "writing" -> IF kind = "posix" THEN "killed" ELSE "undefined"
             [] OTHER -> pc

\* The transport's thread is joined; on Windows it is waited for, three seconds at most,
\* and what it reads from is freed either way.
Join ==
  /\ stop = "join" /\ Alive
  /\ \/ /\ reader = "done" /\ Stdio
        /\ stop' = "reap"
        /\ UNCHANGED <<pc, connected, cached, rpc, transport, table, inbox, pipe>>
     \/ /\ reader = "done" /\ ~Stdio
        /\ Gone
        /\ UNCHANGED running
     \/ /\ reader # "done" /\ kind = "windows"
        /\ pc' = "undefined"
        /\ UNCHANGED <<client, transport, table, inbox, pipe>>
  /\ UNCHANGED <<kind, job, server, own, history>>

\* The child is waited for, a bounded time, then killed and waited for.
Reap ==
  /\ stop = "reap" /\ Alive
  /\ server' = "reaped"
  /\ Gone
  /\ UNCHANGED <<kind, job, running, own, history>>

-----------------------------------------------------------------------------
(* The transport's thread.                                                 *)

\* ReaderLoop, where POSIX looks at the flag before each poll and Windows after each read
\* only; DispatchChunk.
Read ==
  /\ reader = (IF Stdio THEN "idle" ELSE "posting") /\ pipe # <<>>
  /\ kind = "posix" => running
  /\ ReadPiece(Head(pipe))
  /\ pipe' = Tail(pipe)
  /\ reader' = IF kind = "windows" /\ ~running THEN "leaving" ELSE reader
  /\ UNCHANGED <<kind, pc, job, client, running, queue, server, inbox, own, made, last, cut>>

\* Mutant: the reader blocks in read() and does not look at the flag before it returns.
SeeStopBlocked ==
  /\ pipe # <<>>
  /\ kind = "posix" /\ reader = "idle" /\ ~running
  /\ reader' = "done"
  /\ UNCHANGED <<kind, pc, job, client, running, leftover, queue, table, remote, history>>

\* The flag was lowered.
SeeStop ==
  /\ kind = "posix" /\ reader = "idle" /\ ~running
  /\ reader' = "done"
  /\ UNCHANGED <<kind, pc, job, client, running, leftover, queue, table, remote, history>>

\* Windows looks at it between two reads: a ReadFile that waits may never return.
Leave ==
  /\ kind = "windows" /\ reader \in {"idle", "leaving"} /\ ~running
  /\ reader' = "done"
  /\ Flush
  /\ UNCHANGED <<kind, pc, job, client, running, queue, remote, made, last, cut>>

\* The child closed its end.
SeeEnd ==
  /\ Stdio /\ reader = "idle" /\ pipe = <<>> /\ server # "up"
  /\ reader' = "done" /\ running' = FALSE
  /\ IF kind = "windows" THEN Flush ELSE UNCHANGED <<table, leftover, garbled>>
  /\ UNCHANGED <<kind, pc, job, client, queue, remote, made, last, cut>>

\* WorkerLoop takes the next line, or leaves.
Take ==
  /\ kind = "http" /\ reader = "idle"
  /\ running => queue # <<>>
  /\ reader' = IF running THEN "posting" ELSE "done"
  /\ server' = IF running THEN "up" ELSE "none"
  /\ inbox' = IF running THEN {Head(queue)} \ {Notice} ELSE {}
  /\ queue' = IF running THEN Tail(queue) ELSE queue
  /\ UNCHANGED <<kind, pc, job, client, running, leftover, table, pipe, own, history>>

\* PostStream returns and what is left over is a line, or it throws and what is left over
\* stays.  Nothing looks at the stop flag while a body is read.
EndPost(thrown) ==
  /\ reader = "posting"
  /\ ~thrown => pipe = <<>>
  /\ IF thrown THEN UNCHANGED <<table, leftover, garbled>> /\ cut' = (cut \/ leftover # <<>>)
               ELSE Flush /\ UNCHANGED cut
  /\ reader' = "idle"
  /\ server' = "none" /\ inbox' = {} /\ pipe' = <<>>
  /\ UNCHANGED <<kind, pc, job, client, running, queue, own, made, last>>

-----------------------------------------------------------------------------
(* The child process, or what answers a POST: external.                    *)

\* It answers a request, or stops in the middle of the answer.
Answer(r, good) ==
  /\ server = "up" /\ r \in inbox
  /\ inbox' = inbox \ {r}
  /\ \E s \in Pieces(Message(r.id, r.call, good)) :
       /\ pipe' = pipe \o s
       /\ server' = IF Ends(s[Len(s)]) THEN server ELSE "exited"
  /\ UNCHANGED <<kind, pc, job, client, transport, table, own, history>>

\* It asks something itself, under a number of its own.
Ask(id) ==
  /\ server = "up" /\ own < MaxOwn
  /\ own' = own + 1
  /\ pipe' = Append(pipe, Piece("line", Message(id, Server, FALSE)))
  /\ UNCHANGED <<kind, pc, job, client, transport, table, server, inbox, history>>

Exit ==
  /\ Stdio /\ server = "up"
  /\ server' = "exited"
  /\ UNCHANGED <<kind, pc, job, client, transport, table, inbox, pipe, own, history>>

-----------------------------------------------------------------------------
Init ==
  /\ kind \in Kind
  /\ pc = "idle" /\ job = "initialize"
  /\ connected = FALSE /\ cached = FALSE /\ rpc = FALSE /\ stop = "none"
  /\ running = FALSE /\ reader = "none" /\ leftover = <<>> /\ queue = <<>>
  /\ next_id = 1 /\ pending = {} /\ answer = None
  /\ server = "none" /\ inbox = {} /\ pipe = <<>> /\ own = 0
  /\ made = 0 /\ last = [call |-> 0, by |-> None] /\ cut = FALSE /\ garbled = FALSE

Caller ==
  \/ \E k \in Kind : Connect(k)
  \/ Handshake \/ ListTools \/ CallTool \/ Written \/ WriteBroken \/ Return \/ Timeout
  \/ Disconnect \/ Join \/ Reap

Reader ==
  \/ Read \/ SeeStop \/ Leave \/ SeeEnd \/ Take
  \/ \E thrown \in BOOLEAN : EndPost(thrown)

Remote ==
  \/ \E r \in inbox, good \in BOOLEAN : Answer(r, good)
  \/ \E id \in 1..MaxCalls : Ask(id)
  \/ Exit

Next == Caller \/ Reader \/ Remote

\* The caller's wait is bounded by a clock, the reader's by a poll, a POST by the idle deadline
\* of the HTTP client, and a write ends with its child.  Nothing is assumed of the server, so
\* nothing of Written.
Fairness ==
  /\ WF_vars(Return) /\ WF_vars(Timeout) /\ WF_vars(WriteBroken)
  /\ WF_vars(Join) /\ WF_vars(Reap)
  /\ WF_vars(SeeStop) /\ WF_vars(SeeEnd) /\ WF_vars(Take)
  /\ WF_vars(\E thrown \in BOOLEAN : EndPost(thrown))

Spec == Init /\ [][Next]_vars /\ Fairness

-----------------------------------------------------------------------------
\* What the caller is promised (RemoteCall): a call ends once, and no reply to an earlier
\* call, timed out or made over a connection whose numbers started over, is taken for its
\* own (SendRequest, OnMessage, Disconnect).
Promise ==
  INSTANCE RemoteCall WITH
    calling <- IF InCall \/ (~Alive /\ last.call # made) THEN made ELSE 0

KeepsPromise == Promise!Spec

\* Only behind a POST that failed in the middle of a line are two lines taken for one:
\* chunks that end anywhere are put together as they were sent (ReaderLoop, DispatchChunk).
LinesWhole == garbled => cut

\* A call returns although its server is silent, dies or is disconnected under it, or ends
\* with the process, unless its write waits for ever for a server that lives and does not
\* read: future.wait_for begins only when WriteLine has returned (SendRequest, Disconnect).
CallEnds == <>[](pc = "writing" /\ server = "up") \/ (InCall ~> ~InCall)

\* A stop ends, although the reader may be waiting for a server that never speaks (the poll
\* of ReaderLoop, the idle deadline of PostStream, the bounded waits of Stop).
DisconnectEnds == stop # "none" ~> stop = "none" \/ ~Alive
=============================================================================
