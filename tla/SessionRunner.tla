--------------------------- MODULE SessionRunner ---------------------------
(***************************************************************************)
(* The turn runner of `pu serve` (src/app/serve_runner.cpp), the sockets   *)
(* of the pages it answers (src/app/serve_websocket.cpp), the peers'       *)
(* messages it queues (HandlePeerMessage) and its stop (RunServe).         *)
(*                                                                         *)
(* Three threads meet here: the one thread that runs every handler of      *)
(* every socket, the worker that runs one turn after another, and the main *)
(* thread, which on a shutdown stops the first and then the second.  A     *)
(* handler is one action unless the worker can come between its parts; the *)
(* worker is cut wherever it lets go of a lock or reads an atomic.         *)
(*                                                                         *)
(* Abstractions.  A frame is an error or a done, with which a turn ends    *)
(* (last), or another one (word); the frames of a turn are known by their  *)
(* place in its record.  A socket's write queue never reorders, so a       *)
(* posted frame is a received one.  The name of a tab is forgotten with    *)
(* its socket, and the result of a turn with the turn.  What a turn does   *)
(* besides frames is the module Turn.  Of the board, only the state of a   *)
(* job addressed to this server is kept; the module Board is the board.    *)
(***************************************************************************)
EXTENDS Integers, Sequences, FiniteSets

CONSTANTS
  Conn,        \* sockets, each opened once
  Client,      \* names a tab gives itself
  JobId,       \* board jobs addressed to this server
  None,        \* an empty pointer or string
  kTurnsKept,  \* records kept
  MaxInputs,   \* bound: messages queued by pages and peers
  MaxFrames    \* bound: frames one turn streams before it ends

ASSUME RunnerAssumption ==
  /\ kTurnsKept \in Nat \ {0}
  /\ MaxInputs \in Nat /\ MaxFrames \in Nat
  /\ None \notin Conn \cup Client \cup JobId /\ None \notin Nat \X Nat

VARIABLES
  sock,       \* new, open, closing (its Finish is posted) or closed_
  client,     \* client_id_ of each socket
  page,       \* attached_ of each socket: it is the page
  attached,   \* attached_ of the runner
  handing,    \* the socket an Attach still has to hand frames to, and the frames
  got,        \* the frames each open socket was sent, as <<turn, place>>
  queue,      \* jobs_
  pc,         \* where the worker is
  job,        \* the job the worker took last
  turns,      \* turns_: the records, newest last
  unsent,     \* a frame that is in the record and not yet sent on
  token,      \* cancel_token_: none, clear or set
  requested,  \* cancel_requested_
  page_asked, \* what RunJob read of it, and
  cancelled,  \* of the token
  error,      \* result.has_error
  answered,   \* approval_answered_
  board,      \* the state of the board jobs
  stopping,   \* stopping_: no, jobs (jobs_ is cleared) or turn (its token too is stored to)
  inputs,     \* messages queued so far, which also numbers the turns
  askers,     \* history: the sockets whose cancel found the turn's token
  late        \* history: the first of them came when RunJob had read cancel_requested_

frames == <<turns, unsent, got>>
pages == <<sock, client, page, attached, handing>>
ending == <<page_asked, cancelled, error>>
asked == <<askers, late>>
vars == <<sock, client, page, attached, handing, got, queue, pc, job, turns, unsent, token,
          requested, page_asked, cancelled, error, answered, board, stopping, inputs,
          askers, late>>

-----------------------------------------------------------------------------
NoJob == [turn |-> 0, conn |-> None, board_job |-> None]

NotHanding == [conn |-> None, frames |-> {}]

\* The handlers' thread is free: not inside an Attach, and not stopped.
IoFree == handing = NotHanding /\ stopping = "no"

\* The places of the frames of a record.
Places(record) == {<<record.id, i>> : i \in DOMAIN record.frames}

Init ==
  /\ sock = [s \in Conn |-> "new"]
  /\ client = [s \in Conn |-> None]
  /\ page = [s \in Conn |-> FALSE]
  /\ attached = None /\ handing = NotHanding
  /\ got = [s \in Conn |-> {}]
  /\ queue = <<>> /\ pc = "wait" /\ job = NoJob
  /\ turns = <<>> /\ unsent = None
  /\ token = "none" /\ requested = FALSE
  /\ page_asked = FALSE /\ cancelled = FALSE /\ error = FALSE
  /\ answered = FALSE
  /\ board = [j \in JobId |-> "absent"]
  /\ stopping = "no" /\ inputs = 0
  /\ askers = {} /\ late = FALSE

-----------------------------------------------------------------------------
(* The sockets.                                                            *)

\* FramesForNextPage: the last two records.
FramesForNextPage ==
  UNION {Places(turns[i]) : i \in {k \in DOMAIN turns : k > Len(turns) - 2}}

\* Attach refuses a second page while the first is there; a socket of the same tab is not one.
Held(c) ==
  /\ attached # None /\ page[attached] /\ sock[attached] # "closed"
  /\ c = None \/ c # client[attached]

\* Mutant: the socket that loses the session is not told.
DetachNobody == page

\* DetachFromPage on the socket that was attached.
DetachCurrent == [k \in Conn |-> page[k] /\ k # attached]

\* Start, up to the lock Attach lets go of: a refused socket is told `busy` and closed; the
\* one it replaces is detached, and closed by a handler of its own later.
Open(s, c) ==
  /\ IoFree /\ sock[s] = "new"
  /\ IF Held(c)
       THEN /\ sock' = [sock EXCEPT ![s] = "closed"]
            /\ UNCHANGED <<client, page, attached, handing>>
       ELSE /\ sock' = [k \in Conn |-> CASE k = s -> "open"
                                         [] k = attached /\ page[k] -> "closing"
                                         [] OTHER -> sock[k]]
            /\ page' = DetachCurrent
            /\ attached' = s
            /\ client' = [client EXCEPT ![s] = c]
            /\ handing' = [conn |-> s, frames |-> FramesForNextPage]
  /\ UNCHANGED <<frames, queue, pc, job, token, requested, ending, answered, board, stopping,
                 inputs, asked>>

\* The rest of Start: the frames are sent and the socket is the page.
HandOver ==
  /\ handing # NotHanding
  /\ got' = [got EXCEPT ![handing.conn] = @ \cup handing.frames]
  /\ page' = [page EXCEPT ![handing.conn] = TRUE]
  /\ handing' = NotHanding
  /\ UNCHANGED <<sock, client, attached, queue, pc, job, turns, unsent, token, requested, ending,
                 answered, board, stopping, inputs, asked>>

\* RequestCancel: nothing without a turn; only a page's own request is remembered as one.
RequestCancel(by_page) ==
  /\ token' = IF token = "none" THEN token ELSE "set"
  /\ requested' = (requested \/ (by_page /\ token # "none"))

\* Mutant: a replaced socket that closes cancels the turn like one that left.
FinishCancels(s) ==
  /\ IoFree /\ sock[s] \in {"open", "closing"}
  /\ sock' = [sock EXCEPT ![s] = "closed"]
  /\ page' = [page EXCEPT ![s] = FALSE]
  /\ client' = [client EXCEPT ![s] = None]
  /\ got' = [got EXCEPT ![s] = {}]
  /\ attached' = IF attached = s THEN None ELSE attached
  /\ RequestCancel(FALSE)
  /\ UNCHANGED <<handing, turns, unsent, queue, pc, job, ending, answered, board, stopping,
                 inputs, asked>>

\* A socket that goes while it is the attached one leaves nobody, and the turn is cancelled.
Detach(s) ==
  IF attached = s
    THEN attached' = None /\ RequestCancel(FALSE)
    ELSE UNCHANGED <<attached, token, requested>>

\* WebSocketConnection::Finish
Finish(s) ==
  /\ IoFree /\ sock[s] \in {"open", "closing"}
  /\ sock' = [sock EXCEPT ![s] = "closed"]
  /\ page' = [page EXCEPT ![s] = FALSE]
  /\ client' = [client EXCEPT ![s] = None]
  /\ got' = [got EXCEPT ![s] = {}]
  /\ Detach(s)
  /\ UNCHANGED <<handing, turns, unsent, queue, pc, job, ending, answered, board, stopping,
                 inputs, asked>>

Readable(s) == IoFree /\ sock[s] \in {"open", "closing"}

\* A `run` frame.
Submit(s) ==
  /\ Readable(s) /\ inputs < MaxInputs
  /\ inputs' = inputs + 1
  /\ queue' = Append(queue, [turn |-> inputs + 1, conn |-> s, board_job |-> None])
  /\ UNCHANGED <<pages, frames, pc, job, token, requested, ending, answered, board, stopping,
                 asked>>

\* A `cancel` frame.
CancelTurn(s) ==
  /\ Readable(s)
  /\ RequestCancel(TRUE)
  /\ askers' = IF token = "none" THEN askers ELSE askers \cup {s}
  /\ late' = (late \/ (pc = "taken" /\ askers = {}))
  /\ UNCHANGED <<pages, frames, queue, pc, job, ending, answered, board, stopping, inputs>>

\* A `resolve_approval` frame.
ResolveApproval(s) ==
  /\ Readable(s) /\ ~answered
  /\ answered' = TRUE
  /\ UNCHANGED <<pages, frames, queue, pc, job, token, requested, ending, board, stopping,
                 inputs, asked>>

-----------------------------------------------------------------------------
(* The peers and the board.                                                *)

\* A peer posts a job for this server.
PostJob(j) ==
  /\ IoFree /\ board[j] = "absent"
  /\ board' = [board EXCEPT ![j] = "open"]
  /\ UNCHANGED <<pages, frames, queue, pc, job, token, requested, ending, answered, stopping,
                 inputs, asked>>

\* A person drops it.
DropJob(j) ==
  /\ IoFree /\ board[j] \in {"open", "claimed"}
  /\ board' = [board EXCEPT ![j] = "cancelled"]
  /\ UNCHANGED <<pages, frames, queue, pc, job, token, requested, ending, answered, stopping,
                 inputs, asked>>

\* A turn nobody's page asked for.
SubmitFromPeer(j) ==
  queue' = Append(queue, [turn |-> inputs + 1, conn |-> None, board_job |-> j])

\* HandlePeerMessage: the job the message names is claimed, again if need be, and the turn
\* queued.  A message that names a closed or unknown job is refused.
PeerMessage(j) ==
  /\ IoFree /\ inputs < MaxInputs
  /\ j # None => board[j] \in {"open", "claimed"}
  /\ board' = [k \in JobId |-> IF k = j THEN "claimed" ELSE board[k]]
  /\ inputs' = inputs + 1
  /\ SubmitFromPeer(j)
  /\ UNCHANGED <<pages, frames, pc, job, token, requested, ending, answered, stopping, asked>>

-----------------------------------------------------------------------------
(* The worker.                                                             *)

\* AppendFrame up to the lock on the attached socket: the frame is in the newest record.
Push(frame) ==
  /\ turns' = [turns EXCEPT ![Len(turns)].frames = Append(@, frame)]
  /\ unsent' = <<turns[Len(turns)].id, Len(turns[Len(turns)].frames) + 1>>

\* Mutant: the attached socket is looked up before the frame is in the record, and an
\* attachment in between misses it.
DeliverToPage ==
  /\ unsent # None
  /\ got' = [s \in Conn |-> IF s = attached /\ page[s] /\ sock[s] # "closed"
                              THEN got[s] \cup {unsent} ELSE got[s]]
  /\ unsent' = None
  /\ UNCHANGED <<pages, queue, pc, job, turns, token, requested, ending, answered, board,
                 stopping, inputs, asked>>

\* The rest of AppendFrame: the socket attached now is sent it.
Deliver ==
  /\ unsent # None
  /\ got' = [s \in Conn |-> IF s = attached /\ sock[s] # "closed" THEN got[s] \cup {unsent}
                            ELSE got[s]]
  /\ unsent' = None
  /\ UNCHANGED <<pages, queue, pc, job, turns, token, requested, ending, answered, board,
                 stopping, inputs, asked>>

\* Mutant: no record is ever dropped.
NewRecordKeepsAll(id) == Append(turns, [id |-> id, frames |-> <<>>, finished |-> FALSE])

\* A new record, of which the newest kTurnsKept stay.
NewRecord(id) ==
  LET longer == Append(turns, [id |-> id, frames |-> <<>>, finished |-> FALSE])
  IN  IF Len(longer) > kTurnsKept THEN Tail(longer) ELSE longer

\* Mutant: the worker waits for a job and does not look whether it should stop.
WakesForJob == queue # <<>>

\* Mutant: the worker waits for a page that will read the turn.
WakesForPage == stopping # "no" \/ (queue # <<>> /\ attached # None)

\* What the worker waits for.
Wakes == stopping # "no" \/ queue # <<>>

\* WorkerMain takes a job, and RunJob opens its record.
Pop ==
  /\ pc = "wait" /\ Wakes /\ queue # <<>>
  /\ job' = Head(queue)
  /\ queue' = Tail(queue)
  /\ turns' = NewRecord(Head(queue).turn)
  /\ page_asked' = FALSE /\ cancelled' = FALSE /\ error' = FALSE
  /\ askers' = {} /\ late' = FALSE
  /\ pc' = "popped"
  /\ UNCHANGED <<pages, got, unsent, token, requested, answered, board, stopping, inputs>>

\* Mutant: a request left over from the turn before is kept.
BeginStale ==
  /\ pc = "popped"
  /\ token' = "clear"
  /\ UNCHANGED requested
  /\ pc' = "turn"
  /\ UNCHANGED <<pages, frames, queue, job, ending, answered, board, stopping, inputs, asked>>

\* The token of the turn.  Until here a cancel finds no turn to cancel.
Begin ==
  /\ pc = "popped"
  /\ token' = "clear"
  /\ requested' = FALSE
  /\ pc' = "turn"
  /\ UNCHANGED <<pages, frames, queue, job, ending, answered, board, stopping, inputs, asked>>

\* ProcessInput streams a frame: a chunk, a thought, the start or the end of a call.
SayChunk ==
  /\ pc = "turn" /\ unsent = None
  /\ Len(turns[Len(turns)].frames) < MaxFrames
  /\ Push("word")
  /\ UNCHANGED <<pages, got, queue, pc, job, token, requested, ending, answered, board, stopping,
                 inputs, asked>>

\* A command needs an approval: the page is asked, and the worker waits.
AskApproval ==
  /\ pc = "turn" /\ unsent = None
  /\ Len(turns[Len(turns)].frames) < MaxFrames
  /\ answered' = FALSE
  /\ Push("word")
  /\ pc' = "asking"
  /\ UNCHANGED <<pages, got, queue, job, token, requested, ending, board, stopping, inputs,
                 asked>>

\* The wait ends on an answer and on nothing else.
Approved ==
  /\ pc = "asking" /\ unsent = None /\ answered
  /\ pc' = "turn"
  /\ UNCHANGED <<pages, frames, queue, job, token, requested, ending, answered, board, stopping,
                 inputs, asked>>

\* ProcessInput returns.
EndTurn(failed) ==
  /\ pc = "turn" /\ unsent = None
  /\ error' = failed
  /\ pc' = "ended"
  /\ UNCHANGED <<pages, frames, queue, job, token, requested, page_asked, cancelled, answered,
                 board, stopping, inputs, asked>>

\* cancel_requested_.exchange(false)
TakeRequest ==
  /\ pc = "ended"
  /\ page_asked' = requested
  /\ requested' = FALSE
  /\ pc' = "taken"
  /\ UNCHANGED <<pages, frames, queue, job, token, cancelled, error, answered, board, stopping,
                 inputs, asked>>

\* cancel_token_.reset(); the turn's own copy keeps what was stored in it.
DropToken ==
  /\ pc = "taken"
  /\ cancelled' = (token = "set")
  /\ token' = "none"
  /\ pc' = "settle"
  /\ UNCHANGED <<pages, frames, queue, job, requested, page_asked, error, answered, board,
                 stopping, inputs, asked>>

\* FinishTurn
FinishTurn == turns' = [turns EXCEPT ![Len(turns)].finished = TRUE]

\* Mutant: a cancelled turn is silent unless a page asked, wherever that page is now, and
\* a page's own cancel is silent too.
SilentAlways == cancelled

\* A cancelled turn says nothing more unless the page that started it asked and is still there.
Silent == cancelled /\ ~(page_asked /\ job.conn # None /\ page[job.conn])

EndSilently ==
  /\ pc = "settle" /\ Silent
  /\ FinishTurn
  /\ error' = FALSE
  /\ pc' = "wait"
  /\ UNCHANGED <<pages, got, unsent, queue, job, token, requested, page_asked, cancelled,
                 answered, board, stopping, inputs, asked>>

\* A notice, or what the turn cost.
SayUsage ==
  /\ pc = "settle" /\ ~Silent
  /\ Push("word")
  /\ pc' = "ending"
  /\ UNCHANGED <<pages, got, queue, job, token, requested, ending, answered, board, stopping,
                 inputs, asked>>

\* The last word: an error, or done.
SayLast ==
  /\ \/ pc = "settle" /\ ~Silent
     \/ pc = "ending" /\ unsent = None
  /\ Push("last")
  /\ pc' = "said"
  /\ UNCHANGED <<pages, got, queue, job, token, requested, ending, answered, board, stopping,
                 inputs, asked>>

\* Board::Update takes a move of any job that is not closed; without a job there is none to move.
Closable == \A j \in JobId : j = job.board_job => board[j] \in {"open", "claimed"}

\* Mutant: the job is closed only when the turn succeeded.
CloseBoardJobDone ==
  /\ pc = "said" /\ unsent = None /\ Closable
  /\ board' = [j \in JobId |-> IF j = job.board_job /\ ~error THEN "done" ELSE board[j]]
  /\ FinishTurn
  /\ error' = FALSE
  /\ pc' = "wait"
  /\ UNCHANGED <<pages, got, unsent, queue, job, token, requested, page_asked, cancelled,
                 answered, stopping, inputs, asked>>

\* CloseBoardJob, and the end of RunJob.
CloseBoardJob ==
  /\ pc = "said" /\ unsent = None /\ Closable
  /\ board' = [j \in JobId |-> IF j # job.board_job THEN board[j]
                              ELSE IF error THEN "failed" ELSE "done"]
  /\ FinishTurn
  /\ error' = FALSE
  /\ pc' = "wait"
  /\ UNCHANGED <<pages, got, unsent, queue, job, token, requested, page_asked, cancelled,
                 answered, stopping, inputs, asked>>

\* A job that was closed meanwhile makes Board::Update throw, and RunJob with it.
CloseRefused ==
  /\ pc = "said" /\ unsent = None /\ ~Closable
  /\ pc' = "report"
  /\ UNCHANGED <<pages, frames, queue, job, token, requested, ending, answered, board, stopping,
                 inputs, asked>>

\* ReportFailedTurn: an error and a done, and the job is tried once more, as before in vain.
ReportError ==
  /\ pc = "report" /\ unsent = None
  /\ Push("last")
  /\ pc' = "reported"
  /\ UNCHANGED <<pages, got, queue, job, token, requested, ending, answered, board, stopping,
                 inputs, asked>>

ReportDone ==
  /\ pc = "reported" /\ unsent = None
  /\ Push("last")
  /\ pc' = "closing"
  /\ UNCHANGED <<pages, got, queue, job, token, requested, ending, answered, board, stopping,
                 inputs, asked>>

ReportFinish ==
  /\ pc = "closing" /\ unsent = None
  /\ FinishTurn
  /\ error' = FALSE
  /\ pc' = "wait"
  /\ UNCHANGED <<pages, got, unsent, queue, job, token, requested, page_asked, cancelled,
                 answered, board, stopping, inputs, asked>>

Exit ==
  /\ pc = "wait" /\ Wakes /\ queue = <<>>
  /\ pc' = "exited"
  /\ UNCHANGED <<pages, frames, queue, job, token, requested, ending, answered, board, stopping,
                 inputs, asked>>

-----------------------------------------------------------------------------
(* The main thread: the handlers' thread is joined, then the runner is stopped. *)

Stop ==
  /\ stopping = "no" /\ handing = NotHanding
  /\ stopping' = "jobs"
  /\ queue' = <<>>
  /\ UNCHANGED <<pages, frames, pc, job, token, requested, ending, answered, board, inputs, asked>>

\* A turn that was taken and has no token yet is not cancelled: it runs to its own end.
StopTurn ==
  /\ stopping = "jobs"
  /\ stopping' = "turn"
  /\ token' = IF token = "none" THEN token ELSE "set"
  /\ UNCHANGED <<pages, frames, queue, pc, job, requested, ending, answered, board, inputs, asked>>

-----------------------------------------------------------------------------
Worker ==
  \/ Pop \/ Begin \/ SayChunk \/ AskApproval \/ Approved
  \/ \E failed \in BOOLEAN : EndTurn(failed)
  \/ TakeRequest \/ DropToken \/ EndSilently \/ SayUsage \/ SayLast \/ CloseBoardJob \/ CloseRefused
  \/ ReportError \/ ReportDone \/ ReportFinish \/ Deliver \/ Exit

\* What pages and peers send, in any order and as often as the bounds allow.
Io ==
  \/ \E s \in Conn : \/ \E c \in Client \cup {None} : Open(s, c)
                     \/ Finish(s) \/ Submit(s) \/ CancelTurn(s) \/ ResolveApproval(s)
  \/ HandOver
  \/ \E j \in JobId : PostJob(j) \/ DropJob(j) \/ PeerMessage(j)
  \/ PeerMessage(None)

Next == Worker \/ Io \/ Stop \/ StopTurn

\* The worker and the main thread run on while they can.  Nothing is assumed of handlers,
\* pages, peers or persons.
Spec == Init /\ [][Next]_vars /\ WF_vars(Worker) /\ WF_vars(StopTurn)

-----------------------------------------------------------------------------
(* What should hold.                                                       *)

\* At most one socket is the page, and it is the one the runner sends to: whatever the order
\* of reloads, closes and second tabs, no socket keeps thinking it holds a session it lost.
OnePage ==
  \A s \in Conn : page[s] => attached = s /\ sock[s] = "open"

\* A page that is attached has every frame of the last two turns, those included that the
\* worker wrote down while Attach was handing over the earlier ones.
NoFrameLost ==
  handing = NotHanding /\ unsent = None /\ attached # None =>
    FramesForNextPage \subseteq got[attached]

\* Only a cancel that came while this turn ran is answered as one: a request that reached the
\* runner between two turns is never read by the later one.
NoStaleCancel == pc \in {"taken", "settle"} /\ page_asked => askers # {} /\ ~late

\* A page that cancelled its own turn and is still there was sent the last word on it, wherever
\* in the turn the cancel came and whoever else cancelled, but for one window: when no cancel
\* came before RunJob read cancel_requested_, one that comes before it drops the token stops
\* the turn with no word to the page, against what its comment and web-api.md say.
CancelAnswered ==
  pc = "wait" /\ job.conn \in askers /\ ~late /\ page[job.conn] =>
    LET record == turns[Len(turns)]
        n == Len(record.frames)
    IN  /\ record.id = job.turn
        /\ n > 0 /\ record.frames[n] = "last"
        /\ <<record.id, n>> \in got[job.conn]

\* A turn that ended and was not cancelled leaves its board job closed, also when the job was
\* dropped while it ran or another message for the job is queued behind it.
JobClosed ==
  pc \in {"wait", "exited"} /\ job.board_job # None /\ ~cancelled =>
    board[job.board_job] \in {"done", "failed", "cancelled"}

\* A record that is finished never changes, and at most kTurnsKept are kept: what a
\* subscriber read of one is the whole turn (RunJob).
RecordsFinal ==
  [][/\ Len(turns') <= kTurnsKept
     /\ \A i \in DOMAIN turns : turns[i].finished =>
          \A k \in DOMAIN turns' : turns'[k].id = turns[i].id => turns'[k] = turns[i]]_vars

\* The end of a socket that a reload replaced does not cancel the turn that goes on for the
\* new one: outside a shutdown, a turn is cancelled by a cancel frame or by the last page leaving.
ReloadSparesTurn ==
  [][stopping = "no" /\ token = "clear" /\ token' = "set" =>
       \/ \E s \in Conn : CancelTurn(s)
       \/ attached # None /\ attached' = None]_vars

\* Unless the worker waits for an approval for ever, every message that was accepted gets its
\* turn, or the server stops: the turns, numbered as their messages came in, catch up with them.
InputsServed ==
  \/ <>[](pc = "asking")
  \/ inputs > job.turn ~> (inputs = job.turn \/ stopping # "no")

\* A shutdown ends the worker, or finds it waiting for an approval.
StopEndsUnlessAsking == stopping # "no" ~> pc \in {"exited", "asking"}

\* A shutdown ends the worker.  AskApproval waits for an answer that only a handler could
\* bring, and their thread has been joined.
StopEnds == stopping # "no" ~> pc = "exited"
=============================================================================
