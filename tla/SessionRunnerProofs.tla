------------------------- MODULE SessionRunnerProofs -------------------------
(***************************************************************************)
(* For every number of sockets, tabs, jobs, messages and frames, and every *)
(* number of records kept: what the runner promises the page, the board    *)
(* and those who read its records.                                         *)
(***************************************************************************)
EXTENDS SessionRunner, SequenceTheorems, TLAPS

-----------------------------------------------------------------------------
(* The page.                                                               *)

\* The socket that is attached is open, and is the one an Attach hands frames to.
PagesOK ==
  /\ sock \in [Conn -> {"new", "open", "closing", "closed"}]
  /\ page \in [Conn -> BOOLEAN]
  /\ attached \in Conn \cup {None}
  /\ handing # NotHanding =>
       handing.conn \in Conn /\ handing.conn = attached /\ ~page[attached]
  /\ attached # None => sock[attached] = "open"
  /\ OnePage

\* Neither the worker nor the main thread touches a socket.
LEMMA WorkerSparesPages ==
  ASSUME Worker \/ Stop \/ StopTurn
  PROVE  UNCHANGED pages
BY DEF Worker, Pop, Begin, SayChunk, AskApproval, Approved, EndTurn, TakeRequest, DropToken,
   EndSilently, SayUsage, SayLast, CloseBoardJob, CloseRefused, ReportError, ReportDone,
   ReportFinish, Deliver, Exit, Stop, StopTurn

\* Nor does a handler that is not about the sockets.
LEMMA HandlerSparesPages ==
  ASSUME \/ \E s \in Conn : Submit(s) \/ CancelTurn(s) \/ ResolveApproval(s)
         \/ \E j \in JobId : PostJob(j) \/ DropJob(j)
         \/ \E j \in JobId \cup {None} : PeerMessage(j)
  PROVE  UNCHANGED pages
BY DEF Submit, CancelTurn, ResolveApproval, PostJob, DropJob, PeerMessage

\* Every step keeps the page the one the runner sends to.
LEMMA PagesStep ==
  ASSUME PagesOK, [Next]_vars
  PROVE  PagesOK'
<1>1. CASE UNCHANGED pages
  BY <1>1 DEF pages, PagesOK, OnePage
<1>2. ASSUME NEW s \in Conn, NEW c, Open(s, c)
      PROVE  PagesOK'
  <2>1. CASE Held(c)
    <3>1. /\ sock[s] = "new" /\ sock' = [sock EXCEPT ![s] = "closed"]
          /\ UNCHANGED <<page, attached, handing>>
      BY <1>2, <2>1 DEF Open
    <3>2. QED
      BY <3>1, RunnerAssumption DEF RunnerAssumption, PagesOK, OnePage
  <2>2. CASE ~Held(c)
    <3>1. /\ sock' = [k \in Conn |-> CASE k = s -> "open"
                                       [] k = attached /\ page[k] -> "closing"
                                       [] OTHER -> sock[k]]
          /\ page' = [k \in Conn |-> page[k] /\ k # attached]
          /\ attached' = s /\ handing'.conn = s
      BY <1>2, <2>2 DEF Open, DetachCurrent
    <3>2. \A k \in Conn : ~page'[k]
      BY <3>1 DEF PagesOK, OnePage
    <3>3. sock' \in [Conn -> {"new", "open", "closing", "closed"}] /\ sock'[s] = "open"
      <4>1. ASSUME NEW k \in Conn
            PROVE  /\ k = s => sock'[k] = "open"
                   /\ sock'[k] \in {"open", "closing", sock[k]}
        <5>1. sock'[k] = CASE k = s -> "open"
                           [] k = attached /\ page[k] -> "closing"
                           [] OTHER -> sock[k]
          BY <3>1, <4>1
        <5>2. s = attached => ~page[s]
          BY <1>2 DEF Open, PagesOK, OnePage
        <5>3. CASE k = s
          BY <5>1, <5>2, <5>3
        <5>4. CASE k # s
          BY <5>1, <5>4
        <5>5. QED
          BY <5>3, <5>4
      <4>2. sock' = [k \in Conn |-> sock'[k]]
        BY <3>1
      <4>3. QED
        BY <4>1, <4>2 DEF PagesOK
    <3>4. QED
      BY <3>1, <3>2, <3>3 DEF PagesOK, OnePage
  <2>3. QED
    BY <2>1, <2>2
<1>3. CASE HandOver
  <2>1. /\ attached \in Conn /\ page' = [page EXCEPT ![attached] = TRUE]
        /\ handing' = NotHanding /\ UNCHANGED <<sock, attached>>
    BY <1>3 DEF HandOver, PagesOK
  <2>2. attached # None
    BY <2>1, RunnerAssumption DEF RunnerAssumption
  <2>3. QED
    BY <2>1, <2>2 DEF PagesOK, OnePage
<1>4. ASSUME NEW s \in Conn, Finish(s)
      PROVE  PagesOK'
  BY <1>4 DEF Finish, IoFree, Detach, PagesOK, OnePage
<1>5. QED
  <2>1. CASE UNCHANGED vars
    BY <1>1, <2>1 DEF vars, pages
  <2>2. CASE Worker \/ Stop \/ StopTurn
    BY <1>1, <2>2, WorkerSparesPages
  <2>3. CASE Io
    BY <1>1, <1>2, <1>3, <1>4, <2>3, HandlerSparesPages DEF Io
  <2>4. QED
    BY <2>1, <2>2, <2>3 DEF Next

\* No socket is attached when the server starts.
LEMMA InitPages == Init => PagesOK
BY DEF Init, PagesOK, OnePage

\* At most one socket is the page, and it is the one the runner sends to.
THEOREM PageHeld == Spec => []OnePage
<1>1. PagesOK => OnePage
  BY DEF PagesOK
<1>2. PagesOK /\ [Next]_vars => PagesOK'
  BY PagesStep
<1>3. QED
  BY <1>1, <1>2, InitPages, PTL DEF Spec
-----------------------------------------------------------------------------
(* A cancel.                                                               *)

InTurn == {"turn", "asking", "ended"}
AfterTurn == {"taken", "settle", "ending", "said", "report", "reported", "closing"}
Resting == {"wait", "exited"}

\* A turn has a token until RunJob drops it.  A request is one of this turn's exactly while a
\* page has asked during it, and what RunJob read of it is what a page had asked by then.
CancelOK ==
  /\ pc \in {"popped"} \cup InTurn \cup AfterTurn \cup Resting
  /\ requested \in BOOLEAN /\ late \in BOOLEAN /\ askers \subseteq Conn
  /\ token = "none" <=> pc \notin InTurn \cup {"taken"}
  /\ pc \in {"popped"} \cup InTurn => late = FALSE
  /\ pc = "popped" => askers = {}
  /\ pc \in InTurn => requested = (askers # {})
  /\ pc \in AfterTurn \cup Resting => page_asked = (askers # {} /\ late = FALSE)

\* The steps that have to do with a cancel; the others leave its books alone.
LEMMA CancelStep ==
  ASSUME CancelOK, [Next]_vars
  PROVE  CancelOK'
<1> USE DEF CancelOK, InTurn, AfterTurn, Resting, pages, frames, ending, asked
<1>1. CASE UNCHANGED vars
  BY <1>1 DEF vars
<1>2. CASE Pop \/ Begin \/ TakeRequest
  <2>1. CASE Pop
    BY <2>1 DEF Pop
  <2>2. CASE Begin
    BY <2>2 DEF Begin
  <2>3. CASE TakeRequest
    BY <2>3 DEF TakeRequest
  <2>4. QED
    BY <1>2, <2>1, <2>2, <2>3
<1>3. CASE SayChunk \/ AskApproval \/ Approved \/ (\E failed \in BOOLEAN : EndTurn(failed))
  BY <1>3 DEF SayChunk, AskApproval, Approved, EndTurn
<1>4. CASE DropToken \/ EndSilently \/ SayUsage \/ SayLast \/ CloseBoardJob \/ CloseRefused
  BY <1>4 DEF DropToken, EndSilently, SayUsage, SayLast, CloseBoardJob, CloseRefused
<1>5. CASE ReportError \/ ReportDone \/ ReportFinish \/ Deliver \/ Exit \/ Stop \/ StopTurn
  BY <1>5 DEF ReportError, ReportDone, ReportFinish, Deliver, Exit, Stop, StopTurn
<1>6. ASSUME NEW s \in Conn, CancelTurn(s)
      PROVE  CancelOK'
  BY <1>6, RunnerAssumption DEF RunnerAssumption, CancelTurn, RequestCancel
<1>7. ASSUME NEW s \in Conn, Finish(s)
      PROVE  CancelOK'
  <2>1. /\ UNCHANGED <<pc, page_asked, askers, late>> /\ requested' = requested
        /\ token' = "none" <=> token = "none"
    BY <1>7 DEF Finish, Detach, RequestCancel
  <2>2. QED
    BY <2>1
<1>8. ASSUME NEW s \in Conn, NEW c, Open(s, c) \/ Submit(s) \/ ResolveApproval(s)
      PROVE  CancelOK'
  BY <1>8 DEF Open, Submit, ResolveApproval
<1>9. ASSUME NEW j, HandOver \/ PostJob(j) \/ DropJob(j) \/ PeerMessage(j)
      PROVE  CancelOK'
  BY <1>9 DEF HandOver, PostJob, DropJob, PeerMessage
<1>10. QED
  BY <1>1, <1>2, <1>3, <1>4, <1>5, <1>6, <1>7, <1>8, <1>9 DEF Next, Worker, Io

\* Nobody has asked for a cancel when the server starts.
LEMMA InitCancel == Init => CancelOK
BY DEF Init, CancelOK, InTurn, AfterTurn, Resting

\* Only a cancel that came while this turn ran is answered as one.
THEOREM CancelHeld == Spec => []NoStaleCancel
<1>1. CancelOK => NoStaleCancel
  BY DEF CancelOK, NoStaleCancel, AfterTurn
<1>2. CancelOK /\ [Next]_vars => CancelOK'
  BY CancelStep
<1>3. QED
  BY <1>1, <1>2, InitCancel, PTL DEF Spec

\* Outside a shutdown a turn is cancelled by a cancel frame or by the last page leaving: the
\* end of a socket that a reload replaced is neither.
THEOREM ReloadHeld == Spec => ReloadSparesTurn
<1> DEFINE Spared == stopping = "no" /\ token = "clear" /\ token' = "set" =>
                       \/ \E s \in Conn : CancelTurn(s)
                       \/ attached # None /\ attached' = None
<1>1. [Next]_vars => [Spared]_vars
  <2> USE DEF pages, frames, ending, asked
  <2> SUFFICES ASSUME Next, stopping = "no", token = "clear", token' = "set"
               PROVE  \/ \E s \in Conn : CancelTurn(s)
                      \/ attached # None /\ attached' = None
    OBVIOUS
  <2>1. ~(Worker \/ Stop \/ StopTurn)
    BY DEF Worker, Pop, Begin, SayChunk, AskApproval, Approved, EndTurn, TakeRequest, DropToken,
       EndSilently, SayUsage, SayLast, CloseBoardJob, CloseRefused, ReportError, ReportDone,
       ReportFinish, Deliver, Exit, Stop, StopTurn
  <2>2. ASSUME NEW s \in Conn, Finish(s)
        PROVE  attached # None /\ attached' = None
    BY <2>2, RunnerAssumption DEF RunnerAssumption, Finish, Detach
  <2>3. ASSUME NEW s \in Conn, NEW c, Open(s, c) \/ Submit(s) \/ ResolveApproval(s)
        PROVE  FALSE
    BY <2>3 DEF Open, Submit, ResolveApproval
  <2>4. ASSUME NEW j, HandOver \/ PostJob(j) \/ DropJob(j) \/ PeerMessage(j)
        PROVE  FALSE
    BY <2>4 DEF HandOver, PostJob, DropJob, PeerMessage
  <2>5. QED
    BY <2>1, <2>2, <2>3, <2>4 DEF Next, Io
<1>2. QED
  BY <1>1, PTL DEF Spec, ReloadSparesTurn
-----------------------------------------------------------------------------
(* The board.                                                              *)

Closed == {"done", "failed", "cancelled"}

\* A message may name only a job that is on the board.
Jobs == {x \in [turn : Nat, conn : Conn \cup {None}, board_job : JobId \cup {None}] :
           x.board_job # None => board[x.board_job] # "absent"}

\* Every message in the queue, and the one the worker is at, names a job of the board or
\* none, and where a close was refused, the job is closed already.
BoardOK ==
  /\ board \in [JobId -> {"absent", "open", "claimed"} \cup Closed]
  /\ inputs \in Nat
  /\ queue \in Seq(Jobs) /\ job \in Jobs
  /\ pc \in {"report", "reported", "closing"} =>
       job.board_job # None /\ board[job.board_job] \in Closed
  /\ JobClosed

\* A job that is on the board stays there, and one that is closed stays closed.
Keeps ==
  \A j \in JobId : /\ board[j] # "absent" => board'[j] # "absent"
                   /\ board[j] \in Closed => board'[j] = board[j]

\* The messages that are queued go on naming jobs of the board.
LEMMA JobsKept ==
  ASSUME Keeps
  PROVE  Jobs \subseteq Jobs' /\ \A q \in Seq(Jobs) : q \in Seq(Jobs')
<1>1. Jobs \subseteq Jobs'
  BY DEF Jobs, Keeps
<1>2. ASSUME NEW q \in Seq(Jobs)
      PROVE  q \in Seq(Jobs')
  BY <1>1
<1>3. QED
  BY <1>1, <1>2

\* A step that moves no job but on, and lets no turn end.
LEMMA BoardKept ==
  ASSUME BoardOK, Keeps, job' = job, inputs' \in Nat,
         board' \in [JobId -> {"absent", "open", "claimed"} \cup Closed],
         queue' \in Seq(Jobs'),
         pc' \in {"report", "reported", "closing"} => pc \in {"report", "reported", "closing"},
         pc' \in Resting => (pc \in {"report", "reported", "closing"} \cup Resting) \/ cancelled,
         cancelled' = cancelled
  PROVE  BoardOK'
<1>1. job \in Jobs' /\ (job.board_job # None => job.board_job \in JobId)
  BY JobsKept DEF BoardOK, Jobs
<1>2. pc' \in {"report", "reported", "closing"} =>
        job.board_job # None /\ board'[job.board_job] \in Closed
  BY <1>1 DEF BoardOK, Keeps
<1>3. pc' \in Resting /\ job.board_job # None /\ ~cancelled => board'[job.board_job] \in Closed
  BY <1>1 DEF BoardOK, JobClosed, Keeps, Resting, Closed
<1>4. JobClosed'
  BY <1>3 DEF JobClosed, Resting, Closed
<1>5. QED
  BY <1>1, <1>2, <1>4 DEF BoardOK

\* Every step keeps what the queue names on the board.
LEMMA BoardStep ==
  ASSUME BoardOK, [Next]_vars
  PROVE  BoardOK'
<1> USE DEF pages, frames, ending, asked
<1>1. ASSUME board' = board
      PROVE  /\ Keeps /\ Jobs' = Jobs
             /\ board' \in [JobId -> {"absent", "open", "claimed"} \cup Closed]
  BY <1>1 DEF Keeps, BoardOK, Jobs
<1>2. CASE UNCHANGED vars
  BY <1>1, <1>2, BoardKept DEF vars, BoardOK
<1>3. CASE Pop
  <2>1. Head(queue) \in Jobs /\ Tail(queue) \in Seq(Jobs)
    BY <1>3, HeadTailProperties DEF Pop, BoardOK
  <2>2. QED
    BY <1>1, <1>3, <2>1 DEF Pop, BoardOK, JobClosed
<1>4. CASE \/ Begin \/ SayChunk \/ AskApproval \/ Approved \/ Deliver \/ SayUsage \/ SayLast
           \/ TakeRequest \/ (\E failed \in BOOLEAN : EndTurn(failed))
  <2>1. /\ UNCHANGED <<board, job, inputs, queue, cancelled>>
        /\ pc' = pc \/ pc' \in {"turn", "asking", "ended", "taken", "ending", "said"}
    BY <1>4 DEF Begin, SayChunk, AskApproval, Approved, Deliver, SayUsage, SayLast, TakeRequest,
       EndTurn
  <2>2. QED
    BY <1>1, <2>1, BoardKept DEF BoardOK, Resting
<1>5. CASE DropToken
  BY <1>1, <1>5 DEF DropToken, BoardOK, JobClosed
<1>6. CASE EndSilently \/ ReportError \/ ReportDone \/ ReportFinish \/ Exit
  <2>1. /\ UNCHANGED <<board, job, inputs, queue, cancelled>>
        /\ \/ pc' = "wait" /\ cancelled
           \/ pc' = "exited" /\ pc = "wait"
           \/ pc \in {"report", "reported", "closing"} /\ pc' \in {"reported", "closing", "wait"}
    BY <1>6 DEF EndSilently, Silent, ReportError, ReportDone, ReportFinish, Exit
  <2>2. QED
    BY <1>1, <2>1, BoardKept DEF BoardOK, Resting
<1>7. CASE CloseBoardJob
  <2>1. /\ UNCHANGED <<job, inputs, queue>>
        /\ \A j \in JobId : j = job.board_job => board[j] \in {"open", "claimed"}
        /\ board' \in [JobId -> {"absent", "open", "claimed"} \cup Closed]
        /\ \A j \in JobId : board'[j] = IF j # job.board_job THEN board[j]
                                      ELSE IF error THEN "failed" ELSE "done"
        /\ pc' = "wait"
    BY <1>7 DEF CloseBoardJob, Closable, BoardOK, Closed
  <2>2. Keeps
    BY <2>1 DEF Keeps, Closed
  <2>3. job \in Jobs' /\ queue \in Seq(Jobs')
    BY <2>2, JobsKept DEF BoardOK
  <2>4. job.board_job # None => board'[job.board_job] \in {"done", "failed"}
    BY <2>1 DEF BoardOK, Jobs
  <2>5. QED
    BY <2>1, <2>3, <2>4 DEF BoardOK, JobClosed
<1>8. CASE CloseRefused
  <2>1. /\ UNCHANGED <<board, job, inputs, queue>>
        /\ \E j \in JobId : j = job.board_job /\ board[j] \notin {"open", "claimed"}
        /\ pc' = "report"
    BY <1>8 DEF CloseRefused, Closable
  <2>2. job.board_job # None /\ board[job.board_job] \in Closed
    BY <2>1, RunnerAssumption DEF RunnerAssumption, BoardOK, Jobs
  <2>3. QED
    BY <1>1, <2>1, <2>2 DEF BoardOK, JobClosed
<1>9. CASE Stop \/ StopTurn
  <2>1. /\ UNCHANGED <<board, job, inputs, pc, cancelled>>
        /\ queue' = queue \/ queue' = <<>>
    BY <1>9 DEF Stop, StopTurn
  <2>2. queue' \in Seq(Jobs) /\ Jobs' = Jobs
    <3>1. <<>> \in Seq(Jobs)
      OBVIOUS
    <3>2. QED
      BY <1>1, <2>1, <3>1 DEF BoardOK
  <2>3. QED
    BY <1>1, <2>1, <2>2, BoardKept DEF BoardOK, Resting
<1>10. ASSUME NEW s, NEW c,
              Open(s, c) \/ Finish(s) \/ CancelTurn(s) \/ ResolveApproval(s) \/ HandOver
       PROVE  BoardOK'
  <2>1. UNCHANGED <<board, job, inputs, queue, pc, cancelled>>
    BY <1>10 DEF Open, Finish, CancelTurn, ResolveApproval, HandOver
  <2>2. QED
    BY <1>1, <2>1, BoardKept DEF BoardOK, Resting
<1>11. ASSUME NEW s \in Conn, Submit(s)
       PROVE  BoardOK'
  <2> DEFINE m == [turn |-> inputs + 1, conn |-> s, board_job |-> None]
  <2>1. UNCHANGED <<board, job, pc, cancelled>> /\ inputs' = inputs + 1 /\ queue' = Append(queue, m)
    BY <1>11 DEF Submit
  <2>2. m \in Jobs
    BY <1>11 DEF Jobs, BoardOK
  <2>3. queue' \in Seq(Jobs') /\ inputs' \in Nat
    BY <1>1, <2>1, <2>2 DEF BoardOK
  <2>4. QED
    BY <1>1, <2>1, <2>3, BoardKept DEF BoardOK, Resting
<1>12. ASSUME NEW j \in JobId, PostJob(j) \/ DropJob(j)
       PROVE  BoardOK'
  <2>1. /\ UNCHANGED <<job, pc, cancelled, queue, inputs>>
        /\ board' \in [JobId -> {"absent", "open", "claimed"} \cup Closed]
    BY <1>12 DEF PostJob, DropJob, BoardOK, Closed
  <2>2. Keeps
    BY <1>12 DEF PostJob, DropJob, BoardOK, Closed, Keeps
  <2>3. queue' \in Seq(Jobs') /\ inputs' \in Nat
    BY <2>1, <2>2, JobsKept DEF BoardOK
  <2>4. QED
    BY <2>1, <2>2, <2>3, BoardKept DEF Resting
<1>13. ASSUME NEW j \in JobId \cup {None}, PeerMessage(j)
       PROVE  BoardOK'
  <2> DEFINE m == [turn |-> inputs + 1, conn |-> None, board_job |-> j]
  <2>1. /\ UNCHANGED <<job, pc, cancelled>> /\ inputs' = inputs + 1
        /\ queue' = Append(queue, m)
        /\ board' \in [JobId -> {"absent", "open", "claimed"} \cup Closed]
        /\ j # None => board'[j] = "claimed"
    BY <1>13 DEF PeerMessage, SubmitFromPeer, BoardOK
  <2>2. Keeps
    <3>1. /\ j # None => board[j] \in {"open", "claimed"}
          /\ \A k \in JobId : board'[k] = IF k = j THEN "claimed" ELSE board[k]
      BY <1>13 DEF PeerMessage
    <3>2. QED
      BY <3>1, RunnerAssumption DEF RunnerAssumption, Closed, Keeps
  <2>3. m \in Jobs'
    BY <2>1 DEF Jobs, BoardOK
  <2>4. queue \in Seq(Jobs')
    BY <2>2, JobsKept DEF BoardOK
  <2>5. queue' \in Seq(Jobs') /\ inputs' \in Nat
    BY <2>1, <2>3, <2>4 DEF BoardOK
  <2>6. QED
    BY <2>1, <2>2, <2>5, BoardKept DEF Resting
<1>14. QED
  BY <1>2, <1>3, <1>4, <1>5, <1>6, <1>7, <1>8, <1>9, <1>10, <1>11, <1>12, <1>13
     DEF Next, Worker, Io

\* The board starts with no job and the queue empty.
LEMMA InitBoard == Init => BoardOK
BY DEF Init, BoardOK, JobClosed, Jobs, NoJob, Closed

\* A turn that ended and was not cancelled leaves its board job closed.
THEOREM JobHeld == Spec => []JobClosed
<1>1. BoardOK => JobClosed
  BY DEF BoardOK
<1>2. BoardOK /\ [Next]_vars => BoardOK'
  BY BoardStep
<1>3. QED
  BY <1>1, <1>2, InitBoard, PTL DEF Spec
-----------------------------------------------------------------------------
(* The records.                                                            *)

Kinds == {"word", "last"}

Record == [id : Nat, frames : Seq(Kinds), finished : BOOLEAN]

Newest == turns[Len(turns)]

\* The records are in the order of their turns, every one but the newest is finished, and
\* the newest is unless the worker is at its turn; what is queued comes after them all.
RecordsOK ==
  /\ turns \in Seq(Record) /\ Len(turns) <= kTurnsKept
  /\ \A i, k \in DOMAIN turns : i < k => turns[i].id < turns[k].id /\ turns[i].finished
  /\ turns # <<>> => Newest.id = job.turn /\ (Newest.finished <=> pc \in Resting)
  /\ pc \notin Resting => turns # <<>>
  /\ \A i \in DOMAIN turns : turns[i].id <= inputs
  /\ \A q \in DOMAIN queue : /\ queue[q].turn <= inputs
                             /\ \A i \in DOMAIN turns : turns[i].id < queue[q].turn
  /\ \A p, q \in DOMAIN queue : p < q => queue[p].turn < queue[q].turn

\* What a record is made of.
LEMMA RecordParts ==
  ASSUME NEW s \in Seq(Record), NEW i \in DOMAIN s
  PROVE  s[i] \in Record /\ s[i].id \in Nat /\ s[i].frames \in Seq(Kinds)
<1>1. s[i] \in Record
  OBVIOUS
<1>2. QED
  BY <1>1 DEF Record

\* Push adds a frame to the newest record and changes nothing else.
LEMMA PushAppends ==
  ASSUME turns \in Seq(Record), turns # <<>>, NEW f \in Kinds, Push(f)
  PROVE  /\ turns' \in Seq(Record) /\ Len(turns') = Len(turns) /\ DOMAIN turns' = DOMAIN turns
         /\ Len(turns) \in DOMAIN turns
         /\ \A i \in DOMAIN turns : i # Len(turns) => turns'[i] = turns[i]
         /\ Newest'.id = Newest.id /\ Newest'.finished = Newest.finished
         /\ Newest'.frames = Append(Newest.frames, f)
<1> DEFINE n == Len(turns)
           r == [turns[n] EXCEPT !.frames = Append(turns[n].frames, f)]
<1>1. n \in DOMAIN turns /\ n \in Nat /\ turns[n] \in Record
  OBVIOUS
<1>2. r \in Record /\ r.id = turns[n].id /\ r.finished = turns[n].finished
      /\ r.frames = Append(turns[n].frames, f)
  <2>1. Append(turns[n].frames, f) \in Seq(Kinds)
    BY <1>1, RecordParts
  <2>2. QED
    BY <1>1, <2>1 DEF Record
<1>3. turns' = [turns EXCEPT ![n] = r]
  BY DEF Push
<1> HIDE DEF r
<1>4. QED
  BY <1>1, <1>2, <1>3 DEF Newest

\* FinishTurn marks the newest record and changes nothing else.
LEMMA FinishMarks ==
  ASSUME turns \in Seq(Record), turns # <<>>, FinishTurn
  PROVE  /\ turns' \in Seq(Record) /\ Len(turns') = Len(turns) /\ DOMAIN turns' = DOMAIN turns
         /\ Len(turns) \in DOMAIN turns
         /\ \A i \in DOMAIN turns : i # Len(turns) => turns'[i] = turns[i]
         /\ Newest'.id = Newest.id /\ Newest'.frames = Newest.frames /\ Newest'.finished
<1> DEFINE n == Len(turns)
           r == [turns[n] EXCEPT !.finished = TRUE]
<1>1. n \in DOMAIN turns /\ n \in Nat /\ turns[n] \in Record
  OBVIOUS
<1>2. r \in Record /\ r.id = turns[n].id /\ r.finished /\ r.frames = turns[n].frames
  BY <1>1 DEF Record
<1>3. turns' = [turns EXCEPT ![n] = r]
  BY DEF FinishTurn
<1> HIDE DEF r
<1>4. QED
  BY <1>1, <1>2, <1>3 DEF Newest

\* NewRecord keeps all the records before it, or all but the oldest.
LEMMA NewRecordKeeps ==
  ASSUME turns \in Seq(Record), Len(turns) <= kTurnsKept, NEW id \in Nat,
         turns' = NewRecord(id)
  PROVE  /\ turns' \in Seq(Record) /\ turns' # <<>> /\ Len(turns') <= kTurnsKept
         /\ Newest' = [id |-> id, frames |-> <<>>, finished |-> FALSE]
         /\ \E d \in {0, 1} : /\ Len(turns') = Len(turns) + 1 - d
                              /\ \A i \in DOMAIN turns' : i # Len(turns') =>
                                   i + d \in DOMAIN turns /\ turns'[i] = turns[i + d]
<1> DEFINE r == [id |-> id, frames |-> <<>>, finished |-> FALSE]
           longer == Append(turns, r)
<1>1. r \in Record
  BY DEF Record
<1>2. turns' = IF Len(longer) > kTurnsKept THEN Tail(longer) ELSE longer
  BY DEF NewRecord
<1> HIDE DEF r
<1>3. /\ longer \in Seq(Record) /\ Len(longer) = Len(turns) + 1 /\ Len(turns) \in Nat
      /\ longer[Len(turns) + 1] = r
      /\ \A i \in 1..Len(turns) : i \in DOMAIN turns /\ longer[i] = turns[i]
  BY <1>1
<1> HIDE DEF longer
<1>4. CASE Len(longer) > kTurnsKept
  <2>1. turns' = Tail(longer) /\ kTurnsKept \in Nat /\ kTurnsKept > 0 /\ Len(turns) = kTurnsKept
    BY <1>2, <1>3, <1>4, RunnerAssumption DEF RunnerAssumption
  <2>2. /\ turns' \in Seq(Record) /\ Len(turns') = Len(turns)
        /\ \A i \in 1..Len(turns) : turns'[i] = longer[i + 1]
    BY <1>3, <2>1, HeadTailProperties
  <2>3. /\ turns' # <<>> /\ Newest' = r
        /\ \A i \in DOMAIN turns' : i # Len(turns') =>
                  i + 1 \in DOMAIN turns /\ turns'[i] = turns[i + 1]
    BY <1>3, <2>1, <2>2 DEF Newest
  <2>4. QED
    BY <2>1, <2>2, <2>3 DEF r
<1>5. CASE ~(Len(longer) > kTurnsKept)
  <2>1. turns' = longer /\ Len(longer) <= kTurnsKept
    BY <1>2, <1>3, <1>5, RunnerAssumption DEF RunnerAssumption
  <2>2. /\ turns' # <<>> /\ Newest' = r
        /\ \A i \in DOMAIN turns' : i # Len(turns') =>
                  i + 0 \in DOMAIN turns /\ turns'[i] = turns[i + 0]
    BY <1>3, <2>1 DEF Newest
  <2>3. QED
    BY <1>3, <2>1, <2>2 DEF r
<1>6. QED
  BY <1>4, <1>5

\* The steps that write a frame, and those that end a turn.
Writes == \E f \in Kinds : Push(f)

\* The worker writes frames only at a turn.
LEMMA Speaks ==
  ASSUME SayChunk \/ AskApproval \/ SayUsage \/ SayLast \/ ReportError \/ ReportDone
  PROVE  /\ Writes /\ UNCHANGED <<queue, inputs, job>>
         /\ pc \notin Resting /\ pc' \notin Resting
<1>1. CASE SayChunk \/ AskApproval \/ SayUsage
  <2>1. Push("word")
    BY <1>1 DEF SayChunk, AskApproval, SayUsage
  <2>2. Writes
    BY <2>1 DEF Writes, Kinds
  <2>3. QED
    BY <1>1, <2>2 DEF SayChunk, AskApproval, SayUsage, Resting
<1>2. CASE SayLast \/ ReportError \/ ReportDone
  <2>1. Push("last")
    BY <1>2 DEF SayLast, ReportError, ReportDone
  <2>2. Writes
    BY <2>1 DEF Writes, Kinds
  <2>3. QED
    BY <1>2, <2>2 DEF SayLast, ReportError, ReportDone, Resting
<1>3. QED
  BY <1>1, <1>2

\* A step that leaves the turns alone, or adds a frame to the newest, and does not end it.
LEMMA RecordsKept ==
  ASSUME RecordsOK, UNCHANGED turns \/ (pc \notin Resting /\ Writes),
         UNCHANGED <<queue, inputs, job>>, pc' \in Resting <=> pc \in Resting
  PROVE  RecordsOK'
<1>1. CASE UNCHANGED turns
  BY <1>1 DEF RecordsOK, Newest
<1>2. CASE pc \notin Resting /\ Writes
  <2>1. PICK f \in Kinds : Push(f)
    BY <1>2 DEF Writes
  <2>2. turns \in Seq(Record) /\ turns # <<>>
    BY <1>2 DEF RecordsOK
  <2>3. /\ turns' \in Seq(Record) /\ Len(turns') = Len(turns) /\ DOMAIN turns' = DOMAIN turns
        /\ \A i \in DOMAIN turns : /\ turns'[i].id = turns[i].id
                                  /\ turns'[i].finished = turns[i].finished
        /\ turns' # <<>>
    BY <2>1, <2>2, PushAppends DEF Newest
  <2>4. QED
    BY <1>2, <2>2, <2>3 DEF RecordsOK, Newest
<1>3. QED
  BY <1>1, <1>2

\* A step that ends a turn.
LEMMA RecordsEnd ==
  ASSUME RecordsOK, pc \notin Resting, FinishTurn,
         UNCHANGED <<queue, inputs, job>>, pc' \in Resting
  PROVE  RecordsOK'
<1>1. turns \in Seq(Record) /\ turns # <<>>
  BY DEF RecordsOK
<1>2. /\ turns' \in Seq(Record) /\ Len(turns') = Len(turns) /\ DOMAIN turns' = DOMAIN turns
      /\ \A i \in DOMAIN turns : turns'[i].id = turns[i].id
      /\ \A i \in DOMAIN turns : i # Len(turns) => turns'[i].finished = turns[i].finished
      /\ Newest'.finished /\ turns' # <<>>
  BY <1>1, FinishMarks DEF Newest
<1>3. QED
  BY <1>1, <1>2 DEF RecordsOK, Newest

\* A message that is queued comes after all the others.
LEMMA RecordsQueue ==
  ASSUME RecordsOK, BoardOK, NEW m, m.turn = inputs + 1, queue' = Append(queue, m),
         inputs' = inputs + 1, UNCHANGED <<turns, job, pc>>
  PROVE  RecordsOK'
<1>1. /\ inputs \in Nat /\ queue \in Seq(Jobs) /\ Len(queue) \in Nat
      /\ \A q \in DOMAIN queue : queue[q].turn \in Nat
  BY DEF BoardOK, Jobs
<1>2. /\ DOMAIN queue' = 1..(Len(queue) + 1) /\ DOMAIN queue = 1..Len(queue)
      /\ \A q \in DOMAIN queue : queue'[q] = queue[q]
      /\ queue'[Len(queue) + 1] = m
  BY <1>1
<1>3. turns \in Seq(Record) /\ \A i \in DOMAIN turns : turns[i].id \in Nat
  BY RecordParts DEF RecordsOK
<1>4. /\ \A i \in DOMAIN turns : turns[i].id <= inputs'
      /\ \A q \in DOMAIN queue' : /\ queue'[q].turn <= inputs'
                                  /\ \A i \in DOMAIN turns : turns[i].id < queue'[q].turn
  BY <1>1, <1>2, <1>3 DEF RecordsOK
<1>5. \A p, q \in DOMAIN queue' : p < q => queue'[p].turn < queue'[q].turn
  BY <1>1, <1>2 DEF RecordsOK
<1>6. QED
  BY <1>4, <1>5 DEF RecordsOK, Newest

\* A message that is taken begins the newest record.
LEMMA RecordsPop ==
  ASSUME RecordsOK, BoardOK, Pop
  PROVE  RecordsOK'
<1>1. /\ pc = "wait" /\ pc' = "popped" /\ queue # <<>> /\ queue' = Tail(queue) /\ job' = Head(queue)
      /\ turns' = NewRecord(Head(queue).turn) /\ inputs' = inputs
  BY DEF Pop
<1>2. /\ queue \in Seq(Jobs) /\ Head(queue) = queue[1] /\ 1 \in DOMAIN queue /\ Len(queue) \in Nat
      /\ queue[1].turn \in Nat
      /\ inputs \in Nat
      /\ \A q \in DOMAIN queue' :
           q + 1 \in DOMAIN queue /\ q \in Nat /\ q > 0 /\ queue'[q] = queue[q + 1]
  BY <1>1 DEF BoardOK, Jobs
<1>3. turns \in Seq(Record) /\ Len(turns) \in Nat /\ Len(turns) <= kTurnsKept
  BY DEF RecordsOK
<1>4. /\ turns' \in Seq(Record) /\ turns' # <<>> /\ Len(turns') <= kTurnsKept
      /\ Newest'.id = queue[1].turn /\ ~Newest'.finished
  BY <1>1, <1>2, <1>3, NewRecordKeeps
<1>5. PICK d \in {0, 1} : /\ Len(turns') = Len(turns) + 1 - d
                          /\ \A i \in DOMAIN turns' : i # Len(turns') =>
                                i + d \in DOMAIN turns /\ turns'[i] = turns[i + d]
  BY <1>1, <1>2, <1>3, NewRecordKeeps
<1>6. ASSUME NEW i \in DOMAIN turns, NEW q \in DOMAIN queue
      PROVE  turns[i].id \in Nat /\ queue[q].turn \in Nat /\ turns[i].id < queue[q].turn
  <2>1. turns[i].id \in Nat
    BY <1>3, RecordParts
  <2>2. queue[q].turn \in Nat
    BY <1>2 DEF Jobs
  <2>3. QED
    BY <2>1, <2>2 DEF RecordsOK
<1>7. ASSUME NEW i \in DOMAIN turns
      PROVE  turns[i].finished
  BY <1>1, <1>3 DEF RecordsOK, Newest, Resting
<1>8. \A i, k \in DOMAIN turns' : i < k => turns'[i].id < turns'[k].id /\ turns'[i].finished
  <2> TAKE i, k \in DOMAIN turns'
  <2> HAVE i < k
  <2>1. i \in Nat /\ k \in Nat /\ i # Len(turns') /\ k <= Len(turns')
    BY <1>4
  <2>2. i + d \in DOMAIN turns /\ turns'[i] = turns[i + d]
    BY <1>5, <2>1
  <2>3. CASE k = Len(turns')
    BY <1>2, <1>4, <1>6, <1>7, <2>2, <2>3 DEF Newest
  <2>4. CASE k # Len(turns')
    <3>1. k + d \in DOMAIN turns /\ turns'[k] = turns[k + d] /\ i + d < k + d
      BY <1>5, <2>1, <2>4
    <3>2. QED
      BY <1>7, <2>2, <3>1 DEF RecordsOK
  <2>5. QED
    BY <2>3, <2>4
<1>9. \A i \in DOMAIN turns' : turns'[i].id <= queue[1].turn
  BY <1>2, <1>4, <1>5, <1>6 DEF Newest
<1>10. \A q \in DOMAIN queue' : queue'[q].turn <= inputs /\ queue[1].turn < queue'[q].turn
  BY <1>2 DEF RecordsOK
<1>11. \A i \in DOMAIN turns' : turns'[i].id \in Nat
  BY <1>4, RecordParts
<1>12. \A q \in DOMAIN queue' : queue'[q].turn \in Nat
  BY <1>2 DEF Jobs
<1>13. \A i \in DOMAIN turns' : /\ turns'[i].id <= inputs
                                /\ \A q \in DOMAIN queue' : turns'[i].id < queue'[q].turn
  BY <1>2, <1>9, <1>10, <1>11, <1>12 DEF RecordsOK
<1>14. \A p, q \in DOMAIN queue' : p < q => queue'[p].turn < queue'[q].turn
  <2> TAKE p, q \in DOMAIN queue'
  <2> HAVE p < q
  <2>1. p + 1 \in DOMAIN queue /\ q + 1 \in DOMAIN queue /\ p + 1 < q + 1
    BY <1>2
  <2>2. QED
    BY <1>2, <2>1 DEF RecordsOK
<1>15. QED
  BY <1>1, <1>2, <1>4, <1>8, <1>10, <1>13, <1>14 DEF RecordsOK, Newest, Resting

\* Every step keeps the records in order.
LEMMA RecordsStep ==
  ASSUME RecordsOK, BoardOK, [Next]_vars
  PROVE  RecordsOK'
<1> USE DEF pages, frames, ending, asked
<1>1. CASE UNCHANGED vars
  BY <1>1, RecordsKept DEF vars
<1>2. CASE Pop
  BY <1>2, RecordsPop
<1>3. CASE \/ Begin \/ Approved \/ (\E failed \in BOOLEAN : EndTurn(failed))
           \/ TakeRequest \/ DropToken \/ CloseRefused \/ Deliver \/ Exit
  <2>1. /\ UNCHANGED <<turns, queue, inputs, job>>
        /\ pc' \in Resting <=> pc \in Resting
    BY <1>3 DEF Begin, Approved, EndTurn, TakeRequest, DropToken, CloseRefused, Deliver, Exit,
       Resting
  <2>2. QED
    BY <2>1, RecordsKept
<1>4. CASE SayChunk \/ AskApproval \/ SayUsage \/ SayLast \/ ReportError \/ ReportDone
  BY <1>4, Speaks, RecordsKept
<1>5. CASE EndSilently \/ CloseBoardJob \/ ReportFinish
  <2>1. /\ FinishTurn /\ UNCHANGED <<queue, inputs, job>>
        /\ pc \notin Resting /\ pc' \in Resting
    BY <1>5 DEF EndSilently, CloseBoardJob, ReportFinish, Resting
  <2>2. QED
    BY <2>1, RecordsEnd
<1>6. CASE Stop
  <2>1. UNCHANGED <<turns, inputs, job, pc>> /\ queue' = <<>>
    BY <1>6 DEF Stop
  <2>2. QED
    BY <2>1 DEF RecordsOK, Newest
<1>7. ASSUME NEW s, NEW c, \/ Open(s, c) \/ Finish(s) \/ CancelTurn(s) \/ ResolveApproval(s)
                           \/ HandOver \/ PostJob(s) \/ DropJob(s) \/ StopTurn
      PROVE  RecordsOK'
  <2>1. UNCHANGED <<turns, queue, inputs, job, pc>>
    BY <1>7 DEF Open, Finish, CancelTurn, ResolveApproval, HandOver, PostJob, DropJob, StopTurn
  <2>2. QED
    BY <2>1, RecordsKept
<1>8. ASSUME NEW s, Submit(s) \/ PeerMessage(s)
      PROVE  RecordsOK'
  <2>1. PICK m : /\ m.turn = inputs + 1 /\ queue' = Append(queue, m)
                 /\ inputs' = inputs + 1 /\ UNCHANGED <<turns, job, pc>>
    BY <1>8 DEF Submit, PeerMessage, SubmitFromPeer
  <2>2. QED
    BY <2>1, RecordsQueue
<1>9. QED
  BY <1>1, <1>2, <1>3, <1>4, <1>5, <1>6, <1>7, <1>8 DEF Next, Worker, Io

\* There is no record when the server starts.
LEMMA InitRecords == Init => RecordsOK
BY RunnerAssumption DEF Init, RecordsOK, RunnerAssumption, Resting

\* A step writes to the newest record during its turn, ends it, begins a record, or none of it.
LEMMA TurnsChange ==
  ASSUME [Next]_vars
  PROVE  \/ UNCHANGED turns
         \/ pc \notin Resting /\ Writes
         \/ pc \notin Resting /\ FinishTurn
         \/ Pop
<1> USE DEF frames
<1>1. CASE UNCHANGED vars
  BY <1>1 DEF vars
<1>2. CASE SayChunk \/ AskApproval \/ SayUsage \/ SayLast \/ ReportError \/ ReportDone
  BY <1>2, Speaks
<1>3. CASE EndSilently \/ CloseBoardJob \/ ReportFinish
  BY <1>3 DEF EndSilently, CloseBoardJob, ReportFinish, Resting
<1>4. CASE \/ Begin \/ Approved \/ (\E failed \in BOOLEAN : EndTurn(failed))
           \/ TakeRequest \/ DropToken \/ CloseRefused \/ Deliver \/ Exit \/ Stop \/ StopTurn
  BY <1>4 DEF Begin, Approved, EndTurn, TakeRequest, DropToken, CloseRefused, Deliver, Exit, Stop,
     StopTurn
<1>5. CASE Io
  BY <1>5 DEF Io, Open, HandOver, Finish, Submit, CancelTurn, ResolveApproval, PostJob, DropJob,
     PeerMessage
<1>6. QED
  BY <1>1, <1>2, <1>3, <1>4, <1>5 DEF Next, Worker

\* A record that is finished never changes.
LEMMA FinishedStays ==
  ASSUME RecordsOK, BoardOK, [Next]_vars,
         NEW i \in DOMAIN turns, turns[i].finished,
         NEW k \in DOMAIN turns', turns'[k].id = turns[i].id
  PROVE  turns'[k] = turns[i]
<1>1. turns \in Seq(Record) /\ Len(turns) \in Nat /\ turns # <<>>
      /\ DOMAIN turns = 1..Len(turns) /\ Len(turns) \in DOMAIN turns
  BY DEF RecordsOK
<1>2. ASSUME NEW m \in DOMAIN turns, turns[m].id = turns[i].id
      PROVE  m = i
  <2>1. turns[i].id \in Nat /\ turns[m].id \in Nat
    BY <1>1, RecordParts
  <2>2. ~(m < i) /\ ~(i < m)
    BY <1>2, <2>1 DEF RecordsOK
  <2>3. QED
    BY <1>1, <2>2
<1>3. CASE UNCHANGED turns
  BY <1>2, <1>3
<1>4. CASE pc \notin Resting /\ (Writes \/ FinishTurn)
  <2>1. i # Len(turns)
    BY <1>1, <1>4 DEF RecordsOK, Newest
  <2>2. /\ DOMAIN turns' = DOMAIN turns /\ Len(turns') = Len(turns)
        /\ \A m \in DOMAIN turns : m # Len(turns) => turns'[m] = turns[m]
        /\ Newest'.id = Newest.id
    BY <1>1, <1>4, PushAppends, FinishMarks DEF Writes
  <2>3. turns[k].id = turns[i].id
    BY <2>2 DEF Newest
  <2>4. QED
    BY <1>2, <2>1, <2>2, <2>3
<1>5. CASE Pop
  <2>1. /\ queue # <<>> /\ queue \in Seq(Jobs) /\ turns' = NewRecord(Head(queue).turn)
        /\ Head(queue) = queue[1] /\ 1 \in DOMAIN queue
    BY <1>5 DEF Pop, BoardOK
  <2>2. queue[1].turn \in Nat
    BY <2>1 DEF Jobs
  <2>3. turns[i].id < queue[1].turn /\ turns[i].id \in Nat
    BY <1>1, <2>1, RecordParts DEF RecordsOK
  <2>4. k # Len(turns')
    <3>1. Newest'.id = queue[1].turn
      BY <1>1, <2>1, <2>2, NewRecordKeeps DEF RecordsOK
    <3>2. QED
      BY <2>2, <2>3, <3>1 DEF Newest
  <2>5. \E d \in {0, 1} : k + d \in DOMAIN turns /\ turns'[k] = turns[k + d]
    BY <1>1, <2>1, <2>2, <2>4, NewRecordKeeps DEF RecordsOK
  <2>6. QED
    BY <1>2, <2>5
<1>6. QED
  BY <1>3, <1>4, <1>5, TurnsChange

\* A finished record never changes, and at most kTurnsKept are kept: what a subscriber read
\* of one is the whole turn.
THEOREM RecordsHeld == Spec => RecordsFinal
<1> DEFINE Final ==
      /\ Len(turns') <= kTurnsKept
      /\ \A i \in DOMAIN turns : turns[i].finished =>
           \A k \in DOMAIN turns' : turns'[k].id = turns[i].id => turns'[k] = turns[i]
<1>1. BoardOK /\ [Next]_vars => BoardOK'
  BY BoardStep
<1>2. RecordsOK /\ BoardOK /\ [Next]_vars => RecordsOK'
  BY RecordsStep
<1>3. RecordsOK /\ RecordsOK' /\ BoardOK /\ [Next]_vars => [Final]_vars
  <2> SUFFICES ASSUME RecordsOK, RecordsOK', BoardOK, [Next]_vars
               PROVE  Final
    OBVIOUS
  <2>1. Len(turns') <= kTurnsKept
    BY DEF RecordsOK
  <2>2. QED
    BY <2>1, FinishedStays
<1>4. QED
  BY <1>1, <1>2, <1>3, InitBoard, InitRecords, PTL DEF Spec, RecordsFinal
-----------------------------------------------------------------------------
(* The frames.                                                             *)

\* The page has, is being handed, or is about to be sent every frame of the last two turns;
\* a frame is on its way only while the worker is inside AppendFrame.
FramesOK ==
  /\ got \in [Conn -> SUBSET (Nat \X Nat)]
  /\ handing \in [conn : Conn \cup {None}, frames : SUBSET (Nat \X Nat)]
  /\ attached # None => FramesForNextPage \subseteq got[attached] \cup handing.frames \cup {unsent}
  /\ unsent \in Nat \X Nat \/ unsent = None
  /\ pc \in {"wait", "exited", "popped", "ended", "taken", "settle"} => unsent = None

\* What the next page is handed, frame by frame.
LEMMA FramesIn ==
  \A x : x \in FramesForNextPage <=>
          \E i \in DOMAIN turns : i > Len(turns) - 2 /\ \E p \in DOMAIN turns[i].frames :
            x = <<turns[i].id, p>>
BY DEF FramesForNextPage, Places

\* The same after a step.
LEMMA FramesInNext ==
  \A x : x \in FramesForNextPage' <=>
          \E i \in DOMAIN turns' : i > Len(turns') - 2 /\ \E p \in DOMAIN turns'[i].frames :
            x = <<turns'[i].id, p>>
BY DEF FramesForNextPage, Places

\* A frame is known by its turn and its place.
LEMMA FramesTyped ==
  ASSUME RecordsOK
  PROVE  FramesForNextPage \subseteq Nat \X Nat
<1> SUFFICES ASSUME NEW x \in FramesForNextPage
             PROVE  x \in Nat \X Nat
  OBVIOUS
<1>1. PICK i \in DOMAIN turns : \E p \in DOMAIN turns[i].frames : x = <<turns[i].id, p>>
  BY FramesIn
<1>2. turns[i].id \in Nat /\ turns[i].frames \in Seq(Kinds)
  BY RecordParts DEF RecordsOK
<1>3. QED
  BY <1>1, <1>2

\* Push adds one frame to those for the next page, the one it leaves to be sent.
LEMMA FramesPush ==
  ASSUME RecordsOK, turns # <<>>, Writes
  PROVE  /\ FramesForNextPage' \subseteq FramesForNextPage \cup {unsent'}
         /\ unsent' \in Nat \X Nat
<1>1. PICK f \in Kinds : Push(f)
  BY DEF Writes
<1>2. turns \in Seq(Record) /\ Len(turns) \in DOMAIN turns
  BY DEF RecordsOK
<1>3. Newest.id \in Nat /\ Newest.frames \in Seq(Kinds)
  BY <1>2, RecordParts DEF Newest
<1>4. unsent' = <<Newest.id, Len(Newest.frames) + 1>>
  BY <1>1 DEF Push, Newest
<1>5. ASSUME NEW x \in FramesForNextPage'
      PROVE  x \in FramesForNextPage \cup {unsent'}
  <2>1. PICK i \in DOMAIN turns' : i > Len(turns') - 2 /\ \E p \in DOMAIN turns'[i].frames :
                                     x = <<turns'[i].id, p>>
    BY <1>5, FramesInNext
  <2>2. PICK p \in DOMAIN turns'[i].frames : x = <<turns'[i].id, p>>
    BY <2>1
  <2>3. i \in DOMAIN turns /\ i > Len(turns) - 2
    BY <1>1, <1>2, <2>1, PushAppends
  <2>4. CASE i # Len(turns)
    <3>1. turns'[i] = turns[i]
      BY <1>1, <1>2, <2>3, <2>4, PushAppends
    <3>2. QED
      BY <2>2, <2>3, <3>1, FramesIn
  <2>5. CASE i = Len(turns)
    <3>1. turns'[i].id = Newest.id /\ turns'[i].frames = Append(Newest.frames, f)
      BY <1>1, <1>2, <2>5, PushAppends DEF Newest
    <3>2. p \in DOMAIN Newest.frames \/ p = Len(Newest.frames) + 1
      BY <1>3, <2>2, <3>1
    <3>3. CASE p \in DOMAIN Newest.frames
      BY <2>2, <2>3, <2>5, <3>1, <3>3, FramesIn DEF Newest
    <3>4. CASE p = Len(Newest.frames) + 1
      BY <1>4, <2>2, <3>1, <3>4
    <3>5. QED
      BY <3>2, <3>3, <3>4
  <2>6. QED
    BY <2>4, <2>5
<1>6. QED
  BY <1>3, <1>4, <1>5

\* The end of a turn and the start of one add no frame to those for the next page.
LEMMA FramesRest ==
  ASSUME RecordsOK, BoardOK, (turns # <<>> /\ FinishTurn) \/ Pop
  PROVE  FramesForNextPage' \subseteq FramesForNextPage
<1> SUFFICES ASSUME NEW x \in FramesForNextPage'
             PROVE  x \in FramesForNextPage
  OBVIOUS
<1>1. PICK i \in DOMAIN turns' : i > Len(turns') - 2 /\ \E p \in DOMAIN turns'[i].frames :
                                   x = <<turns'[i].id, p>>
  BY FramesInNext
<1>2. PICK p \in DOMAIN turns'[i].frames : x = <<turns'[i].id, p>>
  BY <1>1
<1>3. turns \in Seq(Record) /\ Len(turns) \in Nat
  BY DEF RecordsOK
<1>4. CASE turns # <<>> /\ FinishTurn
  <2>1. /\ i \in DOMAIN turns /\ i > Len(turns) - 2
        /\ turns'[i].id = turns[i].id /\ turns'[i].frames = turns[i].frames
    BY <1>1, <1>3, <1>4, FinishMarks DEF Newest
  <2>2. QED
    BY <1>2, <2>1, FramesIn
<1>5. CASE Pop
  <2>1. Head(queue).turn \in Nat /\ turns' = NewRecord(Head(queue).turn)
    <3>1. Head(queue) \in Jobs
      BY <1>5 DEF Pop, BoardOK
    <3>2. QED
      BY <1>5, <3>1 DEF Pop, Jobs
  <2>2. Newest'.frames = <<>> /\ turns' \in Seq(Record)
    BY <1>3, <2>1, NewRecordKeeps DEF RecordsOK
  <2>3. i # Len(turns')
    BY <1>2, <2>2 DEF Newest
  <2>4. PICK d \in {0, 1} : /\ Len(turns') = Len(turns) + 1 - d
                            /\ i + d \in DOMAIN turns /\ turns'[i] = turns[i + d]
    BY <1>3, <2>1, <2>3, NewRecordKeeps DEF RecordsOK
  <2>5. i + d > Len(turns) - 2
    BY <1>1, <1>3, <2>2, <2>4
  <2>6. QED
    BY <1>2, <2>4, <2>5, FramesIn
<1>6. QED
  BY <1>4, <1>5

\* A step that moves no socket, and of the frames adds at most the one it leaves to be sent.
LEMMA FramesKept ==
  ASSUME FramesOK, RecordsOK, UNCHANGED <<got, handing, attached>>,
         unsent' \in Nat \X Nat \/ unsent' = None,
         \/ unsent' = unsent /\ FramesForNextPage' \subseteq FramesForNextPage
         \/ unsent = None /\ FramesForNextPage' \subseteq FramesForNextPage \cup {unsent'},
         pc' \in {"wait", "exited", "popped", "ended", "taken", "settle"} => unsent' = None
  PROVE  FramesOK'
<1>1. None \notin FramesForNextPage
  BY FramesTyped, RunnerAssumption DEF RunnerAssumption
<1>2. attached # None =>
        FramesForNextPage' \subseteq got[attached] \cup handing.frames \cup {unsent'}
  BY <1>1 DEF FramesOK
<1>3. QED
  BY <1>2 DEF FramesOK

\* Every step keeps the frames of the last two turns with the page or on their way to it.
LEMMA FramesStep ==
  ASSUME FramesOK, RecordsOK, BoardOK, PagesOK, [Next]_vars
  PROVE  FramesOK'
<1> USE DEF pages, frames, ending, asked
<1>0. UNCHANGED turns => FramesForNextPage' = FramesForNextPage
  BY DEF FramesForNextPage
<1>1. CASE UNCHANGED vars
  BY <1>0, <1>1, FramesKept DEF vars, FramesOK
<1>2. CASE Pop
  <2>1. UNCHANGED <<got, handing, attached, unsent>> /\ pc = "wait"
    BY <1>2 DEF Pop
  <2>2. FramesForNextPage' \subseteq FramesForNextPage
    BY <1>2, FramesRest
  <2>3. QED
    BY <2>1, <2>2, FramesKept DEF FramesOK
<1>3. CASE \/ Begin \/ Approved \/ (\E failed \in BOOLEAN : EndTurn(failed))
           \/ TakeRequest \/ DropToken \/ CloseRefused \/ Exit \/ Stop \/ StopTurn
  <2>1. /\ UNCHANGED <<turns, got, handing, attached, unsent>>
        /\ pc' \in {"wait", "exited", "popped", "ended", "taken", "settle"} => unsent = None
    BY <1>3 DEF Begin, Approved, EndTurn, TakeRequest, DropToken, CloseRefused, Exit, Stop,
       StopTurn, FramesOK
  <2>2. QED
    BY <1>0, <2>1, FramesKept DEF FramesOK
<1>4. CASE SayChunk \/ AskApproval \/ SayUsage \/ SayLast \/ ReportError \/ ReportDone
  <2>1. UNCHANGED <<got, handing, attached>> /\ unsent = None
        /\ pc' \notin {"wait", "exited", "popped", "ended", "taken", "settle"}
    BY <1>4 DEF SayChunk, AskApproval, SayUsage, SayLast, ReportError, ReportDone, FramesOK
  <2>2. turns # <<>> /\ Writes
    BY <1>4, Speaks DEF RecordsOK
  <2>3. QED
    BY <2>1, <2>2, FramesPush, FramesKept
<1>5. CASE EndSilently \/ CloseBoardJob \/ ReportFinish
  <2>1. UNCHANGED <<got, handing, attached, unsent>> /\ unsent = None /\ FinishTurn
        /\ pc \notin Resting
    BY <1>5 DEF EndSilently, CloseBoardJob, ReportFinish, FramesOK, Resting
  <2>2. FramesForNextPage' \subseteq FramesForNextPage
    BY <2>1, FramesRest DEF RecordsOK
  <2>3. QED
    BY <2>1, <2>2, FramesKept DEF FramesOK
<1>6. CASE Deliver
  <2>1. /\ got' = [s \in Conn |-> IF s = attached /\ sock[s] # "closed" THEN got[s] \cup {unsent}
                                  ELSE got[s]]
        /\ unsent' = None /\ UNCHANGED <<turns, handing, attached, pc>>
    BY <1>6 DEF Deliver
  <2>2. attached # None => attached \in Conn /\ sock[attached] = "open"
    BY DEF PagesOK
  <2>3. attached # None => got'[attached] = got[attached] \cup {unsent}
    BY <2>1, <2>2
  <2>4. attached # None =>
          FramesForNextPage' \subseteq got'[attached] \cup handing'.frames \cup {unsent'}
    BY <1>0, <2>1, <2>3 DEF FramesOK
  <2>5. got' \in [Conn -> SUBSET (Nat \X Nat)]
    BY <1>6, <2>1 DEF FramesOK, Deliver
  <2>6. QED
    BY <2>1, <2>4, <2>5 DEF FramesOK
<1>7. ASSUME NEW s \in Conn, NEW c, Open(s, c)
      PROVE  FramesOK'
  <2>1. UNCHANGED <<turns, got, unsent, pc>>
    BY <1>7 DEF Open
  <2>2. CASE Held(c)
    BY <1>0, <1>7, <2>1, <2>2, FramesKept DEF Open, FramesOK
  <2>3. CASE ~Held(c)
    <3>1. attached' = s /\ handing' = [conn |-> s, frames |-> FramesForNextPage]
      BY <1>7, <2>3 DEF Open
    <3>2. FramesForNextPage \subseteq Nat \X Nat
      BY FramesTyped
    <3>3. QED
      BY <1>0, <2>1, <3>1, <3>2 DEF FramesOK
  <2>4. QED
    BY <2>2, <2>3
<1>8. CASE HandOver
  <2>1. /\ attached \in Conn /\ handing.conn = attached
        /\ got' = [got EXCEPT ![attached] = @ \cup handing.frames]
        /\ handing' = NotHanding /\ UNCHANGED <<turns, unsent, pc, attached>>
    BY <1>8 DEF HandOver, PagesOK
  <2>2. QED
    BY <1>0, <2>1 DEF FramesOK, NotHanding
<1>9. ASSUME NEW s \in Conn, Finish(s)
      PROVE  FramesOK'
  <2>1. /\ got' = [got EXCEPT ![s] = {}] /\ UNCHANGED <<turns, unsent, pc, handing>>
        /\ attached' = IF attached = s THEN None ELSE attached
    BY <1>9 DEF Finish, Detach
  <2>2. QED
    BY <1>0, <2>1 DEF FramesOK, PagesOK
<1>10. ASSUME NEW s, \/ Submit(s) \/ CancelTurn(s) \/ ResolveApproval(s)
                     \/ PostJob(s) \/ DropJob(s) \/ PeerMessage(s)
       PROVE  FramesOK'
  <2>1. UNCHANGED <<turns, got, handing, attached, unsent, pc>>
    BY <1>10 DEF Submit, CancelTurn, ResolveApproval, PostJob, DropJob, PeerMessage
  <2>2. QED
    BY <1>0, <2>1, FramesKept DEF FramesOK
<1>11. QED
  BY <1>1, <1>2, <1>3, <1>4, <1>5, <1>6, <1>7, <1>8, <1>9, <1>10 DEF Next, Worker, Io

\* There is no frame when the server starts.
LEMMA InitFrames == Init => FramesOK
BY DEF Init, FramesOK, NotHanding

\* A page that is attached, with nothing on its way to it, has every frame of the last two
\* turns, also those the worker wrote while an Attach was handing over the earlier ones.
THEOREM FramesHeld == Spec => []NoFrameLost
<1>1. FramesOK /\ RecordsOK => NoFrameLost
  <2> SUFFICES ASSUME FramesOK, RecordsOK, handing = NotHanding, unsent = None, attached # None
               PROVE  FramesForNextPage \subseteq got[attached]
    BY DEF NoFrameLost
  <2>1. None \notin FramesForNextPage
    BY FramesTyped, RunnerAssumption DEF RunnerAssumption
  <2>2. QED
    BY <2>1 DEF FramesOK, NotHanding
<1>2. PagesOK /\ [Next]_vars => PagesOK'
  BY PagesStep
<1>3. BoardOK /\ [Next]_vars => BoardOK'
  BY BoardStep
<1>4. RecordsOK /\ BoardOK /\ [Next]_vars => RecordsOK'
  BY RecordsStep
<1>5. FramesOK /\ RecordsOK /\ BoardOK /\ PagesOK /\ [Next]_vars => FramesOK'
  BY FramesStep
<1>6. QED
  BY <1>1, <1>2, <1>3, <1>4, <1>5, InitPages, InitBoard, InitRecords, InitFrames, PTL DEF Spec
-----------------------------------------------------------------------------
(* The last word.                                                          *)

LastWord == /\ turns # <<>> /\ Newest.frames # <<>>
            /\ Newest.frames[Len(Newest.frames)] = "last"

\* A page that cancelled its own turn, is there, and whose cancel was not too late.
Owed == job.conn \in askers /\ ~late /\ page[job.conn]

\* A page that asked for the cancel has been a page before, so that it is not made one again,
\* and it was sent the last word unless it is gone.
WordsOK ==
  /\ \A k \in askers : sock[k] # "new" /\ handing.conn # k
  /\ askers # {} => turns # <<>>
  /\ pc \in {"said", "report", "reported", "closing"} => LastWord
  /\ pc \in Resting /\ Owed => LastWord

\* The end of a turn leaves its last word, and a step that leaves the records alone does.
LEMMA LastWordKept ==
  ASSUME RecordsOK, LastWord, UNCHANGED turns \/ FinishTurn
  PROVE  LastWord'
<1>1. CASE UNCHANGED turns
  BY <1>1 DEF LastWord, Newest
<1>2. CASE FinishTurn
  <2>1. Newest'.frames = Newest.frames /\ turns' # <<>>
    BY <1>2, FinishMarks DEF RecordsOK, LastWord
  <2>2. QED
    BY <2>1 DEF LastWord
<1>3. QED
  BY <1>1, <1>2

\* An error or a done is a last word.
LEMMA LastWordSaid ==
  ASSUME RecordsOK, turns # <<>>, Push("last")
  PROVE  LastWord'
<1>1. turns \in Seq(Record) /\ Len(turns) \in DOMAIN turns
  BY DEF RecordsOK
<1>2. Newest.frames \in Seq(Kinds) /\ "last" \in Kinds
  BY <1>1, RecordParts DEF Newest, Kinds
<1>3. Newest'.frames = Append(Newest.frames, "last") /\ turns' # <<>>
  BY <1>1, <1>2, PushAppends
<1>4. QED
  BY <1>2, <1>3 DEF LastWord

\* A step of the worker moves no socket: it is enough that a last word is said.
LEMMA WordsKept ==
  ASSUME WordsOK, UNCHANGED <<sock, page, handing, job, askers, late>>,
         turns # <<>> => turns' # <<>>,
         pc' \in {"said", "report", "reported", "closing"} => LastWord',
         pc' \in Resting /\ Owed => LastWord'
  PROVE  WordsOK'
BY DEF WordsOK, Owed

\* Every step keeps the last word.
LEMMA WordsStep ==
  ASSUME WordsOK, RecordsOK, CancelOK, PagesOK, [Next]_vars
  PROVE  WordsOK'
<1> USE DEF pages, frames, ending, asked
<1>1. CASE UNCHANGED vars
  BY <1>1 DEF vars, WordsOK, Owed, LastWord, Newest
<1>2. CASE Pop
  BY <1>2 DEF Pop, WordsOK, Owed, Resting
<1>3. CASE \/ Begin \/ Approved \/ (\E failed \in BOOLEAN : EndTurn(failed))
           \/ TakeRequest \/ DropToken \/ SayChunk \/ AskApproval \/ SayUsage
  <2>1. /\ UNCHANGED <<sock, page, handing, job, askers, late>>
        /\ pc' \notin {"said", "report", "reported", "closing"} \cup Resting
    BY <1>3 DEF Begin, Approved, EndTurn, TakeRequest, DropToken, SayChunk, AskApproval, SayUsage,
       Resting
  <2>2. turns # <<>> => turns' # <<>>
    <3>1. UNCHANGED turns \/ Writes
      BY <1>3, Speaks DEF Begin, Approved, EndTurn, TakeRequest, DropToken
    <3>2. QED
      BY <3>1, PushAppends DEF RecordsOK, Writes
  <2>3. QED
    BY <2>1, <2>2, WordsKept
<1>4. CASE SayLast \/ ReportError \/ ReportDone
  <2>1. Push("last")
    BY <1>4 DEF SayLast, ReportError, ReportDone
  <2>2. turns # <<>> /\ UNCHANGED <<sock, page, handing, job, askers, late>>
    BY <1>4, Speaks DEF SayLast, ReportError, ReportDone, RecordsOK
  <2>3. LastWord'
    BY <2>1, <2>2, LastWordSaid
  <2>4. QED
    BY <2>2, <2>3, WordsKept DEF LastWord
<1>5. CASE CloseBoardJob \/ ReportFinish \/ CloseRefused
  <2>1. /\ UNCHANGED <<sock, page, handing, job, askers, late>> /\ (UNCHANGED turns \/ FinishTurn)
        /\ pc \in {"said", "closing"}
    BY <1>5 DEF CloseBoardJob, ReportFinish, CloseRefused
  <2>2. LastWord'
    BY <2>1, LastWordKept DEF WordsOK
  <2>3. QED
    BY <2>1, <2>2, WordsKept DEF LastWord
<1>6. CASE EndSilently
  <2>1. /\ UNCHANGED <<sock, page, handing, job, askers, late>> /\ FinishTurn
        /\ pc = "settle" /\ pc' = "wait" /\ Silent
    BY <1>6 DEF EndSilently
  <2>2. ~Owed
    BY <2>1, RunnerAssumption DEF RunnerAssumption, Owed, Silent, CancelOK, AfterTurn
  <2>3. turns' # <<>>
    BY <2>1, FinishMarks DEF RecordsOK, Resting
  <2>4. QED
    BY <2>1, <2>2, <2>3, WordsKept
<1>7. CASE Deliver \/ Exit \/ Stop \/ StopTurn
  <2>1. /\ UNCHANGED <<sock, page, handing, job, askers, late, turns>>
        /\ pc' = pc \/ (pc = "wait" /\ pc' = "exited")
    BY <1>7 DEF Deliver, Exit, Stop, StopTurn
  <2>2. LastWord' = LastWord
    BY <2>1 DEF LastWord, Newest
  <2>3. QED
    BY <2>1, <2>2, WordsKept DEF WordsOK, Resting
<1>8. ASSUME NEW s \in Conn, NEW c, Open(s, c)
      PROVE  WordsOK'
  <2>1. /\ UNCHANGED <<turns, job, pc, askers, late>> /\ sock[s] = "new"
        /\ handing'.conn \in {handing.conn, s}
    BY <1>8 DEF Open
  <2>2. \A k \in askers : k \in Conn /\ k # s /\ sock'[k] # "new" /\ (page'[k] => page[k])
    <3>1. \A k \in askers : k \in Conn /\ k # s
      BY <2>1 DEF WordsOK, CancelOK
    <3>2. CASE Held(c)
      BY <1>8, <3>1, <3>2 DEF Open, WordsOK, PagesOK
    <3>3. CASE ~Held(c)
      <4>1. \A k \in Conn : k # s => sock'[k] \in {"closing", sock[k]}
        BY <1>8, <3>3 DEF Open
      <4>2. \A k \in Conn : page'[k] => page[k]
        BY <1>8, <3>3 DEF Open, DetachCurrent
      <4>3. QED
        BY <3>1, <4>1, <4>2 DEF WordsOK
    <3>4. QED
      BY <3>2, <3>3
  <2>3. LastWord' = LastWord
    BY <2>1 DEF LastWord, Newest
  <2>4. QED
    BY <2>1, <2>2, <2>3 DEF WordsOK, Owed
<1>9. CASE HandOver
  <2>1. /\ UNCHANGED <<turns, job, pc, askers, late, sock>> /\ handing' = NotHanding
        /\ page' = [page EXCEPT ![handing.conn] = TRUE]
    BY <1>9 DEF HandOver
  <2>2. \A k \in askers : k \in Conn /\ page'[k] = page[k] /\ handing'.conn # k
    BY <2>1, RunnerAssumption DEF RunnerAssumption, WordsOK, CancelOK, NotHanding, PagesOK
  <2>3. LastWord' = LastWord
    BY <2>1 DEF LastWord, Newest
  <2>4. QED
    BY <2>1, <2>2, <2>3 DEF WordsOK, Owed
<1>10. ASSUME NEW s \in Conn, Finish(s)
       PROVE  WordsOK'
  <2>1. /\ UNCHANGED <<turns, job, pc, askers, late, handing>>
        /\ sock' = [sock EXCEPT ![s] = "closed"] /\ page' = [page EXCEPT ![s] = FALSE]
    BY <1>10 DEF Finish
  <2>2. \A k \in askers : sock'[k] # "new" /\ (page'[k] => page[k])
    BY <2>1 DEF WordsOK, CancelOK, PagesOK
  <2>3. LastWord' = LastWord
    BY <2>1 DEF LastWord, Newest
  <2>4. QED
    BY <2>1, <2>2, <2>3 DEF WordsOK, Owed
<1>11. ASSUME NEW s \in Conn, CancelTurn(s)
       PROVE  WordsOK'
  <2>1. /\ UNCHANGED <<turns, job, pc, sock, page, handing>>
        /\ sock[s] \in {"open", "closing"} /\ handing = NotHanding
        /\ \/ token = "none" /\ askers' = askers
           \/ token # "none" /\ askers' = askers \cup {s}
        /\ late' = (late \/ (pc = "taken" /\ askers = {}))
    BY <1>11 DEF CancelTurn, Readable, IoFree
  <2>2. LastWord' = LastWord
    BY <2>1 DEF LastWord, Newest
  <2>3. CASE token = "none"
    <3>1. UNCHANGED <<askers, late>>
      BY <2>1, <2>3 DEF CancelOK
    <3>2. QED
      BY <2>1, <2>2, <3>1, WordsKept DEF WordsOK
  <2>4. CASE token # "none"
    <3>1. turns # <<>> /\ pc \notin {"said", "report", "reported", "closing"} \cup Resting
      BY <2>4 DEF CancelOK, InTurn, RecordsOK, Resting
    <3>2. handing.conn # s
      BY <2>1, RunnerAssumption DEF NotHanding, RunnerAssumption
    <3>3. \A k \in askers' : sock[k] # "new" /\ handing.conn # k
      BY <2>1, <2>4, <3>2 DEF WordsOK
    <3>4. QED
      BY <2>1, <3>1, <3>3 DEF WordsOK
  <2>5. QED
    BY <2>3, <2>4
<1>12. ASSUME NEW s, Submit(s) \/ ResolveApproval(s) \/ PostJob(s) \/ DropJob(s) \/ PeerMessage(s)
       PROVE  WordsOK'
  <2>1. UNCHANGED <<turns, job, pc, sock, page, handing, askers, late>>
    BY <1>12 DEF Submit, ResolveApproval, PostJob, DropJob, PeerMessage
  <2>2. LastWord' = LastWord
    BY <2>1 DEF LastWord, Newest
  <2>3. QED
    BY <2>1, <2>2, WordsKept DEF WordsOK
<1>13. QED
  BY <1>1, <1>2, <1>3, <1>4, <1>5, <1>6, <1>7, <1>8, <1>9, <1>10, <1>11, <1>12
     DEF Next, Worker, Io

\* Nobody has asked, and no turn has ended, when the server starts.
LEMMA InitWords == Init => WordsOK
BY DEF Init, WordsOK, Owed

\* What the invariants together say of a page that cancelled its own turn and is still there.
LEMMA CancelEnds ==
  ASSUME WordsOK, FramesOK, RecordsOK, PagesOK, CancelOK
  PROVE  CancelAnswered
<1> SUFFICES ASSUME pc = "wait", job.conn \in askers, ~late, page[job.conn]
             PROVE  /\ Newest.id = job.turn
                    /\ Len(Newest.frames) > 0
                    /\ Newest.frames[Len(Newest.frames)] = "last"
                    /\ <<Newest.id, Len(Newest.frames)>> \in got[job.conn]
  BY DEF CancelAnswered, Newest
<1>1. LastWord
  BY DEF WordsOK, Owed, Resting
<1>2. turns \in Seq(Record) /\ turns # <<>> /\ Newest.id = job.turn /\ Len(turns) \in DOMAIN turns
  BY <1>1 DEF RecordsOK, LastWord
<1>3. /\ Newest.frames \in Seq(Kinds) /\ Len(Newest.frames) > 0
      /\ Len(Newest.frames) \in DOMAIN Newest.frames
  <2>1. Newest.frames \in Seq(Kinds)
    BY <1>2, RecordParts DEF Newest
  <2>2. QED
    BY <1>1, <2>1 DEF LastWord
<1>4. attached = job.conn /\ attached # None /\ handing = NotHanding /\ unsent = None
  BY RunnerAssumption DEF RunnerAssumption, PagesOK, OnePage, CancelOK, FramesOK
<1>5. <<Newest.id, Len(Newest.frames)>> \in FramesForNextPage
  <2>1. Len(turns) > Len(turns) - 2
    BY <1>2
  <2>2. QED
    BY <1>2, <1>3, <2>1, FramesIn DEF Newest
<1>6. <<Newest.id, Len(Newest.frames)>> # None
  BY <1>5, FramesTyped, RunnerAssumption DEF RunnerAssumption
<1>7. QED
  BY <1>1, <1>2, <1>3, <1>4, <1>5, <1>6 DEF LastWord, FramesOK, NotHanding

\* A page that cancelled its own turn and is still there was sent the last word on it, unless no
\* cancel had come by the time RunJob read the request.
THEOREM AnswerHeld == Spec => []CancelAnswered
<1>1. WordsOK /\ FramesOK /\ RecordsOK /\ PagesOK /\ CancelOK => CancelAnswered
  BY CancelEnds
<1>2. PagesOK /\ [Next]_vars => PagesOK'
  BY PagesStep
<1>3. BoardOK /\ [Next]_vars => BoardOK'
  BY BoardStep
<1>4. RecordsOK /\ BoardOK /\ [Next]_vars => RecordsOK'
  BY RecordsStep
<1>5. FramesOK /\ RecordsOK /\ BoardOK /\ PagesOK /\ [Next]_vars => FramesOK'
  BY FramesStep
<1>6. CancelOK /\ [Next]_vars => CancelOK'
  BY CancelStep
<1>7. WordsOK /\ RecordsOK /\ CancelOK /\ PagesOK /\ [Next]_vars => WordsOK'
  BY WordsStep
<1>8. QED
  BY <1>1, <1>2, <1>3, <1>4, <1>5, <1>6, <1>7, InitPages, InitBoard, InitRecords, InitFrames,
     InitCancel, InitWords, PTL DEF Spec
=============================================================================
