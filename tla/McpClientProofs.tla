--------------------------- MODULE McpClientProofs ---------------------------
(***************************************************************************)
(* For every number of calls, of messages the server sends of its own, and *)
(* every set of transports: the client implements RemoteCall, and puts two *)
(* lines together only behind a POST that failed in the middle of one.     *)
(***************************************************************************)
EXTENDS McpClient, SequenceTheorems, TLAPS

Messages == [id : Nat, by : Nat \cup {Server}, good : BOOLEAN]
Requests == [id : Nat, call : Nat]

\* A number is taken, and no entry of the table gives it to another call.
Fits(id, call) == id < next_id /\ \A e \in pending : e.id = id => e.call = call

\* What may be on its way to the client, and to the server.
Lines == {x \in [part : {"line", "head", "tail", "open"}, msg : Messages] :
            x.msg.by = Server \/ Fits(x.msg.id, x.msg.by)}
Asked == {r \in Requests : Fits(r.id, r.call)}

\* Every number in flight belongs to one call of this connection, and the call
\* in progress has been given its own reply, a message of the server's, or none.
CallInv ==
  /\ made \in Nat /\ next_id \in Nat /\ next_id >= 1
  /\ pending \subseteq Asked /\ \A e \in pending : e.id >= 1 /\ e.call <= made
  /\ inbox \subseteq Asked /\ queue \in Seq(Asked)
  /\ pipe \in Seq(Lines) /\ leftover \in Seq(Lines)
  /\ last.call \in 0 .. made
  /\ InCall => made >= 1 /\ (answer # None => answer.by \in {made, Server, None})
  /\ Alive => (InCall <=> last.call # made)
  /\ pc = "writing" => next_id >= 2 /\ Unwritten \in Asked

-----------------------------------------------------------------------------
(* The client implements RemoteCall.                                       *)

\* A sequence over a set is one over any larger set.
LEMMA SeqGrows ==
  ASSUME NEW S, NEW T, S \subseteq T, NEW s \in Seq(S)
  PROVE  s \in Seq(T)
OBVIOUS

\* Where the elements of an appended sequence are.
LEMMA Appended ==
  ASSUME NEW S, NEW s \in Seq(S), NEW x \in S
  PROVE  /\ Len(Append(s, x)) = Len(s) + 1 /\ Append(s, x)[Len(s) + 1] = x
         /\ \A i \in 1 .. Len(s) : Append(s, x)[i] = s[i]
OBVIOUS

\* What fits goes on fitting: everything in flight stays what it was.
LEMMA InFlight ==
  ASSUME \A id \in Nat, call \in Nat : Fits(id, call) => Fits(id, call)'
  PROVE  /\ Lines \subseteq Lines' /\ Asked \subseteq Asked'
         /\ \A s \in Seq(Lines) : s \in Seq(Lines')
         /\ \A s \in Seq(Asked) : s \in Seq(Asked')
<1>1. Lines \subseteq Lines' /\ Asked \subseteq Asked'
  <2>1. \A x \in Lines : x \in Lines'
    BY DEF Lines, Messages
  <2>2. \A r \in Asked : r \in Asked'
    BY DEF Asked, Requests
  <2>3. QED
    BY <2>1, <2>2
<1> HIDE DEF Lines, Asked
<1>2. QED
  BY <1>1, SeqGrows

\* A line that parses is one that was on its way.
LEMMA Parsed ==
  ASSUME NEW s \in Seq(Lines), Parse(s) # None
  PROVE  /\ Parse(s) \in Messages
         /\ Parse(s).by = Server \/ Fits(Parse(s).id, Parse(s).by)
<1>1. s[1] \in Lines /\ Parse(s) = s[1].msg
  BY DEF Parse
<1>2. QED
  BY <1>1 DEF Lines

\* A dispatched line gives the call in progress its own reply or a message of the
\* server's, and takes nothing from anybody else.
LEMMA Dispatches ==
  ASSUME CallInv, NEW s \in Seq(Lines), Dispatch(s)
  PROVE  /\ next_id' = next_id /\ pending' \subseteq pending
         /\ InCall /\ answer' # None => answer'.by \in {made, Server, None}
         /\ \A id \in Nat, call \in Nat : Fits(id, call) => Fits(id, call)'
<1>1. CASE \E e \in pending : OnMessage(s, e)
  <2> DEFINE e == CHOOSE e \in pending : OnMessage(s, e)
  <2>1. e \in pending /\ OnMessage(s, e)
    BY <1>1
  <2>2. /\ pending' = pending \ {e} /\ next_id' = next_id
        /\ answer' = IF e.call = made /\ InCall
                       THEN [by |-> Parse(s).by, good |-> Parse(s).good] ELSE answer
    BY <1>1 DEF Dispatch
  <2> HIDE DEF e
  <2>3. Parse(s) \in Messages /\ (Parse(s).by = Server \/ e.call = Parse(s).by)
    BY <2>1, Parsed DEF OnMessage, Fits
  <2>4. InCall /\ answer' # None => answer'.by \in {made, Server, None}
    <3>1. CASE e.call = made /\ InCall
      BY <2>2, <2>3, <3>1
    <3>2. CASE ~(e.call = made /\ InCall)
      BY <2>2, <3>2 DEF CallInv
    <3>3. QED
      BY <3>1, <3>2
  <2>5. QED
    BY <2>2, <2>4 DEF Fits
<1>2. CASE ~\E e \in pending : OnMessage(s, e)
  BY <1>2 DEF Dispatch, CallInv, table, Fits
<1>3. QED
  BY <1>1, <1>2
\* A step that begins no call, and whose lines and requests fit.
LEMMA CallKept ==
  ASSUME CallInv, made' = made, last' = last \/ last'.call = made,
         next_id' = next_id, pending' \subseteq pending,
         InCall' => InCall /\ (answer' # None => answer'.by \in {made, Server, None}),
         Alive' => (InCall' <=> last'.call # made), pc' = "writing" => pc = "writing",
         inbox' \subseteq Asked, queue' \in Seq(Asked),
         pipe' \in Seq(Lines), leftover' \in Seq(Lines)
  PROVE  CallInv'
<1>1. \A id \in Nat, call \in Nat : Fits(id, call) => Fits(id, call)'
  BY DEF Fits
<1>2. /\ Lines \subseteq Lines' /\ Asked \subseteq Asked'
      /\ \A s \in Seq(Lines) : s \in Seq(Lines')
      /\ \A s \in Seq(Asked) : s \in Seq(Asked')
  BY <1>1, InFlight
<1>3. /\ pending' \subseteq Asked' /\ inbox' \subseteq Asked' /\ queue' \in Seq(Asked')
      /\ pipe' \in Seq(Lines') /\ leftover' \in Seq(Lines')
  BY <1>2 DEF CallInv
<1>4. pc' = "writing" => next_id' >= 2 /\ Unwritten' \in Asked'
  BY <1>2 DEF CallInv, Unwritten
<1>5. QED
  BY <1>3, <1>4 DEF CallInv

\* A request goes out under a number nothing in flight bears.
LEMMA SendKeeps ==
  ASSUME CallInv, NEW method, SendRequest(method), UNCHANGED <<pipe, leftover>>
  PROVE  CallInv' /\ made' = made + 1 /\ last' = last /\ (InCall' \/ ~Alive')
<1> DEFINE r == [id |-> next_id, call |-> made + 1]
<1>1. /\ made' = made + 1 /\ last' = last /\ next_id' = next_id + 1
      /\ \/ pc' \in {"killed", "undefined"} /\ UNCHANGED <<queue, inbox, pending>>
         \/ pc' = "waiting" /\ answer'.by = None /\ UNCHANGED <<queue, inbox, pending>>
         \/ /\ InCall' /\ answer' = None /\ pending' = pending \cup {r}
            /\ inbox' \subseteq inbox \cup {r}
            /\ queue' = queue \/ queue' = Append(queue, r)
  BY DEF SendRequest, Write, TakenId, ToChild, Enqueue, InCall
<1>2. made \in Nat /\ next_id \in Nat /\ next_id >= 1 /\ r \in Requests
  BY DEF CallInv, Requests
<1>3. \A id \in Nat, call \in Nat : Fits(id, call) => Fits(id, call)'
  BY <1>1, <1>2 DEF Fits
<1>4. /\ Lines \subseteq Lines' /\ Asked \subseteq Asked'
      /\ \A s \in Seq(Lines) : s \in Seq(Lines')
      /\ \A s \in Seq(Asked) : s \in Seq(Asked')
  BY <1>3, InFlight
<1>5. r \in Asked'
  <2>1. \A e \in pending : e.id < next_id
    BY DEF CallInv, Asked, Fits
  <2>2. \A e \in pending' : e.id = next_id => e = r
    BY <1>1, <2>1, <1>2
  <2> HIDE DEF r
  <2>3. r.id = next_id /\ r.call = made + 1
    BY DEF r
  <2>4. ASSUME NEW id \in Nat, NEW call \in Nat, id = next_id, call = made + 1
        PROVE  Fits(id, call)'
    BY <1>1, <1>2, <2>2, <2>3, <2>4 DEF Fits
  <2>5. QED
    BY <1>2, <2>3, <2>4 DEF Asked
<1>6. /\ pending' \subseteq Asked' /\ inbox' \subseteq Asked'
      /\ pipe' \in Seq(Lines') /\ leftover' \in Seq(Lines')
  BY <1>1, <1>4, <1>5 DEF CallInv
<1>7. queue' \in Seq(Asked')
  <2>1. queue \in Seq(Asked')
    BY <1>4 DEF CallInv
  <2> HIDE DEF r
  <2>2. QED
    BY <1>1, <1>5, <2>1
<1>8. \A e \in pending' : e.id >= 1 /\ e.call <= made'
  <2>1. \A e \in pending : e.id >= 1 /\ e.call <= made /\ e.call \in Nat
    BY DEF CallInv, Asked, Requests
  <2>2. QED
    BY <1>1, <1>2, <2>1
<1>9. made' \in Nat /\ next_id' \in Nat /\ next_id' >= 1 /\ last'.call \in 0 .. made'
  BY <1>1, <1>2 DEF CallInv
<1>10. InCall' => made' >= 1 /\ (answer' # None => answer'.by \in {made', Server, None})
  BY <1>1, <1>2 DEF InCall
<1>11. InCall' \/ ~Alive'
  BY <1>1 DEF InCall, Alive
<1>12. Alive' => (InCall' <=> last'.call # made')
  <2>1. last.call \in 0 .. made
    BY DEF CallInv
  <2>2. last'.call # made'
    BY <1>1, <1>2, <2>1
  <2>3. QED
    BY <1>11, <2>2
<1>13. next_id' >= 2 /\ Unwritten' = r
  BY <1>1, <1>2 DEF Unwritten
<1>14. QED
  BY <1>1, <1>5, <1>6, <1>7, <1>8, <1>9, <1>10, <1>11, <1>12, <1>13 DEF CallInv

\* A disconnected client has nothing in flight.
LEMMA GoneKeeps ==
  ASSUME CallInv, Gone, UNCHANGED <<made, last>>
  PROVE  CallInv'
<1>1. /\ InCall' => InCall /\ (answer' # None => answer'.by \in {made, Server, None})
      /\ pc' # "writing" /\ (Alive' => (InCall' <=> last.call # made))
  BY DEF CallInv, Gone, InCall, Alive
<1>2. QED
  BY <1>1 DEF CallInv, Gone
\* A line that was read, or flushed, has been dispatched or is left over.
LEMMA ReadKeeps ==
  ASSUME CallInv, (\E x \in Lines : ReadPiece(x)) \/ Flush
  PROVE  /\ next_id' = next_id /\ pending' \subseteq pending
         /\ InCall /\ answer' # None => answer'.by \in {made, Server, None}
         /\ leftover' \in Seq(Lines)
<1>1. ASSUME NEW x \in Lines, ReadPiece(x)
      PROVE  /\ next_id' = next_id /\ pending' \subseteq pending
             /\ InCall /\ answer' # None => answer'.by \in {made, Server, None}
             /\ leftover' \in Seq(Lines)
  <2>1. Append(leftover, x) \in Seq(Lines)
    BY DEF CallInv
  <2>2. CASE Ends(x)
    <3>1. Dispatch(Append(leftover, x)) /\ leftover' = <<>>
      BY <1>1, <2>2 DEF ReadPiece
    <3>2. leftover' \in Seq(Lines)
      BY <3>1
    <3>3. QED
      BY <2>1, <3>1, <3>2, Dispatches
  <2>3. CASE ~Ends(x)
    BY <1>1, <2>1, <2>3 DEF ReadPiece, table, CallInv
  <2>4. QED
    BY <2>2, <2>3
<1>2. CASE Flush
  BY <1>2, Dispatches DEF Flush, table, CallInv
<1>3. QED
  BY <1>1, <1>2

\* What the server writes in answer to a request fits it.
LEMMA PiecesFit ==
  ASSUME CallInv, NEW r \in inbox, NEW good \in BOOLEAN
  PROVE  /\ Message(r.id, r.call, good) \in Messages
         /\ Pieces(Message(r.id, r.call, good)) \subseteq Seq(Lines)
<1> DEFINE m == Message(r.id, r.call, good)
<1>1. r \in Requests /\ Fits(r.id, r.call)
  BY DEF CallInv, Asked
<1>2. m \in Messages
  BY <1>1 DEF Message, Messages, Requests
<1>3. ASSUME NEW part \in {"line", "head", "tail", "open"}
      PROVE  Piece(part, m) \in Lines
  BY <1>1 DEF Piece, Message, Lines, Messages, Requests
<1>4. Pieces(m) \subseteq Seq(Lines)
  BY <1>3 DEF Pieces
<1>5. QED
  BY <1>2, <1>4

\* What it asks of its own answers no call.
LEMMA AskFits ==
  ASSUME NEW id \in Nat
  PROVE  /\ Message(id, Server, FALSE) \in Messages
         /\ Piece("line", Message(id, Server, FALSE)) \in Lines
BY DEF Piece, Message, Lines, Messages

\* Every step keeps the calls and their numbers apart.
LEMMA CallStep ==
  ASSUME CallInv, [Next]_vars
  PROVE  CallInv'
<1> USE DEF transport, table, remote, client, history
<1>1. CASE UNCHANGED vars
  BY <1>1, CallKept DEF vars, CallInv, InCall, Alive
<1>2. CASE \E k \in Kind : Connect(k)
  <2>1. /\ UNCHANGED <<made, last, table, inbox, queue, pipe>> /\ leftover' = <<>>
        /\ pc = "idle" /\ pc' = "starting"
    BY <1>2 DEF Connect, Start, StartReader
  <2>2. QED
    BY <2>1, CallKept DEF CallInv, InCall, Alive
<1>3. CASE Handshake \/ ListTools \/ CallTool
  BY <1>3, SendKeeps DEF Handshake, ListTools, CallTool
<1>4. CASE Return \/ Timeout
  <2>1. /\ UNCHANGED <<leftover, next_id, pending, pipe, inbox, made>>
        /\ last'.call = made
    <3>1. CASE Return
      BY <3>1 DEF Return, Ended
    <3>2. CASE Timeout
      BY <3>2 DEF Timeout, Ended
    <3>3. QED
      BY <1>4, <3>1, <3>2
  <2>5. /\ pc' \notin {"waiting", "writing"}
        /\ queue' = queue \/ queue' = Append(queue, Notice)
    <3>1. PICK good : Finished(good)
      BY <1>4 DEF Return, Timeout
    <3>2. CASE job = "initialize" /\ Handshaken(good)
      BY <3>2 DEF Handshaken, BeginStop, Enqueue
    <3>3. CASE pc' = "idle" /\ queue' = queue
      BY <3>3
    <3>4. QED
      BY <3>1, <3>2, <3>3 DEF Finished
  <2>2. Notice \in Asked
    BY DEF Notice, Asked, Requests, Fits, CallInv
  <2>3. queue' \in Seq(Asked)
    <3>1. queue \in Seq(Asked)
      BY DEF CallInv
    <3>2. Append(queue, Notice) \in Seq(Asked)
      BY <2>2, <3>1
    <3>3. QED
      BY <2>5, <3>1, <3>2
  <2>4. QED
    BY <2>1, <2>3, <2>5, CallKept DEF CallInv, InCall
<1>5. CASE Disconnect \/ Join \/ Reap
  <2>1. CASE Gone /\ UNCHANGED <<made, last>>
    BY <2>1, GoneKeeps
  <2>2. CASE ~Gone
    <3>1. /\ UNCHANGED <<made, last, next_id, pending, inbox, queue, pipe, leftover>>
          /\ answer' = answer /\ (pc' = pc \/ pc' = "undefined")
      BY <1>5, <2>2 DEF Disconnect, BeginStop, Join, Reap
    <3>2. QED
      BY <3>1, CallKept DEF CallInv, InCall, Alive
  <2>3. QED
    BY <1>5, <2>1, <2>2 DEF Disconnect, Join, Reap
<1>6. CASE Read
  <2>1. Head(pipe) \in Lines /\ Tail(pipe) \in Seq(Lines)
    BY <1>6 DEF Read, CallInv
  <2>2. QED
    BY <1>6, <2>1, ReadKeeps, CallKept DEF Read, CallInv, InCall, Alive
<1>7. CASE SeeStop \/ Leave \/ SeeEnd
  BY <1>7, ReadKeeps, CallKept DEF SeeStop, Leave, SeeEnd, CallInv, InCall, Alive
<1>8. CASE Take
  <2>1. running => Head(queue) \in Asked /\ Tail(queue) \in Seq(Asked)
    BY <1>8 DEF Take, CallInv
  <2>2. QED
    BY <1>8, <2>1, CallKept DEF Take, CallInv, InCall, Alive
<1>9. CASE \E thrown \in BOOLEAN : EndPost(thrown)
  BY <1>9, ReadKeeps, CallKept DEF EndPost, CallInv, InCall, Alive
<1>10. ASSUME NEW r \in inbox, NEW good \in BOOLEAN, Answer(r, good)
       PROVE  CallInv'
  <2>1. pipe' \in Seq(Lines)
    <3>1. PICK s \in Pieces(Message(r.id, r.call, good)) : pipe' = pipe \o s
      BY <1>10 DEF Answer
    <3>2. s \in Seq(Lines)
      BY <3>1, PiecesFit
    <3>3. QED
      BY <3>1, <3>2 DEF CallInv
  <2>2. QED
    BY <1>10, <2>1, CallKept DEF Answer, CallInv, InCall, Alive
<1>11. ASSUME NEW id \in 1 .. MaxCalls, Ask(id)
       PROVE  CallInv'
  <2> DEFINE x == Piece("line", Message(id, Server, FALSE))
  <2>1. x \in Lines
    <3>1. id \in Nat
      BY McpAssumption DEF McpAssumption
    <3>2. QED
      BY <3>1, AskFits
  <2> HIDE DEF x
  <2>2. pipe' \in Seq(Lines)
    <3>1. pipe' = Append(pipe, x)
      BY <1>11 DEF Ask, x
    <3>2. QED
      BY <2>1, <3>1 DEF CallInv
  <2>3. QED
    BY <1>11, <2>2, CallKept DEF Ask, CallInv, InCall, Alive
<1>13. CASE Exit
  BY <1>13, CallKept DEF Exit, CallInv, InCall, Alive
<1>14. CASE Written \/ WriteBroken
  <2>1. /\ UNCHANGED <<made, last, next_id, queue, pipe, leftover>>
        /\ pending' \subseteq pending /\ pc = "writing" /\ pc' \in {"waiting", "killed"}
        /\ answer' = answer \/ answer'.by = None
        /\ inbox' \subseteq inbox \cup {Unwritten}
    BY <1>14 DEF Written, WriteBroken, ToChild
  <2>2. QED
    BY <2>1, CallKept DEF CallInv, InCall, Alive
<1>12. QED
  BY <1>1, <1>2, <1>3, <1>4, <1>5, <1>6, <1>7, <1>8, <1>9, <1>10, <1>11,
     <1>13, <1>14 DEF Next, Caller, Reader, Remote
\* Every step of the client is a step of RemoteCall, or none.
LEMMA StepKeepsPromise ==
  ASSUME CallInv, [Next]_vars
  PROVE  [Promise!Next]_(Promise!callVars)
<1> USE DEF transport, table, remote, client, history
<1> DEFINE calling == IF InCall \/ (~Alive /\ last.call # made) THEN made ELSE 0
<1> made \in Nat /\ last.call \in 0 .. made
  BY DEF CallInv
<1>1. ASSUME made' = made + 1, made < MaxCalls, last' = last, pc \in {"starting", "idle"},
             InCall' \/ ~Alive'
      PROVE  Promise!Begin
  <2>1. calling = 0 /\ calling' = made + 1
    BY <1>1 DEF InCall, Alive
  <2>2. QED
    BY <1>1, <2>1 DEF Promise!Begin
<1>2. ASSUME pc = "waiting", pc' \notin {"waiting", "writing"}, made' = made,
             \E by \in {made, Server, None} : last' = [call |-> made, by |-> by]
      PROVE  Promise!End
  <2>1. calling = made /\ made # 0 /\ calling' = 0
    BY <1>2 DEF CallInv, InCall
  <2>2. QED
    BY <1>2, <2>1 DEF Promise!End
<1>3. ASSUME UNCHANGED <<made, last>>, InCall' => InCall, pc = pc' \/ Alive,
             InCall => InCall' \/ ~Alive'
      PROVE  UNCHANGED Promise!callVars
  <2>1. calling' = calling
    BY <1>3 DEF CallInv, InCall, Alive
  <2>2. QED
    BY <1>3, <2>1 DEF Promise!callVars
<1>4. CASE UNCHANGED vars
  BY <1>3, <1>4 DEF vars, InCall
<1>5. CASE Handshake \/ ListTools \/ CallTool
  <2>1. /\ made' = made + 1 /\ made < MaxCalls /\ last' = last /\ pc \in {"starting", "idle"}
        /\ InCall' \/ ~Alive'
    BY <1>5 DEF Handshake, ListTools, CallTool, SendRequest, Write, InCall, Alive
  <2>2. QED
    BY <1>1, <2>1 DEF Promise!Next
<1>6. CASE Return \/ Timeout
  <2>1. /\ pc = "waiting" /\ pc' \notin {"waiting", "writing"} /\ made' = made
    BY <1>6 DEF Return, Timeout, Finished, Handshaken, BeginStop
  <2>2. \E by \in {made, Server, None} : last' = [call |-> made, by |-> by]
    BY <1>6, <2>1 DEF Return, Timeout, Ended, CallInv, InCall
  <2>3. QED
    BY <1>2, <2>1, <2>2 DEF Promise!Next
<1>7. CASE (\E k \in Kind : Connect(k)) \/ Disconnect \/ Join \/ Reap
  <2>1. /\ UNCHANGED <<made, last>>
        /\ InCall' => InCall
        /\ pc = pc' \/ Alive
        /\ InCall => InCall' \/ ~Alive'
    BY <1>7 DEF Connect, Disconnect, BeginStop, Join, Reap, Gone, InCall, Alive
  <2>2. QED
    BY <1>3, <2>1
<1>11. CASE Written \/ WriteBroken
  BY <1>3, <1>11 DEF Written, WriteBroken, InCall, Alive
<1>8. CASE Reader
  BY <1>3, <1>8 DEF InCall, Reader, Read, SeeStop, Leave, SeeEnd, Take, EndPost
<1>9. CASE Remote
  BY <1>3, <1>9 DEF InCall, Remote, Answer, Ask, Exit
<1>10. QED
  BY <1>4, <1>5, <1>6, <1>7, <1>8, <1>9, <1>11 DEF Next, Caller

\* The client does what RemoteCall promises: a call ends once, with its own reply,
\* a message of the server's own or a failure, and never with a reply to another.
THEOREM PromiseKept == Spec => KeepsPromise
<1>1. Init => CallInv /\ Promise!Init
  BY McpAssumption DEF McpAssumption, Init, CallInv, Promise!Init, InCall, Alive
<1>2. CallInv /\ [Next]_vars => CallInv'
  BY CallStep
<1>3. CallInv /\ [Next]_vars => [Promise!Next]_(Promise!callVars)
  BY StepKeepsPromise
<1>4. QED
  BY <1>1, <1>2, <1>3, PTL DEF Spec, KeepsPromise, Promise!Spec
-----------------------------------------------------------------------------
(* Lines are read as they were sent.                                       *)

\* A piece that does not end a line is the last there will be, or its rest follows.
Follows(m, i) ==
  IF i > Len(pipe) THEN server # "up" ELSE pipe[i] = Piece("tail", m)

\* What a reader that may still read has ahead of it: whole lines, and at most one
\* line, the last, without its end; what is left over is the head of the first.
Whole ==
  /\ \A i \in 1 .. Len(pipe) :
       /\ pipe[i].part = "head" => Follows(pipe[i].msg, i + 1)
       /\ pipe[i].part = "open" => i = Len(pipe) /\ server # "up"
       /\ pipe[i].part = "tail" => IF i = 1 THEN leftover # <<>>
                                   ELSE pipe[i - 1].part = "head"
  /\ leftover # <<>> =>
       /\ Len(leftover) = 1
       /\ \/ leftover[1].part = "head" /\ Follows(leftover[1].msg, 1)
          \/ leftover[1].part = "open" /\ pipe = <<>> /\ server # "up"

StreamInv ==
  /\ kind \in {"posix", "windows", "http"}
  /\ ~rpc => pipe = <<>> /\ leftover = <<>> /\ server # "up" /\ reader = "none"
  /\ kind = "http" /\ reader # "posting" => pipe = <<>> /\ server # "up"
  /\ kind = "http" /\ reader # "posting" /\ ~cut => leftover = <<>>
  /\ ~cut /\ reader # "done" => Whole
  /\ LinesWhole

\* A step that leaves the stream alone keeps it whole.
LEMMA StreamKept ==
  ASSUME StreamInv, UNCHANGED <<kind, rpc, reader, pipe, leftover, server, cut, garbled>>
  PROVE  StreamInv'
BY DEF StreamInv, Whole, Follows, LinesWhole

\* Nothing ahead and nothing left over is whole.
LEMMA EmptyWhole ==
  ASSUME pipe = <<>>, leftover = <<>>
  PROVE  Whole
BY DEF Whole

\* A whole line goes to its message, and what is ahead stays whole.
LEMMA ReadWhole ==
  ASSUME Whole, pipe \in Seq(Lines), leftover \in Seq(Lines), pipe # <<>>,
         ReadPiece(Head(pipe)), pipe' = Tail(pipe), server' = server
  PROVE  Whole' /\ (garbled' => garbled)
<1>0. PICK x : x = Head(pipe)
  OBVIOUS
<1>1. PICK n \in Nat :
        /\ n = Len(pipe) /\ n >= 1 /\ x = pipe[1]
        /\ Len(pipe') = n - 1 /\ \A i \in 1 .. n - 1 : pipe'[i] = pipe[i + 1]
        /\ n = 1 => pipe' = <<>>
  <2>1. /\ Len(pipe) \in Nat /\ Len(pipe) >= 1 /\ pipe[1] = Head(pipe)
        /\ Len(Tail(pipe)) = Len(pipe) - 1
        /\ \A i \in 1 .. Len(pipe) - 1 : Tail(pipe)[i] = pipe[i + 1]
    OBVIOUS
  <2>2. Len(pipe) = 1 => Tail(pipe) = <<>>
    BY <2>1
  <2>3. /\ Len(pipe') = Len(pipe) - 1
        /\ \A i \in 1 .. Len(pipe) - 1 : pipe'[i] = pipe[i + 1]
        /\ Len(pipe) = 1 => pipe' = <<>>
    BY <2>1, <2>2
  <2>4. x = pipe[1]
    BY <1>0, <2>1
  <2>5. QED
    BY <2>1, <2>3, <2>4, Zenon
<1>2. x \in Lines /\ x.part \in {"line", "head", "tail", "open"} /\ ReadPiece(x)
  <2>1. x \in Lines
    BY <1>0
  <2>2. QED
    BY <1>0, <2>1 DEF Lines
<1>3. /\ x.part = "head" => IF 2 > n THEN server # "up" ELSE pipe[2] = Piece("tail", x.msg)
      /\ x.part = "open" => n = 1 /\ server # "up"
      /\ x.part = "tail" => leftover # <<>>
      /\ leftover # <<>> =>
           /\ Len(leftover) = 1 /\ leftover[1].part = "head"
           /\ x = Piece("tail", leftover[1].msg)
  BY <1>1 DEF Whole, Follows
\* What lies behind the first piece.
<1>4. /\ \A i \in 1 .. n - 1 :
           /\ pipe'[i].part = "head" =>
                IF i + 1 > n - 1 THEN server # "up" ELSE pipe'[i + 1] = Piece("tail", pipe'[i].msg)
           /\ pipe'[i].part = "open" => i = n - 1 /\ server # "up"
           /\ pipe'[i].part = "tail" => IF i = 1 THEN x.part = "head"
                                        ELSE pipe'[i - 1].part = "head"
  <2> SUFFICES ASSUME NEW i \in 1 .. n - 1
               PROVE  /\ pipe'[i].part = "head" =>
                           IF i + 1 > n - 1 THEN server # "up"
                           ELSE pipe'[i + 1] = Piece("tail", pipe'[i].msg)
                      /\ pipe'[i].part = "open" => i = n - 1 /\ server # "up"
                      /\ pipe'[i].part = "tail" => IF i = 1 THEN x.part = "head"
                                                   ELSE pipe'[i - 1].part = "head"
    OBVIOUS
  <2>1. /\ i + 1 \in 1 .. Len(pipe) /\ pipe'[i] = pipe[i + 1]
        /\ i + 1 <= n - 1 => pipe'[i + 1] = pipe[i + 2]
        /\ i # 1 => pipe'[i - 1] = pipe[i]
    BY <1>1
  <2>2. /\ pipe[i + 1].part = "head" => Follows(pipe[i + 1].msg, i + 2)
        /\ pipe[i + 1].part = "open" => i + 1 = Len(pipe) /\ server # "up"
        /\ pipe[i + 1].part = "tail" => pipe[i].part = "head"
    BY <2>1 DEF Whole
  <2>3. QED
    BY <1>1, <2>1, <2>2 DEF Follows
<1>5. ASSUME leftover' = <<>>, x.part \in {"line", "tail"}
      PROVE  Whole'
  BY <1>1, <1>4, <1>5 DEF Whole, Follows
<1>6. CASE x.part = "line"
  <2>1. leftover = <<>> /\ leftover' = <<>>
    BY <1>2, <1>3, <1>6 DEF Piece, ReadPiece, Ends
  <2>2. ~(Len(Append(leftover, x)) > 1)
    BY <1>2, <2>1, Appended
  <2>3. garbled' => garbled
    BY <1>2, <1>6, <2>2 DEF ReadPiece, Ends
  <2>4. QED
    BY <1>5, <1>6, <2>1, <2>3
<1>7. CASE x.part = "tail"
  <2> DEFINE s == Append(leftover, x)
  <2>1. Len(leftover) = 1 /\ leftover[1].part = "head" /\ x = Piece("tail", leftover[1].msg)
    BY <1>3, <1>7
  <2>10. Len(leftover) = 1 /\ 1 \in 1 .. Len(leftover)
    BY <2>1
  <2>2. leftover[1] \in Lines
    BY <2>10, ElementOfSeq, Zenon
  <2>3. leftover[1].msg \in Messages
    BY <2>2 DEF Lines
  <2>4. Len(s) = 2 /\ s[1] = leftover[1] /\ s[2] = x
    <3>1. /\ Len(s) = Len(leftover) + 1 /\ s[Len(leftover) + 1] = x
          /\ \A i \in 1 .. Len(leftover) : s[i] = leftover[i]
      BY <1>2, Appended, Zenon
    <3> HIDE DEF s
    <3>2. QED
      BY <2>10, <3>1
  <2> HIDE DEF s
  <2>5. x.msg = leftover[1].msg
    BY <2>1 DEF Piece
  <2>6. Parse(s) = leftover[1].msg
    BY <1>7, <2>1, <2>4, <2>5 DEF Parse
  <2>7. Parse(s) # None
    BY <2>3, <2>6, McpAssumption DEF McpAssumption, Messages
  <2>8. leftover' = <<>> /\ (garbled' => garbled)
    BY <1>2, <1>7, <2>7 DEF ReadPiece, Ends, s
  <2>9. QED
    BY <1>5, <1>7, <2>8
<1>8. CASE x.part \in {"head", "open"}
  <2>1. leftover = <<>>
    BY <1>3, <1>8 DEF Piece
  <2>2. leftover' = Append(leftover, x) /\ garbled' = garbled
    BY <1>2, <1>8 DEF ReadPiece, Ends
  <2>3. leftover' # <<>> /\ Len(leftover') = 1 /\ leftover'[1] = x
    BY <2>1, <2>2
  <2>4. ASSUME leftover'[1].part = "head"
        PROVE  Follows(leftover[1].msg, 1)'
    <3>1. IF 2 > n THEN server # "up" ELSE pipe'[1] = Piece("tail", x.msg)
      BY <1>1, <1>3, <2>3, <2>4
    <3>2. QED
      BY <1>1, <2>3, <3>1 DEF Follows
  <2>5. leftover'[1].part = "open" => pipe' = <<>> /\ server' # "up"
    BY <1>1, <1>3, <2>3
  <2>6. QED
    BY <1>1, <1>4, <1>8, <2>2, <2>3, <2>4, <2>5 DEF Whole, Follows
<1>9. QED
  BY <1>2, <1>6, <1>7, <1>8
\* A whole line, the two pieces of one, a line without its end or half a line,
\* written by a server behind whose pieces nobody waits, keeps the stream whole.
LEMMA WriteWhole ==
  ASSUME Whole, server = "up", pipe \in Seq(Lines), leftover' = leftover,
         NEW m \in Messages, NEW s \in Pieces(m), s \in Seq(Lines), pipe' = pipe \o s,
         s[Len(s)].part \in {"line", "tail"} \/ server' # "up"
  PROVE  Whole'
<1>1. PICK n \in Nat, k \in {1, 2} :
        /\ n = Len(pipe) /\ k = Len(s) /\ Len(pipe') = n + k
        /\ \A i \in 1 .. n : pipe'[i] = pipe[i]
        /\ \A i \in 1 .. k : pipe'[n + i] = s[i]
  <2>1. Len(s) \in {1, 2} /\ Len(pipe) \in Nat
    BY DEF Pieces
  <2>2. /\ Len(pipe') = Len(pipe) + Len(s)
        /\ \A i \in 1 .. Len(pipe) + Len(s) : pipe'[i] =
             IF i <= Len(pipe) THEN pipe[i] ELSE s[i - Len(pipe)]
    BY ConcatProperties
  <2>3. /\ \A i \in 1 .. Len(pipe) : pipe'[i] = pipe[i]
        /\ \A i \in 1 .. Len(s) : pipe'[Len(pipe) + i] = s[i]
    BY <2>1, <2>2
  <2>4. QED
    BY <2>1, <2>2, <2>3, Zenon
<1>2. ASSUME NEW i \in 1 .. n
      PROVE  /\ pipe[i].part = "head" => i < n /\ pipe[i + 1] = Piece("tail", pipe[i].msg)
             /\ pipe[i].part # "open"
             /\ pipe[i].part = "tail" => IF i = 1 THEN leftover # <<>>
                                         ELSE pipe[i - 1].part = "head"
  BY <1>1, <1>2 DEF Whole, Follows
<1>3. leftover # <<>> => /\ Len(leftover) = 1 /\ leftover[1].part = "head"
                         /\ n >= 1 /\ pipe[1] = Piece("tail", leftover[1].msg)
  BY <1>1 DEF Whole, Follows
<1>4. CASE k = 1
  <2>1. s[1].part \in {"line", "open", "head"} /\ (s[1].part # "line" => server' # "up")
    BY <1>1, <1>4 DEF Pieces, Piece
  <2>2. QED
    BY <1>1, <1>2, <1>3, <1>4, <2>1 DEF Whole, Follows
<1>5. CASE k = 2
  <2>1. s[1].part = "head" /\ s[2] = Piece("tail", s[1].msg) /\ s[2].part = "tail"
    BY <1>1, <1>5 DEF Pieces, Piece
  <2>2. QED
    BY <1>1, <1>2, <1>3, <1>5, <2>1 DEF Whole, Follows
<1>6. QED
  BY <1>4, <1>5
\* Every step keeps the stream whole, but for a POST that fails in the middle of a line.
LEMMA StreamStep ==
  ASSUME CallInv, StreamInv, [Next]_vars
  PROVE  StreamInv'
<1> USE DEF transport, table, remote, client, history
<1> pipe \in Seq(Lines) /\ leftover \in Seq(Lines)
  BY DEF CallInv
<1>1. CASE UNCHANGED vars
  BY <1>1, StreamKept DEF vars
<1>2. ASSUME NEW k \in Kind, Connect(k)
      PROVE  StreamInv'
  <2>1. /\ pipe' = <<>> /\ leftover' = <<>> /\ rpc' /\ reader' = "idle" /\ kind' = k
        /\ k = "http" => server' # "up"
        /\ UNCHANGED <<cut, garbled>>
    BY <1>2 DEF Connect, Start, StartReader, StreamInv
  <2>2. Whole'
    BY <2>1 DEF Whole
  <2>3. QED
    BY <1>2, <2>1, <2>2, McpAssumption DEF McpAssumption, StreamInv, LinesWhole
<1>3. CASE Handshake \/ ListTools \/ CallTool \/ Written \/ WriteBroken
  BY <1>3, StreamKept DEF Handshake, ListTools, CallTool, SendRequest, Written, WriteBroken
<1>4. CASE Return \/ Timeout \/ Disconnect
  BY <1>4, StreamKept DEF Return, Timeout, Disconnect
<1>5. CASE Join \/ Reap
  <2>1. CASE Gone
    <3>1. server' # "up" /\ UNCHANGED <<kind, cut, garbled>>
      BY <1>5, <2>1 DEF Join, Reap, Gone, StreamInv, Stdio
    <3>2. pipe' = <<>> /\ leftover' = <<>> /\ reader' = "none"
      BY <2>1 DEF Gone
    <3>3. Whole'
      BY <3>2 DEF Whole
    <3>4. QED
      BY <3>1, <3>2, <3>3 DEF StreamInv, LinesWhole
  <2>2. CASE ~Gone
    BY <1>5, <2>2, StreamKept DEF Join, Reap
  <2>3. QED
    BY <2>1, <2>2
<1>6. CASE Read
  <2>1. /\ pipe # <<>> /\ reader \in {"idle", "posting"} /\ UNCHANGED <<kind, rpc, server, cut>>
        /\ ReadPiece(Head(pipe)) /\ pipe' = Tail(pipe)
        /\ reader' = reader \/ (kind = "windows" /\ reader' = "leaving")
        /\ kind = "http" => reader = "posting"
    BY <1>6 DEF Read, Stdio
  <2>2. ~cut => Whole' /\ (garbled' => garbled)
    BY <2>1, ReadWhole DEF StreamInv
  <2>3. QED
    BY <2>1, <2>2 DEF StreamInv, LinesWhole
<1>7. ASSUME Flush, reader # "done"
      PROVE  leftover' = <<>> /\ (~cut => (garbled' => garbled))
  <2>1. leftover' = <<>> /\ garbled' = (garbled \/ Len(leftover) > 1)
    BY <1>7 DEF Flush
  <2>2. ~cut => leftover = <<>> \/ Len(leftover) = 1
    BY <1>7 DEF StreamInv, Whole
  <2>3. ~cut => ~(Len(leftover) > 1)
    <3>1. ASSUME NEW n, n = 0 \/ n = 1
          PROVE  ~(n > 1)
      BY <3>1
    <3>2. ~cut => Len(leftover) = 0 \/ Len(leftover) = 1
      BY <2>2, EmptySeq
    <3>3. QED
      BY <3>1, <3>2, Zenon
  <2>4. QED
    BY <2>1, <2>3
<1>8. CASE SeeStop
  BY <1>8 DEF SeeStop, StreamInv, LinesWhole
<1>9. CASE Leave \/ SeeEnd
  <2>1. /\ reader # "done" /\ reader' = "done" /\ UNCHANGED <<kind, rpc, server, pipe, cut>>
        /\ reader # "none" /\ kind # "http"
        /\ Flush \/ UNCHANGED <<leftover, garbled>>
    BY <1>9 DEF Leave, SeeEnd, Stdio
  <2>2. QED
    BY <1>7, <2>1 DEF StreamInv, LinesWhole
<1>10. CASE Take
  <2>1. /\ kind = "http" /\ reader = "idle" /\ UNCHANGED <<kind, rpc, leftover, pipe, cut, garbled>>
        /\ (reader' = "posting") \/ (reader' = "done" /\ server' = "none")
    BY <1>10 DEF Take
  <2>2. rpc /\ pipe' = <<>> /\ (~cut => leftover' = <<>>)
    BY <2>1 DEF StreamInv
  <2>3. ~cut => Whole'
    BY <2>2 DEF Whole
  <2>4. QED
    BY <2>1, <2>2, <2>3 DEF StreamInv, LinesWhole
<1>11. ASSUME NEW thrown \in BOOLEAN, EndPost(thrown)
       PROVE  StreamInv'
  <2>1. /\ reader = "posting" /\ reader' = "idle" /\ server' = "none" /\ pipe' = <<>>
        /\ UNCHANGED <<kind, rpc>>
    BY <1>11 DEF EndPost
  <2>2. /\ ~cut' => ~cut /\ leftover' = <<>>
        /\ ~cut' => (garbled' => garbled)
    <3>1. CASE thrown
      BY <1>11, <3>1 DEF EndPost
    <3>2. CASE ~thrown
      BY <1>7, <1>11, <2>1, <3>2 DEF EndPost
    <3>3. QED
      BY <3>1, <3>2
  <2>3. ~cut' => Whole'
    BY <2>1, <2>2 DEF Whole
  <2>4. rpc
    BY <2>1 DEF StreamInv
  <2>5. QED
    BY <2>1, <2>2, <2>3, <2>4 DEF StreamInv, LinesWhole
<1>12. ASSUME NEW m \in Messages, NEW s \in Pieces(m), s \in Seq(Lines), server = "up",
              pipe' = pipe \o s, s[Len(s)].part \in {"line", "tail"} \/ server' # "up",
              UNCHANGED <<kind, rpc, reader, leftover, cut, garbled>>
       PROVE  StreamInv'
  <2>1. ~cut /\ reader # "done" => Whole'
    BY <1>12, WriteWhole DEF StreamInv
  <2>2. rpc /\ (kind = "http" => reader = "posting")
    BY <1>12 DEF StreamInv
  <2>3. QED
    BY <1>12, <2>1, <2>2 DEF StreamInv, LinesWhole
<1>13. ASSUME NEW r \in inbox, NEW good \in BOOLEAN, Answer(r, good)
       PROVE  StreamInv'
  <2> DEFINE m == Message(r.id, r.call, good)
  <2>1. PICK s \in Pieces(m) :
          /\ pipe' = pipe \o s
          /\ server' = IF Ends(s[Len(s)]) THEN server ELSE "exited"
    BY <1>13 DEF Answer
  <2>2. m \in Messages /\ s \in Seq(Lines)
    BY <2>1, PiecesFit
  <2>3. s[Len(s)].part \in {"line", "tail"} \/ server' # "up"
    BY <2>1 DEF Ends
  <2>4. server = "up" /\ UNCHANGED <<kind, rpc, reader, leftover, cut, garbled>>
    BY <1>13 DEF Answer
  <2> HIDE DEF m
  <2>5. QED
    BY <1>12, <2>1, <2>2, <2>3, <2>4
<1>14. ASSUME NEW id \in 1 .. MaxCalls, Ask(id)
       PROVE  StreamInv'
  <2> DEFINE m == Message(id, Server, FALSE)
             s == <<Piece("line", m)>>
  <2>1. m \in Messages /\ Piece("line", m) \in Lines
    <3>1. id \in Nat
      BY McpAssumption DEF McpAssumption
    <3>2. QED
      BY <3>1, AskFits
  <2>2. server = "up" /\ UNCHANGED <<kind, rpc, reader, leftover, cut, garbled>>
    BY <1>14 DEF Ask
  <2>3. pipe' = Append(pipe, Piece("line", m))
    BY <1>14 DEF Ask
  <2>4. s \in Pieces(m) /\ s[Len(s)].part = "line"
    BY DEF Pieces, Piece
  <2> HIDE DEF m
  <2>5. pipe' = pipe \o s /\ s \in Seq(Lines)
    BY <2>1, <2>3, AppendIsConcat
  <2> HIDE DEF s
  <2>6. QED
    BY <1>12, <2>1, <2>2, <2>4, <2>5
<1>15. CASE Exit
  <2>1. /\ UNCHANGED <<kind, rpc, reader, pipe, leftover, cut, garbled>>
        /\ server' # "up"
    BY <1>15 DEF Exit
  <2>2. Whole => Whole'
    BY <2>1 DEF Whole, Follows
  <2>3. QED
    BY <2>1, <2>2 DEF StreamInv, LinesWhole
<1>16. QED
  BY <1>1, <1>2, <1>3, <1>4, <1>5, <1>6, <1>8, <1>9, <1>10, <1>11, <1>13, <1>14, <1>15
     DEF Next, Caller, Reader, Remote

\* Only behind a POST that failed in the middle of a line are two lines taken for
\* one, however the bytes of a line arrive and wherever a child dies.
THEOREM LinesKept == Spec => []LinesWhole
<1>1. Init => CallInv /\ StreamInv
  BY McpAssumption DEF McpAssumption, Init, CallInv, StreamInv, Whole, LinesWhole, InCall,
                        Alive
<1>2. CallInv /\ StreamInv /\ [Next]_vars => CallInv' /\ StreamInv'
  BY CallStep, StreamStep
<1>3. StreamInv => LinesWhole
  BY DEF StreamInv
<1>4. QED
  BY <1>1, <1>2, <1>3, PTL DEF Spec
=============================================================================
