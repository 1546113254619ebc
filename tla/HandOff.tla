------------------------------ MODULE HandOff ------------------------------
(***************************************************************************)
(* How one server hands work to another: the tool send_to_peer of the      *)
(* sender (src/tools/peer_tool.cpp) posts a job on the receiver's board    *)
(* and then messages the job; the receiver (serve_http_routes.cpp) claims  *)
(* it, queues a turn, runs it and closes the job (serve_runner.cpp).       *)
(*                                                                         *)
(* The board is the module Board: what peers, people and the receiver do   *)
(* to it are its actions.                                                  *)
(*                                                                         *)
(* The two servers share nothing but two HTTP exchanges per call.  The     *)
(* client has a deadline for every phase and does not retry, so the sender *)
(* may give up at any time, and what it sent may be handled before that,   *)
(* after it or never.  An exchange in flight is one value of `wire`: a     *)
(* request that is never handled, or an answer never read, was lost.       *)
(*                                                                         *)
(* Abstractions.  What a turn does is the module Turn, and how the worker  *)
(* and the pages meet is SessionRunner: here a turn is taken, ends well,   *)
(* badly or cancelled, and closes its job.  A refusal of the tool before   *)
(* its first request (no such peer, a turn of another peer's) sends        *)
(* nothing and is left out, and so is the refusal of an unknown sender.    *)
(* The name the sender knows its peer by may differ from the receiver's    *)
(* own: it is any name.  The clock stands: a hand-off fits in one second   *)
(* of the stamps, and the deque's order decides what is evicted (the runs  *)
(* of Board let time pass).                                                *)
(***************************************************************************)
EXTENDS Board

CONSTANTS
  Call,            \* calls of send_to_peer to this receiver, by any of its peers
  MaxPosts,        \* bound: jobs posted by others
  MaxHands,        \* bound: moves of jobs by hand, by PATCH or a person's verb
  MaxRestarts      \* bound: restarts of the receiver

VARIABLES
  at,        \* where a call is; in the end what the tool says: not taken, not arrived, queued
  wire,      \* the request or the answer a call has in flight
  made,      \* the id of the job posted for a call
  queue,     \* jobs_ of the receiver's runner: the calls whose turns wait
  turn,      \* how the turn of a call stands
  restarts,  \* restarts of the receiver so far
  hands,     \* moves by hand so far
  moved,     \* history: the jobs whose state a PATCH named
  unread     \* history: the calls whose message was accepted in an answer nobody read

board == vars  \* the receiver's
sender == <<at, wire, made>>
runner == <<queue, turn>>
bounds == <<restarts, hands, moved, unread>>
handOffVars == <<board, sender, runner, bounds>>

-----------------------------------------------------------------------------
\* A turn the worker has in hand: it runs, or it returned and has still to close its job.
Running == {"running", "well", "badly"}

TurnEnd == {"done", "failed", "cancelled", "lost"}

Claim == [state |-> "claimed", question |-> FALSE]

HandOffInit ==
  /\ Init
  /\ at = [c \in Call |-> "idle"]
  /\ wire = [c \in Call |-> "nothing"]
  /\ made = [c \in Call |-> None]
  /\ queue = <<>>
  /\ turn = [c \in Call |-> "none"]
  /\ restarts = 0 /\ hands = 0
  /\ moved = {} /\ unread = {}

-----------------------------------------------------------------------------
(* The sender.                                                             *)

\* PeerTool::PostJob sends its request.
PostJob(c) ==
  /\ at[c] = "idle"
  /\ at' = [at EXCEPT ![c] = "posting"]
  /\ wire' = [wire EXCEPT ![c] = "post"]
  /\ UNCHANGED <<board, made, runner, bounds>>

\* The answer to the post: with a job the message is sent, a status of 400 or more throws.
PostAnswered(c) ==
  /\ at[c] = "posting"
  /\ \/ /\ wire[c] = "job"
        /\ at' = [at EXCEPT ![c] = "sending"]
        /\ wire' = [wire EXCEPT ![c] = "message"]
     \/ /\ wire[c] = "refusal"
        /\ at' = [at EXCEPT ![c] = "not taken"]
        /\ wire' = [wire EXCEPT ![c] = "nothing"]
  /\ UNCHANGED <<board, made, runner, bounds>>

\* No answer, or none that can be read; a request that was not handled yet may still be.
PostFails(c) ==
  /\ at[c] = "posting"
  /\ at' = [at EXCEPT ![c] = "not taken"]
  /\ wire' = [wire EXCEPT ![c] = IF @ = "post" THEN @ ELSE "nothing"]
  /\ UNCHANGED <<board, made, runner, bounds>>

\* The answer to the message.  A refusal comes with a status, so the tool cannot tell it
\* from a message that was lost.
SendAnswered(c) ==
  /\ at[c] = "sending" /\ wire[c] \in {"accepted", "refusal"}
  /\ at' = [at EXCEPT ![c] = IF wire[c] = "accepted" THEN "queued" ELSE "not arrived"]
  /\ wire' = [wire EXCEPT ![c] = "nothing"]
  /\ UNCHANGED <<board, made, runner, bounds>>

SendFails(c) ==
  /\ at[c] = "sending"
  /\ at' = [at EXCEPT ![c] = "not arrived"]
  /\ wire' = [wire EXCEPT ![c] = IF @ = "message" THEN @ ELSE "nothing"]
  /\ unread' = IF wire[c] = "accepted" THEN unread \cup {c} ELSE unread
  /\ UNCHANGED <<board, made, runner, restarts, hands, moved>>

-----------------------------------------------------------------------------
(* The receiver's routes.  A request to a board route is noted before it is *)
(* handled (TouchPeer), so none is handled before a peer was heard from.   *)

\* An answer, to a sender that still waits for one.
Answers(c, what) ==
  wire' = [wire EXCEPT ![c] = IF at[c] \in {"posting", "sending"} THEN what ELSE "nothing"]

\* The answer that a turn is queued, which comes too late for a sender that gave up.
Accepts(c) ==
  /\ Answers(c, "accepted")
  /\ unread' = IF at[c] = "sending" THEN unread ELSE unread \cup {c}

Touch == TouchPeer /\ UNCHANGED <<sender, runner, bounds>>

HandleApiJobsPost(c) ==
  /\ wire[c] = "post" /\ presence # None
  /\ \/ /\ \E j \in JobId, to \in Peer :
             Post(j, to) /\ made' = [made EXCEPT ![c] = j]
        /\ Answers(c, "job")
     \/ /\ ~Room
        /\ Answers(c, "refusal")
        /\ UNCHANGED <<board, made>>
  /\ UNCHANGED <<at, runner, bounds>>

\* SubmitFromPeer
Submit(c) ==
  /\ queue' = Append(queue, c)
  /\ turn' = [turn EXCEPT ![c] = "queued"]

\* Update throws for a job that left the board, has ended or is somebody else's.
Claimable(j) == j \in OnBoard /\ MayUpdate(j, Self, Claim)

\* Mutant: the turn is queued without a claim.
HandlePeerMessageUnclaimed(c) ==
  /\ wire[c] = "message"
  /\ IF Claimable(made[c])
       THEN Submit(c) /\ Accepts(c)
       ELSE UNCHANGED <<runner, unread>> /\ Answers(c, "refusal")
  /\ UNCHANGED <<board, at, made, restarts, hands, moved>>

\* The job is claimed before the turn is queued, and without the claim there is no turn.
HandlePeerMessage(c) ==
  /\ wire[c] = "message"
  /\ \/ /\ Update(made[c], Self, Claim)
        /\ Submit(c)
        /\ Accepts(c)
     \/ /\ ~Claimable(made[c])
        /\ Answers(c, "refusal")
        /\ UNCHANGED <<board, runner, unread>>
  /\ UNCHANGED <<at, made, restarts, hands, moved>>

\* A job posted by others than these calls: a person, or a peer by hand.
OtherPost ==
  /\ presence # None
  /\ Cardinality(posted) < MaxPosts + Cardinality({c \in Call : made[c] # None})
  /\ \E j \in JobId, to \in Peer : Post(j, to)
  /\ UNCHANGED <<sender, runner, bounds>>

\* PATCH: a holder moves its job by hand.
HandleApiJobsPatch ==
  /\ presence # None
  /\ hands < MaxHands /\ hands' = hands + 1
  /\ \E j \in OnBoard, p \in Peer, u \in JobUpdate :
       Update(j, p, u) /\ moved' = moved \cup {j}
  /\ UNCHANGED <<sender, runner, restarts, unread>>

\* The three verbs of a person.
HandleVerbs ==
  /\ presence # None
  /\ hands < MaxHands /\ hands' = hands + 1
  /\ \E j \in OnBoard : Answer(j) \/ Chase(j) \/ Drop(j)
  /\ UNCHANGED <<sender, runner, restarts, moved, unread>>

-----------------------------------------------------------------------------
(* The receiver's worker.                                                  *)

Take ==
  /\ queue # <<>> /\ \A c \in Call : turn[c] \notin Running
  /\ turn' = [turn EXCEPT ![Head(queue)] = "running"]
  /\ queue' = Tail(queue)
  /\ UNCHANGED <<board, sender, bounds>>

\* ProcessInput returns; a cancelled turn of a peer's ends without closing its job.
EndTurn(c, how) ==
  /\ turn[c] = "running"
  /\ turn' = [turn EXCEPT ![c] = how]
  /\ UNCHANGED <<board, sender, queue, bounds>>

\* The state a turn closes its job with: result.has_error decides.
Outcome(c) == IF turn[c] = "well" THEN "done" ELSE "failed"

\* Mutant: a job that left the board keeps the worker.
CloseBoardJobWaits(c) ==
  /\ turn[c] \in {"well", "badly"}
  /\ Update(made[c], Self, [state |-> Outcome(c), question |-> FALSE])
  /\ turn' = [turn EXCEPT ![c] = Outcome(c)]
  /\ UNCHANGED <<sender, queue, bounds>>

\* CloseBoardJob.  When Update throws (the job was taken back, moved by hand or evicted) the
\* failed turn is reported and the close tried again, in vain; the worker goes on.
CloseBoardJob(c) ==
  /\ turn[c] \in {"well", "badly"}
  /\ \/ Update(made[c], Self, [state |-> Outcome(c), question |-> FALSE])
     \/ ~Claimable(made[c]) /\ UNCHANGED board
  /\ turn' = [turn EXCEPT ![c] = Outcome(c)]
  /\ UNCHANGED <<sender, queue, bounds>>

\* The receiver stops or crashes and starts again: the board and the queue are in memory.
Restart ==
  /\ restarts < MaxRestarts
  /\ restarts' = restarts + 1
  /\ jobs' = <<>> /\ order' = <<>> /\ presence' = None /\ audit' = <<>>
  /\ queue' = <<>>
  /\ turn' = [c \in Call |-> IF turn[c] \in TurnEnd \cup {"none"} THEN turn[c] ELSE "lost"]
  /\ UNCHANGED <<clock, posted, ended, refusals, sender, hands, moved, unread>>

-----------------------------------------------------------------------------
Worker == Take \/ \E c \in Call : CloseBoardJob(c)

HandOffNext ==
  \/ \E c \in Call : \/ PostJob(c) \/ PostAnswered(c) \/ PostFails(c)
                     \/ SendAnswered(c) \/ SendFails(c)
                     \/ HandleApiJobsPost(c) \/ HandlePeerMessage(c)
                     \/ \E how \in {"well", "badly", "cancelled"} : EndTurn(c, how)
  \/ Touch \/ OtherPost \/ HandleApiJobsPatch \/ HandleVerbs
  \/ Worker \/ Restart

\* The worker goes on when there is something to do.  That a turn returns is not assumed:
\* it may wait for an approval for ever.
HandOffSpec == HandOffInit /\ [][HandOffNext]_handOffVars /\ WF_handOffVars(Worker)

-----------------------------------------------------------------------------
\* What each of the tool's answers is worth, however late a request is handled.  Of a job that
\* was not taken no turn ever starts, and a turn said to be queued was queued.  A message said
\* not to have arrived is of a job that was posted, and it did arrive, and has a turn, exactly
\* when the receiver accepted it in an answer the sender did not read.
SaidTrue ==
  \A c \in Call :
    /\ at[c] = "not taken" => turn[c] = "none" /\ wire[c] # "message"
    /\ at[c] = "queued" => turn[c] # "none"
    /\ at[c] = "not arrived" => made[c] # None /\ (turn[c] # "none" <=> c \in unread)

\* The board tells a hand-off that runs from one that was dropped: a job nobody moved by hand
\* is open while no turn was queued for it, claimed only while its turn waits or runs or
\* because that turn was cancelled, and done or failed as its turn ended.
BoardTellsTurn ==
  \A c \in Call :
    made[c] \in OnBoard \ moved =>
      LET state == jobs[made[c]].state
      IN  CASE state = "open" -> turn[c] = "none"
            [] state = "claimed" -> turn[c] \in {"queued", "cancelled"} \cup Running
            [] state \in {"done", "failed"} -> turn[c] = state
            [] OTHER -> state = "cancelled"

\* The board tells both sides what became of a hand-off, although requests and answers are
\* lost or late, jobs are taken back, moved by hand or evicted and the receiver restarts, and
\* what the sender's tool says is right but for one answer: `did not arrive` is also said of
\* a message whose acceptance was lost (PeerTool::Execute posts first and sends second,
\* HandlePeerMessage claims, queues and answers in that order, CloseBoardJob).
HandOffLegible == SaidTrue /\ BoardTellsTurn

\* Unless some turn runs for ever, a turn that was queued ends or is lost with the process,
\* and then its job is closed or gone, unless the turn was cancelled.  No job that is dropped,
\* moved by hand or evicted under its turn keeps the worker from the turns behind it
\* (CloseBoardJob, ReportFailedTurn, WorkerMain).
HandOffSettles ==
  \/ \E c \in Call : <>[](turn[c] = "running")
  \/ \A c \in Call :
       turn[c] = "queued" ~>
         \/ turn[c] = "cancelled"
         \/ turn[c] \in TurnEnd /\ made[c] \notin Unclosed
=============================================================================
