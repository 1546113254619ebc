-------------------------- MODULE MCSessionRunner --------------------------
(* The runner on small instances.  Every constraint leaves steps of the    *)
(* outside out, or a choice of the worker that has another: none makes the *)
(* worker wait.                                                            *)
EXTENDS SessionRunner

\* Sockets are interchangeable: they are opened in their order.
SocketsInOrder ==
  \A s, t \in Conn : s < t /\ sock'[t] # "new" => sock'[s] # "new"

\* Three things that make no difference are left out: an answer nobody waits for, which the next
\* question forgets, a job that no message can name any more, and the drop of one that none named.
NothingIdle ==
  /\ answered' /\ ~answered => pc = "asking"
  /\ \A j \in JobId :
       /\ board[j] = "absent" /\ board'[j] = "open" => inputs < MaxInputs
       /\ board'[j] = "cancelled" => board[j] # "open"

\* The first turn streams and asks; the second only ends, in every way a turn can.
FirstTurnTalks == job.turn > 1 /\ pc = "turn" => turns' = turns

\* The third turn is there to push out the record of the first: a peer's message that names no
\* job and comes after the second turn, while which nothing else happens.
ThirdTurnAlone ==
  /\ inputs = 2 /\ inputs' = 3 =>
       /\ pc = "wait" /\ job.turn = 2 /\ handing = NotHanding
       /\ queue'[1].conn = None /\ queue'[1].board_job = None
  /\ inputs = 3 => UNCHANGED <<sock, board, stopping>> /\ ~\E s \in Conn : CancelTurn(s)

SmallRun == SocketsInOrder /\ NothingIdle /\ FirstTurnTalks /\ ThirdTurnAlone
=============================================================================
