-------------------------------- MODULE Turn --------------------------------
(***************************************************************************)
(* A turn of the tool loop (src/runtime/executor.cpp) over the             *)
(* conversation it extends (include/pu/session/graph.hpp).                 *)
(*                                                                         *)
(* One thread runs turns; others store the cancel token, leave a note and  *)
(* rewind the conversation through the REST route, none of which waits for *)
(* the turn.  An action of the turn thread is the code between two points  *)
(* where such a step can make a difference.                                *)
(*                                                                         *)
(* Abstractions.  Every append follows the leaf, a rewind goes to a node   *)
(* above it, and the next append drops what the leaf does not reach, so    *)
(* what the loop can read of the store is the chain to the leaf.  Texts    *)
(* are reduced to whether they are empty.  A tool call is either           *)
(* send_to_peer, naming a peer, or a command.  What a tool answers is      *)
(* reduced to whether the sandbox refused it.  The counts of usage, the    *)
(* notices and the names of models steer nothing.                          *)
(***************************************************************************)
EXTENDS Integers, Sequences, FiniteSets

CONSTANTS
  Peer,       \* names in peers.json
  None,       \* an empty string where a name could be
  kBudget,    \* tool_call_budget_
  MaxReply,   \* bound: tool calls in one reply
  MaxTurns,   \* bound: inputs processed
  MaxOutside  \* bound: notes left and rewinds made

ASSUME TurnAssumption ==
  /\ kBudget \in Nat \ {0}
  /\ MaxReply \in Nat \ {0}
  /\ MaxTurns \in Nat
  /\ MaxOutside \in Nat
  /\ None \notin Peer

VARIABLES
  chain,        \* the nodes from the root to leaf_, the leaf last
  pc,           \* where the turn thread is
  round,        \* the calls of the reply being run, the next one first
  count,        \* result.tool_call_count
  rounds,       \* result.rounds
  wrapping,     \* budget_reached and wrap_up_asked, set together
  content,      \* whether result.content holds any text
  failed,       \* result.has_error after a failed request
  ran,          \* whether some tool call was not refused by the sandbox
  cancel,       \* the turn's cancel token
  shutdown,     \* platform::ShutdownRequested(), as a failing request reads it
  user_note,    \* whether user_note_ holds words
  control_note, \* control_.note: no words, words kept, words a stopped command passed on
  peer_origin,  \* peer_origin_
  ctx_origin,   \* ToolContext::peer_origin of the round
  turns,        \* inputs processed so far
  outside,      \* notes left and rewinds made so far
  asked_by,     \* history: who asked the turn that runs
  outcome,      \* history: how the last turn ended
  displaced,    \* history: a rewind moved the leaf under a turn, or between a call and its receipt
  cut           \* history: a cancel ended a reply before its last call

result == <<count, rounds, wrapping, content, failed, ran>>
vars == <<chain, pc, round, result, cancel, shutdown, user_note, control_note, peer_origin,
          ctx_origin, turns, outside, asked_by, outcome, displaced, cut>>

-----------------------------------------------------------------------------
(* The conversation graph.                                                 *)

Status == {"pending", "completed", "interrupted"}

\* Ids are numbered within a reply, as some providers do: the hardest case for a search
\* that goes by id alone.
CallId == 1..MaxReply

Records == UNION {[1..n -> Status] : n \in 0..MaxReply}

Node ==
  [kind : {"user"}, from : Peer \cup {None}]
    \cup [kind : {"assistant"}, calls : Records]
    \cup [kind : {"tool"}, id : CallId, sealed : BOOLEAN]

User(from) == [kind |-> "user", from |-> from]

Assistant(calls) == [kind |-> "assistant", calls |-> calls]

Receipt(id, sealed) == [kind |-> "tool", id |-> id, sealed |-> sealed]

HasUnfinished(node) ==
  node.kind = "assistant" /\ \E id \in DOMAIN node.calls : node.calls[id] = "pending"

LeafHasUnfinishedToolCalls == chain # <<>> /\ HasUnfinished(chain[Len(chain)])

\* Positions on the chain c of the answers that carry a call with this id.
Carriers(c, id) == {i \in DOMAIN c : c[i].kind = "assistant" /\ id \in DOMAIN c[i].calls}

\* Mutant: the search stops at the first answer on the chain, not the nearest.
CompleteForFirst(c, id) ==
  IF Carriers(c, id) = {} THEN c
  ELSE LET i == CHOOSE i \in Carriers(c, id) : \A k \in Carriers(c, id) : i <= k
       IN  IF c[i].calls[id] = "pending" THEN [c EXCEPT ![i].calls[id] = "completed"] ELSE c

\* CompleteFor: the nearest call with the id, walking up from the leaf, is answered.
CompleteFor(c, id) ==
  IF Carriers(c, id) = {} THEN c
  ELSE LET i == CHOOSE i \in Carriers(c, id) : \A k \in Carriers(c, id) : k <= i
       IN  IF c[i].calls[id] = "pending" THEN [c EXCEPT ![i].calls[id] = "completed"] ELSE c

\* AppendAfterLeaf, on the chain the node is appended to.
After(c, node) ==
  Append(IF node.kind = "tool" THEN CompleteFor(c, node.id) ELSE c, node)

\* A set of ids in their order.
InOrder(ids) ==
  [k \in 1..Cardinality(ids) |->
     CHOOSE id \in ids : Cardinality({other \in ids : other <= id}) = k]

\* SealInterruptedToolCalls: nothing unless the leaf itself is an answer with pending calls.
Seal(c) ==
  IF c = <<>> \/ ~HasUnfinished(c[Len(c)]) THEN c
  ELSE LET calls == c[Len(c)].calls
           unrun == InOrder({id \in DOMAIN calls : calls[id] = "pending"})
       IN  [c EXCEPT ![Len(c)] = Assistant([id \in DOMAIN calls |->
                                  IF calls[id] = "pending" THEN "interrupted" ELSE calls[id]])]
             \o [k \in DOMAIN unrun |-> Receipt(unrun[k], TRUE)]

-----------------------------------------------------------------------------
\* ExecutionResult result, the calls of the round and its context: locals of a turn.
FreshTurn ==
  /\ round' = <<>> /\ ctx_origin' = None
  /\ count' = 0 /\ rounds' = 0
  /\ wrapping' = FALSE /\ content' = FALSE /\ failed' = FALSE /\ ran' = FALSE
  /\ cancel' = FALSE

Init ==
  /\ chain = <<>>
  /\ pc = "idle" /\ round = <<>> /\ ctx_origin = None
  /\ count = 0 /\ rounds = 0
  /\ wrapping = FALSE /\ content = FALSE /\ failed = FALSE /\ ran = FALSE
  /\ cancel = FALSE /\ shutdown = FALSE
  /\ user_note = FALSE /\ control_note = "none"
  /\ peer_origin = None
  /\ turns = 0 /\ outside = 0
  /\ asked_by = None /\ outcome = "none" /\ displaced = FALSE /\ cut = FALSE

\* Mutant: the origin is set for a peer's turn and left alone for the user's own.
SetPeerOriginOnlyPeer(from) == peer_origin' = IF from = None THEN peer_origin ELSE from

\* ProcessInput hands the executor the origin of every input, an empty one included.
SetPeerOrigin(from) == peer_origin' = from

\* ProcessInput and Execute: the question is appended and the loop entered.
Ask(from) ==
  /\ pc = "idle" /\ turns < MaxTurns
  /\ SetPeerOrigin(from)
  /\ chain' = After(chain, User(from))
  /\ pc' = "top"
  /\ turns' = turns + 1
  /\ asked_by' = from
  /\ outcome' = "none"
  /\ UNCHANGED <<round, result, cancel, shutdown, user_note, control_note, ctx_origin,
                 outside, displaced, cut>>

\* The request: a cancelled one throws before anything is sent (CheckCancel).
CallProvider ==
  /\ pc' = IF cancel THEN "refused" ELSE "provider"
  /\ rounds' = rounds + 1

\* Mutant: the wrap-up is asked for once more in every later round.
TopAsksAgain ==
  /\ pc = "top"
  /\ \/ /\ ~wrapping /\ count < kBudget
        /\ CallProvider
        /\ UNCHANGED <<chain, wrapping>>
     \/ /\ wrapping \/ count >= kBudget
        /\ chain' = After(chain, User(None))
        /\ wrapping' = TRUE
        /\ CallProvider
  /\ UNCHANGED <<round, count, content, failed, ran, cancel, shutdown, user_note,
                 control_note, peer_origin, ctx_origin, turns, outside, asked_by, outcome,
                 displaced, cut>>

\* The top of RunToolLoop: one wrap-up round once the budget is reached, and none after it.
Top ==
  /\ pc = "top"
  /\ \/ /\ ~wrapping /\ count < kBudget
        /\ CallProvider
        /\ UNCHANGED <<chain, wrapping>>
     \/ /\ ~wrapping /\ count >= kBudget
        /\ chain' = After(chain, User(None))
        /\ wrapping' = TRUE
        /\ CallProvider
     \/ /\ wrapping
        /\ pc' = "finish"
        /\ UNCHANGED <<chain, rounds, wrapping>>
  /\ UNCHANGED <<round, count, content, failed, ran, cancel, shutdown, user_note,
                 control_note, peer_origin, ctx_origin, turns, outside, asked_by, outcome,
                 displaced, cut>>

\* The calls a reply may carry, in its order.
Calls == UNION {[1..n -> Peer \cup {None}] : n \in 1..MaxReply}

\* BuildToolContext: the note and the origin are taken, so the next round finds neither.
BuildToolContext ==
  /\ control_note' = IF user_note THEN "kept" ELSE "none"
  /\ user_note' = FALSE
  /\ ctx_origin' = peer_origin
  /\ peer_origin' = None

\* A reply with tool calls; the text streamed with them stays in result.content.
ReplyCalls(calls, text) ==
  /\ pc = "provider"
  /\ chain' = After(chain, Assistant([id \in DOMAIN calls |-> "pending"]))
  /\ BuildToolContext
  /\ round' = [id \in DOMAIN calls |-> [id |-> id, to |-> calls[id]]]
  /\ content' = (content \/ text)
  /\ pc' = "call"
  /\ UNCHANGED <<count, rounds, wrapping, failed, ran, cancel, shutdown, turns, outside,
                 asked_by, outcome, displaced, cut>>

\* A reply without tool calls is the turn's answer, whatever streamed before it.
ReplyText(text) ==
  /\ pc = "provider"
  /\ content' = text
  /\ pc' = "finish"
  /\ UNCHANGED <<chain, round, count, rounds, wrapping, failed, ran, cancel, shutdown,
                 user_note, control_note, peer_origin, ctx_origin, turns, outside, asked_by,
                 outcome, displaced, cut>>

\* The request throws, after it streamed some text or none: a cancelled turn stops, a process
\* asked to exit by then abandons it, and anything else is a failure.
Throws(text, leaving) ==
  /\ pc \in {"provider", "refused"}
  /\ text => pc = "provider"
  /\ shutdown => leaving
  /\ shutdown' = leaving
  /\ content' = (content \/ text)
  /\ chain' = IF cancel THEN Seal(chain) ELSE chain
  /\ pc' = CASE cancel -> "stopped" [] ~cancel /\ leaving -> "abandoned" [] OTHER -> "finish"
  /\ failed' = (~cancel /\ ~leaving)
  /\ UNCHANGED <<round, count, rounds, wrapping, ran, cancel, user_note, control_note,
                 peer_origin, ctx_origin, turns, outside, asked_by, outcome, displaced, cut>>

-----------------------------------------------------------------------------
(* RunToolCalls.                                                           *)

StartCall ==
  /\ pc = "call" /\ round # <<>> /\ ~cancel
  /\ count' = count + 1
  /\ pc' = "running"
  /\ UNCHANGED <<chain, round, rounds, wrapping, content, failed, ran, cancel, shutdown,
                 user_note, control_note, peer_origin, ctx_origin, turns, outside, asked_by,
                 outcome, displaced, cut>>

\* Whether the tool of a call may do what it is asked.  PeerTool reaches nobody but the
\* origin in a round that has one.  Any call may be refused: by the sandbox, by a person
\* asked for an approval, or for its arguments.
Runs(call) == call.to = None \/ ctx_origin = None \/ call.to = ctx_origin

\* Mutant: a note is appended as soon as a call ends, between two receipts.
AnsweredNoting(id) ==
  /\ LET c == After(chain, Receipt(id, FALSE))
     IN  chain' = (IF user_note THEN After(c, User(None)) ELSE c)
  /\ user_note' = FALSE

\* The receipt of a call.
Answered(id) ==
  /\ chain' = After(chain, Receipt(id, FALSE))
  /\ UNCHANGED user_note

\* The call ends, by itself, by a refusal or, for a command, by the cancel token, which adds
\* control_.note to its result.
EndCall(end) ==
  /\ pc = "running"
  /\ end = "ran" => Runs(Head(round))
  /\ end = "stopped" => Head(round).to = None /\ cancel
  /\ Answered(Head(round).id)
  /\ ran' = (ran \/ end # "refused")
  /\ control_note' = IF end = "stopped" /\ control_note = "kept" THEN "given" ELSE control_note
  /\ round' = Tail(round)
  /\ pc' = "call"
  /\ UNCHANGED <<count, rounds, wrapping, content, failed, cancel, shutdown, peer_origin,
                 ctx_origin, turns, outside, asked_by, outcome, displaced, cut>>

\* After the last call, or on a cancel before the next: a note follows the receipts, and a
\* cancelled turn seals what the leaf still has pending.
EndRound ==
  /\ pc = "call" /\ (round = <<>> \/ cancel)
  /\ LET noted == IF user_note THEN After(chain, User(None)) ELSE chain
     IN  chain' = (IF cancel THEN Seal(noted) ELSE noted)
  /\ user_note' = FALSE
  /\ cut' = (cut \/ round # <<>>)
  /\ round' = <<>>
  /\ pc' = "top"
  /\ UNCHANGED <<result, cancel, shutdown, control_note, peer_origin, ctx_origin, turns,
                 outside, asked_by, outcome, displaced>>

-----------------------------------------------------------------------------
(* The end of a turn.                                                      *)

\* How RunToolLoop ends the turn: the checks after the loop, in their order.
Ending ==
  CASE pc = "stopped" -> "stopped"
    [] pc = "abandoned" -> "abandoned"
    [] pc = "finish" /\ ~content /\ wrapping -> "budget"
    [] pc = "finish" /\ ~content /\ ~wrapping /\ count > 0 /\ ~ran -> "blocked"
    [] pc = "finish" /\ ~content /\ ~wrapping /\ count = 0 /\ ~failed -> "empty"
    [] OTHER -> IF failed THEN "failed" ELSE "completed"

HasError(ending) == ending \in {"budget", "blocked", "empty", "failed"}

\* Execute keeps the text of a turn that ended without an error, a stopped one included.
Finish ==
  /\ pc \in {"finish", "stopped", "abandoned"}
  /\ outcome' = Ending
  /\ IF ~HasError(Ending) /\ content
       THEN chain' = After(chain, Assistant(<<>>))
       ELSE UNCHANGED chain
  /\ FreshTurn
  /\ pc' = "idle"
  /\ UNCHANGED <<shutdown, user_note, control_note, peer_origin, turns, outside, asked_by,
                 displaced, cut>>

-----------------------------------------------------------------------------
(* The other threads.                                                      *)

Cancel ==
  /\ pc # "idle" /\ ~cancel
  /\ cancel' = TRUE
  /\ UNCHANGED <<chain, pc, round, result, shutdown, user_note, control_note, peer_origin,
                 ctx_origin, turns, outside, asked_by, outcome, displaced, cut>>

\* A page's `note` frame; it replaces one not taken yet.
SetUserNote ==
  /\ outside < MaxOutside
  /\ outside' = outside + 1
  /\ user_note' = TRUE
  /\ UNCHANGED <<chain, pc, round, result, cancel, shutdown, control_note, peer_origin,
                 ctx_origin, turns, asked_by, outcome, displaced, cut>>

\* RewindBefore's refusals: a turn a peer asked, a leaf whose calls are pending.
MayRewind(t) ==
  /\ t \in DOMAIN chain
  /\ ~(chain[t].kind = "user" /\ chain[t].from # None)
  /\ ~LeafHasUnfinishedToolCalls

\* /rewind between turns, POST /api/rewind at any time.
RewindBefore(t) ==
  /\ outside < MaxOutside
  /\ outside' = outside + 1
  /\ MayRewind(t)
  /\ chain' = SubSeq(chain, 1, t - 1)
  /\ displaced' = (displaced \/ pc # "idle" \/ chain[t].kind = "tool"
                   \/ (t > 1 /\ HasUnfinished(chain[t - 1])))
  /\ UNCHANGED <<pc, round, result, cancel, shutdown, user_note, control_note, peer_origin,
                 ctx_origin, turns, asked_by, outcome, cut>>

\* /clear is an input of its own, with no origin.
ClearHistory ==
  /\ pc = "idle" /\ turns < MaxTurns
  /\ turns' = turns + 1
  /\ SetPeerOrigin(None)
  /\ chain' = <<>>
  /\ displaced' = FALSE /\ cut' = FALSE
  /\ outcome' = "none"
  /\ UNCHANGED <<pc, round, result, cancel, shutdown, user_note, control_note, ctx_origin,
                 outside, asked_by>>

Worker ==
  \/ \E from \in Peer \cup {None} : Ask(from)
  \/ Top
  \/ \E calls \in Calls, text \in BOOLEAN : ReplyCalls(calls, text)
  \/ \E text \in BOOLEAN : ReplyText(text)
  \/ \E text, leaving \in BOOLEAN : Throws(text, leaving)
  \/ StartCall
  \/ \E end \in {"refused", "ran", "stopped"} : EndCall(end)
  \/ EndRound \/ Finish \/ ClearHistory

Others ==
  \/ Cancel \/ SetUserNote
  \/ \E t \in DOMAIN chain : RewindBefore(t)

Next == Worker \/ Others

Spec == Init /\ [][Next]_vars

-----------------------------------------------------------------------------
\* The receipts of the answer at i: the tool nodes that follow it with nothing in between.
Receipts(i) ==
  {k \in DOMAIN chain : k > i /\ \A m \in (i + 1)..k : chain[m].kind = "tool"}

\* The request sent in a round pairs calls and receipts as a gateway wants them: a receipt
\* stands directly behind the answer whose call it answers, no call is answered twice, and
\* every call is answered unless a cancel ended a reply before its last call, and then only
\* behind the reply's first receipt or a note (RunToolCalls, SealInterruptedToolCalls).  A
\* rewind that ran during a turn, or left a call of the new leaf unanswered, is excepted.
RequestPaired ==
  pc \in {"provider", "refused"} /\ ~displaced =>
    /\ \A k \in DOMAIN chain : chain[k].kind = "tool" =>
         \E i \in DOMAIN chain :
           /\ chain[i].kind = "assistant" /\ chain[k].id \in DOMAIN chain[i].calls
           /\ k \in Receipts(i)
           /\ \A m \in Receipts(i) \ {k} : chain[m].id # chain[k].id
    /\ \A i \in DOMAIN chain : chain[i].kind = "assistant" =>
         \A id \in DOMAIN chain[i].calls :
           \/ \E k \in Receipts(i) : chain[k].id = id
           \/ cut /\ id > 1 /\ chain[i + 1] = Receipt(1, FALSE)
           \/ cut /\ chain[i + 1] = User(None)

\* What a call's record says is what its receipt says: pending without one, completed with
\* the tool's own, interrupted with the receipt of a cancelled turn, although the two are
\* written in different nodes and found again by id (CompleteFor, SealInterruptedToolCalls).
StatusMatchesReceipt ==
  ~displaced =>
    \A i \in DOMAIN chain : chain[i].kind = "assistant" =>
      \A id \in DOMAIN chain[i].calls :
        LET seals == {chain[k].sealed : k \in {m \in Receipts(i) : chain[m].id = id}}
        IN  seals = CASE chain[i].calls[id] = "pending" -> {}
                      [] chain[i].calls[id] = "completed" -> {FALSE}
                      [] OTHER -> {TRUE}

\* No round runs under the name of a peer that did not ask for this turn, and the first runs
\* under the name of the one that did: what an earlier turn left unread, or set for another
\* asker, is never taken (SetPeerOrigin, BuildToolContext).
OriginOfThisTurn ==
  pc \in {"call", "running"} =>
    ctx_origin \in {None, asked_by} /\ (rounds = 1 => ctx_origin = asked_by)

\* A turn runs fewer calls than the budget and two replies hold: the reply that reaches the
\* budget is run to its end, and so is the one the wrap-up asked for (RunToolLoop).
BudgetBoundsCalls == count < kBudget + 2 * MaxReply

-----------------------------------------------------------------------------
(* What the documentation says.                                            *)

\* ARCHITECTURE.md: on a cancel "every tool call it never ran is sealed as interrupted".
EveryUnrunCallSealed ==
  pc = "idle" /\ ~displaced => \A i \in DOMAIN chain : ~HasUnfinished(chain[i])

\* peers-and-board.md: "a turn which arrived from a peer may reach only its sender".  No call
\* of a turn a peer asked for may run and name another one (PeerTool::Execute).
PeerTurnReachesOnlyItsSender ==
  pc = "running" /\ asked_by # None /\ Runs(Head(round)) => Head(round).to \in {None, asked_by}
=============================================================================
