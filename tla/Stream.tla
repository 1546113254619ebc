------------------------------- MODULE Stream -------------------------------
(***************************************************************************)
(* A turn's requests to its model: the phases of BeastHttpClient, the SSE  *)
(* parser that finds the events in the bytes (src/core/), the provider     *)
(* that puts a reply together from them (src/llm/), and the counts that    *)
(* Executor::CallProvider sums over the rounds of a turn.                  *)
(*                                                                         *)
(* One thread does all of it.  Beside it are the gateway, which writes a   *)
(* reply in lines and pieces of lines, is silent, cuts the connection or   *)
(* refuses, and the user, who cancels.                                     *)
(*                                                                         *)
(* Abstractions.  A reply is a sequence of events, and what is collected   *)
(* is the events' places in it.  A line is a field of an event: the whole  *)
(* payload, one of the halves of a payload split over two data lines, the  *)
(* end of an event, a comment, the [DONE] sentinel.  A piece is a line or  *)
(* a part of one: a read that brings several pieces is several reads.      *)
(* Lines are valid UTF-8.  Reasoning and refusals are text; the names of   *)
(* the fields a reply carried, which are only reported, are left out.      *)
(***************************************************************************)
EXTENDS Integers, Sequences, FiniteSets

CONSTANTS
  Bare,       \* what FramesBareLines may be: a subset of BOOLEAN
  Replies,    \* the replies a gateway may give, for each of the two framings
  MaxRounds,  \* bound: requests of one turn
  None

\* What an event of a reply says.  A fragment of a call is of the call the gateway means,
\* carries an id (opens) and text of its arguments, or neither, and may be the last (closes).
Events == [kind : {"text", "length", "done", "error"}]
            \cup [kind : {"usage"}, priced : BOOLEAN]
            \cup [kind : {"call"}, of : Nat, opens : BOOLEAN, closes : BOOLEAN, text : BOOLEAN]

\* The fragments of calls in a reply.
Fragments(r) == {i \in DOMAIN r : r[i].kind = "call"}

\* The order OpenAIProtocol counts on, since it looks at ids and not at the index: the first
\* fragment of a call, and no other, has its id, nothing follows the last, and one that is
\* not the last is followed by the next of its call or, as the end of the calls, by the word
\* that the output cap was reached.  A gateway may keep to it or not.
OneAfterAnother(r) ==
  \A i \in Fragments(r) :
    LET Follows(k) == /\ k > i
                      /\ \A j \in DOMAIN r :
                           i < j /\ j < k => r[j].kind \notin {"call", "done"}
        before == {j \in Fragments(r) : j < i}
        after == {j \in Fragments(r) : j > i}
    IN  /\ r[i].opens <=> \A j \in before : r[j].of # r[i].of
        /\ r[i].closes => \A j \in after : r[j].of # r[i].of
        /\ ~r[i].closes =>
             \/ \E k \in after : Follows(k) /\ r[k].of = r[i].of
             \/ after = {} /\ \E k \in DOMAIN r : Follows(k) /\ r[k].kind = "length"

ASSUME StreamAssumption ==
  /\ Bare \subseteq BOOLEAN /\ MaxRounds \in Nat
  /\ None \notin Nat \cup [round : Nat, priced : BOOLEAN]
  /\ \A b \in Bare : \A r \in Replies[b] : r \in Seq(Events)
  /\ \A r \in Replies[TRUE] : \A i \in Fragments(r) : r[i].opens /\ r[i].closes

VARIABLES
  bare,     \* FramesBareLines: Ollama writes a payload a line, OpenAI's protocol events
  pc,       \* idle, resolve, connect, handshake, write, header, body, refused (status)
  cancel,   \* the turn's token
  framing,  \* how the response ends: "sized" (or chunked), "close"
  reply,    \* the events the gateway means to send
  sent,     \* how many it has written
  wire,     \* pieces on their way
  closed,   \* the gateway's side: open, ended, or cut short
  buffer,   \* SseParser::buffer_: the pieces of a line that has not ended
  pending,  \* SseParser::pending_: the data lines of an event that has not ended
  got,      \* the provider's accumulators
  result,   \* what the last Chat returned
  round,    \* the requests of this turn
  total     \* ExecutionResult::usage: the rounds its counts and its cost cover

gateway == <<framing, reply, sent, wire, closed>>
parser == <<buffer, pending>>
vars == <<bare, pc, cancel, gateway, parser, got, result, round, total>>

-----------------------------------------------------------------------------
(* Lines and pieces.                                                       *)

Line(kind, event, half) == [kind |-> kind, event |-> event, half |-> half]

Blank == Line("blank", 0, 0)
Comment == Line("comment", 0, 0)
Sentinel == Line("data", 0, 0)
Broken == Line("data", 0, 3)

\* How a gateway may write event i: with or without the blank line, split, after a comment.
Written(i) ==
  IF bare THEN {<<Line("bare", i, 0)>>}
  ELSE {<<Line("data", i, 0)>>, <<Comment, Line("data", i, 0), Blank>>,
        <<Line("data", i, 1), Line("data", i, 2)>>,
        <<Line("data", i, 1), Line("data", i, 2), Blank>>}

Piece(part, line) == [part |-> part, line |-> line]

Whole(lines) == [k \in 1 .. Len(lines) |-> Piece("line", lines[k])]

\* Lines one by one, with the first in two pieces, or with the last one's end missing.
Pieces(lines) ==
  LET n == Len(lines) IN
  {Whole(lines),
   <<Piece("head", lines[1]), Piece("tail", lines[1])>> \o Tail(Whole(lines)),
   SubSeq(Whole(lines), 1, n - 1) \o <<Piece("open", lines[n])>>}

-----------------------------------------------------------------------------
(* The provider: HandleJsonToken and what it collects.                     *)

NoReply == [handled |-> <<>>, calls |-> <<>>, open |-> <<>>, usage |-> None, capped |-> FALSE,
            failed |-> FALSE]

\* Mutant: the counts of the round before stay.
ResetKeepsUsage(g) == [NoReply EXCEPT !.usage = g.usage]

\* ResetAccumulators
ResetAccumulators(g) == NoReply

\* Some argument text has come for a call.
HasText(call) == \E j \in DOMAIN call : reply[call[j]].text

\* What has come parses: it is all the text of one call, with the last, and no other text.
Complete(call) ==
  /\ reply[call[Len(call)]].closes
  /\ \A i \in Fragments(reply) :
       reply[i].text => ((\E j \in DOMAIN call : call[j] = i) <=> reply[i].of = reply[call[1]].of)

\* Mutant: arguments cut off by the output cap are kept as text.
CutOffNever(g) == FALSE

\* The cap ended the reply in the middle of a call's arguments.  A call for which no text
\* has come has nothing to parse, and is taken to have no arguments.
CutOff(g) ==
  g.capped /\ \E k \in DOMAIN g.open : HasText(g.open[k]) /\ ~Complete(g.open[k])

\* FlushPendingToolCalls
Flush(g) ==
  IF CutOff(g) THEN [g EXCEPT !.failed = TRUE]
  ELSE [g EXCEPT !.calls = @ \o g.open, !.open = <<>>]

\* A fragment with an id, or with nothing before it, opens a call; others go to the last.
Fragment(g, i) ==
  IF reply[i].opens \/ g.open = <<>>
    THEN [g EXCEPT !.open = Append(@, <<i>>)]
    ELSE [g EXCEPT !.open[Len(g.open)] = Append(@, i)]

\* OpenAI's protocol: a call comes in fragments, and `done` ends the calls of a reply.
OpenAIToken(g, i) ==
  CASE reply[i].kind = "call" -> Fragment(g, i)
    [] reply[i].kind = "usage" -> [g EXCEPT !.usage = [round |-> round,
                                                       priced |-> reply[i].priced]]
    [] reply[i].kind = "length" -> [g EXCEPT !.capped = TRUE]
    [] reply[i].kind = "done" -> Flush(g)
    [] reply[i].kind = "error" -> [g EXCEPT !.failed = TRUE]
    [] OTHER -> g

\* Ollama: a call comes whole.
OllamaToken(g, i) ==
  CASE reply[i].kind = "call" -> [g EXCEPT !.calls = Append(@, <<i>>)]
    [] reply[i].kind = "usage" -> [g EXCEPT !.usage = [round |-> round,
                                                       priced |-> reply[i].priced]]
    [] reply[i].kind = "error" -> [g EXCEPT !.failed = TRUE]
    [] OTHER -> g

HandleJsonToken(g, i) ==
  LET h == [g EXCEPT !.handled = Append(@, i)]
  IN  IF bare THEN OllamaToken(h, i) ELSE OpenAIToken(h, i)

-----------------------------------------------------------------------------
(* The parser.  `s` is its state and the provider's.                       *)

\* The event the collected data lines spell, or None: ParsesAsOneValue.
Payload(lines) ==
  CASE Len(lines) = 1 /\ lines[1].half = 0 -> lines[1].event
    [] Len(lines) = 2 /\ lines[1].half = 1 /\ lines[2].half = 2
         /\ lines[1].event = lines[2].event -> lines[1].event
    [] OTHER -> None

\* Chat's callback and ParseData: the sentinel and what does not parse are passed over.
ParseData(g, lines) ==
  IF Payload(lines) \in {None, 0} \/ g.failed THEN g ELSE HandleJsonToken(g, Payload(lines))

\* Dispatch
Dispatch(s) == [pending |-> <<>>, got |-> ParseData(s.got, s.pending)]

\* HandleLine: a data line after a whole payload begins the next event.
HandleLine(s, line) ==
  CASE line.kind = "blank" -> Dispatch(s)
    [] line.kind = "bare" -> [s EXCEPT !.got = ParseData(@, <<line>>)]
    [] line.kind = "data" ->
         LET t == IF Payload(s.pending) # None THEN Dispatch(s) ELSE s
         IN  [t EXCEPT !.pending = Append(@, line)]
    [] OTHER -> s

Parser == [pending |-> pending, got |-> got]

\* Feed of one piece.
Feed(piece) ==
  IF piece.part \in {"line", "tail"}
    THEN /\ pending' = HandleLine(Parser, piece.line).pending
         /\ got' = HandleLine(Parser, piece.line).got
         /\ buffer' = <<>>
    ELSE /\ buffer' = Append(buffer, piece)
         /\ UNCHANGED <<pending, got>>

\* Mutant: the line the close ended is forgotten.
LastLineLost(s) == s

\* The close ends the last line; half a line is not a value.
LastLine(s) ==
  CASE buffer = <<>> -> s
    [] buffer # <<>> /\ buffer[1].part = "open" ->
         HandleLine(s, [buffer[1].line EXCEPT !.kind = IF @ = "blank" THEN "comment" ELSE @])
    [] OTHER -> IF bare THEN s ELSE HandleLine(s, Broken)

\* Finish, and FinishStream: what is left is dispatched and the calls are flushed.
Finished == Flush(Dispatch(LastLine(Parser)).got)

-----------------------------------------------------------------------------
(* CallProvider and Chat.                                                  *)

Init ==
  /\ bare \in Bare
  /\ pc = "idle" /\ cancel = FALSE
  /\ framing = "sized" /\ reply = <<>> /\ sent = 0 /\ wire = <<>> /\ closed = "open"
  /\ buffer = <<>> /\ pending = <<>>
  /\ got = NoReply
  /\ result = None
  /\ round = 0
  /\ total = [counted |-> <<>>, cost |-> None]

\* The tool loop asks again while the reply had calls; a request that failed ends the turn.
Chat ==
  /\ pc = "idle" /\ round < MaxRounds
  /\ round = 0 \/ (result # None /\ result.calls # <<>> /\ ~cancel)
  /\ round' = round + 1
  /\ got' = ResetAccumulators(got)
  /\ buffer' = <<>> /\ pending' = <<>>
  /\ reply' = <<>> /\ sent' = 0 /\ wire' = <<>> /\ closed' = "open"
  /\ result' = None
  /\ pc' = "resolve"
  /\ UNCHANGED <<bare, cancel, framing, total>>

\* An exception leaves Chat: CallProvider ends the turn.
Fail ==
  /\ pc' = "idle" /\ result' = None
  /\ UNCHANGED <<bare, cancel, gateway, round, total>>

\* CallProvider's sum: a cost is dropped when a later round has none.
Summed(t, usage) ==
  IF usage = None THEN t
  ELSE [counted |-> Append(t.counted, usage.round),
        cost |-> IF ~usage.priced THEN None
                 ELSE (IF t.cost = None THEN {} ELSE t.cost) \cup {usage.round}]

\* Chat returns and its counts are added to the turn's.
Return(g) ==
  /\ result' = g
  /\ total' = Summed(total, g.usage)
  /\ got' = [NoReply EXCEPT !.usage = g.usage]
  /\ pc' = "idle"
  /\ UNCHANGED <<bare, cancel, gateway, parser, round>>

-----------------------------------------------------------------------------
(* StreamRequest: each phase ends in the next, after a look at the token.  *)

Phases == <<"resolve", "connect", "handshake", "write", "header">>

Waiting == {"resolve", "connect", "handshake", "write", "header", "body", "refused"}

\* Resolve, connect, handshake and write succeed, or TLS is not used.
Advance ==
  \E k \in 1 .. 4 :
    /\ pc = Phases[k]
    /\ IF cancel THEN Fail /\ UNCHANGED <<got, parser>>
       ELSE /\ pc' \in {Phases[k + 1]} \cup (IF pc = "connect" THEN {"write"} ELSE {})
            /\ UNCHANGED <<bare, cancel, gateway, parser, got, result, round, total>>

\* They fail.
Refused ==
  /\ pc \in Waiting
  /\ Fail /\ UNCHANGED <<got, parser>>

\* Mutant: the deadline of the header covers the body.
DeadlineOnce == pc \in {"connect", "handshake", "write", "header"}

\* A wait that has a deadline: all but the resolver's, and the body's anew for each piece.
Deadline == pc \in {"connect", "handshake", "write", "header", "body", "refused"}

\* The gateway is silent until the deadline.
Timeout ==
  /\ Deadline /\ wire = <<>>
  /\ Fail /\ UNCHANGED <<got, parser>>

\* The gateway answers the request: its reply, or an error status and a body.
Answer(r, f, ok) ==
  /\ pc = "header"
  /\ reply' = r /\ framing' = f
  /\ pc' = IF ok THEN "body" ELSE "refused"
  /\ UNCHANGED <<bare, cancel, sent, wire, closed, parser, got, result, round, total>>

\* It writes its next event.  Only a last line may lack its end.
Send ==
  /\ pc = "body" /\ closed = "open" /\ wire = <<>> /\ sent < Len(reply)
  /\ \E lines \in Written(sent + 1) : \E p \in Pieces(lines) :
       /\ wire' = p
       /\ closed' = IF p[Len(p)].part = "open" THEN "ended" ELSE closed
       /\ p[Len(p)].part = "open" => sent + 1 = Len(reply)
  /\ sent' = sent + 1
  /\ UNCHANGED <<bare, pc, cancel, framing, reply, parser, got, result, round, total>>

\* It ends the response, after the sentinel or without one.
SendEnd ==
  /\ pc = "body" /\ closed = "open" /\ wire = <<>> /\ sent = Len(reply)
  /\ wire' \in {<<>>} \cup (IF bare THEN {} ELSE Pieces(<<Sentinel>>))
  /\ closed' = "ended"
  /\ UNCHANGED <<bare, pc, cancel, framing, reply, sent, parser, got, result, round, total>>

\* The connection breaks, between two pieces or inside a line.
Break ==
  /\ pc = "body" /\ closed = "open" /\ sent < Len(reply)
  /\ closed' = "cut"
  /\ wire' \in {<<>>, <<Piece("head", Line("data", sent + 1, 0))>>}
  /\ wire = <<>>
  /\ UNCHANGED <<bare, pc, cancel, framing, reply, sent, parser, got, result, round, total>>

\* OnPiece: the piece is fed, an exception of the provider ends the request, and the token
\* is looked at.
OnPiece ==
  /\ pc = "body" /\ wire # <<>>
  /\ Feed(wire[1])
  /\ wire' = Tail(wire)
  /\ IF got'.failed \/ cancel THEN pc' = "idle" ELSE UNCHANGED pc
  /\ UNCHANGED <<bare, cancel, framing, reply, sent, closed, result, round, total>>

\* The body has ended: as its length says, or with the connection where nothing says more.
EndOfBody ==
  /\ pc = "body" /\ wire = <<>>
  /\ closed = "ended" \/ (closed = "cut" /\ framing = "close")
  /\ IF Finished.failed THEN Fail /\ UNCHANGED <<got, parser>> ELSE Return(Finished)

Cancel ==
  /\ pc # "idle" /\ ~cancel
  /\ cancel' = TRUE
  /\ UNCHANGED <<bare, pc, gateway, parser, got, result, round, total>>

-----------------------------------------------------------------------------

Next ==
  \/ Chat \/ Advance \/ Refused \/ Timeout
  \/ \E r \in Replies[bare], f \in {"sized", "close"}, ok \in BOOLEAN : Answer(r, f, ok)
  \/ Send \/ SendEnd \/ Break
  \/ OnPiece \/ EndOfBody \/ Cancel

\* The client's own steps: the resolver answers, a deadline passes, what arrived is read.
Fairness ==
  /\ WF_vars(pc = "resolve" /\ (Advance \/ Refused))
  /\ WF_vars(Timeout) /\ WF_vars(OnPiece) /\ WF_vars(EndOfBody)

Spec == Init /\ [][Next]_vars /\ Fairness

-----------------------------------------------------------------------------
(* Properties.                                                             *)

\* A reply that came whole: it was not cut in a way only a length would have told.
CameWhole == result # None /\ closed = "ended"

\* However a gateway frames its events (no blank line, two data lines, a last line without
\* its end) and wherever the reads cut them, each is handled once and in order
\* (SseParser::Feed, HandleLine, Dispatch, Finish).
FramesKept == CameWhole => result.handled = [i \in 1 .. Len(reply) |-> i]

\* The calls a reply meant, each as the places of its fragments.
Meant ==
  LET Of(k) == {i \in 1 .. Len(reply) : reply[i].kind = "call" /\ reply[i].of = k}
  IN  {Of(k) : k \in {reply[i].of : i \in {j \in 1 .. Len(reply) : reply[j].kind = "call"}}}

\* Of a gateway that sends one call after another, Chat returns each call once, with all its
\* fragments and no other's: also when a `done` frame comes before the end or a payload is
\* split.  A call the output cap ended is not returned, but for one whose arguments had not
\* begun: that one is returned without any, and run (FlushPendingToolCalls).
CallsWhole ==
  CameWhole /\ OneAfterAnother(reply) =>
    /\ {{result.calls[k][j] : j \in DOMAIN result.calls[k]} : k \in DOMAIN result.calls} = Meant
    /\ Len(result.calls) = Cardinality(Meant)
    /\ \A k \in DOMAIN result.calls : Complete(result.calls[k]) \/ ~HasText(result.calls[k])

\* The turn's usage counts a round once if its reply carried counts, and not otherwise; the
\* cost it gives, if any, is that of the last rounds counted, with none of them left out
\* (ResetAccumulators, CallProvider).
UsageCounted ==
  /\ \A j, k \in DOMAIN total.counted : total.counted[j] = total.counted[k] => j = k
  /\ CameWhole =>
       (round \in {total.counted[k] : k \in DOMAIN total.counted}
          <=> \E i \in 1 .. Len(reply) : reply[i].kind = "usage")
  /\ total.cost # None =>
       \E n \in DOMAIN total.counted :
         total.cost = {total.counted[k] : k \in n .. Len(total.counted)}

\* A request ends whatever the gateway does: it is silent at any point, cuts the connection
\* or answers in pieces (Arm, ThrowDeadline).
ChatEnds == (pc # "idle") ~> (pc = "idle")
=============================================================================
