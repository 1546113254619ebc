----------------------------- MODULE TurnProofs -----------------------------
(***************************************************************************)
(* What holds of the tool loop for every set of peers, every budget and    *)
(* every length of a reply: under which name a round runs, how many calls  *)
(* a turn makes, and that answers and receipts stay together on the chain. *)
(***************************************************************************)
EXTENDS Turn, FiniteSetTheorems, SequenceTheorems, WellFoundedInduction, TLAPS

\* The types the two arguments need.
LocalTypes ==
  /\ pc \in {"idle", "top", "provider", "refused", "call", "running", "finish", "stopped",
             "abandoned"}
  /\ rounds \in Nat /\ count \in Nat
  /\ wrapping \in BOOLEAN
  /\ round \in Seq([id : CallId, to : Peer \cup {None}])

\* Where the name of the asker is: with the executor until the first round takes it, with
\* that round while it runs, and nowhere after it.
OriginFollows ==
  /\ pc = "idle" => rounds = 0
  /\ pc = "top" => peer_origin = IF rounds = 0 THEN asked_by ELSE None
  /\ pc \in {"provider", "refused"} =>
       rounds > 0 /\ peer_origin = IF rounds = 1 THEN asked_by ELSE None
  /\ pc \in {"call", "running"} => rounds > 0 /\ peer_origin = None

\* What a round finds of it: the code clears the name as soon as one round has read it.
OriginTaken ==
  pc \in {"call", "running"} => ctx_origin = IF rounds = 1 THEN asked_by ELSE None

\* What a turn may still call: the rest of the reply it runs and, before the wrap-up, one more.
Ceiling == kBudget + (IF wrapping THEN 2 * MaxReply ELSE MaxReply)

CallsLeft ==
  /\ pc = "idle" => count = 0 /\ ~wrapping
  /\ pc = "top" => count < Ceiling
  /\ pc \in {"provider", "refused"} =>
       count < IF wrapping THEN kBudget + MaxReply ELSE kBudget
  /\ pc = "call" => count + Len(round) < Ceiling
  /\ pc = "running" => round # <<>> /\ count + Len(round) < Ceiling + 1
  /\ pc \in {"finish", "stopped", "abandoned"} => count < kBudget + 2 * MaxReply

IInv == LocalTypes /\ OriginFollows /\ OriginTaken /\ CallsLeft

\* The answer at i has the receipts of its first m calls behind it and no more: the tools'
\* own, or those of a cancelled turn, which has them all.  Its records say so.
Told(c, i, m, sealed) ==
  /\ i + m <= Len(c)
  /\ \A id \in 1..m : id \in DOMAIN c[i].calls /\ c[i + id] = Receipt(id, sealed)
  /\ i + m < Len(c) => c[i + m + 1].kind # "tool"
  /\ \A id \in DOMAIN c[i].calls :
       c[i].calls[id] = IF id > m THEN "pending" ELSE IF sealed THEN "interrupted" ELSE "completed"
  /\ sealed => \A id \in DOMAIN c[i].calls : id <= m

\* Every answer is told, and every receipt stands behind an answer.
Tidy(c) ==
  /\ c \in Seq(Node)
  /\ \A i \in DOMAIN c : c[i].kind = "assistant" =>
       \E m \in 0..MaxReply, sealed \in BOOLEAN : Told(c, i, m, sealed)
  /\ \A k \in DOMAIN c : c[k].kind = "tool" =>
       \E i \in DOMAIN c : /\ i < k /\ c[i].kind = "assistant"
                           /\ \A j \in (i + 1)..k : c[j].kind = "tool"

\* Behind an answer with calls comes a receipt, or the note of a cancelled turn.
Behind(c) ==
  \A i \in DOMAIN c :
    i < Len(c) /\ c[i].kind = "assistant" /\ 1 \in DOMAIN c[i].calls =>
      c[i + 1].kind = "tool" \/ c[i + 1] = User(None)

\* The leaf is no answer with calls.
Settled(c) ==
  \A i \in DOMAIN c : i = Len(c) /\ c[i].kind = "assistant" => 1 \notin DOMAIN c[i].calls

\* The answer at i is being run: the receipts behind it are the chain's end, and the calls
\* left of the round are the ones without.
Current(c, i, m, left) ==
  /\ c[i].kind = "assistant" /\ Told(c, i, m, FALSE) /\ i + m = Len(c)
  /\ DOMAIN c[i].calls = 1..(m + Len(left)) /\ m + Len(left) > 0
  /\ \A j \in 1..Len(left) : left[j].id = m + j

InRound == pc \in {"call", "running"}

ChainInv ==
  ~displaced =>
    /\ Tidy(chain) /\ Behind(chain)
    /\ IF InRound THEN \E i \in DOMAIN chain, m \in 0..MaxReply : Current(chain, i, m, round)
                  ELSE Settled(chain)

\* No call of an answer on the chain waits for its receipt.
Quiet(c) == \A i \in DOMAIN c : ~HasUnfinished(c[i])

\* Where no cancel ended a reply before its last call, only the answer that is run has calls
\* without a receipt.
WholeInv ==
  ~displaced /\ ~cut =>
    IF InRound THEN \A i \in DOMAIN chain : HasUnfinished(chain[i]) =>
                      \A k \in DOMAIN chain : k > i => chain[k].kind = "tool"
               ELSE Quiet(chain)

-----------------------------------------------------------------------------
\* The calls of a reply become a round of as many calls, at most MaxReply.
LEMMA RoundOfReply ==
  ASSUME NEW calls \in Calls
  PROVE  LET r == [id \in DOMAIN calls |-> [id |-> id, to |-> calls[id]]]
         IN  r \in Seq([id : CallId, to : Peer \cup {None}]) /\ Len(r) <= MaxReply
<1> DEFINE r == [id \in DOMAIN calls |-> [id |-> id, to |-> calls[id]]]
<1>1. PICK n \in 1..MaxReply : calls \in [1..n -> Peer \cup {None}]
  BY DEF Calls
<1>2. n \in Nat /\ 1..n \subseteq CallId
  BY TurnAssumption DEF TurnAssumption, CallId
<1>3. r \in [1..n -> [id : CallId, to : Peer \cup {None}]]
  BY <1>1, <1>2
<1>4. r \in Seq([id : CallId, to : Peer \cup {None}]) /\ Len(r) = n
  BY <1>2, <1>3
<1>5. QED
  BY <1>1, <1>4, TurnAssumption DEF TurnAssumption

-----------------------------------------------------------------------------
(* The chain: answers and their receipts.                                  *)

\* What the kinds of nodes are.
LEMMA NodeKinds ==
  ASSUME NEW node \in Node
  PROVE  /\ node.kind \in {"user", "assistant", "tool"}
         /\ node.kind = "assistant" =>
              \E n \in 0..MaxReply : node.calls \in [1..n -> Status] /\ DOMAIN node.calls = 1..n
BY DEF Node, Records

\* The nodes the loop appends.
LEMMA NodesAre ==
  /\ \A from \in Peer \cup {None} : User(from) \in Node /\ User(from).kind = "user"
  /\ \A calls \in Records : /\ Assistant(calls) \in Node /\ Assistant(calls).kind = "assistant"
                            /\ Assistant(calls).calls = calls
  /\ \A id \in CallId, sealed \in BOOLEAN :
       /\ Receipt(id, sealed) \in Node /\ Receipt(id, sealed).kind = "tool"
       /\ Receipt(id, sealed).id = id
BY DEF Node, User, Assistant, Receipt

\* The receipts behind an answer are nodes of that kind.
LEMMA ToldTools ==
  ASSUME NEW c, NEW i \in Nat, NEW m \in Nat, NEW sealed \in BOOLEAN, Told(c, i, m, sealed)
  PROVE  \A k \in (i + 1)..(i + m) : c[k].kind = "tool" /\ c[k].id = k - i
<1> SUFFICES ASSUME NEW k \in (i + 1)..(i + m)
             PROVE  c[k].kind = "tool" /\ c[k].id = k - i
  OBVIOUS
<1>1. k - i \in 1..m /\ k = i + (k - i)
  OBVIOUS
<1>2. c[k] = Receipt(k - i, sealed)
  BY <1>1 DEF Told
<1>3. QED
  BY <1>2 DEF Receipt

\* A question, a note or an answer behind a chain that waits for none.
LEMMA Plain ==
  ASSUME NEW c, Tidy(c), Behind(c), NEW node \in Node, node.kind # "tool",
         Settled(c) \/ node = User(None),
         node.kind = "assistant" => \A id \in DOMAIN node.calls : node.calls[id] = "pending"
  PROVE  Tidy(Append(c, node)) /\ Behind(Append(c, node))
<1> DEFINE d == Append(c, node)
<1>0. c \in Seq(Node)
  BY DEF Tidy
<1>1. /\ d \in Seq(Node) /\ Len(d) = Len(c) + 1 /\ Len(c) \in Nat
      /\ DOMAIN c = 1..Len(c) /\ DOMAIN d = 1..Len(d)
      /\ (\A i \in DOMAIN c : d[i] = c[i]) /\ d[Len(c) + 1] = node
  BY <1>0
<1> HIDE DEF d
<1>2. ASSUME NEW i \in DOMAIN d, d[i].kind = "assistant"
      PROVE  \E m \in 0..MaxReply, sealed \in BOOLEAN : Told(d, i, m, sealed)
  <2>1. CASE i = Len(c) + 1
    <3>1. d[i] = node
      BY <1>1, <2>1
    <3>2. \E n \in 0..MaxReply : DOMAIN node.calls = 1..n
      BY <1>2, <3>1, NodeKinds
    <3>3. Told(d, i, 0, FALSE)
      BY <1>1, <1>2, <2>1, <3>1, <3>2 DEF Told
    <3>4. 0 \in 0..MaxReply
      BY TurnAssumption DEF TurnAssumption
    <3>5. QED
      BY <3>3, <3>4
  <2>2. CASE i # Len(c) + 1
    <3>1. i \in DOMAIN c /\ d[i] = c[i] /\ i \in Nat
      BY <1>1, <2>2
    <3>2. PICK m \in 0..MaxReply, sealed \in BOOLEAN : Told(c, i, m, sealed)
      BY <1>2, <3>1 DEF Tidy
    <3>3. m \in Nat /\ i + m <= Len(c) /\ (i + m < Len(c) => c[i + m + 1].kind # "tool")
      BY <3>2 DEF Told
    <3>4. ASSUME NEW id \in 1..m
          PROVE  d[i + id] = c[i + id]
      <4>1. i + id \in DOMAIN c
        BY <1>1, <3>1, <3>3
      <4>2. QED
        BY <1>1, <4>1
    <3>5. i + m <= Len(d) /\ (i + m < Len(d) => d[i + m + 1].kind # "tool")
      BY <1>1, <3>1, <3>3
    <3>6. Told(d, i, m, sealed)
      BY <3>1, <3>2, <3>4, <3>5 DEF Told
    <3>7. QED
      BY <3>2, <3>6
  <2>3. QED
    BY <2>1, <2>2
<1>3. ASSUME NEW k \in DOMAIN d, d[k].kind = "tool"
      PROVE  \E i \in DOMAIN d : /\ i < k /\ d[i].kind = "assistant"
                                 /\ \A j \in (i + 1)..k : d[j].kind = "tool"
  <2>1. k \in DOMAIN c /\ d[k] = c[k]
    BY <1>1, <1>3
  <2>2. PICK i \in DOMAIN c : /\ i < k /\ c[i].kind = "assistant"
                              /\ \A j \in (i + 1)..k : c[j].kind = "tool"
    BY <1>3, <2>1 DEF Tidy
  <2>3. \A j \in (i + 1)..k : j \in DOMAIN c /\ d[j] = c[j]
    BY <1>1, <2>1, <2>2
  <2>4. QED
    BY <1>1, <2>2, <2>3
<1>4. Tidy(d)
  BY <1>1, <1>2, <1>3 DEF Tidy
<1>5. Behind(d)
  <2> SUFFICES ASSUME NEW i \in DOMAIN d, i < Len(d), d[i].kind = "assistant",
                      1 \in DOMAIN d[i].calls
               PROVE  d[i + 1].kind = "tool" \/ d[i + 1] = User(None)
    BY DEF Behind
  <2>1. i \in DOMAIN c /\ d[i] = c[i] /\ i \in Nat
    BY <1>1
  <2>2. CASE i < Len(c)
    BY <1>1, <2>1, <2>2 DEF Behind
  <2>3. CASE i = Len(c)
    BY <1>1, <2>1, <2>3 DEF Settled
  <2>4. QED
    BY <1>1, <2>1, <2>2, <2>3
<1>6. QED
  BY <1>4, <1>5 DEF d

\* Behind a question, a note or an answer without calls nothing is waited for.
LEMMA PlainSettles ==
  ASSUME NEW c \in Seq(Node), NEW node \in Node,
         node.kind = "assistant" => 1 \notin DOMAIN node.calls
  PROVE  Settled(Append(c, node))
BY DEF Settled

\* The part of a chain before a node that is no receipt and follows no unanswered call.
LEMMA Cut ==
  ASSUME NEW c, Tidy(c), Behind(c), NEW t \in DOMAIN c, c[t].kind # "tool",
         t > 1 => ~HasUnfinished(c[t - 1])
  PROVE  LET d == SubSeq(c, 1, t - 1) IN Tidy(d) /\ Behind(d) /\ Settled(d)
<1> DEFINE d == SubSeq(c, 1, t - 1)
<1>0. c \in Seq(Node) /\ DOMAIN c = 1..Len(c) /\ Len(c) \in Nat /\ t \in 1..Len(c) /\ t \in Nat
  BY DEF Tidy
<1>1. /\ d \in Seq(Node) /\ Len(d) = t - 1 /\ DOMAIN d = 1..(t - 1)
      /\ \A i \in 1..(t - 1) : d[i] = c[i]
  BY <1>0
<1> HIDE DEF d
<1>2. ASSUME NEW i \in DOMAIN d, d[i].kind = "assistant"
      PROVE  \E m \in 0..MaxReply, sealed \in BOOLEAN :
               Told(c, i, m, sealed) /\ Told(d, i, m, sealed) /\ i + m <= t - 1
  <2>1. i \in DOMAIN c /\ i \in Nat /\ i < t /\ d[i] = c[i]
    BY <1>0, <1>1
  <2>2. PICK m \in 0..MaxReply, sealed \in BOOLEAN : Told(c, i, m, sealed)
    BY <1>2, <2>1 DEF Tidy
  <2>3. m \in Nat /\ (i + m < Len(c) => c[i + m + 1].kind # "tool")
    BY <2>2 DEF Told
  <2>4. i + m < t
    <3>1. \A k \in (i + 1)..(i + m) : c[k].kind = "tool"
      BY <2>1, <2>2, <2>3, ToldTools
    <3>2. t \notin (i + 1)..(i + m)
      BY <3>1
    <3>3. QED
      BY <1>0, <2>1, <2>3, <3>2
  <2>5. ASSUME NEW id \in 1..m
        PROVE  d[i + id] = c[i + id]
    <3>1. i + id \in 1..(t - 1)
      BY <1>0, <2>1, <2>3, <2>4
    <3>2. QED
      BY <1>1, <3>1
  <2>6. i + m <= Len(d) /\ (i + m < Len(d) => d[i + m + 1].kind # "tool")
    BY <1>0, <1>1, <2>1, <2>3, <2>4
  <2>7. Told(d, i, m, sealed)
    BY <2>1, <2>2, <2>5, <2>6 DEF Told
  <2>8. QED
    BY <1>0, <2>1, <2>2, <2>3, <2>4, <2>7
<1>3. ASSUME NEW k \in DOMAIN d, d[k].kind = "tool"
      PROVE  \E i \in DOMAIN d : /\ i < k /\ d[i].kind = "assistant"
                                 /\ \A j \in (i + 1)..k : d[j].kind = "tool"
  <2>1. k \in DOMAIN c /\ d[k] = c[k] /\ k < t /\ k \in Nat
    BY <1>0, <1>1
  <2>2. PICK i \in DOMAIN c : /\ i < k /\ c[i].kind = "assistant"
                              /\ \A j \in (i + 1)..k : c[j].kind = "tool"
    BY <1>3, <2>1 DEF Tidy
  <2>3. i \in DOMAIN d /\ d[i] = c[i] /\ \A j \in (i + 1)..k : d[j] = c[j]
    BY <1>0, <1>1, <2>1, <2>2
  <2>4. QED
    BY <2>2, <2>3
<1>4. Tidy(d)
  BY <1>1, <1>2, <1>3 DEF Tidy
<1>5. Behind(d)
  BY <1>0, <1>1 DEF Behind
<1>6. Settled(d)
  <2> SUFFICES ASSUME NEW i \in DOMAIN d, i = Len(d), d[i].kind = "assistant",
                      1 \in DOMAIN d[i].calls
               PROVE  FALSE
    BY DEF Settled
  <2>1. i = t - 1 /\ i \in Nat /\ d[i] = c[i] /\ t > 1
    BY <1>0, <1>1
  <2>2. PICK m \in 0..MaxReply, sealed \in BOOLEAN : Told(d, i, m, sealed) /\ i + m <= t - 1
    BY <1>2
  <2>3. m = 0
    BY <2>1, <2>2
  <2>4. d[i].calls[1] = "pending"
    BY <2>2, <2>3 DEF Told
  <2>5. QED
    BY <2>1, <2>4 DEF HasUnfinished
<1>7. QED
  BY <1>4, <1>5, <1>6 DEF d

\* No answer stands behind the one that is run.
LEMMA CurrentLast ==
  ASSUME NEW c \in Seq(Node), NEW i \in DOMAIN c, NEW m \in Nat, NEW left, Current(c, i, m, left)
  PROVE  /\ i \in Nat /\ Len(c) = i + m
         /\ \A k \in DOMAIN c : k > i => c[k].kind = "tool"
<1>1. Len(c) = i + m /\ Told(c, i, m, FALSE)
  BY Zenon DEF Current
<1>2. i \in Nat /\ DOMAIN c = 1..Len(c)
  OBVIOUS
<1>3. \A k \in (i + 1)..(i + m) : c[k].kind = "tool"
  BY <1>1, <1>2, ToldTools
<1>4. QED
  BY <1>1, <1>2, <1>3

\* A node that is replaced by one of its kind, and nodes that come behind: the answers before
\* it are told what they were, and so are the receipts.
LEMMA Replaced ==
  ASSUME NEW c, Tidy(c), Behind(c), NEW i \in DOMAIN c, c[i].kind = "assistant",
         NEW d \in Seq(Node), Len(d) >= Len(c), d[i].kind = "assistant",
         \A k \in DOMAIN c : k # i => d[k] = c[k],
         \A k \in DOMAIN d : k > i => d[k].kind = "tool",
         Len(d) > i,
         \E m \in 0..MaxReply, sealed \in BOOLEAN : Told(d, i, m, sealed)
  PROVE  Tidy(d) /\ Behind(d) /\ Settled(d)
<1>0. /\ c \in Seq(Node) /\ DOMAIN c = 1..Len(c) /\ Len(c) \in Nat /\ i \in Nat /\ i <= Len(c)
      /\ DOMAIN d = 1..Len(d) /\ Len(d) \in Nat
  BY DEF Tidy
<1>1. ASSUME NEW k \in DOMAIN d, d[k].kind = "assistant"
      PROVE  \E m \in 0..MaxReply, sealed \in BOOLEAN : Told(d, k, m, sealed)
  <2>1. CASE k = i
    BY <2>1
  <2>2. CASE k # i
    <3>1. k < i /\ k \in DOMAIN c /\ d[k] = c[k] /\ k \in Nat
      BY <1>0, <1>1, <2>2
    <3>2. PICK m \in 0..MaxReply, sealed \in BOOLEAN : Told(c, k, m, sealed)
      BY <1>1, <3>1 DEF Tidy
    <3>3. m \in Nat /\ (k + m < Len(c) => c[k + m + 1].kind # "tool")
      BY <3>2 DEF Told
    <3>4. k + m < i
      <4>1. \A j \in (k + 1)..(k + m) : c[j].kind = "tool"
        BY <3>1, <3>2, <3>3, ToldTools
      <4>2. i \notin (k + 1)..(k + m)
        BY <4>1
      <4>3. QED
        BY <1>0, <3>1, <3>3, <4>2
    <3>5. ASSUME NEW id \in 1..m
          PROVE  d[k + id] = c[k + id]
      <4>1. k + id \in DOMAIN c /\ k + id # i
        BY <1>0, <3>1, <3>3, <3>4
      <4>2. QED
        BY <4>1
    <3>6. k + m <= Len(d) /\ (k + m < Len(d) => d[k + m + 1].kind # "tool")
      <4>1. k + m + 1 \in DOMAIN c /\ k + m < Len(c)
        BY <1>0, <3>1, <3>3, <3>4
      <4>2. d[k + m + 1].kind # "tool"
        BY <3>3, <4>1
      <4>3. QED
        BY <1>0, <3>3, <4>1, <4>2
    <3>7. Told(d, k, m, sealed)
      BY <3>1, <3>2, <3>5, <3>6 DEF Told
    <3>8. QED
      BY <3>2, <3>7
  <2>3. QED
    BY <2>1, <2>2
<1>2. ASSUME NEW k \in DOMAIN d, d[k].kind = "tool"
      PROVE  \E a \in DOMAIN d : /\ a < k /\ d[a].kind = "assistant"
                                 /\ \A j \in (a + 1)..k : d[j].kind = "tool"
  <2>1. CASE k > i
    <3>1. \A j \in (i + 1)..k : d[j].kind = "tool"
      BY <1>0, <2>1
    <3>2. i \in DOMAIN d
      BY <1>0
    <3>3. QED
      BY <2>1, <3>1, <3>2
  <2>2. CASE ~(k > i)
    <3>1. k < i /\ k \in DOMAIN c /\ d[k] = c[k] /\ k \in Nat
      BY <1>0, <1>2, <2>2
    <3>2. PICK a \in DOMAIN c : /\ a < k /\ c[a].kind = "assistant"
                                /\ \A j \in (a + 1)..k : c[j].kind = "tool"
      BY <1>2, <3>1 DEF Tidy
    <3>3. a \in DOMAIN d /\ d[a] = c[a] /\ \A j \in (a + 1)..k : d[j] = c[j]
      BY <1>0, <3>1, <3>2
    <3>4. QED
      BY <3>2, <3>3
  <2>3. QED
    BY <2>1, <2>2
<1>3. Tidy(d)
  BY <1>1, <1>2 DEF Tidy
<1>4. Behind(d)
  <2> SUFFICES ASSUME NEW k \in DOMAIN d, k < Len(d), d[k].kind = "assistant",
                      1 \in DOMAIN d[k].calls
               PROVE  d[k + 1].kind = "tool" \/ d[k + 1] = User(None)
    BY DEF Behind
  <2>1. CASE k = i
    BY <1>0, <2>1
  <2>2. CASE k # i
    <3>1. k < i /\ k \in DOMAIN c /\ d[k] = c[k] /\ k \in Nat /\ k + 1 \in DOMAIN c
      BY <1>0, <2>2
    <3>2. c[k + 1].kind = "tool" \/ c[k + 1] = User(None)
      BY <1>0, <3>1 DEF Behind
    <3>3. k + 1 # i
      BY <3>2 DEF User
    <3>4. QED
      BY <3>1, <3>2, <3>3
  <2>3. QED
    BY <2>1, <2>2
<1>5. Settled(d)
  BY <1>0 DEF Settled
<1>6. QED
  BY <1>3, <1>4, <1>5

\* A node behind a chain.
LEMMA AppendNode ==
  ASSUME NEW c \in Seq(Node), NEW node \in Node
  PROVE  /\ Append(c, node) \in Seq(Node) /\ Len(Append(c, node)) = Len(c) + 1
         /\ Append(c, node)[Len(c) + 1] = node
         /\ \A k \in 1..Len(c) : Append(c, node)[k] = c[k]
OBVIOUS

\* The receipt of the next call: its answer is found by its id, its record completed.
LEMMA Receive ==
  ASSUME NEW c, Tidy(c), Behind(c), NEW i \in DOMAIN c, NEW m \in 0..MaxReply,
         NEW left \in Seq([id : CallId, to : Peer \cup {None}]), left # <<>>,
         Current(c, i, m, left)
  PROVE  LET d == After(c, Receipt(Head(left).id, FALSE))
         IN  /\ Tidy(d) /\ Behind(d)
             /\ i \in DOMAIN d /\ m + 1 \in 0..MaxReply /\ Current(d, i, m + 1, Tail(left))
<1> DEFINE id == m + 1
           rec == [c[i].calls EXCEPT ![id] = "completed"]
           node == [c[i] EXCEPT !.calls = rec]
           done == [c EXCEPT ![i] = node]
           d == Append(done, Receipt(id, FALSE))
<1>0. c \in Seq(Node) /\ DOMAIN c = 1..Len(c) /\ Len(c) \in Nat /\ m \in Nat
  BY TurnAssumption DEF Tidy, TurnAssumption
<1>1. /\ i \in Nat /\ Len(c) = i + m
      /\ \A k \in DOMAIN c : k > i => c[k].kind = "tool"
  BY <1>0, CurrentLast
<1>2. /\ Len(left) \in Nat /\ Len(left) > 0 /\ Head(left) = left[1]
      /\ Len(Tail(left)) = Len(left) - 1
      /\ \A j \in 1..(Len(left) - 1) : Tail(left)[j] = left[j + 1]
  OBVIOUS
<1>3. Head(left).id = id
  BY <1>0, <1>2 DEF Current
<1>4. /\ c[i].kind = "assistant" /\ Told(c, i, m, FALSE) /\ DOMAIN c[i].calls = 1..(m + Len(left))
      /\ \A j \in 1..Len(left) : left[j].id = m + j
  BY DEF Current
<1>5. id \in DOMAIN c[i].calls /\ c[i].calls[id] = "pending"
  <2>1. id \in DOMAIN c[i].calls /\ id > m
    BY <1>0, <1>2, <1>4
  <2>2. \A j \in DOMAIN c[i].calls : j > m => c[i].calls[j] = "pending"
    BY <1>4, Zenon DEF Told
  <2>3. QED
    BY <2>1, <2>2
<1>6. PICK n \in 0..MaxReply : c[i].calls \in [1..n -> Status] /\ DOMAIN c[i].calls = 1..n
  <2>1. c[i] \in Node
    BY <1>0
  <2>2. QED
    BY <1>4, <2>1, NodeKinds
<1>7. id \in CallId /\ id \in 0..MaxReply /\ id \in 1..n /\ MaxReply \in Nat
  BY <1>0, <1>5, <1>6, TurnAssumption DEF CallId, TurnAssumption
<1>8. /\ rec \in [1..n -> Status] /\ DOMAIN rec = DOMAIN c[i].calls /\ rec[id] = "completed"
      /\ \A j \in DOMAIN c[i].calls : j # id => rec[j] = c[i].calls[j]
  BY <1>6, <1>7 DEF Status
<1>9. node \in Node /\ node.kind = "assistant" /\ node.calls = rec
  <2> HIDE DEF rec
  <2>1. c[i] \in [kind : {"assistant"}, calls : Records]
    BY <1>0, <1>4 DEF Node
  <2>2. rec \in Records
    BY <1>8 DEF Records
  <2>3. QED
    BY <2>1, <2>2 DEF Node
<1>10. CompleteFor(c, id) = done
  <2>1. i \in Carriers(c, id)
    BY <1>4, <1>5 DEF Carriers
  <2>2. \A k \in Carriers(c, id) : k \in Nat /\ k <= i
    BY <1>0, <1>1 DEF Carriers
  <2> DEFINE a == CHOOSE a \in Carriers(c, id) : \A k \in Carriers(c, id) : k <= a
  <2>3. a = i
    BY <1>1, <2>1, <2>2
  <2>4. CompleteFor(c, id) = IF c[a].calls[id] = "pending"
                               THEN [c EXCEPT ![a].calls[id] = "completed"] ELSE c
    BY <2>1 DEF CompleteFor
  <2> HIDE DEF a
  <2>5. CompleteFor(c, id) = [c EXCEPT ![i].calls[id] = "completed"]
    BY <1>5, <2>3, <2>4
  <2>6. QED
    BY <2>5
<1>11. After(c, Receipt(Head(left).id, FALSE)) = d
  <2>1. Receipt(id, FALSE).kind = "tool" /\ Receipt(id, FALSE).id = id
    BY DEF Receipt
  <2>2. QED
    BY <1>3, <1>10, <2>1, Zenon DEF After
<1> HIDE DEF rec, node
<1>12. /\ done \in Seq(Node) /\ Len(done) = Len(c) /\ done[i] = node
       /\ \A k \in DOMAIN c : k # i => done[k] = c[k]
  BY <1>0, <1>9
<1>13. Receipt(id, FALSE) \in Node /\ Receipt(id, FALSE).kind = "tool"
  BY <1>7, NodesAre
<1> HIDE DEF done
<1>14. /\ d \in Seq(Node) /\ Len(d) = Len(c) + 1 /\ DOMAIN d = 1..(Len(c) + 1)
       /\ d[Len(c) + 1] = Receipt(id, FALSE) /\ d[i] = node
       /\ \A k \in DOMAIN c : k # i => d[k] = c[k]
  <2> DEFINE x == Receipt(id, FALSE)
  <2>1. x \in Node
    BY <1>13
  <2> HIDE DEF x, id
  <2>2. d = Append(done, x)
    BY DEF x
  <2> HIDE DEF d
  <2>3. /\ d \in Seq(Node) /\ Len(d) = Len(c) + 1 /\ DOMAIN d = 1..(Len(c) + 1)
        /\ d[Len(c) + 1] = x /\ \A k \in 1..Len(c) : d[k] = done[k]
    <3>1. done \in Seq(Node) /\ Len(done) = Len(c)
      BY <1>12
    <3>2. /\ Append(done, x) \in Seq(Node) /\ Len(Append(done, x)) = Len(done) + 1
          /\ Append(done, x)[Len(done) + 1] = x
          /\ \A k \in 1..Len(done) : Append(done, x)[k] = done[k]
      BY <2>1, <3>1, AppendNode, Zenon
    <3>3. d \in Seq(Node) /\ Len(d) = Len(c) + 1
      BY <2>2, <3>1, <3>2
    <3>4. d[Len(c) + 1] = x /\ \A k \in 1..Len(c) : d[k] = done[k]
      BY <2>2, <3>1, <3>2, Zenon
    <3>5. QED
      BY <3>3, <3>4
  <2>4. QED
    BY <1>0, <1>12, <2>3 DEF x
<1> HIDE DEF d
<1>15. \A k \in DOMAIN d : k > i => d[k].kind = "tool"
  <2> SUFFICES ASSUME NEW k \in DOMAIN d, k > i
               PROVE  d[k].kind = "tool"
    OBVIOUS
  <2>1. CASE k = Len(c) + 1
    BY <1>13, <1>14, <2>1, Zenon
  <2>2. CASE k # Len(c) + 1
    BY <1>0, <1>1, <1>14, <2>2
  <2>3. QED
    BY <2>1, <2>2
<1>16. Told(d, i, id, FALSE)
  <2>1. i + id = Len(d)
    BY <1>0, <1>1, <1>14
  <2>2. ASSUME NEW j \in 1..id
        PROVE  j \in DOMAIN d[i].calls /\ d[i + j] = Receipt(j, FALSE)
    <3>1. j \in DOMAIN d[i].calls
      BY <1>0, <1>2, <1>4, <1>8, <1>9, <1>14
    <3>2. CASE j = id
      <4>1. i + j = Len(c) + 1
        BY <1>0, <1>1, <3>2
      <4>2. QED
        BY <1>14, <3>1, <3>2, <4>1, Zenon
    <3>3. CASE j # id
      <4>1. j \in 1..m /\ i + j \in DOMAIN c /\ i + j # i
        BY <1>0, <1>1, <3>3
      <4>2. c[i + j] = Receipt(j, FALSE)
        BY <1>4, <4>1 DEF Told
      <4>3. QED
        BY <1>14, <3>1, <4>1, <4>2, Zenon
    <3>4. QED
      BY <3>1, <3>2, <3>3
  <2>3. ASSUME NEW j \in DOMAIN d[i].calls
        PROVE  d[i].calls[j] = IF j > id THEN "pending" ELSE "completed"
    <3>1. j \in DOMAIN c[i].calls /\ j \in Nat
      BY <1>4, <1>8, <1>9, <1>14
    <3>2. c[i].calls[j] = IF j > m THEN "pending" ELSE "completed"
      BY <1>4, <3>1, Zenon DEF Told
    <3>3. d[i].calls = rec
      BY <1>9, <1>14
    <3> HIDE DEF id
    <3>4. CASE j = id
      BY <1>8, <3>1, <3>3, <3>4
    <3>5. CASE j # id
      <4>1. d[i].calls[j] = c[i].calls[j]
        BY <1>8, <3>1, <3>3, <3>5
      <4>2. j > m <=> j > id
        BY <1>0, <3>1, <3>5 DEF id
      <4>3. QED
        BY <3>2, <4>1, <4>2, Zenon
    <3>6. QED
      BY <3>4, <3>5
  <2>4. i + id <= Len(d) /\ ~(i + id < Len(d))
    BY <1>0, <1>14, <2>1
  <2>5. QED
    BY <2>2, <2>3, <2>4, Zenon DEF Told
<1>17. Tidy(d) /\ Behind(d)
  <2>1. \E l \in 0..MaxReply, sealed \in BOOLEAN : Told(d, i, l, sealed)
    BY <1>7, <1>16
  <2>2. Len(d) >= Len(c) /\ Len(d) > i /\ d[i].kind = "assistant"
    BY <1>0, <1>1, <1>9, <1>14
  <2>3. QED
    BY <1>4, <1>14, <1>15, <2>1, <2>2, Replaced
<1>18. Current(d, i, id, Tail(left))
  <2>1. i + id = Len(d) /\ d[i].kind = "assistant"
    BY <1>0, <1>1, <1>9, <1>14
  <2>2. DOMAIN d[i].calls = 1..(id + Len(Tail(left))) /\ id + Len(Tail(left)) > 0
    BY <1>0, <1>2, <1>4, <1>8, <1>9, <1>14
  <2>3. ASSUME NEW j \in 1..Len(Tail(left))
        PROVE  Tail(left)[j].id = id + j
    <3>1. j \in 1..(Len(left) - 1) /\ j + 1 \in 1..Len(left)
      BY <1>2
    <3>2. Tail(left)[j] = left[j + 1] /\ left[j + 1].id = m + (j + 1)
      BY <1>2, <1>4, <3>1
    <3>3. QED
      BY <1>0, <3>1, <3>2
  <2>4. QED
    BY <1>16, <2>1, <2>2, <2>3 DEF Current
<1>19. i \in DOMAIN d
  BY <1>0, <1>14
<1>20. QED
  BY <1>7, <1>11, <1>17, <1>18, <1>19, Zenon

\* The ids of a whole reply, in their order.
LEMMA OrderOfAll ==
  ASSUME NEW n \in Nat
  PROVE  InOrder(1..n) = [k \in 1..n |-> k]
<1>1. Cardinality(1..n) = n
  BY FS_Interval
<1>2. ASSUME NEW id \in 1..n
      PROVE  Cardinality({other \in 1..n : other <= id}) = id
  <2>1. {other \in 1..n : other <= id} = 1..id
    OBVIOUS
  <2>2. Cardinality(1..id) = id
    BY FS_Interval
  <2>3. QED
    BY <2>1, <2>2
<1>3. ASSUME NEW k \in 1..n
      PROVE  (CHOOSE id \in 1..n : Cardinality({other \in 1..n : other <= id}) = k) = k
  BY <1>2
<1>4. QED
  BY <1>1, <1>3, Zenon DEF InOrder

\* A cancelled turn whose leaf is an answer: every call gets a receipt of its own.
LEMMA Sealing ==
  ASSUME NEW c, Tidy(c), Behind(c), NEW i \in DOMAIN c,
         NEW left \in Seq([id : CallId, to : Peer \cup {None}]), Current(c, i, 0, left)
  PROVE  Tidy(Seal(c)) /\ Behind(Seal(c)) /\ Settled(Seal(c))
<1> DEFINE n == Len(left)
           calls == c[i].calls
           rec == [id \in DOMAIN calls |->
                     IF calls[id] = "pending" THEN "interrupted" ELSE calls[id]]
           unrun == {id \in DOMAIN calls : calls[id] = "pending"}
           node == Assistant(rec)
           top == [c EXCEPT ![i] = node]
           more == [k \in 1..n |-> Receipt(k, TRUE)]
           d == top \o more
<1>0. c \in Seq(Node) /\ DOMAIN c = 1..Len(c) /\ Len(c) \in Nat /\ i = Len(c) /\ i \in Nat
  BY DEF Tidy, Current
<1>1. /\ n \in Nat /\ n > 0 /\ DOMAIN calls = 1..n /\ c[i].kind = "assistant"
      /\ \A id \in 1..n : calls[id] = "pending"
  BY DEF Current, Told
<1>2. n <= MaxReply /\ MaxReply \in Nat
  <2>1. c[i] \in Node
    BY <1>0
  <2>2. PICK l \in 0..MaxReply : DOMAIN calls = 1..l
    BY <1>1, <2>1, NodeKinds
  <2> HIDE DEF n, calls
  <2>3. n = l
    BY <1>1, <2>2
  <2>4. QED
    BY <1>1, <2>3, TurnAssumption DEF TurnAssumption
<1> HIDE DEF n, calls
<1>3. rec = [id \in 1..n |-> "interrupted"]
  BY <1>1
<1>4. node \in Node /\ node.kind = "assistant" /\ node.calls = [id \in 1..n |-> "interrupted"]
  <2>1. [id \in 1..n |-> "interrupted"] \in [1..n -> Status]
    BY DEF Status
  <2>2. rec \in Records
    BY <1>1, <1>2, <1>3, <2>1 DEF Records
  <2> HIDE DEF rec
  <2>3. QED
    BY <1>3, <2>2, NodesAre
<1> HIDE DEF rec
<1>5. Seal(c) = d
  <2>1. HasUnfinished(c[Len(c)]) /\ c # <<>>
    <3>1. 1 \in DOMAIN c[Len(c)].calls /\ c[Len(c)].calls[1] = "pending"
      BY <1>0, <1>1 DEF calls
    <3>2. QED
      BY <1>0, <1>1, <3>1 DEF HasUnfinished
  <2>2. unrun = 1..n
    BY <1>1
  <2>3. InOrder(unrun) = [k \in 1..n |-> k]
    BY <1>1, <2>2, OrderOfAll
  <2>4. Seal(c) = top \o [k \in DOMAIN InOrder(unrun) |-> Receipt(InOrder(unrun)[k], TRUE)]
    BY <1>0, <2>1, Zenon DEF Seal, calls, rec
  <2>5. Seal(c) = top \o [k \in DOMAIN [j \in 1..n |-> j] |-> Receipt([j \in 1..n |-> j][k], TRUE)]
    BY <2>3, <2>4, Zenon
  <2>6. [k \in DOMAIN [j \in 1..n |-> j] |-> Receipt([j \in 1..n |-> j][k], TRUE)] = more
    OBVIOUS
  <2>7. QED
    BY <2>5, <2>6, Zenon
<1> HIDE DEF node
<1>6. /\ top \in Seq(Node) /\ Len(top) = Len(c) /\ top[i] = node
      /\ \A k \in DOMAIN c : k # i => top[k] = c[k]
  BY <1>0, <1>4
<1>7. \A k \in 1..n : Receipt(k, TRUE) \in Node /\ Receipt(k, TRUE).kind = "tool"
  <2>1. \A k \in 1..n : k \in CallId
    BY <1>1, <1>2 DEF CallId
  <2>2. QED
    BY <2>1, NodesAre, Zenon
<1>8. more \in Seq(Node) /\ Len(more) = n /\ \A k \in 1..n : more[k] = Receipt(k, TRUE)
  <2>1. more \in [1..n -> Node] /\ \A k \in 1..n : more[k] = Receipt(k, TRUE)
    BY <1>7, Zenon
  <2> HIDE DEF more
  <2>2. more \in Seq(Node) /\ Len(more) = n
    BY <1>1, <2>1
  <2>3. QED
    BY <2>1, <2>2
<1> HIDE DEF top, more
<1>9. /\ d \in Seq(Node) /\ Len(d) = Len(c) + n /\ DOMAIN d = 1..(Len(c) + n)
      /\ (\A k \in 1..Len(c) : d[k] = top[k]) /\ \A k \in 1..n : d[Len(c) + k] = more[k]
  <2>1. top \in Seq(Node) /\ more \in Seq(Node) /\ Len(top) = Len(c) /\ Len(more) = n
    BY <1>6, <1>8
  <2>2. /\ d \in Seq(Node) /\ Len(d) = Len(top) + Len(more)
        /\ \A k \in 1..Len(top) + Len(more) :
             d[k] = IF k <= Len(top) THEN top[k] ELSE more[k - Len(top)]
    BY <2>1, ConcatProperties
  <2> HIDE DEF d
  <2>3. \A k \in 1..Len(c) : d[k] = top[k]
    BY <1>0, <1>1, <2>1, <2>2
  <2>4. ASSUME NEW k \in 1..n
        PROVE  d[Len(c) + k] = more[k]
    <3>1. Len(c) + k \in 1..Len(top) + Len(more) /\ ~(Len(c) + k <= Len(top))
          /\ Len(c) + k - Len(top) = k
      BY <1>0, <1>1, <2>1
    <3>2. QED
      BY <2>2, <3>1
  <2>5. QED
    BY <2>1, <2>2, <2>3, <2>4
<1> HIDE DEF d
<1>10. \A k \in 1..n : d[i + k] = Receipt(k, TRUE)
  BY <1>0, <1>8, <1>9
<1>11. d[i] = node /\ \A k \in DOMAIN c : k # i => d[k] = c[k]
  BY <1>0, <1>6, <1>9
<1>12. Told(d, i, n, TRUE)
  <2>1. i + n <= Len(d) /\ ~(i + n < Len(d))
    BY <1>0, <1>1, <1>9
  <2>2. /\ DOMAIN d[i].calls = 1..n
        /\ \A id \in 1..n : d[i].calls[id] = "interrupted" /\ ~(id > n) /\ id <= n
    BY <1>1, <1>4, <1>11
  <2>3. QED
    BY <1>10, <2>1, <2>2, Zenon DEF Told
<1>13. \A k \in DOMAIN d : k > i => d[k].kind = "tool"
  <2> SUFFICES ASSUME NEW k \in DOMAIN d, k > i
               PROVE  d[k].kind = "tool"
    OBVIOUS
  <2>1. k - i \in 1..n /\ k = i + (k - i)
    BY <1>0, <1>1, <1>9
  <2>2. QED
    BY <1>7, <1>10, <2>1
<1>14. Len(d) >= Len(c) /\ Len(d) > i /\ d[i].kind = "assistant" /\ n \in 0..MaxReply
  BY <1>0, <1>1, <1>2, <1>4, <1>9, <1>11
<1>15. Tidy(d) /\ Behind(d) /\ Settled(d)
  BY <1>1, <1>9, <1>11, <1>12, <1>13, <1>14, Replaced
<1>16. QED
  BY <1>5, <1>15

\* There is nothing to seal unless the leaf is an answer with calls.
LEMMA SealNothing ==
  ASSUME NEW c \in Seq(Node), Settled(c)
  PROVE  Seal(c) = c
<1>1. ASSUME c # <<>>
      PROVE  ~HasUnfinished(c[Len(c)])
  <2>1. Len(c) \in DOMAIN c /\ c[Len(c)] \in Node
    BY <1>1
  <2>2. SUFFICES ASSUME c[Len(c)].kind = "assistant"
                 PROVE  DOMAIN c[Len(c)].calls = {}
    BY DEF HasUnfinished
  <2>3. PICK n \in 0..MaxReply : DOMAIN c[Len(c)].calls = 1..n
    BY <2>1, <2>2, NodeKinds
  <2>4. 1 \notin 1..n
    BY <2>1, <2>2, <2>3 DEF Settled
  <2>5. n = 0
    BY <2>4, TurnAssumption DEF TurnAssumption
  <2>6. QED
    BY <2>3, <2>5
<1>2. QED
  BY <1>1 DEF Seal

\* A server that starts has asked nothing.
LEMMA InitIInv == Init => IInv
<1> SUFFICES ASSUME Init PROVE IInv
  OBVIOUS
<1>0. round = <<>> /\ round \in Seq([id : CallId, to : Peer \cup {None}])
  BY DEF Init
<1>1. LocalTypes
  <2>1. wrapping \in BOOLEAN
    BY DEF Init
  <2>2. QED
    BY <1>0, <2>1 DEF Init, LocalTypes
<1>2. OriginFollows /\ OriginTaken
  BY DEF Init, OriginFollows, OriginTaken
<1>3. CallsLeft
  BY DEF Init, CallsLeft
<1>4. QED
  BY <1>1, <1>2, <1>3 DEF IInv

\* Every step of the turn's own thread, and every step of another, keeps the invariant.
LEMMA NextIInv == IInv /\ [Next]_vars => IInv'
<1> SUFFICES ASSUME IInv, [Next]_vars PROVE IInv'
  OBVIOUS
<1> USE DEF IInv, LocalTypes, OriginFollows, OriginTaken, CallsLeft, Ceiling
<1>0. kBudget \in Nat \ {0} /\ MaxReply \in Nat \ {0}
  BY TurnAssumption DEF TurnAssumption
<1>1. ASSUME NEW from \in Peer \cup {None}, Ask(from) PROVE IInv'
  BY <1>0, <1>1 DEF Ask, SetPeerOrigin, result
<1>2. CASE Top
  <2>0. wrapping' \in BOOLEAN
    BY <1>2 DEF Top, CallProvider
  <2>1. LocalTypes' /\ OriginFollows' /\ OriginTaken'
    BY <1>0, <1>2, <2>0 DEF Top, CallProvider
  <2>2. CallsLeft'
    BY <1>0, <1>2 DEF Top, CallProvider
  <2>3. QED
    BY <2>1, <2>2
<1>3. ASSUME NEW calls \in Calls, NEW text \in BOOLEAN, ReplyCalls(calls, text) PROVE IInv'
  <2> DEFINE r == [id \in DOMAIN calls |-> [id |-> id, to |-> calls[id]]]
  <2>1. r \in Seq([id : CallId, to : Peer \cup {None}]) /\ Len(r) <= MaxReply
    BY RoundOfReply
  <2>2. /\ pc = "provider" /\ pc' = "call" /\ round' = r
        /\ rounds' = rounds /\ count' = count /\ wrapping' = wrapping /\ asked_by' = asked_by
        /\ ctx_origin' = peer_origin /\ peer_origin' = None
    BY <1>3 DEF ReplyCalls, BuildToolContext
  <2> HIDE DEF r
  <2>3. LocalTypes' /\ OriginFollows' /\ OriginTaken'
    BY <2>1, <2>2
  <2>4. Len(r) \in Nat
    BY <2>1
  <2>5. CallsLeft'
    BY <1>0, <2>1, <2>2, <2>4
  <2>6. QED
    BY <2>3, <2>5
<1>4. ASSUME NEW text \in BOOLEAN, ReplyText(text) PROVE IInv'
  BY <1>0, <1>4 DEF ReplyText
<1>5. ASSUME NEW text \in BOOLEAN, NEW leaving \in BOOLEAN, Throws(text, leaving) PROVE IInv'
  <2>1. /\ pc \in {"provider", "refused"} /\ pc' \in {"stopped", "abandoned", "finish"}
        /\ UNCHANGED <<round, count, rounds, wrapping, peer_origin, ctx_origin, asked_by>>
    BY <1>5 DEF Throws
  <2>2. QED
    BY <1>0, <2>1
<1>6. CASE StartCall
  BY <1>0, <1>6 DEF StartCall
<1>7. ASSUME NEW end \in {"refused", "ran", "stopped"}, EndCall(end) PROVE IInv'
  <2>1. /\ pc = "running" /\ pc' = "call" /\ round' = Tail(round)
        /\ UNCHANGED <<count, rounds, wrapping, peer_origin, ctx_origin, asked_by>>
    BY <1>7 DEF EndCall
  <2>2. /\ Tail(round) \in Seq([id : CallId, to : Peer \cup {None}])
        /\ Len(Tail(round)) = Len(round) - 1 /\ Len(round) \in Nat
    BY <2>1
  <2>3. QED
    BY <1>0, <2>1, <2>2
<1>8. CASE EndRound
  <2>1. /\ pc = "call" /\ pc' = "top" /\ round' = <<>>
        /\ UNCHANGED <<count, rounds, wrapping, peer_origin, ctx_origin, asked_by>>
    BY <1>8 DEF EndRound, result
  <2>2. Len(round) \in Nat
    OBVIOUS
  <2>3. QED
    BY <1>0, <2>1, <2>2
<1>9. CASE Finish
  <2>1. /\ pc' = "idle" /\ round' = <<>> /\ count' = 0 /\ rounds' = 0 /\ ~wrapping'
        /\ wrapping' \in BOOLEAN
    BY <1>9 DEF Finish, FreshTurn
  <2>2. <<>> \in Seq([id : CallId, to : Peer \cup {None}])
    OBVIOUS
  <2>3. QED
    BY <1>0, <2>1, <2>2
<1>10. CASE ClearHistory
  BY <1>0, <1>10 DEF ClearHistory, SetPeerOrigin, result
<1>11. CASE Others
  <2>1. UNCHANGED <<pc, round, count, rounds, wrapping, peer_origin, ctx_origin, asked_by>>
    BY <1>11 DEF Others, Cancel, SetUserNote, RewindBefore, result
  <2>2. QED
    BY <2>1
<1>12. CASE UNCHANGED vars
  BY <1>12 DEF vars, result
<1>13. QED
  BY <1>1, <1>2, <1>3, <1>4, <1>5, <1>6, <1>7, <1>8, <1>9, <1>10, <1>11, <1>12
  DEF Next, Worker

\* IInv holds in every state of every behaviour.
THEOREM Inductive == Spec => []IInv
<1>1. QED
  BY InitIInv, NextIInv, PTL DEF Spec

\* The name a round of tools runs under (ToolContext::peer_origin) is the asker's in the first
\* round of a turn and no other peer's in any, however turns of peers and of the user follow
\* each other and wherever they are cancelled (SetPeerOrigin, BuildToolContext).
THEOREM OriginHeld == Spec => []OriginOfThisTurn
<1>1. IInv => OriginOfThisTurn
  BY DEF IInv, OriginTaken, OriginOfThisTurn
<1>2. QED
  BY <1>1, Inductive, PTL

\* No turn makes as many calls as the budget and two replies hold (RunToolLoop).
THEOREM BudgetHeld == Spec => []BudgetBoundsCalls
<1>1. IInv => BudgetBoundsCalls
  <2> SUFFICES ASSUME IInv PROVE BudgetBoundsCalls
    OBVIOUS
  <2>1. kBudget \in Nat \ {0} /\ MaxReply \in Nat \ {0}
    BY TurnAssumption DEF TurnAssumption
  <2>2. Len(round) \in Nat
    BY DEF IInv, LocalTypes
  <2>3. QED
    BY <2>1, <2>2 DEF IInv, LocalTypes, CallsLeft, Ceiling, BudgetBoundsCalls
<1>2. QED
  BY <1>1, Inductive, PTL
-----------------------------------------------------------------------------
(* The chain over a turn.                                                  *)

\* A chain that waits for nothing and gets a question, a note or an answer without calls.
LEMMA Appends ==
  ASSUME NEW c, Tidy(c), Behind(c), NEW node \in Node, Settled(c) \/ node = User(None),
         node.kind = "user" \/ node = Assistant(<<>>)
  PROVE  LET d == After(c, node) IN Tidy(d) /\ Behind(d) /\ Settled(d)
<1>1. node.kind # "tool" /\ (node.kind = "assistant" => DOMAIN node.calls = {})
  BY DEF Assistant
<1>2. After(c, node) = Append(c, node)
  BY <1>1 DEF After
<1>3. Tidy(Append(c, node)) /\ Behind(Append(c, node))
  BY <1>1, Plain
<1>4. Settled(Append(c, node))
  BY <1>1, PlainSettles DEF Tidy
<1>5. QED
  BY <1>2, <1>3, <1>4, Zenon

\* A reply with calls is what the round runs.
LEMMA Replies ==
  ASSUME NEW c, Tidy(c), Behind(c), Settled(c), NEW calls \in Calls
  PROVE  LET d == After(c, Assistant([id \in DOMAIN calls |-> "pending"]))
             r == [id \in DOMAIN calls |-> [id |-> id, to |-> calls[id]]]
         IN  /\ Tidy(d) /\ Behind(d)
             /\ \E i \in DOMAIN d, m \in 0..MaxReply : Current(d, i, m, r)
<1> DEFINE rec == [id \in DOMAIN calls |-> "pending"]
           r == [id \in DOMAIN calls |-> [id |-> id, to |-> calls[id]]]
           node == Assistant(rec)
           d == Append(c, node)
           i == Len(c) + 1
<1>0. c \in Seq(Node) /\ Len(c) \in Nat
  BY DEF Tidy
<1>1. PICK n \in 1..MaxReply : calls \in [1..n -> Peer \cup {None}]
  BY DEF Calls
<1>2. n \in Nat /\ n > 0 /\ n \in 0..MaxReply /\ 0 \in 0..MaxReply
  BY <1>1, TurnAssumption DEF TurnAssumption
<1>3. rec \in Records /\ DOMAIN rec = 1..n /\ \A id \in 1..n : rec[id] = "pending"
  <2>1. rec \in [1..n -> Status] /\ DOMAIN rec = 1..n /\ \A id \in 1..n : rec[id] = "pending"
    BY <1>1 DEF Status
  <2> HIDE DEF rec
  <2>2. QED
    BY <1>2, <2>1 DEF Records
<1>4. r \in Seq([id : CallId, to : Peer \cup {None}]) /\ Len(r) = n /\ \A j \in 1..n : r[j].id = j
  <2>1. DOMAIN r = 1..n /\ \A j \in 1..n : r[j].id = j
    BY <1>1
  <2>2. r \in Seq([id : CallId, to : Peer \cup {None}])
    BY RoundOfReply
  <2> HIDE DEF r
  <2>3. Len(r) = n
    BY <1>2, <2>1, <2>2
  <2>4. QED
    BY <2>1, <2>2, <2>3
<1> HIDE DEF rec, r
<1>5. node \in Node /\ node.kind = "assistant" /\ node.calls = rec
  BY <1>3, NodesAre
<1> HIDE DEF node
<1>6. After(c, node) = d
  BY <1>5 DEF After
<1>7. Tidy(d) /\ Behind(d)
  BY <1>3, <1>5, Plain
<1>8. Len(d) = i /\ d[i] = node /\ i \in DOMAIN d
  BY <1>0, <1>5
<1> HIDE DEF d
<1>9. Told(d, i, 0, FALSE)
  <2>1. i + 0 <= Len(d) /\ ~(i + 0 < Len(d)) /\ 1..0 = {}
    BY <1>0, <1>8
  <2>2. \A id \in DOMAIN d[i].calls : d[i].calls[id] = "pending" /\ id > 0
    BY <1>2, <1>3, <1>5, <1>8
  <2>3. QED
    BY <2>1, <2>2, Zenon DEF Told
<1>10. Current(d, i, 0, r)
  <2>1. /\ d[i].kind = "assistant" /\ i + 0 = Len(d) /\ DOMAIN d[i].calls = 1..(0 + Len(r))
        /\ 0 + Len(r) > 0 /\ \A j \in 1..Len(r) : r[j].id = 0 + j
    BY <1>0, <1>2, <1>3, <1>4, <1>5, <1>8
  <2>2. QED
    BY <1>9, <2>1, Zenon DEF Current
<1>11. QED
  BY <1>2, <1>6, <1>7, <1>8, <1>10, Zenon DEF rec, r, node

\* The end of a round: a note and, for a cancelled turn, the seals.
LEMMA RoundEnds ==
  ASSUME NEW c, Tidy(c), Behind(c), NEW i \in DOMAIN c, NEW m \in 0..MaxReply,
         NEW left \in Seq([id : CallId, to : Peer \cup {None}]), Current(c, i, m, left)
  PROVE  /\ LET d == After(c, User(None)) IN Tidy(d) /\ Behind(d) /\ Settled(d) /\ Seal(d) = d
         /\ left = <<>> => Settled(c)
         /\ LET d == Seal(c) IN Tidy(d) /\ Behind(d) /\ Settled(d)
<1>0. c \in Seq(Node) /\ Len(c) \in Nat /\ DOMAIN c = 1..Len(c) /\ m \in Nat
  BY TurnAssumption DEF Tidy, TurnAssumption
<1>1. /\ i \in Nat /\ Len(c) = i + m
      /\ \A k \in DOMAIN c : k > i => c[k].kind = "tool"
  BY <1>0, CurrentLast
<1>2. LET d == After(c, User(None)) IN Tidy(d) /\ Behind(d) /\ Settled(d) /\ Seal(d) = d
  <2>1. User(None) \in Node /\ User(None).kind = "user"
    BY NodesAre
  <2>2. LET d == After(c, User(None)) IN Tidy(d) /\ Behind(d) /\ Settled(d)
    BY <2>1, Appends
  <2>3. QED
    BY <2>2, SealNothing DEF Tidy
<1>3. ASSUME m > 0
      PROVE  Settled(c)
  BY <1>0, <1>1, <1>3 DEF Settled
<1>4. left = <<>> => Settled(c)
  <2>1. left = <<>> => m > 0
    BY <1>0 DEF Current
  <2>2. QED
    BY <1>3, <2>1
<1>5. LET d == Seal(c) IN Tidy(d) /\ Behind(d) /\ Settled(d)
  <2>1. CASE m > 0
    <3>1. Settled(c) /\ Seal(c) = c
      BY <1>0, <1>3, <2>1, SealNothing
    <3>2. QED
      BY <3>1, Zenon
  <2>2. CASE m = 0
    BY <2>2, Sealing
  <2>3. QED
    BY <1>0, <2>1, <2>2
<1>6. QED
  BY <1>2, <1>4, <1>5

\* Every step keeps answers and receipts together.
LEMMA ChainStep == IInv /\ ChainInv /\ [Next]_vars => ChainInv'
<1> SUFFICES ASSUME IInv, ChainInv, [Next]_vars, ~displaced' PROVE ChainInv'
  BY DEF ChainInv
<1> DEFINE Good(c) == Tidy(c) /\ Behind(c) /\ Settled(c)
<1>0. round \in Seq([id : CallId, to : Peer \cup {None}])
  BY DEF IInv, LocalTypes
<1>1. ASSUME Good(chain'), ~InRound'
      PROVE  ChainInv'
  BY <1>1 DEF ChainInv
<1>2. ASSUME ~displaced, ~InRound
      PROVE  Good(chain) /\ chain \in Seq(Node)
  BY <1>2 DEF ChainInv, Tidy
<1>3. ASSUME ~displaced, InRound
      PROVE  /\ Tidy(chain) /\ Behind(chain)
             /\ \E i \in DOMAIN chain, m \in 0..MaxReply : Current(chain, i, m, round)
  BY <1>3 DEF ChainInv
<1>4. ASSUME UNCHANGED <<chain, round, displaced>>, InRound' <=> InRound
      PROVE  ChainInv'
  BY <1>4 DEF ChainInv
<1>5. ASSUME NEW from \in Peer \cup {None}, Ask(from) PROVE ChainInv'
  <2>1. ~displaced /\ ~InRound /\ ~InRound' /\ chain' = After(chain, User(from))
    BY <1>5 DEF Ask, InRound
  <2>2. User(from) \in Node /\ User(from).kind = "user"
    BY NodesAre
  <2>3. Good(After(chain, User(from)))
    BY <1>2, <2>1, <2>2, Appends
  <2>4. QED
    BY <1>1, <2>1, <2>3, Zenon
<1>6. CASE Top
  <2>1. ~displaced /\ ~InRound /\ ~InRound' /\ chain' \in {chain, After(chain, User(None))}
    BY <1>6 DEF Top, InRound, CallProvider
  <2>2. User(None) \in Node /\ User(None).kind = "user"
    BY NodesAre
  <2>3. Good(chain) /\ Good(After(chain, User(None)))
    BY <1>2, <2>1, <2>2, Appends
  <2>4. QED
    BY <1>1, <2>1, <2>3, Zenon
<1>7. ASSUME NEW calls \in Calls, NEW text \in BOOLEAN, ReplyCalls(calls, text) PROVE ChainInv'
  <2> DEFINE d == After(chain, Assistant([id \in DOMAIN calls |-> "pending"]))
             r == [id \in DOMAIN calls |-> [id |-> id, to |-> calls[id]]]
  <2>1. ~displaced /\ ~InRound /\ InRound' /\ chain' = d /\ round' = r
    BY <1>7 DEF ReplyCalls, InRound
  <2>2. /\ Tidy(d) /\ Behind(d)
        /\ \E i \in DOMAIN d, m \in 0..MaxReply : Current(d, i, m, r)
    BY <1>2, <2>1, Replies
  <2> HIDE DEF d, r
  <2>3. QED
    BY <2>1, <2>2, Zenon DEF ChainInv
<1>8. ASSUME NEW text \in BOOLEAN, ReplyText(text) PROVE ChainInv'
  BY <1>4, <1>8 DEF ReplyText, InRound
<1>9. ASSUME NEW text \in BOOLEAN, NEW leaving \in BOOLEAN, Throws(text, leaving) PROVE ChainInv'
  <2>1. ~displaced /\ ~InRound /\ ~InRound' /\ chain' \in {chain, Seal(chain)}
    BY <1>9 DEF Throws, InRound
  <2>2. Good(chain) /\ Seal(chain) = chain
    BY <1>2, <2>1, SealNothing
  <2>3. QED
    BY <1>1, <2>1, <2>2, Zenon
<1>10. CASE StartCall
  BY <1>4, <1>10 DEF StartCall, InRound
<1>11. ASSUME NEW end \in {"refused", "ran", "stopped"}, EndCall(end) PROVE ChainInv'
  <2> DEFINE d == After(chain, Receipt(Head(round).id, FALSE))
  <2>1. ~displaced /\ InRound /\ InRound' /\ chain' = d /\ round' = Tail(round)
        /\ pc = "running"
    BY <1>11 DEF EndCall, Answered, InRound
  <2>2. PICK i \in DOMAIN chain, m \in 0..MaxReply : Current(chain, i, m, round)
    BY <1>3, <2>1
  <2>3. /\ Tidy(d) /\ Behind(d) /\ i \in DOMAIN d /\ m + 1 \in 0..MaxReply
        /\ Current(d, i, m + 1, Tail(round))
    <3>1. round # <<>>
      BY <2>1 DEF IInv, CallsLeft
    <3>2. QED
      BY <1>0, <1>3, <2>1, <2>2, <3>1, Receive
  <2> HIDE DEF d
  <2>4. QED
    BY <2>1, <2>3, Zenon DEF ChainInv
<1>12. CASE EndRound
  <2> DEFINE noted == After(chain, User(None))
  <2>1. /\ ~displaced /\ InRound /\ ~InRound'
        /\ \/ chain' = noted \/ chain' = Seal(noted) \/ chain' = Seal(chain)
           \/ round = <<>> /\ chain' = chain
    BY <1>12 DEF EndRound, InRound
  <2>2. PICK i \in DOMAIN chain, m \in 0..MaxReply : Current(chain, i, m, round)
    BY <1>3, <2>1
  <2>3. /\ Good(noted) /\ Seal(noted) = noted /\ (round = <<>> => Settled(chain))
        /\ Good(Seal(chain)) /\ Tidy(chain) /\ Behind(chain)
    BY <1>0, <1>3, <2>1, <2>2, RoundEnds
  <2> HIDE DEF noted
  <2>4. QED
    BY <1>1, <2>1, <2>3, Zenon
<1>13. CASE Finish
  <2>1. ~displaced /\ ~InRound /\ ~InRound' /\ chain' \in {chain, After(chain, Assistant(<<>>))}
    <3>1. pc \in {"finish", "stopped", "abandoned"} /\ pc' = "idle" /\ displaced' = displaced
          /\ chain' \in {chain, After(chain, Assistant(<<>>))}
      BY <1>13 DEF Finish
    <3>2. QED
      BY <3>1 DEF InRound
  <2>2. Assistant(<<>>) \in Node
    <3>1. <<>> \in [1..0 -> Status] /\ 0 \in 0..MaxReply
      BY TurnAssumption DEF TurnAssumption
    <3>2. <<>> \in Records
      BY <3>1 DEF Records
    <3>3. QED
      BY <3>2, NodesAre
  <2>3. Good(chain) /\ Good(After(chain, Assistant(<<>>)))
    BY <1>2, <2>1, <2>2, Appends
  <2>4. QED
    BY <1>1, <2>1, <2>3, Zenon
<1>14. CASE ClearHistory
  <2>1. ~InRound' /\ chain' = <<>>
    BY <1>14 DEF ClearHistory, InRound
  <2>2. Good(<<>>)
    BY DEF Tidy, Behind, Settled
  <2>3. QED
    BY <1>1, <2>1, <2>2
<1>15. ASSUME NEW t \in DOMAIN chain, RewindBefore(t) PROVE ChainInv'
  <2>1. /\ chain' = SubSeq(chain, 1, t - 1) /\ pc' = pc
        /\ displaced' = (displaced \/ pc # "idle" \/ chain[t].kind = "tool"
                         \/ (t > 1 /\ HasUnfinished(chain[t - 1])))
    BY <1>15 DEF RewindBefore
  <2>2. /\ ~displaced /\ ~InRound /\ ~InRound' /\ chain[t].kind # "tool"
        /\ (t > 1 => ~HasUnfinished(chain[t - 1]))
    BY <2>1 DEF InRound
  <2>3. Good(SubSeq(chain, 1, t - 1))
    BY <1>2, <2>2, Cut
  <2>4. QED
    BY <1>1, <2>1, <2>2, <2>3, Zenon
<1>16. CASE Cancel \/ SetUserNote \/ UNCHANGED vars
  BY <1>4, <1>16 DEF Cancel, SetUserNote, vars, InRound
<1>17. QED
  BY <1>5, <1>6, <1>7, <1>8, <1>9, <1>10, <1>11, <1>12, <1>13, <1>14, <1>15, <1>16
  DEF Next, Worker, Others

\* Receipts and answers agree in every state of every behaviour.
LEMMA ChainHolds == Spec => []ChainInv
<1>1. Init => ChainInv
  <2> SUFFICES ASSUME Init PROVE ChainInv
    OBVIOUS
  <2>1. chain = <<>> /\ ~InRound
    BY DEF Init, InRound
  <2>2. Tidy(<<>>) /\ Behind(<<>>) /\ Settled(<<>>)
    BY DEF Tidy, Behind, Settled
  <2>3. QED
    BY <2>1, <2>2, Zenon DEF ChainInv
<1>2. IInv /\ ChainInv /\ [Next]_vars => ChainInv'
  BY ChainStep
<1>3. QED
  BY <1>1, <1>2, Inductive, PTL DEF Spec

\* The greatest of some positions is one of them.
LEMMA GreatestOf ==
  ASSUME NEW n \in Nat, NEW S \in SUBSET (1..n), S # {}
  PROVE  (CHOOSE a \in S : \A k \in S : k <= a) \in S
<1> DEFINE R == {ss \in Nat \X Nat : ss[1] < ss[2]}
           T == {m \in 0..n : \E k \in S : m = n - k}
<1>1. R = OpToRel(<, Nat)
  BY DEF OpToRel
<1>2. IsWellFoundedOn(R, Nat)
  BY <1>1, NatLessThanWellFounded
<1>3. T \subseteq Nat /\ T # {}
  <2>1. PICK k \in S : TRUE
    OBVIOUS
  <2>2. n - k \in T
    BY <2>1
  <2>3. T \subseteq Nat
    OBVIOUS
  <2>4. QED
    BY <2>2, <2>3, Zenon
<1>4. PICK x \in T : \A y \in T : ~(<<y, x>> \in R)
  BY <1>2, <1>3, WFMin
<1>5. PICK a \in S : x = n - a
  OBVIOUS
<1>6. ASSUME NEW k \in S
      PROVE  k <= a
  <2>1. n - k \in T
    OBVIOUS
  <2>2. ~(<<n - k, x>> \in R)
    BY <1>4, <2>1
  <2>3. ~(n - k < x)
    BY <1>3, <2>1, <2>2
  <2>4. QED
    BY <1>5, <2>3
<1>7. QED
  BY <1>5, <1>6

\* A receipt completes a record and leaves the kinds of nodes alone.
LEMMA CompleteKeeps ==
  ASSUME NEW c \in Seq(Node), NEW id
  PROVE  LET d == CompleteFor(c, id)
         IN  /\ d \in Seq(Node) /\ Len(d) = Len(c)
             /\ \A k \in 1..Len(c) : /\ d[k].kind = c[k].kind
                                     /\ HasUnfinished(d[k]) => HasUnfinished(c[k])
<1> DEFINE d == CompleteFor(c, id)
<1>1. CASE d = c
  BY <1>1
<1>2. CASE d # c
  <2> DEFINE a == CHOOSE a \in Carriers(c, id) : \A k \in Carriers(c, id) : k <= a
  <2>1. d = [c EXCEPT ![a].calls[id] = "completed"] /\ Carriers(c, id) # {}
    BY <1>2 DEF CompleteFor
  <2>2. a \in DOMAIN c /\ c[a].kind = "assistant" /\ id \in DOMAIN c[a].calls
    <3>1. Carriers(c, id) \subseteq 1..Len(c) /\ Len(c) \in Nat
      BY DEF Carriers
    <3>2. a \in Carriers(c, id)
      BY <2>1, <3>1, GreatestOf
    <3>3. QED
      BY <3>2 DEF Carriers
  <2> HIDE DEF a
  <2> DEFINE node == [c[a] EXCEPT !.calls = [c[a].calls EXCEPT ![id] = "completed"]]
  <2>3. d = [c EXCEPT ![a] = node]
    BY <2>1
  <2>4. c[a] \in [kind : {"assistant"}, calls : Records]
    BY <2>2 DEF Node
  <2>5. PICK n \in 0..MaxReply : c[a].calls \in [1..n -> Status]
    BY <2>4 DEF Records
  <2>6. [c[a].calls EXCEPT ![id] = "completed"] \in [1..n -> Status]
    BY <2>5 DEF Status
  <2>7. [c[a].calls EXCEPT ![id] = "completed"] \in Records
    BY <2>6 DEF Records
  <2>8. /\ node \in Node /\ node.kind = "assistant"
        /\ node.calls = [c[a].calls EXCEPT ![id] = "completed"]
    BY <2>4, <2>7 DEF Node
  <2>9. HasUnfinished(node) => HasUnfinished(c[a])
    BY <2>2, <2>5, <2>8 DEF HasUnfinished
  <2> HIDE DEF d, node
  <2>10. /\ d \in Seq(Node) /\ Len(d) = Len(c) /\ d[a] = node
         /\ \A k \in 1..Len(c) : k # a => d[k] = c[k]
    BY <2>2, <2>3, <2>8
  <2>11. \A k \in 1..Len(c) : d[k].kind = c[k].kind /\ (HasUnfinished(d[k]) => HasUnfinished(c[k]))
    BY <2>2, <2>8, <2>9, <2>10
  <2>12. QED
    BY <2>10, <2>11 DEF d
<1>3. QED
  BY <1>1, <1>2

\* A chain on which no call waits has nothing to seal.
LEMMA SealQuiet ==
  ASSUME NEW c \in Seq(Node), Quiet(c)
  PROVE  Seal(c) = c
<1>1. c # <<>> => Len(c) \in DOMAIN c
  OBVIOUS
<1>2. QED
  BY <1>1 DEF Quiet, Seal

\* A question, a note or an answer without calls leaves a chain quiet.
LEMMA AppendsQuiet ==
  ASSUME NEW c \in Seq(Node), Quiet(c), NEW node \in Node,
         node.kind = "user" \/ node = Assistant(<<>>)
  PROVE  Quiet(After(c, node)) /\ After(c, node) \in Seq(Node)
<1>1. node.kind # "tool" /\ ~HasUnfinished(node)
  BY DEF Assistant, HasUnfinished
<1>2. After(c, node) = Append(c, node)
  BY <1>1 DEF After
<1> DEFINE d == Append(c, node)
<1>3. /\ d \in Seq(Node) /\ Len(d) = Len(c) + 1 /\ d[Len(c) + 1] = node /\ Len(c) \in Nat
      /\ \A k \in 1..Len(c) : d[k] = c[k]
  BY AppendNode
<1> HIDE DEF d
<1>4. Quiet(d)
  BY <1>1, <1>3 DEF Quiet
<1>5. QED
  BY <1>2, <1>3, <1>4 DEF d

\* Every step keeps the calls of a reply that ran to its end answered.
LEMMA WholeStep == IInv /\ ChainInv /\ WholeInv /\ [Next]_vars => WholeInv'
<1> SUFFICES ASSUME IInv, ChainInv, WholeInv, [Next]_vars, ~displaced', ~cut' PROVE WholeInv'
  BY DEF WholeInv
<1>1. ASSUME Quiet(chain'), ~InRound'
      PROVE  WholeInv'
  BY <1>1 DEF WholeInv
<1>2. ASSUME ~displaced
      PROVE  chain \in Seq(Node)
  BY <1>2 DEF ChainInv, Tidy
<1>3. ASSUME ~displaced, ~cut, ~InRound
      PROVE  Quiet(chain)
  BY <1>3 DEF WholeInv
<1>4. ASSUME UNCHANGED <<chain, displaced, cut>>, InRound' <=> InRound
      PROVE  WholeInv'
  BY <1>4 DEF WholeInv, Quiet
<1>5. ASSUME NEW from \in Peer \cup {None}, Ask(from) PROVE WholeInv'
  <2>1. ~displaced /\ ~cut /\ ~InRound /\ ~InRound' /\ chain' = After(chain, User(from))
    BY <1>5 DEF Ask, InRound
  <2>2. User(from) \in Node /\ User(from).kind = "user"
    BY NodesAre
  <2>3. Quiet(After(chain, User(from)))
    BY <1>2, <1>3, <2>1, <2>2, AppendsQuiet
  <2>4. QED
    BY <1>1, <2>1, <2>3, Zenon
<1>6. CASE Top
  <2>1. /\ ~displaced /\ ~cut /\ ~InRound /\ ~InRound'
        /\ chain' \in {chain, After(chain, User(None))}
    BY <1>6 DEF Top, InRound, CallProvider
  <2>2. User(None) \in Node /\ User(None).kind = "user"
    BY NodesAre
  <2>3. Quiet(chain) /\ Quiet(After(chain, User(None)))
    BY <1>2, <1>3, <2>1, <2>2, AppendsQuiet
  <2>4. QED
    BY <1>1, <2>1, <2>3, Zenon
<1>7. ASSUME NEW calls \in Calls, NEW text \in BOOLEAN, ReplyCalls(calls, text) PROVE WholeInv'
  <2> DEFINE rec == [id \in DOMAIN calls |-> "pending"]
             node == Assistant(rec)
             d == Append(chain, node)
  <2>1. ~displaced /\ ~cut /\ ~InRound /\ InRound' /\ chain' = After(chain, node)
    BY <1>7 DEF ReplyCalls, InRound
  <2>2. node \in Node /\ node.kind = "assistant"
    <3>1. PICK n \in 1..MaxReply : calls \in [1..n -> Peer \cup {None}]
      BY DEF Calls
    <3>2. rec \in [1..n -> Status] /\ n \in 0..MaxReply
      BY <3>1, TurnAssumption DEF Status, TurnAssumption
    <3>3. rec \in Records
      BY <3>2 DEF Records
    <3> HIDE DEF rec
    <3>4. QED
      BY <3>3, NodesAre
  <2> HIDE DEF node
  <2>3. chain' = d
    BY <2>1, <2>2 DEF After
  <2>4. chain \in Seq(Node) /\ Quiet(chain)
    BY <1>2, <1>3, <2>1
  <2>5. /\ d \in Seq(Node) /\ Len(d) = Len(chain) + 1 /\ Len(chain) \in Nat
        /\ DOMAIN d = 1..Len(d) /\ \A k \in 1..Len(chain) : d[k] = chain[k]
    BY <2>2, <2>4, AppendNode
  <2> HIDE DEF d
  <2>6. ASSUME NEW i \in DOMAIN d, HasUnfinished(d[i])
        PROVE  i = Len(d)
    BY <2>4, <2>5, <2>6 DEF Quiet
  <2>7. \A i \in DOMAIN d : HasUnfinished(d[i]) =>
          \A k \in DOMAIN d : k > i => d[k].kind = "tool"
    BY <2>5, <2>6
  <2>8. QED
    BY <2>1, <2>3, <2>7, Zenon DEF WholeInv
<1>8. ASSUME NEW text \in BOOLEAN, ReplyText(text) PROVE WholeInv'
  BY <1>4, <1>8 DEF ReplyText, InRound
<1>9. ASSUME NEW text \in BOOLEAN, NEW leaving \in BOOLEAN, Throws(text, leaving) PROVE WholeInv'
  <2>1. ~displaced /\ ~cut /\ ~InRound /\ ~InRound' /\ chain' \in {chain, Seal(chain)}
    BY <1>9 DEF Throws, InRound
  <2>2. Quiet(chain) /\ Seal(chain) = chain
    BY <1>2, <1>3, <2>1, SealQuiet
  <2>3. QED
    BY <1>1, <2>1, <2>2, Zenon
<1>10. CASE StartCall
  BY <1>4, <1>10 DEF StartCall, InRound
<1>11. ASSUME NEW end \in {"refused", "ran", "stopped"}, EndCall(end) PROVE WholeInv'
  <2> DEFINE id == Head(round).id
             done == CompleteFor(chain, id)
             d == Append(done, Receipt(id, FALSE))
  <2>1. /\ ~displaced /\ ~cut /\ InRound /\ InRound' /\ pc = "running"
        /\ chain' = After(chain, Receipt(id, FALSE))
    BY <1>11 DEF EndCall, Answered, InRound
  <2>2. id \in CallId
    <3>1. round # <<>> /\ round \in Seq([id : CallId, to : Peer \cup {None}])
      BY <2>1 DEF IInv, LocalTypes, CallsLeft
    <3>2. Head(round) \in [id : CallId, to : Peer \cup {None}]
      BY <3>1, HeadTailProperties
    <3>3. QED
      BY <3>2
  <2>3. /\ Receipt(id, FALSE) \in Node /\ Receipt(id, FALSE).kind = "tool"
        /\ Receipt(id, FALSE).id = id
    BY <2>2, NodesAre
  <2>4. chain' = d
    BY <2>1, <2>3, Zenon DEF After
  <2>5. /\ done \in Seq(Node) /\ Len(done) = Len(chain) /\ chain \in Seq(Node)
        /\ \A k \in 1..Len(chain) : /\ done[k].kind = chain[k].kind
                                    /\ HasUnfinished(done[k]) => HasUnfinished(chain[k])
    BY <1>2, <2>1, CompleteKeeps
  <2> HIDE DEF done
  <2> DEFINE x == Receipt(id, FALSE)
  <2>6. x \in Node /\ x.kind = "tool" /\ ~HasUnfinished(x)
    BY <2>3 DEF HasUnfinished
  <2>7. d = Append(done, x)
    OBVIOUS
  <2> HIDE DEF x, d, id
  <2>8. /\ d \in Seq(Node) /\ Len(d) = Len(chain) + 1 /\ Len(chain) \in Nat
        /\ DOMAIN d = 1..Len(d) /\ d[Len(chain) + 1] = x
        /\ \A k \in 1..Len(chain) : d[k] = done[k]
    <3>1. /\ Append(done, x) \in Seq(Node) /\ Len(Append(done, x)) = Len(done) + 1
          /\ Append(done, x)[Len(done) + 1] = x
          /\ \A k \in 1..Len(done) : Append(done, x)[k] = done[k]
      BY <2>5, <2>6, AppendNode, Zenon
    <3>2. QED
      BY <2>5, <2>7, <3>1
  <2>9. ASSUME NEW i \in DOMAIN d, HasUnfinished(d[i]), NEW k \in DOMAIN d, k > i
        PROVE  d[k].kind = "tool"
    <3>1. i \in 1..Len(chain) /\ i \in DOMAIN chain /\ HasUnfinished(chain[i])
      BY <2>5, <2>6, <2>8, <2>9
    <3>2. CASE k = Len(chain) + 1
      BY <2>6, <2>8, <3>2, Zenon
    <3>3. CASE k # Len(chain) + 1
      <4>1. k \in 1..Len(chain) /\ k \in DOMAIN chain
        BY <2>5, <2>8, <3>3
      <4>2. chain[k].kind = "tool"
        BY <2>1, <2>9, <3>1, <4>1 DEF WholeInv
      <4>3. QED
        BY <2>5, <2>8, <4>1, <4>2
    <3>4. QED
      BY <3>2, <3>3
  <2>10. QED
    BY <2>1, <2>4, <2>9, Zenon DEF WholeInv
<1>12. CASE EndRound
  <2> DEFINE noted == After(chain, User(None))
  <2>1. /\ ~displaced /\ ~cut /\ InRound /\ ~InRound' /\ round = <<>>
        /\ \/ chain' = noted \/ chain' = Seal(noted) \/ chain' = Seal(chain) \/ chain' = chain
    BY <1>12 DEF EndRound, InRound
  <2>2. PICK i \in DOMAIN chain, m \in 0..MaxReply : Current(chain, i, m, round)
    BY <2>1 DEF ChainInv
  <2>3. chain \in Seq(Node) /\ m \in Nat
    BY <1>2, <2>1, TurnAssumption DEF TurnAssumption
  <2>4. /\ i \in Nat /\ chain[i].kind = "assistant"
        /\ \A k \in DOMAIN chain : k > i => chain[k].kind = "tool"
    BY <2>2, <2>3, CurrentLast DEF Current
  <2>5. ~HasUnfinished(chain[i])
    <3>0. Len(round) = 0 /\ m + 0 = m
      BY <2>1, <2>3
    <3>1. DOMAIN chain[i].calls = 1..m /\ Told(chain, i, m, FALSE)
      BY <2>2, <3>0, Zenon DEF Current
    <3>2. \A id \in DOMAIN chain[i].calls :
            chain[i].calls[id] = IF id > m THEN "pending" ELSE "completed"
      BY <3>1, Zenon DEF Told
    <3>3. QED
      BY <2>3, <3>1, <3>2 DEF HasUnfinished
  <2>6. Quiet(chain)
    <3> SUFFICES ASSUME NEW j \in DOMAIN chain, HasUnfinished(chain[j]) PROVE FALSE
      BY DEF Quiet
    <3>1. chain[j].kind = "assistant" /\ j \in Nat
      BY <2>3 DEF HasUnfinished
    <3>2. ~(j > i) /\ j # i
      BY <2>4, <2>5, <3>1
    <3>3. i > j
      BY <2>4, <3>1, <3>2
    <3>4. QED
      BY <2>1, <2>2, <2>4, <3>3 DEF WholeInv
  <2>7. User(None) \in Node /\ User(None).kind = "user"
    BY NodesAre
  <2>8. Quiet(noted) /\ noted \in Seq(Node)
    BY <2>3, <2>6, <2>7, AppendsQuiet
  <2>9. Seal(noted) = noted /\ Seal(chain) = chain
    BY <2>3, <2>6, <2>8, SealQuiet
  <2> HIDE DEF noted
  <2>10. QED
    BY <1>1, <2>1, <2>6, <2>8, <2>9, Zenon
<1>13. CASE Finish
  <2>1. /\ ~displaced /\ ~cut /\ ~InRound /\ ~InRound'
        /\ chain' \in {chain, After(chain, Assistant(<<>>))}
    <3>1. /\ pc \in {"finish", "stopped", "abandoned"} /\ pc' = "idle"
          /\ displaced' = displaced /\ cut' = cut
          /\ chain' \in {chain, After(chain, Assistant(<<>>))}
      BY <1>13 DEF Finish
    <3>2. QED
      BY <3>1 DEF InRound
  <2>2. Assistant(<<>>) \in Node
    <3>1. <<>> \in [1..0 -> Status] /\ 0 \in 0..MaxReply
      BY TurnAssumption DEF TurnAssumption
    <3>2. <<>> \in Records
      BY <3>1 DEF Records
    <3>3. QED
      BY <3>2, NodesAre
  <2>3. Quiet(chain) /\ Quiet(After(chain, Assistant(<<>>)))
    BY <1>2, <1>3, <2>1, <2>2, AppendsQuiet
  <2>4. QED
    BY <1>1, <2>1, <2>3, Zenon
<1>14. CASE ClearHistory
  <2>1. ~InRound' /\ chain' = <<>>
    BY <1>14 DEF ClearHistory, InRound
  <2>2. Quiet(<<>>)
    BY DEF Quiet
  <2>3. QED
    BY <1>1, <2>1, <2>2
<1>15. ASSUME NEW t \in DOMAIN chain, RewindBefore(t) PROVE WholeInv'
  <2>1. /\ chain' = SubSeq(chain, 1, t - 1) /\ pc' = pc /\ cut' = cut
        /\ displaced' = (displaced \/ pc # "idle" \/ chain[t].kind = "tool"
                         \/ (t > 1 /\ HasUnfinished(chain[t - 1])))
    BY <1>15 DEF RewindBefore
  <2>2. ~displaced /\ ~cut /\ ~InRound /\ ~InRound'
    BY <2>1 DEF InRound
  <2>3. Quiet(chain) /\ chain \in Seq(Node)
    BY <1>2, <1>3, <2>2
  <2>4. Quiet(SubSeq(chain, 1, t - 1))
    BY <2>3 DEF Quiet
  <2>5. QED
    BY <1>1, <2>1, <2>2, <2>4, Zenon
<1>16. CASE Cancel \/ SetUserNote \/ UNCHANGED vars
  BY <1>4, <1>16 DEF Cancel, SetUserNote, vars, InRound
<1>17. QED
  BY <1>5, <1>6, <1>7, <1>8, <1>9, <1>10, <1>11, <1>12, <1>13, <1>14, <1>15, <1>16
  DEF Next, Worker, Others

\* Calls that no cancel cut off are answered in every state of every behaviour.
LEMMA WholeHolds == Spec => []WholeInv
<1>1. Init => WholeInv
  BY DEF Init, WholeInv, Quiet, InRound
<1>2. IInv /\ ChainInv /\ WholeInv /\ [Next]_vars => WholeInv'
  BY WholeStep
<1>3. QED
  BY <1>1, <1>2, Inductive, ChainHolds, PTL DEF Spec

\* The receipts of an answer are the ones that were told of it.
LEMMA ReceiptsAre ==
  ASSUME chain \in Seq(Node), NEW i \in DOMAIN chain, NEW m \in Nat, NEW sealed \in BOOLEAN,
         Told(chain, i, m, sealed)
  PROVE  /\ i \in Nat /\ i + m <= Len(chain) /\ Len(chain) \in Nat
         /\ DOMAIN chain = 1..Len(chain) /\ Receipts(i) = (i + 1)..(i + m)
<1>1. i \in Nat /\ Len(chain) \in Nat /\ DOMAIN chain = 1..Len(chain)
  OBVIOUS
<1>2. i + m <= Len(chain) /\ (i + m < Len(chain) => chain[i + m + 1].kind # "tool")
  BY Zenon DEF Told
<1>3. \A k \in (i + 1)..(i + m) : chain[k].kind = "tool"
  BY <1>1, ToldTools
<1>4. ASSUME NEW k \in Receipts(i)
      PROVE  k \in (i + 1)..(i + m)
  <2>1. k \in DOMAIN chain /\ k > i /\ \A j \in (i + 1)..k : chain[j].kind = "tool"
    BY DEF Receipts
  <2>2. ~(k > i + m)
    <3> SUFFICES ASSUME k > i + m PROVE FALSE
      OBVIOUS
    <3>1. i + m + 1 \in (i + 1)..k /\ i + m < Len(chain)
      BY <1>1, <2>1
    <3>2. QED
      BY <1>2, <2>1, <3>1
  <2>3. QED
    BY <1>1, <2>1, <2>2
<1>5. ASSUME NEW k \in (i + 1)..(i + m)
      PROVE  k \in Receipts(i)
  <2>1. k \in DOMAIN chain /\ k > i
    BY <1>1, <1>2
  <2>2. \A j \in (i + 1)..k : j \in (i + 1)..(i + m)
    BY <1>1, <2>1
  <2>3. QED
    BY <1>3, <2>1, <2>2 DEF Receipts
<1>6. QED
  BY <1>1, <1>2, <1>4, <1>5

\* Records and receipts of a chain that is told.
LEMMA StatusFollows ==
  ASSUME ChainInv
  PROVE  StatusMatchesReceipt
<1> SUFFICES ASSUME ~displaced, NEW i \in DOMAIN chain, chain[i].kind = "assistant",
                    NEW id \in DOMAIN chain[i].calls
             PROVE  {chain[k].sealed : k \in {j \in Receipts(i) : chain[j].id = id}}
                      = CASE chain[i].calls[id] = "pending" -> {}
                          [] chain[i].calls[id] = "completed" -> {FALSE}
                          [] OTHER -> {TRUE}
  BY DEF StatusMatchesReceipt
<1> DEFINE S == {j \in Receipts(i) : chain[j].id = id}
<1>0. chain \in Seq(Node) /\ Tidy(chain)
  BY DEF ChainInv, Tidy
<1>1. PICK m \in 0..MaxReply, sealed \in BOOLEAN : Told(chain, i, m, sealed)
  BY <1>0 DEF Tidy
<1>2. m \in Nat
  BY <1>1, TurnAssumption DEF TurnAssumption
<1>3. i \in Nat /\ Receipts(i) = (i + 1)..(i + m)
  BY <1>0, <1>1, <1>2, ReceiptsAre
<1>4. \A k \in (i + 1)..(i + m) : chain[k].id = k - i
  BY <1>1, <1>2, <1>3, ToldTools
<1>5. id \in Nat /\ id > 0
  <2>1. chain[i] \in Node
    BY <1>0
  <2>2. PICK n \in 0..MaxReply : DOMAIN chain[i].calls = 1..n
    BY <2>1, NodeKinds
  <2>3. QED
    BY <2>2
<1>6. chain[i].calls[id] = IF id > m THEN "pending"
                           ELSE IF sealed THEN "interrupted" ELSE "completed"
  BY <1>1, Zenon DEF Told
<1>7. CASE id > m
  <2>1. S = {}
    BY <1>2, <1>3, <1>4, <1>5, <1>7
  <2>2. chain[i].calls[id] = "pending"
    BY <1>6, <1>7, Zenon
  <2>3. {chain[k].sealed : k \in S} = {}
    BY <2>1, Zenon
  <2>4. QED
    BY <2>2, <2>3
<1>8. CASE ~(id > m)
  <2>1. id \in 1..m
    BY <1>2, <1>5, <1>8
  <2>2. chain[i + id] = Receipt(id, sealed)
    BY <1>1, <2>1, Zenon DEF Told
  <2>3. S = {i + id}
    BY <1>2, <1>3, <1>4, <2>1
  <2> HIDE DEF S
  <2>4. {chain[k].sealed : k \in S} = {chain[i + id].sealed}
    BY <2>3, Zenon
  <2>5. CASE sealed = TRUE
    <3>1. chain[i].calls[id] = "interrupted"
      BY <1>6, <1>8, <2>5
    <3>2. chain[i + id].sealed = TRUE
      BY <2>2, <2>5 DEF Receipt
    <3>3. {chain[k].sealed : k \in S} = {TRUE}
      BY <2>4, <3>2, Zenon
    <3>4. QED
      BY <3>1, <3>3 DEF S
  <2>6. CASE sealed = FALSE
    <3>1. chain[i].calls[id] = "completed"
      BY <1>6, <1>8, <2>6
    <3>2. chain[i + id].sealed = FALSE
      BY <2>2, <2>6 DEF Receipt
    <3>3. {chain[k].sealed : k \in S} = {FALSE}
      BY <2>4, <3>2, Zenon
    <3>4. QED
      BY <3>1, <3>3 DEF S
  <2>7. QED
    BY <2>5, <2>6
<1>9. QED
  BY <1>7, <1>8

\* What a chain that is told pairs.
LEMMA PairedFollows ==
  ASSUME ChainInv, WholeInv
  PROVE  RequestPaired
<1> SUFFICES ASSUME pc \in {"provider", "refused"}, ~displaced
             PROVE  RequestPaired
  BY DEF RequestPaired
<1>0. chain \in Seq(Node) /\ Tidy(chain) /\ Behind(chain) /\ Settled(chain)
  BY DEF ChainInv, Tidy, InRound
<1>1. ASSUME NEW i \in DOMAIN chain, chain[i].kind = "assistant"
      PROVE  \E m \in Nat, sealed \in BOOLEAN :
               /\ Told(chain, i, m, sealed) /\ i \in Nat /\ Receipts(i) = (i + 1)..(i + m)
               /\ i + m <= Len(chain) /\ Len(chain) \in Nat /\ DOMAIN chain = 1..Len(chain)
               /\ \A k \in (i + 1)..(i + m) : chain[k].id = k - i /\ chain[k].kind = "tool"
  <2>1. PICK m \in 0..MaxReply, sealed \in BOOLEAN : Told(chain, i, m, sealed)
    BY <1>0, <1>1 DEF Tidy
  <2>2. m \in Nat /\ i \in Nat
    BY <1>0, <2>1, TurnAssumption DEF TurnAssumption
  <2>3. \A k \in (i + 1)..(i + m) : chain[k].id = k - i /\ chain[k].kind = "tool"
    BY <2>1, <2>2, ToldTools
  <2>4. /\ Receipts(i) = (i + 1)..(i + m)
        /\ i + m <= Len(chain) /\ Len(chain) \in Nat /\ DOMAIN chain = 1..Len(chain)
    BY <1>0, <2>1, <2>2, ReceiptsAre
  <2>5. QED
    BY <2>1, <2>2, <2>3, <2>4
<1>2. ASSUME NEW k \in DOMAIN chain, chain[k].kind = "tool"
      PROVE  \E i \in DOMAIN chain :
               /\ chain[i].kind = "assistant" /\ chain[k].id \in DOMAIN chain[i].calls
               /\ k \in Receipts(i)
               /\ \A j \in Receipts(i) \ {k} : chain[j].id # chain[k].id
  <2>1. PICK i \in DOMAIN chain : /\ i < k /\ chain[i].kind = "assistant"
                                  /\ \A j \in (i + 1)..k : chain[j].kind = "tool"
    BY <1>0, <1>2 DEF Tidy
  <2>2. k \in Receipts(i)
    BY <1>0, <2>1 DEF Receipts
  <2>3. PICK m \in Nat, sealed \in BOOLEAN :
          /\ Told(chain, i, m, sealed) /\ i \in Nat /\ Receipts(i) = (i + 1)..(i + m)
          /\ \A j \in (i + 1)..(i + m) : chain[j].id = j - i /\ chain[j].kind = "tool"
    BY <1>1, <2>1
  <2>4. chain[k].id = k - i /\ k - i \in 1..m
    BY <2>2, <2>3
  <2>5. chain[k].id \in DOMAIN chain[i].calls
    BY <2>3, <2>4, Zenon DEF Told
  <2>6. \A j \in Receipts(i) \ {k} : chain[j].id # chain[k].id
    BY <2>2, <2>3, <2>4
  <2>7. QED
    BY <2>1, <2>2, <2>5, <2>6
<1>3. ASSUME NEW i \in DOMAIN chain, chain[i].kind = "assistant", NEW id \in DOMAIN chain[i].calls
      PROVE  \/ \E k \in Receipts(i) : chain[k].id = id
             \/ cut /\ id > 1 /\ chain[i + 1] = Receipt(1, FALSE)
             \/ cut /\ chain[i + 1] = User(None)
  <2>0. ~cut => chain[i].calls[id] # "pending"
    BY <1>3 DEF WholeInv, Quiet, HasUnfinished, InRound
  <2>1. PICK m \in Nat, sealed \in BOOLEAN :
          /\ Told(chain, i, m, sealed) /\ i \in Nat /\ Receipts(i) = (i + 1)..(i + m)
          /\ i + m <= Len(chain) /\ Len(chain) \in Nat /\ DOMAIN chain = 1..Len(chain)
          /\ \A k \in (i + 1)..(i + m) : chain[k].id = k - i /\ chain[k].kind = "tool"
    BY <1>1, <1>3
  <2>2. PICK n \in 0..MaxReply : DOMAIN chain[i].calls = 1..n
    <3>1. chain[i] \in Node
      BY <1>0
    <3>2. QED
      BY <1>3, <3>1, NodeKinds
  <2>3. id \in Nat /\ id > 0 /\ 1 \in DOMAIN chain[i].calls
    BY <2>2, TurnAssumption DEF TurnAssumption
  <2>4. CASE id <= m
    <3> DEFINE k == i + id
    <3>1. k \in (i + 1)..(i + m) /\ k - i = id
      BY <2>1, <2>3, <2>4
    <3> HIDE DEF k
    <3>2. k \in Receipts(i) /\ chain[k].id = k - i
      BY <2>1, <3>1
    <3>3. QED
      BY <3>1, <3>2
  <2>5. CASE id > m /\ m > 0
    <3>1. ~sealed
      BY <2>1, <2>3, <2>5 DEF Told
    <3>2. sealed = FALSE /\ 1 \in 1..m
      BY <2>1, <2>5, <3>1
    <3>3. chain[i + 1] = Receipt(1, FALSE)
      BY <2>1, <3>2, Zenon DEF Told
    <3>4. id > 1
      BY <2>3, <2>5
    <3>5. cut
      BY <2>0, <2>1, <2>5, Zenon DEF Told
    <3>6. QED
      BY <3>3, <3>4, <3>5, Zenon
  <2>6. CASE m = 0
    <3>1. i < Len(chain)
      BY <1>0, <1>3, <2>1, <2>3 DEF Settled
    <3>2. chain[i + 1].kind = "tool" \/ chain[i + 1] = User(None)
      BY <1>0, <1>3, <2>3, <3>1 DEF Behind
    <3>3. i < Len(chain) /\ i + m < Len(chain) => chain[i + m + 1].kind # "tool"
      BY <2>1, Zenon DEF Told
    <3>4. chain[i + 1].kind # "tool"
      BY <2>1, <2>6, <3>1, <3>3
    <3>5. id > m
      BY <2>3, <2>6
    <3>6. cut
      BY <2>0, <2>1, <3>5, Zenon DEF Told
    <3>7. QED
      BY <3>2, <3>4, <3>6, Zenon
  <2>7. id <= m \/ (id > m /\ m > 0) \/ m = 0
    BY <2>3
  <2>8. QED
    BY <2>4, <2>5, <2>6, <2>7, Zenon
<1>4. QED
  BY <1>2, <1>3 DEF RequestPaired

\* What a call's record says is what its receipt says (CompleteFor, SealInterruptedToolCalls),
\* for replies and turns of any number and length, wherever they are cancelled or noted.
THEOREM StatusHeld == Spec => []StatusMatchesReceipt
BY StatusFollows, ChainHolds, PTL

\* Every receipt of a request stands behind its call and every call has its receipt, although
\* notes and rewinds come at any point, except where a cancel ended a reply before its last
\* call: then the calls behind a first receipt or a note stay without one (RunToolCalls,
\* SealInterruptedToolCalls).
THEOREM PairedHeld == Spec => []RequestPaired
BY PairedFollows, ChainHolds, WholeHolds, PTL
=============================================================================
