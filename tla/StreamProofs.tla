---------------------------- MODULE StreamProofs ----------------------------
(***************************************************************************)
(* What a request makes of a reply, for every reply, every cut of its      *)
(* lines into reads and every number of rounds: each event is handled once *)
(* and in order, the calls of a gateway that sends one after another come  *)
(* whole, and a turn counts each round once.                               *)
(***************************************************************************)
EXTENDS Stream, FiniteSetTheorems, SequenceTheorems, TLAPS

-----------------------------------------------------------------------------
(* What is collected.                                                      *)

Usages == [round : Nat, priced : BOOLEAN]

Collected == [handled : Seq(Nat), calls : Seq(Seq(Nat)), open : Seq(Seq(Nat)),
              usage : Usages \cup {None}, capped : BOOLEAN, failed : BOOLEAN]

\* The first events of a reply, as they were handled.
FirstEvents(m) == [i \in 1 .. m |-> i]

\* A call as it is put together: all its fragments up to event m, the last one last.
Tells(q, m) ==
  /\ q # <<>>
  /\ \A j \in DOMAIN q : q[j] \in 1 .. m /\ q[j] <= q[Len(q)]
  /\ \A i \in 1 .. m : (\E j \in DOMAIN q : q[j] = i)
                         <=> (reply[i].kind = "call" /\ reply[i].of = reply[q[1]].of)

\* No call is there twice.
Apart(calls, open) ==
  /\ \A k, l \in DOMAIN calls : reply[calls[k][1]].of = reply[calls[l][1]].of => k = l
  /\ \A k, l \in DOMAIN open : reply[open[k][1]].of = reply[open[l][1]].of => k = l
  /\ \A k \in DOMAIN calls, l \in DOMAIN open :
       reply[calls[k][1]].of # reply[open[l][1]].of

\* The last fragment of a call is there.
Closes(q) == reply[q[Len(q)]].closes

\* A call to which nothing can be added: it has its last fragment, or no text and no
\* fragment of any call behind it.
Sealed(q) ==
  \/ Closes(q)
  \/ ~HasText(q) /\ \A j \in 1 .. Len(reply) : j > q[Len(q)] => reply[j].kind # "call"

\* Only the call that was begun last may lack fragments, and nothing but text or counts
\* has come since its last one.
LastOnly(open, m) ==
  \A k \in DOMAIN open : ~Closes(open[k]) =>
    /\ k = Len(open)
    /\ \A j \in 1 .. m : j > open[k][Len(open[k])] => reply[j].kind \notin {"call", "done"}

\* The calls of the first m events, for a gateway that sends one after another.
Together(calls, open, m) ==
  /\ \A k \in DOMAIN calls : Tells(calls[k], m) /\ Sealed(calls[k])
  /\ \A k \in DOMAIN open : Tells(open[k], m)
  /\ LastOnly(open, m)
  /\ Apart(calls, open)
  /\ \A i \in 1 .. m : reply[i].kind = "call" =>
       \/ \E k \in DOMAIN calls : \E j \in DOMAIN calls[k] : calls[k][j] = i
       \/ \E k \in DOMAIN open : \E j \in DOMAIN open[k] : open[k][j] = i

CallsOK(calls, open, m) == OneAfterAnother(reply) => Together(calls, open, m)

\* The counts and the cap of the first m events.
CountsOK(g, m) ==
  /\ g.usage # None => g.usage.round = round
  /\ g.usage # None <=> \E i \in 1 .. m : reply[i].kind = "usage"
  /\ ~bare => (g.capped <=> \E i \in 1 .. m : reply[i].kind = "length")

\* The provider has handled the first m events, unless one of them was an error.
Handled(g, m) ==
  /\ g \in Collected
  /\ ~g.failed =>
       /\ g.handled = FirstEvents(m)
       /\ CallsOK(g.calls, g.open, m)
       /\ CountsOK(g, m)
       /\ bare => g.open = <<>>

\* A sequence that grows.
LEMMA Grown ==
  ASSUME NEW S, NEW s \in Seq(S), NEW e \in S
  PROVE  /\ Append(s, e) \in Seq(S) /\ Append(s, e) # <<>>
         /\ Len(Append(s, e)) = Len(s) + 1
         /\ Append(s, e)[Len(s) + 1] = e
         /\ \A k \in DOMAIN s : k \in DOMAIN Append(s, e) /\ Append(s, e)[k] = s[k]
         /\ \A k \in DOMAIN Append(s, e) : k \in DOMAIN s \/ k = Len(s) + 1
         /\ Len(s) + 1 \in DOMAIN Append(s, e)
         /\ s # <<>> => 1 \in DOMAIN s /\ Append(s, e)[1] = s[1]
<1>1. /\ Append(s, e) \in Seq(S) /\ Len(Append(s, e)) = Len(s) + 1
      /\ Append(s, e)[Len(s) + 1] = e
      /\ \A k \in 1 .. Len(s) : Append(s, e)[k] = s[k]
  OBVIOUS
<1>2. /\ Len(s) \in Nat /\ DOMAIN s = 1 .. Len(s)
      /\ DOMAIN Append(s, e) = 1 .. Len(s) + 1
  BY <1>1
<1>3. s # <<>> => Len(s) >= 1
  OBVIOUS
<1>4. Append(s, e) # <<>>
  BY <1>1
<1>5. QED
  BY <1>1, <1>2, <1>3, <1>4

\* A call that grows.
LEMMA CallGrown ==
  ASSUME NEW s \in Seq(Nat), NEW e \in Nat
  PROVE  /\ Append(s, e) \in Seq(Nat) /\ Len(Append(s, e)) = Len(s) + 1
         /\ Append(s, e)[Len(s) + 1] = e /\ Len(s) + 1 \in DOMAIN Append(s, e)
         /\ \A k \in DOMAIN s : k \in DOMAIN Append(s, e) /\ Append(s, e)[k] = s[k]
BY Grown

\* Sequences of up to three elements.
LEMMA Short ==
  ASSUME NEW S, NEW a \in S, NEW b \in S, NEW c \in S
  PROVE  /\ <<a>> \in Seq(S) /\ <<a, b>> \in Seq(S) /\ <<a, b, c>> \in Seq(S)
         /\ Tail(<<a>>) = <<>> /\ Tail(<<a, b>>) = <<b>> /\ Tail(<<a, b, c>>) = <<b, c>>
<1>1. <<a>> \in Seq(S) /\ <<a, b>> \in Seq(S) /\ <<a, b, c>> \in Seq(S)
  OBVIOUS
<1>2. Tail(<<a>>) = <<>>
  OBVIOUS
<1>3. Tail(<<a, b>>) = <<b>>
  OBVIOUS
<1>4. Tail(<<a, b, c>>) = <<b, c>>
  OBVIOUS
<1>5. QED
  BY <1>1, <1>2, <1>3, <1>4

\* A pair is put together.
LEMMA Pair ==
  ASSUME NEW S, NEW a \in S, NEW b \in S
  PROVE  Append(<<a>>, b) = <<a, b>>
<1> DEFINE s == <<a>>
           u == Append(s, b)
           v == <<a, b>>
<1>1. s \in Seq(S) /\ Len(s) = 1 /\ DOMAIN s = {1} /\ s[1] = a
  OBVIOUS
<1>2. v \in Seq(S) /\ Len(v) = 2 /\ v[1] = a /\ v[2] = b
  OBVIOUS
<1> HIDE DEF s, v
<1>3. u \in Seq(S) /\ Len(u) = Len(s) + 1 /\ u[Len(s) + 1] = b /\ u[1] = s[1]
  BY <1>1, Grown
<1>4. u \in Seq(S) /\ Len(u) = 2 /\ u[1] = a /\ u[2] = b
  BY <1>1, <1>3
<1> HIDE DEF u
<1>5. \A k \in 1 .. 2 : u[k] = v[k]
  BY <1>2, <1>4
<1>6. u = v
  BY <1>2, <1>4, <1>5
<1>7. QED
  BY <1>6 DEF s, u, v

\* The events handled, one more.
LEMMA FirstEventsGrow ==
  ASSUME NEW m \in Nat
  PROVE  /\ FirstEvents(m) \in Seq(Nat) /\ Len(FirstEvents(m)) = m
         /\ Append(FirstEvents(m), m + 1) = FirstEvents(m + 1)
<1>1. FirstEvents(m) \in Seq(Nat) /\ Len(FirstEvents(m)) = m
  BY DEF FirstEvents
<1>2. FirstEvents(m + 1) \in Seq(Nat) /\ Len(FirstEvents(m + 1)) = m + 1
  BY DEF FirstEvents
<1>3. Append(FirstEvents(m), m + 1) \in Seq(Nat)
      /\ Len(Append(FirstEvents(m), m + 1)) = m + 1
  BY <1>1, Grown
<1>4. \A k \in 1 .. m + 1 : Append(FirstEvents(m), m + 1)[k] = FirstEvents(m + 1)[k]
  BY <1>1 DEF FirstEvents
<1>5. QED
  BY <1>1, <1>2, <1>3, <1>4

\* What is assumed of a reply, event by event.
LEMMA ReplyShape ==
  ASSUME bare \in Bare, reply \in Replies[bare]
  PROVE  /\ reply \in Seq(Events)
         /\ \A i \in 1 .. Len(reply) :
              /\ reply[i].kind \in {"text", "length", "done", "error", "usage", "call"}
              /\ reply[i].kind = "usage" => reply[i].priced \in BOOLEAN
              /\ reply[i].kind = "call" =>
                   /\ reply[i].of \in Nat
                   /\ reply[i].opens \in BOOLEAN /\ reply[i].closes \in BOOLEAN
                   /\ reply[i].text \in BOOLEAN
<1>1. reply \in Seq(Events)
  BY StreamAssumption
<1>2. \A i \in 1 .. Len(reply) : reply[i] \in Events
  BY <1>1
<1>3. ASSUME NEW e \in Events
      PROVE  /\ e.kind \in {"text", "length", "done", "error", "usage", "call"}
             /\ e.kind = "usage" => e.priced \in BOOLEAN
             /\ e.kind = "call" => /\ e.of \in Nat
                                   /\ e.opens \in BOOLEAN /\ e.closes \in BOOLEAN
                                   /\ e.text \in BOOLEAN
  BY DEF Events
<1>4. QED
  BY <1>1, <1>2, <1>3

\* Ollama sends a call in one line.
LEMMA BareCalls ==
  ASSUME bare \in Bare, reply \in Replies[bare], bare,
         NEW i \in 1 .. Len(reply), reply[i].kind = "call"
  PROVE  reply[i].opens /\ reply[i].closes
<1>1. Bare \subseteq BOOLEAN
  BY StreamAssumption
<1>2. bare = TRUE
  BY <1>1
<1>3. reply \in Replies[TRUE]
  BY <1>2
<1>4. i \in Fragments(reply)
  BY ReplyShape DEF Fragments
<1>5. QED
  BY <1>3, <1>4, StreamAssumption

\* The calls of a gateway that sends one after another.
LEMMA ReplyCalls ==
  ASSUME bare \in Bare, reply \in Replies[bare], OneAfterAnother(reply),
         NEW i \in 1 .. Len(reply), reply[i].kind = "call"
  PROVE  /\ reply[i].opens => \A j \in 1 .. Len(reply) :
              reply[j].kind = "call" /\ j < i => reply[j].of # reply[i].of
         /\ ~reply[i].opens => \E j \in 1 .. Len(reply) :
              reply[j].kind = "call" /\ j < i /\ reply[j].of = reply[i].of
         /\ reply[i].closes => \A j \in 1 .. Len(reply) :
              reply[j].kind = "call" /\ j > i => reply[j].of # reply[i].of
         /\ ~reply[i].closes => \E k \in 1 .. Len(reply) :
              /\ k > i
              /\ \A j \in 1 .. Len(reply) : i < j /\ j < k => reply[j].kind \notin {"call", "done"}
              /\ \/ reply[k].kind = "call" /\ reply[k].of = reply[i].of
                 \/ /\ reply[k].kind = "length"
                    /\ \A j \in 1 .. Len(reply) : j > i => reply[j].kind # "call"
<1>1. reply \in Seq(Events)
  BY StreamAssumption
<1>2. DOMAIN reply = 1 .. Len(reply)
  BY <1>1
<1>3. /\ i \in Fragments(reply)
      /\ \A j : j \in Fragments(reply) <=> j \in 1 .. Len(reply) /\ reply[j].kind = "call"
  BY <1>2 DEF Fragments
<1> DEFINE Follows(k) == /\ k > i
                         /\ \A j \in DOMAIN reply :
                              i < j /\ j < k => reply[j].kind \notin {"call", "done"}
           before == {j \in Fragments(reply) : j < i}
           after == {j \in Fragments(reply) : j > i}
<1>4. /\ reply[i].opens <=> \A j \in before : reply[j].of # reply[i].of
      /\ reply[i].closes => \A j \in after : reply[j].of # reply[i].of
      /\ ~reply[i].closes =>
           \/ \E k \in after : Follows(k) /\ reply[k].of = reply[i].of
           \/ after = {} /\ \E k \in DOMAIN reply : Follows(k) /\ reply[k].kind = "length"
  BY <1>1, <1>3 DEF OneAfterAnother
<1>5. reply[i].opens => \A j \in 1 .. Len(reply) :
              reply[j].kind = "call" /\ j < i => reply[j].of # reply[i].of
  BY <1>3, <1>4
<1>6. ~reply[i].opens => \E j \in 1 .. Len(reply) :
              reply[j].kind = "call" /\ j < i /\ reply[j].of = reply[i].of
  BY <1>3, <1>4
<1>7. reply[i].closes => \A j \in 1 .. Len(reply) :
              reply[j].kind = "call" /\ j > i => reply[j].of # reply[i].of
  BY <1>3, <1>4
<1>8. ~reply[i].closes => \E k \in 1 .. Len(reply) :
              /\ k > i
              /\ \A j \in 1 .. Len(reply) : i < j /\ j < k => reply[j].kind \notin {"call", "done"}
              /\ \/ reply[k].kind = "call" /\ reply[k].of = reply[i].of
                 \/ /\ reply[k].kind = "length"
                    /\ \A j \in 1 .. Len(reply) : j > i => reply[j].kind # "call"
  BY <1>2, <1>3, <1>4
<1>9. QED
  BY <1>5, <1>6, <1>7, <1>8

-----------------------------------------------------------------------------
(* The calls of a reply, one event more.                                   *)

\* The events of a call that is put together.
LEMMA Within ==
  ASSUME bare \in Bare, reply \in Replies[bare], NEW m \in Nat, m <= Len(reply),
         NEW q \in Seq(Nat), Tells(q, m)
  PROVE  /\ 1 \in DOMAIN q /\ Len(q) \in DOMAIN q
         /\ \A j \in DOMAIN q : /\ q[j] \in 1 .. m /\ q[j] \in 1 .. Len(reply)
                                /\ reply[q[j]].kind = "call"
                                /\ reply[q[j]].of = reply[q[1]].of
<1>1. 1 \in DOMAIN q /\ Len(q) \in DOMAIN q
  BY DEF Tells
<1>2. ASSUME NEW j \in DOMAIN q
      PROVE  /\ q[j] \in 1 .. m /\ q[j] \in 1 .. Len(reply)
             /\ reply[q[j]].kind = "call" /\ reply[q[j]].of = reply[q[1]].of
  <2>1. q[j] \in 1 .. m
    BY DEF Tells
  <2>2. QED
    BY <2>1 DEF Tells
<1>3. QED
  BY <1>1, <1>2

\* An event that is no fragment of a call leaves it as it is.
LEMMA Elsewhere ==
  ASSUME bare \in Bare, reply \in Replies[bare], NEW m \in Nat, m + 1 <= Len(reply),
         NEW q \in Seq(Nat), Tells(q, m),
         reply[m + 1].kind # "call" \/ reply[m + 1].of # reply[q[1]].of
  PROVE  Tells(q, m + 1)
<1>1. \A j \in DOMAIN q : q[j] \in 1 .. m + 1 /\ q[j] # m + 1
  BY DEF Tells
<1>2. ASSUME NEW i \in 1 .. m + 1
      PROVE  (\E j \in DOMAIN q : q[j] = i)
               <=> (reply[i].kind = "call" /\ reply[i].of = reply[q[1]].of)
  <2>1. CASE i = m + 1
    BY <2>1, <1>1
  <2>2. CASE i # m + 1
    <3>1. i \in 1 .. m
      BY <2>2
    <3>2. QED
      BY <3>1 DEF Tells
  <2>3. QED
    BY <2>1, <2>2
<1>3. QED
  BY <1>1, <1>2 DEF Tells

\* Its next fragment is put behind the others.
LEMMA Joined ==
  ASSUME bare \in Bare, reply \in Replies[bare], NEW m \in Nat, m + 1 <= Len(reply),
         NEW q \in Seq(Nat), Tells(q, m),
         reply[m + 1].kind = "call", reply[m + 1].of = reply[q[1]].of
  PROVE  Tells(Append(q, m + 1), m + 1)
<1> DEFINE t == Append(q, m + 1)
<1>1. /\ t \in Seq(Nat) /\ t # <<>> /\ Len(t) = Len(q) + 1 /\ t[Len(q) + 1] = m + 1
      /\ \A k \in DOMAIN q : k \in DOMAIN t /\ t[k] = q[k]
      /\ \A k \in DOMAIN t : k \in DOMAIN q \/ k = Len(q) + 1
      /\ Len(q) + 1 \in DOMAIN t
  BY Grown
<1>2. 1 \in DOMAIN q
  BY DEF Tells
<1> HIDE DEF t
<1>3. t[1] = q[1]
  BY <1>1, <1>2
<1>4. \A j \in DOMAIN q : q[j] \in 1 .. m
  BY DEF Tells
<1>5. \A j \in DOMAIN t : t[j] \in 1 .. m + 1 /\ t[j] <= t[Len(t)]
  <2>1. t[Len(t)] = m + 1
    BY <1>1
  <2>2. ASSUME NEW j \in DOMAIN t
        PROVE  t[j] \in 1 .. m + 1
    <3>1. CASE j \in DOMAIN q
      BY <3>1, <1>1, <1>4
    <3>2. QED
      BY <3>1, <1>1
  <2>3. QED
    BY <2>1, <2>2
<1>6. ASSUME NEW i \in 1 .. m + 1
      PROVE  (\E j \in DOMAIN t : t[j] = i)
               <=> (reply[i].kind = "call" /\ reply[i].of = reply[t[1]].of)
  <2>1. CASE i = m + 1
    BY <2>1, <1>1, <1>3
  <2>2. CASE i # m + 1
    <3>1. i \in 1 .. m
      BY <2>2
    <3>2. (\E j \in DOMAIN t : t[j] = i) <=> (\E j \in DOMAIN q : q[j] = i)
      BY <1>1, <2>2
    <3>3. QED
      BY <3>1, <3>2, <1>3 DEF Tells
  <2>3. QED
    BY <2>1, <2>2
<1>7. Tells(t, m + 1)
  BY <1>1, <1>5, <1>6 DEF Tells
<1>8. QED
  BY <1>7 DEF t

\* The first fragment of a call is a call of its own.
LEMMA Begun ==
  ASSUME bare \in Bare, reply \in Replies[bare], OneAfterAnother(reply),
         NEW m \in Nat, m + 1 <= Len(reply),
         reply[m + 1].kind = "call", reply[m + 1].opens
  PROVE  /\ <<m + 1>> \in Seq(Nat) /\ Tells(<<m + 1>>, m + 1)
         /\ \A q \in Seq(Nat) : Tells(q, m) => reply[q[1]].of # reply[m + 1].of
<1>1. \A j \in 1 .. Len(reply) :
        reply[j].kind = "call" /\ j < m + 1 => reply[j].of # reply[m + 1].of
  BY ReplyCalls
<1>2. <<m + 1>> \in Seq(Nat) /\ <<m + 1>> # <<>> /\ DOMAIN <<m + 1>> = {1} /\ <<m + 1>>[1] = m + 1
      /\ Len(<<m + 1>>) = 1
  OBVIOUS
<1>3. ASSUME NEW i \in 1 .. m + 1
      PROVE  (\E j \in DOMAIN <<m + 1>> : <<m + 1>>[j] = i)
               <=> (reply[i].kind = "call" /\ reply[i].of = reply[<<m + 1>>[1]].of)
  BY <1>1, <1>2
<1>4. Tells(<<m + 1>>, m + 1)
  BY <1>2, <1>3 DEF Tells
<1>5. ASSUME NEW q \in Seq(Nat), Tells(q, m)
      PROVE  reply[q[1]].of # reply[m + 1].of
  BY <1>5, <1>1, Within
<1>6. QED
  BY <1>2, <1>4, <1>5

\* A call that is sealed gets no other fragment.
LEMMA ClosedCall ==
  ASSUME bare \in Bare, reply \in Replies[bare], OneAfterAnother(reply),
         NEW m \in Nat, m + 1 <= Len(reply), NEW q \in Seq(Nat), Tells(q, m), Sealed(q)
  PROVE  reply[m + 1].kind = "call" => reply[m + 1].of # reply[q[1]].of
<1>1. /\ Len(q) \in DOMAIN q /\ q[Len(q)] \in 1 .. m /\ q[Len(q)] \in 1 .. Len(reply)
      /\ reply[q[Len(q)]].kind = "call" /\ reply[q[Len(q)]].of = reply[q[1]].of
      /\ m + 1 \in 1 .. Len(reply)
  BY Within, ReplyShape
<1>2. CASE Closes(q)
  <2>1. reply[q[Len(q)]].closes
    BY <1>2 DEF Closes
  <2>2. \A j \in 1 .. Len(reply) :
          reply[j].kind = "call" /\ j > q[Len(q)] => reply[j].of # reply[q[Len(q)]].of
    BY <1>1, <2>1, ReplyCalls
  <2>3. QED
    BY <1>1, <2>2
<1>3. CASE \A j \in 1 .. Len(reply) : j > q[Len(q)] => reply[j].kind # "call"
  BY <1>1, <1>3
<1>4. QED
  BY <1>2, <1>3 DEF Sealed

\* One that has its last fragment has all its text and no other's.
LEMMA ClosedWhole ==
  ASSUME bare \in Bare, reply \in Replies[bare], OneAfterAnother(reply),
         NEW m \in Nat, m <= Len(reply), NEW q \in Seq(Nat), Tells(q, m), Closes(q)
  PROVE  Complete(q)
<1>1. /\ Len(q) \in DOMAIN q /\ q[Len(q)] \in 1 .. m /\ q[Len(q)] \in 1 .. Len(reply)
      /\ reply[q[Len(q)]].kind = "call" /\ reply[q[Len(q)]].of = reply[q[1]].of
  BY Within
<1>2. reply[q[Len(q)]].closes
  BY DEF Closes
<1>3. \A j \in 1 .. Len(reply) :
        reply[j].kind = "call" /\ j > q[Len(q)] => reply[j].of # reply[q[Len(q)]].of
  BY <1>1, <1>2, ReplyCalls
<1>4. ASSUME NEW i \in Fragments(reply)
      PROVE  (\E j \in DOMAIN q : q[j] = i) <=> reply[i].of = reply[q[1]].of
  <2>1. i \in 1 .. Len(reply) /\ reply[i].kind = "call" /\ Len(reply) \in Nat
    BY ReplyShape DEF Fragments
  <2>2. CASE i \in 1 .. m
    BY <2>1, <2>2 DEF Tells
  <2>3. CASE i > m
    <3>1. reply[i].of # reply[q[1]].of
      BY <1>1, <1>3, <2>1, <2>3
    <3>2. \A j \in DOMAIN q : q[j] # i
      BY <2>1, <2>3, Within
    <3>3. QED
      BY <3>1, <3>2
  <2>4. QED
    BY <2>1, <2>2, <2>3
<1>5. QED
  BY <1>2, <1>4 DEF Complete

\* Behind a fragment that is not the last comes the next one of its call, or the cap.
LEMMA OpenCall ==
  ASSUME bare \in Bare, reply \in Replies[bare], OneAfterAnother(reply),
         NEW m \in Nat, m + 1 <= Len(reply),
         NEW q \in Seq(Nat), Tells(q, m), ~Closes(q),
         \A j \in 1 .. m : j > q[Len(q)] => reply[j].kind \notin {"call", "done"}
  PROVE  /\ reply[m + 1].kind = "call" => reply[m + 1].of = reply[q[1]].of
         /\ reply[m + 1].kind = "done" =>
              /\ \E i \in 1 .. m : reply[i].kind = "length"
              /\ \A j \in 1 .. Len(reply) : j > q[Len(q)] => reply[j].kind # "call"
<1> DEFINE i == q[Len(q)]
<1>1. /\ i \in 1 .. m /\ i \in 1 .. Len(reply)
      /\ reply[i].kind = "call" /\ reply[i].of = reply[q[1]].of
  BY Within
<1>2. ~reply[i].closes
  BY DEF Closes
<1>3. \A j \in 1 .. m : j > i => reply[j].kind \notin {"call", "done"}
  OBVIOUS
<1> HIDE DEF i
<1>4. PICK k \in 1 .. Len(reply) :
        /\ k > i
        /\ \A j \in 1 .. Len(reply) : i < j /\ j < k => reply[j].kind \notin {"call", "done"}
        /\ \/ reply[k].kind = "call" /\ reply[k].of = reply[i].of
           \/ reply[k].kind = "length" /\ \A j \in 1 .. Len(reply) : j > i => reply[j].kind # "call"
  BY <1>1, <1>2, ReplyCalls
<1>5. m + 1 \in 1 .. Len(reply) /\ m + 1 > i
  BY <1>1, ReplyShape
<1>6. reply[m + 1].kind \in {"call", "done"} => k <= m + 1
  BY <1>4, <1>5
<1>7. CASE reply[k].kind = "call" /\ reply[k].of = reply[i].of
  <2>1. k >= m + 1
    BY <1>7, <1>3, <1>4
  <2>2. QED
    BY <2>1, <1>6, <1>7, <1>1, <1>5
<1>8. CASE reply[k].kind = "length" /\ \A j \in 1 .. Len(reply) : j > i => reply[j].kind # "call"
  <2>1. reply[m + 1].kind # "call"
    BY <1>8, <1>5
  <2>2. reply[m + 1].kind = "done" => k \in 1 .. m
    BY <1>6, <1>8
  <2>3. QED
    BY <2>1, <2>2, <1>8 DEF i
<1>9. QED
  BY <1>4, <1>7, <1>8

\* An event that is no call leaves the calls as they are.
LEMMA CallsPass ==
  ASSUME bare \in Bare, reply \in Replies[bare], OneAfterAnother(reply),
         NEW m \in Nat, m + 1 <= Len(reply),
         NEW c \in Seq(Seq(Nat)), NEW o \in Seq(Seq(Nat)), Together(c, o, m),
         reply[m + 1].kind # "call",
         reply[m + 1].kind = "done" => \A k \in DOMAIN o : Closes(o[k])
  PROVE  Together(c, o, m + 1)
<1>1. \A k \in DOMAIN c : c[k] \in Seq(Nat) /\ Tells(c[k], m + 1) /\ Sealed(c[k])
  BY Elsewhere DEF Together
<1>2. \A k \in DOMAIN o : o[k] \in Seq(Nat) /\ Tells(o[k], m + 1)
  BY Elsewhere DEF Together
<1>3. ASSUME NEW k \in DOMAIN o, ~Closes(o[k])
      PROVE  /\ k = Len(o)
             /\ \A j \in 1 .. m + 1 : j > o[k][Len(o[k])] => reply[j].kind \notin {"call", "done"}
  <2>1. /\ k = Len(o)
        /\ \A j \in 1 .. m : j > o[k][Len(o[k])] => reply[j].kind \notin {"call", "done"}
    BY <1>3 DEF Together, LastOnly
  <2>2. reply[m + 1].kind \notin {"call", "done"}
    BY <1>3
  <2>3. \A j \in 1 .. m + 1 : j \in 1 .. m \/ j = m + 1
    OBVIOUS
  <2>4. QED
    BY <2>1, <2>2, <2>3
<1>4. LastOnly(o, m + 1)
  BY <1>3 DEF LastOnly
<1>5. ASSUME NEW i \in 1 .. m + 1, reply[i].kind = "call"
      PROVE  \/ \E k \in DOMAIN c : \E j \in DOMAIN c[k] : c[k][j] = i
             \/ \E k \in DOMAIN o : \E j \in DOMAIN o[k] : o[k][j] = i
  <2>1. i \in 1 .. m
    BY <1>5
  <2>2. QED
    BY <2>1, <1>5 DEF Together
<1>6. QED
  BY <1>1, <1>2, <1>4, <1>5 DEF Together

\* A fragment that begins a call comes when every other is complete.
LEMMA CallsBegin ==
  ASSUME bare \in Bare, reply \in Replies[bare], OneAfterAnother(reply),
         NEW m \in Nat, m + 1 <= Len(reply),
         NEW c \in Seq(Seq(Nat)), NEW o \in Seq(Seq(Nat)), Together(c, o, m),
         reply[m + 1].kind = "call", reply[m + 1].opens
  PROVE  Together(c, Append(o, <<m + 1>>), m + 1)
<1> DEFINE n == <<m + 1>>
           t == Append(o, n)
<1>1. /\ n \in Seq(Nat) /\ Tells(n, m + 1) /\ n[1] = m + 1 /\ DOMAIN n = {1}
      /\ \A q \in Seq(Nat) : Tells(q, m) => reply[q[1]].of # reply[m + 1].of
  BY Begun
<1>0. n[Len(n)] = m + 1
  OBVIOUS
<1> HIDE DEF n
<1>2. /\ t \in Seq(Seq(Nat)) /\ Len(t) = Len(o) + 1 /\ t[Len(o) + 1] = n
      /\ \A k \in DOMAIN o : k \in DOMAIN t /\ t[k] = o[k]
      /\ \A k \in DOMAIN t : k \in DOMAIN o \/ k = Len(o) + 1
      /\ Len(o) + 1 \in DOMAIN t
  BY <1>1, Grown
<1> HIDE DEF t
<1>3. \A k \in DOMAIN c : /\ c[k] \in Seq(Nat) /\ Tells(c[k], m + 1) /\ Sealed(c[k])
                          /\ reply[c[k][1]].of # reply[m + 1].of
  BY <1>1, Elsewhere DEF Together
<1>4. \A k \in DOMAIN o : /\ o[k] \in Seq(Nat) /\ Tells(o[k], m + 1)
                          /\ reply[o[k][1]].of # reply[m + 1].of
  BY <1>1, Elsewhere DEF Together
<1>5. ASSUME NEW k \in DOMAIN o
      PROVE  Closes(o[k])
  <2>1. SUFFICES ASSUME ~Closes(o[k]) PROVE FALSE
    OBVIOUS
  <2>2. \A j \in 1 .. m : j > o[k][Len(o[k])] => reply[j].kind \notin {"call", "done"}
    BY <2>1 DEF Together, LastOnly
  <2>3. o[k] \in Seq(Nat) /\ Tells(o[k], m)
    BY DEF Together
  <2>4. reply[m + 1].of = reply[o[k][1]].of
    BY <2>1, <2>2, <2>3, OpenCall
  <2>5. QED
    BY <2>4, <1>4
<1>6. \A k \in DOMAIN t : Tells(t[k], m + 1)
  BY <1>1, <1>2, <1>4
<1>7. ASSUME NEW k \in DOMAIN t, ~Closes(t[k])
      PROVE  /\ k = Len(t)
             /\ \A j \in 1 .. m + 1 : j > t[k][Len(t[k])] => reply[j].kind \notin {"call", "done"}
  <2>1. k = Len(o) + 1
    BY <1>2, <1>5, <1>7
  <2>2. t[k][Len(t[k])] = m + 1
    BY <2>1, <1>2, <1>0
  <2>3. QED
    BY <2>1, <2>2, <1>2
<1>8. LastOnly(t, m + 1)
  BY <1>7 DEF LastOnly
<1>9. Apart(c, t)
  <2>0. Apart(c, o)
    BY DEF Together
  <2>1. \A k, l \in DOMAIN c : reply[c[k][1]].of = reply[c[l][1]].of => k = l
    BY <2>0 DEF Apart
  <2>2. ASSUME NEW k \in DOMAIN t, NEW l \in DOMAIN t, reply[t[k][1]].of = reply[t[l][1]].of
        PROVE  k = l
    <3>1. CASE k \in DOMAIN o /\ l \in DOMAIN o
      BY <3>1, <2>2, <2>0, <1>2 DEF Apart
    <3>2. CASE k \in DOMAIN o /\ l = Len(o) + 1
      BY <3>2, <2>2, <1>1, <1>2, <1>4
    <3>3. CASE l \in DOMAIN o /\ k = Len(o) + 1
      BY <3>3, <2>2, <1>1, <1>2, <1>4
    <3>4. QED
      BY <3>1, <3>2, <3>3, <1>2
  <2>3. ASSUME NEW k \in DOMAIN c, NEW l \in DOMAIN t
        PROVE  reply[c[k][1]].of # reply[t[l][1]].of
    <3>1. CASE l \in DOMAIN o
      <4>1. reply[c[k][1]].of # reply[o[l][1]].of
        BY <3>1, <2>0 DEF Apart
      <4>2. QED
        BY <4>1, <3>1, <1>2
    <3>2. CASE l = Len(o) + 1
      BY <3>2, <1>1, <1>2, <1>3
    <3>3. QED
      BY <3>1, <3>2, <1>2
  <2>4. QED
    BY <2>1, <2>2, <2>3 DEF Apart
<1>10. ASSUME NEW i \in 1 .. m + 1, reply[i].kind = "call"
      PROVE  \/ \E k \in DOMAIN c : \E j \in DOMAIN c[k] : c[k][j] = i
             \/ \E k \in DOMAIN t : \E j \in DOMAIN t[k] : t[k][j] = i
  <2>1. CASE i = m + 1
    BY <2>1, <1>1, <1>2
  <2>2. CASE i # m + 1
    <3>1. i \in 1 .. m
      BY <2>2
    <3>2. CASE \E k \in DOMAIN c : \E j \in DOMAIN c[k] : c[k][j] = i
      BY <3>2
    <3>3. CASE \E k \in DOMAIN o : \E j \in DOMAIN o[k] : o[k][j] = i
      BY <3>3, <1>2
    <3>4. QED
      BY <3>1, <3>2, <3>3, <1>10 DEF Together
  <2>3. QED
    BY <2>1, <2>2
<1>11. Together(c, t, m + 1)
  BY <1>3, <1>6, <1>8, <1>9, <1>10 DEF Together
<1>12. QED
  BY <1>11 DEF t, n

\* Any other fragment belongs to the call that was begun last.
LEMMA CallsJoin ==
  ASSUME bare \in Bare, reply \in Replies[bare], OneAfterAnother(reply),
         NEW m \in Nat, m + 1 <= Len(reply),
         NEW c \in Seq(Seq(Nat)), NEW o \in Seq(Seq(Nat)), Together(c, o, m),
         reply[m + 1].kind = "call", ~reply[m + 1].opens
  PROVE  /\ o # <<>>
         /\ [o EXCEPT ![Len(o)] = Append(@, m + 1)] \in Seq(Seq(Nat))
         /\ Together(c, [o EXCEPT ![Len(o)] = Append(@, m + 1)], m + 1)
<1> DEFINE z == Len(o)
           q == o[z]
           n == Append(q, m + 1)
           t == [o EXCEPT ![z] = n]
<1>0. m <= Len(reply)
  BY ReplyShape
<1>1. m + 1 \in 1 .. Len(reply)
  BY ReplyShape
<1>2. PICK i \in 1 .. Len(reply) :
        reply[i].kind = "call" /\ i < m + 1 /\ reply[i].of = reply[m + 1].of
  BY <1>1, ReplyCalls
<1>3. i \in 1 .. m
  BY <1>2
<1>4. \A k \in DOMAIN c : /\ c[k] \in Seq(Nat) /\ Tells(c[k], m) /\ Sealed(c[k])
                          /\ reply[c[k][1]].of # reply[m + 1].of
  BY ClosedCall DEF Together
<1>5. \A k \in DOMAIN o : /\ o[k] \in Seq(Nat) /\ Tells(o[k], m)
                          /\ Closes(o[k]) => reply[o[k][1]].of # reply[m + 1].of
  BY ClosedCall DEF Together, Sealed
<1>6. \A k \in DOMAIN c : \A j \in DOMAIN c[k] : c[k][j] # i
  BY <1>0, <1>2, <1>4, <1>3, Within
<1>7. PICK k \in DOMAIN o : \E j \in DOMAIN o[k] : o[k][j] = i
  BY <1>2, <1>3, <1>6 DEF Together
<1>8. reply[o[k][1]].of = reply[m + 1].of
  BY <1>0, <1>2, <1>3, <1>5, <1>7, Within
<1>9. k = z /\ ~Closes(o[k])
  BY <1>5, <1>8 DEF Together, LastOnly
<1>10. /\ z \in DOMAIN o /\ q \in Seq(Nat) /\ Tells(q, m) /\ reply[q[1]].of = reply[m + 1].of
       /\ q # <<>> /\ 1 \in DOMAIN q
  <2>1. z \in DOMAIN o /\ q \in Seq(Nat) /\ Tells(q, m) /\ reply[q[1]].of = reply[m + 1].of
    BY <1>5, <1>8, <1>9
  <2>2. 1 \in DOMAIN q
    BY <2>1, <1>0, Within
  <2>3. q # <<>>
    BY <2>1 DEF Tells
  <2>4. QED
    BY <2>1, <2>2, <2>3
<1>11. /\ n \in Seq(Nat) /\ Tells(n, m + 1) /\ n[1] = q[1] /\ n[Len(n)] = m + 1
       /\ \A j \in DOMAIN q : j \in DOMAIN n /\ n[j] = q[j]
       /\ Len(n) \in DOMAIN n
  <2>1. Tells(n, m + 1)
    BY <1>10, Joined
  <2>2. /\ n \in Seq(Nat) /\ Len(n) = Len(q) + 1 /\ n[Len(q) + 1] = m + 1
        /\ \A j \in DOMAIN q : j \in DOMAIN n /\ n[j] = q[j]
        /\ Len(q) + 1 \in DOMAIN n
    <3> DEFINE e == m + 1
    <3>1. q \in Seq(Nat) /\ e \in Nat /\ n = Append(q, e)
      BY <1>10
    <3> HIDE DEF q, e, n
    <3>2. /\ Append(q, e) \in Seq(Nat) /\ Len(Append(q, e)) = Len(q) + 1
          /\ Append(q, e)[Len(q) + 1] = e /\ Len(q) + 1 \in DOMAIN Append(q, e)
          /\ \A j \in DOMAIN q : j \in DOMAIN Append(q, e) /\ Append(q, e)[j] = q[j]
      BY <3>1, CallGrown
    <3>3. QED
      BY <3>1, <3>2 DEF e
  <2>3. QED
    BY <2>1, <2>2, <1>10
<1> HIDE DEF n
<1>12. /\ t \in Seq(Seq(Nat)) /\ DOMAIN t = DOMAIN o /\ t[z] = n /\ Len(t) = z
       /\ \A l \in DOMAIN o : l # z => t[l] = o[l]
  BY <1>10, <1>11
<1> HIDE DEF t
<1>13. \A l \in DOMAIN o : t[l][1] = o[l][1]
  BY <1>11, <1>12
<1>14. \A l \in DOMAIN o : l # z => Closes(o[l]) /\ Tells(o[l], m + 1)
  <2>1. \A l \in DOMAIN o : l # z => Closes(o[l])
    BY DEF Together, LastOnly
  <2>2. QED
    BY <2>1, <1>5, Elsewhere
<1>15. \A l \in DOMAIN c : Tells(c[l], m + 1) /\ Sealed(c[l])
  BY <1>4, Elsewhere
<1>16. \A l \in DOMAIN t : Tells(t[l], m + 1)
  BY <1>11, <1>12, <1>14
<1>17. LastOnly(t, m + 1)
  <2>1. ASSUME NEW l \in DOMAIN t, ~Closes(t[l])
        PROVE  /\ l = Len(t)
               /\ \A j \in 1 .. m + 1 : j > t[l][Len(t[l])] => reply[j].kind \notin {"call", "done"}
    <3>1. l = z
      BY <2>1, <1>12, <1>14
    <3>2. t[l][Len(t[l])] = m + 1
      BY <3>1, <1>11, <1>12
    <3>3. QED
      BY <3>1, <3>2, <1>12
  <2>2. QED
    BY <2>1 DEF LastOnly
<1>18. Apart(c, t)
  <2>1. Apart(c, o)
    BY DEF Together
  <2>2. ASSUME NEW l \in DOMAIN c, NEW e \in DOMAIN t
        PROVE  reply[c[l][1]].of # reply[t[e][1]].of
    <3>1. reply[c[l][1]].of # reply[o[e][1]].of
      BY <2>1, <1>12 DEF Apart
    <3>2. QED
      BY <3>1, <1>12, <1>13
  <2>3. ASSUME NEW l \in DOMAIN t, NEW e \in DOMAIN t, reply[t[l][1]].of = reply[t[e][1]].of
        PROVE  l = e
    <3>1. reply[o[l][1]].of = reply[o[e][1]].of
      BY <2>3, <1>12, <1>13
    <3>2. QED
      BY <3>1, <2>1, <1>12 DEF Apart
  <2>4. QED
    BY <2>1, <2>2, <2>3 DEF Apart
<1>19. ASSUME NEW e \in 1 .. m + 1, reply[e].kind = "call"
      PROVE  \/ \E l \in DOMAIN c : \E j \in DOMAIN c[l] : c[l][j] = e
             \/ \E l \in DOMAIN t : \E j \in DOMAIN t[l] : t[l][j] = e
  <2>1. CASE e = m + 1
    BY <2>1, <1>10, <1>11, <1>12
  <2>2. CASE e # m + 1
    <3>1. e \in 1 .. m
      BY <2>2
    <3>2. CASE \E l \in DOMAIN c : \E j \in DOMAIN c[l] : c[l][j] = e
      BY <3>2
    <3>3. ASSUME NEW l \in DOMAIN o, NEW j \in DOMAIN o[l], o[l][j] = e
          PROVE  \E x \in DOMAIN t : \E y \in DOMAIN t[x] : t[x][y] = e
      <4>1. CASE l = z
        BY <4>1, <3>3, <1>11, <1>12
      <4>2. CASE l # z
        BY <4>2, <3>3, <1>12
      <4>3. QED
        BY <4>1, <4>2
    <3>4. QED
      BY <3>1, <3>2, <3>3, <1>19 DEF Together
  <2>3. QED
    BY <2>1, <2>2
<1>20. Together(c, t, m + 1)
  BY <1>12, <1>15, <1>16, <1>17, <1>18, <1>19 DEF Together
<1>21. o # <<>>
  BY <1>10
<1>22. QED
  BY <1>12, <1>20, <1>21 DEF t, n

\* Calls that are sealed are handed over.
LEMMA CallsFlush ==
  ASSUME NEW m \in Nat,
         NEW c \in Seq(Seq(Nat)), NEW o \in Seq(Seq(Nat)), Together(c, o, m),
         \A k \in DOMAIN o : Sealed(o[k])
  PROVE  c \o o \in Seq(Seq(Nat)) /\ Together(c \o o, <<>>, m)
<1> DEFINE t == c \o o
<1>1. /\ t \in Seq(Seq(Nat)) /\ Len(t) = Len(c) + Len(o)
      /\ \A k \in 1 .. Len(t) : t[k] = IF k <= Len(c) THEN c[k] ELSE o[k - Len(c)]
  BY ConcatProperties
<1>2. DOMAIN t = 1 .. Len(t) /\ DOMAIN c = 1 .. Len(c) /\ DOMAIN o = 1 .. Len(o)
      /\ Len(c) \in Nat /\ Len(o) \in Nat
  BY <1>1
<1> HIDE DEF t
<1>3. ASSUME NEW k \in DOMAIN t
      PROVE  \/ k \in DOMAIN c /\ t[k] = c[k]
             \/ k > Len(c) /\ k - Len(c) \in DOMAIN o /\ t[k] = o[k - Len(c)]
  BY <1>1, <1>2
<1>4. \A k \in DOMAIN c : k \in DOMAIN t /\ t[k] = c[k]
  BY <1>1, <1>2
<1>5. ASSUME NEW k \in DOMAIN o
      PROVE  Len(c) + k \in DOMAIN t /\ t[Len(c) + k] = o[k]
  <2>1. Len(c) + k \in 1 .. Len(t) /\ ~(Len(c) + k <= Len(c)) /\ (Len(c) + k) - Len(c) = k
    BY <1>1, <1>2
  <2>2. QED
    BY <2>1, <1>1, <1>2
<1>6. \A k \in DOMAIN t : Tells(t[k], m) /\ Sealed(t[k])
  BY <1>3 DEF Together
<1>7. ASSUME NEW k \in DOMAIN t, NEW l \in DOMAIN t, reply[t[k][1]].of = reply[t[l][1]].of
      PROVE  k = l
  <2>0. Apart(c, o)
    BY DEF Together
  <2>1. CASE k \in DOMAIN c /\ l \in DOMAIN c
    BY <2>0, <2>1, <1>4, <1>7 DEF Apart
  <2>2. CASE k \in DOMAIN c /\ l > Len(c)
    <3>1. l - Len(c) \in DOMAIN o /\ t[l] = o[l - Len(c)]
      BY <2>2, <1>2, <1>3
    <3>2. reply[c[k][1]].of # reply[o[l - Len(c)][1]].of
      BY <2>0, <2>2, <3>1 DEF Apart
    <3>3. QED
      BY <2>2, <3>1, <3>2, <1>4, <1>7
  <2>3. CASE k > Len(c) /\ l \in DOMAIN c
    <3>1. k - Len(c) \in DOMAIN o /\ t[k] = o[k - Len(c)]
      BY <2>3, <1>2, <1>3
    <3>2. QED
      BY <2>0, <2>3, <3>1, <1>4, <1>7 DEF Apart
  <2>4. CASE k > Len(c) /\ l > Len(c)
    <3>1. /\ l - Len(c) \in DOMAIN o /\ t[l] = o[l - Len(c)]
          /\ k - Len(c) \in DOMAIN o /\ t[k] = o[k - Len(c)]
      BY <2>4, <1>2, <1>3
    <3>2. l - Len(c) = k - Len(c)
      BY <2>0, <3>1, <1>7 DEF Apart
    <3>3. QED
      BY <3>2, <1>2
  <2>5. QED
    BY <2>1, <2>2, <2>3, <2>4, <1>3
<1>8. Apart(t, <<>>)
  BY <1>7 DEF Apart
<1>9. LastOnly(<<>>, m)
  BY DEF LastOnly
<1>10. ASSUME NEW i \in 1 .. m, reply[i].kind = "call"
      PROVE  \E k \in DOMAIN t : \E j \in DOMAIN t[k] : t[k][j] = i
  <2>1. CASE \E k \in DOMAIN c : \E j \in DOMAIN c[k] : c[k][j] = i
    BY <2>1, <1>4
  <2>2. ASSUME NEW k \in DOMAIN o, NEW j \in DOMAIN o[k], o[k][j] = i
        PROVE  \E x \in DOMAIN t : \E y \in DOMAIN t[x] : t[x][y] = i
    BY <2>2, <1>5
  <2>3. QED
    BY <2>1, <2>2, <1>10 DEF Together
<1>11. Together(t, <<>>, m)
  BY <1>6, <1>8, <1>9, <1>10 DEF Together
<1>12. QED
  BY <1>1, <1>11 DEF t

-----------------------------------------------------------------------------
(* The provider, one event more.                                           *)

\* Some of the first m + 1 events is of a kind if one of the first m is, or the last.
LEMMA OneMore ==
  ASSUME NEW m \in Nat, NEW k
  PROVE  (\E i \in 1 .. m + 1 : reply[i].kind = k)
           <=> ((\E i \in 1 .. m : reply[i].kind = k) \/ reply[m + 1].kind = k)
  OBVIOUS

\* The counts and the cap after an event that brings neither.
LEMMA CountsPass ==
  ASSUME NEW m \in Nat, NEW g, NEW h, CountsOK(g, m),
         reply[m + 1].kind \notin {"usage", "length"}, h.usage = g.usage, h.capped = g.capped
  PROVE  CountsOK(h, m + 1)
<1>1. (\E i \in 1 .. m + 1 : reply[i].kind = "usage") <=> \E i \in 1 .. m : reply[i].kind = "usage"
  BY OneMore
<1>2. (\E i \in 1 .. m + 1 : reply[i].kind = "length")
        <=> \E i \in 1 .. m : reply[i].kind = "length"
  BY OneMore
<1>3. QED
  BY <1>1, <1>2 DEF CountsOK

\* FlushPendingToolCalls touches the calls, or fails.
LEMMA FlushKeeps ==
  ASSUME NEW g \in Collected
  PROVE  /\ Flush(g) \in Collected
         /\ g.failed => Flush(g).failed
         /\ Flush(g).handled = g.handled /\ Flush(g).usage = g.usage /\ Flush(g).capped = g.capped
         /\ ~CutOff(g) => /\ Flush(g).failed = g.failed
                          /\ Flush(g).calls = g.calls \o g.open /\ Flush(g).open = <<>>
<1>1. g.calls \o g.open \in Seq(Seq(Nat)) /\ <<>> \in Seq(Seq(Nat))
  BY ConcatProperties DEF Collected
<1>2. CASE CutOff(g)
  <2>1. Flush(g) = [g EXCEPT !.failed = TRUE]
    BY <1>2 DEF Flush
  <2>2. QED
    BY <2>1, <1>2 DEF Collected
<1>3. CASE ~CutOff(g)
  <2>1. Flush(g) = [g EXCEPT !.calls = g.calls \o g.open, !.open = <<>>]
    BY <1>3 DEF Flush, Collected
  <2> DEFINE c == g.calls \o g.open
  <2> HIDE DEF c
  <2>2. Flush(g) = [g EXCEPT !.calls = c, !.open = <<>>] /\ c \in Seq(Seq(Nat))
    BY <2>1, <1>1 DEF c
  <2>3. Flush(g) \in Collected /\ Flush(g).handled = g.handled /\ Flush(g).usage = g.usage
        /\ Flush(g).capped = g.capped /\ Flush(g).failed = g.failed
        /\ Flush(g).calls = c /\ Flush(g).open = <<>>
    BY <2>2, <1>1 DEF Collected
  <2>4. QED
    BY <2>3 DEF c
<1>4. QED
  BY <1>2, <1>3

\* If it does not fail, a call the cap left without its last fragment has no text.
LEMMA NotCut ==
  ASSUME NEW g, ~CutOff(g), NEW k \in DOMAIN g.open, ~Closes(g.open[k]), g.capped,
         \A j \in 1 .. Len(reply) : j > g.open[k][Len(g.open[k])] => reply[j].kind # "call"
  PROVE  Sealed(g.open[k])
<1>1. ~Complete(g.open[k])
  BY DEF Complete, Closes
<1>2. ~HasText(g.open[k])
  BY <1>1 DEF CutOff
<1>3. QED
  BY <1>2 DEF Sealed

\* HandleJsonToken handles the next event, or fails.
LEMMA TokenHandled ==
  ASSUME bare \in Bare, reply \in Replies[bare], round \in Nat,
         NEW m \in Nat, m + 1 <= Len(reply), NEW g, Handled(g, m), ~g.failed
  PROVE  Handled(HandleJsonToken(g, m + 1), m + 1)
<1> DEFINE h == [g EXCEPT !.handled = Append(@, m + 1)]
           e == reply[m + 1]
           t == HandleJsonToken(g, m + 1)
<1>0. m + 1 \in 1 .. Len(reply) /\ bare \in BOOLEAN /\ g \in Collected
  BY ReplyShape, StreamAssumption DEF Handled
<1>1. g.handled = FirstEvents(m) /\ CallsOK(g.calls, g.open, m) /\ CountsOK(g, m)
      /\ (bare => g.open = <<>>)
  BY DEF Handled
<1>2. /\ e.kind \in {"text", "length", "done", "error", "usage", "call"}
      /\ e.kind = "usage" => e.priced \in BOOLEAN
      /\ e.kind = "call" => e.opens \in BOOLEAN /\ e.closes \in BOOLEAN
  BY <1>0, ReplyShape
<1>3. /\ h \in Collected /\ h.handled = FirstEvents(m + 1)
      /\ h.calls = g.calls /\ h.open = g.open /\ h.usage = g.usage
      /\ h.capped = g.capped /\ h.failed = g.failed
  <2>1. m + 1 \in Nat
    OBVIOUS
  <2>2. FirstEvents(m + 1) \in Seq(Nat)
    BY <2>1, FirstEventsGrow
  <2>3. Append(g.handled, m + 1) = FirstEvents(m + 1)
    BY <1>1, FirstEventsGrow
  <2>4. h = [g EXCEPT !.handled = FirstEvents(m + 1)]
    BY <2>3
  <2>5. QED
    BY <2>2, <2>4, <1>0 DEF Collected
<1>4. t = IF bare THEN OllamaToken(h, m + 1) ELSE OpenAIToken(h, m + 1)
  BY DEF HandleJsonToken
<1> SUFFICES Handled(t, m + 1)
  OBVIOUS
<1> HIDE DEF h, t
<1>5. CASE e.kind \in {"text", "error"} \/ (bare /\ e.kind \in {"length", "done"})
  <2>1. t = h \/ t = [h EXCEPT !.failed = TRUE]
    BY <1>2, <1>4, <1>5 DEF OllamaToken, OpenAIToken
  <2>2. t \in Collected /\ (t.failed \/ t = h)
    BY <2>1, <1>3 DEF Collected
  <2>3. CASE t = h
    <3>1. CallsOK(h.calls, h.open, m + 1)
      <4>1. \A k \in DOMAIN g.open : reply[m + 1].kind = "done" => Closes(g.open[k])
        BY <1>1, <1>5
      <4>2. QED
        BY <4>1, <1>0, <1>1, <1>3, <1>5, CallsPass DEF Collected, CallsOK
    <3>2. CountsOK(h, m + 1)
      <4>1. (\E i \in 1 .. m + 1 : reply[i].kind = "usage")
              <=> \E i \in 1 .. m : reply[i].kind = "usage"
        BY <1>5, OneMore
      <4>2. ~bare => ((\E i \in 1 .. m + 1 : reply[i].kind = "length")
                        <=> \E i \in 1 .. m : reply[i].kind = "length")
        BY <1>5, OneMore
      <4>3. QED
        BY <4>1, <4>2, <1>1, <1>3 DEF CountsOK
    <3>3. QED
      BY <2>2, <2>3, <3>1, <3>2, <1>1, <1>3 DEF Handled
  <2>4. QED
    BY <2>2, <2>3 DEF Handled
<1>6. CASE e.kind = "usage"
  <2> DEFINE u == [round |-> round, priced |-> e.priced]
  <2>1. t = [h EXCEPT !.usage = u]
    BY <1>4, <1>6 DEF OllamaToken, OpenAIToken
  <2>2. u \in Usages /\ u # None /\ u.round = round
    BY <1>2, <1>6, StreamAssumption DEF Usages
  <2> HIDE DEF u
  <2>3. /\ t \in Collected /\ t.handled = h.handled /\ t.calls = h.calls /\ t.open = h.open
        /\ t.usage = u /\ t.capped = h.capped
    BY <2>1, <2>2, <1>3 DEF Collected
  <2>4. CallsOK(t.calls, t.open, m + 1)
    BY <1>0, <1>1, <1>3, <1>6, <2>3, CallsPass DEF Collected, CallsOK
  <2>5. CountsOK(t, m + 1)
    <3>1. \E i \in 1 .. m + 1 : reply[i].kind = "usage"
      BY <1>6
    <3>2. (\E i \in 1 .. m + 1 : reply[i].kind = "length")
             <=> \E i \in 1 .. m : reply[i].kind = "length"
      BY <1>6, OneMore
    <3>3. QED
      BY <3>1, <3>2, <2>2, <2>3, <1>1, <1>3 DEF CountsOK
  <2>6. QED
    BY <2>3, <2>4, <2>5, <1>1, <1>3 DEF Handled
<1>7. CASE ~bare /\ e.kind = "length"
  <2>1. t = [h EXCEPT !.capped = TRUE]
    BY <1>4, <1>7 DEF OpenAIToken
  <2>2. /\ t \in Collected /\ t.handled = h.handled /\ t.calls = h.calls /\ t.open = h.open
        /\ t.usage = h.usage /\ t.capped
    BY <2>1, <1>3 DEF Collected
  <2>3. CallsOK(t.calls, t.open, m + 1)
    BY <1>0, <1>1, <1>3, <1>7, <2>2, CallsPass DEF Collected, CallsOK
  <2>4. CountsOK(t, m + 1)
    <3>1. \E i \in 1 .. m + 1 : reply[i].kind = "length"
      BY <1>7
    <3>2. (\E i \in 1 .. m + 1 : reply[i].kind = "usage")
             <=> \E i \in 1 .. m : reply[i].kind = "usage"
      BY <1>7, OneMore
    <3>3. QED
      BY <3>1, <3>2, <2>2, <1>1, <1>3 DEF CountsOK
  <2>5. QED
    BY <2>2, <2>3, <2>4, <1>1, <1>3, <1>7 DEF Handled
<1>8. CASE ~bare /\ e.kind = "done"
  <2>1. t = Flush(h)
    BY <1>4, <1>8 DEF OpenAIToken
  <2>2. CASE CutOff(h)
    <3>1. t = [h EXCEPT !.failed = TRUE]
      BY <2>2, <2>1 DEF Flush
    <3>2. t \in Collected /\ t.failed
      BY <3>1, <1>3 DEF Collected
    <3>3. QED
      BY <3>2 DEF Handled
  <2>3. CASE ~CutOff(h)
    <3>1. /\ t \in Collected /\ t.handled = h.handled /\ t.usage = h.usage /\ t.capped = h.capped
          /\ t.calls = g.calls \o g.open /\ t.open = <<>> /\ t.failed = h.failed
      BY <2>1, <2>3, <1>3, FlushKeeps
    <3>2. ASSUME OneAfterAnother(reply), NEW k \in DOMAIN h.open
          PROVE  Sealed(h.open[k])
      <4>1. CASE Closes(h.open[k])
        BY <4>1 DEF Sealed
      <4>2. CASE ~Closes(h.open[k])
        <5>1. /\ h.open[k] \in Seq(Nat) /\ Tells(h.open[k], m)
              /\ \A j \in 1 .. m :
                   j > h.open[k][Len(h.open[k])] => reply[j].kind \notin {"call", "done"}
          BY <3>2, <4>2, <1>0, <1>1, <1>3 DEF CallsOK, Together, LastOnly, Collected
        <5>2. /\ \E i \in 1 .. m : reply[i].kind = "length"
              /\ \A j \in 1 .. Len(reply) :
                   j > h.open[k][Len(h.open[k])] => reply[j].kind # "call"
          BY <3>2, <5>1, <4>2, <1>8, OpenCall
        <5>3. h.capped
          BY <5>2, <1>1, <1>3, <1>8 DEF CountsOK
        <5>4. QED
          BY <5>2, <5>3, <4>2, <2>3, NotCut
      <4>3. QED
        BY <4>1, <4>2
    <3>3. CallsOK(t.calls, t.open, m + 1)
      <4>1. SUFFICES ASSUME OneAfterAnother(reply)
                     PROVE  Together(t.calls, t.open, m + 1)
        BY DEF CallsOK
      <4> DEFINE c == g.calls
                 o == g.open
      <4>2. /\ c \in Seq(Seq(Nat)) /\ o \in Seq(Seq(Nat)) /\ Together(c, o, m)
            /\ \A k \in DOMAIN o : Sealed(o[k])
        BY <4>1, <3>2, <1>0, <1>1, <1>3 DEF CallsOK, Collected
      <4>3. t.calls = c \o o /\ t.open = <<>>
        BY <3>1
      <4> HIDE DEF c, o
      <4>4. c \o o \in Seq(Seq(Nat)) /\ Together(c \o o, <<>>, m)
        BY <4>2, CallsFlush
      <4> DEFINE x == c \o o
                 y == <<>>
      <4>5. /\ x \in Seq(Seq(Nat)) /\ y \in Seq(Seq(Nat)) /\ Together(x, y, m)
            /\ \A k \in DOMAIN y : Closes(y[k])
        BY <4>4
      <4> HIDE DEF x, y
      <4>6. Together(x, y, m + 1)
        BY <4>1, <4>5, <1>0, <1>8, CallsPass
      <4>7. QED
        BY <4>3, <4>6 DEF x, y
    <3>4. CountsOK(t, m + 1)
      BY <3>1, <1>1, <1>3, <1>8, CountsPass
    <3>5. QED
      BY <3>1, <3>3, <3>4, <1>3, <1>8 DEF Handled
  <2>4. QED
    BY <2>2, <2>3
<1>9. CASE e.kind = "call"
  <2>0. CountsOK(h, m + 1)
    BY <1>1, <1>3, <1>9, CountsPass
  <2>1. CASE bare
    <3>0. <<m + 1>> \in Seq(Nat) /\ << <<m + 1>> >> \in Seq(Seq(Nat))
      OBVIOUS
    <3>1. e.opens /\ e.closes
      BY <2>1, <1>0, <1>9, BareCalls
    <3>2. ASSUME OneAfterAnother(reply)
          PROVE  Together(g.calls, Append(<<>>, <<m + 1>>), m + 1)
      BY <3>2, <2>1, <3>1, <1>0, <1>1, <1>9, CallsBegin DEF Collected, CallsOK
    <3>3. Append(<<>>, <<m + 1>>) = << <<m + 1>> >>
      BY <3>0
    <3>4. \A k \in DOMAIN << <<m + 1>> >> : Sealed(<< <<m + 1>> >>[k])
      <4>1. DOMAIN << <<m + 1>> >> = {1} /\ << <<m + 1>> >>[1] = <<m + 1>>
            /\ <<m + 1>>[Len(<<m + 1>>)] = m + 1
        OBVIOUS
      <4>2. QED
        BY <4>1, <3>1 DEF Closes, Sealed
    <3>5. CallsOK(g.calls \o << <<m + 1>> >>, <<>>, m + 1)
      <4>0. SUFFICES ASSUME OneAfterAnother(reply)
                     PROVE  Together(g.calls \o << <<m + 1>> >>, <<>>, m + 1)
        BY DEF CallsOK
      <4>1. Together(g.calls, << <<m + 1>> >>, m + 1)
        BY <4>0, <3>2, <3>3
      <4> DEFINE o == << <<m + 1>> >>
                 c == g.calls
      <4>2. /\ m + 1 \in Nat /\ o \in Seq(Seq(Nat)) /\ c \in Seq(Seq(Nat))
            /\ Together(c, o, m + 1) /\ \A k \in DOMAIN o : Sealed(o[k])
        <5>1. c \in Seq(Seq(Nat))
          BY <1>0 DEF Collected
        <5>2. QED
          BY <5>1, <4>1, <3>0, <3>4
      <4> HIDE DEF o, c
      <4>3. Together(c \o o, <<>>, m + 1)
        BY <4>2, CallsFlush
      <4>4. QED
        BY <4>3 DEF o, c
    <3>6. g.calls \o << <<m + 1>> >> = Append(g.calls, <<m + 1>>)
          /\ Append(g.calls, <<m + 1>>) \in Seq(Seq(Nat))
      BY <3>0, <1>0 DEF Collected
    <3>7. t = [h EXCEPT !.calls = Append(g.calls, <<m + 1>>)]
      BY <2>1, <1>3, <1>4, <1>9 DEF OllamaToken, Collected
    <3> DEFINE c == Append(g.calls, <<m + 1>>)
    <3>8. c \in Seq(Seq(Nat)) /\ CallsOK(c, <<>>, m + 1) /\ t = [h EXCEPT !.calls = c]
      BY <3>5, <3>6, <3>7
    <3> HIDE DEF c
    <3>9. /\ t \in Collected /\ t.handled = h.handled /\ t.calls = c /\ t.open = h.open
          /\ t.usage = h.usage /\ t.capped = h.capped
      BY <3>8, <1>3 DEF Collected
    <3>10. CountsOK(t, m + 1)
      BY <2>0, <3>9 DEF CountsOK
    <3>11. QED
      BY <3>8, <3>9, <3>10, <1>1, <1>3, <2>1 DEF Handled
  <2>2. CASE ~bare
    <3>1. t = Fragment(h, m + 1)
      BY <2>2, <1>4, <1>9 DEF OpenAIToken
    <3>2. \E o \in Seq(Seq(Nat)) : t = [h EXCEPT !.open = o] /\ CallsOK(g.calls, o, m + 1)
      <4>1. CASE e.opens
        <5> DEFINE o == Append(g.open, <<m + 1>>)
        <5>1. CallsOK(g.calls, o, m + 1)
          BY <4>1, <1>0, <1>1, <1>9, CallsBegin DEF Collected, CallsOK
        <5>2. t = [h EXCEPT !.open = o]
          BY <3>1, <4>1, <1>3 DEF Fragment, Collected
        <5>3. o \in Seq(Seq(Nat))
          BY <1>0 DEF Collected
        <5>4. QED
          BY <5>1, <5>2, <5>3
      <4>2. CASE ~e.opens /\ g.open = <<>>
        <5> DEFINE o == Append(g.open, <<m + 1>>)
        <5>1. ~OneAfterAnother(reply)
          BY <4>2, <1>0, <1>1, <1>9, CallsJoin DEF Collected, CallsOK
        <5>2. CallsOK(g.calls, o, m + 1)
          BY <5>1 DEF CallsOK
        <5>3. t = [h EXCEPT !.open = o]
          BY <3>1, <4>2, <1>3 DEF Fragment, Collected
        <5>4. o \in Seq(Seq(Nat))
          BY <1>0 DEF Collected
        <5>5. QED
          BY <5>2, <5>3, <5>4
      <4>3. CASE ~e.opens /\ g.open # <<>>
        <5> DEFINE o == [g.open EXCEPT ![Len(g.open)] = Append(@, m + 1)]
        <5>1. CallsOK(g.calls, o, m + 1)
          BY <4>3, <1>0, <1>1, <1>9, CallsJoin DEF Collected, CallsOK
        <5>2. o \in Seq(Seq(Nat))
          <6>1. /\ g.open \in Seq(Seq(Nat)) /\ Len(g.open) \in DOMAIN g.open
                /\ g.open[Len(g.open)] \in Seq(Nat)
            BY <4>3, <1>0 DEF Collected
          <6>2. Append(g.open[Len(g.open)], m + 1) \in Seq(Nat)
            BY <6>1
          <6>3. QED
            BY <6>1, <6>2
        <5>3. t = [h EXCEPT !.open[Len(h.open)] = Append(@, m + 1)]
          BY <3>1, <4>3, <1>3 DEF Fragment
        <5>4. t = [h EXCEPT !.open = o]
          BY <5>3, <1>3 DEF Collected
        <5>5. QED
          BY <5>1, <5>2, <5>4
      <4>4. QED
        BY <4>1, <4>2, <4>3
    <3>3. PICK o \in Seq(Seq(Nat)) : t = [h EXCEPT !.open = o] /\ CallsOK(g.calls, o, m + 1)
      BY <3>2
    <3>4. /\ t \in Collected /\ t.handled = h.handled /\ t.calls = g.calls /\ t.open = o
          /\ t.usage = h.usage /\ t.capped = h.capped
      BY <3>3, <1>3 DEF Collected
    <3>5. CountsOK(t, m + 1)
      BY <2>0, <3>4 DEF CountsOK
    <3>6. QED
      BY <3>3, <3>4, <3>5, <1>3, <2>2 DEF Handled
  <2>3. QED
    BY <2>1, <2>2, <1>0
<1>10. QED
  BY <1>0, <1>2, <1>5, <1>6, <1>7, <1>8, <1>9 DEF t

-----------------------------------------------------------------------------
(* The parser.                                                             *)

Lines == [kind : {"data", "blank", "comment", "bare"}, event : Nat, half : 0 .. 3]

Data(n) == Line("data", n, 0)
Half1(n) == Line("data", n, 1)
Half2(n) == Line("data", n, 2)

\* The lines of event n that wait for the end of the event.
Held(p, n) == p \in {<<Data(n)>>, <<Half1(n), Half2(n)>>}

\* Event n was read: it is handled, or its payload waits for its end.
Upto(s, n) ==
  \/ s.pending = <<>> /\ Handled(s.got, n)
  \/ n >= 1 /\ ~bare /\ Held(s.pending, n) /\ Handled(s.got, n - 1)

\* The sentinel was read.
Ended(s, n) ==
  ~bare /\ closed = "ended" /\ s.pending = <<Sentinel>> /\ Handled(s.got, n)

\* The lines of event n that may be left to read, with what was made of those before.
Fits(s, left, n) ==
  \/ left = <<>> /\ (Upto(s, n) \/ Ended(s, n))
  \/ left = <<Sentinel>> /\ ~bare /\ closed = "ended" /\ Upto(s, n)
  \/ /\ n >= 1
     /\ \/ left \in Written(n) /\ Upto(s, n - 1)
        \/ left = <<Data(n), Blank>> /\ ~bare /\ Upto(s, n - 1)
        \/ left = <<Blank>> /\ ~bare /\ Held(s.pending, n) /\ Handled(s.got, n - 1)
        \/ /\ left \in {<<Half2(n)>>, <<Half2(n), Blank>>} /\ ~bare
           /\ s.pending = <<Half1(n)>> /\ Handled(s.got, n - 1)

\* What is being read, as the client's thread has it.
Reading(s) ==
  /\ bare \in Bare /\ reply \in Replies[bare] /\ round \in Nat
  /\ s = [pending |-> s.pending, got |-> s.got]

\* What collected lines spell.
LEMMA Payloads ==
  /\ Payload(<<>>) = None /\ Payload(<<Broken>>) = None /\ Payload(<<Sentinel>>) = 0
  /\ \A n \in Nat : /\ Payload(<<Data(n)>>) = n /\ Payload(<<Half1(n), Half2(n)>>) = n
                    /\ Payload(<<Half1(n)>>) = None /\ Payload(<<Line("bare", n, 0)>>) = n
<1>1. Payload(<<>>) = None
  BY DEF Payload
<1>2. Payload(<<Broken>>) = None /\ Payload(<<Sentinel>>) = 0
  BY DEF Payload, Broken, Sentinel, Line
<1>3. ASSUME NEW n \in Nat
      PROVE  /\ Payload(<<Data(n)>>) = n /\ Payload(<<Half1(n)>>) = None
             /\ Payload(<<Line("bare", n, 0)>>) = n
  BY DEF Payload, Data, Half1, Line
<1>4. ASSUME NEW n \in Nat
      PROVE  Payload(<<Half1(n), Half2(n)>>) = n
  BY DEF Payload, Half1, Half2, Line
<1>5. QED
  BY <1>1, <1>2, <1>3, <1>4

\* A failure stays one, whatever is handled after it.
LEMMA FailedHandled ==
  ASSUME NEW g, NEW m, NEW n, Handled(g, m), g.failed
  PROVE  Handled(g, n)
  BY DEF Handled

\* ParseData of the payload of the next event handles it.
LEMMA NextParsed ==
  ASSUME NEW s, Reading(s), NEW n \in 1 .. Len(reply), NEW p, Payload(p) = n,
         Handled(s.got, n - 1)
  PROVE  /\ Handled(ParseData(s.got, p), n)
         /\ s.got.failed => ParseData(s.got, p).failed
<1>0. Len(reply) \in Nat
  BY ReplyShape DEF Reading
<1>1. n # None /\ n # 0 /\ n \in Nat /\ n - 1 \in Nat
  BY <1>0, StreamAssumption
<1>2. CASE s.got.failed
  <2>1. ParseData(s.got, p) = s.got
    BY <1>2 DEF ParseData
  <2>2. QED
    BY <2>1, <1>2, FailedHandled
<1>3. CASE ~s.got.failed
  <2>1. ParseData(s.got, p) = HandleJsonToken(s.got, n)
    BY <1>1, <1>3 DEF ParseData
  <2> DEFINE m == n - 1
  <2>2. m \in Nat /\ m + 1 = n /\ m + 1 <= Len(reply) /\ Handled(s.got, m)
    BY <1>0, <1>1
  <2> HIDE DEF m
  <2>3. Handled(HandleJsonToken(s.got, m + 1), m + 1)
    BY <2>2, <1>3, TokenHandled DEF Reading
  <2>4. QED
    BY <2>1, <2>2, <2>3, <1>3
<1>4. QED
  BY <1>2, <1>3

\* Dispatch handles what waits, and passes the sentinel over.
LEMMA Dispatched ==
  ASSUME NEW s, Reading(s), NEW n \in 0 .. Len(reply), Upto(s, n) \/ Ended(s, n)
  PROVE  /\ Dispatch(s).pending = <<>> /\ Handled(Dispatch(s).got, n)
         /\ s.got.failed => Dispatch(s).got.failed
         /\ Dispatch(s) = [pending |-> Dispatch(s).pending, got |-> Dispatch(s).got]
<1>1. /\ Dispatch(s).pending = <<>> /\ Dispatch(s).got = ParseData(s.got, s.pending)
      /\ Dispatch(s) = [pending |-> Dispatch(s).pending, got |-> Dispatch(s).got]
  BY DEF Dispatch
<1>2. CASE s.pending = <<>> /\ Handled(s.got, n)
  <2>1. ParseData(s.got, s.pending) = s.got
    BY <1>2, Payloads DEF ParseData
  <2>2. QED
    BY <2>1, <1>1, <1>2
<1>3. CASE n >= 1 /\ ~bare /\ Held(s.pending, n) /\ Handled(s.got, n - 1)
  <2>0. Len(reply) \in Nat
    BY ReplyShape DEF Reading
  <2>1. n \in 1 .. Len(reply) /\ n \in Nat
    BY <1>3, <2>0
  <2>2. Payload(s.pending) = n
    BY <1>3, <2>1, Payloads DEF Held
  <2>3. QED
    BY <2>1, <2>2, <1>1, <1>3, NextParsed
<1>4. CASE Ended(s, n)
  <2>1. ParseData(s.got, s.pending) = s.got
    BY <1>4, Payloads DEF ParseData, Ended
  <2>2. QED
    BY <2>1, <1>1, <1>4 DEF Ended
<1>5. QED
  BY <1>2, <1>3, <1>4 DEF Upto

\* A data line behind a whole payload ends its event: no event is joined with the next.
LEMMA DataLine ==
  ASSUME NEW s, Reading(s), NEW n \in 0 .. Len(reply), Upto(s, n),
         NEW line, line.kind = "data"
  PROVE  /\ HandleLine(s, line).pending = <<line>> /\ Handled(HandleLine(s, line).got, n)
         /\ s.got.failed => HandleLine(s, line).got.failed
<1>1. /\ Dispatch(s).pending = <<>> /\ Handled(Dispatch(s).got, n)
      /\ s.got.failed => Dispatch(s).got.failed
      /\ Dispatch(s) = [pending |-> Dispatch(s).pending, got |-> Dispatch(s).got]
  BY Dispatched
<1> DEFINE t == IF Payload(s.pending) # None THEN Dispatch(s) ELSE s
<1>2. HandleLine(s, line) = [t EXCEPT !.pending = Append(@, line)]
  BY DEF HandleLine
<1>3. /\ t = [pending |-> <<>>, got |-> t.got] /\ Handled(t.got, n)
      /\ s.got.failed => t.got.failed
  <2>1. CASE s.pending = <<>> /\ Handled(s.got, n)
    <3>1. t = s
      BY <2>1, Payloads
    <3>2. QED
      BY <3>1, <2>1 DEF Reading
  <2>2. CASE n >= 1 /\ Held(s.pending, n)
    <3>0. n \in Nat
      BY ReplyShape DEF Reading
    <3>1. Payload(s.pending) = n /\ n # None
      BY <2>2, <3>0, Payloads, StreamAssumption DEF Held
    <3>2. t = Dispatch(s)
      BY <3>1
    <3>3. QED
      BY <3>2, <1>1
  <2>3. QED
    BY <2>1, <2>2 DEF Upto
<1> HIDE DEF t
<1>4. HandleLine(s, line) = [pending |-> <<line>>, got |-> t.got]
  BY <1>2, <1>3
<1>5. QED
  BY <1>3, <1>4

\* Any line that is read leaves the rest of its event to read.
LEMMA LineRead ==
  ASSUME NEW s, Reading(s), NEW n \in 0 .. Len(reply), NEW left, Fits(s, left, n), left # <<>>
  PROVE  /\ left \in Seq(Lines) /\ Fits(HandleLine(s, left[1]), Tail(left), n)
         /\ s.got.failed => HandleLine(s, left[1]).got.failed
         /\ Reading(HandleLine(s, left[1]))
<1> DEFINE t == HandleLine(s, left[1])
<1>0. /\ Len(reply) \in Nat /\ n \in Nat
      /\ n >= 1 => n - 1 \in 0 .. Len(reply) /\ n \in 1 .. Len(reply)
  BY ReplyShape DEF Reading
<1>1. \A k \in {"data", "blank", "comment", "bare"} : Line(k, n, 0).kind = k
  BY DEF Line
<1>2. /\ Blank.kind = "blank" /\ Comment.kind = "comment" /\ Sentinel.kind = "data"
      /\ Data(n).kind = "data" /\ Half1(n).kind = "data" /\ Half2(n).kind = "data"
      /\ Line("bare", n, 0).kind = "bare"
  BY DEF Blank, Comment, Sentinel, Data, Half1, Half2, Line
<1>3. /\ Blank \in Lines /\ Comment \in Lines /\ Sentinel \in Lines /\ Data(n) \in Lines
      /\ Half1(n) \in Lines /\ Half2(n) \in Lines /\ Line("bare", n, 0) \in Lines
  BY <1>0 DEF Blank, Comment, Sentinel, Data, Half1, Half2, Line, Lines
<1>4. ASSUME NEW l, l.kind \in {"data", "blank", "comment", "bare"}
      PROVE  HandleLine(s, l) = [pending |-> HandleLine(s, l).pending,
                                 got |-> HandleLine(s, l).got]
  <2>1. Dispatch(s) = [pending |-> Dispatch(s).pending, got |-> Dispatch(s).got]
    BY DEF Dispatch
  <2>2. s = [pending |-> s.pending, got |-> s.got]
    BY DEF Reading
  <2>3. CASE l.kind = "data"
    <3> DEFINE u == IF Payload(s.pending) # None THEN Dispatch(s) ELSE s
    <3>1. HandleLine(s, l) = [u EXCEPT !.pending = Append(@, l)]
      BY <2>3 DEF HandleLine
    <3>2. u = [pending |-> u.pending, got |-> u.got]
      BY <2>1, <2>2
    <3> HIDE DEF u
    <3>3. QED
      BY <3>1, <3>2
  <2>4. CASE l.kind = "blank"
    BY <2>4, <2>1 DEF HandleLine
  <2>5. CASE l.kind = "bare"
    <3>1. HandleLine(s, l) = [s EXCEPT !.got = ParseData(@, <<l>>)]
      BY <2>5 DEF HandleLine
    <3>2. QED
      BY <3>1, <2>2
  <2>6. CASE l.kind = "comment"
    BY <2>6, <2>2 DEF HandleLine
  <2>7. QED
    BY <1>4, <2>3, <2>4, <2>5, <2>6
<1>5. ASSUME left \in Seq(Lines), left[1].kind \in {"data", "blank", "comment", "bare"},
             Fits(t, Tail(left), n), s.got.failed => t.got.failed
      PROVE  /\ left \in Seq(Lines) /\ Fits(t, Tail(left), n)
             /\ s.got.failed => t.got.failed
             /\ Reading(t)
  BY <1>4, <1>5 DEF Reading
<1>6. CASE left = <<Sentinel>> /\ ~bare /\ closed = "ended" /\ Upto(s, n)
  <2>1. left \in Seq(Lines) /\ left[1] = Sentinel /\ Tail(left) = <<>>
    BY <1>3, <1>6
  <2>2. t.pending = <<Sentinel>> /\ Handled(t.got, n) /\ (s.got.failed => t.got.failed)
    BY <2>1, <1>2, <1>6, DataLine
  <2>3. Ended(t, n)
    BY <2>2, <1>6 DEF Ended
  <2>4. QED
    BY <2>1, <2>2, <2>3, <1>2, <1>5 DEF Fits
<1>7. CASE n >= 1 /\ left = <<Blank>> /\ ~bare /\ Held(s.pending, n) /\ Handled(s.got, n - 1)
  <2>1. left \in Seq(Lines) /\ left[1] = Blank /\ Tail(left) = <<>>
    BY <1>3, <1>7
  <2>2. t = Dispatch(s)
    BY <2>1, <1>2 DEF HandleLine
  <2>3. Upto(s, n)
    BY <1>7 DEF Upto
  <2>4. t.pending = <<>> /\ Handled(t.got, n) /\ (s.got.failed => t.got.failed)
    BY <2>2, <2>3, Dispatched
  <2>5. Upto(t, n)
    BY <2>4 DEF Upto
  <2>6. QED
    BY <2>1, <2>4, <2>5, <1>2, <1>5 DEF Fits
<1>8. CASE /\ n >= 1 /\ left \in {<<Half2(n)>>, <<Half2(n), Blank>>} /\ ~bare
           /\ s.pending = <<Half1(n)>> /\ Handled(s.got, n - 1)
  <2>1. left \in Seq(Lines) /\ left[1] = Half2(n)
        /\ (Tail(left) = <<>> \/ Tail(left) = <<Blank>>)
    <3>1. CASE left = <<Half2(n)>>
      BY <3>1, <1>3, Short
    <3>2. CASE left = <<Half2(n), Blank>>
      BY <3>2, <1>3, Short
    <3>3. QED
      BY <3>1, <3>2, <1>8
  <2>2. Payload(s.pending) = None
    BY <1>0, <1>8, Payloads
  <2>3. t = [s EXCEPT !.pending = Append(@, Half2(n))]
    BY <2>1, <2>2, <1>2 DEF HandleLine
  <2>4. t.pending = <<Half1(n), Half2(n)>> /\ t.got = s.got
    <3>1. Append(<<Half1(n)>>, Half2(n)) = <<Half1(n), Half2(n)>>
      BY <1>3, Pair
    <3>2. s = [pending |-> s.pending, got |-> s.got]
      BY DEF Reading
    <3>3. QED
      BY <2>3, <3>1, <3>2, <1>8
  <2>5. Held(t.pending, n) /\ Handled(t.got, n - 1) /\ Upto(t, n)
    BY <2>4, <1>8 DEF Held, Upto
  <2>6. Fits(t, Tail(left), n)
    BY <2>1, <2>5, <1>8 DEF Fits
  <2>7. QED
    BY <2>1, <2>4, <2>6, <1>2, <1>5
<1>9. CASE n >= 1 /\ (left \in Written(n) \/ (left = <<Data(n), Blank>> /\ ~bare)) /\ Upto(s, n - 1)
  <2>1. CASE bare /\ left = <<Line("bare", n, 0)>>
    <3>1. left \in Seq(Lines) /\ left[1] = Line("bare", n, 0) /\ Tail(left) = <<>>
      BY <1>3, <2>1
    <3>2. t = [s EXCEPT !.got = ParseData(@, <<Line("bare", n, 0)>>)]
      BY <3>1, <1>2 DEF HandleLine
    <3>3. s.pending = <<>> /\ Handled(s.got, n - 1)
      BY <1>9, <2>1 DEF Upto
    <3>4. t.pending = <<>> /\ t.got = ParseData(s.got, <<Line("bare", n, 0)>>)
      BY <3>2, <3>3 DEF Reading
    <3>5. Payload(<<Line("bare", n, 0)>>) = n
      BY <1>0, Payloads
    <3>6. Handled(t.got, n) /\ (s.got.failed => t.got.failed)
      BY <3>3, <3>4, <3>5, <1>0, <1>9, NextParsed
    <3>7. Upto(t, n)
      BY <3>4, <3>6 DEF Upto
    <3>8. QED
      BY <3>1, <3>6, <3>7, <1>2, <1>5 DEF Fits
  <2>2. CASE ~bare /\ left \in {<<Data(n)>>, <<Data(n), Blank>>}
    <3>1. left \in Seq(Lines) /\ left[1] = Data(n)
          /\ (Tail(left) = <<>> \/ Tail(left) = <<Blank>>)
      <4>1. CASE left = <<Data(n)>>
        BY <4>1, <1>3, Short
      <4>2. CASE left = <<Data(n), Blank>>
        BY <4>2, <1>3, Short
      <4>3. QED
        BY <4>1, <4>2, <2>2
    <3>2. t.pending = <<Data(n)>> /\ Handled(t.got, n - 1) /\ (s.got.failed => t.got.failed)
      BY <3>1, <1>0, <1>2, <1>9, DataLine
    <3>3. Held(t.pending, n) /\ Upto(t, n)
      BY <3>2, <1>9, <2>2 DEF Held, Upto
    <3>4. Fits(t, Tail(left), n)
      BY <3>1, <3>2, <3>3, <1>9, <2>2 DEF Fits
    <3>5. QED
      BY <3>1, <3>2, <3>4, <1>2, <1>5
  <2>3. CASE ~bare /\ left = <<Comment, Data(n), Blank>>
    <3>1. left \in Seq(Lines) /\ left[1] = Comment /\ Tail(left) = <<Data(n), Blank>>
      BY <1>3, <2>3, Short
    <3>2. t = s
      BY <3>1, <1>2 DEF HandleLine
    <3>3. Fits(t, Tail(left), n)
      BY <3>1, <3>2, <1>9, <2>3 DEF Fits
    <3>4. QED
      BY <3>1, <3>2, <3>3, <1>2, <1>5
  <2>4. CASE ~bare /\ left \in {<<Half1(n), Half2(n)>>, <<Half1(n), Half2(n), Blank>>}
    <3>1. left \in Seq(Lines) /\ left[1] = Half1(n)
          /\ (Tail(left) = <<Half2(n)>> \/ Tail(left) = <<Half2(n), Blank>>)
      <4>1. CASE left = <<Half1(n), Half2(n)>>
        BY <4>1, <1>3, Short
      <4>2. CASE left = <<Half1(n), Half2(n), Blank>>
        BY <4>2, <1>3, Short
      <4>3. QED
        BY <4>1, <4>2, <2>4
    <3>2. t.pending = <<Half1(n)>> /\ Handled(t.got, n - 1) /\ (s.got.failed => t.got.failed)
      BY <3>1, <1>0, <1>2, <1>9, DataLine
    <3>3. Fits(t, Tail(left), n)
      BY <3>1, <3>2, <1>9, <2>4 DEF Fits
    <3>4. QED
      BY <3>1, <3>2, <3>3, <1>2, <1>5
  <2>5. QED
    BY <1>9, <2>1, <2>2, <2>3, <2>4 DEF Written, Data, Half1, Half2
<1>10. QED
  BY <1>6, <1>7, <1>8, <1>9 DEF Fits

-----------------------------------------------------------------------------
(* The wire.                                                               *)

OnWire == [part : {"line", "head", "tail", "open"}, line : Lines]

\* The wire and the buffer hold the pieces of the lines that are left: each is one piece,
\* the first is in two, on the wire or half read, or the last lacks its end.
OnTheWay(left) ==
  LET n == Len(left) IN
  \/ /\ buffer = <<>> /\ Len(wire) = n
     /\ \A k \in 1 .. n : wire[k] = Piece("line", left[k])
  \/ /\ buffer = <<>> /\ n > 0 /\ Len(wire) = n + 1
     /\ wire[1] = Piece("head", left[1]) /\ wire[2] = Piece("tail", left[1])
     /\ \A k \in 3 .. n + 1 : wire[k] = Piece("line", left[k - 1])
  \/ /\ n > 0 /\ Len(wire) = n
     /\ buffer = <<Piece("head", left[1])>> /\ wire[1] = Piece("tail", left[1])
     /\ \A k \in 2 .. n : wire[k] = Piece("line", left[k])
  \/ /\ buffer = <<>> /\ n > 0 /\ Len(wire) = n /\ closed = "ended"
     /\ wire[n] = Piece("open", left[n])
     /\ \A k \in 1 .. n - 1 : wire[k] = Piece("line", left[k])
  \/ n = 1 /\ wire = <<>> /\ closed = "ended" /\ buffer = <<Piece("open", left[1])>>

\* A read brings a line to its end, or a part of one to the buffer.
LEMMA OneRead ==
  ASSUME NEW left \in Seq(Lines), wire \in Seq(OnWire), wire # <<>>, OnTheWay(left),
         Feed(wire[1]), wire' = Tail(wire), UNCHANGED closed
  PROVE  /\ wire' \in Seq(OnWire)
         /\ \/ /\ left # <<>> /\ OnTheWay(Tail(left))'
               /\ pending' = HandleLine(Parser, left[1]).pending
               /\ got' = HandleLine(Parser, left[1]).got
            \/ UNCHANGED <<pending, got>> /\ OnTheWay(left)'
<1> DEFINE n == Len(left)
           w == Tail(wire)
           r == Tail(left)
<1>1. /\ w \in Seq(OnWire) /\ Len(w) = Len(wire) - 1
      /\ \A k \in 1 .. Len(wire) - 1 : w[k] = wire[k + 1]
  OBVIOUS
<1>2. Len(wire) \in Nat /\ Len(wire) >= 1 /\ n \in Nat
  OBVIOUS
<1>3. n > 0 => /\ left # <<>> /\ r \in Seq(Lines) /\ Len(r) = n - 1
               /\ \A k \in 1 .. n - 1 : r[k] = left[k + 1]
  OBVIOUS
<1>4. \A p, l : Piece(p, l).part = p /\ Piece(p, l).line = l
  BY DEF Piece
<1> HIDE DEF w, r
<1>5. wire' = w
  BY DEF w
<1>6. CASE /\ buffer = <<>> /\ Len(wire) = n
           /\ \A k \in 1 .. n : wire[k] = Piece("line", left[k])
  <2>1. wire[1] = Piece("line", left[1]) /\ n > 0
    BY <1>2, <1>6
  <2>2. pending' = HandleLine(Parser, left[1]).pending /\ got' = HandleLine(Parser, left[1]).got
        /\ buffer' = <<>>
    BY <2>1, <1>4 DEF Feed
  <2>3. Len(w) = Len(r) /\ \A k \in 1 .. Len(r) : w[k] = Piece("line", r[k])
    <3>1. Len(w) = Len(r) /\ Len(r) = n - 1
      BY <2>1, <1>1, <1>2, <1>3, <1>6
    <3>2. ASSUME NEW k \in 1 .. Len(r)
          PROVE  w[k] = Piece("line", r[k])
      <4>1. k + 1 \in 1 .. n /\ k \in 1 .. n - 1
        BY <3>1, <1>2
      <4>2. QED
        BY <4>1, <2>1, <1>1, <1>3, <1>6
    <3>3. QED
      BY <3>1, <3>2
  <2>4. OnTheWay(r)'
    BY <2>2, <2>3, <1>5 DEF OnTheWay
  <2>5. QED
    BY <2>1, <2>2, <2>4, <1>1, <1>3, <1>5 DEF r
<1>7. CASE /\ buffer = <<>> /\ n > 0 /\ Len(wire) = n + 1
           /\ wire[1] = Piece("head", left[1]) /\ wire[2] = Piece("tail", left[1])
           /\ \A k \in 3 .. n + 1 : wire[k] = Piece("line", left[k - 1])
  <2>1. buffer' = <<Piece("head", left[1])>> /\ UNCHANGED <<pending, got>>
    BY <1>4, <1>7 DEF Feed
  <2>2. /\ Len(w) = n /\ w[1] = Piece("tail", left[1])
        /\ \A k \in 2 .. n : w[k] = Piece("line", left[k])
    <3>1. Len(w) = n /\ w[1] = Piece("tail", left[1])
      BY <1>1, <1>2, <1>7
    <3>2. ASSUME NEW k \in 2 .. n
          PROVE  w[k] = Piece("line", left[k])
      <4>1. k + 1 \in 3 .. n + 1 /\ (k + 1) - 1 = k /\ k \in 1 .. Len(wire) - 1
        BY <1>2, <1>7
      <4>2. QED
        BY <4>1, <1>1, <1>7
    <3>3. QED
      BY <3>1, <3>2
  <2>3. OnTheWay(left)'
    BY <2>1, <2>2, <1>5, <1>7 DEF OnTheWay
  <2>4. QED
    BY <2>1, <2>3, <1>1, <1>5
<1>8. CASE /\ n > 0 /\ Len(wire) = n
           /\ buffer = <<Piece("head", left[1])>> /\ wire[1] = Piece("tail", left[1])
           /\ \A k \in 2 .. n : wire[k] = Piece("line", left[k])
  <2>1. pending' = HandleLine(Parser, left[1]).pending /\ got' = HandleLine(Parser, left[1]).got
        /\ buffer' = <<>>
    BY <1>4, <1>8 DEF Feed
  <2>2. Len(w) = Len(r) /\ \A k \in 1 .. Len(r) : w[k] = Piece("line", r[k])
    <3>1. Len(w) = Len(r) /\ Len(r) = n - 1
      BY <1>1, <1>2, <1>3, <1>8
    <3>2. ASSUME NEW k \in 1 .. Len(r)
          PROVE  w[k] = Piece("line", r[k])
      <4>1. k + 1 \in 2 .. n /\ k \in 1 .. n - 1
        BY <3>1, <1>2
      <4>2. QED
        BY <4>1, <1>1, <1>3, <1>8
    <3>3. QED
      BY <3>1, <3>2
  <2>3. OnTheWay(r)'
    BY <2>1, <2>2, <1>5 DEF OnTheWay
  <2>4. QED
    BY <2>1, <2>3, <1>1, <1>3, <1>5, <1>8 DEF r
<1>9. CASE /\ buffer = <<>> /\ n > 0 /\ Len(wire) = n /\ closed = "ended"
           /\ wire[n] = Piece("open", left[n])
           /\ \A k \in 1 .. n - 1 : wire[k] = Piece("line", left[k])
  <2>1. CASE n = 1
    <3>1. buffer' = <<Piece("open", left[1])>> /\ UNCHANGED <<pending, got>>
      BY <2>1, <1>4, <1>9 DEF Feed
    <3>2. w = <<>>
      BY <2>1, <1>1, <1>9
    <3>3. OnTheWay(left)'
      BY <2>1, <3>1, <3>2, <1>5, <1>9 DEF OnTheWay
    <3>4. QED
      BY <3>1, <3>3, <1>1, <1>5
  <2>2. CASE n > 1
    <3>1. wire[1] = Piece("line", left[1])
      BY <2>2, <1>2, <1>9
    <3>2. pending' = HandleLine(Parser, left[1]).pending /\ got' = HandleLine(Parser, left[1]).got
          /\ buffer' = <<>>
      BY <3>1, <1>4 DEF Feed
    <3>3. Len(w) = Len(r) /\ Len(r) > 0 /\ Len(r) = n - 1
      BY <2>2, <1>1, <1>2, <1>3, <1>9
    <3>4. w[Len(r)] = Piece("open", r[Len(r)])
      <4>1. n - 1 \in 1 .. n - 1 /\ (n - 1) + 1 = n
        BY <2>2, <1>2
      <4>2. QED
        BY <4>1, <3>3, <1>1, <1>3, <1>9
    <3>5. ASSUME NEW k \in 1 .. Len(r) - 1
          PROVE  w[k] = Piece("line", r[k])
      <4>1. k + 1 \in 1 .. n - 1 /\ k \in 1 .. n - 1
        BY <3>3, <1>2
      <4>2. QED
        BY <4>1, <1>1, <1>3, <1>9
    <3>6. OnTheWay(r)'
      BY <3>2, <3>3, <3>4, <3>5, <1>5, <1>9 DEF OnTheWay
    <3>7. QED
      BY <3>2, <3>6, <1>1, <1>3, <1>5, <1>9 DEF r
  <2>3. QED
    BY <2>1, <2>2, <1>2, <1>9
<1>10. QED
  BY <1>6, <1>7, <1>8, <1>9 DEF OnTheWay

\* Without a piece on the wire nothing is left to read, but for a last line without its end.
LEMMA WireEmpty ==
  ASSUME NEW left \in Seq(Lines), OnTheWay(left), wire = <<>>
  PROVE  \/ left = <<>> /\ buffer = <<>>
         \/ closed = "ended" /\ Len(left) = 1 /\ buffer = <<Piece("open", left[1])>>
<1>1. Len(left) \in Nat /\ Len(wire) = 0 /\ (Len(left) = 0 => left = <<>>)
  OBVIOUS
<1>2. QED
  BY <1>1 DEF OnTheWay

\* How the lines of an event are cut into pieces.
LEMMA PiecesForm ==
  ASSUME NEW lines \in Seq(Lines), lines # <<>>, NEW p \in Pieces(lines)
  PROVE  /\ p \in Seq(OnWire) /\ Len(p) >= 1
         /\ LET n == Len(lines) IN
            \/ /\ Len(p) = n /\ \A k \in 1 .. n : p[k] = Piece("line", lines[k])
            \/ /\ Len(p) = n + 1
               /\ p[1] = Piece("head", lines[1]) /\ p[2] = Piece("tail", lines[1])
               /\ \A k \in 3 .. n + 1 : p[k] = Piece("line", lines[k - 1])
            \/ /\ Len(p) = n /\ p[n] = Piece("open", lines[n])
               /\ \A k \in 1 .. n - 1 : p[k] = Piece("line", lines[k])
<1> DEFINE n == Len(lines)
           u == Whole(lines)
<1>1. n \in Nat /\ n >= 1 /\ \A k \in 1 .. n : lines[k] \in Lines
  OBVIOUS
<1>2. \A x \in {"line", "head", "tail", "open"}, l \in Lines : Piece(x, l) \in OnWire
  BY DEF Piece, OnWire
<1>3. u \in Seq(OnWire) /\ Len(u) = n /\ \A k \in 1 .. n : u[k] = Piece("line", lines[k])
  <2>1. u = [k \in 1 .. n |-> Piece("line", lines[k])]
    BY DEF Whole
  <2> HIDE DEF u
  <2>2. \A k \in 1 .. n : Piece("line", lines[k]) \in OnWire
    BY <1>1, <1>2
  <2>3. QED
    BY <2>1, <2>2, <1>1
<1> HIDE DEF u
<1>4. CASE p = u
  BY <1>1, <1>3, <1>4
<1>5. CASE p = <<Piece("head", lines[1]), Piece("tail", lines[1])>> \o Tail(u)
  <2> DEFINE a == Piece("head", lines[1])
             b == Piece("tail", lines[1])
             h == <<a, b>>
             v == Tail(u)
  <2>1. a \in OnWire /\ b \in OnWire
    BY <1>1, <1>2
  <2> HIDE DEF a, b
  <2>2. h \in Seq(OnWire) /\ Len(h) = 2 /\ h[1] = a /\ h[2] = b
    BY <2>1
  <2>3. v \in Seq(OnWire) /\ Len(v) = n - 1 /\ \A k \in 1 .. n - 1 : v[k] = u[k + 1]
    BY <1>1, <1>3
  <2> HIDE DEF h, v
  <2>4. /\ h \o v \in Seq(OnWire) /\ Len(h \o v) = Len(h) + Len(v)
        /\ \A k \in 1 .. Len(h) + Len(v) :
             (h \o v)[k] = IF k <= Len(h) THEN h[k] ELSE v[k - Len(h)]
    BY <2>2, <2>3, ConcatProperties
  <2>5. p = h \o v
    BY <1>5 DEF a, b, h, v
  <2>6. Len(p) = n + 1 /\ p[1] = a /\ p[2] = b
    BY <2>2, <2>3, <2>4, <2>5, <1>1
  <2>7. ASSUME NEW k \in 3 .. n + 1
        PROVE  p[k] = Piece("line", lines[k - 1])
    <3>1. k \in 1 .. Len(h) + Len(v) /\ ~(k <= Len(h)) /\ k - 2 \in 1 .. n - 1
          /\ (k - 2) + 1 = k - 1 /\ k - 1 \in 1 .. n
      BY <2>2, <2>3, <1>1
    <3>2. p[k] = v[k - 2]
      BY <3>1, <2>2, <2>4, <2>5
    <3>3. v[k - 2] = u[k - 1]
      BY <3>1, <2>3
    <3>4. QED
      BY <3>1, <3>2, <3>3, <1>3
  <2>8. QED
    BY <2>4, <2>5, <2>6, <2>7, <1>1 DEF a, b
<1>6. CASE p = SubSeq(u, 1, n - 1) \o <<Piece("open", lines[n])>>
  <2> DEFINE a == Piece("open", lines[n])
             h == SubSeq(u, 1, n - 1)
             v == <<a>>
  <2>1. a \in OnWire
    BY <1>1, <1>2
  <2> HIDE DEF a
  <2>2. h \in Seq(OnWire) /\ Len(h) = n - 1 /\ \A k \in 1 .. n - 1 : h[k] = u[k]
    BY <1>1, <1>3
  <2>3. v \in Seq(OnWire) /\ Len(v) = 1 /\ v[1] = a
    BY <2>1
  <2> HIDE DEF h, v
  <2>4. /\ h \o v \in Seq(OnWire) /\ Len(h \o v) = Len(h) + Len(v)
        /\ \A k \in 1 .. Len(h) + Len(v) :
             (h \o v)[k] = IF k <= Len(h) THEN h[k] ELSE v[k - Len(h)]
    BY <2>2, <2>3, ConcatProperties
  <2>5. p = h \o v
    BY <1>6 DEF a, h, v
  <2>6. Len(p) = n /\ p[n] = a
    <3>1. n \in 1 .. Len(h) + Len(v) /\ ~(n <= Len(h)) /\ n - Len(h) = 1 /\ Len(h) + Len(v) = n
      BY <2>2, <2>3, <1>1
    <3>2. QED
      BY <3>1, <2>3, <2>4, <2>5
  <2>7. ASSUME NEW k \in 1 .. n - 1
        PROVE  p[k] = Piece("line", lines[k])
    <3>1. k \in 1 .. Len(h) + Len(v) /\ k <= Len(h) /\ k \in 1 .. n
      BY <2>2, <2>3, <1>1
    <3>2. QED
      BY <3>1, <2>2, <2>4, <2>5, <1>3
  <2>8. QED
    BY <2>4, <2>5, <2>6, <2>7, <1>1 DEF a
<1>7. QED
  BY <1>4, <1>5, <1>6 DEF Pieces, u

-----------------------------------------------------------------------------
(* The invariant.                                                          *)

\* A request that has not been answered has collected nothing.
Fresh ==
  /\ got = NoReply /\ pending = <<>> /\ buffer = <<>> /\ wire = <<>>
  /\ sent = 0 /\ closed = "open"

\* The lines of the last event that was written, or of the end.
LeftOver ==
  Written(sent) \cup {<<>>, <<Blank>>, <<Sentinel>>, <<Data(sent), Blank>>, <<Half2(sent)>>,
                      <<Half2(sent), Blank>>}

\* A connection that broke left nothing, or half a line, on the wire or in the buffer.
Torn ==
  LET half == <<Piece("head", Data(sent + 1))>> IN
  \/ buffer = <<>> /\ wire \in {<<>>, half}
  \/ buffer = half /\ wire = <<>>

\* A reply that is being read: what was written has been handled or is on its way.
BodyOK ==
  /\ reply \in Replies[bare] /\ sent \in 0 .. Len(reply)
  /\ wire \in Seq(OnWire) /\ ~got.failed
  /\ closed \in {"open", "ended", "cut"}
  /\ closed = "ended" => sent = Len(reply)
  /\ closed = "cut" => Torn /\ Upto(Parser, sent)
  /\ closed # "cut" => \E left \in LeftOver : OnTheWay(left) /\ Fits(Parser, left, sent)

\* The cost is that of the last rounds counted.
CostCovers(t) ==
  t.cost # None =>
    \E n \in DOMAIN t.counted : t.cost = {t.counted[k] : k \in n .. Len(t.counted)}

\* The rounds a turn has counted are over.
CountedOK ==
  /\ total.counted \in Seq(Nat)
  /\ \A k \in DOMAIN total.counted :
       total.counted[k] <= round /\ (pc # "idle" => total.counted[k] < round)
  /\ \A j, k \in DOMAIN total.counted : total.counted[j] = total.counted[k] => j = k
  /\ CostCovers(total)

\* The last request gave the turn what its reply said.
ResultOK ==
  result # None => /\ pc = "idle"
                   /\ FramesKept /\ CallsWhole /\ UsageCounted

StreamInv ==
  /\ bare \in Bare /\ round \in Nat
  /\ pc \in {"idle"} \cup Waiting
  /\ pc \in {"resolve", "connect", "handshake", "write", "header"} => Fresh
  /\ pc = "body" => BodyOK
  /\ CountedOK /\ ResultOK

-----------------------------------------------------------------------------
(* Steps.                                                                  *)

\* What was made of the reply is judged by the reply, the round and the protocol only.
LEMMA HandledSame ==
  ASSUME UNCHANGED <<bare, reply, round>>
  PROVE  \A m : Handled(got', m) => Handled(got, m)'
<1>1. OneAfterAnother(reply)' <=> OneAfterAnother(reply)
  OBVIOUS
<1>2. \A c, o, m : Together(c, o, m) => Together(c, o, m)'
  <2>1. \A q, m : Tells(q, m) => Tells(q, m)'
    BY DEF Tells
  <2>2. \A q : Sealed(q) => Sealed(q)'
    BY DEF Sealed, Closes, HasText
  <2>3. \A o, m : LastOnly(o, m) => LastOnly(o, m)'
    BY DEF LastOnly, Closes
  <2>4. \A c, o : Apart(c, o) => Apart(c, o)'
    BY DEF Apart
  <2>5. QED
    BY <2>1, <2>2, <2>3, <2>4 DEF Together
<1>3. QED
  BY <1>1, <1>2 DEF Handled, CallsOK, CountsOK

\* So is what was read of it.
LEMMA UptoSame ==
  ASSUME UNCHANGED <<bare, reply, round>>, Upto([pending |-> pending', got |-> got'], sent')
  PROVE  Upto(Parser, sent)'
  BY HandledSame DEF Upto, Parser

\* And what is left of it to read.
LEMMA FitsSame ==
  ASSUME UNCHANGED <<bare, reply, round>>, closed = "ended" => closed' = "ended", NEW left,
         Fits([pending |-> pending', got |-> got'], left, sent')
  PROVE  Fits(Parser, left, sent)' /\ left \in LeftOver'
<1> DEFINE s == [pending |-> pending', got |-> got']
<1>1. s.pending = pending' /\ s.got = got'
  OBVIOUS
<1>2. \A n : Upto(s, n) =>
        \/ pending' = <<>> /\ Handled(got, n)'
        \/ n >= 1 /\ ~bare' /\ Held(pending', n) /\ Handled(got, n - 1)'
  BY <1>1, HandledSame DEF Upto
<1>3. \A n : Upto(s, n) => Upto(Parser, n)'
  BY <1>2 DEF Upto, Parser
<1>4. \A n : Ended(s, n) => Ended(Parser, n)'
  BY <1>1, HandledSame DEF Ended, Parser
<1>5. Parser' = s
  BY DEF Parser
<1>6. \A n : Written(n)' = Written(n)
  BY DEF Written
<1>7. Fits(Parser, left, sent)'
  BY <1>1, <1>3, <1>4, <1>5, <1>6, HandledSame DEF Fits
<1>8. left \in LeftOver'
  BY <1>6 DEF Fits, LeftOver
<1>9. QED
  BY <1>7, <1>8

\* A step that touches neither the reply nor what was made of it.
LEMMA BodySame ==
  ASSUME BodyOK, UNCHANGED <<bare, reply, round, sent, wire, closed, buffer, pending, got>>
  PROVE  BodyOK'
<1>1. Parser = [pending |-> pending', got |-> got']
  BY DEF Parser
<1>2. CASE closed = "cut"
  <2>1. Upto(Parser, sent)'
    BY <1>1, <1>2, UptoSame DEF BodyOK
  <2>2. Torn'
    BY <1>2 DEF BodyOK, Torn
  <2>3. QED
    BY <1>2, <2>1, <2>2 DEF BodyOK
<1>3. CASE closed # "cut"
  <2>1. PICK left \in LeftOver : OnTheWay(left) /\ Fits(Parser, left, sent)
    BY <1>3 DEF BodyOK
  <2>2. Fits(Parser, left, sent)' /\ left \in LeftOver'
    BY <1>1, <2>1, FitsSame
  <2>3. OnTheWay(left)'
    BY <2>1 DEF OnTheWay
  <2>4. QED
    BY <1>3, <2>1, <2>2, <2>3 DEF BodyOK
<1>4. QED
  BY <1>2, <1>3

\* A step that is no answer of a request.
LEMMA ResultSame ==
  ASSUME ResultOK, CountedOK, UNCHANGED <<reply, closed, result, round, total>>,
         pc' = "idle" <=> pc = "idle"
  PROVE  ResultOK' /\ CountedOK'
<1>1. CountedOK'
  BY DEF CountedOK
<1>2. Meant' = Meant
  BY DEF Meant
<1>3. CameWhole' <=> CameWhole
  BY DEF CameWhole
<1>4. FramesKept => FramesKept'
  BY <1>3 DEF FramesKept
<1>5. CallsWhole => CallsWhole'
  <2> DEFINE C(c) == {{c[k][j] : j \in DOMAIN c[k]} : k \in DOMAIN c}
  <2>1. CallsWhole <=>
          (CameWhole /\ OneAfterAnother(reply) =>
             /\ C(result.calls) = Meant /\ Len(result.calls) = Cardinality(Meant)
             /\ \A k \in DOMAIN result.calls :
                  Complete(result.calls[k]) \/ ~HasText(result.calls[k]))
    BY DEF CallsWhole
  <2>2. CallsWhole' <=>
          (CameWhole' /\ OneAfterAnother(reply') =>
             /\ C(result'.calls) = Meant' /\ Len(result'.calls) = Cardinality(Meant')
             /\ \A k \in DOMAIN result'.calls :
                  Complete(result.calls[k])' \/ ~HasText(result.calls[k])')
    BY DEF CallsWhole
  <2>3. C(result'.calls) = C(result.calls)
    OBVIOUS
  <2> HIDE DEF C
  <2>4. QED
    BY <1>2, <1>3, <2>1, <2>2, <2>3 DEF Complete, HasText
<1>6. UsageCounted => UsageCounted'
  BY <1>3 DEF UsageCounted
<1>7. QED
  BY <1>1, <1>4, <1>5, <1>6 DEF ResultOK

\* A request that fails leaves the turn no result.
LEMMA FailStep ==
  ASSUME StreamInv, Fail
  PROVE  StreamInv'
<1>1. CountedOK'
  BY DEF StreamInv, Fail, CountedOK
<1>2. ResultOK'
  BY DEF ResultOK, Fail
<1>3. QED
  BY <1>1, <1>2 DEF StreamInv, Fail

\* A new request starts from nothing.
LEMMA ChatStep ==
  ASSUME StreamInv, Chat
  PROVE  StreamInv'
<1>1. Fresh' /\ pc' = "resolve" /\ round' = round + 1 /\ UNCHANGED <<bare, total>> /\ result' = None
  BY DEF Chat, Fresh, ResetAccumulators
<1>2. CountedOK'
  <2>1. \A k \in DOMAIN total.counted : total.counted[k] \in Nat /\ total.counted[k] < round + 1
    BY DEF StreamInv, CountedOK
  <2>2. QED
    BY <1>1, <2>1 DEF StreamInv, CountedOK
<1>3. ResultOK'
  BY <1>1 DEF ResultOK
<1>4. QED
  BY <1>1, <1>2, <1>3 DEF StreamInv, Waiting

\* The phases before the answer.
LEMMA AdvanceStep ==
  ASSUME StreamInv, Advance
  PROVE  StreamInv'
<1>1. PICK k \in 1 .. 4 :
        /\ pc = Phases[k]
        /\ IF cancel THEN Fail /\ UNCHANGED <<got, parser>>
           ELSE /\ pc' \in {Phases[k + 1]} \cup (IF pc = "connect" THEN {"write"} ELSE {})
                /\ UNCHANGED <<bare, cancel, gateway, parser, got, result, round, total>>
  BY DEF Advance
<1>2. CASE cancel
  BY <1>1, <1>2, FailStep
<1>3. CASE ~cancel
  <2>1. /\ pc \in {"resolve", "connect", "handshake", "write"}
        /\ pc' \in {"connect", "handshake", "write", "header"}
    BY <1>1, <1>3 DEF Phases
  <2>2. Fresh'
    BY <1>1, <1>3, <2>1 DEF StreamInv, Fresh, gateway, parser
  <2>3. CountedOK' /\ ResultOK'
    BY <1>1, <1>3, <2>1, ResultSame DEF StreamInv, gateway
  <2>4. QED
    BY <1>1, <1>3, <2>1, <2>2, <2>3 DEF StreamInv, Waiting
<1>4. QED
  BY <1>2, <1>3

\* Nothing of a reply has been handled when it begins.
LEMMA AnswerStep ==
  ASSUME StreamInv, NEW r \in Replies[bare], NEW f, NEW ok \in BOOLEAN, Answer(r, f, ok)
  PROVE  StreamInv'
<1>1. /\ pc = "header" /\ reply' = r /\ pc' \in {"body", "refused"}
      /\ UNCHANGED <<bare, sent, wire, closed, buffer, pending, got, result, round, total>>
  BY DEF Answer, parser
<1>2. Fresh
  BY <1>1 DEF StreamInv
<1>3. CountedOK' /\ ResultOK'
  <2>1. CountedOK'
    BY <1>1 DEF StreamInv, CountedOK
  <2>2. result' = None
    BY <1>1 DEF StreamInv, ResultOK
  <2>3. QED
    BY <2>1, <2>2 DEF ResultOK
<1>4. ASSUME pc' = "body"
      PROVE  BodyOK'
  <2>1. r \in Seq(Events) /\ Len(r) \in Nat
    BY StreamAssumption DEF StreamInv
  <2>2. /\ reply' \in Replies[bare'] /\ sent' \in 0 .. Len(reply')
        /\ wire' \in Seq(OnWire) /\ ~got'.failed /\ closed' = "open"
    BY <1>1, <1>2, <2>1 DEF Fresh, NoReply
  <2>3. OnTheWay(<<>>)'
    BY <1>1, <1>2 DEF OnTheWay, Fresh
  <2>4. Fits(Parser, <<>>, sent)'
    <3>1. /\ got' = NoReply /\ pending' = <<>> /\ sent' = 0
      BY <1>1, <1>2 DEF Fresh
    <3>2. CallsOK(<<>>, <<>>, 0)'
      BY DEF CallsOK, Together, LastOnly, Apart
    <3>3. /\ NoReply \in Collected /\ NoReply.handled = <<>> /\ NoReply.calls = <<>>
          /\ NoReply.open = <<>> /\ NoReply.usage = None /\ NoReply.capped = FALSE
      BY DEF NoReply, Collected
    <3>4. <<>> = FirstEvents(0)
      BY DEF FirstEvents
    <3>5. CountsOK(NoReply, 0)'
      BY <3>3 DEF CountsOK
    <3>6. Handled(NoReply, 0)'
      BY <3>2, <3>3, <3>4, <3>5 DEF Handled
    <3>7. Handled(got, sent)'
      BY <3>1, <3>6
    <3>8. QED
      BY <3>1, <3>7 DEF Fits, Upto, Parser
  <2>5. <<>> \in LeftOver'
    BY DEF LeftOver
  <2>6. QED
    BY <2>2, <2>3, <2>4, <2>5 DEF BodyOK
<1>5. QED
  BY <1>1, <1>3, <1>4 DEF StreamInv, Waiting

\* The lines of an event are on their way when it is written.
LEMMA Sent ==
  ASSUME NEW lines \in Seq(Lines), lines # <<>>, NEW p \in Pieces(lines), wire' = p, buffer' = <<>>,
         p[Len(p)].part = "open" => closed' = "ended"
  PROVE  OnTheWay(lines)' /\ wire' \in Seq(OnWire)
<1> DEFINE n == Len(lines)
<1>1. n \in Nat /\ n > 0
  OBVIOUS
<1>2. Piece("open", lines[n]).part = "open"
  BY DEF Piece
<1>3. p \in Seq(OnWire) /\
      \/ /\ Len(p) = n /\ \A k \in 1 .. n : p[k] = Piece("line", lines[k])
      \/ /\ Len(p) = n + 1
         /\ p[1] = Piece("head", lines[1]) /\ p[2] = Piece("tail", lines[1])
         /\ \A k \in 3 .. n + 1 : p[k] = Piece("line", lines[k - 1])
      \/ /\ Len(p) = n /\ p[n] = Piece("open", lines[n])
         /\ \A k \in 1 .. n - 1 : p[k] = Piece("line", lines[k])
  BY PiecesForm
<1>4. CASE Len(p) = n /\ \A k \in 1 .. n : p[k] = Piece("line", lines[k])
  BY <1>3, <1>4 DEF OnTheWay
<1>5. CASE /\ Len(p) = n + 1
           /\ p[1] = Piece("head", lines[1]) /\ p[2] = Piece("tail", lines[1])
           /\ \A k \in 3 .. n + 1 : p[k] = Piece("line", lines[k - 1])
  BY <1>1, <1>3, <1>5 DEF OnTheWay
<1>6. CASE /\ Len(p) = n /\ p[n] = Piece("open", lines[n])
           /\ \A k \in 1 .. n - 1 : p[k] = Piece("line", lines[k])
  BY <1>1, <1>2, <1>3, <1>6 DEF OnTheWay
<1>7. QED
  BY <1>3, <1>4, <1>5, <1>6

\* What is true of a reply between two events.
LEMMA Between ==
  ASSUME StreamInv, pc = "body", closed = "open", wire = <<>>
  PROVE  /\ buffer = <<>> /\ Upto(Parser, sent) /\ Reading(Parser)
         /\ Len(reply) \in Nat /\ sent \in 0 .. Len(reply) /\ result = None
<1>1. BodyOK
  BY DEF StreamInv
<1>2. Reading(Parser)
  BY <1>1 DEF StreamInv, Reading, BodyOK, Parser
<1>3. Len(reply) \in Nat /\ sent \in 0 .. Len(reply)
  BY <1>1, <1>2, ReplyShape DEF BodyOK, Reading
<1>4. PICK left \in LeftOver : OnTheWay(left) /\ Fits(Parser, left, sent)
  BY <1>1 DEF BodyOK
<1>5. left \in Seq(Lines)
  <2>1. CASE left = <<>>
    BY <2>1
  <2>2. CASE left # <<>>
    BY <2>2, <1>2, <1>3, <1>4, LineRead
  <2>3. QED
    BY <2>1, <2>2
<1>6. left = <<>> /\ buffer = <<>>
  BY <1>4, <1>5, WireEmpty
<1>7. Upto(Parser, sent)
  <2>1. Upto(Parser, sent) \/ Ended(Parser, sent)
    BY <1>4, <1>6 DEF Fits, Written
  <2>2. QED
    BY <2>1 DEF Ended
<1>8. result = None
  BY DEF StreamInv, ResultOK
<1>9. QED
  BY <1>2, <1>3, <1>6, <1>7, <1>8

\* The lines of an event that is written, and of the end.
LEMMA WrittenLines ==
  ASSUME NEW n \in Nat
  PROVE  /\ \A lines \in Written(n) : lines \in Seq(Lines) /\ lines # <<>>
         /\ <<Sentinel>> \in Seq(Lines) /\ <<Sentinel>> # <<>>
<1>1. /\ Blank \in Lines /\ Comment \in Lines /\ Sentinel \in Lines /\ Line("data", n, 0) \in Lines
      /\ Line("data", n, 1) \in Lines /\ Line("data", n, 2) \in Lines
      /\ Line("bare", n, 0) \in Lines
  BY DEF Blank, Comment, Sentinel, Line, Lines
<1>2. ASSUME NEW lines \in Written(n)
      PROVE  lines \in Seq(Lines) /\ lines # <<>>
  <2>1. CASE lines = <<Line("bare", n, 0)>>
    BY <2>1, <1>1
  <2>2. CASE lines = <<Line("data", n, 0)>>
    BY <2>2, <1>1
  <2>3. CASE lines = <<Comment, Line("data", n, 0), Blank>>
    BY <2>3, <1>1
  <2>4. CASE lines = <<Line("data", n, 1), Line("data", n, 2)>>
    BY <2>4, <1>1
  <2>5. CASE lines = <<Line("data", n, 1), Line("data", n, 2), Blank>>
    BY <2>5, <1>1
  <2>6. QED
    BY <2>1, <2>2, <2>3, <2>4, <2>5 DEF Written
<1>3. QED
  BY <1>1, <1>2

\* The gateway writes an event.
LEMMA SendStep ==
  ASSUME StreamInv, Send
  PROVE  StreamInv'
<1>1. PICK lines \in Written(sent + 1) : \E p \in Pieces(lines) :
        /\ wire' = p
        /\ closed' = IF p[Len(p)].part = "open" THEN "ended" ELSE closed
        /\ p[Len(p)].part = "open" => sent + 1 = Len(reply)
  BY DEF Send
<1>2. PICK p \in Pieces(lines) :
        /\ wire' = p
        /\ closed' = IF p[Len(p)].part = "open" THEN "ended" ELSE closed
        /\ p[Len(p)].part = "open" => sent + 1 = Len(reply)
  BY <1>1
<1>3. /\ pc = "body" /\ closed = "open" /\ wire = <<>> /\ sent < Len(reply) /\ sent' = sent + 1
      /\ UNCHANGED <<bare, pc, reply, buffer, pending, got, result, round, total>>
  BY DEF Send, parser
<1>4. /\ buffer = <<>> /\ Upto(Parser, sent) /\ Reading(Parser)
      /\ Len(reply) \in Nat /\ sent \in 0 .. Len(reply) /\ result = None
  BY <1>3, Between
<1> DEFINE n == sent + 1
<1>5. n \in 1 .. Len(reply) /\ n \in Nat /\ n # 0 /\ n - 1 = sent /\ sent' = n
  BY <1>3, <1>4
<1>6. lines \in Seq(Lines) /\ lines # <<>> /\ lines \in Written(n)
  BY <1>1, <1>5, WrittenLines
<1>7. OnTheWay(lines)' /\ wire' \in Seq(OnWire)
  BY <1>2, <1>3, <1>4, <1>6, Sent
<1> HIDE DEF n
<1>8. Fits(Parser, lines, n)
  BY <1>4, <1>5, <1>6 DEF Fits
<1>9. Parser = [pending |-> pending', got |-> got']
  BY <1>3 DEF Parser
<1>10. Fits(Parser, lines, sent)' /\ lines \in LeftOver'
  BY <1>3, <1>5, <1>8, <1>9, FitsSame
<1>11. BodyOK'
  <2>1. reply' \in Replies[bare'] /\ sent' \in 0 .. Len(reply') /\ ~got'.failed
    BY <1>3, <1>4, <1>5 DEF StreamInv, BodyOK
  <2>2. closed' \in {"open", "ended"} /\ (closed' = "ended" => sent' = Len(reply'))
    BY <1>2, <1>3
  <2>3. QED
    BY <2>1, <2>2, <1>3, <1>7, <1>10 DEF BodyOK
<1>12. CountedOK' /\ ResultOK'
  <2>1. CountedOK'
    BY <1>3 DEF StreamInv, CountedOK
  <2>2. QED
    BY <2>1, <1>3, <1>4 DEF ResultOK
<1>13. QED
  BY <1>3, <1>11, <1>12 DEF StreamInv

\* The gateway ends its reply.
LEMMA SendEndStep ==
  ASSUME StreamInv, SendEnd
  PROVE  StreamInv'
<1>1. /\ pc = "body" /\ closed = "open" /\ wire = <<>> /\ sent = Len(reply) /\ closed' = "ended"
      /\ wire' \in {<<>>} \cup (IF bare THEN {} ELSE Pieces(<<Sentinel>>))
      /\ UNCHANGED <<bare, pc, reply, sent, buffer, pending, got, result, round, total>>
  BY DEF SendEnd, parser
<1>2. /\ buffer = <<>> /\ Upto(Parser, sent) /\ Reading(Parser)
      /\ Len(reply) \in Nat /\ sent \in 0 .. Len(reply) /\ result = None
  BY <1>1, Between
<1>3. Parser = [pending |-> pending', got |-> got']
  BY <1>1 DEF Parser
<1>4. Upto(Parser, sent)'
  BY <1>1, <1>2, <1>3, UptoSame
<1>5. \E left \in LeftOver' : OnTheWay(left)' /\ Fits(Parser, left, sent)' /\ wire' \in Seq(OnWire)
  <2>1. CASE wire' = <<>>
    <3>1. OnTheWay(<<>>)'
      BY <1>1, <1>2, <2>1 DEF OnTheWay
    <3>2. Fits(Parser, <<>>, sent)' /\ <<>> \in LeftOver'
      BY <1>4 DEF Fits, LeftOver
    <3>3. QED
      BY <2>1, <3>1, <3>2
  <2>2. CASE ~bare /\ wire' \in Pieces(<<Sentinel>>)
    <3>1. <<Sentinel>> \in Seq(Lines) /\ <<Sentinel>> # <<>>
      BY <1>2, WrittenLines
    <3> DEFINE lines == <<Sentinel>>
    <3>2. lines \in Seq(Lines) /\ lines # <<>> /\ wire' \in Pieces(lines)
      BY <3>1, <2>2
    <3> HIDE DEF lines
    <3>3. OnTheWay(lines)' /\ wire' \in Seq(OnWire)
      BY <3>2, <1>1, <1>2, Sent
    <3>4. Fits(Parser, lines, sent)' /\ lines \in LeftOver'
      BY <2>2, <1>1, <1>4 DEF Fits, LeftOver, lines
    <3>5. QED
      BY <3>3, <3>4
  <2>3. QED
    BY <1>1, <2>1, <2>2
<1>6. BodyOK'
  <2>1. reply' \in Replies[bare'] /\ sent' \in 0 .. Len(reply') /\ ~got'.failed
    BY <1>1, <1>2 DEF StreamInv, BodyOK
  <2>2. QED
    BY <2>1, <1>1, <1>5 DEF BodyOK
<1>7. CountedOK' /\ ResultOK'
  <2>1. CountedOK'
    BY <1>1 DEF StreamInv, CountedOK
  <2>2. QED
    BY <2>1, <1>1, <1>2 DEF ResultOK
<1>8. QED
  BY <1>1, <1>6, <1>7 DEF StreamInv

\* The connection breaks.
LEMMA BreakStep ==
  ASSUME StreamInv, Break
  PROVE  StreamInv'
<1>1. /\ pc = "body" /\ closed = "open" /\ wire = <<>> /\ closed' = "cut"
      /\ wire' \in {<<>>, <<Piece("head", Line("data", sent + 1, 0))>>}
      /\ UNCHANGED <<bare, pc, reply, sent, buffer, pending, got, result, round, total>>
  BY DEF Break, parser
<1>2. /\ buffer = <<>> /\ Upto(Parser, sent) /\ Reading(Parser)
      /\ Len(reply) \in Nat /\ sent \in 0 .. Len(reply) /\ result = None
  BY <1>1, Between
<1>3. Upto(Parser, sent)'
  <2>1. Parser = [pending |-> pending', got |-> got']
    BY <1>1 DEF Parser
  <2>2. QED
    BY <2>1, <1>1, <1>2, UptoSame
<1>4. Torn' /\ wire' \in Seq(OnWire)
  <2>1. Line("data", sent + 1, 0) \in Lines
    BY <1>2 DEF Line, Lines
  <2>2. Piece("head", Line("data", sent + 1, 0)) \in OnWire
    BY <2>1 DEF Piece, OnWire
  <2>3. wire' \in Seq(OnWire)
    <3> DEFINE p == Piece("head", Line("data", sent + 1, 0))
    <3> HIDE DEF p
    <3>1. p \in OnWire /\ (wire' = <<>> \/ wire' = <<p>>)
      BY <2>2, <1>1 DEF p
    <3>2. <<>> \in Seq(OnWire) /\ <<p>> \in Seq(OnWire)
      BY <3>1
    <3>3. QED
      BY <3>1, <3>2
  <2>4. QED
    BY <2>3, <1>1, <1>2 DEF Torn, Data
<1>5. BodyOK'
  <2>1. reply' \in Replies[bare'] /\ sent' \in 0 .. Len(reply') /\ ~got'.failed
    BY <1>1, <1>2 DEF StreamInv, BodyOK
  <2>2. QED
    BY <2>1, <1>1, <1>3, <1>4 DEF BodyOK
<1>6. CountedOK' /\ ResultOK'
  <2>1. CountedOK'
    BY <1>1 DEF StreamInv, CountedOK
  <2>2. QED
    BY <2>1, <1>1, <1>2 DEF ResultOK
<1>7. QED
  BY <1>1, <1>5, <1>6 DEF StreamInv

\* What arrived is read.
LEMMA OnPieceStep ==
  ASSUME StreamInv, OnPiece
  PROVE  StreamInv'
<1>1. /\ pc = "body" /\ wire # <<>> /\ Feed(wire[1]) /\ wire' = Tail(wire)
      /\ IF got'.failed \/ cancel THEN pc' = "idle" ELSE UNCHANGED pc
      /\ UNCHANGED <<bare, reply, sent, closed, result, round, total>>
  BY DEF OnPiece
<1>2. BodyOK /\ Reading(Parser) /\ result = None
  BY <1>1 DEF StreamInv, ResultOK, Reading, BodyOK, Parser
<1>3. CountedOK' /\ ResultOK'
  <2>1. CountedOK'
    BY <1>1 DEF StreamInv, CountedOK
  <2>2. QED
    BY <2>1, <1>1, <1>2 DEF ResultOK
<1>4. CASE got'.failed \/ cancel
  BY <1>1, <1>3, <1>4 DEF StreamInv
<1>5. CASE ~(got'.failed \/ cancel)
  <2>0. /\ Len(reply) \in Nat /\ sent \in 0 .. Len(reply) /\ wire \in Seq(OnWire)
        /\ closed \in {"open", "ended", "cut"}
    BY <1>2, ReplyShape DEF BodyOK, Reading
  <2>1. CASE closed = "cut"
    <3> DEFINE piece == Piece("head", Data(sent + 1))
    <3>1. wire = <<piece>> /\ buffer = <<>>
      BY <1>1, <1>2, <2>1 DEF BodyOK, Torn
    <3>2. piece.part = "head"
      BY DEF Piece
    <3> HIDE DEF piece
    <3>3. wire' = <<>> /\ buffer' = <<piece>> /\ UNCHANGED <<pending, got>>
      BY <1>1, <3>1, <3>2 DEF Feed
    <3>4. Torn'
      BY <1>1, <3>3 DEF Torn, piece
    <3>5. Parser = [pending |-> pending', got |-> got']
      BY <3>3 DEF Parser
    <3>6. Upto(Parser, sent)'
      BY <1>1, <1>2, <2>1, <3>5, UptoSame DEF BodyOK
    <3>7. BodyOK'
      BY <1>1, <1>2, <2>1, <3>3, <3>4, <3>6 DEF BodyOK
    <3>8. QED
      BY <1>1, <1>3, <1>5, <3>7 DEF StreamInv
  <2>2. CASE closed # "cut"
    <3>1. PICK left \in LeftOver : OnTheWay(left) /\ Fits(Parser, left, sent)
      BY <1>2, <2>2 DEF BodyOK
    <3>2. left \in Seq(Lines) /\ left # <<>>
      <4>1. CASE left = <<>>
        <5>1. Len(left) = 0 /\ Len(wire) > 0
          BY <4>1, <1>1, <2>0
        <5>2. QED
          BY <5>1, <3>1 DEF OnTheWay
      <4>2. CASE left # <<>>
        BY <4>2, <1>2, <2>0, <3>1, LineRead
      <4>3. QED
        BY <4>1, <4>2
    <3>3. wire' \in Seq(OnWire)
      BY <3>1, <3>2, <2>0, <1>1, OneRead
    <3> DEFINE s == [pending |-> pending', got |-> got']
    <3>4. \E rest : OnTheWay(rest)' /\ Fits(s, rest, sent)
      <4>1. CASE /\ OnTheWay(Tail(left))'
                 /\ pending' = HandleLine(Parser, left[1]).pending
                 /\ got' = HandleLine(Parser, left[1]).got
        <5>1. /\ Fits(HandleLine(Parser, left[1]), Tail(left), sent)
              /\ Reading(HandleLine(Parser, left[1]))
          BY <1>2, <2>0, <3>1, <3>2, LineRead
        <5>2. s = HandleLine(Parser, left[1])
          BY <4>1, <5>1 DEF Reading
        <5>3. Fits(s, Tail(left), sent)
          BY <5>1, <5>2
        <5>4. QED
          BY <4>1, <5>3
      <4>2. CASE UNCHANGED <<pending, got>> /\ OnTheWay(left)'
        <5>1. s = Parser
          BY <4>2 DEF Parser
        <5>2. QED
          BY <4>2, <5>1, <3>1
      <4>3. QED
        BY <4>1, <4>2, <3>1, <3>2, <2>0, <1>1, OneRead
    <3>5. PICK rest : OnTheWay(rest)' /\ Fits(s, rest, sent)
      BY <3>4
    <3>6. Fits(Parser, rest, sent)' /\ rest \in LeftOver'
      BY <1>1, <3>5, FitsSame
    <3>7. BodyOK'
      BY <1>1, <1>2, <1>5, <2>0, <2>2, <3>3, <3>5, <3>6 DEF BodyOK
    <3>8. QED
      BY <1>1, <1>3, <1>5, <3>7 DEF StreamInv
  <2>3. QED
    BY <2>1, <2>2
<1>6. QED
  BY <1>4, <1>5

\* The calls of a whole reply are the ones it meant.
LEMMA MeantCalls ==
  ASSUME bare \in Bare, reply \in Replies[bare],
         NEW c \in Seq(Seq(Nat)), Together(c, <<>>, Len(reply))
  PROVE  /\ {{c[k][j] : j \in DOMAIN c[k]} : k \in DOMAIN c} = Meant
         /\ Len(c) = Cardinality(Meant)
<1> DEFINE N == Len(reply)
           Of(x) == {i \in 1 .. N : reply[i].kind = "call" /\ reply[i].of = x}
           Names == {reply[i].of : i \in {j \in 1 .. N : reply[j].kind = "call"}}
           R(k) == {c[k][j] : j \in DOMAIN c[k]}
           of(k) == reply[c[k][1]].of
<1>1. N \in Nat /\ N <= Len(reply)
  BY ReplyShape
<1>2. Meant = {Of(x) : x \in Names}
  BY DEF Meant
<1>3. \A k \in DOMAIN c : c[k] \in Seq(Nat) /\ Tells(c[k], N)
  BY DEF Together
<1>4. ASSUME NEW k \in DOMAIN c
      PROVE  R(k) = Of(of(k)) /\ of(k) \in Names /\ c[k][1] \in R(k)
  <2>1. /\ 1 \in DOMAIN c[k]
        /\ \A j \in DOMAIN c[k] : c[k][j] \in 1 .. N /\ reply[c[k][j]].kind = "call"
                                  /\ reply[c[k][j]].of = of(k)
    BY <1>1, <1>3, Within
  <2>2. \A i \in 1 .. N : reply[i].kind = "call" /\ reply[i].of = of(k)
                            => \E j \in DOMAIN c[k] : c[k][j] = i
    BY <1>3 DEF Tells
  <2>3. \A i : i \in R(k) => i \in Of(of(k))
    BY <2>1
  <2>4. \A i : i \in Of(of(k)) => i \in R(k)
    BY <2>2
  <2>5. of(k) \in Names /\ c[k][1] \in R(k)
    BY <2>1
  <2>6. QED
    BY <2>3, <2>4, <2>5
<1>5. ASSUME NEW x \in Names
      PROVE  \E k \in DOMAIN c : of(k) = x
  <2>1. PICK i \in 1 .. N : reply[i].kind = "call" /\ reply[i].of = x
    BY <1>5
  <2>2. PICK k \in DOMAIN c : \E j \in DOMAIN c[k] : c[k][j] = i
    BY <2>1 DEF Together
  <2>3. reply[i].of = of(k)
    BY <1>1, <1>3, <2>2, Within
  <2>4. QED
    BY <2>1, <2>2, <2>3
<1>6. \A k, l \in DOMAIN c : of(k) = of(l) => k = l
  BY DEF Together, Apart
<1> HIDE DEF of, R, Of, Names
<1>7. {R(k) : k \in DOMAIN c} = Meant
  BY <1>2, <1>4, <1>5
<1> DEFINE D == 1 .. Len(c)
           f == [k \in D |-> R(k)]
<1>8. DOMAIN c = D /\ Len(c) \in Nat
  OBVIOUS
<1>9. f \in [D -> Meant] /\ \A s \in Meant : \E k \in D : f[k] = s
  BY <1>7, <1>8
<1>10. ASSUME NEW k \in D, NEW l \in D, f[k] = f[l]
       PROVE  k = l
  <2>1. R(k) = R(l) /\ k \in DOMAIN c /\ l \in DOMAIN c
    BY <1>8, <1>10
  <2>2. c[k][1] \in Of(of(k)) /\ c[k][1] \in Of(of(l))
    BY <1>4, <2>1
  <2>3. of(k) = of(l)
    BY <2>2 DEF Of
  <2>4. QED
    BY <1>6, <2>1, <2>3
<1>11. f \in Bijection(D, Meant)
  BY <1>9, <1>10 DEF Bijection, Injection, Surjection, IsInjective
<1>12. ExistsBijection(D, Meant)
  BY <1>11 DEF ExistsBijection
<1>13. IsFiniteSet(D) /\ Cardinality(D) = Len(c)
  <2>1. /\ IsFiniteSet(1 .. Len(c))
        /\ Cardinality(1 .. Len(c)) = IF 1 > Len(c) THEN 0 ELSE Len(c) - 1 + 1
    <3> DEFINE n == Len(c)
    <3>1. 1 \in Int /\ n \in Int
      BY <1>8
    <3> HIDE DEF n
    <3>2. IsFiniteSet(1 .. n) /\ Cardinality(1 .. n) = IF 1 > n THEN 0 ELSE n - 1 + 1
      BY <3>1, FS_Interval
    <3>3. QED
      BY <3>2 DEF n
  <2>2. QED
    BY <1>8, <2>1
<1>14. Cardinality(Meant) = Len(c)
  BY <1>12, <1>13, FS_Bijection
<1>15. QED
  BY <1>7, <1>14 DEF R

\* What Chat returns of a whole reply.
LEMMA Concluded ==
  ASSUME bare \in Bare, reply \in Replies[bare], NEW g, Handled(g, Len(reply)), ~Flush(g).failed
  PROVE  /\ Flush(g) \in Collected /\ Flush(g).handled = FirstEvents(Len(reply))
         /\ CallsOK(Flush(g).calls, <<>>, Len(reply))
         /\ Flush(g).usage # None <=> \E i \in 1 .. Len(reply) : reply[i].kind = "usage"
<1> DEFINE N == Len(reply)
<1>1. N \in Nat /\ bare \in BOOLEAN
  BY ReplyShape, StreamAssumption
<1>2. g \in Collected /\ ~g.failed
  <2>1. g \in Collected
    BY DEF Handled
  <2>2. QED
    BY <2>1, FlushKeeps
<1>3. /\ g.handled = FirstEvents(N) /\ CallsOK(g.calls, g.open, N) /\ CountsOK(g, N)
      /\ (bare => g.open = <<>>)
  BY <1>2 DEF Handled
<1>4. ~CutOff(g)
  BY <1>2 DEF Flush, Collected
<1>5. ASSUME OneAfterAnother(reply), NEW k \in DOMAIN g.open
      PROVE  Sealed(g.open[k])
  <2>1. CASE Closes(g.open[k])
    BY <2>1 DEF Sealed
  <2>2. CASE ~Closes(g.open[k])
    <3> DEFINE q == g.open[k]
               i == q[Len(q)]
    <3>1. /\ q \in Seq(Nat) /\ Tells(q, N) /\ ~bare
          /\ \A j \in 1 .. N : j > i => reply[j].kind \notin {"call", "done"}
      <4>1. q \in Seq(Nat)
        BY <1>2 DEF Collected
      <4>2. ~bare
        BY <1>3
      <4>3. QED
        BY <4>1, <4>2, <1>3, <1>5, <2>2 DEF CallsOK, Together, LastOnly
    <3>2. i \in 1 .. N /\ reply[i].kind = "call"
      BY <1>1, <3>1, Within
    <3>3. ~reply[i].closes
      BY <2>2 DEF Closes
    <3> HIDE DEF i
    <3>4. PICK e \in 1 .. N : e > i /\ (reply[e].kind = "call" \/ reply[e].kind = "length")
      BY <1>5, <3>2, <3>3, ReplyCalls
    <3>5. reply[e].kind = "length"
      BY <3>1, <3>4
    <3>6. g.capped
      BY <1>3, <3>1, <3>5 DEF CountsOK
    <3>7. \A j \in 1 .. Len(reply) : j > g.open[k][Len(g.open[k])] => reply[j].kind # "call"
      BY <3>1 DEF i
    <3>8. QED
      BY <1>4, <2>2, <3>6, <3>7, NotCut
  <2>3. QED
    BY <2>1, <2>2
<1>6. /\ Flush(g) \in Collected /\ Flush(g).handled = g.handled /\ Flush(g).usage = g.usage
      /\ Flush(g).calls = g.calls \o g.open
  BY <1>2, <1>4, FlushKeeps
<1>7. CallsOK(Flush(g).calls, <<>>, N)
  <2>1. SUFFICES ASSUME OneAfterAnother(reply)
                 PROVE  Together(Flush(g).calls, <<>>, N)
    BY DEF CallsOK
  <2> DEFINE c == g.calls
             o == g.open
  <2>2. /\ c \in Seq(Seq(Nat)) /\ o \in Seq(Seq(Nat)) /\ Together(c, o, N)
        /\ \A k \in DOMAIN o : Sealed(o[k])
    BY <2>1, <1>2, <1>3, <1>5 DEF CallsOK, Collected
  <2>3. Flush(g).calls = c \o o
    BY <1>6
  <2> HIDE DEF c, o
  <2>4. Together(c \o o, <<>>, N)
    BY <1>1, <2>2, CallsFlush
  <2>5. QED
    BY <2>3, <2>4
<1>8. QED
  BY <1>3, <1>6, <1>7 DEF CountsOK

\* What is handled of a reply when its body ends.
LEMMA Drained ==
  ASSUME StreamInv, pc = "body", wire = <<>>
  PROVE  /\ Handled(Dispatch(LastLine(Parser)).got, sent) /\ Reading(Parser)
         /\ Len(reply) \in Nat /\ sent \in 0 .. Len(reply)
<1>1. BodyOK /\ Reading(Parser)
  BY DEF StreamInv, Reading, BodyOK, Parser
<1>2. Len(reply) \in Nat /\ sent \in 0 .. Len(reply)
  BY <1>1, ReplyShape DEF BodyOK, Reading
<1>3. CASE closed = "cut"
  <2>1. Upto(Parser, sent) /\ Torn
    BY <1>1, <1>3 DEF BodyOK
  <2>2. CASE buffer = <<>> \/ bare
    <3>1. LastLine(Parser) = Parser
      <4>1. Piece("head", Data(sent + 1)).part = "head"
        BY DEF Piece
      <4>2. CASE buffer = <<>>
        BY <4>2 DEF LastLine
      <4>3. CASE buffer = <<Piece("head", Data(sent + 1))>> /\ bare
        <5>1. buffer # <<>> /\ buffer[1].part = "head"
          BY <4>1, <4>3
        <5>2. QED
          BY <5>1, <4>3 DEF LastLine
      <4>4. QED
        BY <2>1, <2>2, <4>2, <4>3 DEF Torn
    <3>2. QED
      BY <3>1, <2>1, <1>1, <1>2, Dispatched
  <2>3. CASE buffer = <<Piece("head", Data(sent + 1))>> /\ ~bare
    <3>1. Piece("head", Data(sent + 1)).part = "head" /\ Broken.kind = "data"
      BY DEF Piece, Broken, Line
    <3>2. LastLine(Parser) = HandleLine(Parser, Broken)
      <4>1. buffer # <<>> /\ buffer[1].part = "head"
        BY <3>1, <2>3
      <4>2. QED
        BY <4>1, <2>3 DEF LastLine
    <3>3. /\ HandleLine(Parser, Broken).pending = <<Broken>>
          /\ Handled(HandleLine(Parser, Broken).got, sent)
      BY <3>1, <2>1, <1>1, <1>2, DataLine
    <3>4. Dispatch(LastLine(Parser)).got = HandleLine(Parser, Broken).got
      BY <3>2, <3>3, Payloads DEF Dispatch, ParseData
    <3>5. QED
      BY <3>3, <3>4, <1>1, <1>2
  <2>4. bare \in BOOLEAN
    BY <1>1, StreamAssumption DEF Reading
  <2>5. QED
    BY <2>1, <2>2, <2>3, <2>4 DEF Torn
<1>4. CASE closed # "cut"
  <2>1. PICK left \in LeftOver : OnTheWay(left) /\ Fits(Parser, left, sent)
    BY <1>1, <1>4 DEF BodyOK
  <2>2. CASE left = <<>>
    <3>1. buffer = <<>>
      <4>1. left \in Seq(Lines) /\ Len(left) = 0
        BY <2>2
      <4>2. \/ left = <<>> /\ buffer = <<>>
            \/ closed = "ended" /\ Len(left) = 1 /\ buffer = <<Piece("open", left[1])>>
        BY <4>1, <2>1, WireEmpty
      <4>3. QED
        BY <4>1, <4>2
    <3>2. LastLine(Parser) = Parser
      BY <3>1 DEF LastLine
    <3>3. Upto(Parser, sent) \/ Ended(Parser, sent)
      BY <2>1, <2>2 DEF Fits, Written
    <3>4. QED
      BY <3>2, <3>3, <1>1, <1>2, Dispatched
  <2>3. CASE left # <<>>
    <3>1. /\ left \in Seq(Lines) /\ Fits(HandleLine(Parser, left[1]), Tail(left), sent)
          /\ Reading(HandleLine(Parser, left[1]))
      BY <2>1, <2>3, <1>1, <1>2, LineRead
    <3>2. Len(left) = 1 /\ buffer = <<Piece("open", left[1])>> /\ left[1] \in Lines
      BY <3>1, <2>1, <2>3, WireEmpty
    <3>3. LastLine(Parser) = HandleLine(Parser,
            [left[1] EXCEPT !.kind = IF @ = "blank" THEN "comment" ELSE @])
      <4>1. buffer # <<>> /\ buffer[1].part = "open" /\ buffer[1].line = left[1]
        BY <3>2 DEF Piece
      <4>2. QED
        BY <4>1 DEF LastLine
    <3>4. CASE left[1].kind # "blank"
      <4>1. [left[1] EXCEPT !.kind = IF @ = "blank" THEN "comment" ELSE @] = left[1]
        BY <3>2, <3>4 DEF Lines
      <4>2. Tail(left) = <<>>
        <5> DEFINE r == Tail(left)
        <5>1. r \in Seq(Lines) /\ Len(r) = 0
          BY <3>1, <3>2
        <5> HIDE DEF r
        <5>2. r = <<>>
          BY <5>1
        <5>3. QED
          BY <5>2 DEF r
      <4>3. Upto(HandleLine(Parser, left[1]), sent) \/ Ended(HandleLine(Parser, left[1]), sent)
        BY <3>1, <4>2 DEF Fits, Written
      <4>4. QED
        BY <3>1, <3>3, <4>1, <4>3, <1>1, <1>2, Dispatched
    <3>5. CASE left[1].kind = "blank"
      <4> DEFINE l == [left[1] EXCEPT !.kind = IF @ = "blank" THEN "comment" ELSE @]
      <4>1. l.kind = "comment"
        BY <3>2, <3>5 DEF Lines
      <4> HIDE DEF l
      <4>2. LastLine(Parser) = Parser
        BY <3>3, <4>1 DEF HandleLine, l
      <4>3. Upto(Parser, sent)
        <5>1. /\ Sentinel.kind = "data" /\ Data(sent).kind = "data" /\ Half2(sent).kind = "data"
              /\ Line("bare", sent, 0).kind = "bare" /\ Comment.kind = "comment"
              /\ Line("data", sent, 0).kind = "data" /\ Line("data", sent, 1).kind = "data"
          BY DEF Sentinel, Data, Half2, Comment, Line
        <5>2. /\ sent >= 1 /\ ~bare /\ Held(Parser.pending, sent) /\ Handled(Parser.got, sent - 1)
          <6>1. left[1] # Sentinel /\ left[1] # Data(sent) /\ left[1] # Half2(sent)
                /\ left[1] # Line("bare", sent, 0) /\ left[1] # Comment
                /\ left[1] # Line("data", sent, 0) /\ left[1] # Line("data", sent, 1)
            BY <5>1, <3>5
          <6>2. left # <<Sentinel>> /\ left # <<Data(sent), Blank>> /\ left # <<Half2(sent)>>
                /\ left # <<Half2(sent), Blank>>
            BY <6>1
          <6>3. left \notin Written(sent)
            BY <6>1 DEF Written
          <6>4. QED
            BY <2>1, <2>3, <6>2, <6>3 DEF Fits
        <5>3. QED
          BY <5>2 DEF Upto
      <4>4. QED
        BY <4>2, <4>3, <1>1, <1>2, Dispatched
    <3>6. QED
      BY <3>4, <3>5
  <2>4. QED
    BY <2>2, <2>3
<1>5. QED
  BY <1>3, <1>4

\* A round that is counted with a price is added to the cost, or begins it; one without ends it.
LEMMA CostSummed ==
  ASSUME NEW t, t.counted \in Seq(Nat), CostCovers(t),
         NEW u, u = None \/ u \in Usages
  PROVE  CostCovers(Summed(t, u))
<1> DEFINE c == t.counted
           d == Append(c, u.round)
           z == Len(c) + 1
<1>1. CASE u = None
  BY <1>1 DEF Summed
<1>2. CASE u # None /\ ~u.priced
  <2>1. Summed(t, u).cost = None
    BY <1>2 DEF Summed
  <2>2. QED
    BY <2>1 DEF CostCovers
<1>3. CASE u # None /\ u.priced
  <2>1. /\ Summed(t, u).counted = d
        /\ Summed(t, u).cost = (IF t.cost = None THEN {} ELSE t.cost) \cup {u.round}
    BY <1>3 DEF Summed
  <2>2. /\ Len(c) \in Nat /\ DOMAIN c = 1 .. Len(c) /\ Len(d) = z /\ DOMAIN d = 1 .. z
        /\ d[z] = u.round /\ \A k \in 1 .. Len(c) : d[k] = c[k]
    <3>1. c \in Seq(Nat) /\ u.round \in Nat
      BY <1>3 DEF Usages
    <3> DEFINE e == u.round
    <3> HIDE DEF c, e
    <3>2. /\ Append(c, e) \in Seq(Nat) /\ Len(Append(c, e)) = Len(c) + 1
          /\ Append(c, e)[Len(c) + 1] = e
          /\ \A k \in DOMAIN c : Append(c, e)[k] = c[k]
      BY <3>1, CallGrown DEF e
    <3>3. Len(c) \in Nat /\ DOMAIN c = 1 .. Len(c)
      BY <3>1
    <3>4. DOMAIN Append(c, e) = 1 .. Len(Append(c, e))
      BY <3>2
    <3>5. QED
      BY <3>2, <3>3, <3>4 DEF e
  <2> HIDE DEF d, c
  <2>3. ASSUME NEW n \in DOMAIN d, Summed(t, u).cost = {d[k] : k \in n .. Len(d)}
        PROVE  CostCovers(Summed(t, u))
    <3> DEFINE x == Summed(t, u)
    <3>1. x.counted = d /\ n \in DOMAIN d /\ x.cost = {d[k] : k \in n .. Len(d)}
      BY <2>1, <2>3
    <3> HIDE DEF x
    <3>2. n \in DOMAIN x.counted /\ x.cost = {x.counted[k] : k \in n .. Len(x.counted)}
      BY <3>1
    <3>3. CostCovers(x)
      BY <3>2 DEF CostCovers
    <3>4. QED
      BY <3>3 DEF x
  <2>4. CASE t.cost = None
    <3>1. {d[k] : k \in z .. Len(d)} = {u.round}
      BY <2>2
    <3>2. z \in DOMAIN d /\ Summed(t, u).cost = {u.round}
      BY <2>1, <2>2, <2>4
    <3>3. QED
      BY <3>1, <3>2, <2>3
  <2>5. CASE t.cost # None
    <3>1. PICK n \in 1 .. Len(c) : t.cost = {c[k] : k \in n .. Len(c)}
      BY <2>2, <2>5 DEF CostCovers, c
    <3>2. {d[k] : k \in n .. Len(d)} = {c[k] : k \in n .. Len(c)} \cup {u.round}
      <4>1. \A k \in n .. Len(c) : k \in n .. Len(d) /\ d[k] = c[k]
        BY <2>2
      <4>2. \A k \in n .. Len(d) : k \in n .. Len(c) \/ k = z
        <5>1. Len(c) \in Nat /\ Len(d) = Len(c) + 1
          BY <2>2
        <5>2. QED
          BY <5>1
      <4>3. z \in n .. Len(d) /\ d[z] = u.round
        BY <2>2
      <4>4. QED
        BY <4>1, <4>2, <4>3
    <3>3. n \in DOMAIN d
      BY <2>2
    <3>4. QED
      BY <2>1, <2>5, <2>3, <3>1, <3>2, <3>3
  <2>6. QED
    BY <2>4, <2>5
<1>4. QED
  BY <1>1, <1>2, <1>3 DEF Usages

\* What a turn is told of a request whose body has ended.
LEMMA ReturnStep ==
  ASSUME StreamInv, pc = "body", wire = <<>>, closed \in {"ended", "cut"},
         ~Finished.failed, Return(Finished)
  PROVE  StreamInv'
<1> DEFINE g == Dispatch(LastLine(Parser)).got
           f == Flush(g)
<1>1. /\ Handled(g, sent) /\ Len(reply) \in Nat /\ sent \in 0 .. Len(reply)
      /\ bare \in Bare /\ reply \in Replies[bare]
  BY Drained DEF Reading
<1>2. /\ f = Finished /\ ~f.failed
  BY DEF Finished
<1>3. /\ result' = f /\ total' = Summed(total, f.usage) /\ pc' = "idle"
      /\ UNCHANGED <<bare, reply, closed, round>>
  BY <1>2 DEF Return, gateway
<1>4. closed = "ended" => sent = Len(reply)
  BY DEF StreamInv, BodyOK
<1> HIDE DEF g
<1>5. g \in Collected /\ ~g.failed /\ f \in Collected /\ f.usage = g.usage
  <2>1. g \in Collected
    BY <1>1 DEF Handled
  <2>2. f \in Collected /\ f.usage = g.usage /\ (g.failed => f.failed)
    BY <2>1, FlushKeeps
  <2>3. QED
    BY <1>2, <2>1, <2>2
<1>6. f.usage # None => f.usage.round = round
  BY <1>1, <1>5 DEF Handled, CountsOK
<1>7. /\ total.counted \in Seq(Nat) /\ round \in Nat
      /\ \A k \in DOMAIN total.counted : total.counted[k] \in Nat /\ total.counted[k] < round
      /\ \A j, k \in DOMAIN total.counted : total.counted[j] = total.counted[k] => j = k
      /\ CostCovers(total)
  BY DEF StreamInv, CountedOK
<1> DEFINE c == total.counted
           d == total'.counted
<1>8. /\ f.usage = None => d = c
      /\ f.usage # None => d = Append(c, round)
  <2>1. CASE f.usage = None
    BY <2>1, <1>3 DEF Summed
  <2>2. CASE f.usage # None
    <3>1. Summed(total, f.usage).counted = Append(total.counted, f.usage.round)
      BY <2>2 DEF Summed
    <3>2. QED
      BY <2>2, <3>1, <1>3, <1>6
  <2>3. QED
    BY <2>1, <2>2
<1>0. CostCovers(total')
  <2>1. f.usage = None \/ f.usage \in Usages
    BY <1>5 DEF Collected
  <2>2. QED
    BY <2>1, <1>3, <1>6, <1>7, CostSummed
<1>9. /\ CountedOK'
      /\ f.usage # None <=> round \in {d[k] : k \in DOMAIN d}
  <2> HIDE DEF f
  <2>1. CASE f.usage = None
    <3>1. d = c
      BY <1>8, <2>1
    <3>2. QED
      BY <3>1, <2>1, <1>0, <1>3, <1>7 DEF CountedOK
  <2>2. CASE f.usage # None
    <3> HIDE DEF c
    <3>1. /\ c \in Seq(Nat) /\ round \in Nat
          /\ \A k \in DOMAIN c : c[k] \in Nat /\ c[k] < round
          /\ \A j, k \in DOMAIN c : c[j] = c[k] => j = k
      BY <1>7 DEF c
    <3>2. d = Append(c, round)
      BY <1>8, <2>2
    <3> HIDE DEF d
    <3>3. /\ d \in Seq(Nat) /\ d[Len(c) + 1] = round /\ Len(c) + 1 \in DOMAIN d
          /\ \A k \in DOMAIN d : k \in DOMAIN c \/ k = Len(c) + 1
          /\ \A k \in DOMAIN c : d[k] = c[k]
      BY <3>1, <3>2, Grown
    <3>4. \A k \in DOMAIN d : d[k] <= round
      BY <3>1, <3>3
    <3>5. ASSUME NEW j \in DOMAIN d, NEW k \in DOMAIN d, d[j] = d[k]
          PROVE  j = k
      <4>1. CASE j \in DOMAIN c /\ k \in DOMAIN c
        BY <4>1, <3>1, <3>3, <3>5
      <4>2. CASE j = Len(c) + 1 /\ k \in DOMAIN c
        BY <4>2, <3>1, <3>3, <3>5
      <4>3. CASE j \in DOMAIN c /\ k = Len(c) + 1
        BY <4>3, <3>1, <3>3, <3>5
      <4>4. QED
        BY <4>1, <4>2, <4>3, <3>3
    <3>6. CountedOK'
      BY <3>3, <3>4, <3>5, <1>0, <1>3 DEF CountedOK, d
    <3>7. QED
      BY <2>2, <3>3, <3>6
  <2>3. QED
    BY <2>1, <2>2
<1>10. ASSUME closed = "ended"
       PROVE  FramesKept' /\ CallsWhole' /\ UsageCounted'
  <2>1. /\ f.handled = FirstEvents(Len(reply)) /\ CallsOK(f.calls, <<>>, Len(reply))
        /\ f.usage # None <=> \E i \in 1 .. Len(reply) : reply[i].kind = "usage"
    BY <1>1, <1>2, <1>4, <1>10, Concluded
  <2> DEFINE q == f.calls
             C(x) == {{x[k][j] : j \in DOMAIN x[k]} : k \in DOMAIN x}
  <2>2. q \in Seq(Seq(Nat))
    BY <1>5 DEF Collected
  <2>3. OneAfterAnother(reply) => C(q) = Meant /\ Len(q) = Cardinality(Meant)
    <3> HIDE DEF q
    <3>1. QED
      BY <1>1, <2>1, <2>2, MeantCalls DEF q, CallsOK
  <2>4. ASSUME OneAfterAnother(reply), NEW k \in DOMAIN q
        PROVE  Complete(q[k]) \/ ~HasText(q[k])
    <3>1. q[k] \in Seq(Nat) /\ Tells(q[k], Len(reply)) /\ Sealed(q[k])
      BY <2>1, <2>2, <2>4 DEF CallsOK, Together
    <3>2. CASE Closes(q[k])
      BY <3>1, <3>2, <2>4, <1>1, ClosedWhole
    <3>3. CASE ~HasText(q[k])
      BY <3>3
    <3>4. QED
      BY <3>1, <3>2, <3>3 DEF Sealed
  <2> HIDE DEF f
  <2>5. FramesKept'
    BY <1>3, <2>1 DEF FramesKept, FirstEvents
  <2>6. Meant' = Meant
    BY <1>3 DEF Meant
  <2>7. CallsWhole'
    <3>1. CallsWhole' <=>
            (CameWhole' /\ OneAfterAnother(reply') =>
               /\ C(result'.calls) = Meant' /\ Len(result'.calls) = Cardinality(Meant')
               /\ \A k \in DOMAIN result'.calls :
                    Complete(result.calls[k])' \/ ~HasText(result.calls[k])')
      BY DEF CallsWhole
    <3>2. result'.calls = q /\ reply' = reply
      BY <1>3
    <3> HIDE DEF C, q
    <3>3. ASSUME OneAfterAnother(reply)
          PROVE  \A k \in DOMAIN q : Complete(result.calls[k])' \/ ~HasText(result.calls[k])'
      BY <3>2, <3>3, <2>4 DEF Complete, HasText
    <3>4. OneAfterAnother(reply) =>
            C(result'.calls) = Meant' /\ Len(result'.calls) = Cardinality(Meant')
      BY <3>2, <2>3, <2>6
    <3>5. QED
      BY <3>1, <3>2, <3>3, <3>4
  <2>8. UsageCounted'
    <3>1. \A j, k \in DOMAIN d : d[j] = d[k] => j = k
      BY <1>9 DEF CountedOK
    <3>2. round' \in {d[k] : k \in DOMAIN d}
            <=> \E i \in 1 .. Len(reply') : reply'[i].kind = "usage"
      BY <1>3, <1>9, <2>1
    <3>3. QED
      BY <3>1, <3>2, <1>0 DEF UsageCounted, CostCovers
  <2>9. QED
    BY <2>5, <2>7, <2>8
<1>11. ASSUME closed # "ended"
       PROVE  FramesKept' /\ CallsWhole' /\ UsageCounted'
  <2>1. ~CameWhole'
    BY <1>3, <1>11 DEF CameWhole
  <2>2. UsageCounted'
    BY <2>1, <1>0, <1>9 DEF UsageCounted, CountedOK, CostCovers
  <2>3. QED
    BY <2>1, <2>2 DEF FramesKept, CallsWhole
<1>12. ResultOK'
  BY <1>3, <1>10, <1>11 DEF ResultOK
<1>13. QED
  BY <1>1, <1>3, <1>7, <1>9, <1>12 DEF StreamInv

\* The end of a body fails the request or answers it.
LEMMA EndOfBodyStep ==
  ASSUME StreamInv, EndOfBody
  PROVE  StreamInv'
<1>1. CASE Finished.failed
  BY <1>1, FailStep DEF EndOfBody
<1>2. CASE ~Finished.failed
  BY <1>2, ReturnStep DEF EndOfBody
<1>3. QED
  BY <1>1, <1>2

\* The token is not looked at before the next piece.
LEMMA CancelStep ==
  ASSUME StreamInv, Cancel \/ UNCHANGED vars
  PROVE  StreamInv'
<1>1. UNCHANGED <<bare, pc, reply, sent, wire, closed, buffer, pending, got, result, round, total>>
  BY DEF Cancel, vars, gateway, parser
<1>2. CountedOK' /\ ResultOK'
  BY <1>1, ResultSame DEF StreamInv
<1>3. pc' = "body" => BodyOK'
  BY <1>1, BodySame DEF StreamInv
<1>4. Fresh => Fresh'
  BY <1>1 DEF Fresh
<1>5. QED
  BY <1>1, <1>2, <1>3, <1>4 DEF StreamInv

\* A turn begins with no request.
LEMMA InitStep ==
  ASSUME Init
  PROVE  StreamInv
<1>1. CountedOK
  BY DEF Init, CountedOK, CostCovers
<1>2. QED
  BY <1>1 DEF Init, StreamInv, ResultOK

\* Every step keeps the invariant.
LEMMA NextStep ==
  ASSUME StreamInv, [Next]_vars
  PROVE  StreamInv'
<1>1. CASE Chat
  BY <1>1, ChatStep
<1>2. CASE Advance
  BY <1>2, AdvanceStep
<1>3. CASE Refused \/ Timeout
  BY <1>3, FailStep DEF Refused, Timeout
<1>4. ASSUME NEW r \in Replies[bare], NEW f \in {"sized", "close"}, NEW ok \in BOOLEAN,
             Answer(r, f, ok)
      PROVE  StreamInv'
  BY <1>4, AnswerStep
<1>5. CASE Send
  BY <1>5, SendStep
<1>6. CASE SendEnd
  BY <1>6, SendEndStep
<1>7. CASE Break
  BY <1>7, BreakStep
<1>8. CASE OnPiece
  BY <1>8, OnPieceStep
<1>9. CASE EndOfBody
  BY <1>9, EndOfBodyStep
<1>10. CASE Cancel \/ UNCHANGED vars
  BY <1>10, CancelStep
<1>11. QED
  BY <1>1, <1>2, <1>3, <1>4, <1>5, <1>6, <1>7, <1>8, <1>9, <1>10 DEF Next

-----------------------------------------------------------------------------
(* Theorems.                                                               *)

\* What was read, what is left to read and what the last request told the turn fit together
\* at every point of a turn.
THEOREM StreamHeld == Spec => []StreamInv
<1>1. Init => StreamInv
  BY InitStep
<1>2. StreamInv /\ [Next]_vars => StreamInv'
  BY NextStep
<1>3. QED
  BY <1>1, <1>2, PTL DEF Spec

\* Each event of a reply that came whole is handled once and in order, however the gateway
\* frames it and wherever the reads cut it (SseParser::Feed, HandleLine, Dispatch, Finish).
THEOREM FramesInOrder == Spec => []FramesKept
<1>1. StreamInv => FramesKept
  BY DEF StreamInv, ResultOK, FramesKept, CameWhole
<1>2. QED
  BY <1>1, StreamHeld, PTL

\* Of a gateway that sends one call after another, Chat returns the calls it meant, each
\* once, and whole or, where the cap came before its arguments, without any
\* (FlushPendingToolCalls).
THEOREM CallsHeld == Spec => []CallsWhole
<1>1. StreamInv => CallsWhole
  BY DEF StreamInv, ResultOK, CallsWhole, CameWhole
<1>2. QED
  BY <1>1, StreamHeld, PTL

\* A turn counts the rounds whose replies carried counts, each once, and a cost is that of
\* the last of them (ResetAccumulators, CallProvider).
THEOREM UsageHeld == Spec => []UsageCounted
<1>1. StreamInv => UsageCounted
  <2>1. StreamInv /\ result # None => UsageCounted
    BY DEF StreamInv, ResultOK
  <2>2. StreamInv /\ result = None => UsageCounted
    BY DEF StreamInv, CountedOK, UsageCounted, CameWhole, CostCovers
  <2>3. QED
    BY <2>1, <2>2
<1>2. QED
  BY <1>1, StreamHeld, PTL
=============================================================================
