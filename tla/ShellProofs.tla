----------------------------- MODULE ShellProofs -----------------------------
(***************************************************************************)
(* What execute_bash says of a command, for every command, output, budget, *)
(* page size and number of runs, pages and starts: the verdict, the        *)
(* numbers on the pages, what their cursors reach, which run a cursor      *)
(* names, and which pages a request leaves out.                            *)
(***************************************************************************)
EXTENDS Shell, FiniteSetTheorems, SequenceTheorems, TLAPS

-----------------------------------------------------------------------------
(* Numbers.                                                                *)

\* A set of numbers has a least one.
LEMMA Least ==
  ASSUME NEW S \in SUBSET Nat, S # {}
  PROVE  \E n \in S : \A m \in S : n <= m
<1> DEFINE R == {ss \in Nat \X Nat : ss[1] < ss[2]}
<1>1. R = OpToRel(<, Nat)
  BY DEF OpToRel
<1>2. IsWellFoundedOn(R, Nat)
  BY <1>1, NatLessThanWellFounded
<1>3. PICK n \in S : \A m \in S : ~(<<m, n>> \in R)
  BY <1>2, WFMin
<1>4. ASSUME NEW m \in S
      PROVE  n <= m
  <2>1. ~(m < n)
    BY <1>3
  <2>2. QED
    BY <2>1
<1>5. QED
  BY <1>4

\* Min is the least number of a set.
LEMMA MinIs ==
  ASSUME NEW S \in SUBSET Nat, S # {}
  PROVE  Min(S) \in S /\ \A m \in S : Min(S) <= m
BY Least DEF Min

\* Max is the greatest number of a bounded set.
LEMMA MaxIs ==
  ASSUME NEW S \in SUBSET Nat, S # {}, NEW b \in Nat, \A m \in S : m <= b
  PROVE  Max(S) \in S /\ \A m \in S : m <= Max(S)
<1> DEFINE T == {b - m : m \in S}
<1>0. \A m \in S : b - m \in Nat
  OBVIOUS
<1>1. T \in SUBSET Nat /\ T # {}
  BY <1>0
<1>2. PICK t \in T : \A u \in T : t <= u
  BY <1>1, Least
<1>3. PICK n \in S : t = b - n
  BY <1>2
<1>4. ASSUME NEW m \in S
      PROVE  m <= n
  <2>1. b - n <= b - m
    BY <1>2, <1>3
  <2>2. QED
    BY <2>1
<1>5. QED
  BY <1>4 DEF Max

\* The smaller of two numbers.
LEMMA MinOfTwo ==
  ASSUME NEW a \in Int, NEW b \in Int
  PROVE  Min({a, b}) = IF a <= b THEN a ELSE b
<1> DEFINE m == IF a <= b THEN a ELSE b
<1>1. m \in {a, b} /\ \A y \in {a, b} : m <= y
  OBVIOUS
<1>2. ASSUME NEW x \in {a, b}, \A y \in {a, b} : x <= y
      PROVE  x = m
  BY <1>2
<1> HIDE DEF m
<1>3. Min({a, b}) = m
  BY <1>1, <1>2 DEF Min
<1>4. QED
  BY <1>3 DEF m

-----------------------------------------------------------------------------
(* The buffers.                                                            *)

Ids == [generation : Generations, ordinal : Nat]
Extents == [lines : Nat, retained : Nat, from_end : BOOLEAN, begins : Nat]
AnyBuffer ==
  [id : Ids, source : Sources, rank : Nat, run : Nat, verdict : [ok : BOOLEAN], extent : Extents,
   bytes : Int, whole : BOOLEAN]

\* A buffer whose verdict and whose line numbers are what they say.
Honest == {b \in AnyBuffer : /\ b.verdict.ok => b.whole
                             /\ b.extent.begins = Skipped(b.extent) + 1}

\* One buffer is never evicted.
LEMMA OneStays ==
  ASSUME NEW bs, Len(bs) = 1
  PROVE  ~Evicted(bs)
<1>1. Evicted(bs) => Len(bs) > Max({1, retain_buffers}) \/ Len(bs) > 1
  BY Zenon DEF Evicted
<1>2. Max({1, retain_buffers}) >= 1 /\ Max({1, retain_buffers}) \in Nat
  <2>1. retain_buffers \in Nat
    BY ShellAssumption DEF ShellAssumption
  <2>2. \A m \in {1, retain_buffers} : m <= 1 + retain_buffers
    BY <2>1
  <2>3. QED
    BY <2>1, <2>2, MaxIs
<1>3. QED
  BY <1>1, <1>2

\* What Store leaves is the end of what it had, the buffer it stored included.
LEMMA RetainedSuffix ==
  ASSUME NEW S, NEW bs \in Seq(S), bs # <<>>
  PROVE  /\ Retained(bs) \in Seq(S)
         /\ \A i \in DOMAIN Retained(bs) : \E k \in DOMAIN bs : Retained(bs)[i] = bs[k]
<1> DEFINE D == {n \in 0 .. Len(bs) - 1 : ~Evicted(SubSeq(bs, n + 1, Len(bs)))}
           d == Min(D)
<1>1. Len(bs) \in Nat /\ Len(bs) >= 1
  BY EmptySeq
<1>2. Len(SubSeq(bs, Len(bs), Len(bs))) = 1
  BY <1>1
<1>3. Len(bs) - 1 \in D
  <2>1. ~Evicted(SubSeq(bs, (Len(bs) - 1) + 1, Len(bs)))
    <3>1. (Len(bs) - 1) + 1 = Len(bs)
      BY <1>1
    <3>2. QED
      BY <1>2, <3>1, OneStays
  <2>2. QED
    BY <1>1, <2>1
<1>4. d \in 0 .. Len(bs) - 1
  <2>1. D \subseteq 0 .. Len(bs) - 1 /\ D # {}
    BY <1>3
  <2> HIDE DEF D
  <2>3. D \in SUBSET Nat
    BY <1>1, <2>1
  <2>2. QED
    BY <2>1, <2>3, MinIs
<1>5. Retained(bs) = SubSeq(bs, d + 1, Len(bs))
  BY DEF Retained
<1> HIDE DEF d
<1>6. QED
  BY <1>1, <1>4, <1>5

-----------------------------------------------------------------------------
(* The capture.                                                            *)

Captures == [lo : Nat, hi : Nat, truncated : BOOLEAN]

\* A capture of the first g bytes: it ends with them, or begins with them.  One that ends with
\* them and holds nothing ends with a line.
Holds(k, g) ==
  /\ k \in Captures /\ k.lo <= k.hi /\ k.hi <= g
  /\ IF call.tail THEN k.hi = g /\ (k.lo = k.hi /\ k.hi > 0 => out[k.hi] = "n")
                  ELSE k.lo = 0

\* The newlines of a range are some of its places.
LEMMA NewlinesIn ==
  ASSUME NEW lo \in Nat, NEW hi \in Nat
  PROVE  /\ Newlines(lo, hi) \in SUBSET Nat /\ IsFiniteSet(Newlines(lo, hi))
         /\ \A p \in Newlines(lo, hi) : lo < p /\ p <= hi /\ out[p] = "n"
         /\ Cardinality(Newlines(lo, hi)) \in Nat
<1>1. /\ Newlines(lo, hi) \in SUBSET Nat
      /\ \A p \in Newlines(lo, hi) : lo < p /\ p <= hi /\ out[p] = "n"
  BY DEF Newlines
<1>2. IsFiniteSet(Newlines(lo, hi))
  BY <1>1, FS_BoundedSetOfNaturals
<1>3. QED
  BY <1>1, <1>2, FS_CardinalityType

\* DropToBudget leaves the newest whole lines, or a part of the last one.
LEMMA DropHolds ==
  ASSUME NEW k, NEW g \in Nat, call.tail, Holds(k, g)
  PROVE  Holds(DropToBudget(k), g)
<1> DEFINE cut == k.hi - capture_bytes
           ends == Newlines(cut, k.hi)
           lo == IF ends = {} THEN cut ELSE Min(ends)
<1>1. capture_bytes \in Nat /\ capture_bytes > 0
  BY ShellAssumption DEF ShellAssumption
<1>2. CASE k.hi - k.lo <= capture_bytes
  BY <1>2 DEF DropToBudget
<1>3. CASE ~(k.hi - k.lo <= capture_bytes)
  <2>1. k.lo \in Nat /\ k.hi \in Nat /\ cut \in Nat /\ k.lo < cut /\ cut < k.hi /\ k.hi = g
    BY <1>1, <1>3 DEF Holds, Captures
  <2>2. DropToBudget(k) = [k EXCEPT !.lo = lo, !.truncated = TRUE]
    BY <1>3 DEF DropToBudget
  <2>3. /\ \A p \in ends : cut < p /\ p <= k.hi /\ out[p] = "n"
        /\ ends \in SUBSET Nat
    BY <2>1, NewlinesIn
  <2> HIDE DEF cut, ends
  <2>4. lo \in Nat /\ lo <= k.hi /\ (lo = k.hi => out[k.hi] = "n")
    <3>1. CASE ends = {}
      BY <2>1, <3>1
    <3>2. CASE ends # {}
      <4>1. Min(ends) \in ends
        BY <2>3, <3>2, MinIs
      <4>2. QED
        BY <2>1, <2>3, <3>2, <4>1
    <3>3. QED
      BY <3>1, <3>2
  <2> HIDE DEF lo
  <2>5. QED
    BY <2>1, <2>2, <2>4 DEF Holds, Captures
<1>4. QED
  BY <1>2, <1>3

\* A read is added to a capture of what came before it.
LEMMA CaptureHolds ==
  ASSUME NEW k, NEW g \in Nat, NEW n \in Nat, n > 0, call.tail \in BOOLEAN, Holds(k, g)
  PROVE  Holds(Capture(k, n), g + n)
<1>1. capture_bytes \in Nat /\ capture_bytes > 0
  BY ShellAssumption DEF ShellAssumption
<1>2. k.hi \in Nat /\ k.lo \in Nat /\ k \in Captures /\ k.lo <= k.hi /\ k.hi <= g
  BY DEF Holds, Captures
<1>3. CASE call.tail
  <2> DEFINE more == [k EXCEPT !.hi = @ + n]
  <2>1. Holds(more, g + n)
    BY <1>2, <1>3 DEF Holds, Captures
  <2>2. Capture(k, n) \in {more, DropToBudget(more)}
    BY <1>3 DEF Capture, AppendEnd
  <2> HIDE DEF more
  <2>3. QED
    BY <1>3, <2>1, <2>2, DropHolds
<1>4. CASE ~call.tail
  <2> DEFINE h == Min({k.hi + n, capture_bytes})
             c == k.truncated \/ k.hi + n > capture_bytes
  <2>1. Capture(k, n) = [k EXCEPT !.hi = h, !.truncated = c]
    BY <1>4 DEF Capture, AppendHead
  <2>2. h = IF k.hi + n <= capture_bytes THEN k.hi + n ELSE capture_bytes
    BY <1>1, <1>2, MinOfTwo
  <2> HIDE DEF h
  <2>3. h \in Nat /\ h <= g + n /\ c \in BOOLEAN
    BY <1>1, <1>2, <2>2
  <2> HIDE DEF c
  <2>4. Capture(k, n) \in Captures /\ Capture(k, n).hi = h /\ Capture(k, n).lo = k.lo
    BY <1>2, <2>1, <2>3 DEF Captures
  <2>5. QED
    BY <1>2, <1>4, <2>3, <2>4 DEF Holds
<1>5. QED
  BY <1>3, <1>4

\* What is taken of a capture is one.
LEMMA TakeHolds ==
  ASSUME NEW k, NEW g \in Nat, call.tail \in BOOLEAN, Holds(k, g)
  PROVE  Holds(Take(k), g)
<1>1. k.hi \in Nat /\ k.truncated \in BOOLEAN
  BY DEF Holds, Captures
<1>2. CASE ~k.truncated
  BY <1>2 DEF Take
<1>3. CASE k.truncated /\ call.tail
  BY <1>3, DropHolds DEF Take
<1>4. CASE k.truncated /\ ~call.tail
  <2> DEFINE ends == Newlines(0, k.hi)
             h == IF ends = {} THEN k.hi ELSE Max(ends)
  <2>1. Take(k) = [k EXCEPT !.hi = h]
    BY <1>4 DEF Take
  <2>2. ends \in SUBSET Nat /\ \A p \in ends : p <= k.hi
    BY <1>1, NewlinesIn
  <2> HIDE DEF ends
  <2>3. h \in Nat /\ h <= k.hi
    <3>1. CASE ends = {}
      BY <1>1, <3>1
    <3>2. CASE ends # {}
      <4>1. Max(ends) \in ends
        BY <1>1, <2>2, <3>2, MaxIs
      <4>2. QED
        BY <2>2, <3>2, <4>1
    <3>3. QED
      BY <3>1, <3>2
  <2> HIDE DEF h
  <2>4. QED
    BY <1>4, <2>1, <2>3 DEF Holds, Captures
<1>5. QED
  BY <1>1, <1>2, <1>3, <1>4

\* The lines before a place and those after it are all the lines.
LEMMA LinesAdd ==
  ASSUME NEW lo \in Nat, NEW hi \in Nat, lo <= hi
  PROVE  Cardinality(Newlines(0, hi)) = Cardinality(Newlines(0, lo)) + Cardinality(Newlines(lo, hi))
<1> DEFINE a == Newlines(0, lo)
           b == Newlines(lo, hi)
<1>1. Newlines(0, hi) = a \cup b /\ a \cap b = {}
  BY DEF Newlines
<1>2. /\ IsFiniteSet(a) /\ IsFiniteSet(b) /\ Cardinality(a) \in Nat /\ Cardinality(b) \in Nat
  BY NewlinesIn
<1> HIDE DEF a, b
<1>3. Cardinality(a \cup b) = Cardinality(a) + Cardinality(b) - Cardinality(a \cap b)
  BY <1>2, FS_Union
<1>4. Cardinality({}) = 0
  BY FS_EmptySet
<1>5. Cardinality(Newlines(0, hi)) = Cardinality(a \cup b) /\ Cardinality(a \cap b) = 0
  BY <1>1, <1>4, Zenon
<1>6. Cardinality(Newlines(0, hi)) = Cardinality(a) + Cardinality(b)
  BY <1>2, <1>3, <1>5
<1>7. QED
  BY <1>6 DEF a, b

\* The first line a capture holds is the one behind those that were skipped.
LEMMA ExtentTrue ==
  ASSUME NEW k, got \in Nat, call.tail \in BOOLEAN, Holds(k, got)
  PROVE  Extent(k) \in Extents /\ Extent(k).begins = Skipped(Extent(k)) + 1
<1> DEFINE before == Cardinality(Newlines(0, k.lo))
           within == Cardinality(Newlines(k.lo, k.hi))
           all == Cardinality(Newlines(0, got))
<1>1. k.lo \in Nat /\ k.hi \in Nat /\ k.lo <= k.hi /\ k.hi <= got
  BY DEF Holds, Captures
<1>2. before \in Nat /\ within \in Nat /\ all \in Nat
  BY <1>1, NewlinesIn
<1>3. /\ Extent(k) = [lines |-> CountLines(0, got), retained |-> CountLines(k.lo, k.hi),
                      from_end |-> call.tail, begins |-> before + 1]
      /\ CountLines(0, got) = all + (IF got > 0 /\ out[got] # "n" THEN 1 ELSE 0)
      /\ CountLines(k.lo, k.hi) = within + (IF k.hi > k.lo /\ out[k.hi] # "n" THEN 1 ELSE 0)
  BY DEF Extent, CountLines
<1>4. k.lo = k.hi => within = 0
  <2> SUFFICES ASSUME k.lo = k.hi
               PROVE  Newlines(k.lo, k.hi) = {}
    BY FS_EmptySet
  <2>1. \A p \in Newlines(k.lo, k.hi) : p \in Nat /\ k.lo < p /\ p <= k.hi
    BY <1>1, NewlinesIn
  <2>2. QED
    BY <1>1, <2>1
<1>5. k.hi = got => all = before + within
  BY <1>1, LinesAdd
<1>6. k.lo = 0 => before = 0
  <2> SUFFICES ASSUME k.lo = 0
               PROVE  Newlines(0, 0) = {}
    BY FS_EmptySet
  <2>1. QED
    BY NewlinesIn
<1> HIDE DEF before, within, all
<1>7. CountLines(0, got) \in Nat /\ CountLines(k.lo, k.hi) \in Nat
  BY <1>2, <1>3
<1>8. call.tail => CountLines(0, got) = before + CountLines(k.lo, k.hi)
  BY <1>1, <1>2, <1>3, <1>4, <1>5 DEF Holds
<1>9. ~call.tail => before = 0
  BY <1>6 DEF Holds
<1>10. /\ Extent(k).lines = CountLines(0, got) /\ Extent(k).retained = CountLines(k.lo, k.hi)
       /\ Extent(k).from_end = call.tail /\ Extent(k).begins = before + 1
       /\ Extent(k) \in Extents
  BY <1>2, <1>3, <1>7 DEF Extents
<1>11. QED
  BY <1>2, <1>7, <1>8, <1>9, <1>10 DEF Skipped

-----------------------------------------------------------------------------
(* The pages the conversation and the pager know of.                       *)

PageOrigin == [source : Sources, buffer : Ids, rank : Nat, run : Nat]

OriginOfBuffer(b) == OriginOf(Envelope(b), b.run)

Known == {transcript[i] : i \in DOMAIN transcript}
           \cup {OriginOfBuffer(buffers[i]) : i \in DOMAIN buffers}

AtWork == pc \in {"reading", "waiting"}

\* A command in progress: what was read of it, and that all was unless it was stopped.
RunOK ==
  /\ pc \in {"idle", "asking", "reading", "waiting"}
  /\ pc # "idle" => call \in [source : Sources, tail : BOOLEAN]
  /\ AtWork => /\ out \in Seq({"n", "c"}) /\ got \in Nat /\ got <= Len(out)
               /\ Holds(kept, got)
  /\ pc = "waiting" /\ ~stopped => got = Len(out)

\* The buffers, the pages and the counters they are numbered with.
PagerOK ==
  /\ buffers \in Seq(Honest) /\ transcript \in Seq(PageOrigin)
  /\ next_rank \in Nat /\ next_ordinal \in Nat /\ runs \in Nat /\ generation \in Generations
  /\ collided \in BOOLEAN

\* Ranks are in the order of the runs, also over restarts, and the next of each is new.
RanksOK ==
  /\ \A x, y \in Known : x.rank < y.rank <=> x.run < y.run
  /\ \A x \in Known : x.rank < next_rank /\ x.run <= runs /\ (AtWork => x.run < runs)

\* An id names one run, and the next id none.
IdsOK ==
  ~collided =>
    /\ \A x, y \in Known : x.buffer = y.buffer => x.run = y.run
    /\ \A x \in Known : x.buffer.generation = generation => x.buffer.ordinal < next_ordinal

ShellInv == RunOK /\ PagerOK /\ RanksOK /\ IdsOK

\* Nothing of a command is touched when a page is read or the conversation rewound.
LEMMA RunStep ==
  ASSUME RunOK, [Next]_vars
  PROVE  RunOK'
<1> USE DEF run, pager, others
<1>0. /\ Risk \in [Sources -> {"refused", "asked", "run"}]
      /\ Prints \in [Sources -> SUBSET Seq({"n", "c"})]
  BY ShellAssumption DEF ShellAssumption
<1>1. ASSUME UNCHANGED <<pc, call, out, got, kept, stopped>>
      PROVE  RunOK'
  BY <1>1 DEF RunOK, AtWork, Holds
<1>2. ASSUME pc' = "idle"
      PROVE  RunOK'
  BY <1>2 DEF RunOK, AtWork
<1>3. ASSUME NEW s \in Sources, NEW tail \in BOOLEAN, Spawn(s, tail)
      PROVE  RunOK'
  <2>1. /\ pc' = "reading" /\ call' = [source |-> s, tail |-> tail] /\ out' \in Prints[s]
        /\ got' = 0 /\ kept' = [lo |-> 0, hi |-> 0, truncated |-> FALSE]
    BY <1>3 DEF Spawn, NoCapture
  <2>2. out' \in Seq({"n", "c"}) /\ Len(out') \in Nat
    BY <1>0, <2>1
  <2>3. call' \in [source : Sources, tail : BOOLEAN]
    BY <2>1
  <2>4. /\ kept' \in Captures /\ kept'.lo = 0 /\ kept'.hi = 0
    BY <2>1 DEF Captures
  <2>5. Holds(kept, got)'
    BY <2>1, <2>4 DEF Holds
  <2>6. QED
    BY <2>1, <2>2, <2>3, <2>5 DEF RunOK, AtWork
<1>4. ASSUME NEW s \in Sources, NEW tail \in BOOLEAN, Ask(s, tail)
      PROVE  RunOK'
  BY <1>4 DEF Ask, RunOK, AtWork
<1>5. ASSUME NEW n \in 1 .. Len(out) - got, pc = "reading", Consume(n)
      PROVE  RunOK'
  <2>1. /\ out \in Seq({"n", "c"}) /\ got \in Nat /\ got <= Len(out) /\ Holds(kept, got)
        /\ call \in [source : Sources, tail : BOOLEAN] /\ call.tail \in BOOLEAN
    BY <1>5 DEF RunOK, AtWork
  <2>2. n \in Nat /\ n > 0 /\ got + n \in Nat /\ got + n <= Len(out)
    BY <2>1
  <2>3. Holds(Capture(kept, n), got + n)
    BY <2>1, <2>2, CaptureHolds
  <2>4. /\ got' = got + n /\ kept' = Capture(kept, n) /\ UNCHANGED <<call, out>>
        /\ pc' = "reading" \/ (pc' = "waiting" /\ stopped' = TRUE)
    BY <1>5 DEF Consume, BreakStopped
  <2>5. Holds(kept, got)'
    BY <2>3, <2>4 DEF Holds
  <2>6. QED
    BY <2>1, <2>2, <2>4, <2>5 DEF RunOK, AtWork
<1>6. CASE ReadEnd \/ FgetsEnd \/ PollTick
  <2>1. /\ pc = "reading" /\ UNCHANGED <<call, out, got, kept>>
        /\ pc' = "waiting" /\ (stopped' = TRUE \/ got = Len(out))
    BY <1>6 DEF ReadEnd, FgetsEnd, PollTick, BreakStopped
  <2>2. Holds(kept, got)' <=> Holds(kept, got)
    BY <2>1 DEF Holds
  <2>3. QED
    BY <2>1, <2>2 DEF RunOK, AtWork
<1>7. CASE UNCHANGED vars
  BY <1>1, <1>7 DEF vars
<1>8. CASE Next
  <2>1. ASSUME NEW s \in Sources, NEW tail \in BOOLEAN,
               Execute(s, tail) \/ Ask(s, tail) \/ SpawnFails(s, tail)
        PROVE  RunOK'
    BY <1>1, <1>3, <1>4, <2>1 DEF Execute, SpawnFails
  <2>2. CASE Approve
    <3>1. call.source \in Sources /\ call.tail \in BOOLEAN /\ Spawn(call.source, call.tail)
      BY <2>2 DEF Approve, RunOK
    <3>2. QED
      BY <1>3, <3>1
  <2>3. CASE Reject \/ Reap
    BY <1>2, <2>3 DEF Reject, Reap
  <2>4. ASSUME NEW n \in 1 .. Len(out) - got, ReadSome(n) \/ FgetsSome(n)
        PROVE  RunOK'
    BY <1>5, <2>4 DEF ReadSome, FgetsSome
  <2>5. ASSUME NEW how, CloseOutput \/ End(how) \/ Stop
        PROVE  RunOK'
    BY <1>1, <2>5 DEF CloseOutput, End, Stop
  <2>6. ASSUME NEW id, NEW line, ReadAt(id, line) \/ Rewind(line)
        PROVE  RunOK'
    BY <1>1, <2>6 DEF ReadAt, Rewind
  <2>7. ASSUME NEW n, NEW g, Restart(n, g)
        PROVE  RunOK'
    BY <1>2, <2>7 DEF Restart
  <2>8. QED
    BY <1>6, <1>8, <2>1, <2>2, <2>3, <2>4, <2>5, <2>6, <2>7 DEF Next
<1>9. QED
  BY <1>7, <1>8

\* What a buffer says of its page.
LEMMA OriginTyped ==
  ASSUME NEW b \in AnyBuffer
  PROVE  /\ OriginOfBuffer(b) \in PageOrigin
         /\ OriginOfBuffer(b).buffer = b.id /\ OriginOfBuffer(b).rank = b.rank
         /\ OriginOfBuffer(b).run = b.run
BY DEF OriginOfBuffer, OriginOf, Envelope, PageOrigin, AnyBuffer

\* A buffer that is stored, and its page, are one that was not known and those that were.
LEMMA StoreKnown ==
  ASSUME PagerOK, NEW b \in Honest, RunAndPage(b)
  PROVE  /\ buffers' \in Seq(Honest) /\ transcript' \in Seq(PageOrigin)
         /\ Known' \subseteq Known \cup {OriginOfBuffer(b)}
<1> DEFINE bs == Append(buffers, b)
<1>1. /\ buffers' = Retained(bs) /\ transcript' = Append(transcript, OriginOfBuffer(b))
  BY DEF RunAndPage, Store, PageResult, OriginOfBuffer
<1>2. /\ bs \in Seq(Honest) /\ bs # <<>>
      /\ \A k \in DOMAIN bs : k \in DOMAIN buffers \/ bs[k] = b
      /\ \A k \in DOMAIN buffers : bs[k] = buffers[k]
  BY DEF PagerOK
<1> HIDE DEF bs
<1>3. /\ buffers' \in Seq(Honest)
      /\ \A i \in DOMAIN buffers' : \E k \in DOMAIN bs : buffers'[i] = bs[k]
  BY <1>1, <1>2, RetainedSuffix
<1>4. OriginOfBuffer(b) \in PageOrigin
  BY OriginTyped DEF Honest
<1>5. /\ transcript' \in Seq(PageOrigin)
      /\ \A i \in DOMAIN transcript' : \/ i \in DOMAIN transcript /\ transcript'[i] = transcript[i]
                                       \/ transcript'[i] = OriginOfBuffer(b)
  BY <1>1, <1>4 DEF PagerOK
<1>6. \A i \in DOMAIN buffers' : \/ \E k \in DOMAIN buffers : buffers'[i] = buffers[k]
                                 \/ buffers'[i] = b
  BY <1>2, <1>3
<1>7. Known' \subseteq Known \cup {OriginOfBuffer(b)}
  <2> SUFFICES ASSUME NEW x \in Known'
               PROVE  x \in Known \cup {OriginOfBuffer(b)}
    OBVIOUS
  <2>1. CASE \E i \in DOMAIN transcript' : x = transcript'[i]
    BY <1>5, <2>1 DEF Known
  <2>2. CASE \E i \in DOMAIN buffers' : x = OriginOfBuffer(buffers'[i])
    BY <1>6, <2>2 DEF Known
  <2>3. QED
    BY <2>1, <2>2 DEF Known, OriginOfBuffer, OriginOf, Envelope
<1>8. QED
  BY <1>3, <1>5, <1>7

\* What is known has the shape of a page.
LEMMA KnownTyped ==
  ASSUME PagerOK
  PROVE  \A x \in Known : x \in PageOrigin /\ x.run \in Nat /\ x.rank \in Nat /\ x.buffer \in Ids
<1>1. \A i \in DOMAIN transcript : transcript[i] \in PageOrigin
  BY DEF PagerOK
<1>2. \A i \in DOMAIN buffers : OriginOfBuffer(buffers[i]) \in PageOrigin
  <2>1. \A i \in DOMAIN buffers : buffers[i] \in Honest
    BY DEF PagerOK
  <2>2. QED
    BY <2>1, OriginTyped DEF Honest
<1>3. QED
  BY <1>1, <1>2 DEF Known, PageOrigin

\* A step that brings no page nobody knew, and gives no number back.
LEMMA KnownKept ==
  ASSUME ShellInv, Known' \subseteq Known, buffers' \in Seq(Honest),
         transcript' \in Seq(PageOrigin),
         UNCHANGED <<next_ordinal, next_rank, generation, collided>>,
         \/ runs' = runs /\ (AtWork' => AtWork)
         \/ runs' = runs + 1
  PROVE  PagerOK' /\ RanksOK' /\ IdsOK'
<1>1. PagerOK'
  BY DEF ShellInv, PagerOK
<1>2. \A x \in Known : x.run \in Nat
  BY KnownTyped DEF ShellInv
<1>3. \A x \in Known : x.rank < next_rank /\ x.run <= runs' /\ (AtWork' => x.run < runs')
  BY <1>2 DEF ShellInv, RanksOK, PagerOK
<1>4. RanksOK'
  BY <1>3 DEF ShellInv, RanksOK
<1>5. IdsOK'
  BY DEF ShellInv, IdsOK
<1>6. QED
  BY <1>1, <1>4, <1>5

\* A run that is stored has the next rank, the next id and a number above all others.
LEMMA StoreStep ==
  ASSUME ShellInv, NEW b \in Honest, RunAndPage(b), UNCHANGED collided,
         b.id = BufferId, b.rank = next_rank, b.run <= runs', runs' \in Nat, pc' = "idle",
         \A x \in Known : x.run < b.run
  PROVE  PagerOK' /\ RanksOK' /\ IdsOK'
<1> DEFINE o == OriginOfBuffer(b)
<1>0. PagerOK /\ RanksOK /\ IdsOK
  BY DEF ShellInv
<1>1. /\ buffers' \in Seq(Honest) /\ transcript' \in Seq(PageOrigin)
      /\ Known' \subseteq Known \cup {o}
  BY <1>0, StoreKnown
<1>2. /\ next_ordinal' = next_ordinal + 1 /\ next_rank' = next_rank + 1 /\ generation' = generation
  BY DEF RunAndPage, Store
<1>3. o \in PageOrigin /\ o.buffer = b.id /\ o.rank = next_rank /\ o.run = b.run /\ b.run \in Nat
  BY OriginTyped DEF Honest, AnyBuffer
<1>4. \A x \in Known : x \in PageOrigin /\ x.run \in Nat /\ x.rank \in Nat /\ x.buffer \in Ids
  BY <1>0, KnownTyped
<1> HIDE DEF o
<1>5. PagerOK'
  BY <1>0, <1>1, <1>2 DEF PagerOK
<1>6. RanksOK'
  <2>1. \A x, y \in Known \cup {o} : x.rank < y.rank <=> x.run < y.run
    BY <1>0, <1>3, <1>4 DEF RanksOK, PagerOK
  <2>2. \A x \in Known \cup {o} : x.rank < next_rank' /\ x.run <= runs'
    BY <1>0, <1>2, <1>3, <1>4 DEF RanksOK, PagerOK
  <2>3. ~AtWork'
    BY DEF AtWork
  <2>4. QED
    BY <1>1, <2>1, <2>2, <2>3 DEF RanksOK
<1>7. IdsOK'
  <2> SUFFICES ASSUME ~collided
               PROVE  /\ \A x, y \in Known \cup {o} : x.buffer = y.buffer => x.run = y.run
                      /\ \A x \in Known \cup {o} :
                           x.buffer.generation = generation => x.buffer.ordinal < next_ordinal + 1
    BY <1>1, <1>2 DEF IdsOK
  <2>1. o.buffer.generation = generation /\ o.buffer.ordinal = next_ordinal
    BY <1>3 DEF BufferId
  <2>2. \A x \in Known : x.buffer.ordinal \in Nat /\ x.buffer # o.buffer
    BY <1>0, <1>4, <2>1 DEF IdsOK, Ids, PagerOK
  <2>3. QED
    BY <1>0, <2>1, <2>2 DEF IdsOK, PagerOK
<1>8. QED
  BY <1>5, <1>6, <1>7

\* The first pages of the conversation are pages that were known.
LEMMA PrefixKnown ==
  ASSUME PagerOK, NEW n \in 0 .. Len(transcript), transcript' = SubSeq(transcript, 1, n)
  PROVE  /\ transcript' \in Seq(PageOrigin) /\ Len(transcript') = n
         /\ \A i \in DOMAIN transcript' : i \in 1 .. n /\ i \in DOMAIN transcript
                                         /\ transcript'[i] = transcript[i]
BY DEF PagerOK

\* A restart keeps some pages and begins above their ranks, with a mark of its own.
LEMMA RestartStep ==
  ASSUME ShellInv, NEW n \in 0 .. Len(transcript), NEW g \in Generations, Restart(n, g)
  PROVE  PagerOK' /\ RanksOK' /\ IdsOK'
<1>0. PagerOK /\ RanksOK /\ IdsOK
  BY DEF ShellInv
<1>1. /\ transcript' = SubSeq(transcript, 1, n) /\ buffers' = <<>> /\ next_ordinal' = 1
      /\ generation' = g /\ runs' = runs /\ pc' = "idle"
      /\ collided' = (collided \/ \E i \in 1 .. n : transcript[i].buffer.generation = g)
      /\ next_rank' = Max({0} \cup {transcript'[i].rank : i \in DOMAIN transcript'}) + 1
  BY DEF Restart, ContinueRankingFrom, HighestRank
<1>2. /\ transcript' \in Seq(PageOrigin)
      /\ \A i \in DOMAIN transcript' : i \in 1 .. n /\ i \in DOMAIN transcript
                                      /\ transcript'[i] = transcript[i]
  BY <1>0, <1>1, PrefixKnown
<1>3. buffers' \in Seq(Honest) /\ DOMAIN buffers' = {}
  BY <1>1
<1>4. \A x \in Known' : \E i \in DOMAIN transcript' : x = transcript'[i]
  BY <1>3 DEF Known
<1>5. Known' \subseteq Known
  BY <1>2, <1>4 DEF Known
<1>6. \A x \in Known : x.run \in Nat /\ x.rank \in Nat
  BY <1>0, KnownTyped
<1> DEFINE R == {0} \cup {transcript'[i].rank : i \in DOMAIN transcript'}
<1>7. Max(R) \in Nat /\ \A i \in DOMAIN transcript' : transcript'[i].rank <= Max(R)
  <2>1. \A i \in DOMAIN transcript' :
          transcript'[i].rank \in Nat /\ transcript'[i].rank <= next_rank
    <3>1. \A i \in DOMAIN transcript' : transcript'[i] \in Known
      BY <1>2 DEF Known
    <3>2. QED
      BY <1>0, <1>6, <3>1 DEF RanksOK, PagerOK
  <2>2. R \in SUBSET Nat /\ R # {} /\ (\A m \in R : m <= next_rank) /\ next_rank \in Nat
    BY <1>0, <2>1 DEF PagerOK
  <2>3. \A i \in DOMAIN transcript' : transcript'[i].rank \in R
    OBVIOUS
  <2> HIDE DEF R
  <2>4. QED
    BY <2>2, <2>3, MaxIs
<1> HIDE DEF R
<1>8. next_rank' = Max(R) + 1
  BY <1>1 DEF R
<1>9. PagerOK'
  <2>1. collided' \in BOOLEAN
    BY <1>0, <1>1, Zenon DEF PagerOK
  <2>2. next_rank' \in Nat
    BY <1>7, <1>8
  <2>3. next_ordinal' \in Nat /\ runs' \in Nat /\ generation' \in Generations
    BY <1>0, <1>1 DEF PagerOK
  <2>4. QED
    BY <1>2, <1>3, <2>1, <2>2, <2>3, Zenon DEF PagerOK
<1>10. RanksOK'
  <2>1. \A x \in Known' : x.rank < next_rank' /\ x.run <= runs
    BY <1>0, <1>4, <1>5, <1>6, <1>7, <1>8 DEF RanksOK
  <2>2. ~AtWork'
    BY <1>1 DEF AtWork
  <2>3. QED
    BY <1>0, <1>1, <1>5, <2>1, <2>2 DEF RanksOK
<1>11. IdsOK'
  <2> SUFFICES ASSUME ~collided'
               PROVE  /\ \A x, y \in Known' : x.buffer = y.buffer => x.run = y.run
                      /\ \A x \in Known' : x.buffer.generation # g
    BY <1>1 DEF IdsOK
  <2>1. ~collided /\ \A i \in 1 .. n : transcript[i].buffer.generation # g
    BY <1>1
  <2>2. \A x \in Known' : x.buffer.generation # g
    BY <1>2, <1>4, <2>1
  <2>3. QED
    BY <1>0, <1>5, <2>1, <2>2 DEF IdsOK
<1>12. QED
  BY <1>9, <1>10, <1>11

\* What Reap stores of a command that ended.
LEMMA ReapHonest ==
  ASSUME ShellInv, pc = "waiting"
  PROVE  LET k == Take(kept)
         IN  Buffer(call.source, runs, Settle(stopped, ExitCode(child)), Extent(k), k.hi - k.lo,
                    child = "zero" /\ got = Len(out)) \in Honest
<1> DEFINE k == Take(kept)
           v == Settle(stopped, ExitCode(child))
           w == child = "zero" /\ got = Len(out)
           e == Extent(k)
           b == Buffer(call.source, runs, v, e, k.hi - k.lo, w)
<1>1. /\ call.source \in Sources /\ call.tail \in BOOLEAN /\ got \in Nat /\ Holds(kept, got)
      /\ ~stopped => got = Len(out)
  BY DEF ShellInv, RunOK, AtWork
<1>2. Holds(k, got)
  BY <1>1, TakeHolds
<1>3. e \in Extents /\ e.begins = Skipped(e) + 1 /\ k.hi - k.lo \in Int
  <2>1. k.hi - k.lo \in Int
    BY <1>2 DEF Holds, Captures
  <2> HIDE DEF k
  <2>2. QED
    BY <1>1, <1>2, <2>1, ExtentTrue
<1>4. v \in [ok : BOOLEAN] /\ (v.ok => w)
  <2>1. v = [ok |-> ExitCode(child) = 0 /\ ~stopped]
    BY DEF Settle
  <2>2. ExitCode(child) = 0 => child = "zero"
    BY DEF ExitCode
  <2> DEFINE c == ExitCode(child) = 0 /\ ~stopped
  <2>3. v.ok <=> c
    <3> HIDE DEF c, v
    <3>1. v = [ok |-> c]
      BY <2>1 DEF c
    <3>2. QED
      BY <3>1
  <2>4. v \in [ok : BOOLEAN]
    BY <2>1
  <2>5. v.ok => w
    BY <1>1, <2>2, <2>3
  <2>6. QED
    BY <2>4, <2>5
<1>5. w \in BOOLEAN
  OBVIOUS
<1>6. BufferId \in Ids /\ next_rank \in Nat /\ runs \in Nat
  BY DEF ShellInv, PagerOK, BufferId, Ids
<1> HIDE DEF k, v, w, e
<1>7. b \in AnyBuffer /\ b.verdict = v /\ b.whole = w /\ b.extent = e
  BY <1>1, <1>3, <1>4, <1>5, <1>6 DEF Buffer, AnyBuffer
<1>8. b \in Honest
  BY <1>3, <1>4, <1>7 DEF Honest
<1>9. QED
  BY <1>8 DEF k, v, w, e

\* What is stored of a command that could not be started.
LEMMA FailHonest ==
  ASSUME ShellInv, NEW s \in Sources
  PROVE  Buffer(s, runs + 1, Settle(FALSE, -1), NoExtent, 0, FALSE) \in Honest
<1> DEFINE v == Settle(FALSE, -1)
           b == Buffer(s, runs + 1, v, NoExtent, 0, FALSE)
<1>1. NoExtent \in Extents /\ NoExtent.begins = Skipped(NoExtent) + 1
  BY DEF NoExtent, Extents, Skipped
<1>2. v \in [ok : BOOLEAN] /\ ~v.ok
  <2>1. -1 # 0
    OBVIOUS
  <2>2. v = [ok |-> FALSE]
    BY <2>1, Zenon DEF Settle
  <2> HIDE DEF v
  <2>3. ~v.ok
    BY <2>2
  <2>4. QED
    BY <2>2, <2>3
<1> HIDE DEF v
<1>3. BufferId \in Ids /\ next_rank \in Nat /\ runs + 1 \in Nat
  BY DEF ShellInv, PagerOK, BufferId, Ids
<1>4. /\ b \in AnyBuffer /\ b.verdict = v /\ b.extent = NoExtent
  BY <1>1, <1>2, <1>3 DEF Buffer, AnyBuffer
<1>5. b \in Honest
  BY <1>1, <1>2, <1>4 DEF Honest
<1>6. QED
  BY <1>5 DEF v

\* A page that is read again, or a chain that is cut back, brings no page nobody knew.
LEMMA PageStep ==
  ASSUME ShellInv, NEW id, NEW line, ReadAt(id, line)
  PROVE  Known' \subseteq Known /\ transcript' \in Seq(PageOrigin)
<1> USE DEF run, pager, others
<1> DEFINE m == Min(Find(id))
<1>0. buffers \in Seq(Honest) /\ transcript \in Seq(PageOrigin)
  BY DEF ShellInv, PagerOK
<1>1. m \in DOMAIN buffers
  <2>1. DOMAIN buffers \in SUBSET Nat
    BY <1>0
  <2>2. Find(id) # {} /\ Find(id) \in SUBSET Nat
    BY <2>1 DEF ReadAt, Find
  <2>3. m \in Find(id)
    BY <2>2, MinIs
  <2>4. QED
    BY <2>3 DEF Find
<1>2. /\ transcript' = Append(transcript, OriginOfBuffer(buffers[m])) /\ buffers' = buffers
  BY DEF ReadAt, PageResult, OriginOfBuffer
<1> HIDE DEF m
<1> DEFINE o == OriginOfBuffer(buffers[m])
<1>3. o \in Known
  BY <1>1 DEF Known
<1>4. o \in PageOrigin
  BY <1>3, KnownTyped DEF ShellInv
<1> HIDE DEF o
<1>5. /\ transcript' \in Seq(PageOrigin)
      /\ \A i \in DOMAIN transcript' : \/ i \in DOMAIN transcript /\ transcript'[i] = transcript[i]
                                       \/ transcript'[i] = o
  BY <1>0, <1>2, <1>4 DEF o
<1>6. Known' \subseteq Known
  <2> SUFFICES ASSUME NEW x \in Known'
               PROVE  x \in Known
    OBVIOUS
  <2>1. CASE \E i \in DOMAIN transcript' : x = transcript'[i]
    BY <1>3, <1>5, <2>1 DEF Known
  <2>2. CASE \E i \in DOMAIN buffers' : x = OriginOfBuffer(buffers'[i])
    BY <1>2, <2>2 DEF Known
  <2>3. QED
    BY <2>1, <2>2 DEF Known, OriginOfBuffer, OriginOf, Envelope
<1>7. QED
  BY <1>5, <1>6

\* A step that leaves the pager and the conversation alone knows what was known.
LEMMA KnownSame ==
  ASSUME UNCHANGED <<buffers, transcript>>
  PROVE  Known' = Known
BY DEF Known, OriginOfBuffer, OriginOf, Envelope

\* ShellInv is inductive: one step per kind of action.
LEMMA ShellStep ==
  ASSUME ShellInv, [Next]_vars
  PROVE  ShellInv'
<1> USE DEF run, pager, others
<1>0. RunOK /\ PagerOK /\ RanksOK /\ IdsOK
  BY DEF ShellInv
<1>1. RunOK'
  BY <1>0, RunStep
<1> DEFINE Rest == PagerOK' /\ RanksOK' /\ IdsOK'
<1>2. buffers \in Seq(Honest) /\ transcript \in Seq(PageOrigin) /\ runs \in Nat
  BY <1>0 DEF PagerOK
<1>3. \A x \in Known : x.run \in Nat /\ x.run <= runs /\ (AtWork => x.run < runs)
  BY <1>0, KnownTyped DEF RanksOK
<1>4. ASSUME UNCHANGED <<pager, transcript, collided>>,
             \/ runs' = runs /\ (AtWork' => AtWork)
             \/ runs' = runs + 1
      PROVE  Rest
  <2>1. Known' \subseteq Known
    BY <1>4, KnownSame
  <2>2. QED
    BY <1>2, <1>4, <2>1, KnownKept
<1>5. ASSUME NEW s, NEW tail, Spawn(s, tail)
      PROVE  Rest
  BY <1>4, <1>5 DEF Spawn
<1>6. ASSUME NEW s \in Sources, NEW tail \in BOOLEAN, SpawnFails(s, tail)
      PROVE  Rest
  <2> DEFINE b == Buffer(s, runs + 1, Settle(FALSE, -1), NoExtent, 0, FALSE)
  <2>1. RunAndPage(b) /\ UNCHANGED collided /\ runs' = runs + 1 /\ pc' = "idle"
    BY <1>6 DEF SpawnFails
  <2>2. b \in Honest
    BY FailHonest
  <2>3. b.id = BufferId /\ b.rank = next_rank /\ b.run = runs + 1
    BY DEF Buffer
  <2> HIDE DEF b
  <2>4. b.run <= runs' /\ runs' \in Nat /\ \A x \in Known : x.run < b.run
    BY <1>2, <1>3, <2>1, <2>3
  <2>5. QED
    BY <2>1, <2>2, <2>3, <2>4, StoreStep
<1>7. ASSUME Reap
      PROVE  Rest
  <2> DEFINE k == Take(kept)
             b == Buffer(call.source, runs, Settle(stopped, ExitCode(child)), Extent(k),
                         k.hi - k.lo, child = "zero" /\ got = Len(out))
  <2>1. RunAndPage(b) /\ UNCHANGED collided /\ runs' = runs /\ pc' = "idle" /\ pc = "waiting"
    BY <1>7 DEF Reap
  <2>2. b \in Honest
    BY <2>1, ReapHonest
  <2>3. b.id = BufferId /\ b.rank = next_rank /\ b.run = runs
    BY DEF Buffer
  <2> HIDE DEF b
  <2>4. b.run <= runs' /\ runs' \in Nat /\ \A x \in Known : x.run < b.run
    BY <1>2, <1>3, <2>1, <2>3 DEF AtWork
  <2>5. QED
    BY <2>1, <2>2, <2>3, <2>4, StoreStep
<1>8. ASSUME ReadEnd \/ FgetsEnd \/ PollTick
      PROVE  Rest
  BY <1>4, <1>8 DEF ReadEnd, FgetsEnd, PollTick, AtWork
<1>9. ASSUME NEW n, ReadSome(n) \/ FgetsSome(n)
      PROVE  Rest
  BY <1>4, <1>9 DEF ReadSome, FgetsSome, Consume, AtWork
<1>10. ASSUME NEW how, CloseOutput \/ End(how) \/ Stop
       PROVE  Rest
  BY <1>4, <1>10 DEF CloseOutput, End, Stop, AtWork
<1>11. ASSUME NEW id, NEW line, ReadAt(id, line)
       PROVE  Rest
  <2>1. /\ UNCHANGED <<pager, runs, collided>> /\ AtWork' = AtWork
    BY <1>11 DEF ReadAt, AtWork
  <2>2. Known' \subseteq Known /\ transcript' \in Seq(PageOrigin)
    BY <1>11, PageStep
  <2>3. QED
    BY <1>2, <2>1, <2>2, KnownKept
<1>12. ASSUME NEW n \in 0 .. Len(transcript), Rewind(n)
       PROVE  Rest
  <2>1. /\ UNCHANGED <<pager, runs, collided>> /\ AtWork' = AtWork
        /\ transcript' = SubSeq(transcript, 1, n)
    BY <1>12 DEF Rewind, AtWork
  <2>2. /\ transcript' \in Seq(PageOrigin)
        /\ \A i \in DOMAIN transcript' : i \in DOMAIN transcript /\ transcript'[i] = transcript[i]
    BY <1>0, <2>1, PrefixKnown
  <2>3. Known' \subseteq Known
    BY <2>1, <2>2 DEF Known, OriginOfBuffer, OriginOf, Envelope
  <2>4. QED
    BY <1>2, <2>1, <2>2, <2>3, KnownKept
<1>13. ASSUME UNCHANGED vars
       PROVE  Rest
  BY <1>4, <1>13 DEF vars, AtWork
<1>14. ASSUME Next
       PROVE  Rest
  <2>1. ASSUME NEW s \in Sources, NEW tail \in BOOLEAN, Execute(s, tail)
        PROVE  Rest
    BY <1>5, <2>1 DEF Execute
  <2>2. ASSUME NEW s \in Sources, NEW tail \in BOOLEAN, Ask(s, tail)
        PROVE  Rest
    BY <1>4, <2>2 DEF Ask, AtWork
  <2>3. ASSUME Approve
        PROVE  Rest
    BY <1>5, <2>3 DEF Approve
  <2>4. ASSUME Reject
        PROVE  Rest
    BY <1>4, <2>4 DEF Reject, AtWork
  <2>5. ASSUME NEW n \in 0 .. Len(transcript), NEW g \in Generations, Restart(n, g)
        PROVE  Rest
    BY <2>5, RestartStep
  <2>6. QED
    BY <1>6, <1>7, <1>8, <1>9, <1>10, <1>11, <1>12, <1>14, <2>1, <2>2, <2>3, <2>4, <2>5
       DEF Next
<1>15. QED
  BY <1>1, <1>13, <1>14 DEF ShellInv

\* ShellInv holds before a command is run.
LEMMA InitShell ==
  ASSUME Init
  PROVE  ShellInv
<1>1. RunOK
  BY DEF Init, RunOK, AtWork
<1>2. PagerOK
  <2>1. buffers \in Seq(Honest) /\ transcript \in Seq(PageOrigin)
    BY DEF Init
  <2>2. collided \in BOOLEAN
    BY DEF Init
  <2>3. QED
    BY <2>1, <2>2 DEF Init, PagerOK
<1>3. Known = {}
  BY DEF Init, Known
<1>4. RanksOK /\ IdsOK
  BY <1>3 DEF RanksOK, IdsOK
<1>5. QED
  BY <1>1, <1>2, <1>4 DEF ShellInv

\* In every state of every behaviour the pages and the counters agree.
LEMMA ShellHolds == Spec => []ShellInv
<1>1. Init => ShellInv
  BY InitShell
<1>2. ShellInv /\ [Next]_vars => ShellInv'
  BY ShellStep
<1>3. QED
  BY <1>1, <1>2, PTL DEF Spec
-----------------------------------------------------------------------------
(* The pages.                                                              *)

\* A page of an honest buffer, with its numbers worked out.
LEMMA PageOf ==
  ASSUME NEW b \in Honest, NEW lines \in Nat \ {0}, NEW start \in Nat
  PROVE  LET ret == b.extent.retained
             page == Read(b, start, lines)
             end == IF ret <= start + lines THEN ret ELSE start + lines IN
         /\ ret \in Nat /\ b.extent.begins \in Nat
         /\ page.first = b.extent.begins + start /\ page.last = b.extent.begins + end - 1
         /\ IF end < ret THEN page.later.line = end ELSE page.later = None
         /\ IF start > 0
              THEN page.earlier.line = IF start > lines THEN start - lines ELSE 0
              ELSE page.earlier = None
<1> DEFINE ret == b.extent.retained
           end == IF ret <= start + lines THEN ret ELSE start + lines
           page == Read(b, start, lines)
<1>1. /\ b.extent \in Extents /\ b.extent.begins = Skipped(b.extent) + 1
  BY DEF Honest, AnyBuffer
<1>2. ret \in Nat /\ b.extent.begins \in Nat /\ b.extent.lines \in Nat
  BY <1>1 DEF Extents
<1>3. Skipped(b.extent) \in Nat
  BY <1>2 DEF Skipped
<1>4. Min({b.extent.retained, start + lines}) = end
  BY <1>2, MinOfTwo
<1>5. /\ page.first = start + 1 + Skipped(b.extent) /\ page.last = end + Skipped(b.extent)
      /\ page.earlier = Earlier(b, start, lines) /\ page.later = Later(b, end)
  BY <1>4 DEF Read
<1> HIDE DEF page
<1>6. IF end < ret THEN page.later.line = end ELSE page.later = None
  BY <1>5 DEF Later, Cursor
<1>7. IF start > 0
        THEN page.earlier.line = IF start > lines THEN start - lines ELSE 0
        ELSE page.earlier = None
  BY <1>5 DEF Earlier, Cursor
<1>8. page.first = b.extent.begins + start /\ page.last = b.extent.begins + end - 1
  BY <1>1, <1>2, <1>3, <1>5
<1>9. QED
  BY <1>2, <1>6, <1>7, <1>8 DEF page

\* The numbers on the pages are the command's own line numbers.
LEMMA NumbersFollow ==
  ASSUME ShellInv
  PROVE  PageNumbersTrue
<1> SUFFICES ASSUME NEW i \in DOMAIN buffers, NEW lines \in Limits,
                    NEW start \in 0 .. buffers[i].extent.retained - 1
             PROVE  LET b == buffers[i]
                        page == Read(b, start, lines) IN
                    /\ page.first = b.extent.begins + start
                    /\ page.last = Min({b.extent.begins + b.extent.retained,
                                        page.first + lines}) - 1
  BY DEF PageNumbersTrue
<1> DEFINE b == buffers[i]
           page == Read(b, start, lines)
           ret == b.extent.retained
           begins == b.extent.begins
           end == IF ret <= start + lines THEN ret ELSE start + lines
<1>1. b \in Honest /\ lines \in Nat \ {0}
  BY ShellAssumption DEF ShellInv, PagerOK, ShellAssumption
<1>2. start \in Nat
  OBVIOUS
<1> HIDE DEF b
<1>3. /\ ret \in Nat /\ begins \in Nat
      /\ page.first = begins + start /\ page.last = begins + end - 1
  BY <1>1, <1>2, PageOf
<1> HIDE DEF page, ret, begins
<1>4. Min({begins + ret, page.first + lines}) = begins + end
  <2>1. /\ begins + ret \in Int /\ page.first + lines \in Int
    BY <1>1, <1>2, <1>3
  <2>2. Min({begins + ret, page.first + lines})
          = IF begins + ret <= page.first + lines THEN begins + ret ELSE page.first + lines
    BY <2>1, MinOfTwo
  <2>3. QED
    BY <1>1, <1>2, <1>3, <2>2
<1>5. QED
  BY <1>1, <1>2, <1>3, <1>4 DEF b, page, ret, begins

\* The cursors of a buffer's pages reach every line it holds.
LEMMA ReachFollows ==
  ASSUME ShellInv
  PROVE  PagesReachAll
<1> SUFFICES ASSUME NEW i \in DOMAIN buffers, NEW lines \in Limits,
                    NEW start \in 0 .. buffers[i].extent.retained - 1
             PROVE  LET b == buffers[i]
                        page == Read(b, start, lines)
                        before == Read(b, page.earlier.line, lines) IN
                    /\ IF page.last = Read(b, Start(b, TRUE, lines), lines).last
                         THEN page.later = None
                         ELSE Read(b, page.later.line, lines).first = page.last + 1
                    /\ IF page.first = Read(b, Start(b, FALSE, lines), lines).first
                         THEN page.earlier = None
                         ELSE before.first < page.first /\ before.last >= page.first - 1
  BY DEF PagesReachAll
<1> DEFINE b == buffers[i]
           page == Read(b, start, lines)
           ret == b.extent.retained
           begins == b.extent.begins
           end == IF ret <= start + lines THEN ret ELSE start + lines
           final == Read(b, Start(b, TRUE, lines), lines)
           head == Read(b, Start(b, FALSE, lines), lines)
<1>1. b \in Honest /\ lines \in Nat \ {0} /\ lines \in Nat /\ lines > 0
  BY ShellAssumption DEF ShellInv, PagerOK, ShellAssumption
<1>2. start \in Nat /\ start < ret /\ ret \in Nat
  <2>1. ret \in Nat
    BY <1>1 DEF Honest, AnyBuffer, Extents
  <2>2. QED
    BY <2>1
<1> HIDE DEF b
<1>3. /\ begins \in Nat
      /\ page.first = begins + start /\ page.last = begins + end - 1
      /\ IF end < ret THEN page.later.line = end ELSE page.later = None
      /\ IF start > 0
           THEN page.earlier.line = IF start > lines THEN start - lines ELSE 0
           ELSE page.earlier = None
  BY <1>1, <1>2, PageOf
<1>4. final.last = begins + ret - 1
  <2> DEFINE at == Start(b, TRUE, lines)
  <2>1. at = IF ret > lines THEN ret - lines ELSE 0
    BY DEF Start
  <2> HIDE DEF at, ret
  <2>2. at \in Nat /\ ret <= at + lines
    BY <1>1, <1>2, <2>1
  <2>3. Read(b, at, lines).last = begins + (IF ret <= at + lines THEN ret ELSE at + lines) - 1
    BY <1>1, <2>2, PageOf DEF ret
  <2>4. QED
    BY <2>2, <2>3 DEF at
<1>5. head.first = begins
  <2>1. Start(b, FALSE, lines) = 0
    BY DEF Start
  <2>2. Read(b, 0, lines).first = begins + 0
    BY <1>1, PageOf
  <2>3. head = Read(b, 0, lines)
    BY <2>1, Zenon
  <2> HIDE DEF head, begins
  <2>4. QED
    BY <1>3, <2>2, <2>3
<1>6. ASSUME end < ret
      PROVE  Read(b, page.later.line, lines).first = page.last + 1
  <2>1. page.later.line = end /\ end \in Nat
    BY <1>1, <1>2, <1>3, <1>6
  <2> HIDE DEF end
  <2>2. Read(b, end, lines).first = begins + end
    BY <1>1, <2>1, PageOf
  <2> HIDE DEF page, begins
  <2>3. QED
    BY <1>3, <2>1, <2>2
<1> DEFINE back == IF start > lines THEN start - lines ELSE 0
           before == Read(b, page.earlier.line, lines)
<1>7. ASSUME start > 0
      PROVE  before.first < page.first /\ before.last >= page.first - 1
  <2>1. page.earlier.line = back /\ back \in Nat /\ back < start /\ start <= back + lines
    BY <1>1, <1>2, <1>3, <1>7
  <2> HIDE DEF back, page, ret, begins
  <2>2. /\ before.first = begins + back
        /\ before.last = begins + (IF ret <= back + lines THEN ret ELSE back + lines) - 1
    BY <1>1, <2>1, PageOf DEF ret, begins
  <2> HIDE DEF before
  <2>3. QED
    BY <1>1, <1>2, <1>3, <2>1, <2>2
<1> HIDE DEF page, ret, begins, final, head, before
<1>8. IF page.last = final.last
        THEN page.later = None
        ELSE Read(b, page.later.line, lines).first = page.last + 1
  BY <1>1, <1>2, <1>3, <1>4, <1>6
<1>9. IF page.first = head.first
        THEN page.earlier = None
        ELSE before.first < page.first /\ before.last >= page.first - 1
  BY <1>2, <1>3, <1>5, <1>7
<1>10. QED
  BY <1>8, <1>9 DEF b, page, ret, begins, final, head, before

\* Where there is a page of the same question behind, there is a newest one.
LEMMA NewestIs ==
  ASSUME ShellInv, NEW i \in DOMAIN transcript, NewerBehind(i) # {}
  PROVE  /\ NewestBehind(i) \in NewerBehind(i)
         /\ \A k \in NewerBehind(i) :
              \/ transcript[k].rank < transcript[NewestBehind(i)].rank
              \/ transcript[k].rank = transcript[NewestBehind(i)].rank /\ k <= NewestBehind(i)
<1> DEFINE N == NewerBehind(i)
           R == {transcript[j].rank : j \in N}
           J == {j \in N : transcript[j].rank = Max(R)}
<1>1. \A j \in N : j \in Nat /\ j <= Len(transcript) /\ j \in DOMAIN transcript
  BY DEF NewerBehind, ShellInv, PagerOK
<1>2. \A j \in N : transcript[j].rank \in Nat /\ transcript[j].rank <= next_rank
  <2>1. \A j \in N : transcript[j] \in Known
    BY <1>1 DEF Known
  <2>2. QED
    BY <2>1, KnownTyped DEF ShellInv, RanksOK, PagerOK
<1>3. next_rank \in Nat /\ Len(transcript) \in Nat
  BY DEF ShellInv, PagerOK
<1> HIDE DEF N
<1>4. Max(R) \in R /\ \A r \in R : r <= Max(R)
  <2>1. R \in SUBSET Nat /\ R # {} /\ \A r \in R : r <= next_rank
    BY <1>2 DEF N
  <2> HIDE DEF R
  <2>2. QED
    BY <1>3, <2>1, MaxIs
<1>5. Max(J) \in J /\ \A j \in J : j <= Max(J)
  <2>1. J \in SUBSET Nat /\ J # {} /\ \A j \in J : j <= Len(transcript)
    BY <1>1, <1>4
  <2> HIDE DEF J
  <2>2. QED
    BY <1>3, <2>1, MaxIs
<1>6. /\ Max(J) \in N
      /\ \A k \in N : \/ transcript[k].rank < transcript[Max(J)].rank
                      \/ transcript[k].rank = transcript[Max(J)].rank /\ k <= Max(J)
  <2>1. Max(J) \in N /\ transcript[Max(J)].rank = Max(R)
    BY <1>5
  <2>2. \A k \in N : transcript[k].rank <= Max(R) /\ transcript[k].rank \in Nat
    BY <1>2, <1>4
  <2>3. \A k \in N : transcript[k].rank = Max(R) => k <= Max(J)
    BY <1>5
  <2>4. Max(R) \in Nat
    BY <1>2, <1>4
  <2> HIDE DEF J, R
  <2>5. QED
    BY <2>1, <2>2, <2>3, <2>4
<1>7. QED
  BY <1>6 DEF N, NewestBehind

\* What the request leaves out.
LEMMA ElisionFollows ==
  ASSUME ShellInv
  PROVE  ElidesOlderOnly
<1>0. transcript \in Seq(PageOrigin)
  BY DEF ShellInv, PagerOK
<1>1. \A j, k \in DOMAIN transcript :
        /\ transcript[j].rank < transcript[k].rank <=> transcript[j].run < transcript[k].run
        /\ transcript[j].rank \in Nat /\ transcript[j].run \in Nat
  <2>1. \A j \in DOMAIN transcript : transcript[j] \in Known
    BY DEF Known
  <2>2. QED
    BY <2>1, KnownTyped DEF ShellInv, RanksOK
<1>2. \A i \in DOMAIN transcript : BuildRequestPath[i].text <=> ~Superseded(i)
  BY DEF BuildRequestPath, SupersededReceipt
<1>3. ASSUME NEW i \in DOMAIN transcript
      PROVE  \A j \in NewerBehind(i) : j \in DOMAIN transcript /\ j > i /\ i \in Nat /\ j \in Nat
  BY <1>0, <1>3 DEF NewerBehind
<1>4. ASSUME NEW i \in DOMAIN transcript
      PROVE  BuildRequestPath[i].text
               <=> \A j \in NewerBehind(i) : transcript[j].run <= transcript[i].run
  BY <1>1, <1>2, <1>3 DEF Superseded
<1>5. ASSUME NEW i \in DOMAIN transcript, Superseded(i)
      PROVE  \E j \in NewerBehind(i) : /\ transcript[j].buffer = BuildRequestPath[i].superseded_by
                                       /\ BuildRequestPath[j].text
  <2> DEFINE m == NewestBehind(i)
  <2>1. NewerBehind(i) # {}
    BY <1>5 DEF Superseded
  <2>2. /\ m \in NewerBehind(i)
        /\ \A k \in NewerBehind(i) : \/ transcript[k].rank < transcript[m].rank
                                     \/ transcript[k].rank = transcript[m].rank /\ k <= m
    BY <2>1, NewestIs
  <2>3. BuildRequestPath[i].superseded_by = transcript[m].buffer
    BY <1>5 DEF BuildRequestPath, SupersededReceipt
  <2> HIDE DEF m
  <2>4. m \in DOMAIN transcript /\ m > i /\ m \in Nat /\ i \in Nat
    BY <1>3, <2>2
  <2>5. NewerBehind(m) \subseteq NewerBehind(i)
    <3>1. transcript[m].source = transcript[i].source
      BY <2>2 DEF NewerBehind
    <3>2. Len(transcript) \in Nat
      BY <1>0
    <3>3. QED
      BY <2>4, <3>1, <3>2 DEF NewerBehind
  <2>6. ASSUME NEW k \in NewerBehind(m)
        PROVE  ~(transcript[k].rank > transcript[m].rank)
    <3>1. k > m /\ k \in Nat /\ k \in DOMAIN transcript
      BY <1>3, <2>4
    <3>2. QED
      BY <1>1, <2>2, <2>4, <2>5, <3>1
  <2>7. BuildRequestPath[m].text
    BY <1>2, <2>4, <2>6 DEF Superseded
  <2>8. QED
    BY <2>2, <2>3, <2>7
<1>6. QED
  BY <1>2, <1>4, <1>5 DEF ElidesOlderOnly

-----------------------------------------------------------------------------

\* A verdict of success is a child that ended itself with 0 and was read to its end (Settle),
\* however its end, a signal and a stop race, for any command and output.
THEOREM VerdictHeld == Spec => []VerdictHonest
<1>1. ShellInv => VerdictHonest
  <2>1. ASSUME ShellInv, NEW i \in DOMAIN buffers
        PROVE  buffers[i] \in Honest
    BY <2>1 DEF ShellInv, PagerOK
  <2>2. QED
    BY <2>1 DEF VerdictHonest, Honest
<1>2. QED
  BY <1>1, ShellHolds, PTL

\* Pages number lines as the command printed them (Extent, Read), for any output, any order
\* in which it arrives, any capture budget and any page size.
THEOREM NumbersHeld == Spec => []PageNumbersTrue
BY NumbersFollow, ShellHolds, PTL

\* The cursors of a buffer's pages reach every line it holds (Read), for any page size.
THEOREM ReachHeld == Spec => []PagesReachAll
BY ReachFollows, ShellHolds, PTL

\* No id names two runs over any number of restarts, evictions and rewinds, unless a pager
\* drew a mark that a page on the chain carries (NewGeneration, Find).
THEOREM CursorHeld == Spec => []CursorTrue
<1>1. ShellInv => CursorTrue
  <2>1. \A i \in DOMAIN transcript : transcript[i] \in Known
    BY DEF Known
  <2>2. QED
    BY <2>1 DEF CursorTrue, ShellInv, IdsOK
<1>2. QED
  BY <1>1, ShellHolds, PTL

\* A request leaves out a page exactly when a newer run of its question was read after it, and
\* the receipt names one it shows (BuildRequestPath), over any restarts and rewinds.
THEOREM ElisionHeld == Spec => []ElidesOlderOnly
BY ElisionFollows, ShellHolds, PTL
=============================================================================
