------------------------------- MODULE Shell --------------------------------
(***************************************************************************)
(* execute_bash: the command it runs (src/exec/run.cpp), the pages it      *)
(* answers with (src/paging/paging.cpp, src/tools/bash.cpp), and the       *)
(* request path that leaves out the pages a newer run has replaced         *)
(* (src/session/request.cpp), over restarts of the process.                *)
(*                                                                         *)
(* One thread calls the tool.  Beside it are the child, which prints,      *)
(* closes its output and ends as it likes, and the user, who stops it.     *)
(*                                                                         *)
(* Abstractions.  Output is a sequence of newlines and other bytes, and a  *)
(* partial UTF-8 sequence at a cut is not told apart from the byte before  *)
(* it.  A capture always holds consecutive bytes, so it is the range it    *)
(* holds.  A command is the question it asks (SourceKey) and what the      *)
(* policy makes of it.  A buffer remembers the run that filled it, the     *)
(* line its first line was and how its child ended, which no code reads.   *)
(***************************************************************************)
EXTENDS Integers, Sequences, FiniteSets, FiniteSetsExt

CONSTANTS
  Platforms,       \* a subset of {"posix", "windows"}
  Sources,         \* the commands
  Risk,            \* what the policy makes of each: refused, asked or run
  Prints,          \* what each may print, sequences of "n" (newline) and "c"
  Limits,          \* the page sizes asked for
  capture_bytes,   \* Budget::capture_bytes
  retain_bytes,    \* Budget::retain_bytes
  retain_buffers,  \* Budget::retain_buffers
  Generations,     \* the marks a pager may draw
  MaxRuns,         \* bound: commands run
  MaxPages,        \* bound: pages in the transcript
  MaxStarts,       \* bound: starts of the process
  None

ASSUME ShellAssumption ==
  /\ Platforms \subseteq {"posix", "windows"}
  /\ Risk \in [Sources -> {"refused", "asked", "run"}]
  /\ capture_bytes \in Nat \ {0} /\ retain_bytes \in Nat /\ retain_buffers \in Nat
  /\ Limits \subseteq Nat \ {0}
  /\ Prints \in [Sources -> SUBSET Seq({"n", "c"})]

VARIABLES
  platform,      \* which Run was compiled
  pc,            \* idle, asking, reading, waiting (for the child's end)
  call,          \* the command in progress and the anchor it was given
  child,         \* none, running, quiet (output closed), zero, nonzero, signalled, killed
  out,           \* all it prints
  got,           \* bytes read of it
  kept,          \* Capture: the bytes lo + 1 .. hi are held; whether any were dropped
  stop,          \* the stop token
  stopped,       \* Run's local: whether the command was stopped
  buffers,       \* Pager::buffers_, oldest first
  next_ordinal,  \* Pager::next_ordinal_
  next_rank,     \* Pager::next_rank_
  generation,    \* Pager::generation_
  transcript,    \* the pages the conversation's chain holds
  runs,          \* history: commands run
  starts,        \* starts of the process
  collided       \* history: a pager drew a mark that a page it found carries

run == <<call, child, out, got, kept, stop, stopped>>
pager == <<buffers, next_ordinal, next_rank, generation>>
others == <<platform, starts, collided>>
vars == <<pc, run, pager, transcript, runs, others>>

-----------------------------------------------------------------------------
(* Capture.                                                                *)

Newlines(lo, hi) == {p \in (lo + 1) .. hi : out[p] = "n"}

\* CountLines of the bytes held: a last line without a newline is a line.
CountLines(lo, hi) ==
  Cardinality(Newlines(lo, hi)) + (IF hi > lo /\ out[hi] # "n" THEN 1 ELSE 0)

\* DropToBudget: the newest whole lines, or a cut where no line ends after it.
DropToBudget(k) ==
  LET cut == k.hi - capture_bytes
      ends == Newlines(cut, k.hi)
  IN  IF k.hi - k.lo <= capture_bytes THEN k
      ELSE [k EXCEPT !.lo = IF ends = {} THEN cut ELSE Min(ends), !.truncated = TRUE]

\* Append of n bytes at the head, and at the end of the stream, where compacting waits for
\* a quarter more than the budget.
AppendHead(k, n) ==
  [k EXCEPT !.hi = Min({k.hi + n, capture_bytes}),
            !.truncated = @ \/ k.hi + n > capture_bytes]

AppendEnd(k, n) ==
  LET more == [k EXCEPT !.hi = @ + n]
  IN  IF (more.hi - more.lo) * 4 > capture_bytes * 5 THEN DropToBudget(more) ELSE more

Capture(k, n) == IF call.tail THEN AppendEnd(k, n) ELSE AppendHead(k, n)

\* Take: a head cut inside a line ends with the line before it, if there is one.
Take(k) ==
  CASE ~k.truncated -> k
    [] k.truncated /\ call.tail -> DropToBudget(k)
    [] OTHER -> [k EXCEPT !.hi = IF Newlines(0, k.hi) = {} THEN @ ELSE Max(Newlines(0, k.hi))]

-----------------------------------------------------------------------------
(* A run's result: the verdict, and the buffer it is stored in.            *)

\* Mutant: a child that was killed by a signal has exit code 0.
ExitCodeZero(ended) == IF ended = "nonzero" THEN 1 ELSE 0

\* The exit code: the child's own, or -1 when it did not exit by itself.
ExitCode(ended) == CASE ended = "zero" -> 0 [] ended = "nonzero" -> 1 [] OTHER -> -1

\* Settle
Settle(was_stopped, code) == [ok |-> code = 0 /\ ~was_stopped]

\* Extent, with the line its first line was as history.
Extent(k) ==
  [lines |-> CountLines(0, got), retained |-> CountLines(k.lo, k.hi), from_end |-> call.tail,
   begins |-> Cardinality(Newlines(0, k.lo)) + 1]

NoExtent == [lines |-> 0, retained |-> 0, from_end |-> FALSE, begins |-> 1]

\* Mutant: lines dropped at the end count as skipped too.
SkippedAny(extent) == extent.lines - extent.retained

\* Extent::skipped
Skipped(extent) ==
  IF extent.from_end /\ extent.lines > extent.retained THEN extent.lines - extent.retained
  ELSE 0

\* Mutant: an id is a number.
BufferIdBare == [generation |-> 0, ordinal |-> next_ordinal]

\* The id names the run and the pager.
BufferId == [generation |-> generation, ordinal |-> next_ordinal]

\* A buffer the loop of Store drops: the oldest, while there are too many or too much.
Evicted(bs) ==
  \/ Len(bs) > Max({1, retain_buffers})
  \/ Len(bs) > 1 /\ MapThenSumSet(LAMBDA i : bs[i].bytes, DOMAIN bs) > retain_bytes

\* What Store leaves: the shortest suffix drop that ends its loop.
Retained(bs) ==
  LET drop == Min({n \in 0 .. Len(bs) - 1 : ~Evicted(SubSeq(bs, n + 1, Len(bs)))})
  IN  SubSeq(bs, drop + 1, Len(bs))

\* A buffer of the run: the pager's id and rank, and what came of the command.
Buffer(source, number, verdict, extent, bytes, whole) ==
  [id |-> BufferId, source |-> source, rank |-> next_rank, run |-> number,
   verdict |-> verdict, extent |-> extent, bytes |-> bytes, whole |-> whole]

\* What a page's result says of its buffer, and what the conversation takes of it: the
\* page's origin, with the run it was as history.
Envelope(b) == [source |-> b.source, id |-> b.id, rank |-> b.rank]

OriginOf(held, number) ==
  [source |-> held.source, buffer |-> held.id, rank |-> held.rank, run |-> number]

\* PageResult: the page joins the conversation.
PageResult(b) == transcript' = Append(transcript, OriginOf(Envelope(b), b.run))

Store(b) ==
  /\ buffers' = Retained(Append(buffers, b))
  /\ next_ordinal' = next_ordinal + 1
  /\ next_rank' = next_rank + 1
  /\ UNCHANGED generation

\* RunAndPage, once Run has returned.
RunAndPage(b) == Store(b) /\ PageResult(b)

-----------------------------------------------------------------------------
(* paging::Read: a page of a buffer from a line on, 0-based.               *)

Cursor(b, line) == [buffer |-> b.id, line |-> line]

\* Mutant: the next page begins one line late.
LaterLate(b, end) == IF end < b.extent.retained THEN Cursor(b, end + 1) ELSE None

Later(b, end) == IF end < b.extent.retained THEN Cursor(b, end) ELSE None

Earlier(b, start, lines) ==
  IF start > 0 THEN Cursor(b, IF start > lines THEN start - lines ELSE 0) ELSE None

Read(b, start, lines) ==
  LET end == Min({b.extent.retained, start + lines})
  IN  [first |-> start + 1 + Skipped(b.extent), last |-> end + Skipped(b.extent),
       earlier |-> Earlier(b, start, lines), later |-> Later(b, end)]

\* Where a first look starts.
Start(b, tail, lines) ==
  IF tail /\ b.extent.retained > lines THEN b.extent.retained - lines ELSE 0

-----------------------------------------------------------------------------
(* The request path.                                                       *)

\* What SupersededPages, walking backwards, has seen of the page's source: the newest rank.
NewerBehind(i) ==
  {j \in i + 1 .. Len(transcript) : transcript[j].source = transcript[i].source}

Superseded(i) == \E j \in NewerBehind(i) : transcript[j].rank > transcript[i].rank

\* The newest of them, the last in the walk's order among equals.
NewestBehind(i) ==
  CHOOSE j \in NewerBehind(i) :
    \A k \in NewerBehind(i) :
      \/ transcript[k].rank < transcript[j].rank
      \/ transcript[k].rank = transcript[j].rank /\ k <= j

\* SupersededReceipt: the page's text is gone, and the receipt names the newest run.
SupersededReceipt(i) == [text |-> FALSE, superseded_by |-> transcript[NewestBehind(i)].buffer]

\* BuildRequestPath, of a chain's pages.
BuildRequestPath ==
  [i \in DOMAIN transcript |->
     IF Superseded(i) THEN SupersededReceipt(i) ELSE [text |-> TRUE, superseded_by |-> None]]

\* HighestRankIn
HighestRank(pages) == Max({0} \cup {pages[i].rank : i \in DOMAIN pages})

-----------------------------------------------------------------------------
(* BashTool::Execute.  A call that is refused (an anchor that does not     *)
(* parse, no command, one too long or that a pattern forbids, nobody to    *)
(* ask) changes nothing here.                                              *)

NoCapture == [lo |-> 0, hi |-> 0, truncated |-> FALSE]

NoRun == [source |-> None, tail |-> FALSE]

Init ==
  /\ platform \in Platforms
  /\ pc = "idle" /\ call = NoRun
  /\ child = "none" /\ out = <<>> /\ got = 0 /\ kept = NoCapture
  /\ stop = FALSE /\ stopped = FALSE
  /\ buffers = <<>> /\ next_ordinal = 1 /\ next_rank = 1
  /\ generation \in Generations
  /\ transcript = <<>>
  /\ runs = 0 /\ starts = 1 /\ collided = FALSE

\* exec::Run starts the child: a fork, or _popen.
Spawn(s, tail) ==
  /\ runs' = runs + 1
  /\ call' = [source |-> s, tail |-> tail]
  /\ child' = "running"
  /\ out' \in Prints[s]
  /\ got' = 0 /\ kept' = NoCapture /\ stop' = FALSE /\ stopped' = FALSE
  /\ pc' = "reading"
  /\ UNCHANGED <<pager, transcript, others>>

\* The policy lets the command through.
Execute(s, tail) ==
  /\ pc = "idle" /\ Risk[s] = "run"
  /\ runs < MaxRuns /\ Len(transcript) < MaxPages
  /\ Spawn(s, tail)

\* It needs approval and there is a channel to ask on.
Ask(s, tail) ==
  /\ pc = "idle" /\ Risk[s] = "asked"
  /\ runs < MaxRuns /\ Len(transcript) < MaxPages
  /\ pc' = "asking"
  /\ call' = [source |-> s, tail |-> tail]
  /\ UNCHANGED <<child, out, got, kept, stop, stopped, pager, transcript, runs, others>>

Approve == pc = "asking" /\ Spawn(call.source, call.tail)

Reject ==
  /\ pc = "asking"
  /\ pc' = "idle" /\ call' = NoRun
  /\ UNCHANGED <<child, out, got, kept, stop, stopped, pager, transcript, runs, others>>

\* The pipe, the fork or the stream fails: an empty capture and -1 are stored.
SpawnFails(s, tail) ==
  /\ pc = "idle" /\ Risk[s] = "run"
  /\ runs < MaxRuns /\ Len(transcript) < MaxPages
  /\ runs' = runs + 1
  /\ RunAndPage(Buffer(s, runs + 1, Settle(FALSE, -1), NoExtent, 0, FALSE))
  /\ UNCHANGED <<pc, run, others>>

-----------------------------------------------------------------------------
(* exec::Run.                                                              *)

\* kill(-pid, SIGKILL), on POSIX: a child that has ended stays what it was.
Killed == IF platform = "posix" /\ child \in {"running", "quiet"} THEN "killed" ELSE child

\* The loop ends with the token set: the group is killed.
BreakStopped == pc' = "waiting" /\ stopped' = TRUE /\ child' = Killed

\* n bytes reach the capture, and the token is looked at after them.
Consume(n) ==
  /\ got' = got + n
  /\ kept' = Capture(kept, n)
  /\ IF stop THEN BreakStopped ELSE UNCHANGED <<pc, stopped, child>>
  /\ UNCHANGED <<call, out, stop, pager, transcript, runs, others>>

\* poll has output: one read of it.
ReadSome(n) ==
  /\ pc = "reading" /\ platform = "posix" /\ n \in 1 .. Len(out) - got
  /\ Consume(n)

\* The end of the stream: the token is looked at once more.
ReadEnd ==
  /\ pc = "reading" /\ platform = "posix" /\ got = Len(out) /\ child # "running"
  /\ IF stop THEN BreakStopped ELSE pc' = "waiting" /\ UNCHANGED <<stopped, child>>
  /\ UNCHANGED <<call, out, got, kept, stop, pager, transcript, runs, others>>

\* Windows: fgets gives one line, or a part of one its buffer has no more room for, and a
\* part the stream ends in.
FgetsSome(n) ==
  /\ pc = "reading" /\ platform = "windows" /\ n \in 1 .. Len(out) - got
  /\ Newlines(got, got + n - 1) = {}
  /\ Consume(n)

\* fgets finds the end; nobody looks at the token again.
FgetsEnd ==
  /\ pc = "reading" /\ platform = "windows" /\ got = Len(out) /\ child # "running"
  /\ pc' = "waiting"
  /\ UNCHANGED <<call, child, out, got, kept, stop, stopped, pager, transcript, runs, others>>

\* Mutant: the poll waits for output only.
PollTickDeaf ==
  /\ FALSE
  /\ UNCHANGED vars

\* Nothing to read for 50 ms: POSIX looks at the token, Windows is inside fgets.
PollTick ==
  /\ pc = "reading" /\ platform = "posix" /\ stop
  /\ BreakStopped
  /\ UNCHANGED <<call, out, got, kept, stop, pager, transcript, runs, others>>

\* waitpid, or _pclose: the child has ended, and what was captured is stored.
Reap ==
  /\ pc = "waiting" /\ child \notin {"running", "quiet"}
  /\ LET k == Take(kept)
     IN  RunAndPage(Buffer(call.source, runs, Settle(stopped, ExitCode(child)), Extent(k),
                           k.hi - k.lo, child = "zero" /\ got = Len(out)))
  /\ pc' = "idle" /\ call' = NoRun
  /\ child' = "none" /\ out' = <<>> /\ got' = 0 /\ kept' = NoCapture
  /\ stop' = FALSE /\ stopped' = FALSE
  /\ UNCHANGED <<runs, others>>

\* External: the child closes its output and goes on, or ends.
CloseOutput ==
  /\ child = "running"
  /\ child' = "quiet"
  /\ UNCHANGED <<pc, call, out, got, kept, stop, stopped, pager, transcript, runs,
                 others>>

End(how) ==
  /\ child \in {"running", "quiet"}
  /\ child' = how
  /\ UNCHANGED <<pc, call, out, got, kept, stop, stopped, pager, transcript, runs,
                 others>>

\* The user stops the command.
Stop ==
  /\ pc \in {"reading", "waiting"} /\ ~stop
  /\ stop' = TRUE
  /\ UNCHANGED <<pc, call, child, out, got, kept, stopped, pager, transcript, runs,
                 others>>

-----------------------------------------------------------------------------
(* A cursor, a rewind and a restart.                                       *)

\* Find: the first buffer with this id.
Find(id) == {i \in DOMAIN buffers : buffers[i].id = id}

\* ReadAt: a page of a buffer that is still held, from a line it has; otherwise a refusal.
ReadAt(id, line) ==
  /\ pc = "idle" /\ Len(transcript) < MaxPages
  /\ Find(id) # {} /\ line < buffers[Min(Find(id))].extent.retained
  /\ PageResult(buffers[Min(Find(id))])
  /\ UNCHANGED <<pc, run, pager, runs, others>>

\* The conversation is rewound: pages at its end are no longer on its chain.
Rewind(n) ==
  /\ pc = "idle" /\ n < Len(transcript)
  /\ transcript' = SubSeq(transcript, 1, n)
  /\ UNCHANGED <<pc, run, pager, runs, others>>

\* Mutant: ranks start over.
ContinueRankingOver(pages) == 1

\* ContinueRankingFrom of a pager that has stored nothing.
ContinueRankingFrom(pages) == HighestRank(pages) + 1

NewGeneration(g) == g \in Generations

\* The process ends, at any time, and starts again with what was saved of the conversation.
Restart(n, g) ==
  /\ starts < MaxStarts /\ n <= Len(transcript)
  /\ starts' = starts + 1
  /\ transcript' = SubSeq(transcript, 1, n)
  /\ NewGeneration(g)
  /\ generation' = g
  /\ collided' = (collided \/ \E i \in 1 .. n : transcript[i].buffer.generation = g)
  /\ next_rank' = ContinueRankingFrom(transcript')
  /\ next_ordinal' = 1 /\ buffers' = <<>>
  /\ pc' = "idle" /\ call' = NoRun
  /\ child' = "none" /\ out' = <<>> /\ got' = 0 /\ kept' = NoCapture
  /\ stop' = FALSE /\ stopped' = FALSE
  /\ UNCHANGED <<platform, runs>>

-----------------------------------------------------------------------------

Cursors == {transcript[i].buffer : i \in DOMAIN transcript}

Lines == 0 .. 2

Next ==
  \/ \E s \in Sources, tail \in BOOLEAN :
       Execute(s, tail) \/ Ask(s, tail) \/ SpawnFails(s, tail)
  \/ Approve \/ Reject
  \/ \E n \in 1 .. Len(out) - got : ReadSome(n) \/ FgetsSome(n)
  \/ ReadEnd \/ FgetsEnd \/ PollTick \/ Reap
  \/ CloseOutput \/ \E how \in {"zero", "nonzero", "signalled"} : End(how)
  \/ Stop
  \/ \E id \in Cursors, line \in Lines : ReadAt(id, line)
  \/ \E n \in 0 .. Len(transcript) : Rewind(n)
  \/ \E n \in 0 .. Len(transcript), g \in Generations : Restart(n, g)

\* Run's own steps are taken while they can be: poll wakes every 50 ms, and a child that
\* was killed ends.
Fairness ==
  /\ WF_vars(PollTick \/ ReadEnd \/ \E n \in 1 .. Len(out) - got : ReadSome(n))
  /\ WF_vars(Reap)

Spec == Init /\ [][Next]_vars /\ Fairness

-----------------------------------------------------------------------------
(* Properties.                                                             *)

\* A verdict of success is a child that ended itself with 0 and whose output was read to its
\* end, whatever the race between its end, a signal and a stop (Settle).
VerdictHonest == \A i \in DOMAIN buffers : buffers[i].verdict.ok => buffers[i].whole

\* A page numbers the lines it shows as the command printed them, whichever end was kept,
\* wherever the capture was cut and however the output arrived (Extent, Read).
PageNumbersTrue ==
  \A i \in DOMAIN buffers :
    LET b == buffers[i] IN
    \A lines \in Limits, start \in 0 .. b.extent.retained - 1 :
      LET page == Read(b, start, lines) IN
      /\ page.first = b.extent.begins + start
      /\ page.last = Min({b.extent.begins + b.extent.retained, page.first + lines}) - 1

\* Every line a buffer holds is reached from a first look by the cursors of its pages:
\* the page `later` names begins where this one ends, the page `earlier` names reaches back
\* to it, and there is none only at the end of the buffer that way (Read).
PagesReachAll ==
  \A i \in DOMAIN buffers :
    LET b == buffers[i]
        end == b.extent.retained IN
    \A lines \in Limits, start \in 0 .. end - 1 :
      LET page == Read(b, start, lines)
          before == Read(b, page.earlier.line, lines) IN
      /\ IF page.last = Read(b, Start(b, TRUE, lines), lines).last
           THEN page.later = None
           ELSE Read(b, page.later.line, lines).first = page.last + 1
      /\ IF page.first = Read(b, Start(b, FALSE, lines), lines).first
           THEN page.earlier = None
           ELSE before.first < page.first /\ before.last >= page.first - 1

\* A cursor is answered from the run it was taken from: over restarts and evictions no id
\* names two runs, unless a pager drew a mark an earlier one left there (NewGeneration, Find).
CursorTrue ==
  ~collided => \A i, j \in DOMAIN transcript :
    transcript[i].buffer = transcript[j].buffer => transcript[i].run = transcript[j].run

\* A page keeps its text in the request unless a page of a newer run of its question was
\* read after it, also when a restart or a rewind lies between them; the receipt it leaves
\* names a run whose page the same request still shows, later on (BuildRequestPath,
\* SupersededPages, ContinueRankingFrom).
ElidesOlderOnly ==
  \A i \in DOMAIN transcript :
    LET sent == BuildRequestPath[i] IN
    /\ sent.text <=> \A j \in NewerBehind(i) : transcript[j].run <= transcript[i].run
    /\ ~sent.text => \E j \in NewerBehind(i) :
          transcript[j].buffer = sent.superseded_by /\ BuildRequestPath[j].text

\* On POSIX a stop that arrives while the output is read ends the command, whether it
\* prints, is silent or has closed its output (PollTick, ReadEnd).
StopEnds == (pc = "reading" /\ stop /\ platform = "posix") ~> (pc = "idle")
=============================================================================
