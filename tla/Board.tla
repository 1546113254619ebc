------------------------------- MODULE Board -------------------------------
(***************************************************************************)
(* The task board a server keeps (src/serve/board.cpp): the jobs peers and *)
(* people post, who moves them, and how they leave the board.              *)
(*                                                                         *)
(* Every operation of the class runs under its one mutex, so an operation  *)
(* is one action.  An operation that throws (RequestRefused, NotFound)     *)
(* throws before its first assignment, so a refusal is a disabled action.  *)
(*                                                                         *)
(* Abstractions.  A question is reduced to its presence.  `from`, `intent`,*)
(* `note`, `result`, `due_at` and `created_at` steer no operation and are  *)
(* left out.  So do the counters: of `chases` is kept whether there was    *)
(* one, of `declines` a history of those since the holder took the job.    *)
(* The stamps have one-second precision, so `clock` advances by Tick only  *)
(* and several operations may carry one stamp; the deque order then        *)
(* decides.  The deque is split into the records, by id, and the order of  *)
(* the ids.  Every token a server accepts speaks for its own self_name     *)
(* (PeerForToken), so Self is the one peer it ever records as heard from.  *)
(***************************************************************************)
EXTENDS Integers, FiniteSets, Sequences

CONSTANTS
  Peer,            \* the names a job may be addressed to
  Self,            \* self_name, the name this server's peers.json gives it
  JobId,           \* uuids: each is used for one job
  None,            \* an empty std::optional
  kMaxOpen,        \* unclosed jobs a board accepts
  kMaxClosedKept,  \* jobs kept beyond kMaxOpen
  kMaxAudit,       \* entries of the trail
  MaxClock         \* bound: last second of the clock

ASSUME LimitsAssumption ==
  /\ kMaxOpen \in Nat \ {0}
  /\ kMaxClosedKept \in Nat
  /\ kMaxAudit \in Nat
  /\ MaxClock \in Nat

ASSUME NamesAssumption == Self \in Peer /\ None \notin Peer \cup JobId

VARIABLES
  jobs,     \* jobs_: the jobs on the board, by id
  order,    \* jobs_: the ids in the deque's order
  presence, \* peers_: what Self was last recorded doing, None before it is heard from
  audit,    \* audit_: the trail, oldest first
  clock,    \* the second NowStamp() reads
  posted,   \* history: every id ever handed out
  ended,    \* history: the outcome announced for a job, None before
  refusals  \* history: the declines of a job since its holder last said claimed or working

vars == <<jobs, order, presence, audit, clock, posted, ended, refusals>>

-----------------------------------------------------------------------------
JobState == {"open", "claimed", "working", "blocked", "done", "failed", "cancelled"}

\* Job::Closed
Closed(job) == job.state \in {"done", "failed", "cancelled"}

OnBoard == DOMAIN jobs

Unclosed == {j \in OnBoard : ~Closed(jobs[j])}

Job == [to : Peer, state : JobState, updated_at : 0..MaxClock,
        question : BOOLEAN,
        declined_by : Peer \cup {None}, chased : BOOLEAN]

AuditKind == {"post", "answer", "chase", "drop"} \cup (JobState \ {"cancelled"})

\* Mutant: a peer may name any state, `cancelled` included.
JobUpdateAny ==
  {u \in [state : JobState, question : BOOLEAN] : u.question => u.state = "blocked"}

\* What a peer may say in an update: ParseJobState refuses `cancelled` and anything else, and
\* a question is read with `blocked` only.
JobUpdate ==
  {u \in [state : JobState \ {"cancelled"}, question : BOOLEAN] :
     u.question => u.state = "blocked"}

\* The trail keeps only its last kMaxAudit entries.
Record(kind, j) ==
  LET longer == Append(audit, [kind |-> kind, job |-> j])
  IN  audit' = IF Len(longer) > kMaxAudit THEN Tail(longer) ELSE longer

-----------------------------------------------------------------------------
Init ==
  /\ jobs = <<>>
  /\ order = <<>>
  /\ presence = None
  /\ audit = <<>>
  /\ clock = 0
  /\ posted = {}
  /\ ended = [j \in JobId |-> None]
  /\ refusals = [j \in JobId |-> 0]

Tick ==
  /\ clock < MaxClock
  /\ clock' = clock + 1
  /\ UNCHANGED <<jobs, order, presence, audit, posted, ended, refusals>>

\* A request to /api/jobs with an accepted token; a later one refreshes last_seen only.
TouchPeer ==
  /\ presence = None
  /\ presence' = [state |-> None, job |-> None]
  /\ UNCHANGED <<jobs, order, audit, clock, posted, ended, refusals>>

NewJob(to) ==
  [to |-> to, state |-> "open", updated_at |-> clock,
   question |-> FALSE, declined_by |-> None, chased |-> FALSE]

\* std::stable_sort by updated_at: the orders q of the ids of s with no later stamp
\* before an earlier one, ids of one stamp staying in the order they had.
StableSorts(s, f) ==
  {q \in [DOMAIN s -> {s[i] : i \in DOMAIN s}] :
     \A a, b \in DOMAIN s : a < b =>
       /\ q[a] # q[b]
       /\ \/ f[q[a]].updated_at < f[q[b]].updated_at
          \/ /\ f[q[a]].updated_at = f[q[b]].updated_at
             /\ \E i, k \in DOMAIN s : i < k /\ s[i] = q[a] /\ s[k] = q[b]}

\* Mutant: the board keeps one job more than its size.
KeepOffByOne(more, longer) ==
  IF Len(longer) > kMaxOpen + kMaxClosedKept + 1
    THEN \E q \in StableSorts(longer, more) :
           /\ jobs' = [k \in DOMAIN more \ {Head(q)} |-> more[k]]
           /\ order' = Tail(q)
    ELSE jobs' = more /\ order' = longer

\* Beyond the size the board keeps, it is sorted and the job with the oldest stamp goes,
\* whatever its state.
Keep(more, longer) ==
  IF Len(longer) > kMaxOpen + kMaxClosedKept
    THEN \E q \in StableSorts(longer, more) :
           /\ jobs' = [k \in DOMAIN more \ {Head(q)} |-> more[k]]
           /\ order' = Tail(q)
    ELSE jobs' = more /\ order' = longer

\* Post refuses a job once kMaxOpen jobs are unclosed.
Room == Cardinality(Unclosed) < kMaxOpen

Post(j, to) ==
  /\ j \notin posted
  /\ Room
  /\ Keep([k \in OnBoard \cup {j} |-> IF k = j THEN NewJob(to) ELSE jobs[k]],
          Append(order, j))
  /\ Record("post", j)
  /\ posted' = posted \cup {j}
  /\ UNCHANGED <<presence, clock, ended, refusals>>

\* Mutant: going back to work keeps the question of the block before.
MoveKeepsQuestion(job, update) ==
  [job EXCEPT
     !.state = update.state,
     !.question = IF update.state = "blocked" THEN TRUE ELSE @,
     !.declined_by = IF update.state \in {"claimed", "working"} THEN None ELSE @,
     !.updated_at = clock]

\* Board::Move, the switch on the state a peer names.
Move(job, update) ==
  [job EXCEPT
     !.state = update.state,
     !.question = CASE update.state = "blocked" -> TRUE
                    [] update.state \in {"open", "claimed", "working"} -> FALSE
                    [] OTHER -> @,
     !.declined_by = IF update.state \in {"claimed", "working"} THEN None ELSE @,
     !.updated_at = clock]

\* The decline an update to `open` notes before it moves the job.
Declined(job, peer, update) ==
  IF update.state = "open" THEN [job EXCEPT !.declined_by = peer] ELSE job

\* Mutant: the same holder may decline a job it has already declined.
MayUpdateTwice(j, peer, update) ==
  /\ jobs[j].to = peer
  /\ ~Closed(jobs[j])
  /\ update.state = "blocked" => update.question

\* Mutant: any peer may move any job.
MayUpdateAnyones(j, peer, update) ==
  /\ ~Closed(jobs[j])
  /\ update.state = "open" => jobs[j].declined_by # peer
  /\ update.state = "blocked" => update.question

\* The refusals of Update: not the holder, already closed, already declined by this
\* peer, blocked without a question.
MayUpdate(j, peer, update) ==
  /\ jobs[j].to = peer
  /\ ~Closed(jobs[j])
  /\ update.state = "open" => jobs[j].declined_by # peer
  /\ update.state = "blocked" => update.question

Update(j, peer, update) ==
  /\ j \in OnBoard
  /\ MayUpdate(j, peer, update)
  /\ LET moved == Move(Declined(jobs[j], peer, update), update)
     IN  /\ jobs' = [jobs EXCEPT ![j] = moved]
         /\ ended' = IF Closed(moved) THEN [ended EXCEPT ![j] = moved.state] ELSE ended
         /\ presence' = IF peer = Self /\ presence # None
                          THEN [state |-> moved.state, job |-> j] ELSE presence
  /\ Record(update.state, j)
  /\ refusals' = [refusals EXCEPT ![j] =
                    CASE update.state = "open" -> @ + 1
                      [] update.state \in {"claimed", "working"} -> 0
                      [] OTHER -> @]
  /\ UNCHANGED <<order, clock, posted>>

\* A person answers a blocked job's question.
Answer(j) ==
  /\ j \in OnBoard
  /\ ~Closed(jobs[j])
  /\ jobs[j].state = "blocked"
  /\ jobs' = [jobs EXCEPT ![j] = [@ EXCEPT !.question = FALSE, !.state = "working",
                                          !.updated_at = clock]]
  /\ Record("answer", j)
  /\ UNCHANGED <<order, presence, clock, posted, ended, refusals>>

\* Mutant: a chase does not look whether the job has ended.
ChaseClosed(j) ==
  /\ j \in OnBoard
  /\ jobs' = [jobs EXCEPT ![j] = [@ EXCEPT !.question = FALSE, !.updated_at = clock,
                                          !.chased = TRUE]]
  /\ Record("chase", j)
  /\ UNCHANGED <<order, presence, clock, posted, ended, refusals>>

\* A person asks what is happening.  The question goes, the state stays.
Chase(j) ==
  /\ j \in OnBoard
  /\ ~Closed(jobs[j])
  /\ jobs' = [jobs EXCEPT ![j] = [@ EXCEPT !.question = FALSE, !.updated_at = clock,
                                          !.chased = TRUE]]
  /\ Record("chase", j)
  /\ UNCHANGED <<order, presence, clock, posted, ended, refusals>>

\* Mutant: a drop does not look whether the job already ended.
DropClosed(j) ==
  /\ j \in OnBoard
  /\ jobs' = [jobs EXCEPT ![j] = [@ EXCEPT !.question = FALSE, !.state = "cancelled",
                                          !.updated_at = clock]]
  /\ ended' = IF ended[j] = None THEN [ended EXCEPT ![j] = "cancelled"] ELSE ended
  /\ Record("drop", j)
  /\ UNCHANGED <<order, presence, clock, posted, refusals>>

\* A person takes a job back.
Drop(j) ==
  /\ j \in OnBoard
  /\ ~Closed(jobs[j])
  /\ jobs' = [jobs EXCEPT ![j] = [@ EXCEPT !.question = FALSE, !.state = "cancelled",
                                          !.updated_at = clock]]
  /\ ended' = [ended EXCEPT ![j] = "cancelled"]
  /\ Record("drop", j)
  /\ UNCHANGED <<order, presence, clock, posted, refusals>>

Next ==
  \/ Tick
  \/ TouchPeer
  \/ \E j \in JobId, p \in Peer : Post(j, p)
  \/ \E j \in JobId, p \in Peer, u \in JobUpdate : Update(j, p, u)
  \/ \E j \in JobId : Answer(j) \/ Chase(j) \/ Drop(j)

Spec == Init /\ [][Next]_vars

-----------------------------------------------------------------------------
\* The values the variables take.
TypeOK ==
  /\ OnBoard \in SUBSET posted
  /\ jobs \in [OnBoard -> Job]
  /\ order \in Seq(OnBoard)
  /\ presence \in {None} \cup [state : JobState \cup {None}, job : JobId \cup {None}]
  /\ audit \in Seq([kind : AuditKind, job : JobId])
  /\ clock \in 0..MaxClock
  /\ posted \in SUBSET JobId
  /\ ended \in [JobId -> {"done", "failed", "cancelled", None}]
  /\ refusals \in [JobId -> Nat]

\* The board never holds more unclosed jobs, more jobs or a longer trail than its limits
\* say, although a decline puts a job back to open and only Post looks at the limits
\* (Board::Post, Board::Record).
WithinLimits ==
  /\ Cardinality(Unclosed) <= kMaxOpen
  /\ Len(order) <= kMaxOpen + kMaxClosedKept
  /\ Len(audit) <= kMaxAudit

\* The outcome a caller was given stays what the board says of that job, and a job still
\* on the board with no announced outcome is not closed: no late update, answer, chase or
\* drop reopens or rewrites a settled job (the Closed() refusals of every verb).
OutcomeKept ==
  \A j \in OnBoard :
    IF Closed(jobs[j]) THEN ended[j] = jobs[j].state ELSE ended[j] = None

\* A holder that declined a job and has not taken it since cannot decline it again, by
\* whatever detour through blocked and Answer: each decline the board counts is of a job
\* its holder had in hand or was newly offered (Update's declined_by test).
DeclineNeedsTaking == \A j \in posted : refusals[j] <= 1

\* A blocked job states what it waits for unless a person has chased it, and a question
\* is left over only on a job its holder then closed (Move, Answer, Chase, Drop).
QuestionAccounted ==
  \A j \in OnBoard :
    /\ jobs[j].state = "blocked" /\ ~jobs[j].question => jobs[j].chased
    /\ jobs[j].question => jobs[j].state \in {"blocked", "done", "failed"}

\* What the trail last says about a job is how the job stands: the two are written by
\* different statements of each verb, and the trail outlives neither (Record).
TrailAgrees ==
  \A i \in DOMAIN audit :
    LET entry == audit[i]
        last == \A k \in DOMAIN audit : k > i => audit[k].job # entry.job
    IN  last /\ entry.job \in OnBoard =>
          CASE entry.kind = "post" -> jobs[entry.job].state = "open"
            [] entry.kind = "answer" -> jobs[entry.job].state = "working"
            [] entry.kind = "chase" -> entry.job \in Unclosed
            [] entry.kind = "drop" -> jobs[entry.job].state = "cancelled"
            [] OTHER -> jobs[entry.job].state = entry.kind

\* The job a peer is shown to be on is one addressed to it, and a peer shown as having
\* finished a job did finish it; a peer shown at work may be behind what a person did to
\* the job since (Update's loop over peers_).
PresenceHonest ==
  presence # None /\ presence.job \in OnBoard =>
    /\ jobs[presence.job].to = Self
    /\ presence.state \in {"done", "failed"} => jobs[presence.job].state = presence.state
=============================================================================
