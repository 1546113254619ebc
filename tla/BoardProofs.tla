---------------------------- MODULE BoardProofs ----------------------------
(***************************************************************************)
(* What holds of the board for every set of peers and ids and every value  *)
(* of its limits, and of hand-offs to the server that keeps it for every   *)
(* number of calls, posts, moves by hand and restarts.                     *)
(***************************************************************************)
EXTENDS HandOff, FiniteSetTheorems, SequenceTheorems, TLAPS

-----------------------------------------------------------------------------
(* Lemmas about the operators the actions are built from.                  *)

\* Move and the decline before it keep a job record a job record.
LEMMA MoveType ==
  ASSUME NEW job \in Job, NEW peer \in Peer, NEW u \in JobUpdate,
         clock \in 0..MaxClock
  PROVE  Move(Declined(job, peer, u), u) \in Job
<1>1. Declined(job, peer, u) \in Job
  BY DEF Declined, Job
<1>2. QED
  BY <1>1 DEF Move, Job, JobUpdate, JobState

\* Record keeps the trail a sequence of entries no longer than kMaxAudit.
LEMMA RecordType ==
  ASSUME audit \in Seq([kind : AuditKind, job : JobId]), Len(audit) <= kMaxAudit,
         NEW kind \in AuditKind, NEW j \in JobId, Record(kind, j)
  PROVE  /\ audit' \in Seq([kind : AuditKind, job : JobId])
         /\ Len(audit') <= kMaxAudit
<1> DEFINE entry == [kind |-> kind, job |-> j]
           longer == Append(audit, entry)
<1>1. entry \in [kind : AuditKind, job : JobId]
  OBVIOUS
<1>2. longer \in Seq([kind : AuditKind, job : JobId]) /\ Len(longer) = Len(audit) + 1
  BY <1>1
<1>3. audit' = IF Len(longer) > kMaxAudit THEN Tail(longer) ELSE longer
  BY DEF Record
<1> HIDE DEF longer
<1>4. QED
  BY <1>2, <1>3, LimitsAssumption DEF LimitsAssumption

\* A sequence whose elements all lie in T is a sequence over T.
LEMMA SeqNarrowed ==
  ASSUME NEW S, NEW T, NEW t \in Seq(S), \A i \in 1..Len(t) : t[i] \in T
  PROVE  t \in Seq(T)
<1>1. Len(t) \in Nat /\ t \in [1..Len(t) -> S]
  OBVIOUS
<1>2. t \in [1..Len(t) -> T]
  BY <1>1
<1>3. QED
  BY <1>1, <1>2

\* The first id of a stable sort is one of the ids sorted, and the rest are the others.
LEMMA SortType ==
  ASSUME NEW S, NEW s \in Seq(S), Len(s) > 0, NEW f, NEW q \in StableSorts(s, f)
  PROVE  /\ Head(q) \in S
         /\ Tail(q) \in Seq(S \ {Head(q)})
         /\ Len(Tail(q)) = Len(s) - 1
<1>1. q \in [1..Len(s) -> S]
  BY DEF StableSorts
<1>2. q \in Seq(S) /\ Len(q) = Len(s)
  BY <1>1
<1>3. \A i \in 1..Len(Tail(q)) : Tail(q)[i] \in S \ {q[1]}
  BY <1>1, <1>2 DEF StableSorts
<1>4. Head(q) = q[1] /\ q[1] \in S
  BY <1>1, <1>2
<1>5. Tail(q) \in Seq(S) /\ Len(Tail(q)) = Len(s) - 1
  BY <1>2
<1>6. Tail(q) \in Seq(S \ {q[1]})
  BY <1>3, <1>5, SeqNarrowed
<1>7. QED
  BY <1>4, <1>5, <1>6

-----------------------------------------------------------------------------
(* The inductive invariant.                                                *)

\* An id not handed out yet has no past; what Self is recorded on was posted; a job its
\* holder has not taken since declining it still names the holder in declined_by.
Coherent ==
  /\ \A j \in JobId \ posted : ended[j] = None /\ refusals[j] = 0
  /\ presence # None => presence.job \in posted \cup {None}
  /\ \A j \in OnBoard : refusals[j] # 0 => jobs[j].declined_by = jobs[j].to

IInv ==
  /\ TypeOK
  /\ IsFiniteSet(OnBoard)
  /\ WithinLimits
  /\ OutcomeKept
  /\ PresenceHonest
  /\ QuestionAccounted
  /\ DeclineNeedsTaking
  /\ Coherent

\* Rewriting the record of a job that has not closed: the ids stay, the records stay
\* records, and no job becomes unclosed.
LEMMA RewriteUnclosed ==
  ASSUME TypeOK, IsFiniteSet(OnBoard), Cardinality(Unclosed) <= kMaxOpen,
         NEW j \in Unclosed, NEW new \in Job, jobs' = [jobs EXCEPT ![j] = new]
  PROVE  /\ OnBoard' = OnBoard
         /\ jobs' \in [OnBoard -> Job]
         /\ jobs'[j] = new
         /\ \A k \in OnBoard \ {j} : jobs'[k] = jobs[k]
         /\ Cardinality(Unclosed') <= kMaxOpen
<1>1. j \in OnBoard /\ jobs \in [OnBoard -> Job]
  BY DEF Unclosed, TypeOK
<1>2. /\ OnBoard' = OnBoard
      /\ jobs' \in [OnBoard -> Job]
      /\ jobs'[j] = new
      /\ \A k \in OnBoard \ {j} : jobs'[k] = jobs[k]
  BY <1>1 DEF OnBoard
<1>3. Unclosed' \subseteq Unclosed
  BY <1>2 DEF Unclosed
<1>4. Unclosed \subseteq OnBoard
  BY DEF Unclosed
<1>5. IsFiniteSet(Unclosed)
  BY <1>4, FS_Subset
<1>6. Cardinality(Unclosed') <= Cardinality(Unclosed) /\ IsFiniteSet(Unclosed')
  BY <1>3, <1>5, FS_Subset
<1>7. Cardinality(Unclosed) \in Nat /\ Cardinality(Unclosed') \in Nat
  BY <1>5, <1>6, FS_CardinalityType
<1>8. QED
  BY <1>2, <1>6, <1>7, LimitsAssumption DEF LimitsAssumption

\* An empty board satisfies the invariant.
LEMMA InitIInv == Init => IInv
<1> SUFFICES ASSUME Init PROVE IInv
  OBVIOUS
<1>1. OnBoard = {} /\ Unclosed = {} /\ DOMAIN jobs = {}
  BY DEF Init, OnBoard, Unclosed
<1>2. IsFiniteSet(OnBoard) /\ Cardinality(Unclosed) = 0
  BY <1>1, FS_EmptySet
<1>3. TypeOK
  BY <1>1, LimitsAssumption DEF LimitsAssumption, Init, TypeOK
<1>4. WithinLimits
  BY <1>2, LimitsAssumption DEF LimitsAssumption, Init, WithinLimits
<1>5. OutcomeKept /\ PresenceHonest /\ QuestionAccounted /\ DeclineNeedsTaking /\ Coherent
  BY <1>1 DEF Init, OutcomeKept, PresenceHonest, QuestionAccounted, DeclineNeedsTaking, Coherent
<1>6. QED
  BY <1>2, <1>3, <1>4, <1>5 DEF IInv

\* A step that rewrites one unclosed job and adds a trail entry keeps the types and limits.
LEMMA RewriteTypes ==
  ASSUME IInv, NEW j \in Unclosed, NEW new \in Job, jobs' = [jobs EXCEPT ![j] = new],
         NEW kind \in AuditKind, Record(kind, j),
         order' = order, clock' = clock, posted' = posted,
         presence' \in {None} \cup [state : JobState \cup {None}, job : JobId \cup {None}],
         ended' \in [JobId -> {"done", "failed", "cancelled", None}],
         refusals' \in [JobId -> Nat]
  PROVE  /\ TypeOK' /\ IsFiniteSet(OnBoard)' /\ WithinLimits'
         /\ OnBoard' = OnBoard
         /\ jobs'[j] = new
         /\ \A k \in OnBoard \ {j} : jobs'[k] = jobs[k]
<1>1. TypeOK /\ IsFiniteSet(OnBoard) /\ WithinLimits /\ Cardinality(Unclosed) <= kMaxOpen
  BY DEF IInv, WithinLimits
<1>2. j \in JobId
  BY <1>1 DEF Unclosed, TypeOK
<1>3. /\ OnBoard' = OnBoard
      /\ jobs' \in [OnBoard -> Job]
      /\ jobs'[j] = new
      /\ \A k \in OnBoard \ {j} : jobs'[k] = jobs[k]
      /\ Cardinality(Unclosed') <= kMaxOpen
  BY <1>1, RewriteUnclosed
<1>4. audit' \in Seq([kind : AuditKind, job : JobId]) /\ Len(audit') <= kMaxAudit
  BY <1>1, <1>2, RecordType DEF TypeOK, WithinLimits
<1>5. TypeOK'
  BY <1>1, <1>3, <1>4 DEF TypeOK
<1>6. WithinLimits'
  BY <1>1, <1>3, <1>4 DEF WithinLimits
<1>7. QED
  BY <1>1, <1>3, <1>5, <1>6

\* A holder's update, a decline included, keeps it: only an unclosed job moves.
LEMMA UpdateIInv ==
  ASSUME IInv, NEW j \in JobId, NEW p \in Peer, NEW u \in JobUpdate, Update(j, p, u)
  PROVE  IInv'
<1> DEFINE new == Move(Declined(jobs[j], p, u), u)
<1>1. /\ TypeOK /\ j \in Unclosed /\ jobs[j] \in Job /\ jobs[j].to = p
      /\ u.state = "open" => jobs[j].declined_by # p
  BY DEF IInv, TypeOK, Update, MayUpdate, Unclosed
<1>2. new \in Job
  BY <1>1, MoveType DEF TypeOK
<1>3. /\ new.to = p
      /\ new.state = u.state
      /\ new.chased = jobs[j].chased
      /\ u.state = "blocked" => new.question
      /\ u.state \in {"open", "claimed", "working"} => ~new.question
      /\ u.state = "open" => new.declined_by = p
      /\ u.state \notin {"open", "claimed", "working"} => new.declined_by = jobs[j].declined_by
  BY <1>1 DEF Move, Declined, Job, JobUpdate, JobState
<1>4. u.state \in AuditKind /\ u.state \in JobState \ {"cancelled"}
  BY DEF JobUpdate, AuditKind
<1>5. /\ jobs' = [jobs EXCEPT ![j] = new]
      /\ ended' = IF Closed(new) THEN [ended EXCEPT ![j] = new.state] ELSE ended
      /\ presence' = IF p = Self /\ presence # None
                       THEN [state |-> new.state, job |-> j] ELSE presence
      /\ Record(u.state, j)
      /\ refusals' = [refusals EXCEPT ![j] =
                        CASE u.state = "open" -> refusals[j] + 1
                          [] u.state \in {"claimed", "working"} -> 0
                          [] OTHER -> refusals[j]]
      /\ order' = order /\ clock' = clock /\ posted' = posted
  BY DEF Update
<1> HIDE DEF new
<1>6. presence' \in {None} \cup [state : JobState \cup {None}, job : JobId \cup {None}]
  BY <1>1, <1>3, <1>4, <1>5 DEF TypeOK
<1>7. ended' \in [JobId -> {"done", "failed", "cancelled", None}]
  BY <1>1, <1>5 DEF TypeOK, Closed
<1>8. refusals' \in [JobId -> Nat]
  BY <1>1, <1>5 DEF TypeOK
<1>9. /\ TypeOK' /\ IsFiniteSet(OnBoard)' /\ WithinLimits'
      /\ OnBoard' = OnBoard
      /\ jobs'[j] = new
      /\ \A k \in OnBoard \ {j} : jobs'[k] = jobs[k]
  BY <1>1, <1>2, <1>4, <1>5, <1>6, <1>7, <1>8, RewriteTypes
<1>10. OutcomeKept'
  BY <1>1, <1>5, <1>9 DEF IInv, TypeOK, OutcomeKept, Closed, Unclosed
<1>11. PresenceHonest'
  BY <1>1, <1>3, <1>5, <1>9, NamesAssumption
    DEF NamesAssumption, IInv, TypeOK, PresenceHonest, Closed, Unclosed
<1>12. QuestionAccounted'
  BY <1>1, <1>3, <1>4, <1>5, <1>9 DEF IInv, TypeOK, QuestionAccounted, JobState
<1>13. Coherent'
  <2>1. \A k \in JobId \ posted' : ended'[k] = None /\ refusals'[k] = 0
    BY <1>1, <1>5 DEF IInv, TypeOK, Coherent, Unclosed
  <2>2. presence' # None => presence'.job \in posted' \cup {None}
    BY <1>1, <1>5 DEF IInv, TypeOK, Coherent, Unclosed
  <2>3. \A k \in OnBoard' : refusals'[k] # 0 => jobs'[k].declined_by = jobs'[k].to
    BY <1>1, <1>3, <1>5, <1>9 DEF IInv, TypeOK, Coherent, Unclosed
  <2>4. QED
    BY <2>1, <2>2, <2>3 DEF Coherent
<1>14. DeclineNeedsTaking'
  <2>1. u.state = "open" => refusals[j] = 0
    BY <1>1 DEF IInv, Coherent, Unclosed
  <2>2. refusals'[j] <= 1
    BY <1>1, <1>5, <2>1 DEF IInv, TypeOK, DeclineNeedsTaking, Unclosed
  <2>3. QED
    BY <1>1, <1>5, <2>2 DEF IInv, TypeOK, DeclineNeedsTaking
<1>15. QED
  BY <1>9, <1>10, <1>11, <1>12, <1>13, <1>14 DEF IInv

\* A person's answer keeps it.
LEMMA AnswerIInv ==
  ASSUME IInv, NEW j \in JobId, Answer(j)
  PROVE  IInv'
<1> DEFINE new == [jobs[j] EXCEPT !.question = FALSE, !.state = "working",
                                  !.updated_at = clock]
<1>1. TypeOK /\ j \in Unclosed /\ jobs[j] \in Job /\ jobs[j].state = "blocked"
  BY DEF IInv, TypeOK, Answer, Unclosed
<1>2. new \in Job
  BY <1>1, LimitsAssumption DEF LimitsAssumption, TypeOK, Job, JobState
<1>3. /\ new.to = jobs[j].to /\ new.declined_by = jobs[j].declined_by /\ ~new.question
      /\ new.state = "working"
  BY <1>1, LimitsAssumption DEF LimitsAssumption, Job
<1>4. "answer" \in AuditKind
  BY DEF AuditKind
<1>5. /\ jobs' = [jobs EXCEPT ![j] = new]
      /\ ended' = ended
      /\ Record("answer", j)
      /\ presence' = presence /\ refusals' = refusals
      /\ order' = order /\ clock' = clock /\ posted' = posted
  BY DEF Answer
<1> HIDE DEF new
<1>6. /\ presence' \in {None} \cup [state : JobState \cup {None}, job : JobId \cup {None}]
      /\ ended' \in [JobId -> {"done", "failed", "cancelled", None}]
      /\ refusals' \in [JobId -> Nat]
  BY <1>1, <1>5 DEF TypeOK
<1>7. /\ TypeOK' /\ IsFiniteSet(OnBoard)' /\ WithinLimits'
      /\ OnBoard' = OnBoard
      /\ jobs'[j] = new
      /\ \A k \in OnBoard \ {j} : jobs'[k] = jobs[k]
  BY <1>1, <1>2, <1>4, <1>5, <1>6, RewriteTypes
<1>8. OutcomeKept'
  BY <1>1, <1>3, <1>5, <1>7 DEF IInv, TypeOK, OutcomeKept, Closed, Unclosed
<1>9. PresenceHonest'
  BY <1>1, <1>3, <1>5, <1>7 DEF IInv, TypeOK, PresenceHonest, Closed, Unclosed
<1>10. QuestionAccounted'
  BY <1>1, <1>3, <1>7 DEF IInv, QuestionAccounted
<1>11. Coherent'
  BY <1>1, <1>3, <1>5, <1>7 DEF IInv, TypeOK, Coherent, Unclosed
<1>12. DeclineNeedsTaking'
  BY <1>5 DEF IInv, DeclineNeedsTaking
<1>13. QED
  BY <1>7, <1>8, <1>9, <1>10, <1>11, <1>12 DEF IInv

\* A person's chase keeps it: what loses its question has been chased.
LEMMA ChaseIInv ==
  ASSUME IInv, NEW j \in JobId, Chase(j)
  PROVE  IInv'
<1> DEFINE new == [jobs[j] EXCEPT !.question = FALSE, !.updated_at = clock, !.chased = TRUE]
<1>1. TypeOK /\ j \in Unclosed /\ jobs[j] \in Job
  BY DEF IInv, TypeOK, Chase, Unclosed
<1>2. new \in Job
  BY <1>1 DEF TypeOK, Job
<1>3. /\ new.to = jobs[j].to /\ new.declined_by = jobs[j].declined_by /\ ~new.question
      /\ new.state = jobs[j].state /\ new.chased
  BY <1>1 DEF Job
<1>4. "chase" \in AuditKind
  BY DEF AuditKind
<1>5. /\ jobs' = [jobs EXCEPT ![j] = new]
      /\ ended' = ended
      /\ Record("chase", j)
      /\ presence' = presence /\ refusals' = refusals
      /\ order' = order /\ clock' = clock /\ posted' = posted
  BY DEF Chase
<1> HIDE DEF new
<1>6. /\ presence' \in {None} \cup [state : JobState \cup {None}, job : JobId \cup {None}]
      /\ ended' \in [JobId -> {"done", "failed", "cancelled", None}]
      /\ refusals' \in [JobId -> Nat]
  BY <1>1, <1>5 DEF TypeOK
<1>7. /\ TypeOK' /\ IsFiniteSet(OnBoard)' /\ WithinLimits'
      /\ OnBoard' = OnBoard
      /\ jobs'[j] = new
      /\ \A k \in OnBoard \ {j} : jobs'[k] = jobs[k]
  BY <1>1, <1>2, <1>4, <1>5, <1>6, RewriteTypes
<1>8. OutcomeKept'
  BY <1>1, <1>3, <1>5, <1>7 DEF IInv, TypeOK, OutcomeKept, Closed, Unclosed
<1>9. PresenceHonest'
  BY <1>1, <1>3, <1>5, <1>7 DEF IInv, TypeOK, PresenceHonest, Closed, Unclosed
<1>10. QuestionAccounted'
  BY <1>1, <1>3, <1>7 DEF IInv, QuestionAccounted
<1>11. Coherent'
  BY <1>1, <1>3, <1>5, <1>7 DEF IInv, TypeOK, Coherent, Unclosed
<1>12. DeclineNeedsTaking'
  BY <1>5 DEF IInv, DeclineNeedsTaking
<1>13. QED
  BY <1>7, <1>8, <1>9, <1>10, <1>11, <1>12 DEF IInv

\* A person's drop keeps it.
LEMMA DropIInv ==
  ASSUME IInv, NEW j \in JobId, Drop(j)
  PROVE  IInv'
<1> DEFINE new == [jobs[j] EXCEPT !.question = FALSE, !.state = "cancelled",
                                  !.updated_at = clock]
<1>1. TypeOK /\ j \in Unclosed /\ jobs[j] \in Job
  BY DEF IInv, TypeOK, Drop, Unclosed
<1>2. new \in Job
  BY <1>1, LimitsAssumption DEF LimitsAssumption, TypeOK, Job, JobState
<1>3. /\ new.to = jobs[j].to /\ new.declined_by = jobs[j].declined_by /\ ~new.question
      /\ new.state = "cancelled"
  BY <1>1, LimitsAssumption DEF LimitsAssumption, Job
<1>4. "drop" \in AuditKind
  BY DEF AuditKind
<1>5. /\ jobs' = [jobs EXCEPT ![j] = new]
      /\ ended' = [ended EXCEPT ![j] = "cancelled"]
      /\ Record("drop", j)
      /\ presence' = presence /\ refusals' = refusals
      /\ order' = order /\ clock' = clock /\ posted' = posted
  BY DEF Drop
<1> HIDE DEF new
<1>6. /\ presence' \in {None} \cup [state : JobState \cup {None}, job : JobId \cup {None}]
      /\ ended' \in [JobId -> {"done", "failed", "cancelled", None}]
      /\ refusals' \in [JobId -> Nat]
  BY <1>1, <1>5 DEF TypeOK
<1>7. /\ TypeOK' /\ IsFiniteSet(OnBoard)' /\ WithinLimits'
      /\ OnBoard' = OnBoard
      /\ jobs'[j] = new
      /\ \A k \in OnBoard \ {j} : jobs'[k] = jobs[k]
  BY <1>1, <1>2, <1>4, <1>5, <1>6, RewriteTypes
<1>8. OutcomeKept'
  BY <1>1, <1>3, <1>5, <1>7 DEF IInv, TypeOK, OutcomeKept, Closed, Unclosed
<1>9. PresenceHonest'
  BY <1>1, <1>3, <1>5, <1>7 DEF IInv, TypeOK, PresenceHonest, Closed, Unclosed
<1>10. QuestionAccounted'
  BY <1>1, <1>3, <1>7 DEF IInv, QuestionAccounted
<1>11. Coherent'
  BY <1>1, <1>3, <1>5, <1>7 DEF IInv, TypeOK, Coherent, Unclosed
<1>12. DeclineNeedsTaking'
  BY <1>5 DEF IInv, DeclineNeedsTaking
<1>13. QED
  BY <1>7, <1>8, <1>9, <1>10, <1>11, <1>12 DEF IInv

\* A post keeps it, with and without the eviction of the oldest job.
LEMMA PostIInv ==
  ASSUME IInv, NEW j \in JobId, NEW p \in Peer, Post(j, p)
  PROVE  IInv'
<1> DEFINE more == [k \in OnBoard \cup {j} |-> IF k = j THEN NewJob(p) ELSE jobs[k]]
           longer == Append(order, j)
<1>1. /\ TypeOK /\ IsFiniteSet(OnBoard) /\ WithinLimits
      /\ j \notin posted /\ j \notin OnBoard
      /\ Cardinality(Unclosed) < kMaxOpen
      /\ ended[j] = None /\ refusals[j] = 0
      /\ presence' = presence /\ clock' = clock /\ ended' = ended /\ refusals' = refusals
      /\ posted' = posted \cup {j}
  BY DEF IInv, TypeOK, Coherent, Post, Room
<1>2. /\ NewJob(p) \in Job /\ NewJob(p).state = "open" /\ ~NewJob(p).question
      /\ NewJob(p).to = p
  BY <1>1, LimitsAssumption DEF LimitsAssumption, TypeOK, NewJob, Job, JobState
<1>3. /\ DOMAIN more = OnBoard \cup {j}
      /\ more[j] = NewJob(p)
      /\ \A k \in OnBoard : more[k] = jobs[k]
      /\ more \in [OnBoard \cup {j} -> Job]
  BY <1>1, <1>2 DEF TypeOK
<1>4. longer \in Seq(OnBoard \cup {j}) /\ Len(longer) = Len(order) + 1
  <2>1. order \in Seq(OnBoard)
    BY <1>1 DEF TypeOK
  <2>2. order \in Seq(OnBoard \cup {j})
    BY <2>1, SeqNarrowed
  <2>3. QED
    BY <2>2
<1>5. Keep(more, longer)
  BY DEF Post
<1> HIDE DEF more, longer
\* The records left are some of the old ones and the new one, and the order lists only them.
<1>6. /\ DOMAIN jobs' \subseteq OnBoard \cup {j}
      /\ \A k \in DOMAIN jobs' : jobs'[k] = more[k]
      /\ jobs' \in [DOMAIN jobs' -> Job]
      /\ order' \in Seq(DOMAIN jobs')
      /\ Len(order') <= kMaxOpen + kMaxClosedKept
  <2>1. CASE Len(longer) > kMaxOpen + kMaxClosedKept
    <3>1. PICK q \in StableSorts(longer, more) :
            /\ jobs' = [k \in DOMAIN more \ {Head(q)} |-> more[k]]
            /\ order' = Tail(q)
      BY <1>5, <2>1 DEF Keep
    <3>2. /\ Tail(q) \in Seq((OnBoard \cup {j}) \ {Head(q)})
          /\ Len(Tail(q)) = Len(longer) - 1
      BY <1>4, <2>1, LimitsAssumption, SortType DEF LimitsAssumption
    <3>3. DOMAIN jobs' = (OnBoard \cup {j}) \ {Head(q)}
      BY <1>3, <3>1
    <3>4. Len(order') <= kMaxOpen + kMaxClosedKept
      BY <1>1, <1>4, <3>1, <3>2, LimitsAssumption DEF LimitsAssumption, WithinLimits, TypeOK
    <3>5. (\A k \in DOMAIN jobs' : jobs'[k] = more[k]) /\ jobs' \in [DOMAIN jobs' -> Job]
      BY <1>3, <3>1
    <3>6. QED
      BY <3>1, <3>2, <3>3, <3>4, <3>5
  <2>2. CASE ~(Len(longer) > kMaxOpen + kMaxClosedKept)
    BY <1>3, <1>4, <1>5, <2>2, LimitsAssumption DEF LimitsAssumption, Keep
  <2>3. QED
    BY <2>1, <2>2
<1>7. IsFiniteSet(OnBoard')
  <2>1. IsFiniteSet(OnBoard \cup {j})
    BY <1>1, FS_AddElement
  <2>2. QED
    BY <1>6, <2>1, FS_Subset DEF OnBoard
<1>8. Cardinality(Unclosed') <= kMaxOpen
  <2>1. IsFiniteSet(Unclosed)
    BY <1>1, FS_Subset DEF Unclosed
  <2>n. Cardinality(Unclosed) \in Nat
    BY <2>1, FS_CardinalityType
  <2>a. /\ IsFiniteSet(Unclosed \cup {j})
        /\ Cardinality(Unclosed \cup {j}) =
             IF j \in Unclosed THEN Cardinality(Unclosed) ELSE Cardinality(Unclosed) + 1
    BY <2>1, FS_AddElement
  <2>2. /\ IsFiniteSet(Unclosed \cup {j})
        /\ Cardinality(Unclosed \cup {j}) <= Cardinality(Unclosed) + 1
    BY <2>n, <2>a
  <2>3. Unclosed' \subseteq Unclosed \cup {j}
    BY <1>3, <1>6 DEF Unclosed, OnBoard
  <2>4. Cardinality(Unclosed') <= Cardinality(Unclosed \cup {j}) /\ IsFiniteSet(Unclosed')
    BY <2>2, <2>3, FS_Subset
  <2>5. /\ Cardinality(Unclosed) \in Nat /\ Cardinality(Unclosed') \in Nat
        /\ Cardinality(Unclosed \cup {j}) \in Nat
    BY <2>1, <2>2, <2>4, FS_CardinalityType
  <2>6. QED
    BY <1>1, <2>2, <2>4, <2>5, LimitsAssumption DEF LimitsAssumption
<1>9. audit' \in Seq([kind : AuditKind, job : JobId]) /\ Len(audit') <= kMaxAudit
  BY <1>1, RecordType DEF Post, TypeOK, WithinLimits, AuditKind
<1>10. TypeOK'
  BY <1>1, <1>6, <1>9 DEF TypeOK, OnBoard
<1>11. WithinLimits'
  BY <1>6, <1>8, <1>9 DEF WithinLimits
<1>12. OutcomeKept'
  BY <1>1, <1>2, <1>3, <1>6 DEF IInv, OutcomeKept, Closed, OnBoard
<1>13. PresenceHonest'
  <2>1. presence # None => presence.job # j
    BY <1>1, NamesAssumption DEF NamesAssumption, IInv, Coherent
  <2>2. QED
    BY <1>1, <1>3, <1>6, <2>1 DEF IInv, PresenceHonest, OnBoard
<1>14. QuestionAccounted'
  BY <1>2, <1>3, <1>6 DEF IInv, QuestionAccounted, OnBoard
<1>15. Coherent'
  BY <1>1, <1>3, <1>6 DEF IInv, Coherent, OnBoard
<1>16. DeclineNeedsTaking'
  BY <1>1 DEF IInv, DeclineNeedsTaking
<1>17. QED
  BY <1>7, <1>10, <1>11, <1>12, <1>13, <1>14, <1>15, <1>16 DEF IInv

\* Every step keeps it.
LEMMA NextIInv == IInv /\ [Next]_vars => IInv'
<1> SUFFICES ASSUME IInv, [Next]_vars PROVE IInv'
  OBVIOUS
<1>1. CASE Tick
  BY <1>1, LimitsAssumption
    DEF LimitsAssumption, Tick, IInv, TypeOK, OnBoard, WithinLimits, Unclosed, OutcomeKept,
        PresenceHonest, QuestionAccounted, DeclineNeedsTaking, Coherent
<1>2. CASE TouchPeer
  BY <1>2, NamesAssumption
    DEF NamesAssumption, TouchPeer, IInv, TypeOK, OnBoard, WithinLimits, Unclosed,
        OutcomeKept, PresenceHonest, QuestionAccounted, DeclineNeedsTaking, Coherent
<1>3. CASE \E j \in JobId, p \in Peer : Post(j, p)
  BY <1>3, PostIInv
<1>4. CASE \E j \in JobId, p \in Peer, u \in JobUpdate : Update(j, p, u)
  BY <1>4, UpdateIInv
<1>5. CASE \E j \in JobId : Answer(j) \/ Chase(j) \/ Drop(j)
  BY <1>5, AnswerIInv, ChaseIInv, DropIInv
<1>6. CASE UNCHANGED vars
  BY <1>6
    DEF vars, IInv, TypeOK, OnBoard, WithinLimits, Unclosed, OutcomeKept, PresenceHonest,
        QuestionAccounted, DeclineNeedsTaking, Coherent
<1>7. QED
  BY <1>1, <1>2, <1>3, <1>4, <1>5, <1>6 DEF Next

\* It holds of every reachable board.
LEMMA SpecIInv == Spec => []IInv
  BY InitIInv, NextIInv, PTL DEF Spec

-----------------------------------------------------------------------------
(* The theorems.                                                           *)

\* Every reachable board is well typed (the fields and deques of Board).
THEOREM TypeCorrect == Spec => []TypeOK
<1>1. IInv => TypeOK
  BY DEF IInv
<1>2. QED
  BY <1>1, SpecIInv, PTL

\* No sequence of posts, declines, updates and drops takes the board past kMaxOpen
\* unclosed jobs, its size or the length of its trail (Board::Post, Board::Record).
THEOREM LimitsHold == Spec => []WithinLimits
<1>1. IInv => WithinLimits
  BY DEF IInv
<1>2. QED
  BY <1>1, SpecIInv, PTL

\* The outcome a caller was handed is what the board says for as long as it keeps the job
\* (the Closed() refusals of Update, Answer, Chase and Drop).
THEOREM OutcomesFinal == Spec => []OutcomeKept
<1>1. IInv => OutcomeKept
  BY DEF IInv
<1>2. QED
  BY <1>1, SpecIInv, PTL

\* What the board shows its own server as having finished it did finish, and was its own
\* (Update's loop over peers_).
THEOREM PresenceIsHonest == Spec => []PresenceHonest
<1>1. IInv => PresenceHonest
  BY DEF IInv
<1>2. QED
  BY <1>1, SpecIInv, PTL

\* A blocked job without a question has been chased, and no other unclosed job carries a
\* question (Board::Move, Board::Chase).
THEOREM QuestionsAccounted == Spec => []QuestionAccounted
<1>1. IInv => QuestionAccounted
  BY DEF IInv
<1>2. QED
  BY <1>1, SpecIInv, PTL

\* A job its holder declined and has not taken since is not declined again: each decline
\* that is counted is of a job in its holder's hands (Update's declined_by test).
THEOREM DeclinesNeedTaking == Spec => []DeclineNeedsTaking
<1>1. IInv => DeclineNeedsTaking
  BY DEF IInv
<1>2. QED
  BY <1>1, SpecIInv, PTL

-----------------------------------------------------------------------------
(* The trail.                                                              *)

\* What an entry of this kind, the last about its job, says of the job's record.
Says(kind, job) ==
  CASE kind = "post" -> job.state = "open"
    [] kind = "answer" -> job.state = "working"
    [] kind = "chase" -> ~Closed(job)
    [] kind = "drop" -> job.state = "cancelled"
    [] OTHER -> job.state = kind

\* TrailAgrees, entry by entry.
LEMMA TrailSays ==
  TrailAgrees <=>
    \A i \in DOMAIN audit :
      /\ \A k \in DOMAIN audit : k > i => audit[k].job # audit[i].job
      /\ audit[i].job \in OnBoard
      => Says(audit[i].kind, jobs[audit[i].job])
BY DEF TrailAgrees, Says, Unclosed

\* A verb that records what it did to its job, and touches no other job but to drop it, keeps
\* the trail true: the entries before it are no longer the last about that job, and the one
\* that goes at the other end was not needed.
LEMMA TrailStep ==
  ASSUME TypeOK, TrailAgrees, NEW kind \in AuditKind, NEW j \in JobId, Record(kind, j),
         \A k \in OnBoard' : k # j => k \in OnBoard /\ jobs'[k] = jobs[k],
         j \in OnBoard' => Says(kind, jobs'[j])
  PROVE  TrailAgrees'
<1> DEFINE Entry == [kind : AuditKind, job : JobId]
           entry == [kind |-> kind, job |-> j]
           longer == Append(audit, entry)
           n == Len(audit)
<1>0. audit \in Seq(Entry) /\ entry \in Entry /\ n \in Nat /\ DOMAIN audit = 1..n
  BY DEF TypeOK
<1>1. /\ longer \in Seq(Entry) /\ Len(longer) = n + 1 /\ longer[n + 1] = entry
      /\ \A i \in 1..n : longer[i] = audit[i]
  BY <1>0
<1>2. entry.kind = kind /\ entry.job = j
  OBVIOUS
<1>3. audit' = IF Len(longer) > kMaxAudit THEN Tail(longer) ELSE longer
  BY DEF Record
<1> HIDE DEF longer, entry, Entry
\* Where the entries of the new trail come from: all but the first of the old one, or all.
<1>4. \E s \in {0, 1} : /\ Len(audit') = n + 1 - s /\ DOMAIN audit' = 1..(n + 1 - s)
                        /\ \A i \in 1..(n + 1 - s) : audit'[i] = longer[i + s]
  <2>1. CASE Len(longer) > kMaxAudit
    <3>1. /\ Len(Tail(longer)) = n /\ DOMAIN Tail(longer) = 1..n
          /\ \A i \in 1..n : Tail(longer)[i] = longer[i + 1]
      BY <1>0, <1>1
    <3>2. audit' = Tail(longer) /\ n + 1 - 1 = n
      BY <1>0, <1>3, <2>1
    <3>3. QED
      BY <3>1, <3>2
  <2>2. CASE ~(Len(longer) > kMaxAudit)
    <3>1. audit' = longer /\ DOMAIN longer = 1..(n + 1) /\ n + 1 - 0 = n + 1
      BY <1>0, <1>1, <1>3, <2>2
    <3>2. \A i \in 1..(n + 1) : i + 0 = i
      OBVIOUS
    <3>3. QED
      BY <1>1, <3>1, <3>2
  <2>3. QED
    BY <2>1, <2>2
<1>5. PICK s \in {0, 1} : /\ Len(audit') = n + 1 - s /\ DOMAIN audit' = 1..(n + 1 - s)
                          /\ \A i \in 1..(n + 1 - s) : audit'[i] = longer[i + s]
  BY <1>4
<1>6. s \in Nat
  OBVIOUS
<1>7. ASSUME NEW i \in DOMAIN audit',
             \A k \in DOMAIN audit' : k > i => audit'[k].job # audit'[i].job,
             audit'[i].job \in OnBoard'
      PROVE  Says(audit'[i].kind, jobs'[audit'[i].job])
  <2> DEFINE from == i + s
  <2>1. i \in Nat /\ from \in 1..(n + 1) /\ audit'[i] = longer[from]
    BY <1>0, <1>5, <1>6
  <2>2. CASE from = n + 1
    BY <1>1, <1>2, <1>7, <2>1, <2>2
  <2>3. CASE from # n + 1
    <3>1. from \in 1..n /\ audit'[i] = audit[from]
      BY <1>0, <1>1, <2>1, <2>3
    <3>2. ASSUME NEW k \in 1..(n + 1), k > from
          PROVE  longer[k].job # audit[from].job
      <4>1. k - s \in DOMAIN audit' /\ k - s > i /\ (k - s) + s = k /\ k - s \in 1..(n + 1 - s)
        BY <1>0, <1>5, <1>6, <2>1, <3>2
      <4>2. audit'[k - s] = longer[k]
        BY <1>5, <4>1
      <4>3. QED
        BY <1>7, <3>1, <4>1, <4>2
    <3>3. audit[from].job # j
      <4>1. n + 1 \in 1..(n + 1) /\ n + 1 > from
        BY <1>0, <3>1
      <4>2. QED
        BY <1>1, <1>2, <3>2, <4>1
    <3>4. \A k \in DOMAIN audit : k > from => audit[k].job # audit[from].job
      <4> SUFFICES ASSUME NEW k \in DOMAIN audit, k > from
                   PROVE  audit[k].job # audit[from].job
        OBVIOUS
      <4>1. k \in 1..(n + 1) /\ longer[k] = audit[k]
        BY <1>0, <1>1
      <4>2. QED
        BY <3>2, <4>1
    <3>5. audit[from].job \in OnBoard /\ jobs'[audit[from].job] = jobs[audit[from].job]
      BY <1>7, <3>1, <3>3
    <3>6. from \in DOMAIN audit
      BY <1>0, <3>1
    <3>7. Says(audit[from].kind, jobs[audit[from].job])
      BY <3>4, <3>5, <3>6, TrailSays
    <3>8. QED
      BY <3>1, <3>5, <3>7
  <2>4. QED
    BY <2>2, <2>3
<1>8. QED
  BY <1>7 DEF TrailAgrees, Says, Unclosed

\* Every verb does to its job what it records.
LEMMA NextTrail == IInv /\ TrailAgrees /\ [Next]_vars => TrailAgrees'
<1> SUFFICES ASSUME IInv, TrailAgrees, [Next]_vars PROVE TrailAgrees'
  OBVIOUS
<1>0. TypeOK /\ jobs \in [OnBoard -> Job]
  BY DEF IInv, TypeOK
<1>1. ASSUME UNCHANGED <<jobs, audit>>
      PROVE  TrailAgrees'
  BY <1>1 DEF TrailAgrees, OnBoard, Unclosed
\* A verb that rewrites one record.
<1>2. ASSUME NEW j \in OnBoard, NEW new, jobs' = [jobs EXCEPT ![j] = new],
             NEW kind \in AuditKind, Record(kind, j), Says(kind, new)
      PROVE  TrailAgrees'
  <2>1. OnBoard' = OnBoard /\ jobs'[j] = new /\ \A k \in OnBoard : k # j => jobs'[k] = jobs[k]
    BY <1>0, <1>2 DEF OnBoard
  <2>2. j \in JobId
    BY <1>0 DEF TypeOK
  <2>3. QED
    BY <1>0, <1>2, <2>1, <2>2, TrailStep
<1>3. ASSUME NEW j \in JobId, NEW p \in Peer, Post(j, p)
      PROVE  TrailAgrees'
  <2> DEFINE more == [k \in OnBoard \cup {j} |-> IF k = j THEN NewJob(p) ELSE jobs[k]]
             longer == Append(order, j)
  <2>1. Keep(more, longer) /\ Record("post", j)
    BY <1>3 DEF Post
  <2>2. DOMAIN more = OnBoard \cup {j} /\ \A k \in OnBoard : k # j => more[k] = jobs[k]
    OBVIOUS
  <2>3. more[j].state = "open"
    BY DEF NewJob
  <2> HIDE DEF more, longer
  <2>4. OnBoard' \subseteq OnBoard \cup {j} /\ \A k \in OnBoard' : jobs'[k] = more[k]
    BY <2>1, <2>2 DEF Keep, OnBoard
  <2>5. "post" \in AuditKind
    BY DEF AuditKind
  <2>6. j \in OnBoard' => Says("post", jobs'[j])
    BY <2>3, <2>4 DEF Says
  <2>7. \A k \in OnBoard' : k # j => k \in OnBoard /\ jobs'[k] = jobs[k]
    BY <2>2, <2>4
  <2>8. QED
    BY <1>0, <2>1, <2>5, <2>6, <2>7, TrailStep
<1>4. ASSUME NEW j \in JobId, NEW p \in Peer, NEW u \in JobUpdate, Update(j, p, u)
      PROVE  TrailAgrees'
  <2> DEFINE new == Move(Declined(jobs[j], p, u), u)
  <2>1. j \in OnBoard /\ jobs' = [jobs EXCEPT ![j] = new] /\ Record(u.state, j)
    BY <1>4 DEF Update
  <2>2. jobs[j] \in Job
    BY <1>0, <2>1
  <2>3. new.state = u.state
    BY <2>2 DEF Move, Declined, Job
  <2>4. u.state \in AuditKind /\ u.state \notin {"post", "answer", "chase", "drop"}
    BY DEF JobUpdate, AuditKind, JobState
  <2> HIDE DEF new
  <2>5. Says(u.state, new)
    BY <2>3, <2>4 DEF Says
  <2>6. QED
    BY <1>2, <2>1, <2>4, <2>5
<1>5. ASSUME NEW j \in JobId, Answer(j) \/ Chase(j) \/ Drop(j)
      PROVE  TrailAgrees'
  <2>1. /\ j \in OnBoard /\ jobs[j] \in Job /\ ~Closed(jobs[j])
        /\ {"answer", "chase", "drop"} \subseteq AuditKind
    BY <1>0, <1>5 DEF Answer, Chase, Drop, AuditKind
  <2>2. CASE Answer(j)
    <3> DEFINE new == [jobs[j] EXCEPT !.question = FALSE, !.state = "working",
                                      !.updated_at = clock]
    <3>1. new.state = "working"
      BY <2>1 DEF Job
    <3>2. jobs' = [jobs EXCEPT ![j] = new] /\ Record("answer", j)
      BY <2>2 DEF Answer
    <3> HIDE DEF new
    <3>3. Says("answer", new)
      BY <3>1 DEF Says
    <3>4. QED
      BY <1>2, <2>1, <3>2, <3>3
  <2>3. CASE Chase(j)
    <3> DEFINE new == [jobs[j] EXCEPT !.question = FALSE, !.updated_at = clock,
                                      !.chased = TRUE]
    <3>1. new.state = jobs[j].state
      BY <2>1 DEF Job
    <3>2. jobs' = [jobs EXCEPT ![j] = new] /\ Record("chase", j)
      BY <2>3 DEF Chase
    <3> HIDE DEF new
    <3>3. Says("chase", new)
      BY <2>1, <3>1 DEF Says, Closed
    <3>4. QED
      BY <1>2, <2>1, <3>2, <3>3
  <2>4. CASE Drop(j)
    <3> DEFINE new == [jobs[j] EXCEPT !.question = FALSE, !.state = "cancelled",
                                      !.updated_at = clock]
    <3>1. new.state = "cancelled"
      BY <2>1 DEF Job
    <3>2. jobs' = [jobs EXCEPT ![j] = new] /\ Record("drop", j)
      BY <2>4 DEF Drop
    <3> HIDE DEF new
    <3>3. Says("drop", new)
      BY <3>1 DEF Says
    <3>4. QED
      BY <1>2, <2>1, <3>2, <3>3
  <2>5. QED
    BY <1>5, <2>2, <2>3, <2>4
<1>6. CASE Tick \/ TouchPeer \/ UNCHANGED vars
  BY <1>1, <1>6 DEF Tick, TouchPeer, vars
<1>7. QED
  BY <1>3, <1>4, <1>5, <1>6 DEF Next

\* What the trail last says about a job is how the job stands (Record and each verb), for any
\* number of jobs and a trail of any length.
THEOREM TrailHeld == Spec => []TrailAgrees
<1>1. Init => TrailAgrees
  BY DEF Init, TrailAgrees
<1>2. QED
  BY <1>1, NextTrail, SpecIInv, PTL DEF Spec

-----------------------------------------------------------------------------
(* The board under a hand-off.                                             *)

\* What a receiver does to its board is a step of the board, but for a restart.
LEMMA BoardMoves ==
  ASSUME TypeOK, HandOffNext \/ UNCHANGED handOffVars
  PROVE  [Next]_vars \/ Restart
<1>1. OnBoard \subseteq JobId
  BY DEF TypeOK
<1>2. \A s \in {"claimed", "done", "failed"} : [state |-> s, question |-> FALSE] \in JobUpdate
  BY DEF JobUpdate, JobState
<1>3. ASSUME NEW c \in Call, HandleApiJobsPost(c)
      PROVE  [Next]_vars
  BY <1>3 DEF HandleApiJobsPost, Next, board
<1>4. ASSUME NEW c \in Call, HandlePeerMessage(c)
      PROVE  [Next]_vars
  <2>1. CASE Update(made[c], Self, Claim)
    <3>1. made[c] \in JobId /\ Claim \in JobUpdate /\ Self \in Peer
      BY <2>1, <1>1, <1>2, NamesAssumption DEF Update, Claim
    <3>2. QED
      BY <2>1, <3>1 DEF Next
  <2>2. QED
    BY <2>1, <1>4 DEF HandlePeerMessage, board
<1>5. ASSUME NEW c \in Call, CloseBoardJob(c)
      PROVE  [Next]_vars
  <2> DEFINE u == [state |-> Outcome(c), question |-> FALSE]
  <2>1. u \in JobUpdate
    BY <1>2 DEF Outcome
  <2> HIDE DEF u
  <2>2. CASE Update(made[c], Self, u)
    <3>1. made[c] \in JobId /\ Self \in Peer
      BY <2>2, <1>1, NamesAssumption DEF Update
    <3>2. QED
      BY <2>1, <2>2, <3>1 DEF Next
  <2>3. QED
    BY <2>2, <1>5 DEF CloseBoardJob, board, u
<1>6. CASE HandleApiJobsPatch
  BY <1>1, <1>6 DEF HandleApiJobsPatch, Next
<1>7. CASE HandleVerbs
  BY <1>1, <1>7 DEF HandleVerbs, Next
<1>8. CASE Touch
  BY <1>8 DEF Touch, Next
<1>9. ASSUME NEW c \in Call,
             \/ PostJob(c) \/ PostAnswered(c) \/ PostFails(c) \/ SendAnswered(c) \/ SendFails(c)
             \/ \E how \in {"well", "badly", "cancelled"} : EndTurn(c, how)
      PROVE  [Next]_vars
  BY <1>9 DEF PostJob, PostAnswered, PostFails, SendAnswered, SendFails, EndTurn, board
<1>10. CASE Take \/ UNCHANGED handOffVars
  BY <1>10 DEF Take, board, handOffVars
<1>11. CASE OtherPost
  BY <1>11 DEF OtherPost, Next
<1>12. QED
  BY <1>3, <1>4, <1>5, <1>6, <1>7, <1>8, <1>9, <1>10, <1>11 DEF HandOffNext, Worker

\* A receiver that starts again has an empty board, and its past.
LEMMA RestartBoard ==
  ASSUME IInv, Restart
  PROVE  IInv' /\ TrailAgrees'
<1>1. OnBoard' = {} /\ Unclosed' = {} /\ DOMAIN jobs' = {}
  BY DEF Restart, OnBoard, Unclosed
<1>2. IsFiniteSet(OnBoard') /\ Cardinality(Unclosed') = 0
  BY <1>1, FS_EmptySet
<1>3. TypeOK'
  BY <1>1 DEF IInv, Restart, TypeOK
<1>4. WithinLimits'
  BY <1>2, LimitsAssumption DEF LimitsAssumption, Restart, WithinLimits
<1>5. OutcomeKept' /\ PresenceHonest' /\ QuestionAccounted'
  BY <1>1 DEF Restart, OutcomeKept, PresenceHonest, QuestionAccounted
<1>6. DeclineNeedsTaking' /\ Coherent'
  BY <1>1 DEF IInv, Restart, DeclineNeedsTaking, Coherent
<1>7. TrailAgrees'
  BY DEF Restart, TrailAgrees
<1>8. QED
  BY <1>2, <1>3, <1>4, <1>5, <1>6, <1>7 DEF IInv

\* The board keeps all it promises while jobs are handed over, whatever is lost or late, and
\* over restarts of the server that keeps it.
THEOREM BoardKept == HandOffSpec => [](IInv /\ TrailAgrees)
<1>1. HandOffInit => IInv /\ TrailAgrees
  <2>1. Init => TrailAgrees
    BY DEF Init, TrailAgrees
  <2>2. QED
    BY <2>1, InitIInv DEF HandOffInit
<1>2. IInv /\ TrailAgrees /\ [HandOffNext]_handOffVars => (IInv /\ TrailAgrees)'
  <2> SUFFICES ASSUME IInv, TrailAgrees, [HandOffNext]_handOffVars
               PROVE  IInv' /\ TrailAgrees'
    OBVIOUS
  <2>1. [Next]_vars \/ Restart
    BY BoardMoves DEF IInv
  <2>2. QED
    BY <2>1, RestartBoard, NextIInv, NextTrail
<1>3. QED
  BY <1>1, <1>2, PTL DEF HandOffSpec

-----------------------------------------------------------------------------
(* What the verbs do to the job they name, and to the others.              *)

\* A new job is open, and the others are as they were or gone.
LEMMA PostEffect ==
  ASSUME NEW j, NEW to, Post(j, to)
  PROVE  /\ j \notin posted /\ posted' = posted \cup {j}
         /\ \A k \in OnBoard' : k # j => k \in OnBoard /\ jobs'[k] = jobs[k]
         /\ j \in OnBoard' => jobs'[j].state = "open"
<1> DEFINE more == [k \in OnBoard \cup {j} |-> IF k = j THEN NewJob(to) ELSE jobs[k]]
<1>1. j \notin posted /\ posted' = posted \cup {j} /\ Keep(more, Append(order, j))
  BY DEF Post
<1>2. /\ DOMAIN more = OnBoard \cup {j} /\ more[j] = NewJob(to)
      /\ \A k \in OnBoard : k # j => more[k] = jobs[k]
  OBVIOUS
<1>3. NewJob(to).state = "open"
  BY DEF NewJob
<1> HIDE DEF more
<1>4. \A k \in OnBoard' : k \in DOMAIN more /\ jobs'[k] = more[k]
  <2>1. CASE jobs' = more
    BY <2>1 DEF OnBoard
  <2>2. CASE \E q : jobs' = [k \in DOMAIN more \ {Head(q)} |-> more[k]]
    BY <2>2 DEF OnBoard
  <2>3. QED
    BY <1>1, <2>1, <2>2 DEF Keep
<1>5. QED
  BY <1>1, <1>2, <1>3, <1>4

\* A holder's update gives the job the state it names.
LEMMA UpdateEffect ==
  ASSUME TypeOK, NEW j, NEW p \in Peer, NEW u \in JobUpdate, Update(j, p, u)
  PROVE  /\ posted' = posted /\ OnBoard' = OnBoard /\ j \in OnBoard
         /\ \A k \in OnBoard : k # j => jobs'[k] = jobs[k]
         /\ jobs'[j].state = u.state /\ jobs'[j].to = p /\ jobs[j].to = p /\ ~Closed(jobs[j])
<1> DEFINE new == Move(Declined(jobs[j], p, u), u)
<1>1. /\ j \in OnBoard /\ jobs[j] \in Job /\ jobs[j].to = p /\ ~Closed(jobs[j])
      /\ jobs' = [jobs EXCEPT ![j] = new] /\ posted' = posted /\ jobs \in [OnBoard -> Job]
  BY DEF Update, MayUpdate, TypeOK
<1>2. new.state = u.state /\ new.to = p
  BY <1>1 DEF Move, Declined, Job, JobUpdate, JobState
<1> HIDE DEF new
<1>3. QED
  BY <1>1, <1>2 DEF OnBoard

\* A person's verb takes a job back, or leaves its state unless it was blocked.
LEMMA VerbEffect ==
  ASSUME TypeOK, NEW j, Answer(j) \/ Chase(j) \/ Drop(j)
  PROVE  /\ posted' = posted /\ OnBoard' = OnBoard /\ j \in OnBoard
         /\ \A k \in OnBoard : k # j => jobs'[k] = jobs[k]
         /\ jobs'[j].to = jobs[j].to
         /\ \/ jobs'[j].state \in {jobs[j].state, "cancelled"}
            \/ jobs[j].state = "blocked"
<1> DEFINE a == [jobs[j] EXCEPT !.question = FALSE, !.state = "working", !.updated_at = clock]
           b == [jobs[j] EXCEPT !.question = FALSE, !.updated_at = clock, !.chased = TRUE]
           d == [jobs[j] EXCEPT !.question = FALSE, !.state = "cancelled", !.updated_at = clock]
<1>1. /\ j \in OnBoard /\ jobs[j] \in Job /\ posted' = posted /\ jobs \in [OnBoard -> Job]
      /\ \/ jobs' = [jobs EXCEPT ![j] = a] /\ jobs[j].state = "blocked"
         \/ jobs' = [jobs EXCEPT ![j] = b] \/ jobs' = [jobs EXCEPT ![j] = d]
  BY DEF Answer, Chase, Drop, TypeOK
<1>2. /\ a.to = jobs[j].to /\ b.to = jobs[j].to /\ d.to = jobs[j].to
      /\ b.state = jobs[j].state /\ d.state = "cancelled"
  BY <1>1 DEF Job
<1> HIDE DEF a, b, d
<1>3. QED
  BY <1>1, <1>2 DEF OnBoard

-----------------------------------------------------------------------------
(* The hand-off's invariant.                                               *)

At == {"idle", "posting", "sending", "not taken", "not arrived", "queued"}
Wire == {"nothing", "post", "job", "message", "accepted", "refusal"}
Turns == {"none", "queued"} \cup Running \cup TurnEnd

\* Where the tool, its exchange and the turn of one call stand together.
Stands(a, w, m, t) ==
  /\ a = "idle" => w = "nothing" /\ t = "none"
  /\ a = "posting" => w \in {"post", "job", "refusal"} /\ t = "none"
  /\ a = "sending" => w \in {"message", "accepted", "refusal"}
  /\ a = "not taken" => w \in {"nothing", "post"} /\ t = "none"
  /\ a = "not arrived" => w \in {"nothing", "message"}
  /\ a = "queued" => w = "nothing" /\ t # "none"
  /\ a = "idle" \/ w = "post" => m = None
  /\ a \in {"sending", "not arrived"} \/ w = "job" => m # None
  /\ w \in {"message", "refusal"} => t = "none"
  /\ w = "accepted" => t # "none"

\* The calls that wait are in the queue, each once.
Waits ==
  /\ queue \in Seq(Call)
  /\ \A i \in DOMAIN queue : turn[queue[i]] = "queued"
  /\ \A i, k \in DOMAIN queue : queue[i] = queue[k] => i = k

\* What the state of a job tells of the turn that was queued for it.
Tells(s, t) ==
  CASE s = "open" -> t = "none"
    [] s = "claimed" -> t \in {"queued", "cancelled"} \cup Running
    [] s \in {"done", "failed"} -> t = s
    [] OTHER -> s = "cancelled"

\* A job with a turn is this server's, and one nobody moved by hand tells of its turn.
Fits(c) ==
  made[c] \in OnBoard =>
    /\ turn[c] # "none" => jobs[made[c]].to = Self
    /\ made[c] \notin moved => Tells(jobs[made[c]].state, turn[c])

\* A call whose message is said not to have arrived has a turn if its acceptance was not read.
UnreadInv ==
  /\ unread \in SUBSET Call
  /\ \A c \in Call : c \in unread => at[c] = "not arrived" /\ turn[c] # "none"
  /\ \A c \in Call : at[c] = "not arrived" /\ turn[c] # "none" => c \in unread

HandOffInv ==
  /\ at \in [Call -> At] /\ wire \in [Call -> Wire] /\ turn \in [Call -> Turns]
  /\ made \in [Call -> posted \cup {None}]
  /\ \A c \in Call : Stands(at[c], wire[c], made[c], turn[c])
  /\ \A c, d \in Call : made[c] = made[d] /\ made[c] # None => c = d
  /\ Waits
  /\ \A c \in Call : Fits(c)

\* No call is made, nothing waits, when the receiver is first started.
LEMMA HandOffInitInv == HandOffInit => HandOffInv
BY DEF HandOffInit, HandOffInv, At, Wire, Turns, Stands, Waits, Fits, Init, OnBoard

\* BoardTellsTurn, call by call.
LEMMA Legible ==
  ASSUME HandOffInv, UnreadInv
  PROVE  HandOffLegible
<1>1. SaidTrue
  BY DEF HandOffInv, UnreadInv, Stands, SaidTrue
<1>2. BoardTellsTurn
  BY DEF HandOffInv, Fits, Tells, BoardTellsTurn
<1>3. QED
  BY <1>1, <1>2 DEF HandOffLegible

\* A call whose job is left alone, or gone, and whose turn stands where it stood.
LEMMA FitsKept ==
  ASSUME NEW d, Fits(d), made'[d] = made[d], turn'[d] = turn[d], moved \subseteq moved',
         made[d] \in OnBoard' => made[d] \in OnBoard /\ jobs'[made[d]] = jobs[made[d]]
  PROVE  Fits(d)'
BY DEF Fits

\* A step of one call's exchange only.
LEMMA ExchangeStep ==
  ASSUME HandOffInv, NEW c \in Call, NEW a \in At, NEW w \in Wire,
         at' = [at EXCEPT ![c] = a], wire' = [wire EXCEPT ![c] = w],
         UNCHANGED <<vars, made, queue, turn, moved>>,
         Stands(a, w, made[c], turn[c])
  PROVE  HandOffInv'
<1>1. /\ at' \in [Call -> At] /\ wire' \in [Call -> Wire] /\ turn' \in [Call -> Turns]
      /\ made' \in [Call -> posted' \cup {None}]
  BY DEF HandOffInv, vars
<1>2. ASSUME NEW d \in Call
      PROVE  Stands(at'[d], wire'[d], made'[d], turn'[d])
  BY DEF HandOffInv
<1>3. \A d, e \in Call : made'[d] = made'[e] /\ made'[d] # None => d = e
  BY DEF HandOffInv
<1>4. Waits'
  BY DEF HandOffInv, Waits
<1>5. \A d \in Call : Fits(d)'
  BY DEF HandOffInv, Fits, vars, OnBoard
<1>6. QED
  BY <1>1, <1>2, <1>3, <1>4, <1>5 DEF HandOffInv, Stands

\* The sender's steps.
LEMMA SenderStep ==
  ASSUME HandOffInv, NEW c \in Call,
         PostJob(c) \/ PostAnswered(c) \/ PostFails(c) \/ SendAnswered(c) \/ SendFails(c)
  PROVE  HandOffInv'
<1>1. /\ Stands(at[c], wire[c], made[c], turn[c]) /\ at[c] \in At /\ wire[c] \in Wire
      /\ at \in [Call -> At] /\ wire \in [Call -> Wire]
  BY DEF HandOffInv
<1>2. \E a \in At, w \in Wire :
        /\ at' = [at EXCEPT ![c] = a] /\ wire' = [wire EXCEPT ![c] = w]
        /\ Stands(a, w, made[c], turn[c])
  <2>1. CASE PostJob(c)
    BY <1>1, <2>1 DEF PostJob, At, Wire, Stands
  <2>2. CASE PostAnswered(c)
    BY <1>1, <2>2 DEF PostAnswered, At, Wire, Stands
  <2>3. CASE PostFails(c)
    <3> DEFINE w == IF wire[c] = "post" THEN wire[c] ELSE "nothing"
    <3>1. at' = [at EXCEPT ![c] = "not taken"] /\ wire' = [wire EXCEPT ![c] = w]
      BY <2>3 DEF PostFails
    <3>2. w \in Wire /\ "not taken" \in At /\ Stands("not taken", w, made[c], turn[c])
      BY <1>1, <2>3 DEF PostFails, At, Wire, Stands
    <3>3. QED
      BY <3>1, <3>2
  <2>4. CASE SendAnswered(c)
    BY <1>1, <2>4 DEF SendAnswered, At, Wire, Stands
  <2>5. CASE SendFails(c)
    <3> DEFINE w == IF wire[c] = "message" THEN wire[c] ELSE "nothing"
    <3>1. at' = [at EXCEPT ![c] = "not arrived"] /\ wire' = [wire EXCEPT ![c] = w]
      BY <2>5 DEF SendFails
    <3>2. w \in Wire /\ "not arrived" \in At /\ Stands("not arrived", w, made[c], turn[c])
      BY <1>1, <2>5 DEF SendFails, At, Wire, Stands
    <3>3. QED
      BY <3>1, <3>2
  <2>6. QED
    BY <2>1, <2>2, <2>3, <2>4, <2>5
<1>3. UNCHANGED <<vars, made, queue, turn, moved>>
  BY DEF PostJob, PostAnswered, PostFails, SendAnswered, SendFails, board, runner, bounds
<1>4. QED
  BY <1>2, <1>3, ExchangeStep

\* An answer goes to a sender that waits, and nowhere else.
LEMMA Answered ==
  ASSUME HandOffInv, NEW c \in Call, NEW what \in Wire, Answers(c, what)
  PROVE  wire' = [wire EXCEPT ![c] = IF at[c] \in {"posting", "sending"} THEN what ELSE "nothing"]
         /\ wire' \in [Call -> Wire]
BY DEF Answers, HandOffInv, Wire

\* A post, of a call's or of others': its id is new, so no other call has it.
LEMMA PostFits ==
  ASSUME HandOffInv, NEW j \in JobId, NEW to, Post(j, to), UNCHANGED <<turn, moved>>,
         NEW d \in Call, made'[d] = made[d]
  PROVE  Fits(d)' /\ made[d] # j
<1>1. /\ j \notin posted
      /\ \A k \in OnBoard' : k # j => k \in OnBoard /\ jobs'[k] = jobs[k]
  BY PostEffect
<1>2. made[d] # j
  BY <1>1, NamesAssumption DEF HandOffInv
<1>3. QED
  BY <1>1, <1>2, FitsKept DEF HandOffInv

\* The request of a post is handled, in time or late.
LEMMA JobsPostStep ==
  ASSUME HandOffInv, NEW c \in Call, HandleApiJobsPost(c)
  PROVE  HandOffInv'
<1>1. /\ wire[c] = "post" /\ turn[c] = "none" /\ made[c] = None
      /\ at[c] \in {"posting", "not taken"}
      /\ UNCHANGED <<at, queue, turn, moved>>
  BY DEF HandOffInv, Stands, At, HandleApiJobsPost, runner, bounds
<1>2. CASE ~Room /\ Answers(c, "refusal") /\ UNCHANGED <<board, made>>
  <2> DEFINE w == IF at[c] \in {"posting", "sending"} THEN "refusal" ELSE "nothing"
  <2>1. wire' = [wire EXCEPT ![c] = w] /\ w \in Wire /\ at' = [at EXCEPT ![c] = at[c]]
    BY <1>1, <1>2 DEF Answers, Wire, HandOffInv
  <2>2. Stands(at[c], w, made[c], turn[c]) /\ at[c] \in At
    BY <1>1 DEF Stands, At
  <2> HIDE DEF w
  <2>3. QED
    BY <1>1, <1>2, <2>1, <2>2, ExchangeStep DEF board
<1>3. ASSUME NEW j \in JobId, NEW to \in Peer, Post(j, to), made' = [made EXCEPT ![c] = j],
             Answers(c, "job")
      PROVE  HandOffInv'
  <2> DEFINE w == IF at[c] \in {"posting", "sending"} THEN "job" ELSE "nothing"
  <2>1. /\ wire' = [wire EXCEPT ![c] = w] /\ w \in Wire
        /\ Stands(at[c], w, j, turn[c])
    <3>1. j # None
      BY NamesAssumption
    <3>2. QED
      BY <1>1, <1>3, <3>1 DEF Answers, Wire, Stands
  <2> HIDE DEF w
  <2>2. /\ posted' = posted \cup {j} /\ (j \in OnBoard' => jobs'[j].state = "open")
    BY <1>3, PostEffect
  <2>3. ASSUME NEW d \in Call, d # c
        PROVE  made'[d] = made[d] /\ made[d] # j /\ Fits(d)'
    <3>1. made'[d] = made[d]
      BY <1>3, <2>3 DEF HandOffInv
    <3>2. QED
      BY <1>1, <1>3, <3>1, PostFits
  <2>4. made'[c] = j /\ turn'[c] = "none"
    BY <1>1, <1>3 DEF HandOffInv
  <2>5. Fits(c)'
    BY <2>2, <2>4 DEF Fits, Tells
  <2>6. /\ at' \in [Call -> At] /\ wire' \in [Call -> Wire] /\ turn' \in [Call -> Turns]
        /\ made' \in [Call -> posted' \cup {None}]
    BY <1>1, <1>3, <2>1, <2>2 DEF HandOffInv
  <2>7. \A d \in Call : Stands(at'[d], wire'[d], made'[d], turn'[d])
    BY <1>1, <2>1, <2>3, <2>4 DEF HandOffInv
  <2>8. \A d, e \in Call : made'[d] = made'[e] /\ made'[d] # None => d = e
    <3> SUFFICES ASSUME NEW d \in Call, NEW e \in Call, made'[d] = made'[e], made'[d] # None
                 PROVE  d = e
      OBVIOUS
    <3>1. CASE d = c \/ e = c
      BY <3>1, <2>3, <2>4
    <3>2. CASE d # c /\ e # c
      BY <3>2, <2>3 DEF HandOffInv
    <3>3. QED
      BY <3>1, <3>2
  <2>9. Waits'
    BY <1>1 DEF HandOffInv, Waits
  <2>10. QED
    BY <2>3, <2>5, <2>6, <2>7, <2>8, <2>9 DEF HandOffInv, Stands
<1>4. QED
  BY <1>2, <1>3 DEF HandleApiJobsPost

\* A step of the board alone.
LEMMA BoardOnlyStep ==
  ASSUME HandOffInv, UNCHANGED <<at, wire, made, queue, turn>>, posted \subseteq posted',
         \A d \in Call : Fits(d)'
  PROVE  HandOffInv'
<1>1. /\ at' \in [Call -> At] /\ wire' \in [Call -> Wire] /\ turn' \in [Call -> Turns]
      /\ made' \in [Call -> posted' \cup {None}]
  BY DEF HandOffInv
<1>2. /\ \A c \in Call : Stands(at'[c], wire'[c], made'[c], turn'[c])
      /\ \A c, d \in Call : made'[c] = made'[d] /\ made'[c] # None => c = d
  BY DEF HandOffInv
<1>3. Waits'
  BY DEF HandOffInv, Waits
<1>4. QED
  BY <1>1, <1>2, <1>3 DEF HandOffInv, Stands

\* Others post a job, move one by hand, or are noted.
LEMMA OthersStep ==
  ASSUME HandOffInv, TypeOK, Touch \/ OtherPost \/ HandleApiJobsPatch \/ HandleVerbs
  PROVE  HandOffInv'
<1>1. UNCHANGED <<at, wire, made, queue, turn>>
  BY DEF Touch, OtherPost, HandleApiJobsPatch, HandleVerbs, sender, runner
<1>2. CASE Touch
  <2>1. UNCHANGED <<jobs, posted, moved>>
    BY <1>2 DEF Touch, TouchPeer, bounds
  <2>2. \A d \in Call : Fits(d)'
    BY <1>1, <2>1 DEF HandOffInv, Fits, OnBoard
  <2>3. QED
    BY <1>1, <2>1, <2>2, BoardOnlyStep
<1>3. CASE OtherPost
  <2>1. PICK j \in JobId, to \in Peer : Post(j, to)
    BY <1>3 DEF OtherPost
  <2>2. UNCHANGED moved
    BY <1>3 DEF OtherPost, bounds
  <2>3. \A d \in Call : Fits(d)'
    BY <1>1, <2>1, <2>2, PostFits
  <2>4. posted \subseteq posted'
    BY <2>1, PostEffect
  <2>5. QED
    BY <1>1, <2>3, <2>4, BoardOnlyStep
<1>4. CASE HandleApiJobsPatch
  <2>1. PICK j \in OnBoard, p \in Peer, u \in JobUpdate : Update(j, p, u) /\ moved' = moved \cup {j}
    BY <1>4 DEF HandleApiJobsPatch
  <2>2. /\ posted' = posted /\ OnBoard' = OnBoard /\ jobs'[j].to = jobs[j].to
        /\ \A k \in OnBoard : k # j => jobs'[k] = jobs[k]
    BY <2>1, UpdateEffect
  <2>3. ASSUME NEW d \in Call
        PROVE  Fits(d)'
    <3>1. Fits(d)
      BY DEF HandOffInv
    <3>2. CASE made[d] = j
      BY <3>1, <3>2, <2>1, <2>2, <1>1 DEF Fits
    <3>3. CASE made[d] # j
      BY <3>1, <3>3, <2>1, <2>2, <1>1, FitsKept
    <3>4. QED
      BY <3>2, <3>3
  <2>4. QED
    BY <1>1, <2>2, <2>3, BoardOnlyStep
<1>5. CASE HandleVerbs
  <2>1. PICK j \in OnBoard : Answer(j) \/ Chase(j) \/ Drop(j)
    BY <1>5 DEF HandleVerbs
  <2>2. UNCHANGED moved
    BY <1>5 DEF HandleVerbs
  <2>3. /\ posted' = posted /\ OnBoard' = OnBoard /\ jobs'[j].to = jobs[j].to
        /\ \A k \in OnBoard : k # j => jobs'[k] = jobs[k]
        /\ jobs'[j].state \in {jobs[j].state, "cancelled"} \/ jobs[j].state = "blocked"
    BY <2>1, VerbEffect
  <2>4. ASSUME NEW d \in Call
        PROVE  Fits(d)'
    <3>1. Fits(d)
      BY DEF HandOffInv
    <3>2. CASE made[d] = j
      <4>1. \A t : ~Tells("blocked", t) /\ Tells("cancelled", t)
        BY DEF Tells
      <4>2. /\ turn[d] # "none" => jobs[j].to = Self
            /\ j \notin moved => Tells(jobs[j].state, turn[d])
        BY <3>1, <3>2, <2>1 DEF Fits
      <4>3. j \notin moved => Tells(jobs'[j].state, turn[d])
        BY <4>1, <4>2, <2>3
      <4>4. QED
        BY <3>2, <4>2, <4>3, <2>2, <2>3, <1>1 DEF Fits, Tells
    <3>3. CASE made[d] # j
      BY <3>1, <3>3, <2>2, <2>3, <1>1, FitsKept
    <3>4. QED
      BY <3>2, <3>3
  <2>5. QED
    BY <1>1, <2>3, <2>4, BoardOnlyStep
<1>6. QED
  BY <1>2, <1>3, <1>4, <1>5

\* A turn of one call moves on, without or with its job: nothing else of the calls does.
LEMMA TurnStep ==
  ASSUME HandOffInv, UNCHANGED <<at, wire, made, posted, moved>>,
         NEW c \in Call, NEW t \in Turns, turn' = [turn EXCEPT ![c] = t],
         turn[c] # "none", t # "none", Waits', Fits(c)',
         \A d \in Call : d # c => Fits(d)'
  PROVE  HandOffInv'
<1>1. /\ at' \in [Call -> At] /\ wire' \in [Call -> Wire] /\ turn' \in [Call -> Turns]
      /\ made' \in [Call -> posted' \cup {None}]
  BY DEF HandOffInv
<1>2. ASSUME NEW d \in Call
      PROVE  Stands(at'[d], wire'[d], made'[d], turn'[d])
  BY DEF HandOffInv, Stands
<1>3. \A d, e \in Call : made'[d] = made'[e] /\ made'[d] # None => d = e
  BY DEF HandOffInv
<1>4. \A d \in Call : Fits(d)'
  OBVIOUS
<1>5. QED
  BY <1>1, <1>2, <1>3, <1>4 DEF HandOffInv, Stands

\* The worker takes the turn that waits longest.
LEMMA TakeStep ==
  ASSUME HandOffInv, Take
  PROVE  HandOffInv'
<1>1. /\ queue \in Seq(Call) /\ Len(queue) \in Nat /\ Len(queue) >= 1
      /\ Head(queue) = queue[1] /\ queue[1] \in Call /\ DOMAIN queue = 1 .. Len(queue)
  BY DEF HandOffInv, Waits, Take
<1>2. PICK c \in Call, n \in Nat : c = Head(queue) /\ n = Len(queue)
  BY <1>1
<1>3. /\ queue \in Seq(Call) /\ n >= 1 /\ c = queue[1] /\ DOMAIN queue = 1 .. n
  BY <1>1, <1>2
<1>4. turn[c] = "queued"
  BY <1>3 DEF HandOffInv, Waits
<1>5. /\ turn' = [turn EXCEPT ![c] = "running"] /\ queue' = Tail(queue)
      /\ UNCHANGED <<at, wire, made, jobs, posted, moved>>
  BY <1>2 DEF Take, board, vars, sender, bounds
<1>6. /\ queue' \in Seq(Call) /\ DOMAIN queue' = 1 .. n - 1
      /\ \A i \in 1 .. n - 1 : queue'[i] = queue[i + 1]
  BY <1>2, <1>3, <1>5
<1>7. Waits'
  <2>1. ASSUME NEW i \in 1 .. n - 1
        PROVE  /\ queue[i + 1] # c /\ turn[queue[i + 1]] = "queued"
               /\ i + 1 \in DOMAIN queue /\ queue[i + 1] \in Call
    <3>1. i + 1 \in DOMAIN queue /\ 1 \in DOMAIN queue /\ i + 1 # 1
      BY <1>3
    <3>2. QED
      BY <1>3, <3>1 DEF HandOffInv, Waits
  <2>2. ASSUME NEW i \in 1 .. n - 1
        PROVE  turn'[queue'[i]] = "queued"
    <3>1. queue'[i] \in Call /\ queue'[i] # c /\ turn[queue'[i]] = "queued"
      BY <1>6, <2>1
    <3>2. QED
      BY <1>5, <3>1 DEF HandOffInv
  <2>3. ASSUME NEW i \in 1 .. n - 1, NEW k \in 1 .. n - 1, queue'[i] = queue'[k]
        PROVE  i = k
    <3>1. queue[i + 1] = queue[k + 1] /\ i + 1 \in DOMAIN queue /\ k + 1 \in DOMAIN queue
      BY <1>6, <2>1, <2>3
    <3>2. i + 1 = k + 1
      BY <3>1 DEF HandOffInv, Waits
    <3>3. QED
      BY <3>2, <1>3
  <2>4. QED
    BY <1>6, <2>2, <2>3 DEF Waits
<1>8. turn'[c] = "running" /\ "running" \in Turns
  BY <1>3, <1>5 DEF HandOffInv, Turns, Running
<1>9. Fits(c)'
  <2>1. \A s : Tells(s, "queued") => Tells(s, "running")
    BY DEF Tells, Running
  <2>2. Fits(c)
    BY <1>3 DEF HandOffInv
  <2>3. made[c] \in OnBoard =>
          /\ jobs[made[c]].to = Self
          /\ made[c] \notin moved => Tells(jobs[made[c]].state, "running")
    BY <1>4, <2>1, <2>2 DEF Fits
  <2>4. QED
    BY <1>5, <1>8, <2>3 DEF Fits, OnBoard, Tells
<1>10. ASSUME NEW d \in Call, d # c
      PROVE  Fits(d)'
  BY <1>5, <1>10, FitsKept DEF HandOffInv, OnBoard
<1>11. QED
  BY <1>3, <1>4, <1>5, <1>7, <1>8, <1>9, <1>10, TurnStep

\* A turn returns, well, badly or cancelled.
LEMMA EndTurnStep ==
  ASSUME HandOffInv, NEW c \in Call, NEW how \in {"well", "badly", "cancelled"}, EndTurn(c, how)
  PROVE  HandOffInv'
<1>1. /\ turn[c] = "running" /\ turn' = [turn EXCEPT ![c] = how]
      /\ UNCHANGED <<at, wire, made, queue, jobs, posted, moved>>
  BY DEF EndTurn, board, vars, sender, bounds
<1>2. turn'[c] = how /\ how \in Turns
  BY <1>1 DEF HandOffInv, Turns, Running, TurnEnd
<1>3. Waits'
  BY <1>1 DEF HandOffInv, Waits
<1>4. Fits(c)'
  <2>1. \A s : Tells(s, "running") => Tells(s, how)
    BY DEF Tells, Running
  <2>2. made[c] \in OnBoard =>
          /\ jobs[made[c]].to = Self
          /\ made[c] \notin moved => Tells(jobs[made[c]].state, how)
    BY <1>1, <2>1 DEF HandOffInv, Fits
  <2>3. QED
    BY <1>1, <1>2, <2>2 DEF Fits, OnBoard, Tells
<1>5. ASSUME NEW d \in Call, d # c
      PROVE  Fits(d)'
  BY <1>1, <1>5, FitsKept DEF HandOffInv, OnBoard
<1>6. QED
  BY <1>1, <1>2, <1>3, <1>4, <1>5, TurnStep

\* A turn that returned closes its job; a job that cannot be closed was taken back or is gone.
LEMMA CloseStep ==
  ASSUME HandOffInv, TypeOK, NEW c \in Call, CloseBoardJob(c)
  PROVE  HandOffInv'
<1>1. /\ turn[c] \in {"well", "badly"} /\ turn' = [turn EXCEPT ![c] = Outcome(c)]
      /\ UNCHANGED <<at, wire, made, queue, moved>>
  BY DEF CloseBoardJob, sender, bounds
<1>2. PICK t \in {"done", "failed"} : t = Outcome(c)
  BY DEF Outcome
<1>3. turn' = [turn EXCEPT ![c] = t] /\ turn'[c] = t /\ t \in Turns /\ t # "none"
  BY <1>1, <1>2 DEF HandOffInv, Turns, TurnEnd
<1>4. Waits'
  BY <1>1, <1>3 DEF HandOffInv, Waits
<1>5. /\ turn[c] # "none" /\ Fits(c)
      /\ \A d \in Call : d # c => Fits(d) /\ turn'[d] = turn[d] /\ made'[d] = made[d]
  BY <1>1, <1>3 DEF HandOffInv
<1>6. CASE Update(made[c], Self, [state |-> Outcome(c), question |-> FALSE])
  <2> DEFINE u == [state |-> t, question |-> FALSE]
  <2>1. u \in JobUpdate /\ u.state = t /\ Self \in Peer
    BY NamesAssumption DEF JobUpdate, JobState
  <2>2. Update(made[c], Self, u)
    BY <1>2, <1>6
  <2> HIDE DEF u
  <2>3. /\ posted' = posted /\ OnBoard' = OnBoard /\ made[c] \in OnBoard
        /\ \A k \in OnBoard : k # made[c] => jobs'[k] = jobs[k]
        /\ jobs'[made[c]].state = t /\ jobs'[made[c]].to = Self
    BY <2>1, <2>2, UpdateEffect
  <2>4. Fits(c)'
    BY <1>1, <1>3, <2>3 DEF Fits, Tells
  <2>5. ASSUME NEW d \in Call, d # c
        PROVE  Fits(d)'
    <3>1. made[d] \in OnBoard => made[d] # made[c]
      <4>1. made[c] # None
        BY <2>3, NamesAssumption DEF TypeOK
      <4>2. QED
        BY <2>5, <4>1 DEF HandOffInv
    <3>2. QED
      BY <1>1, <1>5, <2>3, <2>5, <3>1, FitsKept
  <2>6. QED
    BY <1>1, <1>3, <1>4, <1>5, <2>3, <2>4, <2>5, TurnStep
<1>7. CASE ~Claimable(made[c]) /\ UNCHANGED board
  <2>1. UNCHANGED <<jobs, posted>> /\ OnBoard' = OnBoard
    BY <1>7 DEF board, vars, OnBoard
  <2>2. Fits(c)'
    <3>1. ASSUME made[c] \in OnBoard
          PROVE  jobs[made[c]].to = Self /\ Closed(jobs[made[c]])
      <4>1. jobs[made[c]].to = Self
        BY <1>5, <3>1 DEF Fits
      <4>2. QED
        BY <1>7, <3>1, <4>1 DEF Claimable, MayUpdate, Claim
    <3>2. ASSUME made[c] \in OnBoard, made[c] \notin moved
          PROVE  jobs[made[c]].state = "cancelled"
      <4>1. Tells(jobs[made[c]].state, turn[c])
        BY <1>5, <3>2 DEF Fits
      <4>2. QED
        BY <1>1, <3>1, <3>2, <4>1 DEF Tells, Closed
    <3>3. QED
      BY <1>1, <2>1, <3>1, <3>2 DEF Fits, Tells
  <2>3. ASSUME NEW d \in Call, d # c
        PROVE  Fits(d)'
    BY <1>1, <1>5, <2>1, <2>3, FitsKept
  <2>4. QED
    BY <1>1, <1>3, <1>4, <1>5, <2>1, <2>2, <2>3, TurnStep
<1>8. QED
  BY <1>6, <1>7 DEF CloseBoardJob

\* A message is handled, in time or late: its job is claimed and its turn queued, or neither.
LEMMA MessageStep ==
  ASSUME HandOffInv, TypeOK, NEW c \in Call, HandlePeerMessage(c)
  PROVE  HandOffInv'
<1>1. /\ wire[c] = "message" /\ turn[c] = "none" /\ at[c] \in {"sending", "not arrived"}
      /\ made[c] # None /\ UNCHANGED <<at, made, moved>>
  BY DEF HandOffInv, Stands, At, HandlePeerMessage, bounds
<1>2. CASE ~Claimable(made[c]) /\ Answers(c, "refusal") /\ UNCHANGED <<board, runner, unread>>
  <2> DEFINE w == IF at[c] \in {"posting", "sending"} THEN "refusal" ELSE "nothing"
  <2>1. wire' = [wire EXCEPT ![c] = w] /\ w \in Wire /\ at' = [at EXCEPT ![c] = at[c]]
    BY <1>1, <1>2 DEF Answers, Wire, HandOffInv
  <2>2. Stands(at[c], w, made[c], turn[c]) /\ at[c] \in At
    BY <1>1 DEF Stands, At
  <2> HIDE DEF w
  <2>3. QED
    BY <1>1, <1>2, <2>1, <2>2, ExchangeStep DEF board, runner
<1>3. CASE Update(made[c], Self, Claim) /\ Submit(c) /\ Accepts(c)
  <2> DEFINE w == IF at[c] \in {"posting", "sending"} THEN "accepted" ELSE "nothing"
  <2>1. /\ wire' = [wire EXCEPT ![c] = w] /\ w \in Wire
        /\ Stands(at[c], w, made[c], "queued")
    BY <1>1, <1>3 DEF Accepts, Answers, Wire, Stands
  <2> HIDE DEF w
  <2>2. /\ turn' = [turn EXCEPT ![c] = "queued"] /\ queue' = Append(queue, c)
        /\ turn'[c] = "queued" /\ \A d \in Call : d # c => turn'[d] = turn[d]
    BY <1>3 DEF Submit, HandOffInv
  <2>3. Claim \in JobUpdate /\ Claim.state = "claimed" /\ Self \in Peer
    BY NamesAssumption DEF Claim, JobUpdate, JobState
  <2>4. /\ posted' = posted /\ OnBoard' = OnBoard /\ made[c] \in OnBoard
        /\ \A k \in OnBoard : k # made[c] => jobs'[k] = jobs[k]
        /\ jobs'[made[c]].state = "claimed" /\ jobs'[made[c]].to = Self
    BY <1>3, <2>3, UpdateEffect
  <2>5. Fits(c)'
    BY <1>1, <2>2, <2>4 DEF Fits, Tells
  <2>6. ASSUME NEW d \in Call, d # c
        PROVE  Fits(d)'
    <3>1. made[d] \in OnBoard => made[d] # made[c]
      <4>1. made[c] # None
        BY <2>4, NamesAssumption DEF TypeOK
      <4>2. QED
        BY <2>6, <4>1 DEF HandOffInv
    <3>2. Fits(d) /\ made'[d] = made[d] /\ turn'[d] = turn[d]
      BY <1>1, <2>2, <2>6 DEF HandOffInv
    <3>3. QED
      BY <1>1, <2>4, <3>1, <3>2, FitsKept
  <2>7. /\ at' \in [Call -> At] /\ wire' \in [Call -> Wire] /\ turn' \in [Call -> Turns]
        /\ made' \in [Call -> posted' \cup {None}]
    BY <1>1, <2>1, <2>2, <2>4 DEF HandOffInv, Turns
  <2>8. \A d \in Call : Stands(at'[d], wire'[d], made'[d], turn'[d])
    BY <1>1, <2>1, <2>2 DEF HandOffInv
  <2>9. \A d, e \in Call : made'[d] = made'[e] /\ made'[d] # None => d = e
    BY <1>1 DEF HandOffInv
  <2>10. Waits'
    <3>1. queue \in Seq(Call) /\ \A i \in DOMAIN queue : queue[i] \in Call /\ queue[i] # c
      <4>1. queue \in Seq(Call) /\ \A i \in DOMAIN queue : turn[queue[i]] = "queued"
        BY DEF HandOffInv, Waits
      <4>2. \A i \in DOMAIN queue : queue[i] \in Call
        BY <4>1
      <4>3. "queued" # "none"
        OBVIOUS
      <4>4. QED
        BY <1>1, <4>1, <4>2, <4>3
    <3>2. PICK n \in Nat : n = Len(queue) /\ DOMAIN queue = 1 .. n
      BY <3>1
    <3>3. /\ queue' \in Seq(Call) /\ DOMAIN queue' = 1 .. n + 1 /\ queue'[n + 1] = c
          /\ \A i \in DOMAIN queue : queue'[i] = queue[i]
      BY <2>2, <3>1, <3>2
    <3>4. ASSUME NEW i \in DOMAIN queue'
          PROVE  i \in DOMAIN queue \/ i = n + 1
      BY <3>2, <3>3
    <3>5. ASSUME NEW i \in DOMAIN queue'
          PROVE  turn'[queue'[i]] = "queued"
      <4>1. CASE i \in DOMAIN queue
        BY <4>1, <2>2, <3>1, <3>3 DEF HandOffInv, Waits
      <4>2. CASE i = n + 1
        BY <4>2, <2>2, <3>3
      <4>3. QED
        BY <3>4, <4>1, <4>2
    <3>6. ASSUME NEW i \in DOMAIN queue', NEW k \in DOMAIN queue', queue'[i] = queue'[k]
          PROVE  i = k
      <4>1. CASE i \in DOMAIN queue /\ k \in DOMAIN queue
        BY <4>1, <3>3, <3>6 DEF HandOffInv, Waits
      <4>2. CASE i = n + 1 /\ k \in DOMAIN queue
        BY <4>2, <3>1, <3>3, <3>6
      <4>3. CASE i \in DOMAIN queue /\ k = n + 1
        BY <4>3, <3>1, <3>3, <3>6
      <4>4. QED
        BY <3>4, <4>1, <4>2, <4>3
    <3>7. QED
      BY <3>3, <3>5, <3>6 DEF Waits
  <2>11. QED
    BY <2>5, <2>6, <2>7, <2>8, <2>9, <2>10 DEF HandOffInv, Stands
<1>4. QED
  BY <1>2, <1>3 DEF HandlePeerMessage

\* The receiver starts again: the turns it had are lost, and so are its jobs.
LEMMA RestartStep ==
  ASSUME HandOffInv, Restart
  PROVE  HandOffInv'
<1>1. /\ UNCHANGED <<at, wire, made, posted, moved>> /\ queue' = <<>> /\ OnBoard' = {}
      /\ turn' = [c \in Call |-> IF turn[c] \in TurnEnd \cup {"none"} THEN turn[c] ELSE "lost"]
  BY DEF Restart, sender, OnBoard
<1>2. \A c \in Call : turn'[c] \in Turns /\ (turn'[c] = "none" <=> turn[c] = "none")
  BY <1>1 DEF HandOffInv, Turns, TurnEnd
<1>3. /\ at' \in [Call -> At] /\ wire' \in [Call -> Wire] /\ turn' \in [Call -> Turns]
      /\ made' \in [Call -> posted' \cup {None}]
  BY <1>1, <1>2 DEF HandOffInv
<1>4. ASSUME NEW c \in Call
      PROVE  Stands(at'[c], wire'[c], made'[c], turn'[c])
  BY <1>1, <1>2 DEF HandOffInv, Stands
<1>5. \A d, e \in Call : made'[d] = made'[e] /\ made'[d] # None => d = e
  BY <1>1 DEF HandOffInv
<1>6. Waits' /\ \A c \in Call : Fits(c)'
  BY <1>1 DEF Waits, Fits
<1>7. QED
  BY <1>3, <1>4, <1>5, <1>6 DEF HandOffInv, Stands

\* Every step keeps the invariant.
LEMMA HandOffStep ==
  ASSUME HandOffInv, TypeOK, [HandOffNext]_handOffVars
  PROVE  HandOffInv'
<1>1. ASSUME NEW c \in Call,
             PostJob(c) \/ PostAnswered(c) \/ PostFails(c) \/ SendAnswered(c) \/ SendFails(c)
      PROVE  HandOffInv'
  BY <1>1, SenderStep
<1>2. ASSUME NEW c \in Call, HandleApiJobsPost(c)
      PROVE  HandOffInv'
  BY <1>2, JobsPostStep
<1>3. ASSUME NEW c \in Call, HandlePeerMessage(c)
      PROVE  HandOffInv'
  BY <1>3, MessageStep
<1>4. ASSUME NEW c \in Call, NEW how \in {"well", "badly", "cancelled"}, EndTurn(c, how)
      PROVE  HandOffInv'
  BY <1>4, EndTurnStep
<1>5. CASE Touch \/ OtherPost \/ HandleApiJobsPatch \/ HandleVerbs
  BY <1>5, OthersStep
<1>6. CASE Take
  BY <1>6, TakeStep
<1>7. ASSUME NEW c \in Call, CloseBoardJob(c)
      PROVE  HandOffInv'
  BY <1>7, CloseStep
<1>8. CASE Restart
  BY <1>8, RestartStep
<1>9. CASE UNCHANGED handOffVars
  <2>1. UNCHANGED <<at, wire, made, queue, turn, jobs, posted, moved>>
    BY <1>9 DEF handOffVars, board, vars, sender, runner, bounds
  <2>2. \A d \in Call : Fits(d)'
    BY <2>1 DEF HandOffInv, Fits, OnBoard
  <2>3. QED
    BY <2>1, <2>2, BoardOnlyStep
<1>10. QED
  BY <1>1, <1>2, <1>3, <1>4, <1>5, <1>6, <1>7, <1>8, <1>9 DEF HandOffNext, Worker

\* The call at the head of the queue waits for its turn.
LEMMA HeadWaits ==
  ASSUME HandOffInv, Take
  PROVE  Head(queue) \in Call /\ turn[Head(queue)] = "queued"
<1>1. /\ queue \in Seq(Call) /\ Len(queue) \in Nat /\ Len(queue) >= 1
      /\ Head(queue) = queue[1] /\ queue[1] \in Call
      /\ DOMAIN queue = 1 .. Len(queue)
  BY DEF HandOffInv, Waits, Take
<1>2. \A i \in DOMAIN queue : turn[queue[i]] = "queued"
  BY DEF HandOffInv, Waits
<1>3. QED
  BY <1>1, <1>2

\* Every step keeps the account of the answers nobody read.
LEMMA UnreadStep ==
  ASSUME HandOffInv, UnreadInv, [HandOffNext]_handOffVars
  PROVE  UnreadInv'
<1> USE DEF UnreadInv
<1>0. /\ at \in [Call -> At] /\ turn \in [Call -> Turns]
      /\ \A c \in Call : Stands(at[c], wire[c], made[c], turn[c])
  BY DEF HandOffInv
<1>1. ASSUME NEW c \in Call, PostJob(c) \/ PostAnswered(c) \/ PostFails(c)
      PROVE  UnreadInv'
  <2>1. /\ \E a \in {"posting", "sending", "not taken"} : at' = [at EXCEPT ![c] = a]
        /\ at[c] \in {"idle", "posting"} /\ UNCHANGED <<turn, unread>>
    BY <1>1 DEF PostJob, PostAnswered, PostFails, runner, bounds
  <2>2. QED
    BY <1>0, <2>1
<1>2. ASSUME NEW c \in Call, SendAnswered(c)
      PROVE  UnreadInv'
  <2>1. /\ at[c] = "sending" /\ UNCHANGED <<turn, unread>>
        /\ \/ wire[c] = "accepted" /\ at' = [at EXCEPT ![c] = "queued"]
           \/ wire[c] = "refusal" /\ at' = [at EXCEPT ![c] = "not arrived"]
    BY <1>2 DEF SendAnswered, runner, bounds
  <2>2. wire[c] = "refusal" => turn[c] = "none"
    BY <1>0 DEF Stands
  <2>3. QED
    BY <1>0, <2>1, <2>2
<1>3. ASSUME NEW c \in Call, SendFails(c)
      PROVE  UnreadInv'
  <2>1. /\ at[c] = "sending" /\ at' = [at EXCEPT ![c] = "not arrived"] /\ turn' = turn
        /\ unread' = IF wire[c] = "accepted" THEN unread \cup {c} ELSE unread
    BY <1>3 DEF SendFails, runner
  <2>2. wire[c] = "accepted" <=> turn[c] # "none"
    BY <1>0, <2>1 DEF Stands
  <2>3. QED
    BY <1>0, <2>1, <2>2
<1>4. ASSUME NEW c \in Call, HandlePeerMessage(c)
      PROVE  UnreadInv'
  <2>1. at' = at /\ at[c] \in {"sending", "not arrived"}
    BY <1>0, <1>4 DEF HandlePeerMessage, Stands, At
  <2>2. CASE UNCHANGED <<runner, unread>>
    BY <2>1, <2>2 DEF runner
  <2>3. CASE Submit(c) /\ Accepts(c)
    BY <1>0, <2>1, <2>3 DEF Submit, Accepts
  <2>4. QED
    BY <1>4, <2>2, <2>3 DEF HandlePeerMessage
<1>5. CASE \/ \E c \in Call : HandleApiJobsPost(c)
           \/ Touch \/ OtherPost \/ HandleApiJobsPatch \/ HandleVerbs
           \/ UNCHANGED handOffVars
  <2>1. UNCHANGED <<at, turn, unread>>
    BY <1>5 DEF HandleApiJobsPost, Touch, OtherPost, HandleApiJobsPatch, HandleVerbs, sender,
                runner, bounds, handOffVars
  <2>2. QED
    BY <2>1
<1>6. ASSUME NEW c \in Call,
             (Take /\ c = Head(queue)) \/ CloseBoardJob(c)
               \/ \E how \in {"well", "badly", "cancelled"} : EndTurn(c, how)
      PROVE  UnreadInv'
  <2>1. \E t \in Turns : turn' = [turn EXCEPT ![c] = t] /\ t # "none"
    BY <1>6 DEF Take, CloseBoardJob, EndTurn, Outcome, Turns, Running, TurnEnd
  <2>2. UNCHANGED <<at, unread>>
    BY <1>6 DEF Take, CloseBoardJob, EndTurn, sender, bounds
  <2>3. turn[c] # "none"
    <3>1. Take => turn[Head(queue)] = "queued"
      BY HeadWaits
    <3>2. QED
      BY <1>6, <3>1 DEF CloseBoardJob, EndTurn
  <2>4. QED
    BY <1>0, <2>1, <2>2, <2>3
<1>7. CASE Take
  <2>1. Head(queue) \in Call
    BY <1>7, HeadWaits
  <2>2. QED
    BY <1>6, <1>7, <2>1
<1>8. CASE Restart
  BY <1>0, <1>8 DEF Restart, sender, TurnEnd
<1>9. QED
  BY <1>1, <1>2, <1>3, <1>4, <1>5, <1>6, <1>7, <1>8 DEF HandOffNext, Worker

\* What the board shows of a job nobody moved by hand is true of its turn, and what the tool
\* says of its hand-off is true of the receiver, but for a message said not to have arrived
\* whose acceptance was lost: for any number of calls and restarts, requests lost or late and
\* jobs taken back or evicted (PeerTool::Execute, HandlePeerMessage, CloseBoardJob).
THEOREM LegibleHeld == HandOffSpec => []HandOffLegible
<1>1. HandOffInv /\ TypeOK /\ [HandOffNext]_handOffVars => HandOffInv'
  BY HandOffStep
<1>2. HandOffInv /\ UnreadInv /\ [HandOffNext]_handOffVars => UnreadInv'
  BY UnreadStep
<1>3. IInv => TypeOK
  BY DEF IInv
<1>4. HandOffInit => UnreadInv
  BY DEF HandOffInit, UnreadInv
<1>5. HandOffInv /\ UnreadInv => HandOffLegible
  BY Legible
<1>6. QED
  BY <1>1, <1>2, <1>3, <1>4, <1>5, HandOffInitInv, BoardKept, PTL DEF HandOffSpec
=============================================================================
