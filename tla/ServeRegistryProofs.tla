------------------------- MODULE ServeRegistryProofs -------------------------
(***************************************************************************)
(* For every set of pids, every number of processes started and of faults: *)
(* a running server is in the file, and a listing offers no page a pid     *)
(* that has been somebody else's all along.                                *)
(***************************************************************************)
EXTENDS ServeRegistry, TLAPS

Ops == {"register", "unregister", "list"}
Records == [pid : Pids, started : Nat]

Processes == [born : Nat, listed : BOOLEAN,
              pc : {"gone", "other", "serving", "lock", "read", "probe", "write"}]
Calls == [op : Ops \cup {"none"}, held : BOOLEAN, blind : BOOLEAN, stored : SUBSET Records,
          left : SUBSET Records, alive : SUBSET Records, kept : SUBSET Records,
          began : [Pids -> Nat]]

TypeOK ==
  /\ proc \in [Pids -> Processes]
  /\ work \in [Pids -> Calls]
  /\ file \in [parses : BOOLEAN, servers : SUBSET Records]
  /\ clock \in Nat
  /\ spoiled \in BOOLEAN

\* Where a process is tells whether it is in a call, and in which.
InCall(x, w) ==
  /\ x.pc \in {"lock", "read", "probe", "write"} => w.op \in Ops
  /\ x.pc \in {"gone", "other", "serving"} => w.op = "none" /\ ~w.held
  /\ x.pc = "lock" => ~w.held
  /\ x.pc = "probe" => w.op = "list"
  /\ x.pc = "gone" <=> x.born = 0
  /\ x.listed => x.pc \notin {"gone", "other"} /\ w.op # "register"

\* A call that holds the lock is the one the lock file names.
Exclusive == \A p \in Pids : work[p].held <=> lock = p

Shape == TypeOK /\ (\A p \in Pids : InCall(proc[p], work[p])) /\ Exclusive

-----------------------------------------------------------------------------
\* The record a process writes of itself is a record.
LEMMA OwnIsRecord ==
  ASSUME TypeOK, NEW p \in Pids
  PROVE  OwnRecord(p) \in Records
<1>1. proc[p].born \in Nat
  BY DEF TypeOK, Processes
<1>2. QED
  BY <1>1 DEF OwnRecord, ProcessStartToken, NoStamp, Records

\* A process that is not there, and one that is in no call.
LEMMA Blank ==
  /\ NoProcess \in Processes /\ NoProcess.pc = "gone" /\ NoProcess.born = 0 /\ ~NoProcess.listed
  /\ Idle \in Calls /\ ~Idle.held /\ Idle.op = "none"
  /\ Idle.left = {} /\ Idle.alive = {} /\ Idle.kept = {}
BY DEF NoProcess, Idle, Processes, Calls, Ops

\* A process that moves alone, with the lock, keeps the shape if its own fits.
LEMMA Moves ==
  ASSUME Shape, NEW p \in Pids, NEW x \in Processes, NEW w \in Calls, InCall(x, w),
         proc' = [proc EXCEPT ![p] = x], work' = [work EXCEPT ![p] = w],
         \/ lock' = lock /\ w.held = work[p].held
         \/ lock = Free /\ lock' = p /\ w.held
         \/ lock' = (IF work[p].held THEN Free ELSE lock) /\ ~w.held,
         file' \in [parses : BOOLEAN, servers : SUBSET Records],
         clock' \in Nat, spoiled' \in BOOLEAN
  PROVE  Shape'
<1>1. TypeOK'
  BY DEF Shape, TypeOK
<1>2. ASSUME NEW q \in Pids
      PROVE  InCall(proc[q], work[q])'
  BY <1>2 DEF Shape, TypeOK
<1>3. Exclusive'
  BY FreeIsNoPid DEF Shape, TypeOK, Exclusive
<1>4. QED
  BY <1>1, <1>2, <1>3 DEF Shape

\* Every step keeps the shapes, and the lock with the one call that holds it.
LEMMA ShapeStep ==
  ASSUME Shape, [Next]_vars
  PROVE  Shape'
<1>1. CASE UNCHANGED vars
  BY <1>1 DEF vars, Shape, TypeOK, Exclusive
<1>2. ASSUME NEW p \in Pids, Serve(p)
      PROVE  Shape'
  <2> DEFINE x == [NoProcess EXCEPT !.born = clock + 1, !.pc = "lock"]
             w == [Idle EXCEPT !.op = "register"]
  <2>1. x \in Processes /\ w \in Calls /\ InCall(x, w) /\ ~w.held
    <3>1. clock \in Nat /\ clock + 1 \in Nat /\ clock + 1 # 0
      BY DEF Shape, TypeOK
    <3>2. x \in Processes /\ x.pc = "lock" /\ x.born = clock + 1 /\ x.listed = NoProcess.listed
      BY <3>1, Blank DEF Processes
    <3>3. w \in Calls /\ w.op = "register" /\ ~w.held
      BY Blank DEF Calls, Ops
    <3> HIDE DEF x, w
    <3>4. QED
      BY <3>1, <3>2, <3>3, Blank DEF InCall, Ops
  <2>2. ~work[p].held
    BY <1>2 DEF Serve, At, Shape, InCall, TypeOK, Processes, Calls
  <2>4. proc' = [proc EXCEPT ![p] = x] /\ work' = [work EXCEPT ![p] = w]
    BY <1>2 DEF Serve
  <2> HIDE DEF x, w
  <2>5. lock' = lock /\ file' = file /\ clock' \in Nat /\ spoiled' = spoiled
    BY <1>2 DEF Serve, Shape, TypeOK
  <2>6. w.held = work[p].held
    BY <2>1, <2>2 DEF Calls, Shape, TypeOK
  <2>7. QED
    BY <2>1, <2>4, <2>5, <2>6, Moves DEF Shape, TypeOK
<1>3. ASSUME NEW p \in Pids, OtherProgram(p)
      PROVE  Shape'
  <2> DEFINE x == [NoProcess EXCEPT !.born = clock + 1, !.pc = "other"]
  <2>1. work[p] \in Calls /\ work[p].op = "none" /\ ~work[p].held
    BY <1>3 DEF OtherProgram, At, Shape, InCall, TypeOK
  <2>2. x \in Processes /\ InCall(x, work[p])
    <3>1. clock \in Nat /\ clock + 1 \in Nat /\ clock + 1 # 0
      BY DEF Shape, TypeOK
    <3>2. x \in Processes /\ x.pc = "other" /\ x.born = clock + 1 /\ x.listed = NoProcess.listed
      BY <3>1, Blank DEF Processes
    <3> HIDE DEF x
    <3>3. QED
      BY <2>1, <3>1, <3>2, Blank DEF InCall, Ops
  <2>4. proc' = [proc EXCEPT ![p] = x] /\ work' = [work EXCEPT ![p] = work[p]]
    BY <1>3 DEF OtherProgram, Shape, TypeOK
  <2> HIDE DEF x
  <2>5. lock' = lock /\ file' = file /\ clock' \in Nat /\ spoiled' = spoiled
    BY <1>3 DEF OtherProgram, Shape, TypeOK
  <2>6. QED
    BY <2>1, <2>2, <2>4, <2>5, Moves DEF Shape, TypeOK
<1>4. ASSUME NEW p \in Pids, NEW op \in {"list", "unregister"}, At(p, "serving"), Enter(p, op),
             UNCHANGED <<lock, file, clock, faults, spoiled>>
      PROVE  Shape'
  <2> DEFINE x == [proc[p] EXCEPT !.pc = "lock"]
             b == [q \in Pids |-> proc[q].born]
             w == [Idle EXCEPT !.op = op, !.began = b]
  <2>1. proc[p] \in Processes /\ InCall(proc[p], work[p]) /\ At(p, "serving")
        /\ (\A q \in Pids : proc[q].born \in Nat) /\ ~work[p].held
    BY <1>4 DEF Shape, TypeOK, Processes, InCall, At
  <2>2. b \in [Pids -> Nat]
    BY <2>1
  <2>3. proc' = [proc EXCEPT ![p] = x] /\ work' = [work EXCEPT ![p] = w]
    BY <1>4 DEF Enter, Goto
  <2> HIDE DEF b
  <2>4. x \in Processes /\ w \in Calls /\ InCall(x, w) /\ ~w.held
    BY <2>1, <2>2, Blank DEF Processes, Calls, InCall, At, Ops
  <2> HIDE DEF x, w
  <2>5. w.held = work[p].held
    BY <2>1, <2>4 DEF Calls, Shape, TypeOK
  <2>6. QED
    BY <1>4, <2>3, <2>4, <2>5, Moves DEF Shape, TypeOK
<1>5. ASSUME NEW p \in Pids, Dies(p)
      PROVE  Shape'
  <2>1. NoProcess \in Processes /\ Idle \in Calls /\ InCall(NoProcess, Idle) /\ ~Idle.held
    BY DEF NoProcess, Idle, Processes, Calls, InCall, Ops
  <2>2. QED
    BY <1>5, <2>1, Moves DEF Dies, Shape, TypeOK
<1>6. ASSUME NEW p \in Pids, Lock(p)
      PROVE  Shape'
  <2> DEFINE x == [proc[p] EXCEPT !.pc = "read"]
             w == [work[p] EXCEPT !.held = TRUE]
  <2>1. proc[p] \in Processes /\ work[p] \in Calls /\ InCall(proc[p], work[p]) /\ At(p, "lock")
    BY <1>6 DEF Shape, TypeOK, Lock
  <2>2. x \in Processes /\ w \in Calls /\ InCall(x, w) /\ w.held
    BY <2>1 DEF Processes, Calls, InCall, At, Ops
  <2>3. proc' = [proc EXCEPT ![p] = x] /\ work' = [work EXCEPT ![p] = w]
    BY <1>6 DEF Lock, Goto
  <2> HIDE DEF x, w
  <2>4. QED
    BY <1>6, <2>2, <2>3, Moves DEF Lock, TryLock, Shape, TypeOK
<1>7. ASSUME NEW p \in Pids, NEW pc \in {"read", "write"}, Goto(p, pc), UNCHANGED <<work, lock>>,
             UNCHANGED <<file, clock, spoiled>>, proc[p].pc \in {"lock", "probe"}
      PROVE  Shape'
  <2> DEFINE x == [proc[p] EXCEPT !.pc = pc]
  <2>1. proc[p] \in Processes /\ work[p] \in Calls /\ InCall(proc[p], work[p])
    BY DEF Shape, TypeOK
  <2>2. x \in Processes /\ InCall(x, work[p])
    BY <1>7, <2>1 DEF Processes, InCall, Ops
  <2>3. proc' = [proc EXCEPT ![p] = x] /\ work' = [work EXCEPT ![p] = work[p]]
    BY <1>7 DEF Goto, Shape, TypeOK
  <2> HIDE DEF x
  <2>4. QED
    BY <1>7, <2>1, <2>2, <2>3, Moves DEF Shape, TypeOK
<1>8. ASSUME NEW p \in Pids, NEW records \in SUBSET Records, NEW blind \in BOOLEAN,
             ReadRecords(p, records, blind), spoiled' \in BOOLEAN
      PROVE  Shape'
  <2> DEFINE op == work[p].op
             left == IF op = "list" THEN records ELSE {}
             kept == CASE op = "register" -> RegisterServeRecord(p, records)
                       [] op = "unregister" -> UnregisterServeRecord(p, records)
                       [] op = "list" -> {}
             x == [proc[p] EXCEPT !.pc = IF op = "list" THEN "probe" ELSE "write"]
             w == [work[p] EXCEPT !.stored = records, !.blind = blind, !.left = left,
                                  !.kept = kept]
  <2>1. proc[p] \in Processes /\ work[p] \in Calls /\ InCall(proc[p], work[p]) /\ At(p, "read")
    BY <1>8 DEF Shape, TypeOK, ReadRecords
  <2>2. left \in SUBSET Records /\ kept \in SUBSET Records
    BY <1>8, <2>1, OwnIsRecord DEF Shape, RegisterServeRecord, UnregisterServeRecord, OthersAmong,
       InCall, At, Ops
  <2>3. proc' = [proc EXCEPT ![p] = x]
    BY <1>8 DEF ReadRecords, Goto
  <2>4. work' = [work EXCEPT ![p].stored = records, ![p].blind = blind, ![p].left = left,
                             ![p].kept = kept]
    BY <1>8 DEF ReadRecords
  <2> HIDE DEF left, kept
  <2>5. work' = [work EXCEPT ![p] = w]
    BY <2>4 DEF Shape, TypeOK
  <2>6. x \in Processes /\ w \in Calls /\ InCall(x, w) /\ w.held = work[p].held
    BY <2>1, <2>2 DEF Processes, Calls, InCall, At, Ops
  <2> HIDE DEF x, w
  <2>7. QED
    BY <1>8, <2>3, <2>5, <2>6, Moves DEF ReadRecords, Shape, TypeOK
<1>9. ASSUME NEW p \in Pids, Probe(p)
      PROVE  Shape'
  <2>1. PICK r \in work[p].left : work' = [work EXCEPT
           ![p].left = @ \ {r}, ![p].alive = IF ProcessRunning(r.pid) THEN {r} ELSE {}]
    BY <1>9 DEF Probe
  <2> DEFINE left == work[p].left \ {r}
             alive == IF ProcessRunning(r.pid) THEN {r} ELSE {}
             w == [work[p] EXCEPT !.left = left, !.alive = alive]
  <2>2. proc[p] \in Processes /\ work[p] \in Calls /\ InCall(proc[p], work[p])
    BY DEF Shape, TypeOK
  <2>3. left \in SUBSET Records /\ alive \in SUBSET Records
    BY <2>2 DEF Calls
  <2>4. work' = [work EXCEPT ![p].left = left, ![p].alive = alive]
    BY <2>1
  <2> HIDE DEF left, alive
  <2>5. work' = [work EXCEPT ![p] = w] /\ proc' = [proc EXCEPT ![p] = proc[p]]
    BY <1>9, <2>4 DEF Shape, TypeOK, Probe
  <2>6. w \in Calls /\ InCall(proc[p], w) /\ w.held = work[p].held
    BY <2>2, <2>3 DEF Calls, InCall
  <2> HIDE DEF w
  <2>7. QED
    BY <1>9, <2>2, <2>5, <2>6, Moves DEF Probe, Shape, TypeOK
<1>10. ASSUME NEW p \in Pids, Stamp(p)
       PROVE  Shape'
  <2> DEFINE none == {}
             kept == work[p].kept \cup {r \in work[p].alive : SameProcess(r)}
             w == [work[p] EXCEPT !.alive = none, !.kept = kept]
  <2>2. proc[p] \in Processes /\ work[p] \in Calls /\ InCall(proc[p], work[p])
    BY DEF Shape, TypeOK
  <2>3. none \in SUBSET Records /\ kept \in SUBSET Records
    BY <2>2 DEF Calls
  <2>4. work' = [work EXCEPT ![p].alive = none, ![p].kept = kept]
    BY <1>10 DEF Stamp
  <2> HIDE DEF none, kept
  <2>5. work' = [work EXCEPT ![p] = w] /\ proc' = [proc EXCEPT ![p] = proc[p]]
    BY <1>10, <2>4 DEF Shape, TypeOK, Stamp
  <2>6. w \in Calls /\ InCall(proc[p], w) /\ w.held = work[p].held
    BY <2>2, <2>3 DEF Calls, InCall
  <2> HIDE DEF w
  <2>7. QED
    BY <1>10, <2>2, <2>5, <2>6, Moves DEF Stamp, Shape, TypeOK
<1>11. ASSUME NEW p \in Pids, NEW wrote \in BOOLEAN, Return(p, wrote),
              proc[p].pc \in {"probe", "write"}, clock' = clock,
              file' \in [parses : BOOLEAN, servers : SUBSET Records], spoiled' \in BOOLEAN
       PROVE  Shape'
  <2> DEFINE x == CASE work[p].op = "register" ->
                           [proc[p] EXCEPT !.pc = "serving", !.listed = wrote]
                    [] work[p].op = "unregister" -> NoProcess
                    [] work[p].op = "list" -> [proc[p] EXCEPT !.pc = "serving"]
  <2>1. proc[p] \in Processes /\ work[p] \in Calls /\ InCall(proc[p], work[p])
    BY DEF Shape, TypeOK
  <2>2. Idle \in Calls /\ ~Idle.held /\ Idle.op = "none"
    BY DEF Idle, Calls, Ops
  <2>3. x \in Processes /\ InCall(x, Idle)
    BY <1>11, <2>1, <2>2 DEF Processes, NoProcess, InCall, Ops
  <2>4. proc' = [proc EXCEPT ![p] = x] /\ work' = [work EXCEPT ![p] = Idle]
    BY <1>11 DEF Return
  <2> HIDE DEF x
  <2>5. QED
    BY <1>11, <2>2, <2>3, <2>4, Moves DEF Return, Shape, TypeOK
<1>12. ASSUME NEW p \in Pids, Read(p) \/ ReadFails(p)
       PROVE  Shape'
  BY <1>8, <1>12 DEF Read, ReadFails, Shape, TypeOK
<1>13. ASSUME NEW p \in Pids, Judged(p) \/ WriteRecords(p) \/ WriteFails(p) \/ WriteCutShort(p)
       PROVE  Shape'
  <2>1. work[p] \in Calls /\ work[p].kept \in SUBSET Records
    BY DEF Shape, TypeOK, Calls
  <2>2. CASE Judged(p)
    BY <1>7, <1>11, <2>2 DEF Judged, At, Shape, TypeOK
  <2>3. CASE WriteRecords(p)
    BY <1>11, <2>1, <2>3 DEF WriteRecords, At, Shape, TypeOK, Calls
  <2>4. CASE WriteFails(p)
    BY <1>11, <2>4 DEF WriteFails, At, Shape, TypeOK
  <2>5. CASE WriteCutShort(p)
    <3>1. file' \in [parses : BOOLEAN, servers : SUBSET Records]
      BY <2>5 DEF WriteCutShort
    <3>2. QED
      BY <1>11, <2>5, <3>1 DEF WriteCutShort, At, Shape, TypeOK
  <2>6. QED
    BY <1>13, <2>2, <2>3, <2>4, <2>5
<1>14. QED
  BY <1>1, <1>2, <1>3, <1>4, <1>5, <1>6, <1>7, <1>9, <1>10, <1>12, <1>13
     DEF Next, HandleApiServers, Shutdown, GoOnUnlocked, At

-----------------------------------------------------------------------------
(* A registered server stays in the file.                                  *)

Registered(q) == proc[q].listed /\ work[q].op # "unregister"

\* What the call of p has still to judge, or will write.
InHand(p) == work[p].left \cup work[p].alive \cup work[p].kept

\* The call of p has lost no registered server on the way from the file to the file.
Keeps(p) ==
  /\ proc[p].pc = "write" /\ work[p].op = "register" => OwnRecord(p) \in work[p].kept
  /\ work[p].held /\ ~work[p].blind =>
       \A q \in Pids : Registered(q) =>
         /\ proc[p].pc = "probe" => OwnRecord(q) \in InHand(p)
         /\ proc[p].pc = "write" => OwnRecord(q) \in work[p].kept

HolderKeeps == ~spoiled => file.parses /\ \A p \in Pids : Keeps(p)

ListedInv == Shape /\ HolderKeeps /\ ServerListed

\* A process writes of itself what it wrote before, as long as it lives.
LEMMA OwnKept ==
  ASSUME NEW q \in Pids, proc'[q].born = proc[q].born, proc[q].pc # "gone", proc'[q].pc # "gone"
  PROVE  OwnRecord(q)' = OwnRecord(q)
BY DEF OwnRecord, ProcessStartToken, ProcessRunning

\* A registered server is running, and its own record passes for it.
LEMMA OwnPasses ==
  ASSUME Shape, NEW q \in Pids, proc[q].listed
  PROVE  ProcessRunning(q) /\ SameProcess(OwnRecord(q)) /\ OwnRecord(q).pid = q
BY DEF Shape, InCall, ProcessRunning, SameProcess, OwnRecord

\* Once somebody wrote without the lock, nothing is promised.
LEMMA Spoils ==
  ASSUME Shape', spoiled'
  PROVE  ListedInv'
BY DEF ListedInv, HolderKeeps, ServerListed

\* A step of p that does not touch the file and registers nobody.
LEMMA Quiet ==
  ASSUME ListedInv, Shape', NEW p \in Pids,
         \A q \in Pids : q # p => proc'[q] = proc[q] /\ work'[q] = work[q],
         spoiled' = spoiled, file' = file,
         Registered(p)' => Registered(p) /\ proc'[p].born = proc[p].born,
         (/\ ~spoiled'
          /\ \A q \in Pids : Registered(q)' => Registered(q) /\ OwnRecord(q)' = OwnRecord(q))
             => Keeps(p)'
  PROVE  ListedInv'
<1>1. ASSUME NEW q \in Pids, Registered(q)'
      PROVE  Registered(q) /\ OwnRecord(q)' = OwnRecord(q)
  <2>1. Registered(q) /\ proc'[q].born = proc[q].born
    BY <1>1 DEF Registered
  <2>2. proc[q].pc # "gone" /\ proc'[q].pc # "gone"
    BY <1>1, <2>1 DEF Registered, ListedInv, Shape, InCall
  <2>3. QED
    BY <2>1, <2>2, OwnKept
<1>2. ServerListed'
  BY <1>1 DEF ServerListed, Registered, ListedInv
<1>3. ASSUME ~spoiled'
      PROVE  file'.parses /\ \A q \in Pids : Keeps(q)'
  <2>1. ~spoiled /\ file' = file
    BY <1>3 DEF ListedInv, Shape, TypeOK
  <2>2. ASSUME NEW q \in Pids, q # p
        PROVE  Keeps(q)'
    <3>1. proc[q].pc # "gone" => OwnRecord(q)' = OwnRecord(q)
      BY <2>2, OwnKept
    <3>2. QED
      BY <1>1, <2>1, <2>2, <3>1 DEF Keeps, InHand, ListedInv, HolderKeeps
  <2>3. QED
    BY <1>1, <1>3, <2>1, <2>2 DEF ListedInv, HolderKeeps
<1>4. QED
  BY <1>2, <1>3 DEF ListedInv, HolderKeeps

\* Every step keeps a registered server in the file, or in the hands of the holder.
LEMMA ListedStep ==
  ASSUME ListedInv, [Next]_vars
  PROVE  ListedInv'
<1> Shape /\ Shape'
  BY ShapeStep DEF ListedInv
<1> DEFINE Alone(p) == \A q \in Pids : q # p => proc'[q] = proc[q] /\ work'[q] = work[q]
<1>1. CASE UNCHANGED vars
  BY <1>1 DEF vars, ListedInv, HolderKeeps, Keeps, InHand, Registered, OwnRecord,
     ProcessStartToken, ProcessRunning, ServerListed
<1>2. ASSUME NEW p \in Pids, Serve(p) \/ OtherProgram(p) \/ Dies(p)
      PROVE  ListedInv'
  <2>1. Alone(p) /\ spoiled' = spoiled /\ file' = file
    BY <1>2 DEF Serve, OtherProgram, Dies, Shape, TypeOK
  <2>2. /\ ~proc'[p].listed
        /\ proc'[p].pc \in {"lock", "other", "gone"}
    <3>1. ASSUME NEW x, proc' = [proc EXCEPT ![p] = x], ~x.listed,
                 x.pc \in {"lock", "other", "gone"}
          PROVE  ~proc'[p].listed /\ proc'[p].pc \in {"lock", "other", "gone"}
      BY <3>1 DEF Shape, TypeOK
    <3>2. ASSUME NEW pc
          PROVE  LET x == [NoProcess EXCEPT !.born = clock + 1, !.pc = pc]
                 IN  ~x.listed /\ x.pc = pc
      BY Blank DEF Processes
    <3>3. QED
      BY <1>2, <3>1, <3>2, Blank DEF Serve, OtherProgram, Dies
  <2>4. QED
    BY <2>1, <2>2, Quiet DEF Registered, Keeps
<1>3. ASSUME NEW p \in Pids, HandleApiServers(p) \/ Shutdown(p)
      PROVE  ListedInv'
  <2>1. Alone(p) /\ spoiled' = spoiled /\ file' = file
    BY <1>3 DEF HandleApiServers, Shutdown, Enter, Goto, Shape, TypeOK
  <2>2. /\ proc'[p].pc = "lock" /\ proc'[p].listed = proc[p].listed
        /\ proc'[p].born = proc[p].born
    BY <1>3 DEF HandleApiServers, Shutdown, Enter, Goto, Shape, TypeOK, Processes
  <2>3. work[p].op # "unregister"
    BY <1>3 DEF HandleApiServers, Shutdown, At, Shape, InCall
  <2>4. QED
    BY <2>1, <2>2, <2>3, Quiet DEF Registered, Keeps
<1>4. ASSUME NEW p \in Pids, Lock(p) \/ GoOnUnlocked(p)
      PROVE  ListedInv'
  <2>1. Alone(p) /\ spoiled' = spoiled /\ file' = file
    BY <1>4 DEF Lock, GoOnUnlocked, Goto, Shape, TypeOK
  <2>2. /\ proc'[p].pc = "read" /\ proc'[p].listed = proc[p].listed
        /\ proc'[p].born = proc[p].born
    BY <1>4 DEF Lock, GoOnUnlocked, Goto, Shape, TypeOK, Processes
  <2>3. work'[p].op = work[p].op
    BY <1>4 DEF Lock, GoOnUnlocked, Shape, TypeOK, Calls
  <2>4. QED
    BY <2>1, <2>2, <2>3, Quiet DEF Registered, Keeps
<1>5. ASSUME NEW p \in Pids, NEW records, NEW blind \in BOOLEAN,
             ReadRecords(p, records, blind), spoiled' = spoiled,
             ~blind => records = IF file.parses THEN file.servers ELSE {}
      PROVE  ListedInv'
  <2> DEFINE op == work[p].op
             left == IF op = "list" THEN records ELSE {}
             kept == CASE op = "register" -> RegisterServeRecord(p, records)
                       [] op = "unregister" -> UnregisterServeRecord(p, records)
                       [] op = "list" -> {}
  <2>1. work' = [work EXCEPT ![p].stored = records, ![p].blind = blind, ![p].left = left,
                             ![p].kept = kept]
    BY <1>5 DEF ReadRecords
  <2>2. /\ op = "list" => records \subseteq left
        /\ op = "register" => kept = RegisterServeRecord(p, records)
        /\ op = "unregister" => kept = UnregisterServeRecord(p, records)
        /\ op \in Ops
    BY <1>5 DEF ReadRecords, Shape, InCall, At, Ops
  <2> HIDE DEF left, kept
  <2>3. Alone(p) /\ file' = file
    BY <1>5, <2>1 DEF ReadRecords, Goto, Shape, TypeOK
  <2>4. /\ work'[p].op = op /\ work'[p].held = work[p].held
        /\ work'[p].left = left /\ work'[p].kept = kept /\ work'[p].blind = blind
    BY <2>1 DEF Shape, TypeOK, Calls
  <2>5. /\ proc'[p].pc = IF op = "list" THEN "probe" ELSE "write"
        /\ proc'[p].listed = proc[p].listed /\ proc'[p].born = proc[p].born
    BY <1>5 DEF ReadRecords, Goto, Shape, TypeOK, Processes
  <2>6. ASSUME ~spoiled',
               \A q \in Pids : Registered(q)' => Registered(q) /\ OwnRecord(q)' = OwnRecord(q)
        PROVE  Keeps(p)'
    <3>0. OwnRecord(p)' = OwnRecord(p)
      BY <1>5, <2>5, OwnKept DEF ReadRecords, At
    <3>8. work'[p].op = "register" => OwnRecord(p)' \in work'[p].kept
      BY <2>2, <2>4, <3>0 DEF RegisterServeRecord
    <3> SUFFICES ASSUME ~blind, NEW q \in Pids, Registered(q)'
                 PROVE  /\ proc'[p].pc = "probe" => OwnRecord(q)' \in InHand(p)'
                        /\ proc'[p].pc = "write" => OwnRecord(q)' \in work'[p].kept
      BY <2>4, <3>8 DEF Keeps
    <3>1. Registered(q) /\ OwnRecord(q)' = OwnRecord(q)
      BY <2>6
    <3>2. OwnRecord(q) \in records
      BY <1>5, <2>6, <3>1 DEF ListedInv, HolderKeeps, ServerListed, Registered
    <3>3. op # "list" => q # p
      BY <2>2, <3>1 DEF Registered, Shape, InCall, Ops
    <3>4. op = "list" => OwnRecord(q) \in left
      BY <2>2, <3>2
    <3>5. op # "list" => OwnRecord(q) \in kept
      BY <2>2, <3>1, <3>2, <3>3, OwnPasses DEF RegisterServeRecord, UnregisterServeRecord,
         OthersAmong, Registered, Ops
    <3>6. QED
      BY <2>4, <2>5, <3>1, <3>4, <3>5 DEF InHand
  <2>7. QED
    BY <1>5, <2>3, <2>4, <2>5, <2>6, Quiet DEF Registered
<1>6. ASSUME NEW p \in Pids, Probe(p)
      PROVE  ListedInv'
  <2>1. PICK r \in work[p].left : work' = [work EXCEPT
           ![p].left = @ \ {r}, ![p].alive = IF ProcessRunning(r.pid) THEN {r} ELSE {}]
    BY <1>6 DEF Probe
  <2>2. Alone(p) /\ file' = file /\ spoiled' = spoiled /\ proc' = proc
    BY <1>6, <2>1 DEF Probe, Shape, TypeOK
  <2>3. /\ work'[p].op = work[p].op /\ work'[p].held = work[p].held
        /\ work'[p].left = work[p].left \ {r} /\ work'[p].kept = work[p].kept
        /\ ProcessRunning(r.pid) => work'[p].alive = {r}
        /\ work'[p].blind = work[p].blind
    BY <2>1 DEF Shape, TypeOK, Calls
  <2>4. proc[p].pc = "probe" /\ work[p].alive = {}
    BY <1>6 DEF Probe, At
  <2>5. ASSUME ~spoiled',
               \A q \in Pids : Registered(q)' => Registered(q) /\ OwnRecord(q)' = OwnRecord(q)
        PROVE  Keeps(p)'
    <3> SUFFICES ASSUME NEW q \in Pids, Registered(q)', work'[p].held, ~work'[p].blind
                 PROVE  OwnRecord(q)' \in InHand(p)'
      BY <2>2, <2>4 DEF Keeps
    <3>1. Registered(q) /\ OwnRecord(q)' = OwnRecord(q)
      BY <2>5
    <3>2. OwnRecord(q) \in work[p].left \cup work[p].kept
      BY <2>2, <2>3, <2>4, <2>5, <3>1 DEF ListedInv, HolderKeeps, Keeps, InHand
    <3>3. OwnRecord(q) = r => ProcessRunning(r.pid)
      BY <3>1, OwnPasses DEF Registered
    <3>4. QED
      BY <2>3, <3>1, <3>2, <3>3 DEF InHand
  <2>6. QED
    BY <2>2, <2>3, <2>5, Quiet DEF Registered
<1>7. ASSUME NEW p \in Pids, Stamp(p)
      PROVE  ListedInv'
  <2>1. Alone(p) /\ file' = file /\ spoiled' = spoiled /\ proc' = proc
    BY <1>7 DEF Stamp, Shape, TypeOK
  <2> DEFINE kept == work[p].kept \cup {r \in work[p].alive : SameProcess(r)}
  <2>6. work' = [work EXCEPT ![p].alive = {}, ![p].kept = kept]
    BY <1>7 DEF Stamp
  <2> HIDE DEF kept
  <2>2. /\ work'[p].op = work[p].op /\ work'[p].held = work[p].held
        /\ work'[p].left = work[p].left /\ work'[p].blind = work[p].blind
        /\ work'[p].kept = kept
    BY <2>6 DEF Shape, TypeOK, Calls
  <2>3. proc[p].pc = "probe"
    BY <1>7 DEF Stamp, At
  <2>4. ASSUME ~spoiled',
               \A q \in Pids : Registered(q)' => Registered(q) /\ OwnRecord(q)' = OwnRecord(q)
        PROVE  Keeps(p)'
    <3> SUFFICES ASSUME NEW q \in Pids, Registered(q)', work'[p].held, ~work'[p].blind
                 PROVE  OwnRecord(q)' \in InHand(p)'
      BY <2>1, <2>3 DEF Keeps
    <3>1. Registered(q) /\ OwnRecord(q)' = OwnRecord(q)
      BY <2>4
    <3>2. OwnRecord(q) \in work[p].left \cup work[p].alive \cup work[p].kept
      BY <2>1, <2>2, <2>3, <2>4, <3>1 DEF ListedInv, HolderKeeps, Keeps, InHand
    <3>3. SameProcess(OwnRecord(q))
      BY <3>1, OwnPasses DEF Registered
    <3>4. QED
      BY <2>2, <3>1, <3>2, <3>3 DEF InHand, kept
  <2>5. QED
    BY <2>1, <2>2, <2>4, Quiet DEF Registered
<1>8. ASSUME NEW p \in Pids, NEW wrote \in BOOLEAN, Return(p, wrote),
             proc[p].pc \in {"probe", "write"}
      PROVE  /\ Alone(p)
             /\ proc'[p].pc \in {"serving", "gone"}
             /\ ~work'[p].held
             /\ Registered(p)' => /\ proc'[p].born = proc[p].born
                                  /\ Registered(p) \/ (wrote /\ work[p].op = "register")
  <2> DEFINE x == CASE work[p].op = "register" ->
                           [proc[p] EXCEPT !.pc = "serving", !.listed = wrote]
                    [] work[p].op = "unregister" -> NoProcess
                    [] work[p].op = "list" -> [proc[p] EXCEPT !.pc = "serving"]
  <2>1. proc[p] \in Processes /\ work[p] \in Calls /\ InCall(proc[p], work[p])
    BY DEF Shape, TypeOK
  <2>2. /\ x.pc \in {"serving", "gone"}
        /\ x.listed => /\ x.born = proc[p].born
                       /\ \/ proc[p].listed /\ work[p].op # "unregister"
                          \/ wrote /\ work[p].op = "register"
    BY <1>8, <2>1, Blank DEF Processes, InCall, Ops
  <2>3. proc' = [proc EXCEPT ![p] = x] /\ work' = [work EXCEPT ![p] = Idle]
    BY <1>8 DEF Return
  <2> HIDE DEF x
  <2>4. proc'[p] = x /\ work'[p] = Idle
    BY <2>3 DEF Shape, TypeOK
  <2>5. Alone(p)
    BY <2>3 DEF Shape, TypeOK
  <2>6. Registered(p)' => x.listed
    BY <2>4 DEF Registered
  <2>7. (proc[p].listed /\ work[p].op # "unregister") => Registered(p)
    BY DEF Registered
  <2>8. QED
    BY <2>2, <2>4, <2>5, <2>6, <2>7, Blank
<1>9. ASSUME NEW p \in Pids, WriteRecords(p)
      PROVE  ListedInv'
  <2>1. CASE spoiled'
    BY <2>1, Spoils
  <2>2. CASE ~spoiled'
    <3>1. ~spoiled /\ work[p].held /\ ~work[p].blind /\ proc[p].pc = "write"
          /\ Return(p, TRUE) /\ file'.parses /\ file'.servers = work[p].kept
      BY <1>9, <2>2 DEF WriteRecords, At
    <3>2. Keeps(p)
      BY <3>1 DEF ListedInv, HolderKeeps
    <3>3. ASSUME NEW q \in Pids, Registered(q)'
          PROVE  OwnRecord(q)' \in work[p].kept
      <4>1. Registered(q) \/ (q = p /\ work[p].op = "register")
        <5>1. CASE q = p
          BY <1>8, <3>1, <3>3, <5>1
        <5>2. Alone(p)
          BY <1>8, <3>1
        <5>3. CASE q # p
          BY <3>3, <5>2, <5>3 DEF Registered
        <5>4. QED
          BY <5>1, <5>3
      <4>2. OwnRecord(q) \in work[p].kept
        BY <3>1, <3>2, <4>1 DEF Keeps
      <4>3. proc'[q].born = proc[q].born
        BY <1>8, <3>1, <3>3
      <4>4. proc[q].pc # "gone" /\ proc'[q].pc # "gone"
        BY <3>1, <3>3, <4>1 DEF Registered, Shape, InCall
      <4>5. QED
        BY <4>2, <4>3, <4>4, OwnKept
    <3>4. ServerListed'
      BY <3>1, <3>3 DEF ServerListed, Registered
    <3>5. ASSUME NEW q \in Pids
          PROVE  Keeps(q)'
      <4>1. CASE q = p
        BY <1>8, <3>1, <4>1 DEF Keeps
      <4>2. CASE q # p
        <5>a. Alone(p)
          BY <1>8, <3>1
        <5>b. proc'[q] = proc[q] /\ work'[q] = work[q]
          BY <4>2, <5>a
        <5>c. ~work[q].held
          BY <3>1, <4>2 DEF Shape, Exclusive
        <5>d. Keeps(q)
          BY <3>1 DEF ListedInv, HolderKeeps
        <5>1. ~work'[q].held /\ Keeps(q) /\ proc'[q] = proc[q] /\ work'[q] = work[q]
          BY <5>b, <5>c, <5>d
        <5>2. proc[q].pc # "gone" => OwnRecord(q)' = OwnRecord(q)
          BY <5>1, OwnKept
        <5>3. QED
          BY <5>1, <5>2 DEF Keeps
      <4>3. QED
        BY <4>1, <4>2
    <3>6. QED
      BY <3>1, <3>4, <3>5 DEF ListedInv, HolderKeeps
  <2>3. QED
    BY <2>1, <2>2
<1>10. ASSUME NEW p \in Pids, Return(p, FALSE), proc[p].pc \in {"probe", "write"},
              spoiled' = spoiled, file' = file
      PROVE  ListedInv'
  BY <1>8, <1>10, Quiet DEF Keeps
<1>11. ASSUME NEW p \in Pids, Judged(p)
      PROVE  ListedInv'
  <2>1. CASE Return(p, FALSE)
    BY <1>10, <1>11, <2>1 DEF Judged, At
  <2>2. CASE Goto(p, "write") /\ UNCHANGED <<work, lock>>
    <3>1. Alone(p) /\ file' = file /\ spoiled' = spoiled /\ work' = work
      BY <1>11, <2>2 DEF Judged, Goto, Shape, TypeOK
    <3>2. /\ proc'[p].pc = "write" /\ proc'[p].listed = proc[p].listed
          /\ proc'[p].born = proc[p].born
      BY <2>2 DEF Goto, Shape, TypeOK, Processes
    <3>3. /\ work[p].left = {} /\ work[p].alive = {} /\ proc[p].pc = "probe"
          /\ work[p].op = "list"
      BY <1>11 DEF Judged, At, Shape, InCall
    <3>4. InHand(p) = work[p].kept
      BY <3>3 DEF InHand
    <3>5. ASSUME ~spoiled',
                 \A q \in Pids : Registered(q)' => Registered(q) /\ OwnRecord(q)' = OwnRecord(q)
          PROVE  Keeps(p)'
      BY <3>1, <3>2, <3>3, <3>4, <3>5 DEF ListedInv, HolderKeeps, Keeps
    <3>6. QED
      BY <3>1, <3>2, <3>5, Quiet DEF Registered
  <2>3. QED
    BY <1>11, <2>1, <2>2 DEF Judged
<1>12. ASSUME NEW p \in Pids, Read(p) \/ ReadFails(p) \/ WriteFails(p) \/ WriteCutShort(p)
       PROVE  ListedInv'
  <2>1. CASE Read(p) \/ ReadFails(p)
    BY <1>5, <2>1 DEF Read, ReadFails
  <2>2. CASE WriteCutShort(p)
    BY <2>2, Spoils DEF WriteCutShort
  <2>3. CASE WriteFails(p)
    BY <1>10, <2>3 DEF WriteFails, At
  <2>4. QED
    BY <1>12, <2>1, <2>2, <2>3
<1>13. QED
  BY <1>1, <1>2, <1>3, <1>4, <1>6, <1>7, <1>9, <1>11, <1>12 DEF Next

\* The first states have the shape, and list nobody.
LEMMA InitListed == Init => ListedInv
<1> SUFFICES ASSUME Init
             PROVE  ListedInv
  OBVIOUS
<1>1. \A p \in Pids : proc[p] = NoProcess /\ work[p] = Idle
  BY DEF Init
<1>2. TypeOK /\ spoiled = FALSE /\ file.parses /\ lock = Free
  BY Blank DEF Init, TypeOK
<1>3. QED
  BY <1>1, <1>2, FreeIsNoPid, Blank DEF ListedInv, Shape, InCall, Exclusive, HolderKeeps, Keeps,
     ServerListed, Registered

\* A running server is in the file from its registration until it begins to
\* unregister, as long as nobody wrote without the lock: for every number of
\* servers, of deaths and of pids given to other programs.
THEOREM ListedHeld == Spec => []ServerListed
<1>1. ListedInv => ServerListed
  BY DEF ListedInv
<1>2. ListedInv /\ [Next]_vars => ListedInv'
  BY ListedStep
<1>3. QED
  BY <1>1, <1>2, InitListed, PTL DEF Spec

-----------------------------------------------------------------------------
(* A listing offers nobody else's pid.                                     *)

Stamps(records) == \A r \in records : r.started # NoStamp

\* The pid of r has been another process since before p's call began.
Stranger(p, r) ==
  /\ proc[r.pid].born # 0
  /\ proc[r.pid].born = work[p].began[r.pid]
  /\ proc[r.pid].born # r.started

\* No start time is ahead of the clock, every record bears one, and what a
\* listing has kept so far is nobody else's.
Sound(p) ==
  /\ proc[p].born <= clock
  /\ \A q \in Pids : work[p].began[q] <= clock
  /\ Stamps(InHand(p))
  /\ work[p].op = "list" => \A r \in work[p].kept : ~Stranger(p, r)

TrueInv == Shape /\ (Stamped => Stamps(file.servers) /\ \A p \in Pids : Sound(p))

\* The start time of p after a step of its: the same, none, or a new one.
Ages(p) ==
  \/ proc'[p].born = proc[p].born /\ clock' = clock
  \/ proc'[p].born = 0 /\ clock' = clock
  \/ proc'[p].born = clock + 1 /\ clock' = clock + 1

\* A step of p alone is sound if what p has in hand afterwards is.
LEMMA SoundMoves ==
  ASSUME TrueInv, Shape', NEW p \in Pids,
         \A q \in Pids : q # p => proc'[q] = proc[q] /\ work'[q] = work[q],
         Ages(p),
         Stamped => /\ Stamps(file'.servers)
                    /\ \A q \in Pids : work'[p].began[q] <= clock
                    /\ Stamps(InHand(p)')
                    /\ work'[p].op = "list" => \A r \in work'[p].kept : ~Stranger(p, r)'
  PROVE  TrueInv'
<1> SUFFICES ASSUME Stamped, NEW q \in Pids
             PROVE  Sound(q)'
  BY DEF TrueInv
<1> clock \in Nat /\ proc[p].born \in Nat /\ clock' \in Nat /\ clock <= clock'
  BY DEF TrueInv, Shape, TypeOK, Processes, Ages
<1>1. Sound(q) /\ Sound(p)
  BY DEF TrueInv
<1>2. CASE q = p
  <2>1. proc'[p].born <= clock'
    BY <1>1 DEF Sound, Ages
  <2>2. ASSUME NEW o \in Pids
        PROVE  work'[p].began[o] <= clock'
    <3>1. work'[p].began[o] \in Nat /\ work'[p].began[o] <= clock
      BY DEF TrueInv, Shape, TypeOK, Calls
    <3>2. QED
      BY <3>1
  <2>3. QED
    BY <1>2, <2>1, <2>2 DEF Sound
<1>3. CASE q # p
  <2>1. proc'[q] = proc[q] /\ work'[q] = work[q] /\ proc[q].born \in Nat
    BY <1>3 DEF TrueInv, Shape, TypeOK, Processes
  <2>2. work[q].kept \subseteq Records /\ \A o \in Pids : work[q].began[o] \in Nat
    BY DEF TrueInv, Shape, TypeOK, Calls
  <2>3. proc'[q].born <= clock' /\ \A o \in Pids : work'[q].began[o] <= clock'
    BY <1>1, <2>1, <2>2 DEF Sound
  <2>4. ASSUME work[q].op = "list", NEW r \in work[q].kept
        PROVE  ~Stranger(q, r)'
    <3>1. r.pid \in Pids /\ ~Stranger(q, r) /\ work[q].began[r.pid] <= clock
      BY <1>1, <2>2, <2>4 DEF Records, Sound
    <3>2. CASE r.pid # p
      BY <2>1, <3>1, <3>2 DEF Stranger
    <3>3. CASE r.pid = p
      BY <2>1, <2>2, <3>1, <3>3 DEF Stranger, Ages
    <3>4. QED
      BY <3>2, <3>3
  <2>5. InHand(q)' = InHand(q)
    BY <2>1 DEF InHand
  <2>6. QED
    BY <1>1, <2>1, <2>3, <2>4, <2>5 DEF Sound
<1>4. QED
  BY <1>2, <1>3

\* Every step is sound: a record is kept only if its pid is the process that
\* wrote it or has just ended, and a later process of that pid is younger than
\* the listing.
LEMMA TrueStep ==
  ASSUME TrueInv, [Next]_vars
  PROVE  TrueInv'
<1> Shape /\ Shape'
  BY ShapeStep DEF TrueInv
<1> DEFINE Alone(p) == \A q \in Pids : q # p => proc'[q] = proc[q] /\ work'[q] = work[q]
<1>1. CASE UNCHANGED vars
  <2>1. Shape /\ (Stamped => Stamps(file'.servers) /\ \A p \in Pids : Sound(p)')
    BY <1>1 DEF vars, TrueInv, Sound, Stranger, InHand
  <2>2. QED
    BY <2>1 DEF TrueInv
<1>2. ASSUME NEW x, NEW w, NEW p \in Pids, proc' = [proc EXCEPT ![p] = x],
             work' = [work EXCEPT ![p] = w], Stamped => Stamps(file'.servers),
             \/ x.born = proc[p].born /\ clock' = clock
             \/ x.born = 0 /\ clock' = clock
             \/ x.born = clock + 1 /\ clock' = clock + 1,
             w.kept = {}, w.left = {}, w.alive = {}, \A q \in Pids : w.began[q] <= clock
      PROVE  TrueInv'
  <2>1. Alone(p) /\ proc'[p] = x /\ work'[p] = w
    BY <1>2 DEF Shape, TypeOK
  <2>2. Ages(p)
    BY <1>2, <2>1 DEF Ages
  <2>3. QED
    BY <1>2, <2>1, <2>2, SoundMoves DEF Stamps, InHand
<1>3. ASSUME NEW p \in Pids, Serve(p)
      PROVE  TrueInv'
  <2>1. [NoProcess EXCEPT !.born = clock + 1, !.pc = "lock"].born = clock + 1
    BY Blank DEF Processes
  <2>2. LET w == [Idle EXCEPT !.op = "register"]
        IN  /\ w.kept = {} /\ w.left = {} /\ w.alive = {}
            /\ \A q \in Pids : w.began[q] = 0
    BY DEF Idle
  <2>3. clock \in Nat /\ (Stamped => Stamps(file'.servers))
    BY <1>3 DEF Serve, TrueInv, Shape, TypeOK
  <2>4. \A q \in Pids : [Idle EXCEPT !.op = "register"].began[q] <= clock
    BY <2>2, <2>3
  <2>5. QED
    BY <1>2, <1>3, <2>1, <2>2, <2>3, <2>4 DEF Serve
<1>4. ASSUME NEW p \in Pids, OtherProgram(p)
      PROVE  TrueInv'
  <2>1. [NoProcess EXCEPT !.born = clock + 1, !.pc = "other"].born = clock + 1
    BY Blank DEF Processes
  <2>2. Alone(p) /\ file' = file /\ work' = work
    BY <1>4 DEF OtherProgram, Shape, TypeOK
  <2>3. Ages(p)
    BY <1>4, <2>1 DEF OtherProgram, Ages, Shape, TypeOK
  <2>4. work[p].op = "none"
    BY <1>4 DEF OtherProgram, At, Shape, InCall
  <2>5. QED
    BY <2>2, <2>3, <2>4, SoundMoves DEF TrueInv, Sound, InHand
<1>5. ASSUME NEW p \in Pids, HandleApiServers(p) \/ Shutdown(p)
      PROVE  TrueInv'
  <2> DEFINE b == [q \in Pids |-> proc[q].born]
             x == [proc[p] EXCEPT !.pc = "lock"]
  <2>1. PICK op : /\ work' = [work EXCEPT ![p] = [Idle EXCEPT !.op = op, !.began = b]]
                  /\ proc' = [proc EXCEPT ![p] = x] /\ clock' = clock /\ file' = file
    BY <1>5 DEF HandleApiServers, Shutdown, Enter, Goto
  <2>2. \A q \in Pids : b[q] \in Nat /\ (Stamped => b[q] <= clock)
    BY DEF TrueInv, Sound, Shape, TypeOK, Processes
  <2> HIDE DEF b
  <2> DEFINE w == [Idle EXCEPT !.op = op, !.began = b]
  <2>3. w.kept = {} /\ w.left = {} /\ w.alive = {} /\ w.began = b
    BY Blank DEF Calls
  <2>4. Alone(p) /\ proc'[p] = x /\ work'[p] = w /\ x.born = proc[p].born
    BY <2>1 DEF Shape, TypeOK, Processes
  <2> HIDE DEF x, w
  <2>5. QED
    BY <2>1, <2>2, <2>3, <2>4, SoundMoves DEF TrueInv, Stamps, InHand, Ages
<1>6. ASSUME NEW p \in Pids, Dies(p)
      PROVE  TrueInv'
  <2>1. \A q \in Pids : Idle.began[q] = 0
    BY DEF Idle
  <2>2. clock \in Nat /\ (Stamped => Stamps(file'.servers)) /\ clock' = clock
    BY <1>6 DEF Dies, TrueInv, Shape, TypeOK
  <2>3. \A q \in Pids : Idle.began[q] <= clock
    BY <2>1, <2>2
  <2>4. QED
    BY <1>2, <1>6, <2>2, <2>3, Blank DEF Dies
<1>7. ASSUME NEW p \in Pids, Alone(p), file' = file, clock' = clock,
             proc'[p].born = proc[p].born,
             work'[p].op = work[p].op, work'[p].began = work[p].began,
             Stamped => Stamps(InHand(p)'),
             work[p].op = "list" => \A r \in work'[p].kept :
                r \in work[p].kept \/ (Stamped => ~Stranger(p, r))
      PROVE  TrueInv'
  <2>1. Ages(p)
    BY <1>7 DEF Ages
  <2>2. \A q \in Pids : proc'[q].born = proc[q].born
    BY <1>7
  <2>3. ASSUME Stamped, work[p].op = "list", NEW r \in work'[p].kept
        PROVE  ~Stranger(p, r)'
    <3>1. r.pid \in Pids /\ ~Stranger(p, r)
      BY <1>7, <2>3 DEF TrueInv, Sound, Shape, TypeOK, Calls, Records
    <3>2. QED
      BY <1>7, <2>2, <3>1 DEF Stranger
  <2>4. QED
    BY <1>7, <2>1, <2>3, SoundMoves DEF TrueInv, Sound
<1>8. ASSUME NEW p \in Pids, Lock(p) \/ GoOnUnlocked(p)
      PROVE  TrueInv'
  <2>1. Alone(p) /\ file' = file /\ clock' = clock
    BY <1>8 DEF Lock, GoOnUnlocked, Goto, Shape, TypeOK
  <2>2. proc'[p].born = proc[p].born
    BY <1>8 DEF Lock, GoOnUnlocked, Goto, Shape, TypeOK, Processes
  <2>3. /\ work'[p].op = work[p].op /\ work'[p].began = work[p].began
        /\ work'[p].left = work[p].left /\ work'[p].alive = work[p].alive
        /\ work'[p].kept = work[p].kept
    BY <1>8 DEF Lock, GoOnUnlocked, Shape, TypeOK, Calls
  <2>4. QED
    BY <1>7, <2>1, <2>2, <2>3 DEF TrueInv, Sound, InHand
<1>9. ASSUME NEW p \in Pids, NEW records, NEW blind, ReadRecords(p, records, blind),
             records \subseteq file.servers
      PROVE  TrueInv'
  <2> DEFINE op == work[p].op
             left == IF op = "list" THEN records ELSE {}
             kept == CASE op = "register" -> RegisterServeRecord(p, records)
                       [] op = "unregister" -> UnregisterServeRecord(p, records)
                       [] op = "list" -> {}
  <2>1. work' = [work EXCEPT ![p].stored = records, ![p].blind = blind, ![p].left = left,
                             ![p].kept = kept]
    BY <1>9 DEF ReadRecords
  <2>2. op \in Ops /\ At(p, "read")
    BY <1>9 DEF ReadRecords, Shape, InCall, At, Ops
  <2>3. op = "list" => kept = {}
    OBVIOUS
  <2>4. left \subseteq file.servers /\ kept \subseteq file.servers \cup {OwnRecord(p)}
    BY <1>9, <2>2 DEF RegisterServeRecord, UnregisterServeRecord, OthersAmong, Ops
  <2> HIDE DEF left, kept
  <2>5. Stamped => OwnRecord(p).started # NoStamp
    BY <2>2 DEF OwnRecord, ProcessStartToken, ProcessRunning, NoStamp, At, Shape, InCall
  <2>6. Alone(p) /\ file' = file /\ clock' = clock
    BY <1>9, <2>1 DEF ReadRecords, Goto, Shape, TypeOK
  <2>7. /\ work'[p].op = op /\ work'[p].began = work[p].began
        /\ work'[p].alive = work[p].alive
        /\ work'[p].left = left /\ work'[p].kept = kept
    BY <2>1 DEF Shape, TypeOK, Calls
  <2>8. proc'[p].born = proc[p].born
    BY <1>9 DEF ReadRecords, Goto, Shape, TypeOK, Processes
  <2>9. Stamped => Stamps(InHand(p)')
    BY <2>4, <2>5, <2>7 DEF TrueInv, Sound, Stamps, InHand
  <2>10. QED
    BY <1>7, <2>3, <2>6, <2>7, <2>8, <2>9
<1>10. ASSUME NEW p \in Pids, Probe(p)
       PROVE  TrueInv'
  <2>1. PICK r \in work[p].left : work' = [work EXCEPT
           ![p].left = @ \ {r}, ![p].alive = IF ProcessRunning(r.pid) THEN {r} ELSE {}]
    BY <1>10 DEF Probe
  <2> DEFINE left == work[p].left \ {r}
             alive == IF ProcessRunning(r.pid) THEN {r} ELSE {}
  <2>2. left \subseteq work[p].left /\ alive \subseteq work[p].left
    OBVIOUS
  <2>3. work' = [work EXCEPT ![p].left = left, ![p].alive = alive]
    BY <2>1
  <2> HIDE DEF left, alive
  <2>4. Alone(p) /\ file' = file /\ clock' = clock /\ proc' = proc
    BY <1>10, <2>3 DEF Probe, Shape, TypeOK
  <2>5. /\ work'[p].op = work[p].op /\ work'[p].began = work[p].began
        /\ work'[p].left = left /\ work'[p].alive = alive /\ work'[p].kept = work[p].kept
    BY <2>3 DEF Shape, TypeOK, Calls
  <2>6. Stamped => Stamps(InHand(p)')
    BY <2>2, <2>5 DEF TrueInv, Sound, Stamps, InHand
  <2>7. QED
    BY <1>7, <2>4, <2>5, <2>6
<1>11. ASSUME NEW p \in Pids, Stamp(p)
       PROVE  TrueInv'
  <2> DEFINE kept == work[p].kept \cup {r \in work[p].alive : SameProcess(r)}
  <2>1. work' = [work EXCEPT ![p].alive = {}, ![p].kept = kept]
    BY <1>11 DEF Stamp
  <2>2. /\ kept \subseteq work[p].kept \cup work[p].alive
        /\ \A r \in kept : r \in work[p].kept \/ (r \in work[p].alive /\ SameProcess(r))
    OBVIOUS
  <2> HIDE DEF kept
  <2>3. Alone(p) /\ file' = file /\ clock' = clock /\ proc' = proc
    BY <1>11, <2>1 DEF Stamp, Shape, TypeOK
  <2>4. /\ work'[p].op = work[p].op /\ work'[p].began = work[p].began
        /\ work'[p].left = work[p].left /\ work'[p].alive = {} /\ work'[p].kept = kept
    BY <2>1 DEF Shape, TypeOK, Calls
  <2>5. Stamped => Stamps(InHand(p)')
    BY <2>2, <2>4 DEF TrueInv, Sound, Stamps, InHand
  <2>6. ASSUME Stamped, NEW r \in work[p].alive, SameProcess(r)
        PROVE  ~Stranger(p, r)
    <3>1. r.started # NoStamp /\ r.pid \in Pids
      BY <2>6 DEF TrueInv, Sound, Stamps, InHand, Shape, TypeOK, Calls, Records
    <3>2. QED
      BY <2>6, <3>1 DEF SameProcess, Stranger, ProcessStartToken, ProcessRunning, NoStamp, Shape,
         InCall
  <2>7. QED
    BY <1>7, <2>2, <2>3, <2>4, <2>5, <2>6
<1>12. ASSUME NEW p \in Pids, NEW wrote, Return(p, wrote), proc[p].pc \in {"probe", "write"},
              clock' = clock, Stamped => Stamps(file'.servers)
       PROVE  TrueInv'
  <2> DEFINE x == CASE work[p].op = "register" ->
                           [proc[p] EXCEPT !.pc = "serving", !.listed = wrote]
                    [] work[p].op = "unregister" -> NoProcess
                    [] work[p].op = "list" -> [proc[p] EXCEPT !.pc = "serving"]
  <2>1. x.born = proc[p].born \/ x.born = 0
    BY <1>12, Blank DEF Shape, InCall, Ops, TypeOK, Processes
  <2>2. proc' = [proc EXCEPT ![p] = x] /\ work' = [work EXCEPT ![p] = Idle]
    BY <1>12 DEF Return
  <2> HIDE DEF x
  <2>3. \A q \in Pids : Idle.began[q] = 0
    BY DEF Idle
  <2>4. \A q \in Pids : Idle.began[q] <= clock
    BY <2>3 DEF Shape, TypeOK
  <2>5. QED
    BY <1>2, <1>12, <2>1, <2>2, <2>4, Blank
<1>13. ASSUME NEW p \in Pids, Judged(p)
       PROVE  TrueInv'
  <2>1. CASE Return(p, FALSE)
    BY <1>12, <1>13, <2>1 DEF Judged, At, TrueInv
  <2>2. CASE Goto(p, "write") /\ UNCHANGED <<work, lock>>
    <3>1. Alone(p) /\ file' = file /\ clock' = clock /\ work' = work
      BY <1>13, <2>2 DEF Judged, Goto, Shape, TypeOK
    <3>2. proc'[p].born = proc[p].born
      BY <2>2 DEF Goto, Shape, TypeOK, Processes
    <3>3. QED
      BY <1>7, <3>1, <3>2 DEF TrueInv, Sound, InHand
  <2>3. QED
    BY <1>13, <2>1, <2>2 DEF Judged
<1>14. ASSUME NEW p \in Pids, Read(p) \/ ReadFails(p)
       PROVE  TrueInv'
  BY <1>9, <1>14 DEF Read, ReadFails
<1>15. ASSUME NEW p \in Pids, WriteRecords(p) \/ WriteFails(p) \/ WriteCutShort(p)
       PROVE  TrueInv'
  <2>1. /\ proc[p].pc = "write" /\ clock' = clock
        /\ \E wrote \in BOOLEAN : Return(p, wrote)
        /\ file' = file \/ file'.servers \in {{}, work[p].kept}
    <3>1. CASE WriteRecords(p)
      BY <3>1 DEF WriteRecords, At
    <3>2. CASE WriteFails(p)
      BY <3>2 DEF WriteFails, At
    <3>3. CASE WriteCutShort(p)
      BY <3>3 DEF WriteCutShort, At
    <3>4. QED
      BY <1>15, <3>1, <3>2, <3>3
  <2>2. Stamped => Stamps(file'.servers)
    BY <2>1 DEF TrueInv, Sound, Stamps, InHand
  <2>3. QED
    BY <1>12, <2>1, <2>2
<1>16. QED
  BY <1>1, <1>3, <1>4, <1>5, <1>6, <1>8, <1>10, <1>11, <1>13, <1>14, <1>15 DEF Next

\* A listing does not offer the page a pid that was somebody else's from before
\* the listing began until it answers, on every platform that has start times.
THEOREM ListHeld == Spec => []ListTrue
<1>1. Init => TrueInv
  <2> SUFFICES ASSUME Init
               PROVE  TrueInv
    OBVIOUS
  <2>1. Shape
    BY InitListed DEF ListedInv
  <2>2. \A p \in Pids : proc[p] = NoProcess /\ work[p] = Idle
    BY DEF Init
  <2>3. \A q \in Pids : Idle.began[q] = 0
    BY DEF Idle
  <2>4. clock = 0 /\ file.servers = {}
    BY DEF Init
  <2>5. QED
    BY <2>1, <2>2, <2>3, <2>4, Blank DEF TrueInv, Sound, Stamps, InHand
<1>2. TrueInv /\ [Next]_vars => TrueInv'
  BY TrueStep
<1>3. TrueInv => ListTrue
  BY DEF TrueInv, Sound, Stranger, ListTrue, Answer, OthersAmong
<1>4. QED
  BY <1>1, <1>2, <1>3, PTL DEF Spec
=============================================================================
