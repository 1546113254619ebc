---------------------------- MODULE ServeRegistry ----------------------------
(***************************************************************************)
(* The file every `pu serve` of one machine writes itself into, and the    *)
(* lock file that makes a read and the write that follows it one step:     *)
(* src/src/config/serve_registry.cpp, called by serve.cpp when a server    *)
(* has its port and when it shuts down, and by the /api/servers route.     *)
(* Processes start, die at any point and hand their pid on; a process may  *)
(* also be some other program that has got a pid a record still names.     *)
(***************************************************************************)
EXTENDS Naturals, FiniteSets

CONSTANTS
    Pids,       \* the process numbers of the machine
    Free,       \* the lock file is locked by nobody
    Stamped,    \* the platform gives a process's start time (all but macOS)
    MaxStarts,  \* bound: processes started in all
    MaxFaults   \* bound: locks not waited for or opened, files not read or written

ASSUME FreeIsNoPid == Free \notin Pids
ASSUME StampedIsFlag == Stamped \in BOOLEAN

VARIABLES
    proc,     \* per pid: when its process was born, what it does, if it wrote its record
    work,     \* per pid: the registry call it is in
    lock,     \* who holds the lock file
    file,     \* serve.json: whether it parses, and its records
    clock,    \* processes started so far: the source of start times
    faults,   \* faults so far
    spoiled   \* history: somebody wrote without the lock, or from a list it could not read

vars == <<proc, work, lock, file, clock, faults, spoiled>>

NoStamp == 0

\* What the list tells apart of a ServeRecord: the process and its start time.
ServeRecord == [pid : Pids, started : 0..MaxStarts]

Idle == [op |-> "none", held |-> FALSE, stored |-> {}, blind |-> FALSE, left |-> {},
         alive |-> {}, kept |-> {}, began |-> [q \in Pids |-> 0]]
NoProcess == [born |-> 0, pc |-> "gone", listed |-> FALSE]

Init ==
    /\ proc = [p \in Pids |-> NoProcess]
    /\ work = [p \in Pids |-> Idle]
    /\ lock = Free
    /\ file = [parses |-> TRUE, servers |-> {}]
    /\ clock = 0
    /\ faults = 0
    /\ spoiled = FALSE

-----------------------------------------------------------------------------
(* What a process can ask of another.                                      *)

ProcessRunning(q) == proc[q].pc # "gone"

ProcessStartToken(q) ==
    IF Stamped /\ ProcessRunning(q) THEN proc[q].born ELSE NoStamp

\* Mutant: a pid that is alive is taken for the server that wrote the record.
StampUnread(r) == TRUE

\* The second half of StillRunning: the pid was alive a moment ago, and its
\* start time is read now.
SameProcess(r) ==
    LET now == ProcessStartToken(r.pid)
    IN  r.started = NoStamp \/ now = NoStamp \/ r.started = now

OwnRecord(p) == [pid |-> p, started |-> ProcessStartToken(p)]

OthersAmong(records, p) == {r \in records : r.pid # p}

-----------------------------------------------------------------------------
(* A registry call: lock, read, judge the records, replace the file.       *)

Fault == faults < MaxFaults /\ faults' = faults + 1

At(p, pc) == proc[p].pc = pc
Goto(p, pc) == proc' = [proc EXCEPT ![p].pc = pc]

\* ServeRegistryPath has an answer and the call constructs its RegistryLock.
Enter(p, op) ==
    /\ Goto(p, "lock")
    /\ work' = [work EXCEPT ![p] =
                   [Idle EXCEPT !.op = op, !.began = [q \in Pids |-> proc[q].born]]]

\* Mutant: the lock is taken although another process has it.
TryLockShared(p) == lock' = p

\* TryLock succeeds: flock, or the exclusive open on Windows.
TryLock(p) ==
    /\ lock = Free
    /\ lock' = p

Lock(p) ==
    /\ At(p, "lock")
    /\ TryLock(p)
    /\ work' = [work EXCEPT ![p].held = TRUE]
    /\ Goto(p, "read")
    /\ UNCHANGED <<file, clock, faults, spoiled>>

\* 200 attempts found it locked, or the lock file cannot be opened at all: the
\* call goes on without it.
GoOnUnlocked(p) ==
    /\ At(p, "lock")
    /\ Fault
    /\ Goto(p, "read")
    /\ UNCHANGED <<work, lock, file, clock, spoiled>>

\* What registering writes: it asks only whether a pid is alive, and drops an
\* earlier record of its own pid.
RegisterServeRecord(p, records) ==
    {r \in OthersAmong(records, p) : ProcessRunning(r.pid)} \cup {OwnRecord(p)}

UnregisterServeRecord(p, records) == OthersAmong(records, p)

\* ReadRecords: a file that does not open or does not parse is an empty list.
ReadRecords(p, records, blind) ==
    LET op == work[p].op
    IN  /\ At(p, "read")
        /\ work' = [work EXCEPT
              ![p].stored = records,
              ![p].blind = blind,
              ![p].left = IF op = "list" THEN records ELSE {},
              ![p].kept = CASE op = "register" -> RegisterServeRecord(p, records)
                            [] op = "unregister" -> UnregisterServeRecord(p, records)
                            [] op = "list" -> {}]
        /\ Goto(p, IF op = "list" THEN "probe" ELSE "write")
        /\ UNCHANGED <<lock, file, clock>>

Read(p) ==
    /\ ReadRecords(p, IF file.parses THEN file.servers ELSE {}, FALSE)
    /\ UNCHANGED <<faults, spoiled>>

ReadFails(p) ==
    /\ ReadRecords(p, {}, TRUE)
    /\ Fault
    /\ UNCHANGED spoiled

\* LiveServeRecords judges one record: its pid is asked for first, and its start
\* time after that, so a process may end between the two.
Probe(p) ==
    /\ At(p, "probe")
    /\ work[p].alive = {}
    /\ \E r \in work[p].left :
          work' = [work EXCEPT
             ![p].left = @ \ {r},
             ![p].alive = IF ProcessRunning(r.pid) THEN {r} ELSE {}]
    /\ UNCHANGED <<proc, lock, file, clock, faults, spoiled>>

Stamp(p) ==
    /\ At(p, "probe")
    /\ work[p].alive # {}
    /\ work' = [work EXCEPT
          ![p].alive = {},
          ![p].kept = @ \cup {r \in work[p].alive : SameProcess(r)}]
    /\ UNCHANGED <<proc, lock, file, clock, faults, spoiled>>

\* What HandleApiServers gives the page, once every record is judged.
Answer(p) ==
    IF work[p].op = "list" /\ work[p].left = {} /\ work[p].alive = {}
    THEN OthersAmong(work[p].kept, p)
    ELSE {}

\* The call returns and ~RegistryLock lets go; a server that has unregistered
\* ends.
Return(p, wrote) ==
    /\ lock' = IF work[p].held THEN Free ELSE lock
    /\ work' = [work EXCEPT ![p] = Idle]
    /\ proc' = [proc EXCEPT ![p] =
          CASE work[p].op = "register" -> [@ EXCEPT !.pc = "serving", !.listed = wrote]
            [] work[p].op = "unregister" -> NoProcess
            [] work[p].op = "list" -> [@ EXCEPT !.pc = "serving"]]

\* Every record is judged: the file is replaced only if one was dropped.
Judged(p) ==
    /\ At(p, "probe")
    /\ work[p].left = {} /\ work[p].alive = {}
    /\ IF work[p].kept # work[p].stored
       THEN Goto(p, "write") /\ UNCHANGED <<work, lock>>
       ELSE Return(p, FALSE)
    /\ UNCHANGED <<file, clock, faults, spoiled>>

\* WriteRecords: a temporary file of this process's own, then a rename.
WriteRecords(p) ==
    /\ At(p, "write")
    /\ file' = [parses |-> TRUE, servers |-> work[p].kept]
    /\ spoiled' = (spoiled \/ ~work[p].held \/ work[p].blind)
    /\ Return(p, TRUE)
    /\ UNCHANGED <<clock, faults>>

\* The temporary file does not open or the rename fails: a warning, no more.
WriteFails(p) ==
    /\ At(p, "write")
    /\ Fault
    /\ Return(p, FALSE)
    /\ UNCHANGED <<file, clock, spoiled>>

\* The disk fills: nothing looks at the stream after `file << text`, and the
\* rename publishes what there is of it.
WriteCutShort(p) ==
    /\ At(p, "write")
    /\ Fault
    /\ file' = [parses |-> FALSE, servers |-> {}]
    /\ spoiled' = TRUE
    /\ Return(p, TRUE)
    /\ UNCHANGED clock

-----------------------------------------------------------------------------
(* The processes of the machine.                                           *)

\* A server that has its port registers before it accepts a connection.
Serve(p) ==
    /\ At(p, "gone")
    /\ clock < MaxStarts
    /\ clock' = clock + 1
    /\ proc' = [proc EXCEPT ![p] = [NoProcess EXCEPT !.born = clock + 1, !.pc = "lock"]]
    /\ work' = [work EXCEPT ![p] = [Idle EXCEPT !.op = "register"]]
    /\ UNCHANGED <<lock, file, faults, spoiled>>

\* Some other program starts and is given the pid.
OtherProgram(p) ==
    /\ At(p, "gone")
    /\ clock < MaxStarts
    /\ clock' = clock + 1
    /\ proc' = [proc EXCEPT ![p] = [NoProcess EXCEPT !.born = clock + 1, !.pc = "other"]]
    /\ UNCHANGED <<work, lock, file, faults, spoiled>>

\* A page asks for the other servers: HandleApiServers.
HandleApiServers(p) ==
    /\ At(p, "serving")
    /\ Enter(p, "list")
    /\ UNCHANGED <<lock, file, clock, faults, spoiled>>

\* The shutdown was requested and the connections are closed.
Shutdown(p) ==
    /\ At(p, "serving")
    /\ Enter(p, "unregister")
    /\ UNCHANGED <<lock, file, clock, faults, spoiled>>

\* A process ends without another line of its own: the kernel drops its lock.
Dies(p) ==
    /\ ~At(p, "gone")
    /\ proc' = [proc EXCEPT ![p] = NoProcess]
    /\ work' = [work EXCEPT ![p] = Idle]
    /\ lock' = IF work[p].held THEN Free ELSE lock
    /\ UNCHANGED <<file, clock, faults, spoiled>>

Next ==
    \E p \in Pids :
        \/ Serve(p) \/ OtherProgram(p) \/ HandleApiServers(p) \/ Shutdown(p) \/ Dies(p)
        \/ Lock(p) \/ GoOnUnlocked(p) \/ Read(p) \/ ReadFails(p)
        \/ Probe(p) \/ Stamp(p) \/ Judged(p)
        \/ WriteRecords(p) \/ WriteFails(p) \/ WriteCutShort(p)

Spec == Init /\ [][Next]_vars

-----------------------------------------------------------------------------
(* A running server is in the file from the moment it has registered until *)
(* it begins to unregister, whatever the other servers of the machine do   *)
(* at the same time and whichever of them die half way: a listing never    *)
(* drops it and a registration never overwrites it. The exceptions are the *)
(* ones the code warns of or cannot see: somebody wrote without the lock,  *)
(* could not open the file it then replaced, or published a file the disk  *)
(* had no room for (serve_registry.cpp, RegistryLock and WriteRecords).    *)
ServerListed ==
    \A p \in Pids :
        (proc[p].listed /\ work[p].op # "unregister" /\ ~spoiled)
            => OwnRecord(p) \in file.servers

(* A listing does not offer the page a pid that was, from before the       *)
(* listing began until it answers, some other process than the one that    *)
(* wrote the record: the number of a server that crashed may be given to   *)
(* any program, and StillRunning compares start times to tell (on a        *)
(* platform that has them).                                                *)
ListTrue ==
    Stamped =>
        \A p \in Pids : \A r \in Answer(p) :
            LET stranger == proc[r.pid].born
            IN  ~(/\ stranger # 0
                  /\ stranger = work[p].began[r.pid]
                  /\ stranger # r.started)
=============================================================================
