# A TLA+ model of pu

`pu` is a command-line and web client that runs a language model with tools. `pu serve` gives one
session to one browser page, accepts turns from other servers (*peers*), and keeps a task board on
which peers and people hand each other jobs. These modules model the parts of it in which order,
concurrency and failure matter, check them with TLC on small instances, and prove the central
results with TLAPS for every value of the constants.

Paths below are relative to the repository; `PROJECT.json` maps every definition to its lines.

## 1. The system

| Part | State | Operations | Talks to |
| :--- | :---- | :--------- | :------- |
| Task board (`src/serve/board.cpp`) | jobs in a deque, presence of peers, a trail | Post, Update, Answer, Chase, Drop, TouchPeer; read-only Snapshot, Page, Digest | HTTP routes, the turn runner (closing a job), the prompt (digest) |
| Tool loop (`src/runtime/executor.cpp`) | budget, note, origin, approval; the locals of a turn | Execute, RunToolLoop, CallProvider, RunToolCalls, AskApproval | the conversation, a provider, the tools; other threads store its token and its note |
| Conversation (`include/pu/session/graph.hpp`, `src/session/*`) | nodes with a parent, a leaf | append, complete by id, seal, rewind, clear, serialise | the tool loop, `/rewind`, `POST /api/rewind` |
| Turn runner (`src/app/serve_runner.cpp`) | queue of jobs, the attached page, records of frames, the turn's token | Attach, Detach, Submit, SubmitFromPeer, CancelTurn, RunJob, Stop | sockets, the runtime, the board |
| Sockets (`src/app/serve_websocket.cpp`) | open or closed, page or not, tab name, write queue | Start, frames `run` `cancel` `note` `resolve_approval`, Finish | the turn runner, the runtime |
| HTTP routes (`src/app/serve_http_routes.cpp`) | none | admission by address and token; peer messages, rewind, settings, board verbs | runtime, runner, board |
| Runtime (`src/runtime/runtime.cpp`) | session, agent, provider, MCP servers | ProcessInput, switch of agent, save | everything |
| Tools (`src/tools`), exec (`src/exec/run.cpp`), pager (`src/paging`), request path (`src/session/request.cpp`) | buffers by cursor, the marks and ranks of runs | run a command, stop it, page its output, leave superseded pages out of a request; write a file, message a peer | the tool loop |
| MCP client and transports (`src/mcp`) | pending calls by id, a child process, a reader thread | Connect, SendRequest, OnMessage, Disconnect | the tool box |
| Serve registry (`src/config/serve_registry.cpp`) | a file shared by processes | register, unregister, list | other servers |
| Providers (`src/llm`, `src/core/sse.cpp`), HTTP client | a parse in progress | stream a reply | the tool loop |
| Page (`web/ws.js`, `web/session.js`, `web/state.js`) | socket, timers, the reply being drawn | connect, reconnect, watchdog, frame handlers | sockets, HTTP routes |
| Configuration, CLI, logging | none that changes | | |

**Threads of a server.** One thread runs every socket handler and HTTP handler. One worker runs
turns, one at a time. The main thread waits for a signal, then stops and joins the first and stops
and joins the second (`src/app/serve.cpp`). Handlers exclude each other and nothing else: they store
the worker's cancel token, assign its note, answer its approval and move the leaf of the
conversation it is appending to.

**What is hard.** A page that reloads while frames are being sent; a cancel that races the end of a
turn; the socket a reload left behind; a shutdown at any point; a cancel between two tool calls of
one reply; notes and rewinds from another thread; ids a provider reuses; a board on which people and
peers move the same job; eviction from a full board; a hand-off whose requests are lost or late; a
switch of agent under a running call; two threads saving one file, and a crash between opening and
writing it; a reply that comes after its caller gave up; output cut at its limit and numbered from
counts; cursors that outlive their buffer and their process; a stream cut anywhere; servers that die
holding a lock and pids that are reused. `PROJECT.json` lists these as hazards, each at its line
with the properties that would catch it.

## 2. The modules

| Module | Models | Composition |
| :----- | :----- | :---------- |
| `Board`, `BoardProofs` | the task board; theorems about it and about the hand-off over it | |
| `Turn`, `TurnProofs` | the tool loop over the conversation graph; theorems about it | |
| `SessionRunner`, `SessionRunnerProofs` | the turn runner, sockets, peers' messages, shutdown; theorems about it | takes a turn from `Turn` as a sequence of frames and an ending, a job's state from `Board` |
| `SessionStore`, `SessionStoreProofs` | the runtime's session: commands, routes, settings, agents, the file; theorems about it | takes a turn from `Turn` as what it appends |
| `HandOff` | one server handing a job to another: `send_to_peer`, the routes, the board, the worker | extends `Board`, whose actions are the receiver's; takes a turn from `SessionRunner` as taken, ended and closed |
| `Shell`, `ShellProofs` | `execute_bash`: command execution, pager, request path; theorems about it | a receipt of `Turn` is a page here |
| `Stream`, `StreamProofs` | a turn's requests: HTTP client, event parser, provider, usage; theorems about it | the provider's answer that `Turn` takes in one step |
| `McpClient`, `McpClientProofs` | the MCP client over three transports; theorems about it | implements `RemoteCall` |
| `RemoteCall` | what a caller of a remote tool is promised | instantiated by `McpClient` |
| `ServeRegistry`, `ServeRegistryProofs` | the list of servers that processes of one machine share; theorems about it | |
| `MC*` | model values, symmetry and constraints for the runs | extend the above |

### Board

One action per verb: the class does everything under one mutex, and an operation that throws has
assigned nothing before it does, so a refusal is an action that is not enabled. The deque `jobs_` is
split in two: `jobs` holds the records by id, `order` the ids in the deque's order, which matters
because `std::stable_sort` keeps the order of equal stamps and stamps have a precision of a second
(`Tick` advances the clock; any number of operations may share a stamp). `StableSorts` defines the
sort by what it guarantees. `posted`, `ended` and `refusals` are history: what was ever posted,
which outcome a caller was given, and how often the job was declined since its holder last took it.

### Turn

The store is reduced to the chain from the root to the leaf: every append follows the leaf and drops
what the leaf does not reach. A call is a command or a `send_to_peer` naming a peer; texts are empty
or not; a tool refuses, runs, or (a command) is stopped by the token. Call ids are numbered within
each reply, the hardest case for `CompleteFor`, which looks a call up by its id. An action of the
turn's thread is the code between two points at which another thread's step can matter: `Top`
(budget, wrap-up, request), `ReplyCalls`/`ReplyText`/`Throws` (the provider's answer), `StartCall`,
`EndCall`, `EndRound`, `Finish`. The other threads `Cancel`, `SetUserNote` and `RewindBefore`, the
last of which the server does not exclude during a turn. `displaced` remembers that a rewind moved
the leaf under a turn or separated a call from its receipt, after which the pairing of calls and
receipts is no longer what the loop wrote; `cut` remembers that a cancel ended a reply before its
last call, the one excuse a call of an undisplaced chain has for having no receipt.

### SessionRunner

The worker is cut wherever it releases a lock or reads an atomic: taking a job and opening its
record (`Pop`), creating the token (`Begin`), writing a frame to the record (`Push`, part of the
action that says it) and sending it to whoever is attached then (`Deliver`), reading the request
flag (`TakeRequest`), dropping the token (`DropToken`), deciding whether to end silently
(`EndSilently`, or `SayUsage` and `SayLast`), closing the board job, and reporting a close that
threw (`CloseRefused`, `ReportError`, `ReportDone`, `ReportFinish`). `ProcessInput` catches what a
turn throws, so closing the job is the one step of `RunJob` that can. Opening a socket is two
actions (`Open`, `HandOver`), because `Attach` sends the frames it collected after it has released
its lock. Every other handler is one action: the worker cannot tell its parts apart. A shutdown is
`Stop` and `StopTurn`, one per lock, enabled once no handler runs. `askers` and `late` are history:
whose cancel found the turn's token, and whether the first of them came when the flag had already
been read.

### SessionStore

Two threads reach the session: the worker (`ProcessInput`: a turn or a slash command) without the
session's lock, and the routes, one at a time, under it. `at` says where each is. A turn is
`StartTurn`, `ModelCalls`, `CallReturns`, `FinishTurn`, so that a route's step falls anywhere in it;
a command or a route is one step up to its first save. Opening the file truncates it (`OpenFile`),
writing it is a second step (`WriteFile`), so a `Crash` or the other thread's save can come between;
`OpenFails` is the save that only warns. A switch is `Switch` (`RebuildToolbox`: tools, policy,
prompt, active agent) and `SyncSession` (`SetAgent`, which may refuse). `Initialize` builds tools
for the default agent, loads the file or sets it aside, and builds them again for the agent the
session resumes. The budget is what the executor was last given, which a switch and a start do
before the new agent counts. `doubtful`, `excuse` and `chosen` are history and name the exceptions
of the two properties.

### HandOff

The sender's tool makes two HTTP exchanges: it posts a job on the receiver's board (`PostJob`,
`PostAnswered` or `PostFails`) and then messages it (`SendAnswered` or `SendFails`). The HTTP client
has deadlines and no retry, so a sender may give up at any time, and what it sent is handled before
that, after it or never: `wire` holds the request or the answer a call has in flight. The receiver's
board is `Board` itself, which this module extends, with every verb the routes offer
(`HandleApiJobsPost`, `HandleApiJobsPatch`, `HandleVerbs`, `Touch` before any of them).
`HandlePeerMessage` claims and queues in one step: handlers share one thread, and the worker moves
no job that has no turn. The worker takes a turn (`Take`), which ends well, badly or cancelled
(`EndTurn`), and closes its job (`CloseBoardJob`), also when the board refuses that because the job
was taken back, moved by hand or evicted. A `Restart` of the receiver loses board and queue, which
are in memory. `moved` is history: the jobs a `PATCH` moved, of which the board no longer says how
their turn stands. So is `unread`: the calls whose message was accepted in an answer nobody read.

### Shell

One thread calls the tool; the child prints, closes its output and ends as it likes; the user stops
it. A capture is the range of bytes it holds, cut as `Capture` cuts it (`Consume`, `DropToBudget`,
`Take`); output is newlines and other bytes. The POSIX loop (`ReadSome`, `ReadEnd`, `PollTick`,
`Reap`) and the Windows loop (`FgetsSome`, `FgetsEnd`) are both there. `Store` names a buffer with
the pager's mark and evicts; `Read` cuts a page from either end with its cursors. The transcript
keeps the pages the model was shown over rewinds and a `Restart`, after which the pager has a new
mark and its ranks continue those of the transcript; `BuildRequestPath` decides which pages a
request leaves out. A buffer also remembers the run that filled it and how its child ended, which no
code reads and the properties compare with.

### Stream

A request goes through the phases of `BeastHttpClient` (`Chat`, `Advance`, `Refused`, `Timeout`),
the gateway writes a reply in pieces of lines (`Send`, `SendEnd`, `Break`), `OnPiece` is the write
callback with everything it runs: the line buffer, `HandleLine`, `Dispatch`, the provider's
accumulators. `EndOfBody` is `Finish`, the flush of pending tool calls and `CallProvider`'s sums. An
event is its place in the reply, so that what was handled, joined or lost can be told. A fragment of
a call says whether it carries an id and whether it carries text of the arguments; the index it
belongs to is kept for the properties only, as the code does not read it.

### McpClient

The caller (`Connect` and `Handshake`, `ListTools`, `CallTool`, `Return`, `Timeout`), whoever
disconnects (`Disconnect`, `Join`, `Reap`), the transport's thread (`Read`, `SeeStop`, `SeeEnd`; for
HTTP `Take`, `EndPost`; on Windows `Leave`) and the server, which is external (`Answer`, `Ask`,
`Exit`). A write to a child's pipe may wait (`pc = "writing"`) until the child reads (`Written`) or
is gone (`WriteBroken`). `RebuildToolbox` disconnects from a route's thread while the worker may be
in a call, so `Disconnect` is enabled wherever the caller is, and `stop` says how far it has come: a
call that waits when the table is freed finds its promise broken. Ids start over with each
connection, `made` numbers the calls across them. Two ends of the model stand for what C++ leaves
undefined or a signal does: `"undefined"` where a stop frees what a reader or a caller still uses,
`"killed"` where a write to a closed pipe raises SIGPIPE.

**Refinement.** `RemoteCall` has two actions: a call begins, and ends once, with its own answer, an
answer of the server's own making (whose id happened to be the call's) or none. `McpClient` maps
`calling` to the number of the call that writes or waits and 0 otherwise; `KeepsPromise` is
`RemoteCall!Spec` under that mapping, checked as a property of the run.

### ServeRegistry

A process is born with a stamp, may die at any step and hands its pid on; a pid may also belong to
some other program. A registry call is `Lock` (or `GoOnUnlocked` after two seconds), `Read`, `Probe`
and `Stamp` for each record (the two halves of `StillRunning`), `Judged`, and `WriteRecords`, which
replaces the file in one step; `ReadFails`, `WriteFails` and `WriteCutShort` are its faults.
`spoiled` is history: somebody wrote without the lock or from a list that could not be read
(`blind`); a failed read alone spoils nothing.

## 3. The runs

| Run | Question | Result |
| :-- | :------- | :----- |
| `board` | Do limits, outcomes, questions, trail, presence and declines agree under every sequence of verbs? | holds |
| `turn` | Over two turns: is every request paired, every record true to its receipt, no round under the name of another turn's asker, the number of calls bounded? | holds, up to the exceptions the properties name |
| `turn_seal` | Is every call a cancelled turn never ran sealed (`ARCHITECTURE.md:356`)? | no: only while the leaf is the reply itself |
| `turn_origin` | Does a turn a peer asked for reach only its sender (`peers-and-board.md:64`)? | no: from its second round on it reaches any peer |
| `runner` | Who holds the session, which frames a page has, whose cancel a turn answers, what becomes of a board job; does every accepted message get its turn, and does a shutdown end the worker? | holds, up to the window `CancelAnswered` names, and unless the worker waits for an approval |
| `runner_stop` | Does a shutdown end the worker (`ARCHITECTURE.md:357`)? | no: a worker that waits for an approval is joined for ever |
| `session` | When nobody is at work, does the file hold the session, and are tools and budget those of its agent? | holds, up to the exceptions the properties name |
| `handoff` | Is what the tool says, and what the board shows, true of a hand-off whose requests are lost or late, and does a queued turn settle? | holds; `did not arrive` is also said when only the answer was lost |
| `shell` | Are verdicts, line numbers, pages, cursors and elisions true, and does a stop end a command? | holds |
| `stream` | Is every event handled once, every call whole, every count and price summed once, and does a request end? | holds; calls for gateways that send one after another |
| `mcp` | Does a client keep the promise of `RemoteCall`, put lines together as sent, and do calls and stops end? | holds; a call ends unless its write waits for a server that does not read |
| `registry` | Does a running server stay listed, and is a pid that was handed on told from the server that had it? | holds, up to the exceptions the properties name |

**Bounds.** `board`: three ids, two peers, room for two jobs, a clock with two readings, so equal
and unequal stamps, a deque out of the order of its stamps, a full board, a refused post and the
eviction of an open or a closed job all occur; the trail holds two entries, so the last entry for a
job may be followed by another's and is lost when two newer ones come. With no room for closed jobs
beside the open ones the limit on the former follows from the size of the board; the theorem
`LimitsHold` covers the other sizes. `IdsInOrder` has posts take the unused ids in order, which
makes no difference to ids that are only compared for equality; the other constraints of `MCBoard`
keep the run small and say what they leave out. `turn`: two turns, so the second sees what the first
left; replies of up to two calls with a budget of two, so a turn ends before the budget, at it in
the middle of a reply and past it, the wrap-up round is reached and calls again, and a cancel falls
between two calls; two notes or rewinds. `runner`: two sockets (a page and the reload or second
tab), a tab name and none, two turns and a third, one board job, one streamed frame; two records are
kept, so the third turn pushes out the first record. The constraints of `MCSessionRunner` leave out
steps without effect, let only the first turn stream and ask, and keep the third plain
(`MCSessionRunner` says how); none makes the worker wait, so they do not help the liveness
properties. `turn_origin`: one turn of two rounds and a peer that did not ask. `session`: two
configured agents and an adopted one, one turn that may call a tool, three requests or failed saves,
two starts: a switch under a call, two overlapping saves or switches, and a crash between any two
steps occur. `handoff`: two calls and one post by others on a board of two jobs, so a post is
refused, and a job is evicted under its turn; one move by hand, one restart; the clock stands and no
trail is kept, of which the run `board` has both. `shell`: four bytes are kept of a command that
prints up to seven, two buffers of three runs, two starts with marks that may be equal. `stream`:
two requests against gateways of both framings, with replies that split a payload over two lines,
fragment a call, interleave two, repeat an id on each fragment, stop at the cap before, in and after
the arguments, leave out the blank line, the counts or the price. `mcp`: three calls, which are a
handshake, one that times out and one its late reply could reach, or two connections; one message of
the server's own. `registry`: three pids, four processes, one fault. Symmetry is used for pids, in a
run without liveness.

`CHECK_DEADLOCK FALSE` is set because these systems stop: the bounds are used up, and a worker that
has exited, or waits for an approval after a shutdown, does nothing more.

**Fairness.** `SessionRunner` assumes that the worker and the main thread in `Stop` go on while they
can (they are threads of a running process), and nothing of the handlers; a turn streams finitely
many frames before `ProcessInput` returns. `Shell` assumes that the poll of `Run` wakes (50 ms) and
that a killed child ends. `HandOff` assumes that the worker takes a turn and closes a job when it
can, not that a turn returns. `Stream` assumes that the resolver answers, that a deadline that was
armed passes, and that what arrived is read. `McpClient` assumes the clock of `wait_for`, the poll
of the POSIX reader, the bounded waits of `Stop`, the idle deadline under a POST and that a write
ends with its child; not that a write to a child that lives does. Nothing is assumed of pages,
peers, people, gateways, servers or children: they may never answer. `Board`, `Turn`, `SessionStore`
and `ServeRegistry` state safety only.

## 4. The proofs

Each module of proofs states its theorems for every value of the constants that its model's ASSUME
allows. The assumptions say what the constants are (a limit is a number, a missing value is none of
the values it stands beside) and, where the environment is a constant, what it may do: a command
prints newlines and other bytes.

`BoardProofs` (every set of peers and ids, every limit, from `LimitsAssumption` and
`NamesAssumption`): `TypeCorrect`, `LimitsHold`, `OutcomesFinal`, `QuestionsAccounted`,
`PresenceIsHonest`, `DeclinesNeedTaking` and `TrailHeld`. The invariants are not inductive alone.
Limits on unclosed jobs need that the board's set of jobs is finite and that only `Post` enlarges
the set of unclosed ones, from below the limit; the limit on the deque needs that a stable sort
keeps its length (`SortType`); `PresenceHonest` needs that outcomes are final; and a decline needs
`Coherent`, which ties `declined_by` to the history of the holder's takes. `IInv` is their
conjunction, kept by each action in turn. `TrailAgrees` is about the last entry for a job, wherever
it stands in the trail; it is kept because a verb appends an entry that `Says` what it made of the
job, and an append leaves the last entries of the other jobs the last ones.

The same module proves the hand-off (every number of calls, posts by others, moves by hand and
restarts): `BoardKept` and `LegibleHeld`. Every step of `HandOff` is a step of the board or a
restart, and an empty board satisfies `IInv` and `TrailAgrees` whatever its past, so the board keeps
its promises under a hand-off. `HandOffInv` says where the tool, its exchange and the turn of a call
can stand together (`Stands`), that two calls never made the same job, that the queue holds the
calls that wait, each once (`Waits`), and that a job with a turn is addressed to this server
(`Fits`): without the last, a turn could end and find its job another's, neither closed nor its own
to close. That `did not arrive` is said exactly of calls without a turn and of calls in `unread`
needs that an answer on the wire which says a turn is queued is true of a turn that is.

`TurnProofs` (every set of peers, every budget and reply length, from `TurnAssumption`):
`OriginHeld`, `BudgetHeld`, `StatusHeld` and `PairedHeld`. The first needs to know where the asker's
name is at every point of a turn (`OriginFollows`): with the executor until the first round takes
it, then with that round, then nowhere, so that no later turn can find it. The second counts the
calls a turn may still make (`CallsLeft`): the rest of the reply it is running and, before the
wrap-up, one more reply. The other two are about the whole chain (`ChainInv`): every answer has the
receipts of its first calls behind it, in order, and its records say so (`Told`), no receipt stands
anywhere else (`Tidy`), the answer being run is the last and lacks exactly the calls the round has
left (`Current`), and between rounds none lacks any (`Settled`) but a reply that a cancel `cut`,
until a rewind displaced the leaf.

`SessionRunnerProofs` (every set of sockets, tabs and jobs, every number of messages, frames and
records kept, from `RunnerAssumption`): `PageHeld`, `CancelHeld`, `ReloadHeld`, `JobHeld`,
`RecordsHeld`, `FramesHeld` and `AnswerHeld`. Each has an invariant that says what is true between
two locks: `PagesOK`, the attached socket is open and the one being handed frames; `CancelOK`, the
flag of a cancel is set exactly while a page has asked during this turn, or did when its own flag
had been read; `BoardOK` with `Keeps`, which jobs the queue may name and that a close that was
refused found its job closed; `RecordsOK`, all records but the newest are finished; `FramesOK`, a
page has, is being handed or is about to be sent each frame; `WordsOK`, the turn of a page that
asked for a cancel in time ends with a last word unless the page is gone. Each is kept by every step
with the help of the ones before it.

`SessionStoreProofs` (every set of agents and gateways, every budget and every length of a run, from
`AgentsAssumption`): `AgentHeld` and `FileHeld`. `AgentAgrees` says nothing of the moment between
`Switch` and `SyncSession`, so it needs to know what is true there: while a thread alone is between
them, the agent it carries is the active one (`SwitchOK`), and a thread that works on the session
has one, in the shape the graph's operations expect (`AtOK`, `SessionOK`). `AgentInv` is their
conjunction. The half about the budget is kept by every step that leaves overrides and agents alone
(`BudgetKept`) and needs that no session means no override (`BudgetOK`). `DiskCurrent` follows from
`FileOK`: whatever changes the session leaves its thread with a save owed, a switch that has not
reached the session has changed nothing the file holds, and a save that fails while another is under
way leaves that one to write what the session is by then. The lemmas on shapes say that append,
receipt, cost and save keep the chain and the agent.

`ShellProofs` (every output, every capture and retention limit, every page size, any number of runs
and starts, from `ShellAssumption`): `VerdictHeld`, `NumbersHeld`, `ReachHeld`, `CursorHeld` and
`ElisionHeld`. `ShellInv` is `RunOK` (a capture is a range that ends, or begins, with the bytes
read, and starts at a line), `PagerOK` (a stored buffer's verdict and line count are those of its
run), `RanksOK` (ranks grow with the runs, over restarts too) and `IdsOK` (an id names one run).
Where a capture or a page is cut is the least or the greatest place of a set, and that there is one
rests on the lemma `Least`: a set of numbers has a least element. The proof of `CursorHeld` showed
that it is not enough to compare a new start's mark with the previous start's: a third start may
meet the mark of the first. `Restart` now compares with every page on the chain.

`StreamProofs` (every set of replies, every way to write and cut them, any number of rounds, from
`StreamAssumption`): `FramesInOrder`, `CallsHeld` and `UsageHeld`. `StreamInv` says what has become
of the reply at every read: the provider has handled the first events (`Handled`), one more may be
pending in the parser (`Upto`), and what is left of the last one written (`Fits`) is what lies on
the wire and in the line buffer (`OnTheWay`); after a break, nothing or half a line does (`Torn`).
For the calls, each that was begun has all its fragments so far and only the last may lack some
(`CallsOK`), so that a `done` in between hands over whole calls only; that these are the calls meant
is a bijection between the calls put together and the calls of the reply (`MeantCalls`). `CallsHeld`
is about replies whose calls come one after another (`OneAfterAnother`): the code reads no index, so
the fragments of two interleaved calls are joined. The other two theorems are about every reply.

`McpClientProofs` (the three transports, any number of calls and connections, from `McpAssumption`):
`PromiseKept` and `LinesKept`. The first is the refinement of `RemoteCall`: every step of the
client, the reader and the server is a step of `RemoteCall` or a stutter under the mapping. What
makes the ends of calls match is `CallInv`: every number on the wire, in the table or in a reader's
hands belongs to one call of this connection (`Fits`). The second needs `Whole`: what a reader has
ahead of it is whole lines and at most one open line, the last, and what it holds is the head of the
first.

`ServeRegistryProofs` (every set of pids, any number of processes and faults): `ListedHeld` and
`ListHeld`. Both start from `Shape`: who is in a call, and that whoever holds the lock is the one
the lock file names. `HolderKeeps` says that a call has lost no registered server between reading
and writing; `Sound` that what a listing has kept was nobody else's when it looked.

Only model-checked: liveness (`InputsServed`, `StopEndsUnlessAsking`, `HandOffSettles`, `StopEnds`,
`ChatEnds`, `CallEnds`, `DisconnectEnds`), which is out of the prover's reach. Every invariant and
every action property of the passing runs is a theorem.

## 5. What the code does that its documentation does not say

The three violation runs show a disagreement each: a call a cancelled turn never ran is not sealed
when the leaf is a receipt, a peer's turn reaches other peers from its second round on, and a
shutdown joins a worker that waits for an approval for ever. The findings of `PROJECT.json` that
name a passing run are exceptions its property states in so many words (marked *). The rest was met
while modelling:

Board and turns.
- A job that stopped moving is the one a full board evicts, open or not (`board.hpp:30` "stays on
  the board until it closes", `board.cpp:215`).
- A note that arrives while the model answers is moved to where only a stopped command finds it, and
  is lost when the round's calls end on their own (`runtime.hpp:112`, `executor.cpp:224`).
- A turn that is cancelled, or whose page leaves, ends before `CloseBoardJob`, so a peer's job stays
  claimed (`web-api.md:282`: "The turn closes the job when it ends"). `JobClosed` says what holds.
- A cancel from a page other than the one that started the turn, or of a peer's turn, ends without
  `done` (`web-api.md:117`). `CancelAnswered` says what holds.
- * A cancel that comes between the flag being read and the token being dropped stops the turn and
  is not answered (`serve_runner.cpp:288` to `:291`, against the comment at `:294` and
  `web-api.md:117`): the page goes on waiting. `CancelAnswered` leaves this window out by name
  (`late`).
- A record is `finished` without a `done` in it when the turn failed or ended silently
  (`serve_internal.hpp:191`).
- `POST /api/rewind` is not refused while the second call of a reply runs (`ARCHITECTURE.md:709`);
  the refusal looks at the leaf, which is then the receipt of the first. The reply then follows what
  the rewind left. The page guards against it, the server does not.
- Text that streamed before the page left is kept like that of any cancelled turn (`web-api.md:123`:
  "what it had written is not kept").
- * When only the answer to a message is lost, `send_to_peer` says the message did not arrive and a
  comment that the job "stays on the board, open and unseen" (`peer_tool.cpp:143`), while the turn
  runs; a claim that was refused is told the same way, since its status throws before the branch for
  refusals (`peer_tool.cpp:149`). A post whose answer is lost leaves a job nobody will message.
- The board carries no work "across a restart" (`peers-and-board.md:3`): it is in memory, and so is
  the queue. A job that was taken back still gets its turn.
- `ReportFailedTurn` closes a job with an empty result, which would read as `done`
  (`serve_runner.cpp:214`); it is reached only after a close that threw, so the second throws too.
- `resolve_approval` names no question: a second answer to one, sent late, is taken for the next.

Session.
- A call that may still be running does not block a switch of agent (`ARCHITECTURE.md:709`):
  `Activate` calls `RebuildToolbox` first, which replaces the tools, the policy, the prompt and the
  active agent, and only then asks `Session::SetAgent`, which refuses; the route answers as if the
  switch was made (`runtime.cpp:454`). `AgentAgrees` names this as an exception (`excuse`).
- * `RebuildToolbox` applies the tool budget before the new agent is the active one, so a switch
  keeps the number of the agent it leaves; an override in the file is not applied when the session
  resumes the default agent (`runtime.hpp:196`, `ARCHITECTURE.md:834`). `AgentAgrees` names both as
  `"budget"`.
- The cost of a turn that said nothing is filed under the previous answer; totals count rewound and
  cleared turns until the next start.
- A crash between opening and writing loses the conversation, and the backup holds an empty file;
  two saves that overlap can tear it; a switch before there is a session is not saved.
- A switch that was refused is not healed by choosing the same agent again; `/backend ollama m2`
  after `/backend ollama m1` ignores `m2`.
- A rewind to an own turn takes back a peer's later ones with it.
- The toolbox is cleared by a route while the worker may be in one of its tools, and `Serialize`
  races `Append`: data races, of which the model keeps that the process may end (`Crash`).
- A comment in `ContextWindow` says the HTTP client has no deadline; it has one per phase.

Commands and pages.
- A last line longer than the budget that ends in a newline is erased whole, and a buffer may exceed
  its budget by a quarter until it is taken (`run.cpp:72`, `paging.cpp:268`).
- A child that closes its output and runs on keeps `Run` in `waitpid`, where a stop is not seen.
- A child ended by a signal is a failure with no error text; a line cut hard is not marked
  truncated.
- A superseded page's buffer may be gone although `paging.md` says it is still stored; a page of
  rank 0 can be left out for a later ranked one (`request.cpp:40`).

Streams, MCP, registry.
- * A turn whose first round was unpriced takes the price of a later round for the turn's
  (`executor.cpp:292`: "only where every round reported one").
- * The index of a tool call fragment is not read (`providers.md:54` "index-keyed deltas").
- * A call the output cap ends before its first argument text is returned and run without arguments
  (`openai_protocol.cpp:270`), although such a reply "ends the turn with an error"
  (`ARCHITECTURE.md:845`).
- * "MCP requests time out after a fixed 5 seconds" (`ARCHITECTURE.md:828`), counted from when the
  write to the child's pipe has returned: a server that does not read can hold it
  (`stdio_transport.cpp:419`).
- A route that switches the agent disconnects the clients the worker may be calling
  (`runtime.cpp:438`); nothing locks them. A call that waits ends with a broken promise, one that is
  writing or about to uses what was freed.
- A write to an MCP server that closed its input raises SIGPIPE; what a failed POST left of a line
  is put in front of the next; a message of the server's own with the id of a pending call answers
  it; entries of timed-out calls stay; a server that exits fails none of its pending calls.
- On Windows the reader's context is freed after three seconds whether the thread ended or not.
- `ARCHITECTURE.md:344` describes the registry without start stamps, which the code compares. A
  write the disk cut short is published by the rename, and the next reader takes it for an empty
  list.

## 6. What is not modelled

- Configuration parsing, the command line, logging, the listing and probing of models, the JSON of
  requests, rendering of the board: data without state of its own.
- The page (`web/`): `SessionRunner` lets pages come and go in any order, which includes what the
  page does; the order and number of frames it draws is not kept.
- The board reader, which asks other servers and keeps nothing; admission of a request by address
  and token, a predicate of one request; how the command policy reads a command line.
