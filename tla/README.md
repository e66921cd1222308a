# Splitlane's sessions in TLA+

Splitlane keeps terminal sessions in a process of their own, the *session
host*, so that they outlive the window that shows them. A session's output goes
to an in-memory log; any number of clients attach to a session, replay the log
and follow it live. What programs and people type, and what programs report of
themselves, goes the other way. Windows come and go, find their sessions again,
and count the turns of the agents that work in them. These modules specify the
host, its client, and what a window does with the host's sessions; TLC checks
them on small instances, and TLAPS proves most of their safety properties for every
instance. Paths below are relative to `src/`; `host/` stands for
`crates/splitlane-host/src/`, `app/` for `src-app/src/`.

To check one module: `tlc -config MCHostStream.cfg MCHostStream`. To check the
proofs: `tlapm` on each of the modules named `...Proofs`, for example
`tlapm SessionLogProofs.tla`.

## 1. Inventory

| Component | State | Operations | Hard behaviour | What makes it correct |
|---|---|---|---|---|
| Session log, `host/log.rs` | ring of records, head and tail, bytes charged, modes/size/torn at the head | append output, append resize, trim, clear, read, size at | splitting, closing and dropping records over a long life; a stream with no place to cut | nothing between head and tail lost or repeated; the head described as the stream had it; bounded |
| Log budget, `host/session.rs` 69-160 | total, list of logs | account, enforce, release | every session's reader at once | total exact; the largest pays |
| Terminal scanner, `host/scan.rs` | parser state, modes, keyboard stacks | feed, safe place to cut, preamble | sequences split over reads; what a replay has to put back | a cut only between what the program printed, and always there; the preamble restores any emulator |
| Session, `host/session.rs` | PTY, answering engine, log, exit, attach count | spawn, resize, redraw, output, kill, finish | three locks, four threads, a helper that keeps the PTY, host death | one order of sizes and output; the exit comes last; what is killed ends |
| Input path, `host/session.rs` 625-700, 1367-, `host/server.rs` 630-704 | queue to the PTY, send lock | type, paste a line, press keys, answer, write | a bounded queue to a program that does not read; several clients | a paste and its Enter stay together; every sender returns |
| Program reports, `host/session.rs` 282-343, 951-976, `app/cli/closed_window.rs` | last report, published state, time of the last send | report, publish, orphan, read with no window open | three sources of one answer, dated against each other | turns add up; a prompt in flight is not answered by the turn before |
| Streams, `host/server.rs` 400-1234 | per connection a request thread and follower threads, the socket | attach, follow, detach, forget | trims and end between two batches; blocked socket | in order, every loss announced, modes restored, framing kept |
| Host process, `host/server.rs` 100-420, 800-1020 | connections, sessions, stop flags | accept, serve, spawn, shutdown, idle, signal, end sessions | all of it in threads nobody joins | no confirmed session lost or left over; goes when asked; only idle when alone |
| Host socket, `host/server.rs` 100-300, `host/client.rs` 700-760 | lock file, socket file | lock, probe, bind, check, remove; ensure_running | several callers race; files removed | one host per path |
| Host client, `host/client.rs` | stream slot, queues, waiting calls | attach, detach, drop, the reader thread | late frames of an old stream, time-outs, full queues | own stream only; no leak; no deadlock |
| Stream replay, `app/terminal/stream_replay.rs` | position, where the past ends, redraw owed | start, output, resize, gap, preamble, exit | past and present in one chunk, gaps, empty logs | old output is quiet and at its own size; live on time; one repaint |
| Pane sizes, `app/terminal/ghostty_session.rs`, `ghostty_remote.rs` | window, grid, acknowledged size; mailbox | layout, submit, retry, promote, resize | coalesced on three paths, refused, answered late, held back by a replay | all agree once nothing is under way; the PTY follows |
| Session restore, `app/terminal/host_session.rs`, `held_sessions.rs`, `app/app/held_sessions.rs`, `session.rs`, `exit_guard.rs` | layout file, surfaces, card of held sessions | start, list, attach, open, close, end, save, leave | a host that is mute or gone; a list read before the attach; leaving while panes are torn down | no second agent on a conversation; no running session out of sight; none ended by leaving |
| Agent state, `app/rail_state.rs`, `app/app/agent_state_pass.rs`, `ipc_handler.rs` | per surface: status, who speaks, clock of a run, count of runs | pass, reading out of turn, hook frame | readings under way while the agent goes on; blips; late records; compaction | a turn is counted once, and at last |
| The window's interface, app IPC, orchestration, updates, relay, ... | | | | section 6 |

How they interact: a *client* (`Client`) talks to a *connection thread* of the
host over a socket, one request at a time; an attach starts a *follower* thread
that reads the session's log under the session's lock and writes to the same
socket. The session's *reader* thread appends output to the engine and the log
and, at the end, records the exit; a *writer* thread empties the queue into the
PTY; a *waiter* thread reaps the child; a forked *watcher* ends the child's group
should the host die. The client's one *reader thread* passes replies to waiting
calls and stream frames to the slot of their session; a pane's runtime feeds them
to *StreamReplay* and sends sizes back. A window publishes to the host what it knows
of an agent, which others read when the window is gone.

## 2. The modules

Each module is followed by a `...Properties` module (its invariants and temporal
properties; LogBudget and Scanner hold their own), and where theorems are proved of
it by a `...Proofs` module (SessionThreadsProofs is that of SessionEnd and of
SessionTerminal, SessionBytesProofs that of SessionInput and of SessionState,
WindowSessionsProofs also that of AgentRuns). Operators whose names end in `Faulty` and
the like are what a plausible mistake would make of the operator after them; nothing uses them in the
specification. An `MC...` module gives values for TLC. Where it checks several
components that share no variable (`MCSessionLog`, `MCSessionBytes`,
`MCSessionThreads`, `MCHostClient`, `MCPane`, `MCWindow`), a variable `part` chooses
one of them per behaviour; the others stay where they start, and fairness is that
of the chosen part.

**LogPromise** is the abstract log: everything written, and a head that only
moves forward, to a place where the stream may be cut or when twice the
capacity is held, with the size, modes and torn flag the stream has there. No
records, no chunks, no loops.

**SessionLog** is `log.rs`: `entries` is `entries`, with each record's start
position, bytes, modes and clean flag; `stored`, `head_seq`, `tail_seq`,
`head_size`, `head_modes`, `head_torn`, `sealed` are the fields of those names;
`scanner` is what the scanner says of the stream's end. One action per turn of a
loop (`OpenRecord`, `FillRecord`, `DropToClean`, `Cut`, ...), so that a
loop that makes no progress shows as a call that never returns. `written` is a
history variable: what was ever appended. `SessionLogReads` is `read_from`,
with both its limits. Every behaviour of SessionLog is one of LogPromise
(`LogPromised`), a whole call being one step.

**LogBudget** is `account`, `enforce` and `release_log` as threads of all
sessions run them, with the budget's list and each log's lock as variables.

**Scanner** is `scan.rs`: the automaton reads the program's pieces of output in
chunks that end anywhere; `modes` is `Modes`, `point` the modes at the last safe
place of a feed. Beside it stand two emulators, one that keeps a keyboard stack
per screen and one that does not, which read the same output; the preamble
must bring any emulator in any state to where they are.

**SessionInput** is `input`, `write_input`, `answer`, `send_text` and `keys` with
the writer thread, the queue, the send lock and the PTY's own buffer. The program
reads, stops reading, switches bracketed paste, ends, and may leave a helper
that holds the slave.

**SessionState** is the watch on the program's reports, `publish_state`,
`publisher_gone` and the time of the last send, in a clock of milliseconds, with
the reading that `closed_window.rs` makes of the three, one after the other.

**HostStream** puts `attach`, `follow`, `send_items`, `detach`, `forget` and the
loss of a client over LogPromise: checked against everything the ring may do,
not only what one ring does. `conn[c]` is a connection's request thread, `fol[c]`
its follower, `wire[c]` the bounded socket, `view[c]` what the client made of the
frames so far. A batch is read in one step, under the session's lock as in the
code, and then sent frame by frame while the log goes on.

**SessionTerminal** is `resize`, `redraw`, `finish_redraw`, `append_output` and
`finish` with the locks on Terminal and on the engine as variables. The lock on
Shared is only ever taken last and for one step, so it needs none.

**SessionEnd** is the waiter (`wait_for`, the wake pipe), the reader's drain
(`read_loop`, `DRAIN_AFTER_EXIT`), `kill`/`terminate` with the follow-up thread,
`finish`, and the forked watcher, over a child, a helper in its group that never
ends by itself and ignores requests, and a stranger who may be given the pid.

**HostServer** is the main thread (`run`, `accept_pending`, `end_sessions`) and the
connections' threads (`serve`, and the requests that bear on the host's life:
spawn, shutdown, forget), over the atomics they share. When `main = "gone"` the
process has ended and no thread of it takes a step.

**HostSocket** is `take_lock`, the probe, `bind`, the periodic socket check and the
removal at exit, one step per system call, with the callers of `ensure_running`.

**StreamClient** is the other end of HostStream: `slot` is the session's entry of
`Inner::streams`, `queue` the bounded queue of an attachment, `reader` the one
thread that delivers, `requests`/`frames` the two directions of the socket. Drop
and detach are two steps each (remove the slot; send the request), as the code
does them without a lock around both. The host's side is what its threads do in
order, no more.

**StreamReplay** is the sink the window feeds: `sink.position`, `sink.pending`
are its fields, `done` the actions it returned, in order. The stream is any log
of bytes and resizes, in chunks cut anywhere, trimmed anywhere.

**PaneSizes** is a size's way from the layout to the PTY: `view` (the bounds and
what the view last recorded), `resize` (requested, submitted, applied), the
bounded mailbox `mail`, the runtime `rt` with its grid and replay, the writer's `call`
to the host and the host's answer, which may be late or a refusal.

**WindowSessions** is a window's life with the host's sessions: `saved` is the
layout's file, `surface` an agent's pane and a tab, `card` the sessions the layout
does not mention, `ending` the threads that end a session. A host that serves, is
mute or is dead changes under it, a window may be killed at any moment, and the
next one reads what was saved. A window leaves by `Keep` or `StopAll`, which write the
layout first, or by `SettleOnQuit` (the Dock's Quit, a logout), which keeps or stops
the sessions and leaves the layout to its delay.

**AgentRuns** is one surface whose agent's turns are counted. The agent writes a
status word, a transcript and hook frames, each in its own time; `readings` are
the pass under way and the one a frame asked for, each stamped when it begins,
looking later, and applied later still; `thread`, `running`, `heldSince` and
`watch` are `Thread`, `running_since`, `run_end_seen_at` and `TurnEndWatch`. Time
goes in seconds and instants are kept as ages, so that the state space is finite.
`case` says what kind of surface it is: which sources speak, whether the agent
asks questions or has background tasks, and whether a turn may begin before any
reading.

## 3. Runs

Eight runs show what holds; four show where the code does not do what it says
(section 5).

| Run | Shows | Bounds, and why they suffice |
|---|---|---|
| `session_log` | The ring holds, charges and describes the stream exactly and is bounded (`HeldExact`, `HeadSettled`), answers reads exactly, implements LogPromise, and no call loops. The total of all logs is exact, a quiet log is spared (`FairlyCounted`), enforce ends | Capacity 4, records of up to 4 bytes, ten positions, three pieces of output and resizes: records are split, sealed, re-opened, dropped one and many at a time; a read of every start, of one to three bytes and three items; a stretch without a cut outgrows twice the capacity. Three sessions of two writes against a cap of three; three passes; whether logs may offer no place to cut is chosen per behaviour |
| `session_bytes` | The log is cut where it may be and restored from there (`CutClean`); a paste stays whole, every sender returns; a reading adds up the turns and shows a send (`ReadingTrue`), a state is orphaned with its publisher | Up to four of some twenty pieces of output, among them every way a sequence is broken off, an update that times out after six bytes, a keyboard stack of two. Three senders of three kinds, a queue and a PTY of one chunk, so that every place fills up. Two connections, three reports, two publications, a clock of three, so that what happens may fall into one millisecond or not |
| `session_threads` | The exit comes after the last output; sessions, kills and dead hosts end what they should (`GroupEnds`); one order of sizes and output (`SameSizes`), redraws come back to the right size, no deadlock | Two callers of kill, a PTY of one chunk, two chunks of output. Two clients, three requests, sizes of one and two rows (one row is the case that grows instead of shrinking), one chunk of output |
| `host_stream` | In order, losses announced, modes restored, framing (`FedRight`); the count of streams; the end is heard and detaches return (`StreamsEnd`) | One client that does everything and one that forgets; a log of capacity 1 and three positions is trimmed under every batch; a socket of two frames fills up |
| `host_client` | An attachment gets its own stream only; host and client agree on who is streamed to; a detach returns. One host has the path and keeps it (`PathKept`); it can be reached again and every caller connects (`Reached`) | Two threads, two attaches, two positions: the second attach meets all of the first's frames; a queue of 1 and a socket of 2 fill up; which threads call, and whether requests time out, is chosen per behaviour. Three callers and three hosts: one serving, one going, one starting; per behaviour, either hosts may stop and the socket file is removed once, or the lock file is |
| `host_server` | Connections counted and bounded; idle only when alone; no confirmed session left; goes when asked | Three clients for two places; one session |
| `pane` | Output is read into a grid of its size, and all sizes agree when nothing is under way (`SizesAgree`), the PTY follows. Old output is quiet, fed once and at its size (`FedAsPrinted`), live on time and repainted (`GoesLive`) | Two sizes, a mailbox of two, two layouts, two other messages, two answers that fail. Every log of up to four positions, every start, every way to cut and trim it |
| `window` | No second agent, no session out of sight, none ended by leaving, the session of a closed pane ends. No turn counted twice where one source counts (`NeverAhead`), every turn that was seen is counted (`WatchedCounted`) | Two windows one after the other, three sessions, two changes of the host: the second window finds what the first left in any state; the Dock ends only the first (`QuitBound`), for a stale layout matters to the next window. Two turns, passes every two seconds and a hold of three as in the code, readings and records within the second, a blip of one, a rest of seven before a compaction (the code's comment says 54 minutes): every order of reading, word and record around an end |

Each module's type invariant is checked as a conjunct of one of its invariants
(`AttachedCounts`, `OwnStream`, `FedAsPrinted`, `SameSizes`, `ExitAfterOutput`,
`FairlyCounted`, `ClientsCounted`, `PathKept`, `NeverAhead`); SessionLog's is proved.
Several properties are conjunctions, whose parts the properties modules name and
explain. Each property has at least one mutant in `PROJECT.json` that violates it.

`CHECK_DEADLOCK FALSE` is set because bounded behaviours come to an end: the output
is written, the host is gone, all callers are connected, all turns are over. Where
threads hold locks, a deadlock among them is a violation of `CallsReturn`,
`EnforceEnds`, `SendersReturn`, `DetachReturns` or `StreamsEnd`.

### Fairness

Weak fairness only, and only of what runs by itself: a thread that has a next
step takes it (a follower, a reader, a writer, a waiter, a call that holds a lock,
the host's main thread, a thread that ends a session), a client reads its socket,
timers fire, and in AgentRuns time passes with what is due in it. Nothing obliges
a client to ask for anything, the program to write, a helper to end, a session to
end, a caller to kill, an agent to end its turn, or a host to stop. A program that
reads goes on reading; one that has stopped need not start again, and
`SendersReturn` excepts the case where it never does. In HostStream `Receive` is fair
as long as the client is connected: one that stops reading for ever is not told
of the end, in the code as in the model. Fairness of a lock is not assumed beyond
that a released lock is eventually free for one of its waiters.

## 4. What is proved

`SessionLogProofs` proves, for every capacity, chunk size, sealing point, cost of a
resize, set of modes and sizes and stream:

| Theorem | Establishes |
|---|---|
| `RingInvariant` | `Spec => []IInv` |
| `TypeCorrect` | `Spec => []TypeOK` |
| `RetainedAlways` | `Spec => []Retained`: every position from head to tail once, in order |
| `ChargedAlways` | `Spec => []Charged`: `stored` never drifts, so its subtraction never wraps |
| `HeadKnownAlways` | `Spec => []HeadKnown`: modes, size and torn flag are those of the head |
| `BoundedAlways` | `Spec => []Bounded`: at most twice the capacity between calls |
| `HeldExactAlways` | `Spec => []HeldExact`, the run's property: `Retained` and `Charged` |
| `HeadSettledAlways` | `Spec => []HeadSettled`, the run's property: `HeadKnown` and `Bounded` |
| `MoveAllowed` | `Spec => []RInv`: the head is where LogPromise lets a call have moved it so far |
| `LogPromisedHolds` | `Spec => LogPromised`: the ring implements the abstract log, step by step |
| `SizeInvariant` | `Spec => []SizeInv`: the terminal's size changes at resizes only |
| `SizesKnownAlways` | `Spec => []SizesKnown`: `size_at` is the size the terminal had, at every position |
| `ReadsExactAlways` | `Spec => []ReadsExact`: every read, of any start, budget and item limit, is the stream from there on |

The assumption is `LogAssumption` of SessionLog: the sizes are natural numbers, a
record has room for a byte, a resize costs at least one byte. Reads add
`ReadsAssumption`: the limits are natural numbers.

None of the properties is inductive. `HeadKnown` after a drop depends on what the
*next* record remembers of its start; `Charged` on what *every* record was
charged; both within a call on what the call has already done. `IInv` therefore
says of every record that it is `Sound` (it holds what was written at its
positions, its modes and clean flag are those of its first position, its cost
is the difference of the charges before and after it), of the records together
that they abut from the head to the tail (`RingOK`), and of the call under way
what is left of it (how much of the piece is already in the log, which head a
trim began with, how far a cut has come). `Sound` and `RingOK` are stated of
values, so the lemmas on growing the history, pushing, filling and dropping a
record mention no action; there is then one lemma per action of `Next`, and the
theorems follow with the rule for invariants.

What a read copies is computed by a loop over the records. There is a function that
gives the batch after each record (`BatchesAre`), and the batch after some first records
is right (`BatchOK`: its items follow each other from the start of the read, and it
either has come to where those records end or stopped for one of its two limits), or
there would be a first record at which it went wrong (`CopyKeeps` says there is none).
In the same way a record is found for every position (`Covered`) and a size for it: no
resize lies between the last one in the log and the position (`SizeStays`).

The same module proves of LogBudget, for any number of sessions and passes, any cap
and any capacity of a log:

| Theorem | Establishes |
|---|---|
| `BudgetInvariant` | `BudgetSpec => []BudgetInv` |
| `FairlyCountedAlways` | `BudgetSpec => []FairlyCounted`: the total is what the logs hold, and a session that printed no more than its share is not cut for others |

Assumed is `LogBudgetAssumption`: the sessions are finitely many, at least one. A byte is
counted as a pair of its log and its place there, so the total is the size of a set
(`Bytes`), and a change of one log changes that size by as much (`ColumnChanges`). Between
a change and its accounting the difference is in the hands of the thread that has the
log's lock: `LocksRight` says which one. That a quiet session is spared goes through the
enforcer's pass: a total over the cap means a log over its share (`OneIsOver`: readers
only ever add, so what is not yet accounted makes no log smaller); the scan sees it or
a larger one; and what it picks has shrunk for nobody until it is cut.

`HostServerProofs` proves, for any number of clients, sessions and places:

| Theorem | Establishes |
|---|---|
| `HostInvariant` | `Spec => []IInv` |
| `ClientsCountedAlways` | `Spec => []ClientsCounted`: the count is that of the threads, and bounded |
| `IdleAloneAlways` | `Spec => []IdleAlone`: who leaves idle leaves nobody |
| `ConfirmedEndedAlways` | `Spec => []ConfirmedEnded`: no confirmed session outlives the host |
| `SocketInvariant` | `ProvidedFor` implies `SocketSpec => []SocketInv` (HostSocket) |
| `PathKeptAlways` | `ProvidedFor` implies `SocketSpec => PathKept`: one host has the path, and none takes it from it |

The assumptions are `HostServerAssumption` (the clients are finitely many, the limit is a
natural number) and `HostSocketAssumption` (so are the hosts). Again none of them is inductive. A confirmed session is ended
because the main thread lists what runs *after* it set `stopping`, a spawn looks at
`stopping` *after* it listed its session, and a listed session leaves the list only
once its exit is recorded. `IInv` says where every running child is known (in the
list, or in the hands of exactly one thread that has started it and not listed
it), that nobody is told of a child before that, and for each point of the way
out whom the main thread has in hand or has ended. `IdleAlone` needs that a count
of zero means no thread (`NobodyThere`), that this stays so between the two looks,
and that with no thread every running child is in the list. There is one lemma
per conjunct of `IInv`, with a step per action.

`PathKept` is proved for any number of hosts and callers, but not of every mishap: it
is false, and TLC shows it, where the lock file is removed and also a socket file, or
a host stops. `ProvidedFor` is the hypothesis that a removed lock file is the only
mishap; hosts that stop at any moment, and a removed socket file, may come together.
The argument: a lock file is held by one host at a time, and whoever is past the
lock knows which file it holds; only one lock file may ever be orphaned, and then the
host that held it is serving at its socket, so that whoever locks the new file
finds it with the probe and goes.

For `LogPromisedHolds` a whole call is one step of LogPromise, though it is many of
SessionLog's, and the call is judged when it returns: `MoveInv` says of a call under
way that its head is still where it began, or at a place to cut, or was moved with
more than twice the capacity held, or has dropped everything, with a witness for
each. The initial states map to initial states; each action is shown to be a step
of `Promise!Next` or to change nothing LogPromise sees.

`HostStreamProofs` proves, for any number of clients and sockets and batches of any
size, over LogPromise (so over whatever the ring may do):

| Theorem | Establishes |
|---|---|
| `StreamInvariant` | `Spec => []IInv` |
| `AttachedCountsAlways` | `Spec => []AttachedCounts`: `Shared::attached` counts the streams that were opened and have not ended |
| `FedRightAlways` | `Spec => []FedRight`: every client is fed in order, with every loss told, in the modes of its position and by its own stream |

Assumed is `HostStreamAssumption`; the connections are finitely many, since a count of
them is spoken of. What a client has been fed says nothing of what it will be fed
next, so `FedRight` is not inductive. `IInv` speaks of all frames still to be handed
to a client, as one sequence: those in the socket, the one its request thread is
about to write, those left in the follower's batch (`Flight`). `Good` says each frame
fits the state the frames before it lead the client to, and `Leads` that all of them
lead it to where the follower will read next. A write moves a frame from one part of
the sequence to the next, a receipt takes its first; only reading a batch appends,
and there the promise of the log is used.

`StreamClientProofs` proves, for any number of attaches and positions, a queue and a
socket of any room, and at most two threads that call the client:

| Theorem | Establishes |
|---|---|
| `StreamInvariant` | `TwoThreads /\ Spec => [](Inv /\ Roomy)` |
| `OwnStreamAlways` | `TwoThreads /\ Spec => []OwnStream`: an attachment gets its own stream, from the first event on, each once |
| `BothAgreeAlways` | `TwoThreads /\ Spec => []BothAgree`: when nothing is under way, client and host agree on who is streamed to |

Assumed is `StreamClientAssumption`, and `TwoThreads`: of any three threads two are the
same. That is a hypothesis of the theorems and no assumption of the code, which lets
any number call; with three `OwnStream` is false (section 5). Frames do not say which
attach they belong to, so `Line` follows the socket: each place in it has a spot, the
stream and position that the next frame there belongs to. A frame moves the spot on by
one, an accepted attach's reply starts a stream; the host writes at the last spot, the
live slot's attachment goes on at the first, and no stream is opened behind the slot's
before that came to its end. Where the slot's stream could be stopped early, `Following`
says what can still come after the attach of the slot: one request, of the other thread.
For `BothAgree`, `Watched` says that a stream nobody has stopped is owned by the slot,
with its reply on the way or read, or that a detach is coming.

`SessionThreadsProofs` proves, for any number of callers, a PTY of any room and sizes of
any number of rows:

| Theorem | Establishes |
|---|---|
| `EndInvariant` | `Spec => []EndInv` (SessionEnd) |
| `ExitAfterOutputAlways` | `Spec => []ExitAfterOutput`: all the child printed is in the log before the exit is recorded |
| `TerminalInvariant` | `TerminalSpec => []TerminalInv` (SessionTerminal) |
| `SameSizesAlways` | `TerminalSpec => []SameSizes`: engine, log and PTY have sizes and output in one order |
| `BackToAskedAlways` | `TerminalSpec => []BackToAsked`: outside a redraw the PTY has the size asked for last |

Assumed are `SessionEndAssumption`, where one read takes all a PTY holds (the code's
`READ_BUF` is larger than a PTY's buffer), and `SessionTerminalAssumption`: the threads
are distinct. The exit is several signs away from the output: reaped, raised, the
byte in the pipe, latched, done. `SignsInOrder` gives their order, `AllCounted` that the
child's chunks are those in the log and those in the PTY, `Drained` that the reader's
last look at the PTY came after the child could write no more. For the sizes, the
invariant says which thread has which lock at each point (`LocksHeld`), by how many
entries the engine is ahead of the log (only by what the thread with the lock is
about to log), and which size each step of a resize or redraw was given.

`SessionBytesProofs` proves of SessionInput, for any number of senders, a queue and a PTY of any size:

| Theorem | Establishes |
|---|---|
| `InputInvariant` | `InputSpec => []InputInv` |
| `PasteWholeAlways` | `InputSpec => []PasteWhole`: nothing of another sender comes between a text and its Enter |

Assumed is `SessionInputAssumption`. A chunk is in the queue, in the writer's hands, in
the PTY or read, and may be lost when the terminal closes. The invariant is about the
order of them all (`Wire`) and who may add to it (`SendLocked`: who is in the middle of a
send has the lock alone); the order asked for is one that a wire keeps when it loses
a chunk.

The same module proves of SessionState, for any number of connections, reports, turns and states:

| Theorem | Establishes |
|---|---|
| `StateInvariant` | `StateSpec => []StateInv` |
| `ReadingTrueAlways` | `StateSpec => []ReadingTrue`: a reading adds the turns since the window spoke, and shows a prompt in flight |
| `OrphanMarkedAlways` | `StateSpec => []OrphanMarked`: a state is current exactly while its publisher is there |

Assumed is `SessionStateAssumption`: runs are natural numbers. A publication counts the
turns and takes its stamp in two steps, with the reports held back in between; so
the stamp splits the turns for good (`Splits`): those counted ended no later, the
others no earlier. The second half is `Calm`: what a reader took first can only be
older than what it takes next, so no turn is both counted by the state and by the
report, and a report older than the send is seen to be.

`WindowSessionsProofs` proves, for any number of sessions and windows and a host that is
mute or gone at any moment:

| Theorem | Establishes |
|---|---|
| `WindowInvariant` | `Spec => []IInv` |
| `InSightAlways` | `Spec => []InSight`: a session that runs is shown, recorded, listed or about to be ended |
| `OneAgentAlways` | `Spec => []OneAgent`: no second agent is put beside one that works, but where a window was gone before its layout was written or an attachment lost |
| `LeftRunsAlways` | `Spec => LeftRuns`: a window that leaves its sessions running ends none that it wrote into the layout |

Assumed is `WindowSessionsAssumption`: ids are handed out from 1 up to a last one. `IInv`
says where a session may be remembered, and that it is remembered somewhere: what is
known of a session it has begun (`Known`); what a surface holds or shows fits the point
it has reached, and what it has forgotten is over (`Placed`); every running session is
seen (`Sighted`); the agent's surface holds only sessions an agent was typed into, and
one it just started is in no layout yet (`Aside`); at most one agent works, it is in
the agent's surface or else in the layout that will be read next, and one on the card
or in the tab only once the agent's surface is gone for good (`Alone`).

Since the Dock leaves the layout to its delay, a window that goes may leave an old one
behind: `Written` says that one which keeps or stops has nothing left to write, and
`Alone` asks the layout to hold the agent only of such a window and after it is gone
(`InPlace`); one that was gone too early is marked by `excused`.

`LeftRuns` speaks of a window that wrote its layout as it left. It spans many steps:
what ends a session after the leave began before it.
It takes a second invariant, `Apart`: a running session is shown in one place, what a
thread is about to end is shown nowhere, and the layout written when leaving holds
nothing that something is yet to end.

The same module proves of AgentRuns:

| Theorem | Establishes |
|---|---|
| `RunsTypeAlways` | `RunsSpec => []RunsTypeOK`, in every case and for all times |
| `NeverAheadAlways` | `Timely` gives `RunsSpec => []NeverAhead`: where one source counts, no blip, compaction or turn already counted adds to the count, however the readings of the pass and of the frames interleave |

Assumed are `AgentRunsAssumption` (the times are natural numbers, and hold, interval and
rest are not 0) and, for `NeverAhead`, `Timely`, which relates the times:

- `Interval + 3 * MaxDelay + MaxLag < Confirm`, and `MaxDelay < Interval`: what is counted
  ahead of its record was counted a short while ago when the record is read. The code's hold is three
  seconds (`RUN_END_CONFIRM`) and its pass two, so readings and records may take just under a
  quarter of a second each. The unit of time is free in the theorem; the runs' second is
  too coarse to say more than "within the second", which is 0.
- `MaxBlip + MaxDelay < Confirm`: no blip lasts as long as an end must stay true.
- `Confirm <= Rest`: an agent compacts only after it has been at rest for that long.

None of it is a check the code makes, and the first two are needed: with the run's other
values TLC finds a run counted twice when a record lands a second late, when a reading takes
a second, and when a blip lasts three. The inductive invariant, `Counted`, is about what each
party knows of the others at any moment. Its parts: what the agent does against
its word, its file and the record due (`AgentOK`); the frames come from turns, never from
compactions (`ToldOK`); a reading knows a prefix of the file and says what was so when it
looked (`ReadOK`, `Transcript`); of two readings the one stamped first knows no more
(`InOrder`); the watch is behind every reading not yet superseded (`Unpassed`). On these
rest the four that carry the argument. `Grace`: a count ahead of the file was settled a
short while ago, and how short is said for the surface and for each reading under way, so
the record finds it settled. `AtRest`: when the agent has rested for longer than any reading
lasts, the window knows all it did, so a compaction finds nothing open. `Owing`: a surface
that thinks while the agent does not has a turn to count, or a compaction to pass over.
`Held`: an end held for `Confirm` is not a blip's, but that of a turn not counted yet.
There is one lemma per action (`CountedBeginTurn`, ...), and `UsesPlain` says once what
using a reading comes to: it is silent, the agent works, a run finishes, or it rests.

`PaneProofs` proves, for any log, chunks cut anywhere and a log trimmed at any moment:

| Theorem | Establishes |
|---|---|
| `ReplayInvariant` | `ReplaySpec => []ReplayInv` (StreamReplay) |
| `FedAsPrintedAlways` | `ReplaySpec => []FedAsPrinted`: old bytes as old, each once, in order, and at the size they were printed for |
| `GoesLiveAlways` | `ReplaySpec => []GoesLive`: live once and on time, and a repaint asked for then and not before |

Assumed is `StreamReplayAssumption`. One event may make the terminal feed, go live
and feed again, so an invariant of states is not enough to reason with: `Judged` says
of a stream's start, what it lost, how far it has come and the actions so far what
the properties need, as an operator of values. There is one lemma for each kind of
action that may be added to the sequence (`FeedGrows`, `ResizeGrows`, `LiveGrows`, ...),
one for each operator of StreamReplay (`FinishStands`, `ReachedStands`, `FeedStands`),
and one for each event (`OutputKept`, ...), where a chunk that crosses the line is taken
as three: its old bytes, the going live, its new bytes.

The same module proves of PaneSizes, for any sizes, a mailbox of any room, any number of
layouts and commands, and any faults on the way to the host:

| Theorem | Establishes |
|---|---|
| `SizesInvariant` | `Spec => []SizesInv` |
| `SizesAgreeAlways` | `Spec => []SizesAgree`: old output meets a grid of its size, and when nothing is under way every place has the window's size |

Assumed is `PaneSizesAssumption`. That all places agree when nothing is under way says
nothing of the time before; `SizesInv` says where a size still is. What was asked for is
applied, or in the mailbox, or a signal stands that has it submitted again (`Heard`: a
command refused by a full mailbox); the runtime has what was applied, and told the host
if it may (`AppliedIs`, `ToldIs`, `GridIs`); it has a queue to the host or is about to be
given one (`SenderIs`); the last size on the way to the host is the one told last
(`LastIs`, for as long as no request failed). For the grid, `StreamRight` says of the
mailbox and of what the reader has yet to post that each piece of old output comes
before the going live and after its own size, wherever the window's messages fall
between them.

Only model-checked:

- Liveness under fairness, and `ENABLED`: `CallsReturn`, `EnforceEnds`, `StreamsEnd`,
  `PtyFollows`, `DetachReturns`, `Reached`, `EndsClosed`, `WatchedCounted`, `SendersReturn`,
  `SessionEnds`, `GroupEnds`, `AskedGoes`.
- `CutClean`: what the automaton and the emulators make of a piece of output is
  a fold over its bytes, compared with another fold over the same ones.

## 5. Where code and documentation disagree

Four runs end in a violation, each of a sentence of the code's own comments:

- `stream_client_ends` (`EndsAfterExit`): the exit of an old stream, still on its
  way, removes the slot a new attach has registered (`host/client.rs:621`).
- `host_server_unforced` (`UnforcedRefused`): an unforced shutdown counts the running
  sessions and asks for the stop in two steps; a session confirmed in between is
  ended (`host/server.rs:1016`).
- `host_socket_stop` (`AllConnected`): a host started while another one is going away
  finds the lock held and exits; its caller waits for a host nobody starts
  (`host/client.rs:735`).
- `agent_handover` (`RunsAreTurns`): a hook's stop counts a turn, yet leaves the clock
  of the run a pass has started; the first reading that speaks then ends the same
  run again and counts the turn twice (`app/app/ipc_handler.rs:4923`).

Others are stated in the properties modules but not part of a run. To see one,
put it in place of the properties of the component's configuration; TLC finds
a counterexample.

| Property | Where | The sentence | What happens |
|---|---|---|---|
| `NoneOutlives`, HostServer | `host/server.rs:833` | 836-837 "it would then outlive the host" | The process may end while a connection's thread has started a child and has not looked at `stopping` again; only the watcher is left to end it |
| `RefusedWhenFull`, HostServer | `host/server.rs:503` | `host/lib.rs:141` "Connections served at once; one more is told the host is busy" | Two that arrive together for the last place count each other; both are refused |
| `WithinCap`, LogBudget | `host/session.rs:113` | 73-74 "the bound on their sum" | A reader leaves the excess to an enforcer that has just looked for the last time; until the next output nobody cuts |
| `QuietKeeps`, LogBudget | `host/session.rs:979` | 75-77 "a quiet session keeps its whole history" | A forgotten log leaves the list before its bytes leave the total; others are cut for them |
| `NotSentOnceReaped`, SessionEnd | `host/session.rs:873` | 869-870 "Not sent once the child was reaped" | The waiter reaps between the look at `reaped` and the signals |
| `RedrawSignals`, SessionTerminal | `host/session.rs:796` | 792-793 "A redraw asked for while one is under way is that one" | With a resize in between, the second step applies the size the terminal has; the program is not signalled |
| `SizesRecorded`, StreamReplay | `app/terminal/stream_replay.rs:169` | 25-26 "at the sizes the log recorded" | A resize among the lost positions is not made up for: a gap carries no size |
| `NobodyStreamed` without `~timeouts`, StreamClient | `host/client.rs:420` | 139-141 "the host would go on streaming to nobody" | An attach that timed out is still served; its error path tells the host nothing |
| `NobodyWaits` with two threads, StreamClient | `host/client.rs:144` | 128-129 "Only if the slot is still this attachment's" | A detach names the session; sent late it stops the stream another thread opened since |
| `StaleOnly` with the case `{"lock", "socket"}` or `{"lock", "stop"}`, HostSocket | `host/server.rs:223` | 16-20 "stale by definition" | With both files removed a second host serves; the first binds over it, and each takes the path from the other. With the lock file removed and a host that stops, the old host removes the new one's socket between its look and its removal |
| `FirstSizeHasRoom`, PaneSizes | `app/terminal/element/mod.rs:846` | 857-859 "the first layout with room is the first size the PTY hears" | The content of the first prepaint submits a grid of one cell with the clear (`ghostty_session.rs:1426`) |
| `NoSecondAgent`, WindowSessions | `app/terminal/host_session.rs:717` | 717-720, on what a failed attach leaves to the next window | A failed reattach leaves nothing unanswered, so the layout records no session for the pane; the next window types the resume command beside an agent that runs |
| `NeverAhead` without `~Unheld` and the case `{"status", "asks", "tasks"}`, AgentRuns | `app/app/agent_state_pass.rs:1633` | 1618 "a run does not end on one sample" | Only an end out of `thinking` is held; a blip right after a question counts a run that goes on |
| the same with `{"status", "hooks", "overtakes"}` | `app/app/agent_state_pass.rs:1936` | 1934-1935 "ordered by the state of the world it saw" | Readings are ordered by when they were stamped, not by when they looked |

Four more were met on the way and are stated nowhere, for the property checked
makes room for them:

- `ReadingTrue` orders reports and sends, and a reading's count of runs may still
  fall: a state is published, a turn ends, text is sent, and the branch for what was
  sent shows the published count (`app/cli/closed_window.rs:128`) until the next
  report. A `wait --until turn-end` that takes its baseline from such a reading may
  be ended by the turn before.
- `SendersReturn` excepts a helper that holds the slave after the program's death:
  the sender it blocks keeps the send lock, and every later send to that session waits
  with it (`host/session.rs:695-697` "nothing else").
- `OwnStream` is checked and proved with two threads. With three that attach and detach one session
  it fails: a detach names the session and not the stream (`host/client.rs:144`), so a
  late one ends the stream of a later attach; an attach whose slot an older exit removed
  is then answered, and a third attachment is given the frames of its stream.
- `watch.observe` is called for stale readings too (`app/app/agent_state_pass.rs:653`),
  so that with readings slower than some four seconds (`MaxDelay` > 0) a turn may be
  counted twice.

All of these are narrow races or need outside interference.

## 6. What is left out

In the modelled components:

- SessionLog: a `usize` that saturates. Bytes are seen as the modes after them and
  whether the stream may be cut there; Scanner models where that comes from.
- Scanner: soft reset, cursor shape, keypad and cursor keys, alternate scroll, mouse
  encodings, sub-parameters, the limit on parameters, truncated titles. A title (and
  the alternate scroll) that a full reset clears is not taken back by the preamble
  (`scan.rs:242`); `CutRestores` excepts the title.
- HostStream: one session, the reading of requests not concerned with streams, and
  write time-outs, which close a connection as a lost client does. A stream's thread
  that cannot be started (`host/server.rs:1118`) ends, once the reply is written,
  as one whose reply failed (`AnswerFailed`): the count is taken back and the
  connection closed.
- StreamClient: other requests than attach and detach, the loss of the connection,
  and another attachment on the connection, which if nobody reads it holds up
  everything. A `detach` that finds no slot, or another thread's attach still
  unanswered (`host/client.rs:434-440`): only a test calls `detach`
  (`host/tests/host.rs:570`), on a stream it follows.
- SessionTerminal: a PTY that refuses a size, pixel sizes.
- SessionEnd: a watcher that could not be started. The model assumes that one read
  takes all a PTY holds (`READ_BUF` is larger than a PTY's buffer), and that a dying
  host is gone before the watcher has asked `WATCHER_RECHECKS` times.
- SessionInput: what a text may hold.
- SessionState: a clock that goes back. A report of the very millisecond of a
  publication or a send is not taken as newer, and `RunsAddUp` leaves room for it.
- LogBudget: a resize accounts for its record without enforcing, and a spawn that
  is undone because its writer thread cannot start keeps in the total what its
  reader has logged.
- HostServer: each client connects once; a thread that cannot be started; the
  checks of peer and directory; requests about a session's content.
- HostSocket: an inode that is reused between two checks, a probe or a first
  connection that times out on a live host, a host that is killed while it serves.
  The files are removed only while no host is starting.
- PaneSizes: errors of the emulator's own resize, pixel sizes, an ended or lost
  stream. Two readings two seconds apart are modelled as "no resend is in the mailbox
  yet", and of a run of sizes the queue keeps the last. `SettledAgrees` speaks of pane
  and host as far as the code makes them agree: a first resize that is refused with
  nothing acknowledged is not repaired, and one that is taken after its time-out,
  with a refusal behind it, leaves the PTY apart.
- WindowSessions: a spawn answered too late leaves a bare shell; a socket that is lost
  while the host lives counts as a host that is gone; a window that is killed, or
  ended by the Dock, before its debounced save leaves an agent unrecorded, which
  `excused` marks as "killed"; releases, and
  opening a held session as a pane. `stop_host` says it succeeded whenever no
  connection can be made.
- AgentRuns: one surface; failed and interrupted outcomes, workers below the agent, a
  terminal's output as a source, announcements and rail events. `MaxDelay` and
  `MaxLag` of 0 mean readings and records within the second: a record a second late,
  with passes exactly on the beat, could count a run twice at the boundary (`Timely`,
  section 4, says how late they may be). A
  turn that ends within three seconds of a settled one is adopted as that run. A blip is
  shorter than the hold, at most one in a turn and not in its first three seconds, for
  several blips that each meet a pass would end a run in the code as well. Compaction
  comes only after a long rest.

Components not modelled, with the reason, are in `PROJECT.json`: the window's
interface, emulator bindings, configuration, updates, telemetry, installers, git
and command line are I/O or requests with replies; relay and pairing are
cryptography; app IPC, orchestration and in-process terminals have state worth a
model and come next.

## 7. Plan

Built so far: log, budget, scanner, streams, client, replay, sizes, input, reports,
terminal, end, process, socket, session restore, agent turns. Next:

1. **HostEndpoint** (`app/terminal/host_session.rs` 330-500) over HostSocket: retiring a
   host of another release, retry after failure.
2. The app's IPC queue and subscriptions: a subscriber that does not read, events
   against replies.
3. Orchestration: limits on what may be started, and its journal after a restart.
4. The attention queue and announcements over AgentRuns: nothing announced twice,
   nothing that waits left out.
5. In-process terminals, which share PaneSizes' layout side.

Of the safety invariants one is left to prove: `CutClean`, by the least byte after which
automaton and emulator disagree.
