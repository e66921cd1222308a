---------------------------- MODULE SessionTerminal ----------------------------
(***************************************************************************)
(* The terminal of a session, from crates/splitlane-host/src/session.rs:   *)
(* resize, redraw, the program's output and the session's end, as the      *)
(* threads of the host interleave them under the session's locks.          *)
(*                                                                         *)
(* Three things are told of every size: the PTY, the engine that answers   *)
(* the program's queries, and the log.  The lock on Terminal is held for   *)
(* the whole of a resize; the engine's lock is held from the engine until  *)
(* the log was written, by a resize and by output alike.  The lock on      *)
(* Shared is only ever taken last and for one step, so it has no variable. *)
(*                                                                         *)
(* A size is its number of rows; the columns are the same in all.          *)
(***************************************************************************)
EXTENDS Integers, Sequences

CONSTANTS
    Clients,      \* connection threads of the host
    Redrawer,     \* the thread that ends a redraw
    ReaderThread, \* the session's reader thread
    Nobody,       \* holds no lock
    MaxRows,      \* bound of the model: rows a client may ask for
    MaxCalls,     \* bound of the model: requests served
    MaxChunks     \* bound of the model: chunks of output

ASSUME SessionTerminalAssumption ==
    /\ Redrawer \notin Clients /\ ReaderThread \notin Clients /\ Redrawer # ReaderThread
    /\ Nobody \notin Clients \cup {Redrawer, ReaderThread}
    /\ MaxRows \in Nat \ {0} /\ MaxCalls \in Nat /\ MaxChunks \in Nat

Threads == Clients \cup {Redrawer}
Sizes == 1..MaxRows
FirstSize == MaxRows
Chunk == 0              \* a chunk of output, in the engine and in the log

VARIABLES
    at, job,      \* per thread: where it is, and in which call
    terminal,     \* who holds the lock on Terminal
    engineLock,   \* who holds the lock on the engine
    master,       \* Terminal::master is there
    asked,        \* Terminal::asked
    redrawing,    \* Terminal::redrawing
    engine,       \* the engine is there
    ptySize,      \* the PTY's size
    engineSaw,    \* what the engine was given, in order
    logSaw,       \* what the log was given, in order
    readerAt,     \* where the reader is
    ended,        \* Shared::exit is set
    unseen,       \* a redraw was granted and the program not signalled since
    calls, output \* counts, for the bounds

locks == <<terminal, engineLock>>
fields == <<master, asked, redrawing, engine>>
told == <<ptySize, engineSaw, logSaw, unseen>>
counts == <<calls, output>>
terminalVars == <<at, job, locks, fields, told, readerAt, ended, counts>>

(***************************************************************************)
(* A size told to the PTY, the engine and the log (apply_size).            *)
(***************************************************************************)
Nudged(rows) == IF rows > 1 THEN rows - 1 ELSE rows + 1

Target(t) == CASE job[t].op = "resize" -> job[t].size
               [] job[t].op = "redraw" -> Nudged(asked)
               [] job[t].op = "restore" -> asked

Moves(t, to) == at' = [at EXCEPT ![t] = to]
NoJob == [op |-> "none", size |-> FirstSize]

Request(c, op, size) ==
    /\ at[c] = "idle" /\ calls < MaxCalls
    /\ calls' = calls + 1
    /\ job' = [job EXCEPT ![c] = [op |-> op, size |-> size]]
    /\ Moves(c, "lock")
    /\ UNCHANGED <<locks, fields, told, readerAt, ended, output>>

\* A redraw asked for while one is under way is that one; a session that
\* ended has no PTY to resize.  finish_redraw ends the redraw either way.
Underway(t) == job[t].op = "redraw" /\ redrawing /\ master
Refused(t) ==
    /\ at[t] = "lock" /\ terminal = Nobody
    /\ Underway(t) \/ ~master
    /\ Moves(t, "idle")
    /\ redrawing' = (redrawing /\ job[t].op # "restore")
    /\ unseen' = (unseen \/ Underway(t))
    /\ UNCHANGED <<job, locks, master, asked, engine, ptySize, engineSaw, logSaw, readerAt, ended, counts>>

\* The program is signalled when its terminal changes size
SizePty(t) ==
    /\ at[t] = "lock" /\ master /\ ~Underway(t)
    /\ ptySize' = Target(t)
    /\ unseen' = IF ptySize' # ptySize THEN FALSE ELSE unseen \/ job[t].op = "redraw"
    /\ redrawing' = (redrawing /\ job[t].op # "restore")
    /\ Moves(t, "engine")
    /\ UNCHANGED <<job, engineLock, master, asked, engine, engineSaw, logSaw, readerAt, ended, counts>>

LockFaulty(t) == terminal = Nobody /\ terminal' = terminal     \* looks and does not hold
Lock(t) == terminal = Nobody /\ terminal' = t
TellPty(t) == Lock(t) /\ SizePty(t)

\* An engine that is given something may fail, and is dropped
Advance(event) ==
    IF engine THEN engineSaw' = Append(engineSaw, event) /\ engine' \in BOOLEAN
    ELSE UNCHANGED <<engineSaw, engine>>

HoldFaulty(t) == engineLock' = Nobody     \* let go before the log is written
Hold(t) == engineLock' = t
TellEngine(t) ==
    /\ at[t] = "engine" /\ engineLock = Nobody
    /\ Hold(t)
    /\ Advance(ptySize)
    /\ Moves(t, "log")
    /\ UNCHANGED <<job, terminal, master, asked, redrawing, ptySize, logSaw, unseen, readerAt, ended, counts>>

TellLog(t) ==
    /\ at[t] = "log"
    /\ logSaw' = Append(logSaw, ptySize)
    /\ engineLock' = Nobody
    /\ Moves(t, "leave")
    /\ UNCHANGED <<job, terminal, fields, ptySize, engineSaw, unseen, readerAt, ended, counts>>

(***************************************************************************)
(* The ends of resize, redraw and finish_redraw.                           *)
(***************************************************************************)
AskedFaulty(t) == asked     \* the size asked for is not kept
Asked(t) == job[t].size
LeaveResize(t) ==
    /\ job[t].op = "resize"
    /\ asked' = Asked(t)
    /\ Moves(t, "idle")
    /\ terminal' = Nobody
    /\ UNCHANGED <<job, redrawing>>

\* The second half of a redraw is another thread's, after a pause, or the
\* caller's own if no thread can be started
Restore == [op |-> "restore", size |-> FirstSize]
\* mutant: the second half is forgotten
LeaveRedrawForgets(t) ==
    /\ job[t].op = "redraw"
    /\ redrawing' = TRUE
    /\ terminal' = Nobody
    /\ Moves(t, "idle")
    /\ UNCHANGED <<job, asked>>
LeaveRedraw(t) ==
    /\ job[t].op = "redraw"
    /\ redrawing' = TRUE
    /\ terminal' = Nobody
    /\ \/ /\ job' = [job EXCEPT ![Redrawer] = Restore]
          /\ at' = [at EXCEPT ![Redrawer] = "lock", ![t] = "idle"]
       \/ job' = [job EXCEPT ![t] = Restore] /\ Moves(t, "lock")
    /\ UNCHANGED asked

LeaveRestore(t) ==
    /\ job[t].op = "restore"
    /\ terminal' = Nobody
    /\ Moves(t, "idle")
    /\ UNCHANGED <<job, asked, redrawing>>

Leave(t) ==
    /\ at[t] = "leave"
    /\ LeaveResize(t) \/ LeaveRedraw(t) \/ LeaveRestore(t)
    /\ UNCHANGED <<engineLock, master, engine, told, readerAt, ended, counts>>

(***************************************************************************)
(* The reader: append_output, and finish with each field under its own     *)
(* lock.                                                                   *)
(***************************************************************************)
OutputToEngine ==
    /\ readerAt = "read" /\ engineLock = Nobody /\ output < MaxChunks
    /\ engineLock' = ReaderThread
    /\ Advance(Chunk)
    /\ readerAt' = "log" /\ output' = output + 1
    /\ UNCHANGED <<at, job, terminal, master, asked, redrawing, ptySize, logSaw, unseen, ended, calls>>

OutputToLog ==
    /\ readerAt = "log"
    /\ logSaw' = Append(logSaw, Chunk)
    /\ engineLock' = Nobody
    /\ readerAt' = "read"
    /\ UNCHANGED <<at, job, terminal, fields, ptySize, engineSaw, unseen, ended, counts>>

FinishMaster ==
    /\ readerAt = "read" /\ terminal = Nobody
    /\ master' = FALSE /\ readerAt' = "engine"
    /\ UNCHANGED <<at, job, locks, asked, redrawing, engine, told, ended, counts>>

FinishEngine ==
    /\ readerAt = "engine" /\ engineLock = Nobody
    /\ engine' = FALSE /\ readerAt' = "exit"
    /\ UNCHANGED <<at, job, locks, master, asked, redrawing, told, ended, counts>>

FinishExit ==
    /\ readerAt = "exit"
    /\ ended' = TRUE /\ readerAt' = "ended"
    /\ UNCHANGED <<at, job, locks, fields, told, counts>>

(***************************************************************************)
(* The specification.                                                      *)
(***************************************************************************)
TerminalInit ==
    /\ at = [t \in Threads |-> "idle"] /\ job = [t \in Threads |-> NoJob]
    /\ terminal = Nobody /\ engineLock = Nobody
    /\ master = TRUE /\ asked = FirstSize /\ redrawing = FALSE
    /\ engine \in BOOLEAN
    /\ ptySize = FirstSize /\ engineSaw = <<>> /\ logSaw = <<>> /\ unseen = FALSE
    /\ readerAt = "read" /\ ended = FALSE
    /\ calls = 0 /\ output = 0

Call(t) == Refused(t) \/ TellPty(t) \/ TellEngine(t) \/ TellLog(t) \/ Leave(t)
Serve(c) == \/ \E size \in Sizes : Request(c, "resize", size)
            \/ Request(c, "redraw", FirstSize)
Output == OutputToEngine \/ OutputToLog
FinishSteps == FinishMaster \/ FinishEngine \/ FinishExit

TerminalNext ==
    \/ \E t \in Threads : Call(t)
    \/ \E c \in Clients : Serve(c)
    \/ Output \/ FinishSteps

\* Every thread that is in the middle of something runs on
TerminalFairness ==
    /\ \A t \in Threads : WF_terminalVars(Call(t))
    /\ WF_terminalVars(OutputToLog) /\ WF_terminalVars(FinishEngine \/ FinishExit)
TerminalSpec == TerminalInit /\ [][TerminalNext]_terminalVars /\ TerminalFairness
=============================================================================
