------------------------------ MODULE HostStream ------------------------------
(***************************************************************************)
(* Following a session: attach, follow and detach of                       *)
(* crates/splitlane-host/src/server.rs over one session's log.             *)
(*                                                                         *)
(* The threads are the session's reader (Append, Trim, Finish), one per    *)
(* connection (the requests, one at a time), and one per stream (Read,     *)
(* Send, Leave).  They share the session's lock: whoever appends keeps it  *)
(* until the log is trimmed.  A frame is written to the connection's       *)
(* socket, which holds WireRoom of them; writing waits for the client to   *)
(* read.                                                                   *)
(*                                                                         *)
(* The log is the one LogPromise promises, so a stream is checked against  *)
(* everything a log can do under it.  One element of written is one        *)
(* position: a byte, seen as the terminal's state after it, or a resize.   *)
(***************************************************************************)
EXTENDS Integers, Sequences, FiniteSets

CONSTANTS
    Connections,  \* clients of the host
    Others,       \* bound of the model: those of them that only forget
    Capacity,     \* what the log holds before it is trimmed
    Bytes,        \* what the program may write: [safe, modes]
    Sizes,        \* what the terminal may be resized to
    FirstModes, FirstSize,
    NoModes,      \* no preamble is needed, or none is known
    MaxBatch,     \* positions one read of the log may return
    WireRoom,     \* frames a socket holds
    MaxSeq        \* bound of the model: positions a behaviour may use

ASSUME HostStreamAssumption ==
    /\ IsFiniteSet(Connections) /\ Others \subseteq Connections
    /\ Capacity \in Nat /\ MaxBatch \in Nat \ {0} /\ WireRoom \in Nat \ {0}
    /\ MaxSeq \in Nat
    /\ \A b \in Bytes : b.safe \in BOOLEAN /\ b.modes # NoModes
    /\ FirstModes # NoModes

VARIABLES
    written, head, size, modes, torn,   \* the session's log
    trimming,     \* the thread that appended still has the lock
    exit,         \* Shared::exit is set
    forgotten,    \* the session is no longer listed
    attached,     \* Shared::attached
    conn,         \* per connection: its thread
    fol,          \* per connection: the stream's thread
    closed,       \* per connection: the client is gone
    wire,         \* per connection: frames written and not yet read
    view          \* per connection: what the client made of the stream

log == <<written, head, size, modes, torn>>
vars == <<log, trimming, exit, forgotten, attached, conn, fol, closed, wire, view>>

Modes == {b.modes : b \in Bytes} \cup {FirstModes}
Past == [resize: BOOLEAN, safe: BOOLEAN, modes: Modes, size: Sizes \cup {FirstSize}, upto: Nat]
Origin == [resize |-> FALSE, safe |-> TRUE, modes |-> FirstModes, size |-> FirstSize, upto |-> 0]
Log == INSTANCE LogPromise

Tip == Len(written)
Now == Log!At(Tip)

(***************************************************************************)
(* The session's side.                                                     *)
(***************************************************************************)
ByteAfter(b) == [resize |-> FALSE, safe |-> b.safe, modes |-> b.modes,
                 size |-> Now.size, upto |-> Tip + 1]
ResizeTo(s) == [resize |-> TRUE, safe |-> Now.safe, modes |-> Now.modes,
                size |-> s, upto |-> Tip + 1]

\* The reader, or a resize, adds to the log
Append1(p) ==
    /\ ~trimming /\ ~exit /\ Tip < MaxSeq
    /\ written' = Append(written, p)
    /\ trimming' = TRUE
    /\ UNCHANGED <<head, size, modes, torn, exit, forgotten, attached, conn, fol, closed, wire, view>>
WriteByte == \E b \in Bytes : Append1(ByteAfter(b))
WriteResize == \E s \in Sizes : Append1(ResizeTo(s))

\* and trims it before it lets go of the lock: to a place the stream may be
\* cut, if there is one, and to any place once twice the capacity is held
Trim ==
    /\ trimming /\ trimming' = FALSE
    /\ \/ Log!Held > Capacity /\ \E h \in head + 1..Tip - 1 : Log!At(h).safe /\ Log!MoveHead(h)
       \/ Log!Held > 2 * Capacity /\ \E h \in head + 1..Tip : Log!MoveHead(h)
       \/ Log!Held <= 2 * Capacity /\ UNCHANGED log
    /\ UNCHANGED <<exit, forgotten, attached, conn, fol, closed, wire, view>>

\* Another session's thread enforces the budget of all logs on this one
BudgetTrim ==
    /\ ~trimming
    /\ \E h \in head + 1..Tip : Log!At(h).safe /\ Log!MoveHead(h)
    /\ UNCHANGED <<trimming, exit, forgotten, attached, conn, fol, closed, wire, view>>

Finish ==
    /\ ~exit /\ ~trimming
    /\ exit' = TRUE
    /\ UNCHANGED <<log, trimming, forgotten, attached, conn, fol, closed, wire, view>>

(***************************************************************************)
(* Frames.                                                                 *)
(***************************************************************************)
Reply(from, start) ==
    [kind |-> "attached", from |-> from, seq |-> start, gap |-> from < head,
     size |-> Log!At(start).size]
Preamble == [kind |-> "preamble", modes |-> modes]
Item(p) == [kind |-> "item", seq |-> p]
Gap(from, to) == [kind |-> "gap", seq |-> from, to |-> to]
Exited == [kind |-> "exited"]
Detached == [kind |-> "detached"]
Refused == [kind |-> "refused"]

\* Wire::send, as far as it depends on the connection
CanSend(c) == ~closed[c] /\ Len(wire[c]) < WireRoom
Send(c, frame) == wire' = [wire EXCEPT ![c] = Append(@, frame)]

(***************************************************************************)
(* A connection's thread.                                                  *)
(***************************************************************************)
Idle == [phase |-> "idle", from |-> 0, out |-> <<>>]
NoStream == [state |-> "none", cursor |-> 0, out |-> <<>>, next |-> 0, stop |-> FALSE]

\* A second stream of one session on one connection is refused, and a stream
\* is one until its thread has said that it is done.
Follows(c) == fol[c].state \notin {"none", "done"}

\* attach: the session is looked up
AttachFind(c, from) ==
    /\ conn[c].phase = "idle" /\ ~closed[c] /\ ~forgotten /\ ~Follows(c)
    /\ fol' = [fol EXCEPT ![c] = NoStream]
    /\ conn' = [conn EXCEPT ![c] = [phase |-> "found", from |-> from, out |-> <<>>]]
    /\ view' = [view EXCEPT ![c].asked = TRUE]
    /\ UNCHANGED <<log, trimming, exit, forgotten, attached, closed, wire>>

AttachRefuse(c) ==
    /\ conn[c].phase = "idle" /\ CanSend(c)
    /\ forgotten \/ Follows(c)
    /\ Send(c, Refused)
    /\ view' = [view EXCEPT ![c].asked = TRUE]
    /\ UNCHANGED <<log, trimming, exit, forgotten, attached, conn, fol, closed>>

Opening(from, start) ==
    IF from < head THEN <<Reply(from, start), Preamble>> ELSE <<Reply(from, start)>>

\* Under the lock: where the stream starts and what the client has to be told
AttachPrepare(c) ==
    /\ conn[c].phase = "found" /\ ~trimming
    /\ LET from == conn[c].from
           start == IF from < head THEN head ELSE IF from > Tip THEN Tip ELSE from
       IN  conn' = [conn EXCEPT ![c] = [phase |-> "answering", from |-> start,
                                        out |-> Opening(from, start)]]
    /\ attached' = attached + 1
    /\ UNCHANGED <<log, trimming, exit, forgotten, fol, closed, wire, view>>

\* The reply and the preamble are written by the connection's own thread
AnswerSent(c) ==
    /\ CanSend(c)
    /\ Send(c, Head(conn[c].out))
    /\ conn' = [conn EXCEPT ![c].out = Tail(@)]
    /\ UNCHANGED attached
\* Faulty: the stream that is not to be is still counted
AnswerFailedFaulty(c) ==
    /\ closed[c]
    /\ conn' = [conn EXCEPT ![c].phase = "leaving"]
    /\ UNCHANGED <<attached, wire>>
AnswerFailed(c) ==
    /\ closed[c]
    /\ conn' = [conn EXCEPT ![c].phase = "leaving"]
    /\ attached' = attached - 1
    /\ UNCHANGED wire
AttachAnswer(c) ==
    /\ conn[c].phase = "answering" /\ conn[c].out # <<>>
    /\ AnswerSent(c) \/ AnswerFailed(c)
    /\ UNCHANGED <<log, trimming, exit, forgotten, fol, closed, view>>

\* The stream's thread is started once the reply is written
AttachStart(c) ==
    /\ conn[c].phase = "answering" /\ conn[c].out = <<>>
    /\ fol' = [fol EXCEPT ![c] = [NoStream EXCEPT !.state = "run", !.cursor = conn[c].from]]
    /\ conn' = [conn EXCEPT ![c] = Idle]
    /\ UNCHANGED <<log, trimming, exit, forgotten, attached, closed, wire, view>>

\* OP_DETACH: the stream is told to stop and waited for.  Its client stopped
\* listening when it asked.
DetachAsk(c) ==
    /\ conn[c].phase = "idle" /\ ~closed[c] /\ fol[c].state # "none"
    /\ fol' = [fol EXCEPT ![c].stop = TRUE]
    /\ conn' = [conn EXCEPT ![c].phase = "joining"]
    /\ view' = [view EXCEPT ![c].on = FALSE]
    /\ UNCHANGED <<log, trimming, exit, forgotten, attached, closed, wire>>

\* Faulty: the stream is not waited for
DetachReplyFaulty(c) ==
    /\ conn[c].phase = "joining" /\ CanSend(c)
    /\ Send(c, Detached)
    /\ conn' = [conn EXCEPT ![c] = Idle]
    /\ UNCHANGED <<log, trimming, exit, forgotten, attached, fol, closed, view>>

DetachReply(c) ==
    /\ conn[c].phase = "joining" /\ fol[c].state = "done"
    /\ \/ CanSend(c) /\ Send(c, Detached) /\ conn' = [conn EXCEPT ![c] = Idle]
       \/ closed[c] /\ wire' = wire /\ conn' = [conn EXCEPT ![c].phase = "leaving"]
    /\ fol' = [fol EXCEPT ![c] = NoStream]
    /\ UNCHANGED <<log, trimming, exit, forgotten, attached, closed, view>>

\* OP_FORGET: only of a session that ended; its log is then cleared
Forget(c) ==
    /\ conn[c].phase = "idle" /\ ~closed[c] /\ exit /\ ~forgotten
    /\ forgotten' = TRUE
    /\ conn' = [conn EXCEPT ![c].phase = "clearing"]
    /\ UNCHANGED <<log, trimming, exit, attached, fol, closed, wire, view>>

ReleaseLog(c) ==
    /\ conn[c].phase = "clearing" /\ ~trimming
    /\ Log!MoveHead(Tip)
    /\ conn' = [conn EXCEPT ![c] = Idle]
    /\ UNCHANGED <<trimming, exit, forgotten, attached, fol, closed, wire, view>>

\* serve: the read of the next frame fails.  Streams are stopped, not joined.
Leave(c) ==
    /\ conn[c].phase = "leaving" \/ (conn[c].phase = "idle" /\ closed[c])
    /\ conn' = [conn EXCEPT ![c].phase = "gone"]
    /\ fol' = [fol EXCEPT ![c].stop = TRUE]
    /\ UNCHANGED <<log, trimming, exit, forgotten, attached, closed, wire, view>>

(***************************************************************************)
(* A stream's thread: follow.                                              *)
(***************************************************************************)
Items(from, to) == [i \in 1..(to - from) |-> Item(from + i - 1)]

\* The log moved past the stream
Lost(c) == fol[c].cursor < head
Start(c) == IF Lost(c) THEN head ELSE fol[c].cursor

\* Faulty: a loss is not announced; or it is, and the modes are not restored
BatchUnannounced(c, to) ==
    (IF Lost(c) THEN <<Preamble>> ELSE <<>>) \o Items(Start(c), to)
BatchUnprepared(c, to) ==
    (IF Lost(c) THEN <<Gap(fol[c].cursor, head)>> ELSE <<>>) \o Items(Start(c), to)

\* What is sent up to position to; a gap comes with the modes where it ends
Batch(c, to) ==
    (IF Lost(c) THEN <<Gap(fol[c].cursor, head), Preamble>> ELSE <<>>) \o Items(Start(c), to)

\* Faulty: a loss with nothing behind it is not worth a batch
HasBatchFaulty(c) == Start(c) < Tip
HasBatch(c) == Lost(c) \/ Start(c) < Tip

ReadBatch(c) ==
    /\ ~fol[c].stop /\ HasBatch(c)
    /\ \E to \in Start(c)..Tip :
          /\ to = Start(c) => to = Tip
          /\ to - Start(c) <= MaxBatch
          /\ fol' = [fol EXCEPT ![c].state = "send", ![c].out = Batch(c, to), ![c].next = to]

ReadExit(c) ==
    /\ ~fol[c].stop /\ ~Lost(c) /\ Start(c) = Tip /\ exit
    /\ fol' = [fol EXCEPT ![c].state = "send", ![c].out = <<Exited>>,
                          ![c].next = fol[c].cursor]

\* Faulty: only a lost connection stops a stream
ReadStopFaulty(c) ==
    /\ fol[c].stop /\ closed[c]
    /\ fol' = [fol EXCEPT ![c].state = "ending"]
ReadStop(c) ==
    /\ fol[c].stop
    /\ fol' = [fol EXCEPT ![c].state = "ending"]

Read(c) ==
    /\ fol[c].state = "run" /\ ~trimming
    /\ ReadStop(c) \/ ReadBatch(c) \/ ReadExit(c)
    /\ UNCHANGED <<log, trimming, exit, forgotten, attached, conn, closed, wire, view>>

Sent(f) ==
    IF Tail(f.out) # <<>> THEN [f EXCEPT !.out = Tail(f.out)]
    ELSE [f EXCEPT !.out = <<>>, !.cursor = f.next,
                   !.state = IF Head(f.out).kind = "exited" THEN "ending" ELSE "run"]

SendFrame(c) ==
    /\ fol[c].state = "send"
    /\ \/ /\ CanSend(c)
          /\ Send(c, Head(fol[c].out))
          /\ fol' = [fol EXCEPT ![c] = Sent(@)]
       \/ /\ closed[c]
          /\ fol' = [fol EXCEPT ![c].state = "ending", ![c].out = <<>>]
          /\ wire' = wire
    /\ UNCHANGED <<log, trimming, exit, forgotten, attached, conn, closed, view>>

\* The thread's last two steps
CountDown(c) ==
    /\ fol[c].state = "ending" /\ ~trimming
    /\ attached' = attached - 1
    /\ fol' = [fol EXCEPT ![c].state = "left"]
    /\ UNCHANGED <<log, trimming, exit, forgotten, conn, closed, wire, view>>
Done(c) ==
    /\ fol[c].state = "left"
    /\ fol' = [fol EXCEPT ![c].state = "done"]
    /\ UNCHANGED <<log, trimming, exit, forgotten, attached, conn, closed, wire, view>>

(***************************************************************************)
(* The client.                                                             *)
(***************************************************************************)
NoView == [on |-> FALSE, asked |-> FALSE, at |-> 0, modes |-> FirstModes, size |-> FirstSize]

\* An emulator that is fed the stream: where it stands and which modes it is
\* in.  What arrives outside of a stream is not for it.
Opened(v, frame) ==
    [on |-> TRUE, asked |-> FALSE, at |-> frame.seq, size |-> frame.size,
     modes |-> IF frame.gap THEN NoModes ELSE IF frame.from = 0 THEN FirstModes ELSE v.modes]
Fed(v, frame) ==
    CASE frame.kind = "preamble" -> [v EXCEPT !.modes = frame.modes]
      [] frame.kind = "item" ->
            [v EXCEPT !.at = frame.seq + 1, !.modes = written[frame.seq + 1].modes,
                      !.size = written[frame.seq + 1].size]
      [] frame.kind = "gap" -> [v EXCEPT !.at = frame.to, !.modes = NoModes]
      [] OTHER -> [v EXCEPT !.on = FALSE]
See(v, frame) ==
    IF frame.kind = "attached" THEN Opened(v, frame)
    ELSE IF frame.kind = "refused" THEN [v EXCEPT !.asked = FALSE]
    ELSE IF v.on THEN Fed(v, frame) ELSE v

Receive(c) ==
    /\ wire[c] # <<>> /\ ~closed[c]
    /\ view' = [view EXCEPT ![c] = See(@, Head(wire[c]))]
    /\ wire' = [wire EXCEPT ![c] = Tail(@)]
    /\ UNCHANGED <<log, trimming, exit, forgotten, attached, conn, fol, closed>>

\* A client that is gone, with what it had not read
Close(c) ==
    /\ ~closed[c]
    /\ closed' = [closed EXCEPT ![c] = TRUE]
    /\ wire' = [wire EXCEPT ![c] = <<>>]
    /\ view' = [view EXCEPT ![c] = NoView]
    /\ UNCHANGED <<log, trimming, exit, forgotten, attached, conn, fol>>

(***************************************************************************)
(* The specification.                                                      *)
(***************************************************************************)
Init ==
    /\ Log!Init
    /\ trimming = FALSE /\ exit = FALSE /\ forgotten = FALSE /\ attached = 0
    /\ conn = [c \in Connections |-> Idle]
    /\ fol = [c \in Connections |-> NoStream]
    /\ closed = [c \in Connections |-> FALSE]
    /\ wire = [c \in Connections |-> <<>>]
    /\ view = [c \in Connections |-> NoView]

\* A client attaches from the start, or goes on where its last stream stopped
\* if its emulator is in the modes of that place
Attach(c) ==
    /\ ~view[c].on /\ ~view[c].asked
    /\ \/ AttachRefuse(c)
       \/ \E from \in {0, view[c].at} :
             (from # 0 => view[c].modes # NoModes) /\ AttachFind(c, from)

Serve(c) == AttachPrepare(c) \/ AttachAnswer(c) \/ AttachStart(c) \/ DetachReply(c)
            \/ ReleaseLog(c) \/ Leave(c)
Follow(c) == Read(c) \/ SendFrame(c) \/ CountDown(c) \/ Done(c)

Next ==
    \/ WriteByte \/ WriteResize \/ Trim \/ BudgetTrim \/ Finish
    \/ \E c \in Connections \ Others : Attach(c) \/ DetachAsk(c) \/ Close(c)
    \/ \E c \in Connections : Forget(c) \/ Serve(c) \/ Follow(c) \/ Receive(c)

\* Threads of the host run on; a client that stays connected reads
Spec ==
    /\ Init /\ [][Next]_vars
    /\ WF_vars(Trim)
    /\ \A c \in Connections : WF_vars(Serve(c)) /\ WF_vars(Follow(c)) /\ WF_vars(Receive(c))
=============================================================================
