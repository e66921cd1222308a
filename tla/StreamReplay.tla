------------------------------ MODULE StreamReplay ------------------------------
(***************************************************************************)
(* Where a session's log ends and its present begins, for a terminal that  *)
(* follows the session: src-app/src/terminal/stream_replay.rs.             *)
(*                                                                         *)
(* The state of StreamReplay is `sink`; the actions it hands out are kept  *)
(* in `done`, in order, so that what the terminal was told can be judged.  *)
(* The stream is the host's (server.rs, follow): the log from a position   *)
(* on, one item at a time in chunks of any length, and where the log was   *)
(* trimmed past the stream a gap and then a preamble.                      *)
(***************************************************************************)
EXTENDS Integers, Sequences, FiniteSets

CONSTANTS
    GridSizes,    \* sizes of a terminal
    Byte,         \* a byte in the log
    MaxSeq        \* bound of the model: positions in the log

ASSUME StreamReplayAssumption ==
    /\ GridSizes # {} /\ Byte \notin GridSizes
    /\ MaxSeq \in Nat

VARIABLES
    \* the host
    log,          \* every position ever written: a byte or a resize
    head,         \* positions trimmed
    cursor,       \* the next position to send
    due,          \* a preamble comes next
    losses,       \* the positions a gap left out
    \* the terminal
    start,        \* StreamStart and the mode
    sink,         \* StreamReplay, and what the last event returned
    done,         \* every ReplayAction so far
    owed          \* a preamble was read since the last

stream == <<log, head, cursor, due, losses>>
terminal == <<start, sink, done, owed>>
replayVars == <<stream, terminal>>

Least(S) == CHOOSE x \in S : \A y \in S : x <= y
Greatest(S) == CHOOSE x \in S : \A y \in S : x >= y

(***************************************************************************)
(* The log.  Position p is log[p + 1].                                     *)
(***************************************************************************)
Entry == GridSizes \cup {Byte}
\* The size in effect at p: the last one recorded before it (size_at)
FirstSize == CHOOSE s \in GridSizes : TRUE
SizeAt(l, p) ==
    LET before == {q \in 1..p : l[q] \in GridSizes} IN
    IF before = {} THEN FirstSize ELSE l[Greatest(before)]

\* What an attach reply gives as the size at its start
StartSizeFaulty(l, p) == SizeAt(l, Len(l))     \* the size of now
StartSize(l, p) == SizeAt(l, p)

Write == Len(log) < MaxSeq /\ \E e \in Entry : log' = Append(log, e)
         /\ UNCHANGED <<head, cursor, due, losses, terminal>>
Trim == \E h \in head + 1..Len(log) : head' = h
         /\ UNCHANGED <<log, cursor, due, losses, terminal>>

(***************************************************************************)
(* StreamReplay.  An operator takes the sink and the actions given so far  *)
(* and returns both: [sink, done].                                         *)
(***************************************************************************)
Live == [on |-> FALSE, until |-> 0, redraw |-> FALSE]
Do(s, action) == [s EXCEPT !.done = Append(@, action)]
Resize(size) == [do |-> "resize", size |-> size]
FeedAt(from, count, live) == [do |-> "feed", from |-> from, count |-> count, live |-> live]
Modes(live) == [do |-> "modes", live |-> live]
GoLive == [do |-> "live"]
Exit == [do |-> "exited"]

Returns(s, step) == [s EXCEPT !.sink.step = step]

Finish(s) ==
    IF ~s.sink.pending.on THEN Returns(s, "continue")
    ELSE [Returns(Do(s, GoLive), IF s.sink.pending.redraw THEN "redraw" ELSE "continue")
             EXCEPT !.sink.pending = Live]

OverFaulty(s, seq) == s.sink.pending.on /\ seq > s.sink.pending.until     \* off by one
Over(s, seq) == s.sink.pending.on /\ seq >= s.sink.pending.until
Reached(s, seq) ==
    LET at == [s EXCEPT !.sink.position = seq] IN
    IF Over(s, seq) THEN Finish(at) ELSE Returns(at, "continue")

Feed(s, from, count) ==
    IF count = 0 THEN s ELSE Do(s, FeedAt(from, count, ~s.sink.pending.on))

\* One chunk can hold the last old bytes and the first new ones
OldFaulty(s, seq, count) == count     \* a chunk is not split
Old(s, seq, count) ==
    Least({count, IF s.sink.pending.until > seq THEN s.sink.pending.until - seq ELSE 0})
\* mutant: the rest of a chunk that crosses the line is forgotten
OutputFaulty(s, seq, count) ==
    IF ~s.sink.pending.on THEN Returns(Feed(s, seq, count), "continue")
    ELSE Reached(Feed(s, seq, Old(s, seq, count)), seq + Old(s, seq, count))
Output(s, seq, count) ==
    IF ~s.sink.pending.on THEN Returns(Feed(s, seq, count), "continue")
    ELSE LET old == Old(s, seq, count)
             crossed == Reached(Feed(s, seq, old), seq + old)
         IN Feed(crossed, seq + old, count - old)

\* Only while replaying: live, the window decides the size of its grid
Resized(s, seq, size) ==
    Reached(IF s.sink.pending.on /\ seq < s.sink.pending.until THEN Do(s, Resize(size)) ELSE s,
            seq + 1)

\* The repaint is asked for when the replay is over.  A stream that starts
\* with a preamble was not looked at when it was opened.
\* mutant: no repaint is noted
PreambleForgets(s) ==
    LET fed == Do(s, Modes(~s.sink.pending.on)) IN
    IF s.sink.pending.on THEN Reached(fed, s.sink.position) ELSE Returns(fed, "redraw")
Preamble(s) ==
    LET fed == Do(s, Modes(~s.sink.pending.on)) IN
    IF s.sink.pending.on
    THEN Reached([fed EXCEPT !.sink.pending.redraw = TRUE], s.sink.position)
    ELSE Returns(fed, "redraw")

Exited(s) == Returns(Do(Finish(s), Exit), "ended")

\* A host that does not say where its log ended: nothing is old
Until(st) == IF st.tail = -1 THEN st.seq ELSE st.tail
New(st) ==
    LET pending == IF st.mode = "fresh" THEN Live
                   ELSE [on |-> TRUE, until |-> Until(st), redraw |-> FALSE]
        bare == [sink |-> [pending |-> pending, position |-> st.seq, step |-> "continue"],
                 done |-> <<>>]
        sized == IF pending.on THEN Do(bare, Resize(st.size)) ELSE bare
    IN IF st.gap THEN sized ELSE Returns(Reached(sized, st.seq), "continue")

(***************************************************************************)
(* The stream's events.                                                    *)
(***************************************************************************)
This == [sink |-> sink, done |-> done]
Ended == sink.step = "ended"

\* PaneReader::run: a repaint is asked of the host when the sink says so
Takes(s, preamble) ==
    /\ sink' = s.sink /\ done' = s.done /\ start' = start
    /\ owed' = ((owed \/ preamble) /\ s.sink.step # "redraw")

NextIsHeld == ~Ended /\ ~due /\ head <= cursor /\ cursor < Len(log)
\* A run of bytes, cut anywhere
SendOutput ==
    /\ NextIsHeld
    /\ \E n \in 1..Len(log) - cursor :
        /\ \A k \in cursor + 1..cursor + n : log[k] = Byte
        /\ Takes(Output(This, cursor, n), FALSE)
        /\ cursor' = cursor + n
    /\ UNCHANGED <<log, head, due, losses>>

SendResized ==
    /\ NextIsHeld /\ log[cursor + 1] \in GridSizes
    /\ Takes(Resized(This, cursor, log[cursor + 1]), FALSE)
    /\ cursor' = cursor + 1
    /\ UNCHANGED <<log, head, due, losses>>

ResumesAt == head
SendGap ==
    /\ ~Ended /\ ~due /\ cursor < head
    /\ Takes(Reached(This, ResumesAt), FALSE)
    /\ losses' = losses \cup (cursor..ResumesAt - 1)
    /\ cursor' = ResumesAt /\ due' = TRUE
    /\ UNCHANGED <<log, head>>

SendPreamble ==
    /\ ~Ended /\ due
    /\ Takes(Preamble(This), TRUE)
    /\ due' = FALSE
    /\ UNCHANGED <<log, head, cursor, losses>>

SendExited ==
    /\ ~Ended /\ ~due /\ cursor = Len(log) /\ head <= cursor
    /\ Takes(Exited(This), FALSE)
    /\ UNCHANGED stream

\* The connection is lost (connection_lost): abandon, and nothing follows
ConnectionLost ==
    /\ ~Ended
    /\ Takes(Returns(Finish(This), "ended"), FALSE)
    /\ UNCHANGED stream

(***************************************************************************)
(* The specification.  A window attaches from the start of the log, to a   *)
(* session it has just started or to one that ran before.                  *)
(***************************************************************************)
Logs == UNION {[1..n -> Entry] : n \in 0..MaxSeq}
ReplayInit ==
    /\ log \in Logs
    /\ head \in 0..Len(log)
    /\ cursor = head /\ due = (head > 0) /\ losses = {}
    /\ \E mode \in {"fresh", "reattach"}, tail \in {Len(log), -1} :
        start = [mode |-> mode, seq |-> head, gap |-> head > 0, tail |-> tail,
                 size |-> StartSize(log, head)]
    /\ sink = New(start).sink /\ done = New(start).done
    /\ owed = FALSE

ReplayNext == \/ Write \/ Trim
        \/ SendOutput \/ SendResized \/ SendGap \/ SendPreamble
        \/ SendExited \/ ConnectionLost

ReplaySpec == ReplayInit /\ [][ReplayNext]_replayVars
=============================================================================
