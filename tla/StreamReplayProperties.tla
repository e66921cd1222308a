------------------------- MODULE StreamReplayProperties -------------------------
(***************************************************************************)
(* What must hold of a terminal's place in its session's stream.           *)
(***************************************************************************)
EXTENDS StreamReplay

Pending == [on: BOOLEAN, until: 0..MaxSeq, redraw: BOOLEAN]
Positions(a) == IF a.do = "feed" THEN a.from..a.from + a.count - 1 ELSE {}
Index == 1..Len(done)

\* Type correctness.
ReplayTypeOK ==
    /\ log \in Logs /\ head \in 0..Len(log) /\ cursor \in 0..Len(log) /\ due \in BOOLEAN
    /\ losses \subseteq 0..MaxSeq - 1
    /\ sink \in [pending: Pending, position: 0..MaxSeq, step: {"continue", "redraw", "ended"}]
    /\ owed \in BOOLEAN

\* The first position that is new to this terminal.
Present == IF start.mode = "fresh" THEN start.seq ELSE Until(start)

\* A byte is fed as old exactly when it was in the log before the terminal
\* attached, also where a chunk holds bytes of both kinds.
OldIsQuiet ==
    \A i \in Index : done[i].do = "feed" =>
        \A p \in Positions(done[i]) : done[i].live <=> p >= Present

\* Every byte from the start to where the stream stands was fed once and in
\* order, unless a gap said that it was lost.
FedOnce ==
    /\ ReplayTypeOK
    /\ \A i, j \in Index : i < j =>
        \A p \in Positions(done[i]), q \in Positions(done[j]) : p < q
    /\ UNION {Positions(done[i]) : i \in Index}
         = {p \in start.seq..cursor - 1 : log[p + 1] = Byte /\ p \notin losses}

\* A terminal goes live as soon as the stream has reached the end of the old
\* output, though the session may be idle from then on: it does not wait for
\* the next byte.  It goes live at most once, not at all if it was live from
\* the start, and from then on the stream gives the grid no size.  The exit
\* comes last.
LiveOnTime ==
    /\ cursor >= Present /\ ~due => ~sink.pending.on
    /\ Cardinality({i \in Index : done[i].do = "live"}) <= (IF start.mode = "fresh" THEN 0 ELSE 1)
    /\ \A i \in Index : done[i].do = "resize" =>
        start.mode = "reattach" /\ \A j \in 1..i : done[j].do # "live"
    /\ \A i \in Index : done[i].do = "exited" => i = Len(done)

\* After a preamble the picture is incomplete, and a repaint is asked for once
\* nothing old can paint over it; unless the session or the connection ended.
\* In the middle of a replay it would be painted over, and is not asked for.
RepaintAsked ==
    /\ owed /\ ~Ended => sink.pending.on /\ sink.pending.redraw
    /\ sink.step = "redraw" => ~sink.pending.on

\* The grid's size when done[i] was given
GridAt(i) ==
    LET resizes == {j \in 1..i : done[j].do = "resize"} IN
    done[Greatest(resizes)].size
RightSize(i) == \A p \in Positions(done[i]) : GridAt(i) = SizeAt(log, p)
Quiet == {i \in Index : done[i].do = "feed" /\ ~done[i].live}

\* Old output is replayed into a grid of the size it was written for, as far
\* as nothing of the log was lost on the way.
SizesUntilLoss ==
    \A i \in Quiet : (\A p \in losses : p > done[i].from) => RightSize(i)

\* "Its log is replayed first, quietly and at the sizes the log recorded"
\* (AttachMode::Reattach), lost or not.  This does not hold: a gap in the
\* middle of a replay carries no size, and a resize may be among what it lost.
SizesRecorded == \A i \in Quiet : RightSize(i)

\* What a terminal is fed: old bytes as old, each once and in order, at the
\* size they were printed for (OldIsQuiet, FedOnce, SizesUntilLoss).
FedAsPrinted == OldIsQuiet /\ FedOnce /\ SizesUntilLoss

\* When it goes live, and what it then asks for (LiveOnTime, RepaintAsked).
GoesLive == LiveOnTime /\ RepaintAsked
=============================================================================
