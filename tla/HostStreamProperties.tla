-------------------------- MODULE HostStreamProperties --------------------------
(***************************************************************************)
(* What must hold of every stream of a session.                            *)
(***************************************************************************)
EXTENDS HostStream

Phases == {"idle", "found", "answering", "joining", "clearing", "leaving", "gone"}
Frame ==
    [kind: {"attached"}, from: Nat, seq: Nat, gap: BOOLEAN, size: Sizes \cup {FirstSize}]
    \cup [kind: {"preamble"}, modes: Modes]
    \cup [kind: {"item"}, seq: Nat]
    \cup [kind: {"gap"}, seq: Nat, to: Nat]
    \cup [kind: {"exited", "detached", "refused"}]

\* Type correctness.  In particular a preamble that is sent is one: modes of
\* the log, never the "nothing to restore" of a log whose head did not move.
TypeOK ==
    /\ written \in Seq(Past)
    /\ head \in Nat /\ modes \in Modes \cup {NoModes} /\ torn \in BOOLEAN
    /\ trimming \in BOOLEAN /\ exit \in BOOLEAN /\ forgotten \in BOOLEAN
    /\ attached \in Nat
    /\ conn \in [Connections -> [phase: Phases, from: Nat, out: Seq(Frame)]]
    /\ fol \in [Connections -> [state: {"none", "run", "send", "ending", "left", "done"},
                                cursor: Nat, out: Seq(Frame), next: Nat, stop: BOOLEAN]]
    /\ closed \in [Connections -> BOOLEAN]
    /\ wire \in [Connections -> Seq(Frame)]
    /\ view \in [Connections -> [on: BOOLEAN, asked: BOOLEAN, at: Nat, modes: Modes \cup {NoModes},
                                 size: Sizes \cup {FirstSize}]]

\* The frame client c is fed next, if it is of that kind.
Arriving(c, kind) == view[c].on /\ wire[c] # <<>> /\ Head(wire[c]).kind = kind

\* A client misses nothing it is not told of and gets nothing twice: output
\* starts where its stream stands, a gap starts there and leads forward, and
\* the end is said when it stands at the end of the log.
InOrder ==
    \A c \in Connections :
        LET v == view[c]  f == Head(wire[c]) IN
        /\ Arriving(c, "item") => f.seq = v.at
        /\ Arriving(c, "gap") => f.seq = v.at /\ f.to > v.at
        /\ Arriving(c, "exited") => v.at = Tip

\* No output is fed to an emulator in other modes than the program left the
\* terminal in at that position, however the head moved between the attach,
\* its reply and the stream's first read, and between two reads.
ModesRestored ==
    \A c \in Connections :
        Arriving(c, "item") => view[c].modes = Log!At(view[c].at).modes

\* Between the end of a stream, the exit or the answer to a detach, and the
\* next reply nothing is sent: no frame of an old stream can be taken for part
\* of the next.
Framed ==
    \A c \in Connections : \A i \in 1..Len(wire[c]) - 1 :
        wire[c][i].kind \in {"exited", "detached"}
            => wire[c][i + 1].kind \in {"attached", "detached", "refused"}

\* Shared::attached counts the streams that were opened and have not ended,
\* through refusals, lost clients and detaches.
Streaming(c) ==
    conn[c].phase = "answering" \/ fol[c].state \in {"run", "send", "ending"}
AttachedCounts == TypeOK /\ attached = Cardinality({c \in Connections : Streaming(c)})

\* A client that stays connected, does not detach, and reads, is told that the
\* session ended (after all of its log, by InOrder), whatever is trimmed or
\* forgotten meanwhile.
HearsTheEnd ==
    \A c \in Connections \ Others :
        (fol[c].state = "run" /\ exit) ~> (closed[c] \/ fol[c].stop \/ fol[c].state = "left")

\* A detach is answered, though the stream may be waiting for the socket that
\* the client is to read; and a client that is gone leaves no stream behind.
DetachReturns ==
    \A c \in Connections \ Others :
        /\ conn[c].phase = "joining" ~> conn[c].phase # "joining"
        /\ closed[c] ~> fol[c].state \in {"none", "done"}

\* No stream stays, for the client or for the host, longer than it has to
\* (HearsTheEnd, DetachReturns).
StreamsEnd == HearsTheEnd /\ DetachReturns

\* What a client is fed: in order with every loss announced, in the modes of
\* its position, and from its own stream (InOrder, ModesRestored, Framed).
FedRight == InOrder /\ ModesRestored /\ Framed
=============================================================================
