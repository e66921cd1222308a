-------------------------- MODULE SessionLogProperties --------------------------
(***************************************************************************)
(* What must hold of a session's log.                                      *)
(***************************************************************************)
EXTENDS SessionLog

\* Type correctness of the log's fields and of the call under way.
TypeOK ==
    /\ entries \in Seq(Entry)
    /\ head_seq \in Nat /\ tail_seq \in Nat /\ stored \in Nat
    /\ head_size \in Sizes
    /\ scanner \in Byte
    /\ sealed \in BOOLEAN
    /\ head_modes \in Modes \cup {NoModes}
    /\ head_torn \in BOOLEAN
    /\ call \in Call
    /\ written \in Seq(Past)

\* The records abut: the first starts at the head, each next one where the
\* one before it ends, and the last ends at the tail (Entry.seq,
\* drop_head_record's head_seq, append_output's tail_seq + offset).
Abut ==
    /\ Len(written) = tail_seq
    /\ head_seq = IF entries = <<>> THEN tail_seq ELSE entries[1].seq
    /\ \A i \in 1..Len(entries) :
          entries[i].seq + Span(entries[i]) =
              IF i = Len(entries) THEN tail_seq ELSE entries[i + 1].seq

\* Record e holds exactly what was written at its positions.
Faithful(e) ==
    IF IsResize(e)
    THEN /\ e.bytes = <<>>
         /\ written[e.seq + 1].resize /\ written[e.seq + 1].size = e.size
    ELSE \A j \in 1..Len(e.bytes) :
            LET w == written[e.seq + j] IN
            /\ ~w.resize
            /\ e.bytes[j].safe = w.safe /\ e.bytes[j].modes = w.modes

\* The log holds every byte and every resize from the head to the tail, once,
\* in order, and no record is longer than a chunk: whatever the splitting of
\* append_output and the dropping of trim_to did to the records.
Retained ==
    /\ Abut
    /\ \A i \in 1..Len(entries) :
          Faithful(entries[i]) /\ Len(entries[i].bytes) <= ChunkCap

\* `stored` never drifts from what the held positions are charged, over any
\* sequence of appends, closings and drops; a usize that drifted would wrap.
Charged == stored = At(tail_seq).upto - At(head_seq).upto

\* Between calls, a replay from the head is given the modes, the size and the
\* torn flag that the stream itself has at that position (head_preamble,
\* head_torn, head_size), and none only while nothing was dropped.
HeadKnown ==
    call.op = "idle" =>
        /\ head_size = At(head_seq).size
        /\ head_modes = NoModes => head_seq = 0
        /\ head_modes # NoModes => head_modes = At(head_seq).modes
        /\ head_torn = ~At(head_seq).safe

\* Between calls the log is not above twice its capacity, whether or not the
\* stream offers a place to cut, and above its capacity only when no record
\* but the first starts where the stream may be cut (trim_to).
Bounded ==
    call.op = "idle" =>
        /\ stored <= 2 * Capacity
        /\ stored > Capacity => ~HasClean

\* At every position of the log the size a replay from there starts with is
\* the size the terminal had (size_at, which attach uses).
SizesKnown == call.op = "idle" => \A p \in head_seq..tail_seq : SizeAt(p) = At(p).size

\* The log as its readers see it.  A call moves the head only as it returns.
Trimming == call.op \in {"trim", "drop", "cut"}
SeenHead == IF Trimming THEN call.before ELSE head_seq
Promise == INSTANCE LogPromise WITH
    head <- SeenHead, size <- At(SeenHead).size, modes <- head_modes, torn <- head_torn

\* The ring implements the log it promises to readers: the head only moves
\* forward, to a place the stream may be cut unless the log outgrew twice its
\* capacity or is given up, and what is told of it is what holds there.
LogPromised == Promise!Spec

\* Every call gives the lock back: none of append_output's and trim_to's
\* loops runs for ever, with a room of zero, an empty log or nothing to cut.
CallsReturn == []<>(call.op = "idle")

\* What the log holds, and what it charges for it: both exact after every step
\* of every call (Retained, Charged).
HeldExact == Retained /\ Charged

\* What the log says of its head, and how much it holds: both settled whenever
\* the lock is free (HeadKnown, Bounded).
HeadSettled == HeadKnown /\ Bounded
=============================================================================
