------------------------------ MODULE LogPromise ------------------------------
(***************************************************************************)
(* What crates/splitlane-host/src/log.rs promises to whoever attaches to a *)
(* session, with no records, chunks or loops: the log is what has been     *)
(* written from some head on; the head only moves forward; and at the head *)
(* the terminal's size and modes are known, together with whether the      *)
(* stream could be cut there.                                              *)
(***************************************************************************)
EXTENDS Integers, Sequences

CONSTANTS
    Capacity,     \* bytes the log is meant to hold
    Past,         \* what is known of the terminal after each position
    Origin,       \* and before the first
    NoModes       \* nothing to restore: the head is the session's start

VARIABLES
    written,      \* the terminal after each position written so far
    head,         \* the log holds the positions from here on
    size,         \* terminal size at the head
    modes,        \* modes to restore before a replay from the head
    torn          \* the stream could not be cut at the head

vars == <<written, head, size, modes, torn>>

At(p) == IF p = 0 THEN Origin ELSE written[p]
Held == At(Len(written)).upto - At(head).upto

Init ==
    /\ written = <<>> /\ head = 0
    /\ size = Origin.size /\ modes = NoModes /\ torn = FALSE

\* The program writes, or the terminal is resized
Write ==
    /\ Len(written') > Len(written)
    /\ SubSeq(written', 1, Len(written)) = written
    /\ UNCHANGED <<head, size, modes, torn>>

\* The head moves.  It leaves a place the stream may not be cut behind it
\* only when the log has grown past twice its capacity, or when everything
\* is given up because nobody will read it again.
MoveHead(h) ==
    /\ h \in head..Len(written)
    /\ At(h).safe \/ Held > 2 * Capacity \/ h = Len(written)
    /\ head' = h
    /\ size' = At(h).size
    /\ modes' = At(h).modes
    /\ torn' = ~At(h).safe
    /\ UNCHANGED written

Next == Write \/ \E h \in head..Len(written) : MoveHead(h)

Spec == Init /\ [][Next]_vars
=============================================================================
