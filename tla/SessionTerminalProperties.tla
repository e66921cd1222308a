----------------------- MODULE SessionTerminalProperties -----------------------
(***************************************************************************)
(* What must hold of a session's terminal.                                 *)
(***************************************************************************)
EXTENDS SessionTerminal

\* Type correctness; a terminal is never empty (resize, nudged).
Size == 1..MaxRows + 1
TerminalTypeOK ==
    /\ at \in [Threads -> {"idle", "lock", "engine", "log", "leave"}]
    /\ job \in [Threads -> [op: {"none", "resize", "redraw", "restore"}, size: Sizes]]
    /\ terminal \in Threads \cup {Nobody} /\ engineLock \in Threads \cup {ReaderThread, Nobody}
    /\ master \in BOOLEAN /\ asked \in Sizes /\ redrawing \in BOOLEAN /\ engine \in BOOLEAN
    /\ ptySize \in Size /\ engineSaw \in Seq(Size \cup {Chunk}) /\ logSaw \in Seq(Size \cup {Chunk})
    /\ readerAt \in {"read", "log", "engine", "exit", "ended"}
    /\ ended \in BOOLEAN /\ unseen \in BOOLEAN
    /\ calls \in 0..MaxCalls /\ output \in 0..MaxChunks

\* A resize falls between the same two bytes for the engine and for the log
\* (append_output), for as long as the engine has not failed.
SameOrder == TerminalTypeOK /\ (engineLock = Nobody /\ engine => engineSaw = logSaw)

\* The sizes of the log are those the PTY had, in one order: when nobody
\* resizes, the last one logged is the PTY's.
SizesLogged(s) == {i \in 1..Len(s) : s[i] # Chunk}
LastSize(s) == IF SizesLogged(s) = {} THEN FirstSize
               ELSE s[CHOOSE i \in SizesLogged(s) : \A j \in SizesLogged(s) : j <= i]
PtyAsLogged == terminal = Nobody => ptySize = LastSize(logSaw)

\* A redraw comes back to whatever size a client asked for last, so that a
\* real resize between its two steps is not undone (redraw).
BackToAsked == terminal = Nobody /\ ~redrawing /\ master => ptySize = asked

\* Every request returns: no two threads wait for each other's locks.  A
\* redraw that began ends, also when no thread can be started for its second
\* half, and the PTY does not stay at the nudged size.
CallsReturn ==
    /\ \A c \in Clients : at[c] # "idle" ~> at[c] = "idle"
    /\ redrawing ~> ~redrawing

\* A redraw makes the program repaint, which it does when its terminal
\* changes size ("A redraw asked for while one is under way is that one"):
\* once no redraw is under way, the program was signalled after every one
\* that was granted.  This does not hold: a redraw that joins one under way
\* after a resize ends with the size the terminal has already.
RedrawSignals == terminal = Nobody /\ ~redrawing /\ master => ~unseen

\* PTY, engine and log had the same sizes in the same order, between the same
\* bytes (SameOrder, PtyAsLogged).
SameSizes == SameOrder /\ PtyAsLogged
=============================================================================
