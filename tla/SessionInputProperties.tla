----------------------- MODULE SessionInputProperties -----------------------
(***************************************************************************)
(* What must hold of the way into a session.                               *)
(***************************************************************************)
EXTENDS SessionInput

\* everything that went in, in its order
Wire == got \o tty \o writer.chunk \o queue

\* Between the paste of a send and its Enter - waiting, on its way or read -
\* nothing of another `send_text` or press of keys comes.  What is typed in a
\* window and what the terminal answers are not held back (server.rs send_text).
Pasting(s) == sender[s].part = "enter"
PasteWhole ==
    \A i \in 1..Len(Wire) : Wire[i].part \in {"paste", "typed"} =>
        LET ends == {j \in i + 1..Len(Wire) : Wire[j] = Chunk(Wire[i].by, "enter")}
        IN \A k \in i + 1..Len(Wire) :
               (\A j \in ends : k < j) /\ (ends # {} \/ Pasting(Wire[i].by))
                   => Wire[k].part \in {"raw", "answer"}

\* A connection that sends, or waits for its turn to, comes back: unless the
\* program lives on and reads nothing, or left a helper that keeps the
\* terminal open and reads nothing either (session.rs input, write_input).
Busy(s) == sender[s].at \notin {"idle", "done"}
NobodyReads == IF program.lives THEN ~program.reads ELSE helper
SendersReturn ==
    <>[]NobodyReads \/ <>[](\A s \in Senders : ~Busy(s))
=============================================================================
