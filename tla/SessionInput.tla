---------------------------- MODULE SessionInput ----------------------------
(***************************************************************************)
(* The way into a session: Session::input and Session::answer, the writer  *)
(* thread, and server.rs send_text, which takes several steps.             *)
(*                                                                         *)
(* Connections send; the reader answers what the program asks its          *)
(* terminal; the writer moves chunks from a bounded queue to the PTY; the  *)
(* program reads them, or does not.                                        *)
(***************************************************************************)
EXTENDS Integers, Sequences, FiniteSets

CONSTANTS
    Senders,     \* connections with something to send
    SendKind,    \* what each sends: "line" or "lines" of text, "keys", "raw" input
    InputQueue,  \* INPUT_QUEUE, in chunks
    PtyRoom,     \* chunks that the PTY takes before the program reads
    MaxTurns     \* bound: queries and changes of mind of the program

ASSUME SessionInputAssumption ==
    /\ SendKind \in [Senders -> {"line", "lines", "keys", "raw"}]
    /\ InputQueue \in Nat \ {0} /\ PtyRoom \in Nat \ {0} /\ MaxTurns \in Nat

VARIABLES
    queue,    \* the channel: chunks [by, part]
    tx,       \* whether the session still has its end of the channel
    writer,   \* the writer thread, and the chunk it writes
    tty,      \* chunks in the PTY
    reader,   \* the reader thread
    sender,   \* the senders' steps, and the part each hands over next
    sending,  \* who holds the send lock
    pastes,   \* bracketed paste, as the log's scanner has seen it
    program,  \* [lives, reads]
    helper,   \* whether a background process has the slave side open
    turns,    \* of the bound
    got       \* ghost: what the program has read

inputVars == <<queue, tx, writer, tty, reader, sender, sending, pastes, program,
               helper, turns, got>>
programVars == <<program, helper, turns>>

InputInit ==
    /\ queue = <<>> /\ tx = TRUE /\ tty = <<>> /\ got = <<>>
    /\ writer = [at |-> "recv", chunk |-> <<>>]
    /\ reader = "reads"
    /\ sender = [s \in Senders |-> [at |-> "idle", part |-> "none"]]
    /\ sending = {}
    /\ pastes \in BOOLEAN /\ helper \in BOOLEAN
    /\ program = [lives |-> TRUE, reads |-> TRUE] /\ turns = 0

Chunk(by, part) == [by |-> by, part |-> part]
Room == Len(queue) < InputQueue
Ended == reader = "finished"
\* the host keeps its own slave until `finish`
SlaveOpen == program.lives \/ helper \/ ~Ended

(***************************************************************************)
(* A sender.                                                               *)
(***************************************************************************)
At(s, at, part) == sender' = [sender EXCEPT ![s] = [at |-> at, part |-> part]]
Release(s) == sending' = sending \ {s}

\* raw input goes straight in; everything else takes its turn
Ask(s) ==
    /\ sender[s].at = "idle"
    /\ IF SendKind[s] = "raw" THEN At(s, "clones", "raw") ELSE At(s, "waits", "none")
    /\ UNCHANGED <<queue, tx, writer, tty, reader, sending, pastes, programVars, got>>

\* send_text and OP_SEND_KEYS, once the lock is theirs
LockFreeFaulty == TRUE                       \* it is not waited for
LockFree == sending = {}
Refused(s) == Ended \/ (SendKind[s] = "lines" /\ ~pastes)
FirstPart(s) ==
    CASE SendKind[s] = "keys" -> "keys"
      [] pastes -> "paste"
      [] OTHER -> "typed"
Take(s) ==
    /\ sender[s].at = "waits" /\ LockFree
    /\ IF Refused(s)
         THEN At(s, "done", "none") /\ UNCHANGED sending
         ELSE At(s, "clones", FirstPart(s)) /\ sending' = sending \cup {s}
    /\ UNCHANGED <<queue, tx, writer, tty, reader, pastes, programVars, got>>

\* after a part: the wait before Enter, Enter, or the end of the call
After(s) ==
    CASE sender[s].part = "paste" -> At(s, "pauses", "enter") /\ UNCHANGED sending
      [] sender[s].part = "typed" -> At(s, "clones", "enter") /\ UNCHANGED sending
      [] OTHER -> At(s, "done", "none") /\ Release(s)

\* Session::input: the channel's end is cloned under its lock, used after it
Clone(s) ==
    /\ sender[s].at = "clones"
    /\ IF tx THEN At(s, "sends", sender[s].part) /\ UNCHANGED sending ELSE After(s)
    /\ UNCHANGED <<queue, tx, writer, tty, reader, pastes, programVars, got>>
Put(s) ==
    /\ sender[s].at = "sends" /\ Room
    /\ queue' = Append(queue, Chunk(s, sender[s].part))
    /\ After(s)
    /\ UNCHANGED <<tx, writer, tty, reader, pastes, programVars, got>>

PauseEnds(s) ==
    /\ sender[s].at = "pauses"
    /\ IF Ended
         THEN At(s, "done", "none") /\ Release(s)
         ELSE At(s, "clones", "enter") /\ UNCHANGED sending
    /\ UNCHANGED <<queue, tx, writer, tty, reader, pastes, programVars, got>>

(***************************************************************************)
(* The writer: write_input.                                                *)
(***************************************************************************)
Writes(at, chunk) == writer' = [at |-> at, chunk |-> chunk]
Closed == ~tx /\ \A s \in Senders : sender[s].at # "sends"

Recv ==
    /\ writer.at \in {"recv", "drains"} /\ queue # <<>>
    /\ queue' = Tail(queue)
    /\ IF writer.at = "recv" THEN Writes("writes", <<Head(queue)>>) ELSE UNCHANGED writer
    /\ UNCHANGED <<tx, tty, reader, sender, sending, pastes, programVars, got>>

WriterGoes ==
    /\ writer.at \in {"recv", "drains"} /\ queue = <<>> /\ Closed
    /\ Writes("gone", <<>>)
    /\ UNCHANGED <<queue, tx, tty, reader, sender, sending, pastes, programVars, got>>

Write ==
    /\ writer.at = "writes" /\ SlaveOpen /\ Len(tty) < PtyRoom
    /\ tty' = tty \o writer.chunk
    /\ Writes("recv", <<>>)
    /\ UNCHANGED <<queue, tx, reader, sender, sending, pastes, programVars, got>>

WriteFails ==
    /\ writer.at = "writes" /\ ~SlaveOpen
    /\ Writes("drains", <<>>)
    /\ UNCHANGED <<queue, tx, tty, reader, sender, sending, pastes, programVars, got>>

(***************************************************************************)
(* The reader: append_output's answers, and the end of the session.        *)
(***************************************************************************)
Hear ==
    /\ reader = "reads" /\ turns < MaxTurns
    /\ turns' = turns + 1
    /\ \/ reader' = "answers" /\ UNCHANGED pastes
       \/ pastes' = ~pastes /\ UNCHANGED reader
    /\ UNCHANGED <<queue, tx, writer, tty, sender, sending, program, helper, got>>

\* try_send: an answer that finds the queue full is dropped
AnswerFaulty ==
    /\ reader = "answers" /\ Room
    /\ queue' = Append(queue, Chunk("reader", "answer"))
    /\ reader' = "reads"
    /\ UNCHANGED <<tx, writer, tty, sender, sending, pastes, programVars, got>>
Answer ==
    /\ reader = "answers"
    /\ queue' = IF Room THEN Append(queue, Chunk("reader", "answer")) ELSE queue
    /\ reader' = "reads"
    /\ UNCHANGED <<tx, writer, tty, sender, sending, pastes, programVars, got>>

Finish ==
    /\ reader = "reads" /\ ~program.lives
    /\ reader' = "finished" /\ tx' = FALSE
    /\ UNCHANGED <<queue, writer, tty, sender, sending, pastes, programVars, got>>

(***************************************************************************)
(* The program and what it leaves behind.                                  *)
(***************************************************************************)
ProgramReads ==
    /\ program.lives /\ program.reads /\ tty # <<>>
    /\ got' = Append(got, Head(tty)) /\ tty' = Tail(tty)
    /\ UNCHANGED <<queue, tx, writer, reader, sender, sending, pastes, programVars>>
ProgramTurns ==
    /\ program.lives /\ turns < MaxTurns /\ turns' = turns + 1
    /\ program' = [program EXCEPT !.reads = ~@]
    /\ UNCHANGED <<queue, tx, writer, tty, reader, sender, sending, pastes, helper, got>>
ProgramEnds ==
    /\ program.lives /\ program' = [lives |-> FALSE, reads |-> FALSE]
    /\ UNCHANGED <<queue, tx, writer, tty, reader, sender, sending, pastes, helper, turns, got>>
HelperEnds ==
    /\ helper /\ helper' = FALSE
    /\ UNCHANGED <<queue, tx, writer, tty, reader, sender, sending, pastes, program, turns, got>>

Sends(s) == Take(s) \/ Clone(s) \/ Put(s) \/ PauseEnds(s)
WriterSteps == Recv \/ WriterGoes \/ Write \/ WriteFails
ReaderSteps == Answer \/ Finish

InputNext ==
    \/ \E s \in Senders : Ask(s) \/ Sends(s)
    \/ WriterSteps \/ ReaderSteps \/ Hear
    \/ ProgramReads \/ ProgramTurns \/ ProgramEnds \/ HelperEnds

\* threads run; a program that reads goes on reading
InputFairness ==
    /\ \A s \in Senders : WF_inputVars(Sends(s))
    /\ WF_inputVars(WriterSteps) /\ WF_inputVars(ReaderSteps)
    /\ WF_inputVars(ProgramReads)

InputSpec == InputInit /\ [][InputNext]_inputVars /\ InputFairness
=============================================================================
