------------------------- MODULE SessionThreadsProofs -------------------------
(***************************************************************************)
(* Proofs of what the threads of a session do about its end and about its  *)
(* size.                                                                   *)
(***************************************************************************)
EXTENDS SessionEndProperties, SessionTerminalProperties, FiniteSetTheorems, SequenceTheorems, TLAPS

(***************************************************************************)
(* Proof that the exit of a session comes after all of its output, for any *)
(* number of callers that kill it, a PTY and a read of any size, and       *)
(* whatever a helper writes meanwhile.                                     *)
(*                                                                         *)
(* The exit is far from the output it follows: the waiter reaps, raises a  *)
(* flag and writes a byte; the reader takes the flag before it looks at    *)
(* the PTY, and may be at its deadline instead.  The invariant follows     *)
(* that chain backwards, and counts the child's chunks: those in the log   *)
(* and those still in the PTY are those it wrote.                          *)
(***************************************************************************)

Writers == {"child", "helper"}

\* Each sign of the end is given after the one before it.
SignsInOrder ==
    /\ waiter # "wait" => child = "reaped"
    /\ reaped => waiter # "wait"
    /\ latched => reaped
    /\ exit => reader = "done"

\* Nothing the child wrote is lost, and none of it is left in the PTY when
\* the reader stops reading.
AllCounted == logged + FromChild(pty) = wrote
Drained == reader \in {"join", "guard", "exit", "done"} => latched /\ FromChild(pty) = 0

EndInv == TypeOK /\ SignsInOrder /\ AllCounted /\ Drained

(***************************************************************************)
(* The child's chunks.                                                     *)
(***************************************************************************)
\* They are finitely many.
LEMMA ChunksCounted ==
    ASSUME NEW s \in Seq(Writers)
    PROVE  /\ IsFiniteSet({i \in 1..Len(s) : s[i] = "child"})
           /\ FromChild(s) \in Nat
  <1>1. IsFiniteSet(1..Len(s))
    BY FS_Interval
  <1>2. IsFiniteSet({i \in 1..Len(s) : s[i] = "child"})
    BY <1>1, FS_Subset
  <1> QED BY <1>2, FS_CardinalityType DEF FromChild

\* One chunk more of the output is one of the child's, or none.
LEMMA ChunkAdded ==
    ASSUME NEW s \in Seq(Writers), NEW who \in Writers
    PROVE  FromChild(Append(s, who)) = FromChild(s) + (IF who = "child" THEN 1 ELSE 0)
  <1> DEFINE n == Len(s)
             t == Append(s, who)
             old == {i \in 1..Len(s) : s[i] = "child"}
             new == {i \in 1..Len(t) : t[i] = "child"}
  <1>1. n \in Nat /\ Len(t) = n + 1 /\ t[n + 1] = who /\ \A i \in 1..n : t[i] = s[i]
    BY AppendProperties
  <1>2. IsFiniteSet(old) /\ FromChild(s) = Cardinality(old) /\ Cardinality(old) \in Nat
    BY ChunksCounted DEF FromChild
  <1>3. FromChild(t) = Cardinality(new)
    BY DEF FromChild
  <1>4. old = {i \in 1..n : s[i] = "child"} /\ new = {i \in 1..n + 1 : t[i] = "child"}
    BY <1>1
  <1> HIDE DEF n, t, old, new
  <1>5. \A i : i \in 1..n + 1 <=> i \in 1..n \/ i = n + 1
    BY <1>1
  <1>6. n + 1 \notin 1..n
    BY <1>1
  <1>7. CASE who = "child"
    <2>1. new = old \cup {n + 1} /\ n + 1 \notin old
      BY <1>1, <1>4, <1>5, <1>6, <1>7
    <2>2. Cardinality(new) = Cardinality(old) + 1
      BY <1>2, <2>1, FS_AddElement
    <2> QED BY <1>2, <1>3, <1>7, <2>2 DEF t
  <1>8. CASE who # "child"
    <2>1. new = old
      BY <1>1, <1>4, <1>5, <1>8
    <2> QED BY <1>2, <1>3, <1>8, <2>1 DEF t
  <1> QED BY <1>7, <1>8

\* An empty PTY holds none.
LEMMA NoChunks == FromChild(<<>>) = 0
  <1>1. {i \in 1..Len(<<>>) : <<>>[i] = "child"} = {}
    OBVIOUS
  <1> QED BY <1>1, FS_EmptySet DEF FromChild

\* A read takes all that a PTY holds back.
LEMMA TakesAll ==
    ASSUME TypeOK
    PROVE  SubSeq(pty, 1, Taken) = pty /\ SubSeq(pty, Taken + 1, Len(pty)) = <<>>
  <1>1. pty \in Seq(Writers) /\ Len(pty) \in Nat /\ Len(pty) <= PtyRoom
    BY DEF TypeOK, Writers
  <1>2. Taken = Len(pty)
    BY <1>1, SessionEndAssumption DEF Taken
  <1>3. SubSeq(pty, 1, Len(pty)) = pty
    BY <1>1
  <1>4. SubSeq(pty, Len(pty) + 1, Len(pty)) = <<>>
    BY <1>1, SubSeqEmpty
  <1> QED BY <1>2, <1>3, <1>4

(***************************************************************************)
(* The steps.                                                              *)
(***************************************************************************)
\* A child that was reaped stays so, and one that was not does not write
\* again once it is.
LEMMA ProcessesType ==
    ASSUME TypeOK, SigKill \/ SigTerm \/ UNCHANGED processes
    PROVE  /\ child' \in {"alive", "zombie", "reaped"} /\ helper' \in BOOLEAN
           /\ stranger' \in BOOLEAN
           /\ child = "reaped" => child' = "reaped"
  BY DEF TypeOK, SigKill, SigTerm, processes

\* Processes, callers and the watcher send signals; what the reader has read
\* and what the waiter has said stays.
LEMMA SignalsStep ==
    ASSUME EndInv,
           UNCHANGED <<pty, wrote, threads>>,
           SigKill \/ SigTerm \/ UNCHANGED processes,
           host' \in {"up", "dying", "gone"},
           kill' \in [Callers -> {"idle", "leader", "hup", "term", "killer", "granted", "done"}],
           killer' \in [Callers -> BOOLEAN], late' \in BOOLEAN,
           watcher' \in {"read", "check", "hup", "term", "kill", "done"},
           rechecks' \in 0..Rechecks
    PROVE  EndInv'
  <1>1. /\ child' \in {"alive", "zombie", "reaped"} /\ helper' \in BOOLEAN /\ stranger' \in BOOLEAN
        /\ child = "reaped" => child' = "reaped"
    BY ProcessesType DEF EndInv
  <1>2. UNCHANGED <<pty, wrote, reaped, wake, waiter, reader, latched, overdue, logged, guard, exit>>
    BY DEF threads
  <1>3. TypeOK'
    BY <1>1, <1>2 DEF EndInv, TypeOK
  <1>4. SignsInOrder'
    BY <1>1, <1>2 DEF EndInv, SignsInOrder
  <1>5. AllCounted' /\ Drained'
    BY <1>2 DEF EndInv, AllCounted, Drained
  <1> QED BY <1>3, <1>4, <1>5 DEF EndInv

\* Output is written: by the child only while it lives.
LEMMA WritesStep ==
    ASSUME EndInv, ChildWrites \/ HelperWrites
    PROVE  EndInv'
  <1> DEFINE who == IF child = "alive" /\ wrote' # wrote THEN "child" ELSE "helper"
  <1>1. /\ pty \in Seq(Writers) /\ Len(pty) \in Nat /\ wrote \in Nat /\ logged \in Nat
        /\ wrote <= MaxOutput /\ logged <= wrote
    BY SessionEndAssumption DEF EndInv, TypeOK, Writers
  <1>0. FromChild(pty) \in Nat
    BY <1>1, ChunksCounted
  <1>2. /\ UNCHANGED <<child, helper, stranger, host, reaped, wake, waiter, reader, latched, overdue,
                       logged, guard, exit, kill, killer, late, watcher, rechecks>>
        /\ Len(pty) < PtyRoom
    BY DEF ChildWrites, HelperWrites, processes, threads, kills, watching
  <1>3. \/ pty' = Append(pty, "child") /\ wrote' = wrote + 1 /\ child = "alive" /\ wrote < MaxOutput
        \/ pty' = Append(pty, "helper") /\ wrote' = wrote
    BY DEF ChildWrites, HelperWrites
  <1>4. pty' \in Seq(Writers) /\ Len(pty') = Len(pty) + 1
    BY <1>1, <1>3, AppendProperties DEF Writers
  <1>5. Len(pty') <= PtyRoom
    BY <1>1, <1>2, <1>4, SessionEndAssumption
  <1>6. wrote' \in 0..MaxOutput /\ logged \in 0..wrote'
    BY <1>1, <1>3, SessionEndAssumption
  <1>7. TypeOK'
    BY <1>2, <1>4, <1>5, <1>6 DEF EndInv, TypeOK, Writers
  <1>8. SignsInOrder'
    BY <1>2 DEF EndInv, SignsInOrder
  <1>9. FromChild(pty') = FromChild(pty) + (wrote' - wrote) /\ FromChild(pty) \in Nat
    <2>1. CASE pty' = Append(pty, "child") /\ wrote' = wrote + 1
      <3>1. FromChild(pty') = FromChild(pty) + 1
        BY <1>1, <2>1, ChunkAdded DEF Writers
      <3> QED BY <1>0, <1>1, <2>1, <3>1
    <2>2. CASE pty' = Append(pty, "helper") /\ wrote' = wrote
      <3>1. FromChild(pty') = FromChild(pty) + 0
        BY <1>1, <2>2, ChunkAdded DEF Writers
      <3> QED BY <1>0, <1>1, <2>2, <3>1
    <2> QED BY <1>3, <2>1, <2>2
  <1>10. AllCounted'
    <2>1. logged + FromChild(pty) = wrote /\ logged' = logged /\ wrote' \in Nat
      BY <1>1, <1>2, <1>3 DEF EndInv, AllCounted
    <2> QED BY <1>1, <1>9, <2>1 DEF AllCounted
  <1>11. Drained'
    <2>1. ASSUME reader \in {"join", "guard", "exit", "done"} PROVE wrote' = wrote
      <3>1. child = "reaped"
        BY <2>1 DEF EndInv, Drained, SignsInOrder
      <3> QED BY <3>1, <1>3
    <2>2. wrote' = wrote => FromChild(pty') = FromChild(pty)
      BY <1>1, <1>9
    <2> QED BY <1>2, <2>1, <2>2 DEF EndInv, Drained
  <1> QED BY <1>7, <1>8, <1>10, <1>11 DEF EndInv

\* The waiter goes from sign to sign.
LEMMA WaiterStep ==
    ASSUME EndInv, Waiter
    PROVE  EndInv'
  <1>1. /\ UNCHANGED <<helper, stranger, pty, wrote, host, reader, latched, overdue, logged, guard,
                       exit, kill, killer, late, watcher, rechecks>>
    BY DEF Waiter, WaiterReaps, WaiterTells, processes, kills, watching
  <1>2. /\ child' \in {"alive", "zombie", "reaped"} /\ reaped' \in BOOLEAN /\ wake' \in BOOLEAN
        /\ waiter' \in {"wait", "flag", "wake", "done"}
        /\ waiter' # "wait" => child' = "reaped"
        /\ reaped' => waiter' # "wait"
        /\ reaped => reaped'
    BY DEF Waiter, WaiterReaps, WaiterTells, processes, EndInv, TypeOK, SignsInOrder
  <1>3. TypeOK'
    BY <1>1, <1>2 DEF EndInv, TypeOK
  <1>4. SignsInOrder'
    BY <1>1, <1>2 DEF EndInv, SignsInOrder
  <1>5. AllCounted' /\ Drained'
    BY <1>1 DEF EndInv, AllCounted, Drained
  <1> QED BY <1>3, <1>4, <1>5 DEF EndInv

\* The reader polls, reads, and says that the session ended.
LEMMA ReaderStep ==
    ASSUME EndInv, Reader \/ Deadline
    PROVE  EndInv'
  <1>0. UNCHANGED <<child, helper, stranger, wrote, host, reaped, wake, waiter, kill, killer, late,
                    watcher, rechecks>>
    BY DEF Reader, PollBegins, PollEnds, Read, Finish, Deadline, ReaderUnchanged, processes, kills,
           watching
  <1>1. /\ pty \in Seq(Writers) /\ wrote \in Nat /\ logged \in Nat /\ FromChild(pty) \in Nat
        /\ logged + FromChild(pty) = wrote
    <2>1. pty \in Seq(Writers) /\ wrote \in Nat /\ logged \in Nat /\ logged + FromChild(pty) = wrote
      BY SessionEndAssumption DEF EndInv, TypeOK, Writers, AllCounted
    <2> QED BY <2>1, ChunksCounted
  <1>2. CASE PollBegins \/ Deadline
    <2>1. /\ UNCHANGED <<pty, logged, guard, exit>> /\ latched' \in BOOLEAN /\ overdue' \in BOOLEAN
          /\ reader' = reader \/ (reader = "top" /\ reader' = "poll")
          /\ latched => latched'
          /\ latched' => reaped
      BY <1>2 DEF PollBegins, Deadline, Latch, EndInv, TypeOK, SignsInOrder
    <2>2. TypeOK'
      BY <1>0, <2>1 DEF EndInv, TypeOK
    <2>3. SignsInOrder' /\ AllCounted' /\ Drained'
      BY <1>0, <2>1 DEF EndInv, SignsInOrder, AllCounted, Drained
    <2> QED BY <2>2, <2>3 DEF EndInv
  <1>3. CASE PollEnds
    <2>1. /\ UNCHANGED <<pty, latched, overdue, logged, guard, exit>> /\ reader = "poll"
          /\ \/ reader' \in {"read", "top"}
             \/ reader' = "join" /\ latched /\ pty = <<>>
      BY <1>3 DEF PollEnds, Quiet
    <2>2. TypeOK'
      BY <1>0, <2>1 DEF EndInv, TypeOK
    <2>3. SignsInOrder' /\ AllCounted'
      BY <1>0, <2>1 DEF EndInv, SignsInOrder, AllCounted
    <2>4. Drained'
      BY <2>1, NoChunks DEF Drained
    <2> QED BY <2>2, <2>3, <2>4 DEF EndInv
  <1>4. CASE Read
    <2>1. /\ UNCHANGED <<latched, overdue, guard, exit>> /\ reader = "read"
          /\ pty' = <<>> /\ logged' = logged + FromChild(pty)
          /\ reader' = "top" \/ (reader' = "join" /\ latched)
      BY <1>4, TakesAll DEF Read, Overdue, EndInv
    <2>2. logged' = wrote /\ wrote' = wrote /\ logged' \in 0..wrote'
      BY <1>0, <1>1, <2>1
    <2>3. <<>> \in Seq({"child", "helper"}) /\ Len(<<>>) <= PtyRoom
      BY SessionEndAssumption
    <2>4. TypeOK'
      BY <1>0, <2>1, <2>2, <2>3 DEF EndInv, TypeOK
    <2>5. SignsInOrder'
      BY <1>0, <2>1 DEF EndInv, SignsInOrder
    <2>6. AllCounted' /\ Drained'
      BY <1>1, <2>1, <2>2, NoChunks DEF AllCounted, Drained
    <2> QED BY <2>4, <2>5, <2>6 DEF EndInv
  <1>5. CASE Finish
    <2>1. /\ UNCHANGED <<pty, latched, overdue, logged>> /\ guard' \in BOOLEAN /\ exit' \in BOOLEAN
          /\ reader \in {"join", "guard", "exit"} /\ reader' \in {"guard", "exit", "done"}
          /\ exit' => reader' = "done"
      <3>1. exit \in BOOLEAN /\ guard \in BOOLEAN /\ (exit => reader = "done")
        BY DEF EndInv, TypeOK, SignsInOrder
      <3>2. CASE reader = "join" /\ reader' = "guard" /\ UNCHANGED <<guard, exit>>
        BY <1>5, <3>1, <3>2 DEF Finish
      <3>3. CASE reader = "guard" /\ guard' = FALSE /\ reader' = "exit" /\ exit' = exit
        BY <1>5, <3>1, <3>3 DEF Finish
      <3>4. CASE reader = "exit" /\ exit' = TRUE /\ reader' = "done" /\ guard' = guard
        BY <1>5, <3>1, <3>4 DEF Finish
      <3> QED BY <1>5, <3>2, <3>3, <3>4 DEF Finish
    <2>2. TypeOK'
      BY <1>0, <2>1 DEF EndInv, TypeOK
    <2>3. SignsInOrder' /\ AllCounted' /\ Drained'
      BY <1>0, <2>1 DEF EndInv, SignsInOrder, AllCounted, Drained
    <2> QED BY <2>2, <2>3 DEF EndInv
  <1> QED BY <1>2, <1>3, <1>4, <1>5 DEF Reader

\* Every step keeps the invariant.
LEMMA EndNext ==
    ASSUME EndInv, [Next]_vars
    PROVE  EndInv'
  <1> USE DEF processes, threads, kills, watching
  <1>0. TypeOK
    BY DEF EndInv
  <1>1. CASE ChildWrites \/ HelperWrites
    BY <1>1, WritesStep
  <1>2. CASE Waiter
    BY <1>2, WaiterStep
  <1>3. CASE Reader \/ Deadline
    BY <1>3, ReaderStep
  <1>4. CASE ChildExits \/ HelperExits \/ PidReused \/ InitReaps
    <2>1. /\ UNCHANGED <<pty, wrote, host, threads, kills, watching>>
          /\ child' \in {"alive", "zombie", "reaped"} /\ helper' \in BOOLEAN /\ stranger' \in BOOLEAN
          /\ child = "reaped" => child' = "reaped"
      BY <1>0, <1>4 DEF ChildExits, HelperExits, PidReused, InitReaps, TypeOK
    <2>2. TypeOK'
      BY <1>0, <2>1 DEF TypeOK
    <2>3. SignsInOrder' /\ AllCounted' /\ Drained'
      BY <2>1 DEF EndInv, SignsInOrder, AllCounted, Drained
    <2> QED BY <2>2, <2>3 DEF EndInv
  <1>5. ASSUME NEW c \in Callers, KillBegins(c) \/ Killing(c) \/ KillerKills(c)
        PROVE  EndInv'
    <2>1. UNCHANGED <<pty, wrote, host, threads, watching>>
      BY <1>5 DEF KillBegins, Killing, KillLooks, KillAsks, KillGrants, KillerKills
    <2>2. SigKill \/ SigTerm \/ UNCHANGED processes
      BY <1>5 DEF KillBegins, Killing, KillLooks, KillAsks, KillGrants, KillerKills
    <2>3. kill' \in [Callers -> {"idle", "leader", "hup", "term", "killer", "granted", "done"}]
      BY <1>0, <1>5 DEF KillBegins, Killing, KillLooks, KillAsks, KillGrants, KillerKills, Goes, TypeOK
    <2>4. killer' \in [Callers -> BOOLEAN] /\ late' \in BOOLEAN
      BY <1>0, <1>5 DEF KillBegins, Killing, KillLooks, KillAsks, KillGrants, KillerKills, TypeOK
    <2> QED BY <1>0, <2>1, <2>2, <2>3, <2>4, SignalsStep DEF TypeOK
  <1>6. CASE HostDies \/ HostIsGone
    <2>1. UNCHANGED <<processes, pty, wrote, threads, kills, watching>> /\ host' \in {"dying", "gone"}
      BY <1>6 DEF HostDies, HostIsGone
    <2> QED BY <1>0, <2>1, SignalsStep DEF TypeOK
  <1>7. CASE Watcher
    <2>1. UNCHANGED <<pty, wrote, host, threads, kills>>
      BY <1>7 DEF Watcher, PipeCloses, Recheck, WatcherAsks, WatcherKills, Unwatched
    <2>2. SigKill \/ SigTerm \/ UNCHANGED processes
      BY <1>7 DEF Watcher, PipeCloses, Recheck, WatcherAsks, WatcherKills
    <2>3. /\ watcher' \in {"read", "check", "hup", "term", "kill", "done"}
          /\ rechecks' \in 0..Rechecks
      BY <1>0, <1>7, SessionEndAssumption
         DEF Watcher, PipeCloses, Recheck, WatcherAsks, WatcherKills, TypeOK
    <2> QED BY <1>0, <2>1, <2>2, <2>3, SignalsStep DEF TypeOK
  <1>8. CASE UNCHANGED vars
    BY <1>0, <1>8, SignalsStep DEF vars, TypeOK
  <1> QED BY <1>1, <1>2, <1>3, <1>4, <1>5, <1>6, <1>7, <1>8 DEF Next

(***************************************************************************)
(* The theorems.                                                           *)
(***************************************************************************)
\* The signs of the end come in order and no chunk of the child's is lost or
\* left behind.
THEOREM EndInvariant == Spec => []EndInv
  <1>1. Init => EndInv
    <2> SUFFICES ASSUME Init PROVE EndInv
      OBVIOUS
    <2>1. /\ pty = <<>> /\ wrote = 0 /\ logged = 0 /\ reader = "top" /\ waiter = "wait"
          /\ reaped = FALSE /\ latched = FALSE /\ exit = FALSE
      BY DEF Init
    <2>2. TypeOK
      <3>1. <<>> \in Seq({"child", "helper"}) /\ Len(<<>>) <= PtyRoom
            /\ 0 \in 0..MaxOutput /\ 0 \in 0..0 /\ Rechecks \in 0..Rechecks
        BY SessionEndAssumption
      <3> QED BY <3>1 DEF Init, TypeOK
    <2>3. SignsInOrder /\ AllCounted /\ Drained
      BY <2>1, NoChunks DEF SignsInOrder, AllCounted, Drained
    <2> QED BY <2>2, <2>3 DEF EndInv
  <1>2. EndInv /\ [Next]_vars => EndInv'
    BY EndNext
  <1> QED BY <1>1, <1>2, PTL DEF Spec

\* When the exit is recorded (finish), the child was reaped and everything it
\* wrote is in the log.
THEOREM ExitAfterOutputAlways == Spec => []ExitAfterOutput
  <1>1. EndInv => ExitAfterOutput
    BY DEF EndInv, SignsInOrder, AllCounted, Drained, ExitAfterOutput, TypeOK
  <1> QED BY <1>1, EndInvariant, PTL

(***************************************************************************)
(* Proofs of what must hold of a session's terminal, for any number of     *)
(* clients, requests and chunks of output, and any sizes.                  *)
(*                                                                         *)
(* What is said of the PTY, the engine and the log holds between calls.    *)
(* The invariant says what holds inside of one as well: who has the locks, *)
(* that the engine is ahead of the log by what the holder of its lock is   *)
(* about to log, and that the holder of the terminal has given the PTY the *)
(* size of its call.                                                       *)
(***************************************************************************)

Event == Size \cup {Chunk}
Resizing == {"engine", "log", "leave"}

\* A lock is held for as long as the call needs it, and a thread that is in a
\* call has one.
LocksHeld ==
    /\ \A t \in Threads : terminal = t <=> at[t] \in Resizing
    /\ \A t \in Threads : engineLock = t <=> at[t] = "log"
    /\ engineLock = ReaderThread <=> readerAt = "log"
    /\ \A t \in Threads : at[t] # "idle" => job[t].op # "none"

\* The engine has been given what the log has, and what is about to be logged.
AboutToLog == IF engineLock = ReaderThread THEN Chunk ELSE ptySize
EngineAhead ==
    engine => engineSaw = IF engineLock = Nobody THEN logSaw ELSE Append(logSaw, AboutToLog)

\* The last size of the log is the PTY's, but for the one call that has not
\* logged it yet.
HasLast(s) == SizesLogged(s) = {} \/ \E i \in SizesLogged(s) : \A j \in SizesLogged(s) : j <= i
LastLogged ==
    /\ HasLast(logSaw)
    /\ (\A t \in Threads : at[t] \notin {"engine", "log"}) => ptySize = LastSize(logSaw)

\* A resize leaves the size it was asked for and the end of a redraw the size
\* any resize was asked for last.
GivenSize ==
    \A t \in Threads : at[t] \in Resizing =>
        /\ job[t].op = "resize" => ptySize = job[t].size
        /\ job[t].op = "restore" => ptySize = asked

TerminalInv ==
    TerminalTypeOK /\ LocksHeld /\ EngineAhead /\ LastLogged /\ GivenSize /\ BackToAsked

(***************************************************************************)
(* Sizes in the log.                                                       *)
(***************************************************************************)
\* A size is none of the output.
LEMMA SizesApart == \A p \in Size : p # Chunk
  BY DEF Size, Chunk

\* Output logged changes nothing about the last size,
LEMMA LastChunk ==
    ASSUME NEW s \in Seq(Event), HasLast(s)
    PROVE  HasLast(Append(s, Chunk)) /\ LastSize(Append(s, Chunk)) = LastSize(s)
  <1> DEFINE t == Append(s, Chunk)
             n == Len(s)
             S == SizesLogged(s)
             last == CHOOSE i \in S : \A j \in S : j <= i
  <1>1. n \in Nat /\ Len(t) = n + 1 /\ t[n + 1] = Chunk /\ \A i \in 1..n : t[i] = s[i]
    BY AppendProperties DEF Event
  <1>2. SizesLogged(t) = {i \in 1..n + 1 : t[i] # Chunk} /\ S = {i \in 1..n : s[i] # Chunk}
    BY <1>1 DEF SizesLogged
  <1>3. \A i : i \in 1..n + 1 <=> i \in 1..n \/ i = n + 1
    BY <1>1
  <1>4. LastSize(s) = IF S = {} THEN FirstSize ELSE s[last]
    BY DEF LastSize
  <1> HIDE DEF n, S, t, last
  <1>5. SizesLogged(t) = S
    BY <1>1, <1>2, <1>3
  <1>6. LastSize(t) = IF S = {} THEN FirstSize ELSE t[last]
    BY <1>5 DEF LastSize, last
  <1>7. HasLast(t)
    BY <1>5 DEF HasLast, S
  <1>8. S # {} => last \in S
    BY DEF HasLast, S, last
  <1>9. S # {} => t[last] = s[last]
    <2> SUFFICES ASSUME S # {} PROVE t[last] = s[last]
      OBVIOUS
    <2>1. last \in S
      BY <1>8
    <2>2. last \in 1..n
      BY <1>2, <2>1
    <2> QED BY <1>1, <2>2
  <1>10. LastSize(t) = LastSize(s)
    <2>1. CASE S = {}
      BY <1>4, <1>6, <2>1
    <2>2. CASE S # {}
      BY <1>4, <1>6, <1>9, <2>2
    <2> QED BY <2>1, <2>2
  <1> QED BY <1>7, <1>10 DEF t

\* and a size logged is the last.
LEMMA LastOfSize ==
    ASSUME NEW s \in Seq(Event), NEW p \in Size
    PROVE  HasLast(Append(s, p)) /\ LastSize(Append(s, p)) = p
  <1> DEFINE t == Append(s, p)
             n == Len(s)
             S == SizesLogged(t)
             last == CHOOSE i \in S : \A j \in S : j <= i
  <1>1. n \in Nat /\ Len(t) = n + 1 /\ t[n + 1] = p
    BY AppendProperties DEF Event
  <1>2. S = {i \in 1..n + 1 : t[i] # Chunk}
    BY <1>1 DEF SizesLogged
  <1>3. LastSize(t) = IF S = {} THEN FirstSize ELSE t[last]
    BY DEF LastSize
  <1> HIDE DEF n, S, t
  <1>4. n + 1 \in S /\ \A j \in S : j <= n + 1
    BY <1>1, <1>2, SizesApart
  <1>5. last \in S /\ \A j \in S : j <= last
    BY <1>4
  <1> HIDE DEF last
  <1>6. last = n + 1
    <2>1. last \in 1..n + 1 /\ n + 1 <= last
      BY <1>2, <1>4, <1>5
    <2> QED BY <1>1, <2>1
  <1>7. HasLast(t)
    BY <1>4 DEF HasLast, S
  <1> QED BY <1>1, <1>3, <1>4, <1>6, <1>7 DEF t

(***************************************************************************)
(* The steps.                                                              *)
(***************************************************************************)
\* Threads are neither the reader nor nobody.
LEMMA Actors ==
    /\ \A t \in Threads : t # Nobody /\ t # ReaderThread
    /\ Redrawer \in Threads /\ ReaderThread # Nobody /\ \A c \in Clients : c \in Threads
  BY SessionTerminalAssumption DEF Threads

\* Whoever is given a size or output, and fails or not, has seen it.
LEMMA Advanced ==
    ASSUME TerminalTypeOK, NEW e \in Event, Advance(e)
    PROVE  /\ engine' \in BOOLEAN /\ engineSaw' \in Seq(Event)
           /\ engine' => engine /\ engineSaw' = Append(engineSaw, e)
  <1>1. engineSaw \in Seq(Event) /\ engine \in BOOLEAN
    BY DEF TerminalTypeOK, Event
  <1>2. Append(engineSaw, e) \in Seq(Event)
    BY <1>1, AppendProperties
  <1> QED BY <1>1, <1>2 DEF Advance

\* A client's request is taken.
LEMMA RequestStep ==
    ASSUME TerminalInv, NEW c \in Clients, Serve(c)
    PROVE  TerminalInv'
  <1>1. PICK op \in {"resize", "redraw"}, z \in Sizes : Request(c, op, z)
    <2>1. FirstSize \in Sizes
      BY SessionTerminalAssumption DEF FirstSize, Sizes
    <2> QED BY <2>1 DEF Serve
  <1>2. /\ at[c] = "idle" /\ calls < MaxCalls /\ calls' = calls + 1
        /\ job' = [job EXCEPT ![c] = [op |-> op, size |-> z]]
        /\ at' = [at EXCEPT ![c] = "lock"]
        /\ UNCHANGED <<terminal, engineLock, master, asked, redrawing, engine, ptySize, engineSaw,
                       logSaw, unseen, readerAt, ended, output>>
    BY <1>1 DEF Request, Moves, locks, fields, told
  <1>3. /\ TerminalTypeOK /\ c \in Threads
        /\ at \in [Threads -> {"idle", "lock", "engine", "log", "leave"}]
        /\ job \in [Threads -> [op: {"none", "resize", "redraw", "restore"}, size: Sizes]]
    BY Actors DEF TerminalInv, TerminalTypeOK
  <1>4. /\ at'[c] = "lock" /\ \A t \in Threads : t # c => at'[t] = at[t] /\ job'[t] = job[t]
        /\ job'[c].op = op
    BY <1>2, <1>3
  <1>5. TerminalTypeOK'
    <2>1. calls' \in 0..MaxCalls
      BY <1>2, <1>3, SessionTerminalAssumption DEF TerminalTypeOK
    <2>2. [op |-> op, size |-> z] \in [op: {"none", "resize", "redraw", "restore"}, size: Sizes]
      OBVIOUS
    <2>3. /\ at' \in [Threads -> {"idle", "lock", "engine", "log", "leave"}]
          /\ job' \in [Threads -> [op: {"none", "resize", "redraw", "restore"}, size: Sizes]]
      BY <1>2, <1>3, <2>2
    <2> QED BY <1>2, <1>3, <2>1, <2>3 DEF TerminalTypeOK
  <1>6. LocksHeld'
    BY <1>2, <1>3, <1>4 DEF TerminalInv, LocksHeld, Resizing
  <1>7. EngineAhead' /\ BackToAsked'
    BY <1>2 DEF TerminalInv, EngineAhead, AboutToLog, BackToAsked
  <1>8. LastLogged'
    BY <1>2, <1>4 DEF TerminalInv, LastLogged, HasLast, LastSize, SizesLogged
  <1>9. GivenSize'
    BY <1>2, <1>4 DEF TerminalInv, GivenSize, Resizing
  <1> QED BY <1>5, <1>6, <1>7, <1>8, <1>9 DEF TerminalInv

\* A call that has nothing to do returns.
LEMMA RefusedStep ==
    ASSUME TerminalInv, NEW t \in Threads, Refused(t)
    PROVE  TerminalInv'
  <1>1. /\ at[t] = "lock" /\ at' = [at EXCEPT ![t] = "idle"]
        /\ Underway(t) \/ ~master
        /\ redrawing' = (redrawing /\ job[t].op # "restore")
        /\ unseen' = (unseen \/ Underway(t))
        /\ UNCHANGED <<job, terminal, engineLock, master, asked, engine, ptySize, engineSaw, logSaw,
                       readerAt, ended, calls, output>>
    BY DEF Refused, Moves, locks, counts
  <1>2. TerminalTypeOK /\ at \in [Threads -> {"idle", "lock", "engine", "log", "leave"}]
    BY DEF TerminalInv, TerminalTypeOK
  <1>3. at'[t] = "idle" /\ \A d \in Threads : d # t => at'[d] = at[d]
    BY <1>1, <1>2
  <1>4. TerminalTypeOK'
    <2>1. redrawing' \in BOOLEAN /\ unseen' \in BOOLEAN
      BY <1>1
    <2>2. at' \in [Threads -> {"idle", "lock", "engine", "log", "leave"}]
      BY <1>1, <1>2
    <2> QED BY <1>1, <1>2, <2>1, <2>2 DEF TerminalTypeOK
  <1>5. LocksHeld'
    BY <1>1, <1>3 DEF TerminalInv, LocksHeld, Resizing
  <1>6. EngineAhead'
    BY <1>1 DEF TerminalInv, EngineAhead, AboutToLog
  <1>7. LastLogged'
    <2>1. (\A d \in Threads : at'[d] \notin {"engine", "log"})
             => (\A d \in Threads : at[d] \notin {"engine", "log"})
      BY <1>1, <1>3
    <2> QED BY <1>1, <2>1 DEF TerminalInv, LastLogged
  <1>8. GivenSize'
    BY <1>1, <1>3 DEF TerminalInv, GivenSize, Resizing
  <1>9. BackToAsked'
    BY <1>1 DEF TerminalInv, BackToAsked, Underway
  <1> QED BY <1>4, <1>5, <1>6, <1>7, <1>8, <1>9 DEF TerminalInv

\* The terminal is locked and the PTY is given the size of the call.
LEMMA PtyStep ==
    ASSUME TerminalInv, NEW t \in Threads, TellPty(t)
    PROVE  TerminalInv'
  <1>1. /\ at[t] = "lock" /\ at' = [at EXCEPT ![t] = "engine"]
        /\ terminal = Nobody /\ terminal' = t
        /\ ptySize' = Target(t)
        /\ redrawing' = (redrawing /\ job[t].op # "restore")
        /\ unseen' = IF ptySize' # ptySize THEN FALSE ELSE unseen \/ job[t].op = "redraw"
        /\ UNCHANGED <<job, engineLock, master, asked, engine, engineSaw, logSaw,
                       readerAt, ended, calls, output>>
    BY DEF TellPty, Lock, SizePty, Moves, counts
  <1>2. /\ TerminalTypeOK /\ at \in [Threads -> {"idle", "lock", "engine", "log", "leave"}]
        /\ job[t].op \in {"none", "resize", "redraw", "restore"} /\ job[t].size \in Sizes
        /\ asked \in Sizes /\ unseen \in BOOLEAN
    BY DEF TerminalInv, TerminalTypeOK
  <1>3. at'[t] = "engine" /\ \A d \in Threads : d # t => at'[d] = at[d]
    BY <1>1, <1>2
  <1>4. \A d \in Threads : at[d] \notin Resizing
    BY <1>1, Actors DEF TerminalInv, LocksHeld
  <1>5. job[t].op # "none"
    BY <1>1 DEF TerminalInv, LocksHeld
  <1>6. /\ job[t].op = "resize" => ptySize' = job[t].size
        /\ job[t].op = "restore" => ptySize' = asked
        /\ ptySize' \in Size
    <2>1. Nudged(asked) \in Size /\ \A z \in Sizes : z \in Size
      BY <1>2, SessionTerminalAssumption DEF Nudged, Size, Sizes
    <2> QED BY <1>1, <1>2, <1>5, <2>1 DEF Target
  <1>7. TerminalTypeOK'
    <2>1. redrawing' \in BOOLEAN /\ unseen' \in BOOLEAN
      BY <1>1, <1>2
    <2>2. at' \in [Threads -> {"idle", "lock", "engine", "log", "leave"}]
      BY <1>1, <1>2
    <2> QED BY <1>1, <1>2, <1>6, <2>1, <2>2 DEF TerminalTypeOK
  <1>8. LocksHeld'
    <2>1. \A d \in Threads : terminal' = d <=> at'[d] \in Resizing
      BY <1>1, <1>3, <1>4 DEF Resizing
    <2>2. \A d \in Threads : engineLock' = d <=> at'[d] = "log"
      BY <1>1, <1>3 DEF TerminalInv, LocksHeld
    <2> QED BY <1>1, <1>3, <1>5, <2>1, <2>2 DEF TerminalInv, LocksHeld
  <1>9. EngineAhead'
    <2>1. engineLock \in {ReaderThread, Nobody}
      <3>1. \A d \in Threads : engineLock # d
        BY <1>4 DEF TerminalInv, LocksHeld, Resizing
      <3> QED BY <1>2, <3>1 DEF TerminalTypeOK
    <2> QED BY <1>1, <2>1 DEF TerminalInv, EngineAhead, AboutToLog
  <1>10. LastLogged'
    BY <1>1, <1>3 DEF TerminalInv, LastLogged
  <1>11. GivenSize'
    BY <1>1, <1>3, <1>4, <1>6 DEF GivenSize
  <1>12. BackToAsked'
    BY <1>1, Actors DEF BackToAsked
  <1> QED BY <1>7, <1>8, <1>9, <1>10, <1>11, <1>12 DEF TerminalInv

\* The engine is locked and given the size, and the log after it.
LEMMA ToldStep ==
    ASSUME TerminalInv, NEW t \in Threads, TellEngine(t) \/ TellLog(t)
    PROVE  TerminalInv'
  <1>1. /\ TerminalTypeOK /\ at \in [Threads -> {"idle", "lock", "engine", "log", "leave"}]
        /\ ptySize \in Event /\ ptySize \in Size /\ logSaw \in Seq(Event)
    BY DEF TerminalInv, TerminalTypeOK, Event
  <1>2. t # Nobody /\ t # ReaderThread
    BY Actors
  <1>3. CASE TellEngine(t)
    <2>1. /\ at[t] = "engine" /\ at' = [at EXCEPT ![t] = "log"]
          /\ engineLock = Nobody /\ engineLock' = t /\ Advance(ptySize)
          /\ UNCHANGED <<job, terminal, master, asked, redrawing, ptySize, logSaw, unseen,
                         readerAt, ended, calls, output>>
      BY <1>3 DEF TellEngine, Hold, Moves, counts
    <2>2. at'[t] = "log" /\ \A d \in Threads : d # t => at'[d] = at[d]
      BY <1>1, <2>1
    <2>3. /\ engine' \in BOOLEAN /\ engineSaw' \in Seq(Event)
          /\ engine' => engine /\ engineSaw' = Append(engineSaw, ptySize)
      BY <1>1, <2>1, Advanced
    <2>4. TerminalTypeOK'
      <3>1. at' \in [Threads -> {"idle", "lock", "engine", "log", "leave"}]
        BY <1>1, <2>1
      <3> QED BY <1>1, <2>1, <2>3, <3>1 DEF TerminalTypeOK, Event
    <2>5. LocksHeld'
      <3>1. \A d \in Threads : at[d] # "log"
        BY <2>1, Actors DEF TerminalInv, LocksHeld
      <3>2. \A d \in Threads : at'[d] \in Resizing <=> at[d] \in Resizing
        BY <2>1, <2>2 DEF Resizing
      <3>3. \A d \in Threads : terminal' = d <=> at'[d] \in Resizing
        BY <2>1, <3>2 DEF TerminalInv, LocksHeld
      <3>4. \A d \in Threads : engineLock' = d <=> at'[d] = "log"
        BY <2>1, <2>2, <3>1
      <3>5. readerAt # "log"
        BY <2>1, Actors DEF TerminalInv, LocksHeld
      <3>6. \A d \in Threads : at'[d] # "idle" => job'[d].op # "none"
        BY <2>1, <2>2 DEF TerminalInv, LocksHeld
      <3> QED BY <1>2, <2>1, <3>3, <3>4, <3>5, <3>6 DEF LocksHeld
    <2>6. EngineAhead'
      BY <1>2, <2>1, <2>3 DEF TerminalInv, EngineAhead, AboutToLog
    <2>7. LastLogged'
      BY <2>1, <2>2 DEF TerminalInv, LastLogged
    <2>8. GivenSize'
      BY <2>1, <2>2 DEF TerminalInv, GivenSize, Resizing
    <2>9. BackToAsked'
      BY <2>1 DEF TerminalInv, BackToAsked
    <2> QED BY <2>4, <2>5, <2>6, <2>7, <2>8, <2>9 DEF TerminalInv
  <1>4. CASE TellLog(t)
    <2>1. /\ at[t] = "log" /\ at' = [at EXCEPT ![t] = "leave"]
          /\ engineLock' = Nobody /\ logSaw' = Append(logSaw, ptySize)
          /\ UNCHANGED <<job, terminal, master, asked, redrawing, engine, ptySize, engineSaw, unseen,
                         readerAt, ended, calls, output>>
      BY <1>4 DEF TellLog, Moves, counts, fields
    <2>2. at'[t] = "leave" /\ \A d \in Threads : d # t => at'[d] = at[d]
      BY <1>1, <2>1
    <2>3. logSaw' \in Seq(Event) /\ HasLast(logSaw') /\ LastSize(logSaw') = ptySize
      BY <1>1, <2>1, LastOfSize, AppendProperties
    <2>4. engineLock = t
      BY <2>1 DEF TerminalInv, LocksHeld
    <2>5. TerminalTypeOK'
      <3>1. at' \in [Threads -> {"idle", "lock", "engine", "log", "leave"}]
        BY <1>1, <2>1
      <3> QED BY <1>1, <2>1, <2>3, <3>1 DEF TerminalTypeOK, Event
    <2>6. LocksHeld'
      <3>1. \A d \in Threads : at'[d] \in Resizing <=> at[d] \in Resizing
        BY <2>1, <2>2 DEF Resizing
      <3>2. \A d \in Threads : at'[d] # "log"
        BY <2>2, <2>4 DEF TerminalInv, LocksHeld
      <3>3. readerAt # "log"
        BY <1>2, <2>4 DEF TerminalInv, LocksHeld
      <3> QED BY <2>1, <2>2, <3>1, <3>2, <3>3, Actors DEF TerminalInv, LocksHeld
    <2>7. EngineAhead'
      BY <1>2, <2>1, <2>4 DEF TerminalInv, EngineAhead, AboutToLog
    <2>8. LastLogged'
      BY <2>1, <2>3 DEF LastLogged
    <2>9. GivenSize'
      BY <2>1, <2>2 DEF TerminalInv, GivenSize, Resizing
    <2>10. BackToAsked'
      BY <2>1 DEF TerminalInv, BackToAsked
    <2> QED BY <2>5, <2>6, <2>7, <2>8, <2>9, <2>10 DEF TerminalInv
  <1> QED BY <1>3, <1>4

\* The terminal is let go: the size asked for is kept, a redraw is left to be
\* ended, or it has been.
LEMMA LeaveStep ==
    ASSUME TerminalInv, NEW t \in Threads, Leave(t)
    PROVE  TerminalInv'
  <1>1. /\ TerminalTypeOK /\ at \in [Threads -> {"idle", "lock", "engine", "log", "leave"}]
        /\ job \in [Threads -> [op: {"none", "resize", "redraw", "restore"}, size: Sizes]]
        /\ asked \in Sizes /\ redrawing \in BOOLEAN
    BY DEF TerminalInv, TerminalTypeOK
  <1>2. /\ at[t] = "leave" /\ terminal' = Nobody
        /\ UNCHANGED <<engineLock, master, engine, ptySize, engineSaw, logSaw, unseen, readerAt,
                       ended, calls, output>>
    BY DEF Leave, LeaveResize, LeaveRedraw, LeaveRestore, told, counts
  <1>3. terminal = t /\ \A d \in Threads : d # t => at[d] \notin Resizing
    BY <1>2 DEF TerminalInv, LocksHeld, Resizing
  <1>4. Redrawer \in Threads /\ t # Nobody
    BY Actors
  <1>5. /\ at' \in [Threads -> {"idle", "lock", "engine", "log", "leave"}]
        /\ job' \in [Threads -> [op: {"none", "resize", "redraw", "restore"}, size: Sizes]]
        /\ asked' \in Sizes /\ redrawing' \in BOOLEAN
        /\ \A d \in Threads : \/ d # t /\ at'[d] = at[d] /\ job'[d] = job[d]
                              \/ at'[d] = "idle"
                              \/ at'[d] = "lock" /\ job'[d].op # "none"
        /\ ~redrawing' => ptySize = asked'
    <2>1. CASE LeaveResize(t)
      <3>1. /\ job[t].op = "resize" /\ asked' = job[t].size /\ at' = [at EXCEPT ![t] = "idle"]
            /\ UNCHANGED <<job, redrawing>>
        BY <2>1 DEF LeaveResize, Asked, Moves
      <3>2. ptySize = job[t].size
        BY <1>2, <3>1 DEF TerminalInv, GivenSize, Resizing
      <3> QED BY <1>1, <3>1, <3>2
    <2>2. CASE LeaveRedraw(t)
      <3>1. /\ redrawing' = TRUE /\ asked' = asked
            /\ \/ /\ job' = [job EXCEPT ![Redrawer] = Restore]
                  /\ at' = [at EXCEPT ![Redrawer] = "lock", ![t] = "idle"]
               \/ job' = [job EXCEPT ![t] = Restore] /\ at' = [at EXCEPT ![t] = "lock"]
        BY <2>2 DEF LeaveRedraw, Moves
      <3>2. /\ Restore \in [op: {"none", "resize", "redraw", "restore"}, size: Sizes]
            /\ Restore.op = "restore"
        BY SessionTerminalAssumption DEF Restore, FirstSize, Sizes
      <3>3. CASE job' = [job EXCEPT ![Redrawer] = Restore]
                 /\ at' = [at EXCEPT ![Redrawer] = "lock", ![t] = "idle"]
        BY <1>1, <1>4, <3>1, <3>2, <3>3
      <3>4. CASE job' = [job EXCEPT ![t] = Restore] /\ at' = [at EXCEPT ![t] = "lock"]
        BY <1>1, <1>4, <3>1, <3>2, <3>4
      <3> QED BY <3>1, <3>3, <3>4
    <2>3. CASE LeaveRestore(t)
      <3>1. job[t].op = "restore" /\ at' = [at EXCEPT ![t] = "idle"] /\ UNCHANGED <<job, asked, redrawing>>
        BY <2>3 DEF LeaveRestore, Moves
      <3>2. ptySize = asked
        BY <1>2, <3>1 DEF TerminalInv, GivenSize, Resizing
      <3> QED BY <1>1, <3>1, <3>2
    <2> QED BY <2>1, <2>2, <2>3 DEF Leave
  <1>6. \A d \in Threads : at'[d] \notin Resizing
    BY <1>3, <1>5 DEF Resizing
  <1>7. TerminalTypeOK'
    BY <1>1, <1>2, <1>5 DEF TerminalTypeOK
  <1>8. LocksHeld'
    <2>1. \A d \in Threads : terminal' # d
      BY <1>2, Actors
    <2>2. \A d \in Threads : engineLock # d /\ at'[d] # "log"
      BY <1>2, <1>3, <1>6 DEF TerminalInv, LocksHeld, Resizing
    <2>3. \A d \in Threads : at'[d] # "idle" => job'[d].op # "none"
      BY <1>5 DEF TerminalInv, LocksHeld
    <2> QED BY <1>2, <1>6, <2>1, <2>2, <2>3 DEF TerminalInv, LocksHeld
  <1>9. EngineAhead'
    BY <1>2 DEF TerminalInv, EngineAhead, AboutToLog
  <1>10. LastLogged'
    <2>1. \A d \in Threads : at[d] \notin {"engine", "log"}
      BY <1>2, <1>3 DEF Resizing
    <2> QED BY <1>2, <2>1 DEF TerminalInv, LastLogged
  <1>11. GivenSize'
    BY <1>6 DEF GivenSize
  <1>12. BackToAsked'
    BY <1>2, <1>5 DEF BackToAsked
  <1> QED BY <1>7, <1>8, <1>9, <1>10, <1>11, <1>12 DEF TerminalInv

\* Output is given to the engine and logged.
LEMMA OutputStep ==
    ASSUME TerminalInv, Output
    PROVE  TerminalInv'
  <1>1. TerminalTypeOK /\ logSaw \in Seq(Event) /\ Chunk \in Event
    BY DEF TerminalInv, TerminalTypeOK, Event
  <1>2. CASE OutputToEngine
    <2>1. /\ readerAt = "read" /\ readerAt' = "log" /\ engineLock = Nobody
          /\ engineLock' = ReaderThread /\ Advance(Chunk)
          /\ output < MaxChunks /\ output' = output + 1
          /\ UNCHANGED <<at, job, terminal, master, asked, redrawing, ptySize, logSaw, unseen,
                         ended, calls>>
      BY <1>2 DEF OutputToEngine
    <2>2. /\ engine' \in BOOLEAN /\ engineSaw' \in Seq(Event)
          /\ engine' => engine /\ engineSaw' = Append(engineSaw, Chunk)
      BY <1>1, <2>1, Advanced
    <2>3. output' \in 0..MaxChunks
      BY <1>1, <2>1, SessionTerminalAssumption DEF TerminalTypeOK
    <2>4. TerminalTypeOK'
      BY <1>1, <2>1, <2>2, <2>3 DEF TerminalTypeOK, Event
    <2>5. LocksHeld'
      BY <2>1, Actors DEF TerminalInv, LocksHeld
    <2>6. EngineAhead'
      BY <2>1, <2>2, Actors DEF TerminalInv, EngineAhead, AboutToLog
    <2>7. LastLogged' /\ GivenSize' /\ BackToAsked'
      BY <2>1 DEF TerminalInv, LastLogged, GivenSize, BackToAsked
    <2> QED BY <2>4, <2>5, <2>6, <2>7 DEF TerminalInv
  <1>3. CASE OutputToLog
    <2>1. /\ readerAt = "log" /\ readerAt' = "read" /\ engineLock' = Nobody
          /\ logSaw' = Append(logSaw, Chunk)
          /\ UNCHANGED <<at, job, terminal, master, asked, redrawing, engine, ptySize, engineSaw,
                         unseen, ended, calls, output>>
      BY <1>3 DEF OutputToLog, fields, counts
    <2>2. engineLock = ReaderThread
      BY <2>1 DEF TerminalInv, LocksHeld
    <2>3. logSaw' \in Seq(Event) /\ HasLast(logSaw') /\ LastSize(logSaw') = LastSize(logSaw)
      BY <1>1, <2>1, LastChunk, AppendProperties DEF TerminalInv, LastLogged
    <2>4. TerminalTypeOK'
      BY <1>1, <2>1, <2>3 DEF TerminalTypeOK, Event
    <2>5. LocksHeld'
      BY <2>1, <2>2, Actors DEF TerminalInv, LocksHeld
    <2>6. EngineAhead'
      BY <2>1, <2>2, Actors DEF TerminalInv, EngineAhead, AboutToLog
    <2>7. LastLogged'
      BY <2>1, <2>3 DEF TerminalInv, LastLogged
    <2>8. GivenSize' /\ BackToAsked'
      BY <2>1 DEF TerminalInv, GivenSize, BackToAsked
    <2> QED BY <2>4, <2>5, <2>6, <2>7, <2>8 DEF TerminalInv
  <1> QED BY <1>2, <1>3 DEF Output

\* The session ends field by field.
LEMMA FinishStep ==
    ASSUME TerminalInv, FinishSteps
    PROVE  TerminalInv'
  <1>1. /\ UNCHANGED <<at, job, terminal, engineLock, asked, redrawing, ptySize, engineSaw, logSaw,
                       unseen, calls, output>>
        /\ readerAt # "log" /\ readerAt' \in {"engine", "exit", "ended"}
        /\ master' = master \/ master' = FALSE
        /\ engine' = engine \/ engine' = FALSE
        /\ ended' = ended \/ ended' = TRUE
    BY DEF FinishSteps, FinishMaster, FinishEngine, FinishExit, locks, fields, told, counts
  <1>2. TerminalTypeOK'
    BY <1>1 DEF TerminalInv, TerminalTypeOK
  <1>3. LocksHeld'
    BY <1>1 DEF TerminalInv, LocksHeld
  <1>4. EngineAhead' /\ LastLogged' /\ GivenSize' /\ BackToAsked'
    BY <1>1 DEF TerminalInv, EngineAhead, AboutToLog, LastLogged, GivenSize, BackToAsked
  <1> QED BY <1>2, <1>3, <1>4 DEF TerminalInv

(***************************************************************************)
(* The theorems.                                                           *)
(***************************************************************************)
\* Locks are where the threads are, the engine is ahead of the log by what is
\* about to be logged, and the PTY has the size of the call under way.
THEOREM TerminalInvariant == TerminalSpec => []TerminalInv
  <1>1. TerminalInit => TerminalInv
    <2> SUFFICES ASSUME TerminalInit PROVE TerminalInv
      OBVIOUS
    <2>1. FirstSize \in Sizes /\ FirstSize \in Size /\ 0 \in 0..MaxCalls /\ 0 \in 0..MaxChunks
      BY SessionTerminalAssumption DEF FirstSize, Sizes, Size
    <2>2. <<>> \in Seq(Size \cup {Chunk})
      OBVIOUS
    <2>3. NoJob \in [op: {"none", "resize", "redraw", "restore"}, size: Sizes]
      BY <2>1 DEF NoJob
    <2>4. TerminalTypeOK
      BY <2>1, <2>2, <2>3 DEF TerminalInit, TerminalTypeOK
    <2>5. LocksHeld
      BY Actors DEF TerminalInit, LocksHeld, Resizing
    <2>6. EngineAhead /\ GivenSize /\ BackToAsked
      BY DEF TerminalInit, EngineAhead, GivenSize, BackToAsked, Resizing
    <2>7. LastLogged
      <3>1. SizesLogged(<<>>) = {}
        BY DEF SizesLogged
      <3> QED BY <3>1 DEF TerminalInit, LastLogged, HasLast, LastSize
    <2> QED BY <2>4, <2>5, <2>6, <2>7 DEF TerminalInv
  <1>2. TerminalInv /\ [TerminalNext]_terminalVars => TerminalInv'
    <2> SUFFICES ASSUME TerminalInv, [TerminalNext]_terminalVars PROVE TerminalInv'
      OBVIOUS
    <2>1. ASSUME NEW t \in Threads, Call(t) PROVE TerminalInv'
      BY <2>1, RefusedStep, PtyStep, ToldStep, LeaveStep DEF Call
    <2>2. ASSUME NEW c \in Clients, Serve(c) PROVE TerminalInv'
      BY <2>2, RequestStep
    <2>3. CASE Output
      BY <2>3, OutputStep
    <2>4. CASE FinishSteps
      BY <2>4, FinishStep
    <2>5. CASE UNCHANGED terminalVars
      <3>1. UNCHANGED <<at, job, terminal, engineLock, master, asked, redrawing, engine, ptySize,
                        engineSaw, logSaw, unseen, readerAt, ended, calls, output>>
        BY <2>5 DEF terminalVars, locks, fields, told, counts
      <3>2. TerminalTypeOK' /\ LocksHeld' /\ EngineAhead'
        BY <3>1 DEF TerminalInv, TerminalTypeOK, LocksHeld, EngineAhead, AboutToLog
      <3>3. LastLogged' /\ GivenSize' /\ BackToAsked'
        BY <3>1 DEF TerminalInv, LastLogged, GivenSize, BackToAsked
      <3> QED BY <3>2, <3>3 DEF TerminalInv
    <2> QED BY <2>1, <2>2, <2>3, <2>4, <2>5 DEF TerminalNext
  <1> QED BY <1>1, <1>2, PTL DEF TerminalSpec

\* A resize falls between the same bytes for PTY, engine and log (apply_size,
\* append_output), whichever threads resize, redraw and read.
THEOREM SameSizesAlways == TerminalSpec => []SameSizes
  <1>1. TerminalInv => SameSizes
    <2> SUFFICES ASSUME TerminalInv PROVE SameSizes
      OBVIOUS
    <2>1. SameOrder
      BY DEF TerminalInv, EngineAhead, SameOrder
    <2>2. PtyAsLogged
      <3>1. ASSUME terminal = Nobody PROVE \A t \in Threads : at[t] \notin {"engine", "log"}
        BY <3>1, Actors DEF TerminalInv, LocksHeld, Resizing
      <3> QED BY <3>1 DEF TerminalInv, LastLogged, PtyAsLogged
    <2> QED BY <2>1, <2>2 DEF SameSizes
  <1> QED BY <1>1, TerminalInvariant, PTL

\* A redraw leaves the size that was asked for last, however resizes fall
\* between its two halves (redraw, finish_redraw).
THEOREM BackToAskedAlways == TerminalSpec => []BackToAsked
  <1>1. TerminalInv => BackToAsked
    BY DEF TerminalInv
  <1> QED BY <1>1, TerminalInvariant, PTL
=============================================================================
