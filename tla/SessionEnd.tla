------------------------------ MODULE SessionEnd ------------------------------
(***************************************************************************)
(* How a session ends: crates/splitlane-host/src/session.rs.               *)
(*                                                                         *)
(* The session's child leads a process group.  A helper it started is in   *)
(* the group, has the PTY open, may go on writing to it for ever and       *)
(* ignores every request to end.  The waiter reaps the child, the reader   *)
(* collects the last output and records the exit, kill asks the group to   *)
(* end and makes it after a grace, and a watcher process ends the group    *)
(* should the host die.                                                    *)
(*                                                                         *)
(* Once the child is reaped and nothing is left of the group, its pid may  *)
(* be given to a stranger that leads a group of its own.                   *)
(***************************************************************************)
EXTENDS Integers, Sequences, FiniteSets

CONSTANTS
    Callers,      \* connection threads that may ask for a kill
    PtyRoom,      \* chunks of output the PTY holds
    ReadBuf,      \* chunks one read takes (READ_BUF)
    MaxOutput,    \* bound of the model: chunks the child writes
    Rechecks      \* WATCHER_RECHECKS

\* READ_BUF is larger than what a PTY holds back
ASSUME SessionEndAssumption ==
    /\ PtyRoom \in Nat \ {0} /\ ReadBuf \in Nat /\ ReadBuf >= PtyRoom
    /\ MaxOutput \in Nat /\ Rechecks \in Nat \ {0}

VARIABLES
    \* processes and the PTY
    child,        \* "alive", "zombie" or "reaped"
    helper,       \* alive
    stranger,     \* the pid has been given away
    pty,          \* output nobody has read: who wrote each chunk
    wrote,        \* chunks the child has written
    \* the host
    host,         \* "up", "dying" (its files closed), "gone"
    reaped,       \* Session::reaped
    wake,         \* the waiter's byte in the pipe
    waiter,
    reader,
    latched,      \* reaped_at is set
    overdue,      \* DRAIN_AFTER_EXIT is over
    logged,       \* the child's chunks that are in the log
    guard,        \* Session::guard: the watcher's pipe is open
    exit,         \* Shared::exit is set
    kill,         \* per caller: where kill is
    killer,       \* per caller: the thread that makes the group end
    late,         \* a request to end was sent though the child was reaped
    \* the watcher
    watcher, rechecks

processes == <<child, helper, stranger>>
threads == <<reaped, wake, waiter, reader, latched, overdue, logged, guard, exit>>
kills == <<kill, killer, late>>
watching == <<watcher, rechecks>>
vars == <<processes, pty, wrote, host, threads, kills, watching>>

Up == host = "up"

(***************************************************************************)
(* The processes.                                                          *)
(***************************************************************************)
ChildWrites ==
    /\ child = "alive" /\ wrote < MaxOutput /\ Len(pty) < PtyRoom
    /\ pty' = Append(pty, "child") /\ wrote' = wrote + 1
    /\ UNCHANGED <<processes, host, threads, kills, watching>>
ChildExits ==
    /\ child = "alive" /\ child' = "zombie"
    /\ UNCHANGED <<helper, stranger, pty, wrote, host, threads, kills, watching>>
HelperWrites ==
    /\ helper /\ Len(pty) < PtyRoom
    /\ pty' = Append(pty, "helper")
    /\ UNCHANGED <<processes, wrote, host, threads, kills, watching>>
HelperExits ==
    /\ helper /\ helper' = FALSE
    /\ UNCHANGED <<child, stranger, pty, wrote, host, threads, kills, watching>>
PidReused ==
    /\ child = "reaped" /\ ~helper /\ ~stranger
    /\ stranger' = TRUE
    /\ UNCHANGED <<child, helper, pty, wrote, host, threads, kills, watching>>

\* signal_group: delivered if the group has members, the unreaped child among
\* them
Members == child # "reaped" \/ helper \/ stranger
SigKill ==
    /\ child' = IF child = "alive" THEN "zombie" ELSE child
    /\ helper' = FALSE
    /\ UNCHANGED stranger
\* A request: the child may end of it, or not
SigTerm ==
    /\ child' \in (IF child = "alive" THEN {"alive", "zombie"} ELSE {child})
    /\ UNCHANGED <<helper, stranger>>

(***************************************************************************)
(* The waiter: wait_for, then the flag, then the byte.                     *)
(***************************************************************************)
WaiterReaps ==
    /\ Up /\ waiter = "wait" /\ child = "zombie"
    /\ child' = "reaped" /\ waiter' = "flag"
    /\ UNCHANGED <<helper, stranger, pty, wrote, host, reaped, wake, reader, latched, overdue,
                   logged, guard, exit, kills, watching>>
WaiterTells ==
    /\ Up
    /\ \/ /\ waiter = "flag" /\ reaped' = TRUE /\ waiter' = "wake" /\ wake' = wake
       \/ waiter = "wake" /\ wake' = TRUE /\ waiter' = "done" /\ reaped' = reaped
    /\ UNCHANGED <<processes, pty, wrote, host, reader, latched, overdue, logged, guard, exit,
                   kills, watching>>

(***************************************************************************)
(* The reader: pump_output and finish.                                     *)
(***************************************************************************)
ReaderUnchanged == UNCHANGED <<processes, wrote, host, reaped, wake, waiter, kills, watching>>

Latch == latched \/ reaped
PollBegins ==
    /\ Up /\ reader = "top"
    /\ latched' = Latch /\ reader' = "poll"
    /\ ReaderUnchanged /\ UNCHANGED <<pty, overdue, logged, guard, exit>>

\* Ready with output; or woken, which is watched for until the waiter spoke;
\* or the PTY is quiet, which ends the drain
QuietFaulty == wake     \* woken, and nothing is collected any more
Quiet == latched /\ pty = <<>>
PollEnds ==
    /\ Up /\ reader = "poll"
    /\ \/ pty # <<>> /\ reader' = "read"
       \/ pty = <<>> /\ ~latched /\ wake /\ reader' = "top"
       \/ Quiet /\ reader' = "join"
    /\ ReaderUnchanged /\ UNCHANGED <<pty, latched, overdue, logged, guard, exit>>

Taken == IF Len(pty) < ReadBuf THEN Len(pty) ELSE ReadBuf
FromChild(s) == Cardinality({i \in 1..Len(s) : s[i] = "child"})
OverdueFaulty == FALSE     \* a drain with no end
Overdue == latched /\ overdue
Read ==
    /\ Up /\ reader = "read"
    /\ pty' = SubSeq(pty, Taken + 1, Len(pty))
    /\ logged' = logged + FromChild(SubSeq(pty, 1, Taken))
    /\ reader' = IF Overdue THEN "join" ELSE "top"
    /\ ReaderUnchanged /\ UNCHANGED <<latched, overdue, guard, exit>>

\* Time passes: DRAIN_AFTER_EXIT since reaped_at
Deadline ==
    /\ Up /\ latched /\ ~overdue /\ overdue' = TRUE
    /\ ReaderUnchanged /\ UNCHANGED <<pty, reader, latched, logged, guard, exit>>

Join == waiter = "done"
Finish ==
    /\ Up
    /\ \/ reader = "join" /\ Join /\ reader' = "guard" /\ UNCHANGED <<guard, exit>>
       \/ reader = "guard" /\ guard' = FALSE /\ reader' = "exit" /\ exit' = exit
       \/ reader = "exit" /\ exit' = TRUE /\ reader' = "done" /\ guard' = guard
    /\ ReaderUnchanged /\ UNCHANGED <<pty, latched, overdue, logged>>

(***************************************************************************)
(* kill and terminate: the flag, the group's leader, SIGHUP, SIGTERM, and  *)
(* after a grace SIGKILL, each looked at or sent on its own.               *)
(***************************************************************************)
Goes(c, to) == kill' = [kill EXCEPT ![c] = to]
KillBegins(c) ==
    /\ Up /\ kill[c] = "idle"
    /\ Goes(c, IF exit \/ reaped THEN "done" ELSE "leader")
    /\ UNCHANGED <<processes, pty, wrote, host, threads, killer, late, watching>>
IsGroupLeader == child # "reaped" \/ stranger
KillLooks(c) ==
    /\ Up /\ kill[c] = "leader"
    /\ Goes(c, IF IsGroupLeader THEN "hup" ELSE "done")
    /\ UNCHANGED <<processes, pty, wrote, host, threads, killer, late, watching>>
KillAsks(c) ==
    /\ Up /\ kill[c] \in {"hup", "term"}
    /\ IF Members THEN SigTerm /\ Goes(c, IF kill[c] = "hup" THEN "term" ELSE "killer")
       ELSE UNCHANGED processes /\ Goes(c, "done")
    /\ late' = (late \/ (child = "reaped" /\ Members))
    /\ UNCHANGED <<pty, wrote, host, threads, killer, watching>>
\* mutant: the request is all that is sent
KillGrantsFaulty(c) ==
    /\ Up /\ kill[c] = "killer" /\ Goes(c, "granted")
    /\ UNCHANGED <<processes, pty, wrote, host, threads, killer, late, watching>>
KillGrants(c) ==
    /\ Up /\ kill[c] = "killer"
    /\ Goes(c, "granted")
    /\ \/ killer' = [killer EXCEPT ![c] = TRUE] /\ UNCHANGED processes
       \/ SigKill /\ killer' = killer     \* no thread could be started
    /\ UNCHANGED <<pty, wrote, host, threads, late, watching>>
KillerKills(c) ==
    /\ Up /\ killer[c]
    /\ SigKill
    /\ killer' = [killer EXCEPT ![c] = FALSE]
    /\ UNCHANGED <<pty, wrote, host, threads, kill, late, watching>>

(***************************************************************************)
(* The host dies: its files are closed, then its children are handed to    *)
(* another parent, who reaps them.                                         *)
(***************************************************************************)
HostDies ==
    /\ Up /\ host' = "dying"
    /\ UNCHANGED <<processes, pty, wrote, threads, kills, watching>>
HostIsGone ==
    /\ host = "dying" /\ host' = "gone"
    /\ UNCHANGED <<processes, pty, wrote, threads, kills, watching>>
InitReaps ==
    /\ host = "gone" /\ child = "zombie" /\ child' = "reaped"
    /\ UNCHANGED <<helper, stranger, pty, wrote, host, threads, kills, watching>>

(***************************************************************************)
(* The watcher (watch_from_fork).  Its pipe closes because the session     *)
(* ended or because the host did; which of the two is asked more than      *)
(* once.  A dying host is gone before the watcher has asked often enough.  *)
(***************************************************************************)
Unwatched == UNCHANGED <<pty, wrote, host, threads, kills>>
PipeCloses ==
    /\ watcher = "read" /\ (~guard \/ ~Up)
    /\ watcher' = "check" /\ UNCHANGED <<processes, rechecks>> /\ Unwatched

\* mutant: it is asked only once
RecheckOnce ==
    /\ watcher = "check"
    /\ watcher' = IF Members /\ host = "gone" THEN "hup" ELSE "done"
    /\ UNCHANGED <<processes, rechecks>> /\ Unwatched
Recheck ==
    /\ watcher = "check"
    /\ IF ~Members THEN watcher' = "done" /\ rechecks' = rechecks
       ELSE IF host = "gone" THEN watcher' = "hup" /\ rechecks' = rechecks
       ELSE IF rechecks > 1 THEN watcher' = watcher /\ rechecks' = rechecks - 1
       ELSE Up /\ watcher' = "done" /\ rechecks' = 0
    /\ UNCHANGED processes /\ Unwatched
WatcherAsks ==
    /\ watcher \in {"hup", "term"}
    /\ SigTerm /\ watcher' = IF watcher = "hup" THEN "term" ELSE "kill"
    /\ rechecks' = rechecks /\ Unwatched
WatcherKills ==
    /\ watcher = "kill" /\ SigKill /\ watcher' = "done"
    /\ rechecks' = rechecks /\ Unwatched
Watcher == PipeCloses \/ Recheck \/ WatcherAsks \/ WatcherKills

(***************************************************************************)
(* The specification.                                                      *)
(***************************************************************************)
Init ==
    /\ child = "alive" /\ helper \in BOOLEAN /\ stranger = FALSE
    /\ pty = <<>> /\ wrote = 0 /\ host = "up"
    /\ reaped = FALSE /\ wake = FALSE /\ waiter = "wait"
    /\ reader = "top" /\ latched = FALSE /\ overdue = FALSE /\ logged = 0
    /\ guard = TRUE /\ exit = FALSE
    /\ kill = [c \in Callers |-> "idle"] /\ killer = [c \in Callers |-> FALSE] /\ late = FALSE
    /\ watcher = "read" /\ rechecks = Rechecks

Waiter == WaiterReaps \/ WaiterTells
Reader == PollBegins \/ PollEnds \/ Read \/ Finish
Killing(c) == KillLooks(c) \/ KillAsks(c) \/ KillGrants(c)

Next ==
    \/ ChildWrites \/ ChildExits \/ HelperWrites \/ HelperExits \/ PidReused
    \/ Waiter \/ Reader \/ Deadline
    \/ \E c \in Callers : KillBegins(c) \/ Killing(c) \/ KillerKills(c)
    \/ HostDies \/ HostIsGone \/ InitReaps \/ Watcher

\* Threads and processes run on, and time passes
Fairness ==
    /\ WF_vars(Waiter) /\ WF_vars(Reader) /\ WF_vars(Deadline)
    /\ \A c \in Callers : WF_vars(Killing(c)) /\ WF_vars(KillerKills(c))
    /\ WF_vars(HostIsGone) /\ WF_vars(InitReaps) /\ WF_vars(Watcher)
Spec == Init /\ [][Next]_vars /\ Fairness
=============================================================================
