-------------------------- MODULE SessionEndProperties --------------------------
(***************************************************************************)
(* What must hold of the end of a session.                                 *)
(***************************************************************************)
EXTENDS SessionEnd

\* Type correctness; the log has no more of the child than it wrote.
TypeOK ==
    /\ child \in {"alive", "zombie", "reaped"} /\ helper \in BOOLEAN /\ stranger \in BOOLEAN
    /\ pty \in Seq({"child", "helper"}) /\ Len(pty) <= PtyRoom
    /\ wrote \in 0..MaxOutput /\ host \in {"up", "dying", "gone"}
    /\ reaped \in BOOLEAN /\ wake \in BOOLEAN /\ waiter \in {"wait", "flag", "wake", "done"}
    /\ reader \in {"top", "poll", "read", "join", "guard", "exit", "done"}
    /\ latched \in BOOLEAN /\ overdue \in BOOLEAN /\ logged \in 0..wrote
    /\ guard \in BOOLEAN /\ exit \in BOOLEAN
    /\ kill \in [Callers -> {"idle", "leader", "hup", "term", "killer", "granted", "done"}]
    /\ killer \in [Callers -> BOOLEAN] /\ late \in BOOLEAN
    /\ watcher \in {"read", "check", "hup", "term", "kill", "done"} /\ rechecks \in 0..Rechecks

\* A follower that sees the exit has seen everything before it (finish): the
\* child was reaped and all it ever wrote is in the log, though a helper may
\* write on and the collecting has a deadline.
ExitAfterOutput == TypeOK /\ (exit => child = "reaped" /\ logged = wrote)

\* A session whose child has ended is recorded as ended, whoever still holds
\* its PTY and however much they write.
SessionEnds == child # "alive" ~> exit \/ ~Up

Ended == child # "alive" /\ ~helper
\* A kill that was granted ends the whole group, also what ignores requests,
\* unless the host dies before the grace is over, or the group was gone and
\* the pid a stranger's.
KillEnds == (\E c \in Callers : kill[c] = "granted") ~> Ended \/ ~Up

\* A host that dies with a session takes the session's group with it.
DeathEnds == ~Up /\ guard ~> Ended

\* "Not sent once the child was reaped: from then on its pid may belong to
\* somebody else" (terminate).  This does not hold: the waiter may reap
\* between the look at `reaped` and the signals.
NotSentOnceReaped == ~late

\* The group ends, by a kill or with the host (KillEnds, DeathEnds).
GroupEnds == KillEnds /\ DeathEnds
=============================================================================
