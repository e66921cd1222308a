----------------------- MODULE SessionStateProperties -----------------------
(***************************************************************************)
(* What a reader may rely on with the window closed.                       *)
(***************************************************************************)
EXTENDS SessionState

\* A reading that takes the program's report adds to the window's count every
\* turn that ended after the window spoke, and none that ended before: up to
\* turns stamped in the very millisecond (publish_state, apply_report).
EndedFrom(report, time) == Cardinality({i \in 1..report.turns : ends[i] >= time})
RunsAddUp ==
    reading.at = "shown" => \A p \in reading.of : \A report \in reading.report :
        /\ reading.runs >= p.rail.runs + EndedFrom(report, p.at + 1)
        /\ reading.runs <= p.rail.runs + EndedFrom(report, p.at)

\* After a send, until the program reports or a window speaks, a reader is
\* told of a turn in flight, and never of the one before as if it were the
\* answer (closed_window.rs published).
SendShows ==
    reading.at = "shown" /\ reading.of # {} /\ reading.calm /\ ~news
        => reading.status = "running"

\* Both, of a reading.
ReadingTrue == RunsAddUp /\ SendShows

\* A state is kept current exactly while the connection that published it is
\* there: another that goes does not orphan it, and one that has gone does
\* not leave it live (publish_state, publisher_gone).
OrphanMarked ==
    \A p \in published : (p.publisher # {}) <=> (conn[p.by].at # "gone")
=============================================================================
