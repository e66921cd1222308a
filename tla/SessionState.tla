---------------------------- MODULE SessionState ----------------------------
(***************************************************************************)
(* What is known of a session's agent with the window closed: the state    *)
(* that a window published, the program's own reports (ProgramWatch), the  *)
(* time of the last `send`, and the reading that cli/closed_window.rs      *)
(* makes of the three.                                                     *)
(*                                                                         *)
(* Every part has a lock of its own, and Session::info takes them one      *)
(* after another.  All stamps are of one clock that does not go back.      *)
(***************************************************************************)
EXTENDS Integers, Sequences, FiniteSets

CONSTANTS
    Conns,       \* connections that publish states
    Rails,       \* what is published: runs_ended and status
    Reports,     \* what the program reports; "cleared" takes its record back
    MaxTime, MaxReports, MaxPublished   \* bounds of the model

ASSUME SessionStateAssumption ==
    /\ \A rail \in Rails : rail.runs \in Nat
    /\ Reports \subseteq {"working", "blocked", "done", "idle", "error", "cleared"}
    /\ MaxTime \in Nat \ {0} /\ MaxReports \in Nat /\ MaxPublished \in Nat

VARIABLES
    now,        \* the host's clock, from 1
    watch,      \* ProgramWatch; stamped 0 before the first report
    reporting,  \* the connection that holds the lock of the reports
    published,  \* agent_state: none or one; `by` is for the properties
    conn,       \* of each connection: its step, and what it publishes
    sent,       \* sent_at_ms, 0 before the first
    reading,    \* the reader's step, what it has got so far, what it shows
    news,       \* ghost: a report or a state since the last note of a send
    ends,       \* ghost: the stamps of the turns that ended
    used        \* of the bounds: reports, publications, sends

stateVars == <<now, watch, reporting, published, conn, sent, reading,
               news, ends, used>>

NoReading == [at |-> "idle", sent |-> 0, report |-> {}, calm |-> FALSE,
              of |-> {}, status |-> "none", runs |-> 0]
StateInit ==
    /\ now = 1 /\ sent = 0 /\ news = FALSE /\ ends = <<>>
    /\ watch = [state |-> "none", inTurn |-> FALSE, turns |-> 0, at |-> 0]
    /\ reporting = {} /\ published = {}
    /\ conn = [c \in Conns |-> [at |-> "open", turns |-> 0, stamp |-> 0, state |-> {}]]
    /\ reading = NoReading
    /\ used = [reports |-> 0, published |-> 0, sends |-> 0]

Tick ==
    /\ now < MaxTime /\ now' = now + 1
    /\ UNCHANGED <<watch, reporting, published, conn, sent, reading, news, ends, used>>

(***************************************************************************)
(* The program's reports: ProgramWatch::apply.                             *)
(***************************************************************************)
Starts(state) == state \in {"working", "blocked"}
EndsTurn(state) == state \in {"done", "idle", "error"} /\ watch.inTurn
Report(state) ==
    /\ reporting = {} /\ used.reports < MaxReports
    /\ watch' = [state |-> state, at |-> now,
                 inTurn |-> Starts(state) \/ (watch.inTurn /\ ~EndsTurn(state)),
                 turns |-> watch.turns + IF EndsTurn(state) THEN 1 ELSE 0]
    /\ ends' = IF EndsTurn(state) THEN Append(ends, now) ELSE ends
    /\ news' = TRUE
    /\ used' = [used EXCEPT !.reports = @ + 1]
    /\ UNCHANGED <<now, reporting, published, conn, sent, reading>>

(***************************************************************************)
(* A connection publishes a state, or takes back what was said.            *)
(***************************************************************************)
KeepsFaulty(c) == reporting' = reporting
Keeps(c) == reporting' = {c}
Count(c, state) ==
    /\ conn[c].at = "open" /\ reporting = {} /\ used.published < MaxPublished
    /\ Keeps(c)
    /\ conn' = [conn EXCEPT ![c] = [@ EXCEPT !.at = "stamps", !.turns = watch.turns,
                                              !.state = state]]
    /\ used' = [used EXCEPT !.published = @ + 1]
    /\ UNCHANGED <<now, watch, published, sent, reading, news, ends>>

Stamp(c) ==
    /\ conn[c].at = "stamps"
    /\ conn' = [conn EXCEPT ![c].at = "publishes", ![c].stamp = now]
    /\ UNCHANGED <<now, watch, reporting, published, sent, reading, news, ends, used>>
Publish(c) ==
    /\ conn[c].at = "publishes"
    /\ published' = {[rail |-> rail, at |-> conn[c].stamp, publisher |-> {c},
                      by |-> c, turns |-> conn[c].turns] : rail \in conn[c].state}
    /\ reporting' = reporting \ {c} /\ news' = TRUE
    /\ conn' = [conn EXCEPT ![c] = [at |-> "open", turns |-> 0, stamp |-> 0, state |-> {}]]
    /\ UNCHANGED <<now, watch, sent, reading, ends, used>>

\* its thread sees the socket closed, between two requests
PublisherGoneFaulty(c) ==
    /\ conn[c].at = "open"
    /\ conn' = [conn EXCEPT ![c].at = "gone"]
    /\ published' = {[p EXCEPT !.publisher = {}] : p \in published}
    /\ UNCHANGED <<now, watch, reporting, sent, reading, news, ends, used>>
PublisherGone(c) ==
    /\ conn[c].at = "open"
    /\ conn' = [conn EXCEPT ![c].at = "gone"]
    /\ published' = {[p EXCEPT !.publisher = @ \ {c}] : p \in published}
    /\ UNCHANGED <<now, watch, reporting, sent, reading, news, ends, used>>

(***************************************************************************)
(* A send has written its text and notes it.                               *)
(***************************************************************************)
NoteSent ==
    /\ used.sends = 0 /\ used' = [used EXCEPT !.sends = 1]
    /\ sent' = now /\ news' = FALSE
    /\ UNCHANGED <<now, watch, reporting, published, conn, reading, ends>>

(***************************************************************************)
(* A reader: Session::info in its order, then ClosedWindow::published.  It *)
(* reads once; when is left open.                                          *)
(***************************************************************************)
ReadSent ==
    /\ reading.at = "idle"
    /\ reading' = [NoReading EXCEPT !.at = "reports", !.sent = sent,
                                    !.calm = sent > 0 /\ ~news]
    /\ UNCHANGED <<now, watch, reporting, published, conn, sent, news, ends, used>>
ReadReport ==
    /\ reading.at = "reports" /\ reporting = {}
    /\ reading' = [reading EXCEPT !.at = "state",
                                  !.report = IF watch.at = 0 THEN {} ELSE {watch}]
    /\ UNCHANGED <<now, watch, reporting, published, conn, sent, news, ends, used>>

SentSince(p) == reading.sent > 0 /\ reading.sent >= p.at
NewestFaulty(p) ==
    {report \in reading.report :
        report.at > p.at /\ (SentSince(p) => report.at >= reading.sent)}
Newest(p) ==
    {report \in reading.report :
        report.at > p.at /\ (SentSince(p) => report.at > reading.sent)}
\* apply_report
Word(state) ==
    CASE state = "working" -> "running"
      [] state = "blocked" -> "waiting"
      [] state = "error" -> "failed"
      [] OTHER -> "idle"
Since(p, report) == IF report.turns > p.turns THEN report.turns - p.turns ELSE 0
Show(p, status, runs) ==
    reading' = [reading EXCEPT !.at = "shown", !.of = {p}, !.status = status, !.runs = runs,
                               !.report = Newest(p)]
ReadState ==
    /\ reading.at = "state"
    /\ \/ published = {} /\ reading' = [NoReading EXCEPT !.at = "shown"]
       \/ \E p \in published :
            \/ \E report \in Newest(p) :
                 Show(p, Word(report.state), p.rail.runs + Since(p, report))
            \/ Newest(p) = {} /\ Show(p, IF SentSince(p) THEN "running" ELSE p.rail.status,
                                      p.rail.runs)
    /\ UNCHANGED <<now, watch, reporting, published, conn, sent, news, ends, used>>

StateNext ==
    \/ Tick \/ NoteSent
    \/ \E state \in Reports : Report(state)
    \/ \E c \in Conns :
         \/ \E state \in {{}} \cup {{rail} : rail \in Rails} : Count(c, state)
         \/ Stamp(c) \/ Publish(c) \/ PublisherGone(c)
    \/ ReadSent \/ ReadReport \/ ReadState

StateSpec == StateInit /\ [][StateNext]_stateVars
=============================================================================
