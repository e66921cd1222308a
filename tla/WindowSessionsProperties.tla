------------------------ MODULE WindowSessionsProperties ------------------------
(***************************************************************************)
(* What must hold of the sessions in the host, whatever windows come and   *)
(* go.                                                                     *)
(***************************************************************************)
EXTENDS WindowSessions

Agents == Cardinality(Live \cap agent) + (IF surface["agent"].at = "window" THEN 1 ELSE 0)

\* Two agents never work on one conversation: neither when a window comes
\* back to a session, nor when the host does not answer about it, nor beside
\* one that runs in the window.  Except after a window that was killed, or
\* ended by the Dock, before the layout was written, or one whose attachment
\* to the session failed.
OneAgent == excused = {} => Agents <= 1

\* "The session may be running, with an agent in it: a new shell that resumed
\* the same conversation would put a second agent beside the first"
\* (ReattachError).  It is put there after an attachment that failed.
NoSecondAgent == "killed" \notin excused => Agents <= 1

\* A session that runs is in sight of the window: shown, or recorded by a
\* surface, or listed, or about to be ended; unless this window was told
\* nothing about it or lost it on the way.
InSight ==
    Runs => Live \subseteq
        Followed \cup Mentioned(Records) \cup {surface[u].shows : u \in Surfaces} \cup card
            \cup {s \in Ids : ending[s] # "no"} \cup astray

\* Nobody but the window ends it
Elsewhere == HostChanges \/ \E s \in Ids : SessionExits(s)

\* A window that leaves its sessions running ends none that its layout
\* mentions: the next window finds every one of them.
LeftRuns ==
    [][win.leaving = "keep" /\ ~Elsewhere
          => \A s \in Mentioned(saved) : life[s] = "live" => life'[s] = "live"]_vars

\* The session of a pane that was closed ends, whether or not the host can
\* be asked, unless the window goes first.
EndsClosed ==
    \A s \in Ids : ending[s] \in {"closing", "again", "end"} ~> (life[s] # "live" \/ ~Runs)
=============================================================================
