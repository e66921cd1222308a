---------------------------- MODULE WindowSessions ----------------------------
(***************************************************************************)
(* Windows that come and go, and the sessions that stay in the host:       *)
(* src-app/src/terminal/host_session.rs and held_sessions.rs, with         *)
(* app/held_sessions.rs, app/session.rs and app/exit_guard.rs.             *)
(*                                                                         *)
(* One window at a time runs.  It has an agent's surface, which is typed   *)
(* the command that resumes the agent's conversation when its shell is a   *)
(* new one, and a tab, in which a session of the card can be opened.  The  *)
(* saved layout says which session each surface showed.  The host answers, *)
(* or does not, or is gone, and its sessions with it.                      *)
(***************************************************************************)
EXTENDS Integers, Sequences, FiniteSets

CONSTANTS
    Ids,          \* sessions of the host, in the order they are started
    MaxWindows, MaxHost   \* bounds of the model: windows, changes of the host

ASSUME WindowSessionsAssumption ==
    /\ IsFiniteSet(Ids) /\ Ids = 1..Cardinality(Ids)
    /\ MaxWindows \in Nat /\ MaxHost \in Nat

VARIABLES
    host,      \* it serves, is mute, or is dead
    life,      \* of each session: free, live, ended and held, gone
    agent,     \* sessions the resuming command was typed into
    saved,     \* the layout's file
    win,       \* the window: whether it runs, whether it is leaving
    surface,   \* its surfaces
    ending,    \* threads that end a session
    card,      \* sessions the layout does not mention (held_unshown)
    save,      \* the snapshot waiting to be written
    astray,    \* ghost: sessions this window lost sight of
    excused,   \* ghost: how an agent's session was left out of the layout
    count      \* of the bounds

vars == <<host, life, agent, saved, win, surface, ending, card, save, astray, excused, count>>
ghosts == <<astray, excused>>

None == 0
Absent == -1
Surfaces == {"agent", "tab"}
Live == {s \in Ids : life[s] = "live"}
Fresh == {s \in Ids : life[s] = "free" /\ \A r \in Ids : r < s => life[r] # "free"}
Set(f, S, v) == [x \in DOMAIN f |-> IF x \in S THEN v ELSE f[x]]

Nothing == [at |-> "none", held |-> None, shows |-> None]
At(u, step) == [surface EXCEPT ![u].at = step]
Shows(u, step, s) == [surface EXCEPT ![u] = [at |-> step, held |-> @.held, shows |-> s]]

(***************************************************************************)
(* What the layout records: the session a surface shows, or the one it is  *)
(* to be attached to.                                                      *)
(***************************************************************************)
Recorded(u) ==
    IF surface[u].at \in {"shown", "ended"} THEN surface[u].shows ELSE surface[u].held
Records == [u \in Surfaces |-> IF surface[u].at \in {"none", "closed"} THEN Absent ELSE Recorded(u)]
Mentioned(layout) == {layout[u] : u \in Surfaces} \ {None, Absent}

\* The reader's thread follows a session before the window's thread has it
Follows(u) == surface[u].at \in {"attached", "opened", "shown"} /\ surface[u].shows # None
Followed == {surface[u].shows : u \in {v \in Surfaces : Follows(v)}}
Runs == win.up /\ win.leaving = "no"

(***************************************************************************)
(* A window starts: the layout is restored and the host is asked what it   *)
(* holds.  One that does not answer in time is taken to hold nothing.      *)
(***************************************************************************)
Listed == IF host = "serving" THEN Live ELSE {}
UnshownFaulty(listed) == {}                  \* what no pane shows is not listed
Unshown(listed) == listed \ Mentioned(saved)
StartWindow ==
    /\ ~win.up /\ count.windows < MaxWindows
    /\ count' = [count EXCEPT !.windows = @ + 1]
    /\ \E listed \in {Listed, {}} :
        card' = Unshown(listed) /\ astray' = Live \ listed
    /\ win' = [up |-> TRUE, leaving |-> "no"]
    /\ life' = IF host = "serving" THEN [s \in Ids |-> IF life[s] = "ended" THEN "gone" ELSE life[s]]
               ELSE life
    /\ surface' = [u \in Surfaces |->
                     IF saved[u] = Absent THEN Nothing
                     ELSE [at |-> "unshown", held |-> saved[u], shows |-> None]]
    /\ UNCHANGED <<host, agent, saved, ending, save, excused>>

(***************************************************************************)
(* A surface is shown for the first time (attach_or_open).  The steps are  *)
(* the requests of a background thread.                                    *)
(***************************************************************************)
Show(u) ==
    /\ Runs /\ surface[u].at = "unshown"
    /\ surface' = At(u, IF surface[u].held = None THEN "spawn" ELSE "ask")
    /\ UNCHANGED <<host, life, agent, saved, win, ending, card, save, ghosts, count>>

ofHost == <<host, life, agent>>
ofWindow == <<saved, win, card, save, count>>

\* reattach: nothing listening is an answer, and so is a list without the
\* session; anything else is not.
GoneFaulty(s) == host # "serving" \/ life[s] # "live"
Gone(s) == host = "dead" \/ (host = "serving" /\ life[s] # "live")
Ask(u) ==
    LET s == surface[u].held IN
    /\ win.up /\ surface[u].at = "ask"
    /\ surface' = At(u, IF Gone(s) THEN "spawn"
                        ELSE IF host = "serving" THEN "attach" ELSE "unanswered")
    /\ life' = IF host = "serving" /\ life[s] = "ended" THEN [life EXCEPT ![s] = "gone"] ELSE life
    /\ UNCHANGED <<host, agent, ending, ofWindow, ghosts>>

\* The pane's connection, then the attachment on it
Attach(u) ==
    LET s == surface[u].held IN
    /\ win.up /\ surface[u].at = "attach"
    /\ \/ host = "serving" /\ life[s] = "live" /\ surface' = Shows(u, "attached", s)
          /\ UNCHANGED ghosts
       \/ surface' = At(u, "unanswered") /\ host # "serving" /\ UNCHANGED ghosts
       \/ surface' = At(u, "failed")
          /\ astray' = astray \cup {s} /\ excused' = IF s \in agent THEN excused \cup {"lost"} ELSE excused
    /\ UNCHANGED <<ofHost, ending, ofWindow>>

\* open_or: in the host, which is started when there is none; in the window
\* when the host will not take it, has failed lately or is too late to say
\* that it has
Spawn(u) ==
    /\ win.up /\ surface[u].at = "spawn"
    /\ \/ \E s \in Fresh :
            /\ host # "mute" /\ host' = "serving"
            /\ life' = [life EXCEPT ![s] = "live"]
            /\ surface' = Shows(u, "follow", s)
            /\ UNCHANGED <<agent, astray>>
       \/ \E s \in Fresh :
            /\ host = "mute" /\ life' = [life EXCEPT ![s] = "live"]
            /\ surface' = At(u, "in_window") /\ astray' = astray \cup {s}
            /\ UNCHANGED <<host, agent>>
       \/ surface' = At(u, "in_window") /\ UNCHANGED <<ofHost, astray>>
    /\ UNCHANGED <<ending, ofWindow, excused>>

\* The host started the shell and the pane cannot follow it: it is ended
FollowNew(u) ==
    LET s == surface[u].shows IN
    /\ win.up /\ surface[u].at = "follow"
    /\ \/ host = "serving" /\ life[s] = "live"
          /\ surface' = At(u, "opened") /\ UNCHANGED ending
       \/ surface' = Shows(u, "lost_new", None) /\ ending' = [ending EXCEPT ![s] = "end"]
    /\ UNCHANGED <<ofHost, ofWindow, ghosts>>

(***************************************************************************)
(* The window's thread is handed the outcome.  A surface closed meanwhile  *)
(* drops it, and with it the session; one whose shell is new is typed its  *)
(* command.                                                                *)
(***************************************************************************)
Promote(u) ==
    /\ Runs /\ surface[u].at \in {"attached", "opened"}
    /\ surface' = [surface EXCEPT ![u] = [at |-> "shown", held |-> None, shows |-> @.shows]]
    /\ agent' = IF u = "agent" /\ surface[u].at = "opened" THEN agent \cup {surface[u].shows}
                ELSE agent
    /\ save' = {[Records EXCEPT ![u] = surface[u].shows]}
    /\ UNCHANGED <<host, life, saved, win, ending, card, ghosts, count>>

\* A session the host did not answer about stays recorded
Kept(u) == IF surface[u].at = "unanswered" THEN surface[u].held ELSE None
Settle(u) ==
    /\ Runs /\ surface[u].at \in {"in_window", "failed", "unanswered", "lost_new"}
    /\ surface' = [surface EXCEPT ![u] =
                     [at |-> IF @.at = "in_window" THEN "window" ELSE "lost",
                      held |-> Kept(u), shows |-> None]]
    /\ UNCHANGED <<ofHost, ending, ofWindow, ghosts>>

(***************************************************************************)
(* Sessions that no pane shows.                                            *)
(***************************************************************************)
OpenHeld(s) ==
    /\ Runs /\ s \in card /\ surface["tab"].at \in {"none", "closed"}
    /\ card' = card \ {s}
    /\ surface' = [surface EXCEPT !["tab"] = [at |-> "unshown", held |-> s, shows |-> None]]
    /\ save' = {[Records EXCEPT !["tab"] = s]}
    /\ UNCHANGED <<ofHost, saved, win, ending, ghosts, count>>
EndHeld(s) ==
    /\ Runs /\ s \in card
    /\ card' = card \ {s} /\ ending' = [ending EXCEPT ![s] = "end"]
    /\ UNCHANGED <<ofHost, saved, win, surface, save, ghosts, count>>

(***************************************************************************)
(* A pane is closed.  Its handle is dropped, and its reader ends the       *)
(* session; a surface never shown has its session ended by the id.         *)
(***************************************************************************)
Close(u) ==
    LET at == surface[u].at IN
    /\ Runs /\ at \in {"shown", "ended", "lost", "window", "unshown", "attached", "opened",
                       "failed", "unanswered"}
    /\ ending' = IF Follows(u) THEN [ending EXCEPT ![surface[u].shows] = "closing"]
                 ELSE IF at = "unshown" /\ surface[u].held # None /\ u = "agent"
                         /\ host = "serving" /\ life[surface[u].held] = "live"
                 THEN [ending EXCEPT ![surface[u].held] = "end"] ELSE ending
    /\ astray' = IF Follows(u) THEN astray ELSE astray \cup {surface[u].held}
    /\ surface' = [surface EXCEPT ![u] = [Nothing EXCEPT !.at = "closed"]]
    /\ save' = {[Records EXCEPT ![u] = Absent]}
    /\ UNCHANGED <<ofHost, saved, win, card, excused, count>>

(***************************************************************************)
(* The end of a session.                                                   *)
(***************************************************************************)
\* PaneReader::run: a window that is leaving ends nothing
LeavesFaulty == FALSE                        \* the window does not say that it leaves
Leaves == win.leaving # "no"
Ends(s) == life' = IF life[s] = "live" THEN [life EXCEPT ![s] = "ended"] ELSE life
Goes(s, step) == ending' = [ending EXCEPT ![s] = step]
ReaderLooks(s) ==
    /\ win.up /\ ending[s] = "closing"
    /\ \/ Leaves /\ Goes(s, "no") /\ UNCHANGED life
       \/ ~Leaves /\ host = "serving" /\ Ends(s) /\ Goes(s, "forget")
       \/ ~Leaves /\ host # "serving" /\ Goes(s, "again") /\ UNCHANGED life
    /\ UNCHANGED <<host, agent, surface, ofWindow, ghosts>>
ReaderLooksAgain(s) ==
    /\ win.up /\ ending[s] = "again"
    /\ Goes(s, IF Leaves THEN "no" ELSE "end")
    /\ UNCHANGED <<ofHost, surface, ofWindow, ghosts>>
\* end_session: a host that cannot be asked has the processes ended directly
EndSessionFaulty(s) ==                       \* the host is only asked
    /\ win.up /\ ending[s] = "end"
    /\ IF host = "serving" THEN Ends(s) ELSE UNCHANGED life
    /\ Goes(s, IF host = "serving" THEN "forget" ELSE "no")
    /\ UNCHANGED <<host, agent, surface, ofWindow, ghosts>>
EndSession(s) ==
    /\ win.up /\ ending[s] = "end"
    /\ Ends(s) /\ Goes(s, IF host = "serving" THEN "forget" ELSE "no")
    /\ UNCHANGED <<host, agent, surface, ofWindow, ghosts>>
Forget(s) ==
    /\ win.up /\ ending[s] = "forget"
    /\ life' = IF host = "serving" THEN [life EXCEPT ![s] = "gone"] ELSE life
    /\ Goes(s, "no")
    /\ UNCHANGED <<host, agent, surface, ofWindow, ghosts>>

(***************************************************************************)
(* The layout is written a while after it changed, and when the window     *)
(* goes.                                                                   *)
(***************************************************************************)
WriteLayout ==
    /\ win.up /\ saved' \in save /\ save' = {}
    /\ UNCHANGED <<ofHost, win, surface, ending, card, ghosts, count>>

\* leave_sessions_in_host_and_quit
Keep ==
    /\ Runs
    /\ saved' = Records /\ save' = {}
    /\ win' = [win EXCEPT !.leaving = "keep"]
    /\ UNCHANGED <<ofHost, surface, ending, card, ghosts, count>>
\* stop_all: what a host that is asked in vain runs for this window is ended
\* directly
Stops ==
    /\ host' = IF host = "serving" THEN "dead" ELSE host
    /\ life' = IF host = "serving" THEN Set(life, {s \in Ids : life[s] # "free"}, "gone")
               ELSE Set(life, Followed \cap Live, "ended")
StopAll ==
    /\ Runs /\ Stops
    /\ saved' = Records /\ save' = {}
    /\ win' = [win EXCEPT !.leaving = "stop"]
    /\ UNCHANGED <<agent, surface, ending, card, ghosts, count>>
\* settle_host_sessions_on_quit, by the Dock's Quit or a logout: the sessions
\* are left or stopped, and the layout is left to its delay
SettleOnQuit ==
    /\ Runs /\ (Stops \/ UNCHANGED <<host, life>>)
    /\ win' = [win EXCEPT !.leaving = "quit"]
    /\ UNCHANGED <<agent, saved, surface, ending, card, save, ghosts, count>>
\* The panes are dropped, and then the process is over
TearDown ==
    /\ win.up /\ ~Runs
    /\ ending' = Set(ending, Followed, "closing")
    /\ surface' = [u \in Surfaces |-> IF Follows(u) THEN Nothing ELSE surface[u]]
    /\ UNCHANGED <<ofHost, ofWindow, ghosts>>

Away == /\ win' = [up |-> FALSE, leaving |-> "no"]
        /\ surface' = [u \in Surfaces |-> Nothing]
        /\ ending' = [s \in Ids |-> "no"]
        /\ card' = {} /\ save' = {} /\ astray' = {}
\* An agent that the layout was not written for in time
Unwritten == IF Live \cap agent \subseteq Mentioned(saved) THEN {} ELSE {"killed"}
Exit ==
    /\ win.up /\ ~Runs /\ Followed = {}
    /\ Away
    /\ excused' = IF win.leaving = "quit" THEN excused \cup Unwritten ELSE excused
    /\ UNCHANGED <<ofHost, saved, count>>
Crash ==
    /\ win.up /\ Away
    /\ excused' = excused \cup Unwritten
    /\ UNCHANGED <<ofHost, saved, count>>

(***************************************************************************)
(* The host and the programs in it.                                        *)
(***************************************************************************)
SessionExits(s) ==
    /\ life[s] = "live" /\ life' = [life EXCEPT ![s] = "ended"]
    /\ ending' = IF s \in Followed THEN [ending EXCEPT ![s] = "forget"] ELSE ending
    /\ surface' = [u \in Surfaces |-> IF surface[u].at = "shown" /\ surface[u].shows = s
                                      THEN [surface[u] EXCEPT !.at = "ended"] ELSE surface[u]]
    /\ UNCHANGED <<host, agent, ofWindow, ghosts>>
HostChanges ==
    /\ count.host < MaxHost /\ count' = [count EXCEPT !.host = @ + 1]
    /\ \/ host = "serving" /\ host' = "mute" /\ UNCHANGED life
       \/ host = "mute" /\ host' = "serving" /\ UNCHANGED life
       \/ host # "dead" /\ host' = "dead"
          /\ life' = Set(life, {s \in Ids : life[s] # "free"}, "gone")
    /\ UNCHANGED <<agent, saved, win, surface, ending, card, save, ghosts>>

(***************************************************************************)
(* The specification.                                                      *)
(***************************************************************************)
Init ==
    /\ host = "dead"
    /\ life = [s \in Ids |-> "free"] /\ agent = {}
    /\ saved = [agent |-> None, tab |-> Absent]
    /\ win = [up |-> FALSE, leaving |-> "no"]
    /\ surface = [u \in Surfaces |-> Nothing]
    /\ ending = [s \in Ids |-> "no"]
    /\ card = {} /\ save = {} /\ astray = {} /\ excused = {}
    /\ count = [windows |-> 0, host |-> 0]

Opening(u) == Ask(u) \/ Attach(u) \/ Spawn(u) \/ FollowNew(u) \/ Promote(u) \/ Settle(u)
Ending(s) == ReaderLooks(s) \/ ReaderLooksAgain(s) \/ EndSession(s) \/ Forget(s)
Next == \/ StartWindow \/ WriteLayout \/ Keep \/ StopAll \/ SettleOnQuit \/ TearDown \/ Exit \/ Crash
        \/ HostChanges
        \/ \E u \in Surfaces : Show(u) \/ Opening(u) \/ Close(u)
        \/ \E s \in Ids : OpenHeld(s) \/ EndHeld(s) \/ Ending(s) \/ SessionExits(s)

Spec == Init /\ [][Next]_vars
\* The threads that end a session run as long as the window does
FairSpec == Spec /\ \A s \in Ids : WF_vars(Ending(s))
=============================================================================
