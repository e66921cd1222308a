------------------------------- MODULE MCWindow -------------------------------
(***************************************************************************)
(* WindowSessions and AgentRuns for TLC: what a window keeps of the host's *)
(* sessions, and how it counts the turns of an agent in one.  They share   *)
(* no variable: a behaviour takes the steps of one of them, and the other  *)
(* stays where it starts.                                                  *)
(***************************************************************************)
EXTENDS WindowSessionsProperties, AgentRunsProperties

MCCases ==
    {{}, {"early"}, {"hooks", "early"}, {"status", "asks"}, {"status", "tasks", "early"},
     {"status", "hooks", "tasks"}, {"status", "hooks", "overtakes"}}

\* The Dock ends a window only if another one comes after it
QuitBound == win.leaving = "quit" => count.windows < MaxWindows

VARIABLE part
MCInit ==
    /\ part \in {"sessions", "runs"}
    /\ Init /\ RunsInit
    /\ part # "runs" => case = {}
MCNext ==
    /\ UNCHANGED part
    /\ \/ part = "sessions" /\ Next /\ QuitBound' /\ UNCHANGED runsVars
       \/ part = "runs" /\ RunsNext /\ UNCHANGED vars

\* The fairness of each (FairSpec, RunsSpec) where its part is taken
InSessions(action) == part = "sessions" /\ action
InRuns(action) == part = "runs" /\ action
MCSpec ==
    /\ MCInit /\ [][MCNext]_<<vars, runsVars, part>>
    /\ \A s \in Ids : WF_vars(InSessions(Ending(s)))
    /\ WF_runsVars(InRuns(GoesOn))
=============================================================================
