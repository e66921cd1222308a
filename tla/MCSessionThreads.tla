--------------------------- MODULE MCSessionThreads ---------------------------
(***************************************************************************)
(* SessionEnd and SessionTerminal for TLC: what the threads of a session   *)
(* do about its end, and about its size.  They share no variable: a        *)
(* behaviour takes the steps of one of them, and the other stays where it  *)
(* starts.                                                                 *)
(***************************************************************************)
EXTENDS SessionEndProperties, SessionTerminalProperties

VARIABLE part
MCInit ==
    /\ part \in {"end", "terminal"}
    /\ Init /\ TerminalInit
    /\ part # "end" => ~helper
    /\ part # "terminal" => engine
MCNext ==
    /\ UNCHANGED part
    /\ \/ part = "end" /\ Next /\ UNCHANGED terminalVars
       \/ part = "terminal" /\ TerminalNext /\ UNCHANGED vars

\* The fairness of each (Fairness, TerminalFairness) where its part is taken
InEnd(action) == part = "end" /\ action
InTerminal(action) == part = "terminal" /\ action
MCSpec ==
    /\ MCInit /\ [][MCNext]_<<vars, terminalVars, part>>
    /\ WF_vars(InEnd(Waiter)) /\ WF_vars(InEnd(Reader)) /\ WF_vars(InEnd(Deadline))
    /\ \A c \in Callers :
        WF_vars(InEnd(Killing(c))) /\ WF_vars(InEnd(KillerKills(c)))
    /\ WF_vars(InEnd(HostIsGone)) /\ WF_vars(InEnd(InitReaps)) /\ WF_vars(InEnd(Watcher))
    /\ \A t \in Threads : WF_terminalVars(InTerminal(Call(t)))
    /\ WF_terminalVars(InTerminal(OutputToLog))
    /\ WF_terminalVars(InTerminal(FinishEngine \/ FinishExit))
=============================================================================
