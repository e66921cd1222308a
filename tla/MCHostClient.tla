----------------------------- MODULE MCHostClient -----------------------------
(***************************************************************************)
(* StreamClient and HostSocket for TLC: the two halves of client.rs, what  *)
(* is done on a connection and how one comes about.  They share no         *)
(* variable: a behaviour takes the steps of one of them, and the other     *)
(* stays where it starts.  There are as many processes as the callers may  *)
(* start, and the mishaps that the code provides for.                      *)
(***************************************************************************)
EXTENDS StreamClientProperties, HostSocketProperties

MCCases == {{"stop", "socket"}, {"lock"}}

VARIABLE part
MCInit ==
    /\ part \in {"stream", "socket"}
    /\ Init /\ SocketInit
    /\ part # "stream" => users = Threads /\ ~timeouts
    /\ part # "socket" => may = {"stop", "socket"} /\ sock = None
MCNext ==
    /\ UNCHANGED part
    /\ \/ part = "stream" /\ Next /\ UNCHANGED socketVars
       \/ part = "socket" /\ SocketNext /\ UNCHANGED vars

\* The fairness of each (Fairness, SocketFairness) where its part is taken
InStream(action) == part = "stream" /\ action
InSocket(action) == part = "socket" /\ action
MCSpec ==
    /\ MCInit /\ [][MCNext]_<<vars, socketVars, part>>
    /\ WF_vars(InStream(Reader)) /\ WF_vars(InStream(Host)) /\ WF_vars(InStream(HostStreams))
    /\ \A t \in Threads : WF_vars(InStream(Sends(t)))
    /\ \A h \in Hosts : WF_socketVars(InSocket(Run(h)))
    /\ \A c \in Callers : WF_socketVars(InSocket(Calling(c)))
=============================================================================
