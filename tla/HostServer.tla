------------------------------ MODULE HostServer ------------------------------
(***************************************************************************)
(* The session host's process: crates/splitlane-host/src/server.rs, from   *)
(* run to its return.  Who is connected, what is started, and when and how *)
(* the host goes away.                                                     *)
(*                                                                         *)
(* The threads are the main one (the accept loop of run, then              *)
(* end_sessions) and one per connection (serve).  They share atomics and   *)
(* the list of sessions, and nothing orders them but those: a connection   *)
(* may be anywhere in a request when the main thread returns, and with it  *)
(* the process ends.                                                       *)
(*                                                                         *)
(* Data.  A session is its child (SessionEnd has the group, the reader and *)
(* the watcher); a request is one of those that concern the host's life.   *)
(***************************************************************************)
EXTENDS Integers, FiniteSets

CONSTANTS
    Clients,          \* each connects once
    Sessions,         \* ids that may be given to sessions
    NoSession,
    MaxConnections    \* HostConfig::max_connections

ASSUME HostServerAssumption ==
    /\ MaxConnections \in Nat
    /\ NoSession \notin Sessions
    /\ IsFiniteSet(Clients)

VARIABLES
    main,         \* where the main thread is
    idle,         \* idle_since is set
    reason,       \* why the loop was left
    clients,      \* Host::clients
    stopping,     \* Host::stopping
    requested,    \* Host::shutdown_requested
    signalled,    \* SIGNALLED
    list,         \* Host::sessions
    ending,       \* the sessions end_sessions found running
    conn,         \* per client: its connection's thread, and what it holds
    left,         \* the clients that closed their end
    child,        \* per session: its child
    exited,       \* the sessions whose exit is recorded
    told          \* the sessions whose start was confirmed to a client

mains == <<main, idle, reason>>
flags == <<stopping, requested, signalled>>
sessions == <<child, exited, told>>
vars == <<mains, clients, flags, list, ending, conn, left, sessions>>

\* Host::running
Running == list \ exited
InProcess == main # "gone"
At(c, pc) == InProcess /\ conn[c].pc = pc
Goes(c, pc) == conn' = [conn EXCEPT ![c].pc = pc]

(***************************************************************************)
(* The main thread: the loop of run.                                       *)
(***************************************************************************)
LeaveLoop(why) == main' = "stop" /\ reason' = why /\ idle' = idle

\* Faulty: asked to stop, the host looks whether anybody is connected
AskedFaulty == (requested \/ signalled) /\ clients = 0
Asked == requested \/ signalled
StopAsked ==
    /\ main = "loop" /\ Asked
    /\ LeaveLoop("asked")
    /\ UNCHANGED <<clients, flags, list, ending, conn, left, sessions>>

\* "busy" is read in two parts: the connections, then the sessions
LookAtClients ==
    /\ main = "loop" /\ ~Asked
    /\ IF clients > 0
       THEN main' = "accept" /\ idle' = FALSE
       ELSE main' = "looking" /\ idle' = idle
    /\ UNCHANGED <<reason, clients, flags, list, ending, conn, left, sessions>>

\* Faulty: a session nobody is connected to does not keep the host
KeptFaulty == FALSE
Kept == Running # {}
LookAtSessions ==
    /\ main = "looking"
    /\ \/ Kept /\ main' = "accept" /\ idle' = FALSE /\ reason' = reason
       \/ ~Kept /\ main' = "accept" /\ idle' = TRUE /\ reason' = reason
       \/ ~Kept /\ idle /\ LeaveLoop("idle")    \* idle_grace is over
    /\ UNCHANGED <<clients, flags, list, ending, conn, left, sessions>>

\* accept_pending: one tick, every connection that is waiting
Accept(c) ==
    /\ main = "accept" /\ conn[c].pc = "pending"
    /\ clients' = clients + 1
    /\ Goes(c, "serve")
    /\ UNCHANGED <<mains, flags, list, ending, left, sessions>>
AcceptEnds ==
    /\ main = "accept" /\ \A c \in Clients : conn[c].pc # "pending"
    /\ main' = "loop"
    /\ UNCHANGED <<idle, reason, clients, flags, list, ending, conn, left, sessions>>

(***************************************************************************)
(* The main thread: stopping.                                              *)
(***************************************************************************)
Stop ==
    /\ main = "stop"
    /\ stopping' = TRUE /\ main' = "list"
    /\ UNCHANGED <<idle, reason, clients, requested, signalled, list, ending, conn, left, sessions>>

\* end_sessions: whom to end; each is asked, and may ignore it
ListRunning ==
    /\ main = "list"
    /\ ending' = Running
    /\ main' = IF Running = {} THEN "unbind" ELSE "grace"
    /\ UNCHANGED <<idle, reason, clients, flags, list, conn, left, sessions>>

Killed(dead) == child' = [s \in Sessions |-> IF s \in dead THEN "dead" ELSE child[s]]
\* The grace is over, or all of them are gone before
KillRest ==
    /\ main = "grace"
    /\ Killed(ending)
    /\ main' = "reaping"
    /\ UNCHANGED <<idle, reason, clients, flags, list, ending, conn, left, exited, told>>
\* All of their exits are recorded, or REAP_DEADLINE is over
Reaped ==
    /\ main = "reaping"
    /\ main' = "unbind"
    /\ UNCHANGED <<idle, reason, clients, flags, list, ending, conn, left, sessions>>
\* The socket is removed, run returns and the process ends
Return ==
    /\ main = "unbind"
    /\ main' = "gone"
    /\ UNCHANGED <<idle, reason, clients, flags, list, ending, conn, left, sessions>>

(***************************************************************************)
(* A connection's thread: serve.                                           *)
(***************************************************************************)
Full == clients > MaxConnections
\* Faulty: a refused connection is never counted down
GreetFaulty(c) ==
    /\ At(c, "serve")
    /\ \/ Full /\ Goes(c, "over")
       \/ ~Full /\ (Goes(c, "open") \/ Goes(c, "closing"))
    /\ UNCHANGED <<mains, clients, flags, list, ending, left, sessions>>
\* The handshake, unless there are too many; it may fail
Greet(c) ==
    /\ At(c, "serve")
    /\ \/ Full /\ Goes(c, "closing")
       \/ ~Full /\ (Goes(c, "open") \/ Goes(c, "closing"))
    /\ UNCHANGED <<mains, clients, flags, list, ending, left, sessions>>

\* OP_SPAWN: refused by a host that is going
SpawnAsked(c) ==
    /\ At(c, "open") /\ c \notin left
    /\ ~stopping /\ ~requested
    /\ Goes(c, "spawning")
    /\ UNCHANGED <<mains, clients, flags, list, ending, left, sessions>>
\* Session::spawn starts a child, or fails
SpawnStarts(c) ==
    /\ At(c, "spawning")
    /\ \/ \E s \in Sessions :
             /\ child[s] = "none"
             /\ child' = [child EXCEPT ![s] = "up"]
             /\ conn' = [conn EXCEPT ![c] = [@ EXCEPT !.pc = "started", !.holds = s]]
       \/ Goes(c, "open") /\ child' = child
    /\ UNCHANGED <<mains, clients, flags, list, ending, left, exited, told>>
SpawnLists(c) ==
    /\ At(c, "started")
    /\ list' = list \cup {conn[c].holds}
    /\ Goes(c, "listed")
    /\ UNCHANGED <<mains, clients, flags, ending, left, sessions>>
\* Faulty: the host is not asked again whether it is going
SpawnAnswersFaulty(c) ==
    /\ At(c, "listed")
    /\ told' = told \cup {conn[c].holds}
    /\ conn' = [conn EXCEPT ![c] = [@ EXCEPT !.pc = "open", !.holds = NoSession]]
    /\ UNCHANGED <<mains, clients, flags, list, ending, left, child, exited>>
\* A shutdown may have listed the sessions to end before
SpawnAnswers(c) ==
    /\ At(c, "listed")
    /\ IF stopping
       THEN Killed({conn[c].holds}) /\ told' = told
       ELSE told' = told \cup {conn[c].holds} /\ child' = child
    /\ conn' = [conn EXCEPT ![c] = [@ EXCEPT !.pc = "open", !.holds = NoSession]]
    /\ UNCHANGED <<mains, clients, flags, list, ending, left, exited>>

\* OP_SHUTDOWN: refused while a session runs, unless forced
ShutdownCounts(c, force) ==
    /\ At(c, "open") /\ c \notin left
    /\ Running = {} \/ force
    /\ conn' = [conn EXCEPT ![c] = [@ EXCEPT !.pc = "shutdown", !.force = force]]
    /\ UNCHANGED <<mains, clients, flags, list, ending, left, sessions>>
ShutdownAccepts(c) ==
    /\ At(c, "shutdown")
    /\ requested' = TRUE
    /\ conn' = [conn EXCEPT ![c] = [@ EXCEPT !.pc = "open", !.force = FALSE]]
    /\ UNCHANGED <<mains, clients, stopping, signalled, list, ending, left, sessions>>

\* OP_FORGET: only of a session that ended
Forget(c, s) ==
    /\ At(c, "open") /\ c \notin left
    /\ s \in list \cap exited
    /\ list' = list \ {s}
    /\ UNCHANGED <<mains, clients, flags, ending, conn, left, sessions>>

\* The read of the next request fails, or says that the host is going
ReadFails(c) ==
    /\ At(c, "open") /\ (c \in left \/ stopping)
    /\ Goes(c, "closing")
    /\ UNCHANGED <<mains, clients, flags, list, ending, left, sessions>>
CountDown(c) ==
    /\ At(c, "closing")
    /\ clients' = clients - 1
    /\ Goes(c, "over")
    /\ UNCHANGED <<mains, flags, list, ending, left, sessions>>

(***************************************************************************)
(* Clients, children, and the user.                                        *)
(***************************************************************************)
Connect(c) ==
    /\ At(c, "none")
    /\ Goes(c, "pending")
    /\ UNCHANGED <<mains, clients, flags, list, ending, left, sessions>>
Close(c) ==
    /\ conn[c].pc \notin {"none", "closing", "over"} /\ InProcess /\ c \notin left
    /\ left' = left \cup {c}
    /\ UNCHANGED <<mains, clients, flags, list, ending, conn, sessions>>
ChildEnds(s) ==
    /\ child[s] = "up"
    /\ Killed({s})
    /\ UNCHANGED <<mains, clients, flags, list, ending, conn, left, exited, told>>
\* The session's waiter and reader record it
ExitRecorded(s) ==
    /\ InProcess /\ child[s] = "dead"
    /\ exited' = exited \cup {s}
    /\ UNCHANGED <<mains, clients, flags, list, ending, conn, left, child, told>>
Signal ==
    /\ InProcess /\ ~signalled /\ signalled' = TRUE
    /\ UNCHANGED <<mains, clients, stopping, requested, list, ending, conn, left, sessions>>

(***************************************************************************)
(* The specification.                                                      *)
(***************************************************************************)
Init ==
    /\ main = "loop" /\ idle = FALSE /\ reason = "none"
    /\ clients = 0 /\ stopping = FALSE /\ requested = FALSE /\ signalled = FALSE
    /\ list = {} /\ ending = {} /\ left = {}
    /\ conn = [c \in Clients |-> [pc |-> "none", holds |-> NoSession, force |-> FALSE]]
    /\ child = [s \in Sessions |-> "none"] /\ exited = {} /\ told = {}

Main ==
    \/ StopAsked \/ LookAtClients \/ LookAtSessions
    \/ (\E c \in Clients : Accept(c)) \/ AcceptEnds
    \/ Stop \/ ListRunning \/ KillRest \/ Reaped \/ Return
Serve(c) ==
    \/ Greet(c) \/ ReadFails(c) \/ CountDown(c)
    \/ SpawnAsked(c) \/ SpawnStarts(c) \/ SpawnLists(c) \/ SpawnAnswers(c)
    \/ (\E force \in BOOLEAN : ShutdownCounts(c, force)) \/ ShutdownAccepts(c)
    \/ \E s \in Sessions : Forget(c, s)

Next ==
    \/ Main \/ Signal
    \/ \E c \in Clients : Serve(c) \/ Connect(c) \/ Close(c)
    \/ \E s \in Sessions : ChildEnds(s) \/ ExitRecorded(s)

\* The main thread runs on
Spec == Init /\ [][Next]_vars /\ WF_vars(Main)
=============================================================================
