-------------------------- MODULE HostSocketProperties --------------------------
(***************************************************************************)
(* What must hold of the hosts that share a socket path.                   *)
(***************************************************************************)
EXTENDS HostSocket

\* Type correctness.
SocketTypeOK ==
    /\ sock \in Hosts \cup {None, Stale}
    /\ made \in 0..Cardinality(Hosts) /\ lock \in 0..made
    /\ process \in [Hosts -> {"off", "open", "flock", "probe", "unlink", "bind", "serve",
                           "again", "rebind", "stop", "remove", "close", "gone"}]
    /\ opened \in [Hosts -> 0..made]
    /\ caller \in [Callers -> {"first", "start", "retry", "connected", "failed"}]
    /\ on \in [Callers -> Hosts \cup {None}]
    /\ cleaned \subseteq may /\ may \in Cases

\* The mishaps the code provides for: the lock file may be removed where hosts
\* go on serving at their socket, and the socket file where the lock is kept.
ProvidedFor == \A mishaps \in Cases : "lock" \in mishaps => mishaps = {"lock"}

\* A host removes from the path only what is stale or its own: never the
\* socket of another host that is serving, whose sessions could then not be
\* reached (server.rs:16-20, "stale by definition").  With Cases where the lock
\* file is removed and the socket file too, or hosts stop, this does not hold.
Removes(h) ==
    /\ process[h] \in {"unlink", "again", "remove"}
    /\ process'[h] \in {"bind", "rebind", "close"}
StaleOnly ==
    [][\A h \in Hosts : Removes(h) => sock \notin Serving \ {h}]_socketVars

\* Callers that race to start a host end up at the same one: whoever is
\* connected to a host that serves is connected to the only one.
OneHost ==
    /\ SocketTypeOK
    /\ \A c \in Callers : on[c] \in Serving => Serving = {on[c]}

\* A socket that was removed under its host is bound again, and the host can be
\* reached by those who come later (server.rs:213-230).
BindsAgain ==
    \A h \in Hosts : (h \in Serving /\ sock # h) ~> (sock = h \/ h \in Stopping)

\* Every caller of ensure_running ends up connected (client.rs:727-729), unless
\* a host went away meanwhile.
EndsConnected == "stop" \notin may ~> \A c \in Callers : caller[c] = "connected"

\* "Every caller ends up connected to the one that stayed" (client.rs:727-729),
\* without that exception.  A host that was started while another one was
\* going away finds the lock held and exits, and nobody starts one more.
AllConnected == \A c \in Callers : <>(caller[c] = "connected")

\* One host has the path, and no other takes it from it (OneHost, StaleOnly).
PathKept == []OneHost /\ StaleOnly

\* The host can be reached again, and its callers reach it (BindsAgain,
\* EndsConnected).
Reached == BindsAgain /\ EndsConnected
=============================================================================
