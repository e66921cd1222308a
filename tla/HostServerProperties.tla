-------------------------- MODULE HostServerProperties --------------------------
(***************************************************************************)
(* What must hold of the host's life.                                      *)
(***************************************************************************)
EXTENDS HostServer

\* Type correctness.  In particular the count of connections never goes below
\* zero, where an AtomicUsize would wrap and keep the host for ever.
TypeOK ==
    /\ main \in {"loop", "looking", "accept", "stop", "list", "grace", "reaping", "unbind", "gone"}
    /\ idle \in BOOLEAN /\ reason \in {"none", "asked", "idle"}
    /\ clients \in 0..Cardinality(Clients)
    /\ stopping \in BOOLEAN /\ requested \in BOOLEAN /\ signalled \in BOOLEAN
    /\ list \subseteq Sessions /\ ending \subseteq Sessions
    /\ left \subseteq Clients
    /\ conn \in [Clients -> [pc: {"none", "pending", "serve", "open", "spawning", "started",
                                  "listed", "shutdown", "closing", "over"},
                             holds: Sessions \cup {NoSession}, force: BOOLEAN]]
    /\ child \in [Sessions -> {"none", "up", "dead"}]
    /\ exited \subseteq Sessions /\ told \subseteq Sessions

Served(c) == conn[c].pc \in {"open", "spawning", "started", "listed", "shutdown"}

\* Host::clients counts the connections that have a thread, through refusals
\* and failed handshakes: a count that stayed up would keep an idle host.  Of
\* connections that come at the same moment no more are served than the limit
\* allows, though each one's thread reads the count for itself.
ClientsCounted ==
    /\ TypeOK
    /\ clients = Cardinality({c \in Clients : Served(c) \/ conn[c].pc \in {"serve", "closing"}})
    /\ Cardinality({c \in Clients : Served(c)}) <= MaxConnections

\* A host that leaves because it is idle leaves nobody: no connection, and no
\* session that runs, though the two are looked at one after the other.
IdleAlone ==
    reason = "idle" =>
        /\ \A c \in Clients : ~Served(c) /\ conn[c].pc # "serve"
        /\ \A s \in Sessions : child[s] # "up"

\* No session whose start was confirmed outlives the host: one that was
\* started while the host went away is either seen by end_sessions or sees
\* that the host is going.
ConfirmedEnded == main = "gone" => \A s \in told : child[s] # "up"

\* Nor does any other session (server.rs:836-837 names the one "being started;
\* it would then outlive the host").  This does not hold: the process may end
\* while a thread has started a child and not yet looked at `stopping` again.
NoneOutlives == main = "gone" => \A s \in Sessions : child[s] # "up"

\* A shutdown that is not forced is not accepted while a session runs that
\* somebody was told of (client.rs:555-556).
Accepts(c) == conn[c].pc = "shutdown" /\ conn'[c].pc = "open"
UnforcedRefused ==
    [][\A c \in Clients : Accepts(c) /\ ~conn[c].force => told \cap Running = {}]_vars

\* A connection is told the host is busy only when as many others as may be
\* are served or about to be (lib.rs:141).  This does not hold: of two that
\* come for the last place, each counts the other, and both are refused.
Refused(c) == conn[c].pc = "serve" /\ Full /\ conn'[c].pc = "closing"
RefusedWhenFull ==
    [][\A c \in Clients :
          Refused(c) =>
              Cardinality({d \in Clients \ {c} : Served(d) \/ conn[d].pc = "serve"})
                  >= MaxConnections]_vars

\* A host that accepted a shutdown, or was signalled, goes, whoever stays
\* connected and whatever its sessions ignore.
AskedGoes == (requested \/ signalled) ~> main = "gone"
=============================================================================
