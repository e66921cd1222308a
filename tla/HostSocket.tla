------------------------------ MODULE HostSocket ------------------------------
(***************************************************************************)
(* One host per socket: the lock and the socket file of                    *)
(* crates/splitlane-host/src/server.rs, and the callers of ensure_running  *)
(* (client.rs) who start a host when none answers.                         *)
(*                                                                         *)
(* The processes share a directory with two files in it.  A file is named  *)
(* by who made it: the socket by the host that bound it, the lock file by  *)
(* a number, since a removed one that is still open is not the one made    *)
(* after it.  Every system call on the directory is a step of its own.     *)
(***************************************************************************)
EXTENDS Integers, FiniteSets

CONSTANTS
    Callers,      \* of ensure_running
    Hosts,        \* processes they may start
    None,         \* no file
    Stale,        \* the socket of a host that died
    Cases         \* what may happen in one behaviour: sets of mishaps

\* Hosts go away by themselves, idle or asked to; somebody else removes the
\* lock file or the socket file
Mishaps == {"stop", "lock", "socket"}

ASSUME HostSocketAssumption ==
    /\ IsFiniteSet(Hosts)
    /\ None \notin Hosts /\ Stale \notin Hosts /\ None # Stale
    /\ Cases \subseteq SUBSET Mishaps

VARIABLES
    may,          \* the mishaps of this behaviour
    sock,         \* the socket file
    lock,         \* the lock file, 0 when there is none
    made,         \* lock files made so far
    process,      \* per host: where its main thread is
    opened,       \* per host: the lock file it has open
    caller,       \* per caller: where it is
    on,           \* per caller: the host it is connected to
    cleaned       \* the files that were removed: each at most once

socketVars == <<may, sock, lock, made, process, opened, caller, on, cleaned>>

\* Accepting connections, though the main thread may be busy binding again
Serving == {h \in Hosts : process[h] \in {"serve", "again", "rebind"}}
Starting == {h \in Hosts : process[h] \in {"open", "flock", "probe", "unlink", "bind"}}
Stopping == {h \in Hosts : process[h] \in {"stop", "remove", "close"}}

(***************************************************************************)
(* A host.                                                                 *)
(***************************************************************************)
Reaches(h, pc) == process' = [process EXCEPT ![h] = pc]

\* take_lock: the file is opened, and made if it is not there
OpenLock(h) ==
    /\ process[h] = "open"
    /\ lock' = IF lock = 0 THEN made + 1 ELSE lock
    /\ made' = IF lock = 0 THEN made + 1 ELSE made
    /\ opened' = [opened EXCEPT ![h] = lock']
    /\ Reaches(h, "flock")
    /\ UNCHANGED <<may, sock, caller, on, cleaned>>

\* take_lock: nobody else has locked this file
Has(g, file) == opened[g] = file /\ process[g] \notin {"off", "open", "flock", "gone"}
\* Faulty: the lock is not exclusive
FlockFaulty(h) ==
    /\ process[h] = "flock"
    /\ Reaches(h, "probe")
    /\ UNCHANGED <<may, sock, lock, made, opened, caller, on, cleaned>>
Flock(h) ==
    /\ process[h] = "flock"
    /\ Reaches(h, IF \E g \in Hosts \ {h} : Has(g, opened[h]) THEN "gone" ELSE "probe")
    /\ UNCHANGED <<may, sock, lock, made, opened, caller, on, cleaned>>

\* The socket itself is asked, in case the lock file had been removed
Answers == sock \in Serving
Probe(h) ==
    /\ process[h] = "probe"
    /\ Reaches(h, IF Answers THEN "gone" ELSE "unlink")
    /\ UNCHANGED <<may, sock, lock, made, opened, caller, on, cleaned>>

\* bind: what is there is removed, then the socket is made
Unlink(h) ==
    /\ process[h] \in {"unlink", "again"}
    /\ sock' = None
    /\ Reaches(h, IF process[h] = "unlink" THEN "bind" ELSE "rebind")
    /\ UNCHANGED <<may, lock, made, opened, caller, on, cleaned>>
Bind(h) ==
    /\ process[h] \in {"bind", "rebind"}
    /\ IF sock = None
       THEN sock' = h /\ Reaches(h, "serve")
       ELSE sock' = sock /\ Reaches(h, IF process[h] = "bind" THEN "gone" ELSE "serve")
    /\ UNCHANGED <<may, lock, made, opened, caller, on, cleaned>>

\* Faulty: a file that is gone is taken for one that is still there
LostFaulty(h) == sock \notin {h, None}
Lost(h) == sock # h
\* SOCKET_CHECK_EVERY
Check(h) ==
    /\ process[h] = "serve" /\ Lost(h)
    /\ Reaches(h, "again")
    /\ UNCHANGED <<may, sock, lock, made, opened, caller, on, cleaned>>

Leave(h) ==
    /\ "stop" \in may /\ process[h] = "serve"
    /\ Reaches(h, "stop")
    /\ UNCHANGED <<may, sock, lock, made, opened, caller, on, cleaned>>
\* The socket is removed if it is still the one that was bound
StopLooks(h) ==
    /\ process[h] = "stop"
    /\ Reaches(h, IF sock = h THEN "remove" ELSE "close")
    /\ UNCHANGED <<may, sock, lock, made, opened, caller, on, cleaned>>
Remove(h) ==
    /\ process[h] = "remove"
    /\ sock' = None
    /\ Reaches(h, "close")
    /\ UNCHANGED <<may, lock, made, opened, caller, on, cleaned>>
\* run returns, and the lock goes with the process
RunReturns(h) ==
    /\ process[h] = "close"
    /\ Reaches(h, "gone")
    /\ UNCHANGED <<may, sock, lock, made, opened, caller, on, cleaned>>

(***************************************************************************)
(* A caller of ensure_running.                                             *)
(***************************************************************************)
\* Client::connect: nothing there, or a socket nobody listens on
NotRunning == sock \notin Serving \cup Stopping

First(c) ==
    /\ caller[c] = "first"
    /\ \/ /\ sock \in Serving
          /\ caller' = [caller EXCEPT ![c] = "connected"]
          /\ on' = [on EXCEPT ![c] = sock]
       \/ /\ NotRunning
          /\ caller' = [caller EXCEPT ![c] = "start"] /\ on' = on
       \/ /\ sock \in Stopping       \* accepted by nobody: an error like any other
          /\ caller' = [caller EXCEPT ![c] = "failed"] /\ on' = on
    /\ UNCHANGED <<may, sock, lock, made, process, opened, cleaned>>

Start(c) ==
    /\ caller[c] = "start"
    /\ \E h \in Hosts : process[h] = "off" /\ Reaches(h, "open")
    /\ caller' = [caller EXCEPT ![c] = "retry"]
    /\ UNCHANGED <<may, sock, lock, made, opened, on, cleaned>>

\* Faulty: a host that does not answer at once is not waited for
RetryFaulty(c) ==
    /\ caller[c] = "retry"
    /\ IF sock \in Serving
       THEN caller' = [caller EXCEPT ![c] = "connected"] /\ on' = [on EXCEPT ![c] = sock]
       ELSE caller' = [caller EXCEPT ![c] = "failed"] /\ on' = on
    /\ UNCHANGED <<may, sock, lock, made, process, opened, cleaned>>
\* until START_TIMEOUT, which is taken to be longer than a start
Retry(c) ==
    /\ caller[c] = "retry"
    /\ sock \in Serving
    /\ caller' = [caller EXCEPT ![c] = "connected"]
    /\ on' = [on EXCEPT ![c] = sock]
    /\ UNCHANGED <<may, sock, lock, made, process, opened, cleaned>>

(***************************************************************************)
(* Somebody who cleans the directory, of files that are not new.           *)
(***************************************************************************)
Clean(file) ==
    /\ file \in may \ cleaned /\ Starting = {} /\ Serving # {}
    /\ cleaned' = cleaned \cup {file}
    /\ lock' = IF file = "lock" THEN 0 ELSE lock
    /\ sock' = IF file = "socket" THEN None ELSE sock
    /\ UNCHANGED <<may, made, process, opened, caller, on>>

(***************************************************************************)
(* The specification.                                                      *)
(***************************************************************************)
SocketInit ==
    /\ may \in Cases
    /\ sock \in {None, Stale} /\ lock = 0 /\ made = 0 /\ cleaned = {}
    /\ process = [h \in Hosts |-> "off"] /\ opened = [h \in Hosts |-> 0]
    /\ caller = [c \in Callers |-> "first"] /\ on = [c \in Callers |-> None]

Run(h) ==
    \/ OpenLock(h) \/ Flock(h) \/ Probe(h) \/ Unlink(h) \/ Bind(h) \/ Check(h)
    \/ StopLooks(h) \/ Remove(h) \/ RunReturns(h)
Calling(c) == First(c) \/ Start(c) \/ Retry(c)

SocketNext ==
    \/ \E h \in Hosts : Run(h) \/ Leave(h)
    \/ \E c \in Callers : Calling(c)
    \/ \E file \in {"lock", "socket"} : Clean(file)

\* Processes that were started run on
SocketFairness ==
    /\ \A h \in Hosts : WF_socketVars(Run(h))
    /\ \A c \in Callers : WF_socketVars(Calling(c))
SocketSpec == SocketInit /\ [][SocketNext]_socketVars /\ SocketFairness
=============================================================================
