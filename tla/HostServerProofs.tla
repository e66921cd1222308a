---------------------------- MODULE HostServerProofs ----------------------------
(***************************************************************************)
(* Proofs of what must hold of the host's life, for any number of clients, *)
(* sessions and places.                                                    *)
(*                                                                         *)
(* None of the properties is inductive.  That a confirmed session is ended *)
(* rests on where every running child is known: it is listed, or the       *)
(* thread that started it is about to list it; and on what the main thread *)
(* has in hand at each step of its way out.  That an idle host leaves      *)
(* nobody rests on the count of connections, which is that of the threads. *)
(***************************************************************************)
EXTENDS HostServerProperties, HostSocketProperties, FiniteSetTheorems, TLAPS

Phase == {"none", "pending", "serve", "open", "spawning", "started", "listed", "shutdown",
          "closing", "over"}
Threaded == {"serve", "open", "spawning", "started", "listed", "shutdown", "closing"}
Threads == {c \in Clients : conn[c].pc \in Threaded}
ServedOnes == {c \in Clients : Served(c)}
Leaving == {"stop", "list", "grace", "reaping", "unbind", "gone"}

\* The types that the steps below lean on
Typed ==
    /\ main \in {"loop", "looking", "accept"} \cup Leaving
    /\ idle \in BOOLEAN /\ reason \in {"none", "asked", "idle"}
    /\ clients \in Nat
    /\ stopping \in BOOLEAN /\ requested \in BOOLEAN /\ signalled \in BOOLEAN
    /\ list \subseteq Sessions /\ ending \subseteq Sessions
    /\ left \subseteq Clients
    /\ conn \in [Clients -> [pc: Phase, holds: Sessions \cup {NoSession}, force: BOOLEAN]]
    /\ child \in [Sessions -> {"none", "up", "dead"}]
    /\ exited \subseteq Sessions /\ told \subseteq Sessions

\* Every connection's thread is counted, and those that are served are within
\* the limit.
Counted ==
    /\ clients = Cardinality(Threads)
    /\ Cardinality(ServedOnes) <= MaxConnections

\* A thread that has started a child knows which; whoever's exit is recorded
\* is dead; and a child that runs is listed or about to be.
Known ==
    /\ \A c \in Clients : conn[c].pc \in {"started", "listed"} =>
          conn[c].holds \in Sessions /\ child[conn[c].holds] # "none"
    /\ \A s \in exited : child[s] = "dead"
    /\ \A s \in told : child[s] # "none"
    /\ \A s \in Sessions : child[s] = "up" =>
          s \in list \/ \E c \in Clients : conn[c].pc = "started" /\ conn[c].holds = s
    /\ \A c \in Clients : conn[c].pc = "started" => conn[c].holds \notin told
    /\ \A c, d \in Clients :
          conn[c].pc \in {"started", "listed"} /\ conn[d].pc \in {"started", "listed"}
          /\ conn[c].holds = conn[d].holds => c = d

\* How far the main thread is on its way out: whom it has in hand, and whom
\* it has ended.
Ends ==
    /\ stopping <=> main \in Leaving \ {"stop"}
    /\ main = "grace" => \A s \in told : child[s] = "up" => s \in ending
    /\ main \in {"reaping", "unbind", "gone"} => \A s \in told : child[s] # "up"

\* Between its two looks, and after it left because it was idle, nobody came.
Alone ==
    /\ main = "looking" => clients = 0
    /\ reason = "idle" => main \in Leaving /\ clients = 0 /\ \A s \in Sessions : child[s] # "up"

IInv == Typed /\ Counted /\ Known /\ Ends /\ Alone

(***************************************************************************)
(* Counting threads.                                                       *)
(***************************************************************************)
\* The threads are finitely many, the served ones among them.
LEMMA ThreadsFinite ==
    /\ IsFiniteSet(Threads) /\ Cardinality(Threads) \in Nat
    /\ ServedOnes \subseteq Threads /\ IsFiniteSet(ServedOnes)
    /\ Cardinality(ServedOnes) \in Nat /\ Cardinality(ServedOnes) <= Cardinality(Threads)
  <1>1. Threads \subseteq Clients /\ ServedOnes \subseteq Threads
    BY DEF Threads, ServedOnes, Served, Threaded
  <1>2. IsFiniteSet(Threads) /\ Cardinality(Threads) \in Nat
    BY <1>1, HostServerAssumption, FS_Subset, FS_CardinalityType
  <1> QED BY <1>1, <1>2, FS_Subset, FS_CardinalityType

\* A host that counts nobody has no connection's thread.
LEMMA NobodyThere ==
    ASSUME Typed, Counted, clients = 0
    PROVE  \A c \in Clients : conn[c].pc \notin Threaded
  <1>1. Threads = {}
    BY ThreadsFinite, FS_EmptySet DEF Counted
  <1> QED BY <1>1 DEF Threads

\* A step after which the same threads are there, and none is served that was
\* not before, keeps the count.
LEMMA SameThreads ==
    ASSUME Counted, clients' = clients,
           \A c \in Clients : conn'[c].pc \in Threaded <=> conn[c].pc \in Threaded,
           \A c \in Clients : Served(c)' => Served(c)
    PROVE  Counted'
  <1>1. Threads' = Threads
    BY DEF Threads
  <1>2. ServedOnes' \subseteq ServedOnes
    BY DEF ServedOnes
  <1>3. /\ Cardinality(ServedOnes') \in Nat /\ Cardinality(ServedOnes) \in Nat
        /\ Cardinality(ServedOnes') <= Cardinality(ServedOnes)
    BY <1>2, ThreadsFinite, FS_Subset, FS_CardinalityType
  <1> QED BY <1>1, <1>3, HostServerAssumption DEF Counted
(***************************************************************************)
(* One step of the host.                                                   *)
(***************************************************************************)
\* Every step keeps the types; the count of connections does not go below zero,
\* since whoever counts down is counted.
LEMMA TypedStep ==
    ASSUME IInv, [Next]_vars
    PROVE  Typed'
  <1> USE DEF IInv, Typed, Leaving, Phase, mains, flags, sessions, Goes, At
  <1>1. ASSUME StopAsked PROVE Typed'
    BY <1>1 DEF StopAsked, LeaveLoop
  <1>2. ASSUME LookAtClients PROVE Typed'
    BY <1>2 DEF LookAtClients
  <1>3. ASSUME LookAtSessions PROVE Typed'
    BY <1>3 DEF LookAtSessions, LeaveLoop
  <1>4. ASSUME NEW c \in Clients, Accept(c) PROVE Typed'
    BY <1>4 DEF Accept
  <1>5. ASSUME AcceptEnds PROVE Typed'
    BY <1>5 DEF AcceptEnds
  <1>6. ASSUME Stop PROVE Typed'
    BY <1>6 DEF Stop
  <1>7. ASSUME ListRunning PROVE Typed'
    BY <1>7 DEF ListRunning, Running
  <1>8. ASSUME KillRest PROVE Typed'
    BY <1>8 DEF KillRest, Killed
  <1>9. ASSUME Reaped PROVE Typed'
    BY <1>9 DEF Reaped
  <1>10. ASSUME Return PROVE Typed'
    BY <1>10 DEF Return
  <1>11. ASSUME Signal PROVE Typed'
    BY <1>11 DEF Signal
  <1>12. ASSUME NEW c \in Clients, Greet(c) PROVE Typed'
    BY <1>12 DEF Greet
  <1>13. ASSUME NEW c \in Clients, ReadFails(c) PROVE Typed'
    BY <1>13 DEF ReadFails
  <1>14. ASSUME NEW c \in Clients, CountDown(c) PROVE Typed'
    <2>1. c \in Threads /\ Threads # {}
      BY <1>14 DEF CountDown, Threads, Threaded
    <2>2. clients \in Nat /\ clients # 0
      BY <2>1, ThreadsFinite, FS_EmptySet DEF Counted
    <2>3. clients' \in Nat
      BY <1>14, <2>2 DEF CountDown
    <2> QED BY <1>14, <2>3 DEF CountDown
  <1>15. ASSUME NEW c \in Clients, SpawnAsked(c) PROVE Typed'
    BY <1>15 DEF SpawnAsked
  <1>16. ASSUME NEW c \in Clients, SpawnStarts(c) PROVE Typed'
    <2>1. child' \in [Sessions -> {"none", "up", "dead"}]
      BY <1>16 DEF SpawnStarts
    <2>2. conn' \in [Clients -> [pc: Phase, holds: Sessions \cup {NoSession}, force: BOOLEAN]]
      <3>1. CASE Goes(c, "open")
        BY <3>1
      <3>2. ASSUME NEW s \in Sessions,
                   conn' = [conn EXCEPT ![c] = [@ EXCEPT !.pc = "started", !.holds = s]]
            PROVE  conn' \in [Clients -> [pc: Phase, holds: Sessions \cup {NoSession},
                                           force: BOOLEAN]]
        BY <3>2
      <3> QED BY <1>16, <3>1, <3>2 DEF SpawnStarts
    <2> QED BY <1>16, <2>1, <2>2 DEF SpawnStarts
  <1>17. ASSUME NEW c \in Clients, SpawnLists(c) PROVE Typed'
    <2>1. conn[c].holds \in Sessions
      BY <1>17 DEF SpawnLists, Known
    <2> QED BY <1>17, <2>1 DEF SpawnLists
  <1>18. ASSUME NEW c \in Clients, SpawnAnswers(c) PROVE Typed'
    <2>1. conn[c].holds \in Sessions
      BY <1>18 DEF SpawnAnswers, Known
    <2>2. conn' \in [Clients -> [pc: Phase, holds: Sessions \cup {NoSession}, force: BOOLEAN]]
      BY <1>18 DEF SpawnAnswers
    <2>3. child' \in [Sessions -> {"none", "up", "dead"}] /\ told' \subseteq Sessions
      BY <1>18, <2>1 DEF SpawnAnswers, Killed
    <2> QED BY <1>18, <2>2, <2>3 DEF SpawnAnswers
  <1>19. ASSUME NEW c \in Clients, NEW force \in BOOLEAN, ShutdownCounts(c, force) PROVE Typed'
    <2>1. /\ conn' = [conn EXCEPT ![c] = [@ EXCEPT !.pc = "shutdown", !.force = force]]
          /\ UNCHANGED <<mains, clients, flags, list, ending, left, sessions>>
      BY <1>19 DEF ShutdownCounts
    <2>2. [conn[c] EXCEPT !.pc = "shutdown", !.force = force]
            \in [pc: Phase, holds: Sessions \cup {NoSession}, force: BOOLEAN]
      OBVIOUS
    <2>3. conn' \in [Clients -> [pc: Phase, holds: Sessions \cup {NoSession}, force: BOOLEAN]]
      BY <2>1, <2>2
    <2> QED BY <2>1, <2>3
  <1>20. ASSUME NEW c \in Clients, ShutdownAccepts(c) PROVE Typed'
    BY <1>20 DEF ShutdownAccepts
  <1>21. ASSUME NEW c \in Clients, NEW s \in Sessions, Forget(c, s) PROVE Typed'
    BY <1>21 DEF Forget
  <1>22. ASSUME NEW c \in Clients, Connect(c) PROVE Typed'
    BY <1>22 DEF Connect
  <1>23. ASSUME NEW c \in Clients, Close(c) PROVE Typed'
    BY <1>23 DEF Close
  <1>24. ASSUME NEW s \in Sessions, ChildEnds(s) PROVE Typed'
    BY <1>24 DEF ChildEnds, Killed
  <1>25. ASSUME NEW s \in Sessions, ExitRecorded(s) PROVE Typed'
    BY <1>25 DEF ExitRecorded
  <1>26. CASE UNCHANGED vars
    BY <1>26 DEF vars
  <1> QED
    BY <1>1, <1>2, <1>3, <1>4, <1>5, <1>6, <1>7, <1>8, <1>9, <1>10, <1>11,
       <1>12, <1>13, <1>14, <1>15, <1>16, <1>17, <1>18, <1>19, <1>20, <1>21,
       <1>22, <1>23, <1>24, <1>25, <1>26 DEF Next, Main, Serve

\* Every step keeps the count: a thread is counted when it begins and counted
\* down on each of its ways out, and one that greets a client has looked at the
\* count of all.
LEMMA CountedStep ==
    ASSUME IInv, [Next]_vars
    PROVE  Counted'
  <1> USE DEF IInv, Typed, Counted, Threaded, Served, mains, Goes, At
  <1>1. ASSUME StopAsked PROVE Counted'
    BY <1>1, SameThreads DEF StopAsked, LeaveLoop
  <1>2. ASSUME LookAtClients PROVE Counted'
    BY <1>2, SameThreads DEF LookAtClients
  <1>3. ASSUME LookAtSessions PROVE Counted'
    BY <1>3, SameThreads DEF LookAtSessions, LeaveLoop
  <1>4. ASSUME NEW c \in Clients, Accept(c) PROVE Counted'
    <2>1. c \notin Threads /\ Threads' = Threads \cup {c}
      BY <1>4 DEF Accept, Threads
    <2>2. ServedOnes' = ServedOnes
      BY <1>4 DEF Accept, ServedOnes
    <2>3. Cardinality(Threads') = Cardinality(Threads) + 1
      BY <2>1, ThreadsFinite, FS_AddElement
    <2> QED BY <1>4, <2>2, <2>3 DEF Accept
  <1>5. ASSUME AcceptEnds PROVE Counted'
    BY <1>5, SameThreads DEF AcceptEnds
  <1>6. ASSUME Stop PROVE Counted'
    BY <1>6, SameThreads DEF Stop
  <1>7. ASSUME ListRunning PROVE Counted'
    BY <1>7, SameThreads DEF ListRunning
  <1>8. ASSUME KillRest PROVE Counted'
    BY <1>8, SameThreads DEF KillRest
  <1>9. ASSUME Reaped PROVE Counted'
    BY <1>9, SameThreads DEF Reaped
  <1>10. ASSUME Return PROVE Counted'
    BY <1>10, SameThreads DEF Return
  <1>11. ASSUME Signal PROVE Counted'
    BY <1>11, SameThreads DEF Signal
  <1>12. ASSUME NEW c \in Clients, Greet(c) PROVE Counted'
    <2>1. Threads' = Threads /\ clients' = clients
      BY <1>12 DEF Greet, Threads
    <2>2. CASE Full
      BY <1>12, <2>2, SameThreads DEF Greet
    <2>3. CASE ~Full
      <3>1. Cardinality(Threads') <= MaxConnections
        BY <2>1, <2>3, ThreadsFinite, HostServerAssumption DEF Full
      <3>2. ServedOnes' \subseteq Threads' /\ IsFiniteSet(Threads')
        BY <2>1, ThreadsFinite DEF ServedOnes, Threads
      <3>3. /\ Cardinality(ServedOnes') <= Cardinality(Threads')
            /\ Cardinality(ServedOnes') \in Nat /\ Cardinality(Threads') \in Nat
        BY <3>2, FS_Subset, FS_CardinalityType
      <3> QED BY <2>1, <3>1, <3>3, HostServerAssumption
    <2> QED BY <2>2, <2>3
  <1>13. ASSUME NEW c \in Clients, ReadFails(c) PROVE Counted'
    BY <1>13, SameThreads DEF ReadFails
  <1>14. ASSUME NEW c \in Clients, CountDown(c) PROVE Counted'
    <2>1. c \in Threads /\ Threads' = Threads \ {c}
      BY <1>14 DEF CountDown, Threads
    <2>2. ServedOnes' = ServedOnes
      BY <1>14 DEF CountDown, ServedOnes
    <2>3. Cardinality(Threads') = Cardinality(Threads) - 1
      BY <2>1, ThreadsFinite, FS_RemoveElement
    <2> QED BY <1>14, <2>2, <2>3 DEF CountDown
  <1>15. ASSUME NEW c \in Clients, SpawnAsked(c) PROVE Counted'
    BY <1>15, SameThreads DEF SpawnAsked
  <1>16. ASSUME NEW c \in Clients, SpawnStarts(c) PROVE Counted'
    <2>1. /\ clients' = clients /\ conn[c].pc = "spawning" /\ conn'[c].pc \in {"started", "open"}
          /\ \A d \in Clients \ {c} : conn'[d] = conn[d]
      <3>1. \/ \E s \in Sessions : conn' = [conn EXCEPT ![c] = [@ EXCEPT !.pc = "started", !.holds = s]]
            \/ conn' = [conn EXCEPT ![c].pc = "open"]
        BY <1>16 DEF SpawnStarts
      <3>2. CASE conn' = [conn EXCEPT ![c].pc = "open"]
        BY <1>16, <3>2 DEF SpawnStarts
      <3>3. CASE \E s \in Sessions : conn' = [conn EXCEPT ![c] = [@ EXCEPT !.pc = "started", !.holds = s]]
        <4> PICK s \in Sessions : conn' = [conn EXCEPT ![c] = [@ EXCEPT !.pc = "started", !.holds = s]]
          BY <3>3
        <4>1. [conn[c] EXCEPT !.pc = "started", !.holds = s].pc = "started"
          BY <1>16
        <4> QED BY <1>16, <4>1 DEF SpawnStarts
      <3> QED BY <3>1, <3>2, <3>3
    <2>2. /\ \A d \in Clients : conn'[d].pc \in Threaded <=> conn[d].pc \in Threaded
          /\ \A d \in Clients : Served(d)' => Served(d)
      BY <2>1
    <2> QED BY <2>1, <2>2, SameThreads
  <1>17. ASSUME NEW c \in Clients, SpawnLists(c) PROVE Counted'
    BY <1>17, SameThreads DEF SpawnLists
  <1>18. ASSUME NEW c \in Clients, SpawnAnswers(c) PROVE Counted'
    BY <1>18, SameThreads DEF SpawnAnswers
  <1>19. ASSUME NEW c \in Clients, NEW force \in BOOLEAN, ShutdownCounts(c, force) PROVE Counted'
    BY <1>19, SameThreads DEF ShutdownCounts
  <1>20. ASSUME NEW c \in Clients, ShutdownAccepts(c) PROVE Counted'
    BY <1>20, SameThreads DEF ShutdownAccepts
  <1>21. ASSUME NEW c \in Clients, NEW s \in Sessions, Forget(c, s) PROVE Counted'
    BY <1>21, SameThreads DEF Forget
  <1>22. ASSUME NEW c \in Clients, Connect(c) PROVE Counted'
    BY <1>22, SameThreads DEF Connect
  <1>23. ASSUME NEW c \in Clients, Close(c) PROVE Counted'
    BY <1>23, SameThreads DEF Close
  <1>24. ASSUME NEW s \in Sessions, ChildEnds(s) PROVE Counted'
    BY <1>24, SameThreads DEF ChildEnds
  <1>25. ASSUME NEW s \in Sessions, ExitRecorded(s) PROVE Counted'
    BY <1>25, SameThreads DEF ExitRecorded
  <1>26. CASE UNCHANGED vars
    BY <1>26, SameThreads DEF vars
  <1> QED
    BY <1>1, <1>2, <1>3, <1>4, <1>5, <1>6, <1>7, <1>8, <1>9, <1>10, <1>11,
       <1>12, <1>13, <1>14, <1>15, <1>16, <1>17, <1>18, <1>19, <1>20, <1>21,
       <1>22, <1>23, <1>24, <1>25, <1>26 DEF Next, Main, Serve

\* Every step leaves each running child listed or about to be, by one thread.
LEMMA KnownStep ==
    ASSUME IInv, [Next]_vars
    PROVE  Known'
  <1> USE DEF IInv, Typed, Known, mains, flags, sessions, Goes, At, Killed
  <1>1. ASSUME StopAsked PROVE Known'
    BY <1>1 DEF StopAsked, LeaveLoop
  <1>2. ASSUME LookAtClients PROVE Known'
    BY <1>2 DEF LookAtClients
  <1>3. ASSUME LookAtSessions PROVE Known'
    BY <1>3 DEF LookAtSessions, LeaveLoop
  <1>4. ASSUME NEW c \in Clients, Accept(c) PROVE Known'
    BY <1>4 DEF Accept
  <1>5. ASSUME AcceptEnds PROVE Known'
    BY <1>5 DEF AcceptEnds
  <1>6. ASSUME Stop PROVE Known'
    BY <1>6 DEF Stop
  <1>7. ASSUME ListRunning PROVE Known'
    BY <1>7 DEF ListRunning
  <1>8. ASSUME KillRest PROVE Known'
    BY <1>8 DEF KillRest
  <1>9. ASSUME Reaped PROVE Known'
    BY <1>9 DEF Reaped
  <1>10. ASSUME Return PROVE Known'
    BY <1>10 DEF Return
  <1>11. ASSUME Signal PROVE Known'
    BY <1>11 DEF Signal
  <1>12. ASSUME NEW c \in Clients, Greet(c) PROVE Known'
    BY <1>12 DEF Greet
  <1>13. ASSUME NEW c \in Clients, ReadFails(c) PROVE Known'
    BY <1>13 DEF ReadFails
  <1>14. ASSUME NEW c \in Clients, CountDown(c) PROVE Known'
    BY <1>14 DEF CountDown
  <1>15. ASSUME NEW c \in Clients, SpawnAsked(c) PROVE Known'
    BY <1>15 DEF SpawnAsked
  <1>16. ASSUME NEW c \in Clients, SpawnStarts(c) PROVE Known'
    <2>1. CASE Goes(c, "open") /\ child' = child
      BY <1>16, <2>1 DEF SpawnStarts
    <2>2. ASSUME NEW s \in Sessions, child[s] = "none",
                 child' = [child EXCEPT ![s] = "up"],
                 conn' = [conn EXCEPT ![c] = [@ EXCEPT !.pc = "started", !.holds = s]]
          PROVE  Known'
      <3>1. list' = list /\ exited' = exited /\ told' = told
        BY <1>16 DEF SpawnStarts
      <3>2. s \notin told /\ s \notin exited
        BY <2>2 DEF Known
      <3>3. child'[s] = "up" /\ \A x \in Sessions \ {s} : child'[x] = child[x]
        BY <2>2
      <3>4. conn'[c].pc = "started" /\ conn'[c].holds = s
        BY <2>2
      <3>5. \A d \in Clients \ {c} : conn'[d] = conn[d]
        BY <2>2
      <3>6. conn[c].pc = "spawning"
        BY <1>16 DEF SpawnStarts
      <3>7. \A d \in Clients : conn[d].pc \in {"started", "listed"} => conn[d].holds # s
        BY <2>2
      <3> HIDE DEF Typed
      <3>8. \A d \in Clients : conn'[d].pc \in {"started", "listed"} =>
              conn'[d].holds \in Sessions /\ child'[conn'[d].holds] # "none"
        BY <3>3, <3>4, <3>5
      <3>9. \A x \in Sessions : child'[x] = "up" =>
              x \in list' \/ \E d \in Clients : conn'[d].pc = "started" /\ conn'[d].holds = x
        BY <3>1, <3>3, <3>4, <3>5, <3>6
      <3>10. \A d \in Clients : conn'[d].pc = "started" => conn'[d].holds \notin told'
        BY <3>1, <3>2, <3>4, <3>5
      <3>11. \A d, e \in Clients :
              conn'[d].pc \in {"started", "listed"} /\ conn'[e].pc \in {"started", "listed"}
              /\ conn'[d].holds = conn'[e].holds => d = e
        BY <3>4, <3>5, <3>7
      <3>12. /\ \A x \in exited' : child'[x] = "dead"
             /\ \A x \in told' : child'[x] # "none"
        BY <3>1, <3>2, <3>3 DEF Typed
      <3> QED BY <3>8, <3>9, <3>10, <3>11, <3>12
    <2> QED BY <1>16, <2>1, <2>2 DEF SpawnStarts
  <1>17. ASSUME NEW c \in Clients, SpawnLists(c) PROVE Known'
    BY <1>17 DEF SpawnLists
  <1>18. ASSUME NEW c \in Clients, SpawnAnswers(c) PROVE Known'
    BY <1>18 DEF SpawnAnswers
  <1>19. ASSUME NEW c \in Clients, NEW force \in BOOLEAN, ShutdownCounts(c, force) PROVE Known'
    BY <1>19 DEF ShutdownCounts
  <1>20. ASSUME NEW c \in Clients, ShutdownAccepts(c) PROVE Known'
    BY <1>20 DEF ShutdownAccepts
  <1>21. ASSUME NEW c \in Clients, NEW s \in Sessions, Forget(c, s) PROVE Known'
    BY <1>21 DEF Forget
  <1>22. ASSUME NEW c \in Clients, Connect(c) PROVE Known'
    BY <1>22 DEF Connect
  <1>23. ASSUME NEW c \in Clients, Close(c) PROVE Known'
    BY <1>23 DEF Close
  <1>24. ASSUME NEW s \in Sessions, ChildEnds(s) PROVE Known'
    BY <1>24 DEF ChildEnds
  <1>25. ASSUME NEW s \in Sessions, ExitRecorded(s) PROVE Known'
    BY <1>25 DEF ExitRecorded
  <1>26. CASE UNCHANGED vars
    BY <1>26 DEF vars
  <1> QED
    BY <1>1, <1>2, <1>3, <1>4, <1>5, <1>6, <1>7, <1>8, <1>9, <1>10, <1>11,
       <1>12, <1>13, <1>14, <1>15, <1>16, <1>17, <1>18, <1>19, <1>20, <1>21,
       <1>22, <1>23, <1>24, <1>25, <1>26 DEF Next, Main, Serve

\* The main thread ends whoever was confirmed before it set `stopping`, and
\* nobody is confirmed after.
LEMMA EndsStep ==
    ASSUME IInv, [Next]_vars
    PROVE  Ends'
  <1> USE DEF IInv, Typed, Ends, Leaving, mains, flags, sessions, Goes, At, Killed
  <1>1. ASSUME StopAsked PROVE Ends'
    BY <1>1 DEF StopAsked, LeaveLoop
  <1>2. ASSUME LookAtClients PROVE Ends'
    BY <1>2 DEF LookAtClients
  <1>3. ASSUME LookAtSessions PROVE Ends'
    BY <1>3 DEF LookAtSessions, LeaveLoop
  <1>4. ASSUME NEW c \in Clients, Accept(c) PROVE Ends'
    BY <1>4 DEF Accept
  <1>5. ASSUME AcceptEnds PROVE Ends'
    BY <1>5 DEF AcceptEnds
  <1>6. ASSUME Stop PROVE Ends'
    BY <1>6 DEF Stop
  <1>7. ASSUME ListRunning PROVE Ends'
    BY <1>7 DEF ListRunning, Known, Running
  <1>8. ASSUME KillRest PROVE Ends'
    BY <1>8 DEF KillRest
  <1>9. ASSUME Reaped PROVE Ends'
    BY <1>9 DEF Reaped
  <1>10. ASSUME Return PROVE Ends'
    BY <1>10 DEF Return
  <1>11. ASSUME Signal PROVE Ends'
    BY <1>11 DEF Signal
  <1>12. ASSUME NEW c \in Clients, Greet(c) PROVE Ends'
    BY <1>12 DEF Greet
  <1>13. ASSUME NEW c \in Clients, ReadFails(c) PROVE Ends'
    BY <1>13 DEF ReadFails
  <1>14. ASSUME NEW c \in Clients, CountDown(c) PROVE Ends'
    BY <1>14 DEF CountDown
  <1>15. ASSUME NEW c \in Clients, SpawnAsked(c) PROVE Ends'
    BY <1>15 DEF SpawnAsked
  <1>16. ASSUME NEW c \in Clients, SpawnStarts(c) PROVE Ends'
    <2>1. CASE Goes(c, "open") /\ child' = child
      BY <1>16, <2>1 DEF SpawnStarts
    <2>2. ASSUME NEW s \in Sessions, child[s] = "none",
                 child' = [child EXCEPT ![s] = "up"],
                 conn' = [conn EXCEPT ![c] = [@ EXCEPT !.pc = "started", !.holds = s]]
          PROVE  Ends'
      <3>1. list' = list /\ exited' = exited /\ told' = told /\ 
            /\ main' = main /\ stopping' = stopping /\ ending' = ending
        BY <1>16 DEF SpawnStarts
      <3>2. s \notin told /\ s \notin exited
        BY <2>2 DEF Known
      <3>3. child'[s] = "up" /\ \A x \in Sessions \ {s} : child'[x] = child[x]
        BY <2>2
      <3> QED BY <3>1, <3>2, <3>3
    <2> QED BY <1>16, <2>1, <2>2 DEF SpawnStarts
  <1>17. ASSUME NEW c \in Clients, SpawnLists(c) PROVE Ends'
    BY <1>17 DEF SpawnLists
  <1>18. ASSUME NEW c \in Clients, SpawnAnswers(c) PROVE Ends'
    BY <1>18 DEF SpawnAnswers, Known
  <1>19. ASSUME NEW c \in Clients, NEW force \in BOOLEAN, ShutdownCounts(c, force) PROVE Ends'
    BY <1>19 DEF ShutdownCounts
  <1>20. ASSUME NEW c \in Clients, ShutdownAccepts(c) PROVE Ends'
    BY <1>20 DEF ShutdownAccepts
  <1>21. ASSUME NEW c \in Clients, NEW s \in Sessions, Forget(c, s) PROVE Ends'
    BY <1>21 DEF Forget
  <1>22. ASSUME NEW c \in Clients, Connect(c) PROVE Ends'
    BY <1>22 DEF Connect
  <1>23. ASSUME NEW c \in Clients, Close(c) PROVE Ends'
    BY <1>23 DEF Close
  <1>24. ASSUME NEW s \in Sessions, ChildEnds(s) PROVE Ends'
    BY <1>24 DEF ChildEnds
  <1>25. ASSUME NEW s \in Sessions, ExitRecorded(s) PROVE Ends'
    BY <1>25 DEF ExitRecorded
  <1>26. CASE UNCHANGED vars
    BY <1>26 DEF vars
  <1> QED
    BY <1>1, <1>2, <1>3, <1>4, <1>5, <1>6, <1>7, <1>8, <1>9, <1>10, <1>11,
       <1>12, <1>13, <1>14, <1>15, <1>16, <1>17, <1>18, <1>19, <1>20, <1>21,
       <1>22, <1>23, <1>24, <1>25, <1>26 DEF Next, Main, Serve

\* Who leaves because he is idle has found no connection and no running
\* session, and with no connection nothing starts.
LEMMA AloneStep ==
    ASSUME IInv, [Next]_vars
    PROVE  Alone'
  <1> USE DEF IInv, Typed, Alone, Leaving, mains, flags, sessions, Goes, At
  <1>1. ASSUME StopAsked PROVE Alone'
    BY <1>1 DEF StopAsked, LeaveLoop
  <1>2. ASSUME LookAtClients PROVE Alone'
    BY <1>2 DEF LookAtClients
  <1>3. ASSUME LookAtSessions PROVE Alone'
    <2>1. CASE Kept
      BY <1>3, <2>1 DEF LookAtSessions, LeaveLoop, Kept
    <2>2. CASE ~Kept
      <3>1. \A x \in Clients : conn[x].pc \notin Threaded
        BY <1>3, NobodyThere DEF LookAtSessions
      <3>2. \A s \in Sessions : child[s] # "up"
        BY <2>2, <3>1 DEF Kept, Running, Known, Threaded
      <3> QED BY <1>3, <2>2, <3>2 DEF LookAtSessions, LeaveLoop
    <2> QED BY <2>1, <2>2
  <1>4. ASSUME NEW c \in Clients, Accept(c) PROVE Alone'
    BY <1>4 DEF Accept
  <1>5. ASSUME AcceptEnds PROVE Alone'
    BY <1>5 DEF AcceptEnds
  <1>6. ASSUME Stop PROVE Alone'
    BY <1>6 DEF Stop
  <1>7. ASSUME ListRunning PROVE Alone'
    BY <1>7 DEF ListRunning
  <1>8. ASSUME KillRest PROVE Alone'
    BY <1>8 DEF KillRest, Killed
  <1>9. ASSUME Reaped PROVE Alone'
    BY <1>9 DEF Reaped
  <1>10. ASSUME Return PROVE Alone'
    BY <1>10 DEF Return
  <1>11. ASSUME Signal PROVE Alone'
    BY <1>11 DEF Signal
  <1>12. ASSUME NEW c \in Clients, Greet(c) PROVE Alone'
    BY <1>12 DEF Greet
  <1>13. ASSUME NEW c \in Clients, ReadFails(c) PROVE Alone'
    BY <1>13 DEF ReadFails
  <1>14. ASSUME NEW c \in Clients, CountDown(c) PROVE Alone'
    <2>1. clients # 0
      BY <1>14, NobodyThere DEF CountDown, Threaded
    <2> QED BY <1>14, <2>1 DEF CountDown, Killed
  <1>15. ASSUME NEW c \in Clients, SpawnAsked(c) PROVE Alone'
    BY <1>15 DEF SpawnAsked
  <1>16. ASSUME NEW c \in Clients, SpawnStarts(c) PROVE Alone'
    <2>1. clients # 0
      BY <1>16, NobodyThere DEF SpawnStarts, Threaded
    <2> QED BY <1>16, <2>1 DEF SpawnStarts, Killed
  <1>17. ASSUME NEW c \in Clients, SpawnLists(c) PROVE Alone'
    BY <1>17 DEF SpawnLists
  <1>18. ASSUME NEW c \in Clients, SpawnAnswers(c) PROVE Alone'
    <2>1. clients # 0
      BY <1>18, NobodyThere DEF SpawnAnswers, Threaded
    <2> QED BY <1>18, <2>1 DEF SpawnAnswers, Killed
  <1>19. ASSUME NEW c \in Clients, NEW force \in BOOLEAN, ShutdownCounts(c, force) PROVE Alone'
    BY <1>19 DEF ShutdownCounts
  <1>20. ASSUME NEW c \in Clients, ShutdownAccepts(c) PROVE Alone'
    BY <1>20 DEF ShutdownAccepts
  <1>21. ASSUME NEW c \in Clients, NEW s \in Sessions, Forget(c, s) PROVE Alone'
    BY <1>21 DEF Forget
  <1>22. ASSUME NEW c \in Clients, Connect(c) PROVE Alone'
    BY <1>22 DEF Connect
  <1>23. ASSUME NEW c \in Clients, Close(c) PROVE Alone'
    BY <1>23 DEF Close
  <1>24. ASSUME NEW s \in Sessions, ChildEnds(s) PROVE Alone'
    BY <1>24 DEF ChildEnds, Killed
  <1>25. ASSUME NEW s \in Sessions, ExitRecorded(s) PROVE Alone'
    BY <1>25 DEF ExitRecorded
  <1>26. CASE UNCHANGED vars
    BY <1>26 DEF vars
  <1> QED
    BY <1>1, <1>2, <1>3, <1>4, <1>5, <1>6, <1>7, <1>8, <1>9, <1>10, <1>11,
       <1>12, <1>13, <1>14, <1>15, <1>16, <1>17, <1>18, <1>19, <1>20, <1>21,
       <1>22, <1>23, <1>24, <1>25, <1>26 DEF Next, Main, Serve

(***************************************************************************)
(* The theorems.                                                           *)
(***************************************************************************)
\* The invariant: what is counted is there, every running child is known, and
\* the main thread has ended what it should have by each point of its way out.
THEOREM HostInvariant == Spec => []IInv
  <1>1. Init => IInv
    <2> SUFFICES ASSUME Init PROVE IInv
      OBVIOUS
    <2>1. Typed
      BY DEF Init, Typed, Phase
    <2>2. Threads = {} /\ ServedOnes = {}
      BY DEF Init, Threads, Threaded, ServedOnes, Served
    <2>3. Counted
      BY <2>2, FS_EmptySet, HostServerAssumption DEF Init, Counted
    <2>4. Known /\ Ends /\ Alone
      BY DEF Init, Known, Ends, Alone, Leaving
    <2> QED BY <2>1, <2>3, <2>4 DEF IInv
  <1>2. IInv /\ [Next]_vars => IInv'
    BY TypedStep, CountedStep, KnownStep, EndsStep, AloneStep DEF IInv
  <1> QED BY <1>1, <1>2, PTL DEF Spec

\* Host::clients counts the connections that have a thread, never below zero,
\* and no more are served than the limit allows.
THEOREM ClientsCountedAlways == Spec => []ClientsCounted
  <1>1. IInv => ClientsCounted
    <2> SUFFICES ASSUME IInv PROVE ClientsCounted
      OBVIOUS
    <2>1. Threads = {c \in Clients : Served(c) \/ conn[c].pc \in {"serve", "closing"}}
      BY DEF Threads, Threaded, Served
    <2>2. Threads \subseteq Clients /\ IsFiniteSet(Clients)
      BY HostServerAssumption DEF Threads
    <2>3. /\ Cardinality(Threads) <= Cardinality(Clients)
          /\ Cardinality(Clients) \in Nat
      BY <2>2, FS_Subset, FS_CardinalityType
    <2>4. clients \in 0..Cardinality(Clients)
      BY <2>3 DEF IInv, Typed, Counted
    <2>5. TypeOK
      BY <2>4 DEF IInv, Typed, TypeOK, Leaving, Phase
    <2> QED BY <2>1, <2>5 DEF IInv, Counted, ClientsCounted, ServedOnes
  <1> QED BY <1>1, HostInvariant, PTL

\* A host that leaves because it is idle leaves no connection and no running
\* session.
THEOREM IdleAloneAlways == Spec => []IdleAlone
  <1>1. IInv => IdleAlone
    BY NobodyThere DEF IInv, Alone, IdleAlone, Served, Threaded
  <1> QED BY <1>1, HostInvariant, PTL

\* No session whose start was confirmed to a client outlives the host.
THEOREM ConfirmedEndedAlways == Spec => []ConfirmedEnded
  <1>1. IInv => ConfirmedEnded
    BY DEF IInv, Ends, ConfirmedEnded
  <1> QED BY <1>1, HostInvariant, PTL

(***************************************************************************)
(* Proof that one host has the path and keeps it, for any number of hosts  *)
(* and callers.                                                            *)
(*                                                                         *)
(* The lock alone does not see to it: a lock file that was removed is      *)
(* another one than the file made after it, and two hosts may hold one     *)
(* each.  Then the first must be serving on its socket, so that the other  *)
(* finds it when it probes.                                                *)
(***************************************************************************)
Holding == {h \in Hosts : process[h] \notin {"off", "open", "flock", "gone"}}

SocketTyped ==
    /\ sock \in Hosts \cup {None, Stale} /\ made \in Nat /\ lock \in 0..made
    /\ process \in [Hosts -> {"off", "open", "flock", "probe", "unlink", "bind", "serve",
                              "again", "rebind", "stop", "remove", "close", "gone"}]
    /\ opened \in [Hosts -> 0..made]
    /\ caller \in [Callers -> {"first", "start", "retry", "connected", "failed"}]
    /\ on \in [Callers -> Hosts \cup {None}]
    /\ cleaned \subseteq may /\ may \in Cases

\* A lock file has been opened by a host, and is held by one at most.
FilesHeld ==
    /\ \A h \in Hosts : process[h] \in {"off", "open"} <=> opened[h] = 0
    /\ \A f \in 1..made : \E h \in Hosts : opened[h] = f
    /\ \A g, h \in Holding : opened[g] = opened[h] => g = h
\* The host whose socket is there is using it, or about to remove it.
Bound == sock \in Hosts => process[sock] \in {"serve", "again", "stop", "remove"}
\* As long as the lock file stays there is one.  It is removed where nothing
\* else is and no host stops, so that whoever serves has its socket.
OneFile ==
    /\ "lock" \notin cleaned => made <= 1 /\ lock = made
    /\ "lock" \in may => \A h \in Hosts :
        /\ process[h] \notin {"again", "rebind", "stop", "remove", "close"}
        /\ process[h] = "serve" => sock = h
    /\ "lock" \in cleaned =>
        /\ sock \in Hosts /\ process[sock] = "serve"
        /\ \A h \in Holding \ {sock} : process[h] = "probe"
        /\ (lock = 0 /\ made = 1) \/ (lock = 2 /\ made = 2)
SocketInv == SocketTyped /\ FilesHeld /\ Bound /\ OneFile

\* Of two hosts that hold a lock one serves and the other has yet to probe.
LEMMA OneHolds ==
  ASSUME SocketInv, NEW g \in Holding, NEW h \in Holding, g # h
  PROVE  /\ "lock" \in cleaned
         /\ (g = sock /\ process[h] = "probe") \/ (h = sock /\ process[g] = "probe")
  <1>1. opened[g] # opened[h]
    BY DEF SocketInv, FilesHeld
  <1>2. opened[g] \in 1..made /\ opened[h] \in 1..made
    BY DEF SocketInv, SocketTyped, FilesHeld, Holding
  <1>3. "lock" \in cleaned
    <2> SUFFICES ASSUME "lock" \notin cleaned PROVE FALSE
      OBVIOUS
    <2>1. made \in Nat /\ made <= 1
      BY DEF SocketInv, OneFile, SocketTyped
    <2>2. opened[g] = 1 /\ opened[h] = 1
      BY <1>2, <2>1
    <2> QED BY <1>1, <2>2
  <1>4. \A k \in Holding \ {sock} : process[k] = "probe"
    BY <1>3 DEF SocketInv, OneFile
  <1>5. ~(process[g] = "probe" /\ process[h] = "probe") => g = sock \/ h = sock
    BY <1>4
  <1>6. sock \in Hosts /\ process[sock] = "serve"
    BY <1>3 DEF SocketInv, OneFile
  <1>7. g = sock \/ h = sock
    <2> SUFFICES ASSUME g # sock, h # sock PROVE FALSE
      OBVIOUS
    <2>1. sock \in Holding
      BY <1>6 DEF Holding
    <2>2. opened[sock] # opened[g] /\ opened[sock] # opened[h] /\ opened[sock] \in 1..made
      BY <2>1 DEF SocketInv, SocketTyped, FilesHeld, Holding
    <2>3. made \in {1, 2}
      BY <1>3 DEF SocketInv, OneFile
    <2> QED BY <1>1, <1>2, <2>2, <2>3
  <1> QED BY <1>3, <1>4, <1>7

\* The types are kept.
LEMMA SocketTypedNext == SocketTyped /\ [SocketNext]_socketVars => SocketTyped'
  <1> SUFFICES ASSUME SocketTyped, [SocketNext]_socketVars PROVE SocketTyped'
    OBVIOUS
  <1>1. CASE UNCHANGED socketVars
    BY <1>1 DEF socketVars, SocketTyped
  <1>2. ASSUME NEW h \in Hosts, OpenLock(h) PROVE SocketTyped'
    <2>1. made' \in Nat /\ made <= made' /\ lock' \in 0..made'
      BY <1>2 DEF OpenLock, SocketTyped
    <2>2. opened' \in [Hosts -> 0..made']
      BY <1>2, <2>1 DEF OpenLock, SocketTyped
    <2> QED BY <1>2, <2>1, <2>2 DEF OpenLock, Reaches, SocketTyped
  <1>3. ASSUME NEW h \in Hosts,
               \/ Flock(h) \/ Probe(h) \/ Unlink(h) \/ Bind(h) \/ Check(h) \/ Leave(h)
               \/ StopLooks(h) \/ Remove(h) \/ RunReturns(h)
        PROVE  SocketTyped'
    BY <1>3 DEF Flock, Probe, Unlink, Bind, Check, Leave, StopLooks, Remove, RunReturns, Reaches,
                SocketTyped
  <1>4. ASSUME NEW c \in Callers, Calling(c) PROVE SocketTyped'
    BY <1>4 DEF Calling, First, Start, Retry, Reaches, Serving, SocketTyped
  <1>5. ASSUME NEW file \in {"lock", "socket"}, Clean(file) PROVE SocketTyped'
    BY <1>5 DEF Clean, SocketTyped
  <1> QED BY <1>1, <1>2, <1>3, <1>4, <1>5 DEF SocketNext, Run

\* The lock's files (take_lock).
LEMMA FilesHeldNext == SocketInv /\ [SocketNext]_socketVars => FilesHeld'
  <1> SUFFICES ASSUME SocketInv, [SocketNext]_socketVars PROVE FilesHeld'
    OBVIOUS
  <1> USE DEF SocketInv
  <1>1. CASE UNCHANGED socketVars
    BY <1>1 DEF socketVars, FilesHeld, Holding
  <1>2. ASSUME NEW h \in Hosts, OpenLock(h) PROVE FilesHeld'
    <2>1. Holding' = Holding /\ h \notin Holding
      BY <1>2 DEF OpenLock, Reaches, Holding, SocketTyped
    <2>2. lock' \in 1..made' /\ made' \in {made, made + 1} /\ (made' # made => lock' = made')
      BY <1>2 DEF OpenLock, SocketTyped
    <2>3. /\ opened'[h] = lock' /\ process'[h] = "flock"
          /\ \A g \in Hosts \ {h} : opened'[g] = opened[g] /\ process'[g] = process[g]
      BY <1>2 DEF OpenLock, Reaches, SocketTyped
    <2>4. \A g \in Hosts : process'[g] \in {"off", "open"} <=> opened'[g] = 0
      BY <2>2, <2>3 DEF FilesHeld, SocketTyped
    <2>5. ASSUME NEW f \in 1..made' PROVE \E g \in Hosts : opened'[g] = f
      <3>1. CASE f = lock'
        BY <2>3, <3>1
      <3>2. CASE f # lock'
        <4>1. f \in 1..made
          BY <2>2, <2>5, <3>2 DEF SocketTyped
        <4>2. PICK g \in Hosts : opened[g] = f
          BY <4>1 DEF FilesHeld
        <4>3. CASE g # h
          BY <2>3, <4>2, <4>3
        <4>4. CASE g = h
          BY <1>2, <4>1, <4>2, <4>4 DEF OpenLock, FilesHeld
        <4> QED BY <4>3, <4>4
      <3> QED BY <3>1, <3>2
    <2>6. \A g, k \in Holding' : opened'[g] = opened'[k] => g = k
      BY <2>1, <2>3 DEF FilesHeld, Holding
    <2> QED BY <2>4, <2>5, <2>6 DEF FilesHeld
  <1>3. ASSUME NEW h \in Hosts, Flock(h) PROVE FilesHeld'
    <2>1. opened' = opened /\ made' = made
      BY <1>3 DEF Flock
    <2>2. /\ process[h] = "flock" /\ process'[h] \in {"gone", "probe"}
          /\ \A g \in Hosts \ {h} : process'[g] = process[g]
      BY <1>3 DEF Flock, Reaches, SocketTyped
    <2>3. process'[h] = "probe" => \A g \in Holding : opened[g] # opened[h]
      BY <1>3, <2>2 DEF Flock, Reaches, Has, Holding, SocketTyped
    <2>4. \A g \in Holding' : (g = h /\ process'[h] = "probe") \/ g \in Holding
      BY <2>2 DEF Holding
    <2>5. \A g, k \in Holding' : opened'[g] = opened'[k] => g = k
      BY <2>1, <2>3, <2>4 DEF FilesHeld
    <2> QED BY <2>1, <2>2, <2>5 DEF FilesHeld
  <1>4. ASSUME NEW h \in Hosts,
               \/ Probe(h) \/ Unlink(h) \/ Bind(h) \/ Check(h) \/ Leave(h)
               \/ StopLooks(h) \/ Remove(h) \/ RunReturns(h)
        PROVE  FilesHeld'
    <2>1. opened' = opened /\ made' = made
      BY <1>4 DEF Probe, Unlink, Bind, Check, Leave, StopLooks, Remove, RunReturns
    <2>2. /\ process[h] \notin {"off", "open", "flock", "gone"} /\ process'[h] \notin {"off", "open", "flock"}
          /\ \A g \in Hosts \ {h} : process'[g] = process[g]
      BY <1>4 DEF Probe, Unlink, Bind, Check, Leave, StopLooks, Remove, RunReturns, Reaches, SocketTyped
    <2>3. Holding' \subseteq Holding
      BY <2>2 DEF Holding
    <2> QED BY <2>1, <2>2, <2>3 DEF FilesHeld
  <1>5. ASSUME NEW c \in Callers, Calling(c) PROVE FilesHeld'
    <2>1. opened' = opened /\ made' = made
      BY <1>5 DEF Calling, First, Start, Retry
    <2>2. \/ process' = process
          \/ \E h \in Hosts : process[h] = "off" /\ process' = [process EXCEPT ![h] = "open"]
      BY <1>5 DEF Calling, First, Start, Retry, Reaches
    <2>3. \A h \in Hosts : process'[h] \in {"off", "open"} <=> process[h] \in {"off", "open"}
      BY <2>2 DEF SocketTyped
    <2>4. Holding' = Holding
      BY <2>2 DEF Holding, SocketTyped
    <2> QED BY <2>1, <2>3, <2>4 DEF FilesHeld
  <1>6. ASSUME NEW file \in {"lock", "socket"}, Clean(file) PROVE FilesHeld'
    BY <1>6 DEF Clean, FilesHeld, Holding
  <1> QED BY <1>1, <1>2, <1>3, <1>4, <1>5, <1>6 DEF SocketNext, Run

\* The socket file is its maker's (bind, run).
LEMMA BoundNext == SocketInv /\ [SocketNext]_socketVars => Bound'
  <1> SUFFICES ASSUME SocketInv, [SocketNext]_socketVars PROVE Bound'
    OBVIOUS
  <1> USE DEF SocketInv
  <1>n. None \notin Hosts /\ Stale \notin Hosts
    BY HostSocketAssumption
  <1>1. CASE UNCHANGED socketVars
    BY <1>1 DEF socketVars, Bound
  <1>2. ASSUME NEW h \in Hosts,
               OpenLock(h) \/ Flock(h) \/ Probe(h) \/ Check(h) \/ Leave(h) \/ StopLooks(h) \/ RunReturns(h)
        PROVE  Bound'
    BY <1>2 DEF OpenLock, Flock, Probe, Check, Lost, Leave, StopLooks, RunReturns, Reaches, SocketTyped, Bound
  <1>3. ASSUME NEW h \in Hosts, Unlink(h) \/ Remove(h) PROVE Bound'
    BY <1>3, <1>n DEF Unlink, Remove, Bound
  <1>4. ASSUME NEW h \in Hosts, Bind(h) PROVE Bound'
    BY <1>4 DEF Bind, Reaches, SocketTyped, Bound
  <1>5. ASSUME NEW c \in Callers, Calling(c) PROVE Bound'
    BY <1>5 DEF Calling, First, Start, Retry, Reaches, SocketTyped, Bound
  <1>6. ASSUME NEW file \in {"lock", "socket"}, Clean(file) PROVE Bound'
    BY <1>6, <1>n DEF Clean, Bound
  <1> QED BY <1>1, <1>2, <1>3, <1>4, <1>5, <1>6 DEF SocketNext, Run

\* A lock file that was removed leaves a host on its socket, whom all that
\* lock another one find (take_lock, the probe).
LEMMA OneFileNext ==
  ProvidedFor /\ SocketInv /\ [SocketNext]_socketVars => OneFile'
  <1> SUFFICES ASSUME ProvidedFor, SocketInv, [SocketNext]_socketVars PROVE OneFile'
    OBVIOUS
  <1> USE DEF SocketInv
  <1>n. "lock" \in may => may = {"lock"}
    BY DEF ProvidedFor, SocketTyped
  <1>m. "lock" \in cleaned => "lock" \in may
    BY DEF SocketTyped
  <1>1. CASE UNCHANGED socketVars
    BY <1>1 DEF socketVars, OneFile, Holding
  <1>2. ASSUME NEW h \in Hosts, OpenLock(h) PROVE OneFile'
    <2>1. /\ Holding' = Holding /\ process[h] = "open" /\ process'[h] = "flock"
          /\ \A g \in Hosts \ {h} : process'[g] = process[g]
      BY <1>2 DEF OpenLock, Reaches, Holding, SocketTyped
    <2>2. UNCHANGED <<may, sock, cleaned>>
      BY <1>2 DEF OpenLock
    <2>3. /\ "lock" \notin cleaned => made' <= 1 /\ lock' = made'
          /\ "lock" \in cleaned => lock' = 2 /\ made' = 2
      BY <1>2 DEF OpenLock, OneFile, SocketTyped
    <2>4. \A g \in Holding : process'[g] = process[g]
      BY <2>1 DEF Holding
    <2>5. "lock" \in cleaned => sock \in Hosts /\ process'[sock] = "serve"
      BY <2>1 DEF OneFile
    <2>6. "lock" \in may => \A g \in Hosts :
            /\ process'[g] \notin {"again", "rebind", "stop", "remove", "close"}
            /\ process'[g] = "serve" => sock = g
      BY <2>1 DEF OneFile
    <2> QED BY <2>1, <2>2, <2>3, <2>4, <2>5, <2>6 DEF OneFile
  <1>3. ASSUME NEW h \in Hosts, Flock(h) \/ Probe(h) \/ Check(h) \/ Leave(h) \/ StopLooks(h) \/ RunReturns(h)
        PROVE  OneFile'
    <2>1. UNCHANGED <<may, sock, cleaned, lock, made>>
      BY <1>3 DEF Flock, Probe, Check, Leave, StopLooks, RunReturns
    <2>2. \A g \in Hosts \ {h} : process'[g] = process[g]
      BY <1>3 DEF Flock, Probe, Check, Leave, StopLooks, RunReturns, Reaches, SocketTyped
    <2>3. "lock" \in may => process[h] \in {"flock", "probe"} /\ process'[h] \in {"probe", "gone", "unlink"}
      BY <1>3, <1>n DEF Flock, Probe, Check, Lost, Leave, StopLooks, RunReturns, Reaches, OneFile, SocketTyped
    <2>4. "lock" \in cleaned => process'[h] # "unlink"
      BY <1>3, <1>m, <2>3 DEF Flock, Probe, Reaches, Answers, Serving, OneFile, SocketTyped,
                              Check, Leave, StopLooks, RunReturns
    <2>5. \A g \in Holding' : g \in Holding \/ g = h
      BY <2>2 DEF Holding
    <2>6. "lock" \in may => \A g \in Hosts :
            /\ process'[g] \notin {"again", "rebind", "stop", "remove", "close"}
            /\ process'[g] = "serve" => sock = g
      BY <2>2, <2>3 DEF OneFile
    <2>7. "lock" \in cleaned => sock # h /\ process'[sock] = "serve"
      BY <1>m, <2>2, <2>3 DEF OneFile
    <2>8. "lock" \in cleaned => \A g \in Holding' \ {sock} : process'[g] = "probe"
      BY <1>m, <2>2, <2>3, <2>4, <2>5 DEF OneFile, Holding
    <2> QED BY <2>1, <2>6, <2>7, <2>8 DEF OneFile
  <1>4. ASSUME NEW h \in Hosts, Unlink(h) \/ Remove(h) \/ Bind(h) PROVE OneFile'
    <2>1. UNCHANGED <<may, cleaned, lock, made>>
      BY <1>4 DEF Unlink, Remove, Bind
    <2>2. h \in Holding /\ process[h] \notin {"serve", "probe"}
      BY <1>4 DEF Unlink, Remove, Bind, Holding
    <2>3. "lock" \notin cleaned
      BY <2>2 DEF OneFile
    <2>4. ASSUME "lock" \in may, NEW g \in Hosts
          PROVE  /\ process'[g] \notin {"again", "rebind", "stop", "remove", "close"}
                 /\ process'[g] = "serve" => sock' = g
      <3>1. process[h] \in {"unlink", "bind"}
        BY <1>4, <2>4 DEF Unlink, Remove, Bind, OneFile
      <3>2. CASE g = h
        BY <1>4, <3>1, <3>2 DEF Unlink, Remove, Bind, Reaches, SocketTyped
      <3>3. CASE g # h
        <4>1. process'[g] = process[g]
          BY <1>4, <3>3 DEF Unlink, Remove, Bind, Reaches, SocketTyped
        <4>2. process[g] # "serve"
          <5>1. g \notin Holding
            BY <2>2, <2>3, <3>3, OneHolds
          <5> QED BY <5>1 DEF Holding
        <4> QED BY <2>4, <4>1, <4>2 DEF OneFile
      <3> QED BY <3>2, <3>3
    <2> QED BY <2>1, <2>3, <2>4 DEF OneFile
  <1>5. ASSUME NEW c \in Callers, Calling(c) PROVE OneFile'
    <2>1. UNCHANGED <<may, sock, cleaned, lock, made>>
      BY <1>5 DEF Calling, First, Start, Retry
    <2>2. \/ process' = process
          \/ \E h \in Hosts : process[h] = "off" /\ process' = [process EXCEPT ![h] = "open"]
      BY <1>5 DEF Calling, First, Start, Retry, Reaches
    <2>3. Holding' = Holding /\ \A h \in Holding : process'[h] = process[h]
      BY <2>2 DEF Holding, SocketTyped
    <2>4. \A g \in Hosts : process'[g] = process[g] \/ process'[g] = "open"
      BY <2>2 DEF SocketTyped
    <2>5. "lock" \in may => \A g \in Hosts :
            /\ process'[g] \notin {"again", "rebind", "stop", "remove", "close"}
            /\ process'[g] = "serve" => sock = g
      BY <2>4 DEF OneFile
    <2>6. "lock" \in cleaned => process'[sock] = "serve"
      BY <2>2 DEF OneFile, SocketTyped
    <2> QED BY <2>1, <2>3, <2>5, <2>6 DEF OneFile
  <1>6. ASSUME Clean("socket") PROVE OneFile'
    <2>1. "lock" \notin may /\ UNCHANGED <<may, lock, made>> /\ "lock" \notin cleaned'
      BY <1>6, <1>n, <1>m DEF Clean
    <2> QED BY <2>1, <1>m DEF OneFile
  <1>7. ASSUME Clean("lock") PROVE OneFile'
    <2>1. /\ "lock" \in may /\ "lock" \notin cleaned /\ Starting = {} /\ Serving # {}
          /\ lock' = 0 /\ UNCHANGED <<may, made, process, sock>> /\ cleaned' = cleaned \cup {"lock"}
      BY <1>7 DEF Clean
    <2>2. PICK a \in Serving : TRUE
      BY <2>1
    <2>3. a \in Holding /\ a \in Hosts /\ process[a] = "serve" /\ sock = a
      BY <2>1, <2>2 DEF OneFile, Serving, Holding
    <2>4. \A h \in Holding \ {sock} : FALSE
      BY <2>1, <2>3, OneHolds
    <2>5. made = 1
      <3>1. opened[a] \in 1..made /\ made \in Nat /\ made <= 1
        BY <2>1, <2>3 DEF SocketTyped, FilesHeld, OneFile
      <3> QED BY <3>1
    <2>6. Holding' = Holding
      BY <2>1 DEF Holding
    <2> QED BY <2>1, <2>3, <2>4, <2>5, <2>6 DEF OneFile
  <1> QED BY <1>1, <1>2, <1>3, <1>4, <1>5, <1>6, <1>7 DEF SocketNext, Run

\* Who holds a lock, whose the socket is, and what a removed lock file left.
THEOREM SocketInvariant == ASSUME ProvidedFor PROVE SocketSpec => []SocketInv
  <1>1. SocketInit => SocketInv
    <2> SUFFICES ASSUME SocketInit PROVE SocketInv
      OBVIOUS
    <2>1. Holding = {} /\ sock \notin Hosts
      BY HostSocketAssumption DEF SocketInit, Holding
    <2>2. SocketTyped /\ FilesHeld /\ Bound /\ OneFile
      BY <2>1 DEF SocketInit, SocketTyped, FilesHeld, Bound, OneFile
    <2> QED BY <2>2 DEF SocketInv
  <1>2. SocketInv /\ [SocketNext]_socketVars => SocketInv'
    BY SocketTypedNext, FilesHeldNext, BoundNext, OneFileNext DEF SocketInv
  <1> QED BY <1>1, <1>2, PTL DEF SocketSpec

\* One lock file, or two, and so at least as many hosts.
LEMMA MadeBounded == SocketInv => made \in 0..Cardinality(Hosts)
  <1> SUFFICES ASSUME SocketInv PROVE made \in 0..Cardinality(Hosts)
    OBVIOUS
  <1> USE DEF SocketInv
  <1>1. made \in {0, 1, 2}
    BY DEF OneFile, SocketTyped
  <1>2. Cardinality(Hosts) \in Nat
    BY HostSocketAssumption, FS_CardinalityType
  <1>3. CASE made = 1
    <2>1. PICK g \in Hosts : opened[g] = 1
      BY <1>3 DEF FilesHeld
    <2>2. Cardinality({g}) = 1 /\ {g} \subseteq Hosts
      BY FS_Singleton
    <2>3. Cardinality({g}) <= Cardinality(Hosts)
      BY <2>2, HostSocketAssumption, FS_Subset
    <2> QED BY <1>2, <1>3, <2>2, <2>3
  <1>4. CASE made = 2
    <2>1. PICK g \in Hosts : opened[g] = 1
      BY <1>4 DEF FilesHeld
    <2>2. PICK h \in Hosts : opened[h] = 2
      BY <1>4 DEF FilesHeld
    <2>3. IsFiniteSet({g}) /\ Cardinality({g}) = 1 /\ h \notin {g}
      <3>1. IsFiniteSet({g}) /\ Cardinality({g}) = 1
        BY FS_Singleton
      <3>2. g # h
        BY <2>1, <2>2
      <3> QED BY <3>1, <3>2
    <2>4. Cardinality({g} \cup {h}) = 2 /\ {g} \cup {h} \subseteq Hosts
      BY <2>3, FS_AddElement
    <2>5. Cardinality({g} \cup {h}) <= Cardinality(Hosts)
      BY <2>4, HostSocketAssumption, FS_Subset
    <2> QED BY <1>2, <1>4, <2>4, <2>5
  <1> QED BY <1>1, <1>2, <1>3, <1>4

\* For any number of hosts and callers, hosts that go away at any moment and a
\* socket file, or a lock file, that somebody removes: one host has the path,
\* and whoever starts finds it (take_lock, bind, ensure_running).
THEOREM PathKeptAlways == ASSUME ProvidedFor PROVE SocketSpec => PathKept
  <1>1. SocketInv => OneHost
    <2> SUFFICES ASSUME SocketInv PROVE OneHost
      OBVIOUS
    <2>1. SocketTypeOK
      BY MadeBounded DEF SocketInv, SocketTyped, SocketTypeOK
    <2>2. \A g, h \in Serving : g = h
      <3> SUFFICES ASSUME NEW g \in Serving, NEW h \in Serving, g # h PROVE FALSE
        OBVIOUS
      <3>1. g \in Holding /\ h \in Holding /\ process[g] # "probe" /\ process[h] # "probe"
        BY DEF Serving, Holding
      <3> QED BY <3>1, OneHolds
    <2> QED BY <2>1, <2>2 DEF OneHost
  <1>2. SocketInv /\ [SocketNext]_socketVars =>
          [\A h \in Hosts : Removes(h) => sock \notin Serving \ {h}]_socketVars
    <2> SUFFICES ASSUME SocketInv, NEW h \in Hosts, Removes(h), sock \in Serving, sock # h
                 PROVE  FALSE
      OBVIOUS
    <2>1. h \in Holding /\ process[h] # "probe"
      BY DEF Removes, Holding
    <2>2. sock \in Holding /\ process[sock] # "probe"
      BY DEF Serving, Holding
    <2> QED BY <2>1, <2>2, OneHolds
  <1> QED BY <1>1, <1>2, SocketInvariant, PTL DEF SocketSpec, PathKept, StaleOnly
=============================================================================
