-------------------------- MODULE WindowSessionsProofs --------------------------
(***************************************************************************)
(* Proofs that two agents never work on one conversation, and that no      *)
(* session that runs is out of the window's sight, for any number of       *)
(* sessions and windows and a host that comes and goes.                    *)
(*                                                                         *)
(* A conversation may be resumed in a new shell when no agent works on it. *)
(* The invariant therefore follows the sessions with an agent through all  *)
(* the places that may remember one: a surface, the card, the snapshot     *)
(* that waits to be written and the layout that the next window reads.     *)
(*                                                                         *)
(* The second half is about AgentRuns: the window's count of an agent's    *)
(* ended turns is never ahead of them, for all times that keep to Timely.  *)
(***************************************************************************)
EXTENDS WindowSessionsProperties, AgentRunsProperties, FiniteSetTheorems, TLAPS

Slots == Ids \cup {None}
Layouts == [Surfaces -> Slots \cup {Absent}]

\* Where a surface is: what it shows is known in the Opened places, and in
\* those of Anew a session it held before is over.
Idle == {"none", "closed"}
Following == {"follow", "opened"}
Opened == Following \cup {"attached", "shown", "ended"}
Anew == Following \cup {"spawn", "in_window", "lost_new"}
Waiting == {"unshown", "ask", "attach", "failed", "unanswered", "lost"}
Places == Idle \cup Opened \cup Anew \cup Waiting \cup {"window"}
Panes == [at: Places, held: Slots, shows: Slots]

WindowTypeOK ==
    /\ host \in {"serving", "mute", "dead"}
    /\ life \in [Ids -> {"free", "live", "ended", "gone"}] /\ agent \subseteq Slots
    /\ saved \in Layouts
    /\ win \in [up: BOOLEAN, leaving: {"no", "keep", "stop", "quit"}]
    /\ surface \in [Surfaces -> Panes]
    /\ ending \in [Ids -> {"no", "closing", "again", "end", "forget"}]
    /\ card \subseteq Ids /\ save \subseteq Layouts

(***************************************************************************)
(* Identifiers are positive, so that None and Absent are none of them.     *)
(***************************************************************************)
LEMMA IdsPositive == Ids \subseteq Nat \ {0} /\ None \notin Ids /\ Absent \notin Ids /\ None # Absent
<1>1. Cardinality(Ids) \in Nat /\ Ids = 1..Cardinality(Ids)
  BY FS_CardinalityType, WindowSessionsAssumption
<1> QED BY <1>1 DEF None, Absent

\* A surface's pane replaced by another one.
LEMMA PanePut ==
  ASSUME WindowTypeOK, NEW u \in Surfaces, NEW w \in Panes
  PROVE  [surface EXCEPT ![u] = w] \in [Surfaces -> Panes]
BY DEF WindowTypeOK

\* A surface that is at another step is still a surface.
LEMMA AtPut ==
  ASSUME WindowTypeOK, NEW u \in Surfaces, NEW step \in Places
  PROVE  At(u, step) \in [Surfaces -> Panes]
BY DEF WindowTypeOK, At, Panes

\* A step keeps what the surface holds and shows.
LEMMA AtIs ==
  ASSUME WindowTypeOK, NEW u \in Surfaces, NEW step
  PROVE  At(u, step) = [surface EXCEPT ![u] = [at |-> step, held |-> surface[u].held,
                                               shows |-> surface[u].shows]]
<1>1. surface[u] \in Panes
  BY DEF WindowTypeOK
<1>2. [surface[u] EXCEPT !.at = step]
        = [at |-> step, held |-> surface[u].held, shows |-> surface[u].shows]
  BY <1>1 DEF Panes
<1> QED BY <1>2 DEF At

\* A surface that is given a session to show.
LEMMA ShowsPut ==
  ASSUME WindowTypeOK, NEW u \in Surfaces, NEW step \in Places, NEW s \in Slots
  PROVE  Shows(u, step, s) \in [Surfaces -> Panes]
BY DEF WindowTypeOK, Shows, Panes

\* A surface with nothing is a surface.
LEMMA NothingPane == Nothing \in Panes
BY DEF Nothing, Panes, Slots, Places, Idle

\* What the layout records is a layout.
LEMMA RecordsLayout ==
  ASSUME WindowTypeOK
  PROVE  Records \in Layouts
BY DEF WindowTypeOK, Records, Recorded, Layouts, Panes, Slots

(***************************************************************************)
(* Type correctness.                                                       *)
(***************************************************************************)
LEMMA TypeInit == Init => WindowTypeOK
<1> SUFFICES ASSUME Init PROVE WindowTypeOK
  OBVIOUS
<1>1. saved \in Layouts
  BY DEF Init, Layouts, Slots, Surfaces
<1>2. surface \in [Surfaces -> Panes]
  BY NothingPane DEF Init
<1> QED BY <1>1, <1>2 DEF Init, WindowTypeOK

\* The windows' own steps.
LEMMA TypeWindow ==
  ASSUME WindowTypeOK,
         StartWindow \/ WriteLayout \/ Keep \/ StopAll \/ SettleOnQuit
         \/ TearDown \/ Exit \/ Crash \/ HostChanges
  PROVE  WindowTypeOK'
<1>1. CASE StartWindow
  <2>1. card' \subseteq Ids /\ save' \subseteq Layouts /\ saved' \in Layouts
    BY <1>1 DEF StartWindow, Unshown, Listed, Live, WindowTypeOK
  <2>2. life' \in [Ids -> {"free", "live", "ended", "gone"}]
    BY <1>1 DEF StartWindow, WindowTypeOK
  <2>3. ASSUME NEW u \in Surfaces, saved[u] # Absent
        PROVE  [at |-> "unshown", held |-> saved[u], shows |-> None] \in Panes
    BY <2>3 DEF WindowTypeOK, Layouts, Panes, Slots, Places, Waiting
  <2>4. surface' \in [Surfaces -> Panes]
    BY <1>1, <2>3, NothingPane DEF StartWindow
  <2> QED BY <1>1, <2>1, <2>2, <2>4 DEF StartWindow, WindowTypeOK
<1>2. CASE WriteLayout
  BY <1>2 DEF WriteLayout, WindowTypeOK, ofHost
<1>3. CASE Keep
  BY <1>3, RecordsLayout DEF Keep, WindowTypeOK, ofHost, ghosts
<1>4. CASE StopAll \/ SettleOnQuit
  <2>1. life' \in [Ids -> {"free", "live", "ended", "gone"}] /\ host' \in {"serving", "mute", "dead"}
    BY <1>4 DEF StopAll, Stops, SettleOnQuit, Set, WindowTypeOK
  <2> QED BY <1>4, <2>1, RecordsLayout DEF StopAll, SettleOnQuit, WindowTypeOK, ghosts
<1>5. CASE TearDown
  <2>1. ending' \in [Ids -> {"no", "closing", "again", "end", "forget"}]
    BY <1>5 DEF TearDown, Set, WindowTypeOK
  <2>2. surface' \in [Surfaces -> Panes]
    BY <1>5, NothingPane DEF TearDown, WindowTypeOK
  <2> QED BY <1>5, <2>1, <2>2 DEF TearDown, WindowTypeOK, ofHost, ofWindow
<1>6. CASE Exit \/ Crash
  <2>1. Away /\ saved' = saved /\ UNCHANGED ofHost
    BY <1>6 DEF Exit, Crash
  <2>2. surface' \in [Surfaces -> Panes] /\ win' \in [up: BOOLEAN, leaving: {"no", "keep", "stop", "quit"}]
    BY <2>1, NothingPane DEF Away
  <2> QED BY <2>1, <2>2 DEF Away, WindowTypeOK, ofHost
<1>7. CASE HostChanges
  <2>1. life' \in [Ids -> {"free", "live", "ended", "gone"}]
    BY <1>7 DEF HostChanges, Set, WindowTypeOK
  <2> QED BY <1>7, <2>1 DEF HostChanges, WindowTypeOK
<1> QED BY <1>1, <1>2, <1>3, <1>4, <1>5, <1>6, <1>7

\* The steps of a surface.
LEMMA TypeSurface ==
  ASSUME WindowTypeOK, NEW u \in Surfaces, Show(u) \/ Opening(u) \/ Close(u)
  PROVE  WindowTypeOK'
<1> USE DEF Places, Idle, Following, Opened, Anew, Waiting
<1>0. surface[u] \in Panes /\ surface[u].held \in Slots /\ surface[u].shows \in Slots
  BY DEF WindowTypeOK, Panes
<1>1. CASE Show(u)
  BY <1>1, AtPut DEF Show, WindowTypeOK, ghosts
<1>2. CASE Ask(u)
  <2>1. life' \in [Ids -> {"free", "live", "ended", "gone"}]
    BY <1>2 DEF Ask, WindowTypeOK
  <2>2. surface' \in [Surfaces -> Panes]
    BY <1>2, AtPut DEF Ask
  <2> QED BY <1>2, <2>1, <2>2 DEF Ask, WindowTypeOK, ofWindow
<1>3. CASE Attach(u)
  <2>2. surface' \in [Surfaces -> Panes]
    BY <1>0, <1>3, AtPut, ShowsPut DEF Attach
  <2> QED BY <1>3, <2>2 DEF Attach, WindowTypeOK, ofWindow, ofHost
<1>4. CASE Spawn(u)
  <2>1. Fresh \subseteq Ids
    BY DEF Fresh
  <2>2. surface' \in [Surfaces -> Panes]
    BY <1>4, <2>1, AtPut, ShowsPut DEF Spawn, Slots
  <2>3. life' \in [Ids -> {"free", "live", "ended", "gone"}]
    BY <1>4, <2>1 DEF Spawn, WindowTypeOK, ofHost
  <2>4. host' \in {"serving", "mute", "dead"} /\ agent' = agent
    BY <1>4 DEF Spawn, WindowTypeOK, ofHost
  <2> QED BY <1>4, <2>2, <2>3, <2>4 DEF Spawn, WindowTypeOK, ofWindow
<1>5. CASE FollowNew(u)
  <2>2. surface' \in [Surfaces -> Panes]
    BY <1>5, AtPut, ShowsPut DEF FollowNew, Slots
  <2>3. ending' \in [Ids -> {"no", "closing", "again", "end", "forget"}]
    BY <1>5 DEF FollowNew, WindowTypeOK
  <2> QED BY <1>5, <2>2, <2>3 DEF FollowNew, WindowTypeOK, ofWindow, ofHost
<1>6. CASE Promote(u)
  <2>1. [at |-> "shown", held |-> None, shows |-> surface[u].shows] \in Panes
    BY <1>0 DEF Panes, Slots
  <2>2. surface' \in [Surfaces -> Panes]
    BY <1>6, <2>1, PanePut DEF Promote
  <2>3. save' \subseteq Layouts
    <3>1. [Records EXCEPT ![u] = surface[u].shows] \in Layouts
      BY <1>0, RecordsLayout DEF Layouts
    <3> QED BY <1>6, <3>1 DEF Promote
  <2> QED BY <1>0, <1>6, <2>2, <2>3 DEF Promote, WindowTypeOK
<1>7. CASE Settle(u)
  <2>1. Kept(u) \in Slots
    BY <1>0 DEF Kept, Slots
  <2>2. surface' \in [Surfaces -> Panes]
    BY <1>7, <2>1, PanePut DEF Settle, Panes, Slots
  <2> QED BY <1>7, <2>2 DEF Settle, WindowTypeOK, ofWindow, ofHost
<1>8. CASE Close(u)
  <2>1. [Nothing EXCEPT !.at = "closed"] \in Panes
    BY DEF Nothing, Panes, Slots
  <2>2. surface' \in [Surfaces -> Panes]
    BY <1>8, <2>1, PanePut DEF Close
  <2>3. save' \subseteq Layouts
    BY <1>8, RecordsLayout DEF Close, Layouts
  <2>4. ending' \in [Ids -> {"no", "closing", "again", "end", "forget"}]
    BY <1>8 DEF Close, WindowTypeOK
  <2> QED BY <1>8, <2>2, <2>3, <2>4 DEF Close, WindowTypeOK, ofHost
<1> QED BY <1>1, <1>2, <1>3, <1>4, <1>5, <1>6, <1>7, <1>8 DEF Opening

\* The steps of a session.
LEMMA TypeSession ==
  ASSUME WindowTypeOK, NEW s \in Ids, OpenHeld(s) \/ EndHeld(s) \/ Ending(s) \/ SessionExits(s)
  PROVE  WindowTypeOK'
<1>1. CASE OpenHeld(s)
  <2>1. [at |-> "unshown", held |-> s, shows |-> None] \in Panes
    BY DEF Panes, Slots, Places, Waiting
  <2>2. surface' \in [Surfaces -> Panes]
    BY <1>1, <2>1, PanePut DEF OpenHeld, Surfaces
  <2>3. save' \subseteq Layouts
    BY <1>1, RecordsLayout DEF OpenHeld, Layouts, Slots
  <2> QED BY <1>1, <2>2, <2>3 DEF OpenHeld, WindowTypeOK, ofHost
<1>2. CASE EndHeld(s)
  BY <1>2 DEF EndHeld, WindowTypeOK, ofHost
<1>3. CASE Ending(s)
  BY <1>3 DEF Ending, ReaderLooks, ReaderLooksAgain, EndSession, Forget, Ends, Goes, WindowTypeOK,
              ofHost, ofWindow
<1>4. CASE SessionExits(s)
  <2>1. ASSUME NEW u \in Surfaces
        PROVE  [surface[u] EXCEPT !.at = "ended"] \in Panes
    BY DEF WindowTypeOK, Panes, Places, Opened
  <2>2. surface' \in [Surfaces -> Panes]
    BY <1>4, <2>1 DEF SessionExits, WindowTypeOK
  <2> QED BY <1>4, <2>2 DEF SessionExits, WindowTypeOK, ofWindow
<1> QED BY <1>1, <1>2, <1>3, <1>4

\* Every step keeps the types.
LEMMA TypeNext == WindowTypeOK /\ [Next]_vars => WindowTypeOK'
<1> SUFFICES ASSUME WindowTypeOK, [Next]_vars PROVE WindowTypeOK'
  OBVIOUS
<1>1. CASE UNCHANGED vars
  BY <1>1 DEF vars, WindowTypeOK
<1> QED BY <1>1, TypeWindow, TypeSurface, TypeSession DEF Next

(***************************************************************************)
(* A session's life: begun for good, and over for good.  Only a spawn      *)
(* starts one, and one that is free.                                       *)
(***************************************************************************)
Begun(l, x) == x \in Ids => l[x] # "free"
Over(l, x) == x \in Ids => l[x] \in {"ended", "gone"}

\* No step but Spawn starts a session.
LifeOn == \A s \in Ids :
    /\ life[s] # "free" => life'[s] # "free"
    /\ life[s] \in {"ended", "gone"} => life'[s] \in {"ended", "gone"}
    /\ life'[s] = "live" => life[s] = "live"
LifeFrom == \A s \in Ids :
    /\ life[s] # "free" => life'[s] # "free"
    /\ life[s] \in {"ended", "gone"} => life'[s] \in {"ended", "gone"}
    /\ life'[s] = "live" => life[s] \in {"live", "free"}

\* The window's and the host's own steps start no session.
LEMMA LifeOfWindow ==
  ASSUME WindowTypeOK,
         StartWindow \/ WriteLayout \/ Keep \/ StopAll \/ SettleOnQuit
         \/ TearDown \/ Exit \/ Crash \/ HostChanges
  PROVE  LifeOn
BY DEF StartWindow, WriteLayout, Keep, StopAll, Stops, SettleOnQuit, TearDown, Exit, Crash,
       HostChanges, Set, Live,
       ofHost, WindowTypeOK, LifeOn

\* Nor do the steps of a surface that are not Spawn.
LEMMA LifeOfSurface ==
  ASSUME WindowTypeOK, NEW u \in Surfaces,
         \/ Show(u) \/ Ask(u) \/ Attach(u) \/ FollowNew(u) \/ Promote(u) \/ Settle(u) \/ Close(u)
  PROVE  LifeOn
BY DEF Show, Ask, Attach, FollowNew, Promote, Settle, Close, ofHost, WindowTypeOK, LifeOn

\* Spawn starts one that was free (open_or).
LEMMA LifeOfSpawn ==
  ASSUME WindowTypeOK, NEW u \in Surfaces, Spawn(u)
  PROVE  LifeFrom
BY DEF Spawn, Fresh, ofHost, WindowTypeOK, LifeFrom

\* Nor do a session's own steps and those of the thread that ends it.
LEMMA LifeOfSession ==
  ASSUME WindowTypeOK, NEW s \in Ids, OpenHeld(s) \/ EndHeld(s) \/ Ending(s) \/ SessionExits(s)
  PROVE  LifeOn
BY DEF OpenHeld, EndHeld, Ending, ReaderLooks, ReaderLooksAgain, EndSession, Forget, SessionExits,
       Ends, ofHost, WindowTypeOK, LifeOn

\* So a session that has begun stays so, and one that is over stays over.
LEMMA LifeGoesOn == WindowTypeOK /\ [Next]_vars => LifeFrom
<1> SUFFICES ASSUME WindowTypeOK, [Next]_vars PROVE LifeFrom
  OBVIOUS
<1>1. LifeOn => LifeFrom
  BY DEF LifeOn, LifeFrom
<1>2. CASE UNCHANGED vars
  BY <1>2 DEF vars, LifeFrom
<1> QED BY <1>1, <1>2, LifeOfWindow, LifeOfSurface, LifeOfSpawn, LifeOfSession DEF Next, Opening

\* The same of anything that may be an identifier.
LEMMA BegunStays == ASSUME WindowTypeOK, [Next]_vars, NEW x, Begun(life, x) PROVE Begun(life', x)
BY LifeGoesOn DEF LifeFrom, Begun

\* The same of anything that may be an identifier.
LEMMA OverStays == ASSUME WindowTypeOK, [Next]_vars, NEW x, Over(life, x) PROVE Over(life', x)
BY LifeGoesOn DEF LifeFrom, Over

(***************************************************************************)
(* Between two windows nothing is shown or under way.                      *)
(***************************************************************************)
Vacant ==
    ~win.up => /\ \A u \in Surfaces : surface[u] = Nothing
               /\ \A s \in Ids : ending[s] = "no"
               /\ card = {} /\ save = {}

\* Exit and Crash take everything with them.
LEMMA VacantNext == WindowTypeOK /\ Vacant /\ [Next]_vars => Vacant'
<1> SUFFICES ASSUME WindowTypeOK, Vacant, [Next]_vars PROVE Vacant'
  OBVIOUS
<1>1. CASE UNCHANGED vars
  BY <1>1 DEF vars, Vacant
<1>2. CASE StartWindow
  BY <1>2 DEF StartWindow, Vacant
<1>3. CASE WriteLayout \/ Keep \/ StopAll \/ SettleOnQuit \/ TearDown
  BY <1>3 DEF WriteLayout, Keep, StopAll, Stops, SettleOnQuit, TearDown, Runs, Vacant,
              WindowTypeOK, ofWindow
<1>4. CASE Exit \/ Crash
  BY <1>4 DEF Exit, Crash, Away, Vacant
<1>5. CASE HostChanges
  BY <1>5 DEF HostChanges, Vacant
<1>6. ASSUME NEW u \in Surfaces, Show(u) \/ Opening(u) \/ Close(u) PROVE Vacant'
  <2>1. win.up /\ win' = win
    BY <1>6 DEF Show, Opening, Ask, Attach, Spawn, FollowNew, Promote, Settle, Close, Runs, ofWindow
  <2> QED BY <2>1 DEF Vacant
<1>7. ASSUME NEW s \in Ids, OpenHeld(s) \/ EndHeld(s) \/ Ending(s) PROVE Vacant'
  <2>1. win.up /\ win' = win
    BY <1>7 DEF OpenHeld, EndHeld, Ending, ReaderLooks, ReaderLooksAgain, EndSession, Forget, Runs,
                ofWindow
  <2> QED BY <2>1 DEF Vacant
<1>8. ASSUME NEW s \in Ids, SessionExits(s) PROVE Vacant'
  BY <1>8, IdsPositive DEF SessionExits, Vacant, Followed, Follows, Nothing, ofWindow, WindowTypeOK
<1> QED BY <1>1, <1>2, <1>3, <1>4, <1>5, <1>6, <1>7, <1>8 DEF Next

\* A window that wrote its layout on the way out has no more to write.
Written == win.leaving \in {"keep", "stop"} => save = {}

\* Nothing changes the layout of a window that leaves.
LEMMA WrittenNext == WindowTypeOK /\ Vacant /\ Written /\ [Next]_vars => Written'
<1> SUFFICES ASSUME WindowTypeOK, Vacant, Written, [Next]_vars PROVE Written'
  OBVIOUS
<1>1. CASE UNCHANGED vars
  BY <1>1 DEF vars, Written
<1>2. CASE StartWindow \/ Exit \/ Crash
  BY <1>2 DEF StartWindow, Exit, Crash, Away, Written
<1>3. CASE WriteLayout \/ Keep \/ StopAll
  BY <1>3 DEF WriteLayout, Keep, StopAll, Written
<1>4. CASE SettleOnQuit
  BY <1>4 DEF SettleOnQuit, WindowTypeOK, Written
<1>5. CASE TearDown \/ HostChanges
  BY <1>5 DEF TearDown, HostChanges, ofWindow, Written
<1>6. ASSUME NEW u \in Surfaces, Show(u) \/ Opening(u) \/ Close(u) PROVE Written'
  BY <1>6 DEF Show, Opening, Ask, Attach, Spawn, FollowNew, Promote, Settle, Close, Runs, ofWindow, Written
<1>7. ASSUME NEW s \in Ids, OpenHeld(s) \/ EndHeld(s) \/ Ending(s) \/ SessionExits(s) PROVE Written'
  BY <1>7 DEF OpenHeld, EndHeld, Ending, ReaderLooks, ReaderLooksAgain, EndSession, Forget, SessionExits,
              Runs, ofWindow, Written
<1> QED BY <1>1, <1>2, <1>3, <1>4, <1>5, <1>6, <1>7 DEF Next

(***************************************************************************)
(* Whatever is known of a session, it has begun: an identifier that Spawn  *)
(* takes is nowhere yet.                                                   *)
(***************************************************************************)
Known ==
    /\ \A s \in agent \cup card : Begun(life, s)
    /\ \A s \in Ids : ending[s] # "no" => Begun(life, s)
    /\ \A u \in Surfaces : Begun(life, saved[u]) /\ Begun(life, surface[u].held) /\ Begun(life, surface[u].shows)
    /\ \A layout \in save : \A u \in Surfaces : Begun(life, layout[u])

\* Nothing is said of None and Absent.
LEMMA NoneBegun == Begun(life, None) /\ Begun(life, Absent) /\ Over(life, None)
BY IdsPositive DEF Begun, Over

\* What a layout would record has begun.
LEMMA RecordsBegun == Known => \A u \in Surfaces : Begun(life, Records[u])
BY NoneBegun DEF Known, Records, Recorded

\* Initially nothing is known.
LEMMA KnownInit == Init => Known
BY IdsPositive DEF Init, Known, Begun, Nothing, Surfaces

\* Whatever a step takes up it has from a place that knew it, or has started it.
LEMMA KnownNext == WindowTypeOK /\ Vacant /\ Known /\ [Next]_vars => Known'
<1> SUFFICES ASSUME WindowTypeOK, Vacant, Known, [Next]_vars PROVE Known'
  OBVIOUS
<1>a. /\ \A s \in agent \cup card : Begun(life', s)
      /\ \A s \in Ids : ending[s] # "no" => Begun(life', s)
      /\ \A u \in Surfaces :
          Begun(life', saved[u]) /\ Begun(life', surface[u].held) /\ Begun(life', surface[u].shows)
      /\ \A layout \in save : \A u \in Surfaces : Begun(life', layout[u])
      /\ \A u \in Surfaces : Begun(life', Records[u])
      /\ Begun(life', None) /\ Begun(life', Absent)
  BY BegunStays, RecordsBegun, NoneBegun DEF Known
<1>b. SUFFICES
        /\ \A s \in agent' \cup card' : Begun(life', s)
        /\ \A s \in Ids : ending'[s] # "no" => Begun(life', s)
        /\ \A u \in Surfaces : /\ Begun(life', saved'[u]) /\ Begun(life', surface'[u].held)
                               /\ Begun(life', surface'[u].shows)
        /\ \A layout \in save' : \A u \in Surfaces : Begun(life', layout[u])
  BY DEF Known
<1>1. CASE UNCHANGED vars
  BY <1>1, <1>a DEF vars
<1>2. CASE StartWindow
  <2>1. \A s \in card' : Begun(life', s)
    BY <1>2, LifeGoesOn DEF StartWindow, Unshown, Listed, Live, LifeFrom, Begun
  <2>2. \A u \in Surfaces : Begun(life', surface'[u].held) /\ Begun(life', surface'[u].shows)
    BY <1>2, <1>a DEF StartWindow, Nothing
  <2> QED BY <1>2, <1>a, <2>1, <2>2 DEF StartWindow
<1>3. CASE WriteLayout \/ Keep \/ StopAll \/ SettleOnQuit
  BY <1>3, <1>a DEF WriteLayout, Keep, StopAll, Stops, SettleOnQuit, ofHost
<1>4. CASE TearDown
  <2>1. \A s \in Ids : ending'[s] # "no" => ending[s] # "no" \/ s \in Followed
    BY <1>4 DEF TearDown, Set, WindowTypeOK
  <2>2. \A s \in Followed : Begun(life', s)
    BY <1>a DEF Followed
  <2>3. \A u \in Surfaces : surface'[u] = surface[u] \/ surface'[u] = Nothing
    BY <1>4 DEF TearDown
  <2> QED BY <1>4, <1>a, <2>1, <2>2, <2>3 DEF TearDown, ofHost, ofWindow, Nothing
<1>5. CASE Exit \/ Crash
  BY <1>5, <1>a DEF Exit, Crash, Away, Nothing, ofHost
<1>6. CASE HostChanges
  BY <1>6, <1>a DEF HostChanges
<1>7. ASSUME NEW u \in Surfaces, Show(u) \/ Opening(u) \/ Close(u) PROVE <1>b!1
  <2>0. surface[u] \in Panes
    BY DEF WindowTypeOK
  <2>1. CASE Show(u) \/ Ask(u)
    <3>1. PICK step : surface' = At(u, step)
      BY <2>1 DEF Show, Ask
    <3> QED BY <1>a, <2>0, <2>1, <3>1 DEF At, Show, Ask, WindowTypeOK, Panes, ofWindow
  <2>2. CASE Attach(u)
    <3>1. \/ surface' = Shows(u, "attached", surface[u].held)
          \/ \E step : surface' = At(u, step)
      BY <2>2 DEF Attach
    <3> QED BY <1>a, <2>0, <2>2, <3>1 DEF At, Shows, Attach, WindowTypeOK, Panes, ofWindow, ofHost
  <2>3. CASE Spawn(u)
    <3>1. \/ \E s \in Fresh : surface' = Shows(u, "follow", s) /\ life' = [life EXCEPT ![s] = "live"]
          \/ \E step : surface' = At(u, step)
      BY <2>3 DEF Spawn
    <3>2. \A v \in Surfaces : Begun(life', surface'[v].held) /\ Begun(life', surface'[v].shows)
      BY <1>a, <2>0, <3>1 DEF At, Shows, WindowTypeOK, Panes, Fresh, Begun
    <3> QED BY <1>a, <2>3, <3>2 DEF Spawn, ofWindow, ofHost
  <2>4. CASE FollowNew(u)
    <3>1. \/ surface' = At(u, "opened") /\ ending' = ending
          \/ /\ surface' = Shows(u, "lost_new", None)
             /\ ending' = [ending EXCEPT ![surface[u].shows] = "end"]
      BY <2>4 DEF FollowNew
    <3>2. \A s \in Ids : ending'[s] # "no" => ending[s] # "no" \/ s = surface[u].shows
      BY <3>1 DEF WindowTypeOK
    <3> QED BY <1>a, <2>0, <2>4, <3>1, <3>2 DEF At, Shows, FollowNew, WindowTypeOK, Panes, ofWindow, ofHost
  <2>5. CASE Promote(u)
    <3>1. surface' = [surface EXCEPT ![u] = [at |-> "shown", held |-> None, shows |-> surface[u].shows]]
      BY <2>5 DEF Promote
    <3>2. \A v \in Surfaces : Begun(life', surface'[v].held) /\ Begun(life', surface'[v].shows)
      BY <1>a, <3>1 DEF WindowTypeOK
    <3>3. \A layout \in save' : \A v \in Surfaces :
            layout[v] = Records[v] \/ layout[v] = surface[u].shows
      BY <2>5, RecordsLayout DEF Promote, Layouts
    <3>4. agent' \subseteq agent \cup {surface[u].shows}
      BY <2>5 DEF Promote
    <3> QED BY <1>a, <2>5, <3>2, <3>3, <3>4 DEF Promote
  <2>6. CASE Settle(u)
    <3>1. PICK step : surface' = [surface EXCEPT ![u] = [at |-> step, held |-> Kept(u), shows |-> None]]
      BY <2>6 DEF Settle
    <3>2. \A v \in Surfaces : Begun(life', surface'[v].held) /\ Begun(life', surface'[v].shows)
      BY <1>a, <3>1 DEF WindowTypeOK, Kept
    <3> QED BY <1>a, <2>6, <3>2 DEF Settle, ofWindow, ofHost
  <2>7. CASE Close(u)
    <3>1. surface' = [surface EXCEPT ![u] = [Nothing EXCEPT !.at = "closed"]]
      BY <2>7 DEF Close
    <3>2. \A v \in Surfaces : Begun(life', surface'[v].held) /\ Begun(life', surface'[v].shows)
      BY <1>a, <3>1 DEF WindowTypeOK, Nothing
    <3>3. \A layout \in save' : \A v \in Surfaces : layout[v] = Records[v] \/ layout[v] = Absent
      BY <2>7, RecordsLayout DEF Close, Layouts
    <3>4. \A s \in Ids : ending'[s] # "no" =>
            ending[s] # "no" \/ s = surface[u].shows \/ s = surface[u].held
      BY <2>7 DEF Close, WindowTypeOK
    <3> QED BY <1>a, <2>7, <3>2, <3>3, <3>4 DEF Close, ofHost
  <2> QED BY <1>7, <2>1, <2>2, <2>3, <2>4, <2>5, <2>6, <2>7 DEF Opening
<1>8. ASSUME NEW s \in Ids, OpenHeld(s) \/ EndHeld(s) \/ Ending(s) \/ SessionExits(s) PROVE <1>b!1
  <2>1. CASE OpenHeld(s)
    <3>1. surface' = [surface EXCEPT !["tab"] = [at |-> "unshown", held |-> s, shows |-> None]]
      BY <2>1 DEF OpenHeld
    <3>2. \A v \in Surfaces : Begun(life', surface'[v].held) /\ Begun(life', surface'[v].shows)
      BY <1>a, <2>1, <3>1 DEF WindowTypeOK, OpenHeld
    <3>3. \A layout \in save' : \A v \in Surfaces : layout[v] = Records[v] \/ layout[v] = s
      BY <2>1, RecordsLayout DEF OpenHeld, Layouts
    <3> QED BY <1>a, <2>1, <3>2, <3>3 DEF OpenHeld, ofHost
  <2>2. CASE EndHeld(s)
    BY <1>a, <2>2 DEF EndHeld, ofHost, WindowTypeOK
  <2>3. CASE Ending(s)
    <3>1. ending[s] # "no"
      BY <2>3 DEF Ending, ReaderLooks, ReaderLooksAgain, EndSession, Forget
    <3>2. \A r \in Ids : r # s => ending'[r] = ending[r]
      BY <2>3 DEF Ending, ReaderLooks, ReaderLooksAgain, EndSession, Forget, Goes, WindowTypeOK
    <3> QED BY <1>a, <2>3, <3>1, <3>2 DEF Ending, ReaderLooks, ReaderLooksAgain, EndSession, Forget,
                                         ofHost, ofWindow
  <2>4. CASE SessionExits(s)
    <3>1. \A v \in Surfaces : surface'[v].held = surface[v].held /\ surface'[v].shows = surface[v].shows
      BY <2>4 DEF SessionExits, WindowTypeOK, Panes
    <3>2. Begun(life', s)
      BY <2>4 DEF SessionExits, WindowTypeOK, Begun
    <3>3. \A r \in Ids : r # s => ending'[r] = ending[r]
      BY <2>4 DEF SessionExits, WindowTypeOK
    <3> QED BY <1>a, <2>4, <3>1, <3>2, <3>3 DEF SessionExits, ofWindow
  <2> QED BY <1>8, <2>1, <2>2, <2>3, <2>4
<1> QED BY <1>1, <1>2, <1>3, <1>4, <1>5, <1>6, <1>7, <1>8 DEF Next

(***************************************************************************)
(* What a surface holds and shows where it is; and what is over.           *)
(***************************************************************************)
Fits(l, w) ==
    /\ w.at \in Opened <=> w.shows # None
    /\ w.at = "attached" => w.shows = w.held
    /\ w.at \in {"ask", "attach", "failed"} => w.held # None
    /\ w.at \in Idle \cup {"shown", "ended", "window"} => w.held = None
    /\ w.at \in Anew => Over(l, w.held)
    /\ w.at = "ended" => Over(l, w.shows)
Placed ==
    /\ \A u \in Surfaces : Fits(life, surface[u])
    /\ \A s \in Ids : ending[s] = "forget" => Over(life, s)
    /\ host = "dead" => \A s \in Ids : life[s] # "live"

\* Initially there is no surface in use.
LEMMA PlacedInit == Init => Placed
BY IdsPositive DEF Init, Placed, Fits, Over, Nothing, Surfaces, Opened, Anew, Following, Idle

\* Nothing is held or shown where there is no pane.
LEMMA FitsNothing == ASSUME NEW l PROVE Fits(l, Nothing) /\ Fits(l, [Nothing EXCEPT !.at = "closed"])
BY DEF Fits, Nothing, Opened, Anew, Following, Idle

\* The window's own steps: a window that starts or goes has its surfaces anew.
LEMMA PlacedWindow ==
  ASSUME WindowTypeOK, Known, Placed, [Next]_vars,
         StartWindow \/ WriteLayout \/ Keep \/ StopAll \/ SettleOnQuit
         \/ TearDown \/ Exit \/ Crash \/ HostChanges
  PROVE  Placed'
<1>a. /\ \A u \in Surfaces : Fits(life', surface[u])
      /\ \A s \in Ids : ending[s] = "forget" => Over(life', s)
  BY OverStays DEF Placed, Fits
<1>1. \A u \in Surfaces : Fits(life', surface'[u])
  <2>1. CASE StartWindow
    <3>1. ASSUME NEW u \in Surfaces
          PROVE  Fits(life', [at |-> "unshown", held |-> saved[u], shows |-> None])
      BY DEF Fits, Opened, Anew, Following, Idle
    <3> QED BY <2>1, <3>1, FitsNothing DEF StartWindow
  <2>2. CASE TearDown
    BY <2>2, <1>a, FitsNothing DEF TearDown
  <2>3. CASE Exit \/ Crash
    BY <2>3, <1>a, FitsNothing DEF Exit, Crash, Away
  <2>4. CASE WriteLayout \/ Keep \/ StopAll \/ SettleOnQuit \/ HostChanges
    BY <2>4, <1>a DEF WriteLayout, Keep, StopAll, Stops, SettleOnQuit, HostChanges
  <2> QED BY <2>1, <2>2, <2>3, <2>4
<1>2. \A s \in Ids : ending'[s] = "forget" => Over(life', s)
  <2>1. CASE TearDown
    <3>1. \A s \in Ids : ending'[s] = "forget" => ending[s] = "forget"
      BY <2>1 DEF TearDown, Set, WindowTypeOK
    <3> QED BY <1>a, <3>1
  <2>2. CASE ~TearDown
    BY <2>2, <1>a DEF StartWindow, WriteLayout, Keep, StopAll, Stops, SettleOnQuit, Exit, Crash,
                      HostChanges, Away
  <2> QED BY <2>1, <2>2
<1>3. ASSUME host' = "dead", NEW s \in Ids PROVE life'[s] # "live"
  BY <1>3 DEF StartWindow, WriteLayout, Keep, StopAll, Stops, SettleOnQuit, TearDown, Exit, Crash,
              HostChanges, ofHost,
              WindowTypeOK, Placed, Set
<1> QED BY <1>1, <1>2, <1>3 DEF Placed

\* A surface's own steps: what reattach finds gone is over for good.
LEMMA PlacedSurface ==
  ASSUME WindowTypeOK, Known, Placed, [Next]_vars,
         NEW u \in Surfaces, Show(u) \/ Opening(u) \/ Close(u)
  PROVE  Placed'
<1>a. /\ \A v \in Surfaces : Fits(life', surface[v])
      /\ \A s \in Ids : ending[s] = "forget" => Over(life', s)
  BY OverStays DEF Placed, Fits
<1>b. surface[u] \in Panes /\ Fits(life, surface[u])
  BY DEF WindowTypeOK, Placed
<1>1. \E w : surface' = [surface EXCEPT ![u] = w] /\ Fits(life', w)
  <2> DEFINE held == surface[u].held
             shows == surface[u].shows
             Put(at, h, w) == surface' = [surface EXCEPT ![u] = [at |-> at, held |-> h, shows |-> w]]
  <2>a. SUFFICES \E at, h, w : Put(at, h, w) /\ Fits(life', [at |-> at, held |-> h, shows |-> w])
    OBVIOUS
  <2>b. Fits(life', surface[u])
    BY <1>a
  <2> USE DEF Fits, Opened, Anew, Following, Idle
  <2>1. CASE Show(u)
    <3>1. PICK at \in {"spawn", "ask"} : Put(at, held, shows) /\ (at = "spawn" <=> held = None)
      BY <2>1, AtIs DEF Show
    <3>2. Fits(life', [at |-> at, held |-> held, shows |-> shows])
      BY <2>1, <2>b, <3>1, NoneBegun, OverStays DEF Show
    <3> QED BY <3>1, <3>2
  <2>2. CASE Ask(u)
    <3>1. PICK at \in {"spawn", "attach", "unanswered"} :
            Put(at, held, shows) /\ (at = "spawn" => Gone(held))
      BY <2>2, AtIs DEF Ask
    <3>a. held \in Slots /\ Begun(life, held)
      BY <1>b DEF Known, Panes
    <3>b. host = "dead" => \A s \in Ids : life[s] # "live"
      BY DEF Placed
    <3>2. Gone(held) => Over(life, held)
      BY <3>a, <3>b DEF Gone, Over, Begun, WindowTypeOK
    <3>3. Fits(life', [at |-> at, held |-> held, shows |-> shows])
      BY <2>2, <2>b, <3>1, <3>2, OverStays DEF Ask
    <3> QED BY <3>1, <3>3
  <2>3. CASE Attach(u)
    <3>1. \/ Put("attached", held, held)
          \/ \E at \in {"unanswered", "failed"} : Put(at, held, shows)
      BY <2>3, AtIs DEF Attach, Shows
    <3>2. /\ Fits(life', [at |-> "attached", held |-> held, shows |-> held])
          /\ Fits(life', [at |-> "failed", held |-> held, shows |-> shows])
          /\ Fits(life', [at |-> "unanswered", held |-> held, shows |-> shows])
      BY <2>3, <2>b DEF Attach
    <3> QED BY <3>1, <3>2
  <2>4. CASE Spawn(u)
    <3>1. \/ \E s \in Fresh : Put("follow", held, s)
          \/ Put("in_window", held, shows)
      BY <2>4, AtIs DEF Spawn, Shows
    <3>2. ASSUME NEW s \in Fresh PROVE Fits(life', [at |-> "follow", held |-> held, shows |-> s])
      BY <2>4, <2>b, IdsPositive DEF Spawn, Fresh
    <3>3. Fits(life', [at |-> "in_window", held |-> held, shows |-> shows])
      BY <2>4, <2>b DEF Spawn
    <3> QED BY <3>1, <3>2, <3>3
  <2>5. CASE FollowNew(u)
    <3>1. Put("opened", held, shows) \/ Put("lost_new", held, None)
      BY <2>5, AtIs DEF FollowNew, Shows
    <3>2. /\ Fits(life', [at |-> "opened", held |-> held, shows |-> shows])
          /\ Fits(life', [at |-> "lost_new", held |-> held, shows |-> None])
      BY <2>5, <2>b DEF FollowNew
    <3> QED BY <3>1, <3>2
  <2>6. CASE Promote(u)
    <3>1. Put("shown", None, shows)
      BY <2>6 DEF Promote
    <3>2. Fits(life', [at |-> "shown", held |-> None, shows |-> shows])
      BY <2>6, <2>b DEF Promote
    <3> QED BY <3>1, <3>2
  <2>7. CASE Settle(u)
    <3>1. PICK at \in {"window", "lost"} :
            Put(at, Kept(u), None) /\ (at = "window" <=> surface[u].at = "in_window")
      BY <2>7 DEF Settle
    <3>2. Fits(life', [at |-> at, held |-> Kept(u), shows |-> None])
      BY <2>7, <3>1 DEF Settle, Kept
    <3> QED BY <3>1, <3>2
  <2>8. CASE Close(u)
    <3>1. Put("closed", None, None)
      <4>1. [Nothing EXCEPT !.at = "closed"] = [at |-> "closed", held |-> None, shows |-> None]
        BY DEF Nothing
      <4> QED BY <2>8, <4>1 DEF Close
    <3>2. Fits(life', [at |-> "closed", held |-> None, shows |-> None])
      OBVIOUS
    <3> QED BY <3>1, <3>2
  <2> QED BY <2>1, <2>2, <2>3, <2>4, <2>5, <2>6, <2>7, <2>8 DEF Opening
<1>2. \A s \in Ids : ending'[s] = "forget" => ending[s] = "forget"
  BY DEF Show, Opening, Ask, Attach, Spawn, FollowNew, Promote, Settle, Close, WindowTypeOK
<1>3. ASSUME host' = "dead", NEW s \in Ids PROVE life'[s] # "live"
  BY <1>3 DEF Show, Opening, Ask, Attach, Spawn, FollowNew, Promote, Settle, Close, WindowTypeOK,
              ofHost, Placed
<1>4. \A v \in Surfaces : Fits(life', surface'[v])
  BY <1>a, <1>1 DEF WindowTypeOK
<1> QED BY <1>a, <1>2, <1>3, <1>4 DEF Placed

\* The steps of a session: one is forgotten only after its end.
LEMMA PlacedSession ==
  ASSUME WindowTypeOK, Known, Placed, [Next]_vars,
         NEW s \in Ids, OpenHeld(s) \/ EndHeld(s) \/ Ending(s) \/ SessionExits(s)
  PROVE  Placed'
<1>a. /\ \A v \in Surfaces : Fits(life', surface[v])
      /\ \A r \in Ids : ending[r] = "forget" => Over(life', r)
  BY OverStays DEF Placed, Fits
<1>1. CASE OpenHeld(s)
  <2>1. Fits(life', [at |-> "unshown", held |-> s, shows |-> None])
    BY DEF Fits, Opened, Anew, Following, Idle
  <2>2. surface' = [surface EXCEPT !["tab"] = [at |-> "unshown", held |-> s, shows |-> None]]
    BY <1>1 DEF OpenHeld
  <2>3. \A v \in Surfaces : Fits(life', surface'[v])
    BY <1>a, <2>1, <2>2 DEF WindowTypeOK
  <2> QED BY <1>1, <1>a, <2>3 DEF OpenHeld, Placed, ofHost
<1>2. CASE EndHeld(s)
  <2>1. \A r \in Ids : ending'[r] = "forget" => ending[r] = "forget"
    BY <1>2 DEF EndHeld, WindowTypeOK
  <2> QED BY <1>2, <1>a, <2>1 DEF EndHeld, Placed, ofHost
<1>3. CASE Ending(s)
  <2>1. ending'[s] = "forget" => Over(life', s)
    BY <1>3 DEF Ending, ReaderLooks, ReaderLooksAgain, EndSession, Forget, Goes, Ends, WindowTypeOK,
                Over, Known, Begun
  <2>2. \A r \in Ids : r # s => ending'[r] = ending[r]
    BY <1>3 DEF Ending, ReaderLooks, ReaderLooksAgain, EndSession, Forget, Goes, WindowTypeOK
  <2>3. surface' = surface /\ host' = host
    BY <1>3 DEF Ending, ReaderLooks, ReaderLooksAgain, EndSession, Forget, ofHost
  <2>4. \A r \in Ids : life'[r] = "live" => life[r] = "live"
    BY <1>3, LifeOfSession DEF LifeOn
  <2> QED BY <1>a, <2>1, <2>2, <2>3, <2>4 DEF Placed
<1>4. CASE SessionExits(s)
  <2>1. Over(life', s) /\ \A r \in Ids : life'[r] = "live" => life[r] = "live"
    BY <1>4 DEF SessionExits, WindowTypeOK, Over
  <2>2. ASSUME NEW v \in Surfaces PROVE Fits(life', surface'[v])
    <3>1. CASE surface[v].at = "shown" /\ surface[v].shows = s
      <4>1. surface'[v] = [at |-> "ended", held |-> surface[v].held, shows |-> surface[v].shows]
        BY <1>4, <3>1 DEF SessionExits, WindowTypeOK, Panes
      <4>2. Fits(life', surface[v])
        BY <1>a
      <4> QED BY <2>1, <3>1, <4>1, <4>2 DEF Fits, Opened, Anew, Following, Idle
    <3>2. CASE ~(surface[v].at = "shown" /\ surface[v].shows = s)
      <4>1. surface'[v] = surface[v]
        BY <1>4, <3>2 DEF SessionExits
      <4> QED BY <1>a, <4>1
    <3> QED BY <3>1, <3>2
  <2>3. \A r \in Ids : r # s => ending'[r] = ending[r]
    BY <1>4 DEF SessionExits, WindowTypeOK
  <2> QED BY <1>4, <1>a, <2>1, <2>2, <2>3 DEF SessionExits, Placed
<1> QED BY <1>1, <1>2, <1>3, <1>4

\* Every step leaves the surfaces with what their places say.
LEMMA PlacedNext == WindowTypeOK /\ Known /\ Placed /\ [Next]_vars => Placed'
<1> SUFFICES ASSUME WindowTypeOK, Known, Placed, [Next]_vars PROVE Placed'
  OBVIOUS
<1>1. CASE UNCHANGED vars
  BY <1>1 DEF vars, Placed
<1> QED BY <1>1, PlacedWindow, PlacedSurface, PlacedSession DEF Next

(***************************************************************************)
(* A session that runs is in sight of the window.                          *)
(***************************************************************************)
Seen(s) == \/ s \in card \/ ending[s] # "no" \/ s \in astray
           \/ \E u \in Surfaces : s = surface[u].held \/ s = surface[u].shows
Sighted ==
    /\ Runs => \A s \in Ids : life[s] = "live" => Seen(s)
    /\ \A u \in Surfaces : surface[u].at = "failed" => surface[u].held \in astray

\* A surface's own steps lose sight of no session that runs.
LEMMA SightedSurface ==
  ASSUME WindowTypeOK, Known, Placed, Sighted, [Next]_vars,
         NEW u \in Surfaces, Show(u) \/ Opening(u) \/ Close(u)
  PROVE  Sighted'
<1>f. \A v \in Surfaces : surface'[v].at = "failed" => surface'[v].held \in astray'
  <2>1. \A v \in Surfaces : v # u => surface'[v] = surface[v]
    BY DEF Show, Opening, Ask, Attach, Spawn, FollowNew, Promote, Settle, Close, At, Shows, WindowTypeOK
  <2>2. surface'[u].at = "failed" => Attach(u) /\ surface' = At(u, "failed")
    BY DEF Show, Opening, Ask, Attach, Spawn, FollowNew, Promote, Settle, Close, At, Shows, Nothing,
           WindowTypeOK, Panes
  <2>3. Attach(u) /\ surface' = At(u, "failed") => surface'[u].held \in astray'
    BY AtIs DEF Attach, WindowTypeOK, Shows
  <2>4. astray \subseteq astray'
    BY DEF Show, Opening, Ask, Attach, Spawn, FollowNew, Promote, Settle, Close, ghosts
  <2> QED BY <2>1, <2>2, <2>3, <2>4 DEF Sighted
<1> SUFFICES ASSUME Runs', NEW s \in Ids, life'[s] = "live" PROVE Seen(s)'
  BY <1>f DEF Sighted
<1>b. surface[u] \in Panes /\ Fits(life, surface[u]) /\ s # None
  BY IdsPositive DEF WindowTypeOK, Placed
<1>r. Runs
  BY DEF Runs, Show, Opening, Ask, Attach, Spawn, FollowNew, Promote, Settle, Close, ofWindow
<1>o. Over(life, s) => FALSE
  BY OverStays DEF Over
<1>1. CASE Show(u)
  <2>1. Seen(s) /\ life' = life
    BY <1>1, <1>r DEF Show, Sighted
  <2>2. \A v \in Surfaces : surface'[v].held = surface[v].held /\ surface'[v].shows = surface[v].shows
    BY <1>1, AtIs DEF Show, WindowTypeOK
  <2> QED BY <1>1, <2>1, <2>2 DEF Show, Seen, ghosts
<1>2. CASE Ask(u)
  <2>1. Seen(s)
    BY <1>2, <1>r DEF Ask, Sighted, WindowTypeOK
  <2>2. \A v \in Surfaces : surface'[v].held = surface[v].held /\ surface'[v].shows = surface[v].shows
    BY <1>2, AtIs DEF Ask, WindowTypeOK
  <2> QED BY <1>2, <2>1, <2>2 DEF Ask, Seen, ghosts, ofWindow
<1>3. CASE Attach(u)
  <2>1. Seen(s)
    BY <1>3, <1>r DEF Attach, Sighted, ofHost
  <2>2. \A v \in Surfaces : /\ surface'[v].held = surface[v].held
                           /\ surface[v].shows \in {None, surface'[v].shows}
    BY <1>3, <1>b, AtIs DEF Attach, Shows, WindowTypeOK, Fits, Opened, Following
  <2>3. astray \subseteq astray'
    BY <1>3 DEF Attach, ghosts
  <2> QED BY <1>b, <1>3, <2>1, <2>2, <2>3 DEF Attach, Seen, ofWindow
<1>4. CASE Spawn(u)
  <2>1. \A v \in Surfaces : /\ surface'[v].held = surface[v].held
                           /\ surface[v].shows \in {None, surface'[v].shows}
    BY <1>4, <1>b, AtIs DEF Spawn, Shows, WindowTypeOK, Fits, Opened, Following
  <2>2. astray \subseteq astray'
    BY <1>4 DEF Spawn
  <2>3. CASE life[s] = "live"
    <3>1. Seen(s)
      BY <2>3, <1>r DEF Sighted
    <3> QED BY <1>b, <1>4, <2>1, <2>2, <3>1 DEF Spawn, Seen, ofWindow
  <2>4. CASE life[s] # "live"
    <3>1. s \in astray' \/ surface' = Shows(u, "follow", s)
      BY <1>4, <2>4 DEF Spawn, WindowTypeOK, ofHost, Fresh
    <3> QED BY <3>1 DEF Shows, Seen, WindowTypeOK
  <2> QED BY <2>3, <2>4
<1>5. CASE FollowNew(u)
  <2>1. Seen(s)
    BY <1>5, <1>r DEF FollowNew, Sighted, ofHost
  <2>2. \A v \in Surfaces : /\ surface'[v].held = surface[v].held
                           /\ \/ surface'[v].shows = surface[v].shows
                              \/ v = u /\ ending' = [ending EXCEPT ![surface[u].shows] = "end"]
    BY <1>5, AtIs DEF FollowNew, Shows, WindowTypeOK
  <2>3. ending[s] # "no" => ending'[s] # "no"
    BY <1>5 DEF FollowNew, WindowTypeOK
  <2> QED BY <1>5, <2>1, <2>2, <2>3 DEF FollowNew, Seen, ofWindow, ghosts, WindowTypeOK
<1>6. CASE Promote(u)
  <2>1. Seen(s)
    BY <1>6, <1>r DEF Promote, Sighted
  <2>2. \A v \in Surfaces : /\ surface'[v].shows = surface[v].shows
                           /\ v # u => surface'[v].held = surface[v].held
    BY <1>6 DEF Promote, WindowTypeOK
  <2>3. s = surface[u].held => s = surface[u].shows
    BY <1>6, <1>b, <1>o DEF Promote, Fits, Anew, Following
  <2> QED BY <1>6, <2>1, <2>2, <2>3 DEF Promote, Seen, ghosts
<1>7. CASE Settle(u)
  <2>1. Seen(s)
    BY <1>7, <1>r DEF Settle, Sighted, ofHost
  <2>2. \A v \in Surfaces : v # u => surface'[v] = surface[v]
    BY <1>7 DEF Settle, WindowTypeOK
  <2>3. s # surface[u].shows
    BY <1>7, <1>b DEF Settle, Fits, Opened, Following
  <2>4. s = surface[u].held => surface[u].at \in {"failed", "unanswered"}
    BY <1>7, <1>b, <1>o DEF Settle, Fits, Anew
  <2>5. surface[u].at = "unanswered" => surface'[u].held = surface[u].held
    BY <1>7 DEF Settle, Kept, WindowTypeOK
  <2>6. surface[u].at = "failed" => surface[u].held \in astray
    BY DEF Sighted
  <2> QED BY <1>7, <2>1, <2>2, <2>3, <2>4, <2>5, <2>6 DEF Settle, Seen, ofWindow, ghosts
<1>8. CASE Close(u)
  <2>1. Seen(s)
    BY <1>8, <1>r DEF Close, Sighted, ofHost
  <2>2. \A v \in Surfaces : v # u => surface'[v] = surface[v]
    BY <1>8 DEF Close, WindowTypeOK
  <2>3. \A r \in Ids : ending[r] # "no" => ending'[r] # "no"
    BY <1>8 DEF Close, WindowTypeOK
  <2>4. CASE Follows(u)
    <3>1. ending' = [ending EXCEPT ![surface[u].shows] = "closing"] /\ astray' = astray
      BY <1>8, <2>4 DEF Close
    <3>2. s = surface[u].shows => ending'[s] = "closing"
      BY <3>1 DEF WindowTypeOK
    <3>3. s = surface[u].held => s = surface[u].shows
      BY <1>8, <1>b, <1>o, <2>4 DEF Follows, Fits, Anew, Following
    <3> QED BY <1>8, <2>1, <2>2, <2>3, <3>1, <3>2, <3>3 DEF Close, Seen
  <2>5. CASE ~Follows(u)
    <3>1. astray' = astray \cup {surface[u].held}
      BY <1>8, <2>5 DEF Close
    <3>2. s # surface[u].shows
      BY <1>8, <1>b, <1>o, <2>5 DEF Close, Follows, Fits, Opened, Following
    <3> QED BY <1>8, <2>1, <2>2, <2>3, <3>1, <3>2 DEF Close, Seen
  <2> QED BY <2>4, <2>5
<1> QED BY <1>1, <1>2, <1>3, <1>4, <1>5, <1>6, <1>7, <1>8 DEF Opening

\* Opening and ending a held session loses sight of none.
LEMMA SightedSession ==
  ASSUME WindowTypeOK, Known, Placed, Sighted, [Next]_vars,
         NEW r \in Ids, OpenHeld(r) \/ EndHeld(r) \/ Ending(r) \/ SessionExits(r)
  PROVE  Sighted'
<1>a. astray' = astray
  BY DEF OpenHeld, EndHeld, Ending, ReaderLooks, ReaderLooksAgain, EndSession, Forget, SessionExits,
         ghosts
<1>f. \A v \in Surfaces : surface'[v].at = "failed" => surface'[v].held \in astray'
  <2>1. \A v \in Surfaces : surface'[v].at = "failed" => surface'[v] = surface[v]
    BY DEF OpenHeld, EndHeld, Ending, ReaderLooks, ReaderLooksAgain, EndSession, Forget, SessionExits,
           WindowTypeOK, Panes
  <2> QED BY <1>a, <2>1 DEF Sighted
<1> SUFFICES ASSUME Runs', NEW s \in Ids, life'[s] = "live" PROVE Seen(s)'
  BY <1>f DEF Sighted
<1>1. life[s] = "live"
  BY LifeOfSession DEF LifeOn
<1>2. Runs
  BY DEF Runs, OpenHeld, EndHeld, Ending, ReaderLooks, ReaderLooksAgain, EndSession, Forget,
         SessionExits, ofWindow
<1>3. Seen(s)
  BY <1>1, <1>2 DEF Sighted
<1>4. CASE OpenHeld(r)
  <2>1. surface["tab"].held = None /\ surface["tab"].shows = None
    BY <1>4 DEF OpenHeld, Placed, Fits, Surfaces, Idle, Opened, Following
  <2>2. s # None
    BY IdsPositive
  <2>3. surface'["tab"].held = r /\ surface'["agent"] = surface["agent"]
    BY <1>4 DEF OpenHeld, WindowTypeOK, Surfaces
  <2> QED BY <1>3, <1>4, <1>a, <2>1, <2>2, <2>3 DEF OpenHeld, Seen, Surfaces
<1>5. CASE EndHeld(r)
  BY <1>3, <1>5, <1>a DEF EndHeld, Seen, WindowTypeOK
<1>6. CASE Ending(r)
  <2>1. ending[s] # "no" => ending'[s] # "no"
    BY <1>1, <1>2, <1>6 DEF Ending, ReaderLooks, ReaderLooksAgain, EndSession, Forget, Goes, Ends,
                            Leaves, Runs, WindowTypeOK, Placed, Over
  <2>2. surface' = surface /\ card' = card
    BY <1>6 DEF Ending, ReaderLooks, ReaderLooksAgain, EndSession, Forget, ofWindow
  <2> QED BY <1>3, <1>a, <2>1, <2>2 DEF Seen
<1>7. CASE SessionExits(r)
  <2>1. \A v \in Surfaces : surface'[v].held = surface[v].held /\ surface'[v].shows = surface[v].shows
    BY <1>7 DEF SessionExits, WindowTypeOK, Panes
  <2>2. ending[s] # "no" => ending'[s] # "no"
    BY <1>7 DEF SessionExits, WindowTypeOK
  <2>3. card' = card
    BY <1>7 DEF SessionExits, ofWindow
  <2> QED BY <1>3, <1>a, <2>1, <2>2, <2>3 DEF Seen
<1> QED BY <1>4, <1>5, <1>6, <1>7

\* A window that starts lists what its layout does not mention.
LEMMA SightedWindow ==
  ASSUME WindowTypeOK, Vacant, Known, Placed, Sighted, [Next]_vars,
         StartWindow \/ WriteLayout \/ Keep \/ StopAll \/ SettleOnQuit
         \/ TearDown \/ Exit \/ Crash \/ HostChanges
  PROVE  Sighted'
<1>1. CASE StartWindow
  <2>1. PICK listed \in {Listed, {}} : card' = Unshown(listed) /\ astray' = Live \ listed
    BY <1>1 DEF StartWindow
  <2>2. \A u \in Surfaces :
          /\ surface'[u].at # "failed"
          /\ saved[u] # Absent => surface'[u].held = saved[u]
    BY <1>1 DEF StartWindow, Nothing
  <2>3. ASSUME NEW s \in Ids, life'[s] = "live" PROVE Seen(s)'
    <3>1. s \in Live
      BY <1>1, <2>3, LifeOfWindow DEF LifeOn, Live
    <3>2. s \in astray' \/ s \in card' \/ \E u \in Surfaces : saved[u] # Absent /\ s = saved[u]
      BY <2>1, <3>1, IdsPositive DEF Unshown, Mentioned
    <3> QED BY <2>2, <3>2 DEF Seen
  <2> QED BY <2>2, <2>3 DEF Sighted
<1>2. CASE WriteLayout
  BY <1>2 DEF WriteLayout, Sighted, Seen, Runs, ofHost, ghosts
<1>3. CASE Keep \/ StopAll \/ SettleOnQuit
  <2>1. ~Runs' /\ surface' = surface /\ astray' = astray
    BY <1>3 DEF Keep, StopAll, Stops, SettleOnQuit, Runs, ghosts, WindowTypeOK
  <2> QED BY <2>1 DEF Sighted
<1>4. CASE TearDown
  <2>1. ~Runs' /\ astray' = astray
    BY <1>4 DEF TearDown, Runs, ofWindow, ghosts
  <2>2. \A u \in Surfaces : surface'[u] = surface[u] \/ surface'[u] = Nothing
    BY <1>4 DEF TearDown
  <2> QED BY <2>1, <2>2 DEF Sighted, Nothing
<1>5. CASE Exit \/ Crash
  <2>1. ~Runs' /\ \A u \in Surfaces : surface'[u] = Nothing
    BY <1>5 DEF Exit, Crash, Away, Runs
  <2> QED BY <2>1 DEF Sighted, Nothing
<1>6. CASE HostChanges
  <2>1. \A s \in Ids : life'[s] = "live" => life[s] = "live"
    BY <1>6, LifeOfWindow DEF LifeOn
  <2> QED BY <1>6, <2>1 DEF HostChanges, Sighted, Seen, Runs, ghosts
<1> QED BY <1>1, <1>2, <1>3, <1>4, <1>5, <1>6

\* No step loses sight of a session that runs.
LEMMA SightedNext == WindowTypeOK /\ Vacant /\ Known /\ Placed /\ Sighted /\ [Next]_vars => Sighted'
<1> SUFFICES ASSUME WindowTypeOK, Vacant, Known, Placed, Sighted, [Next]_vars PROVE Sighted'
  OBVIOUS
<1>1. CASE UNCHANGED vars
  BY <1>1 DEF vars, Sighted, Seen, Runs
<1> QED BY <1>1, SightedWindow, SightedSurface, SightedSession DEF Next

(***************************************************************************)
(* The agent's surface holds sessions with an agent, and one that it has   *)
(* just started is known to nobody else.                                   *)
(***************************************************************************)
Mine == surface["agent"]
Typed(x) == x \in Ids => x \in agent
\* What the tab shows or may come to show
Tabs(s) == \/ s \in card \/ s = surface["tab"].held \/ s = surface["tab"].shows \/ s = saved["tab"]
           \/ \E layout \in save : s = layout["tab"]
Aside ==
    /\ Typed(saved["agent"]) /\ Typed(Mine.held) /\ \A layout \in save : Typed(layout["agent"])
    /\ Mine.at \in {"attached", "shown", "ended"} => Typed(Mine.shows)
    /\ Mine.at \in Following => Mine.shows \notin agent /\ ~Tabs(Mine.shows)

\* Initially no command was typed.
LEMMA AsideInit == Init => Aside
BY IdsPositive DEF Init, Aside, Typed, Mine, Nothing, Following, Surfaces

\* What the layout would record for the agent's surface has an agent.
LEMMA RecordsTyped == WindowTypeOK /\ Aside => Typed(Records["agent"])
BY IdsPositive DEF Aside, Records, Recorded, Typed, Mine, Surfaces

\* What it would record for the tab is there to be seen.
LEMMA RecordsTabs ==
  ASSUME WindowTypeOK, NEW s \in Ids, s = Records["tab"]
  PROVE  s = surface["tab"].held \/ s = surface["tab"].shows
BY IdsPositive DEF Records, Recorded, Surfaces

\* Nobody but its own surface tells the tab of a session: what the tab may
\* come to show is what it might have before, or what it starts.
LEMMA TabsFrom ==
  ASSUME WindowTypeOK, [Next]_vars, ~StartWindow, NEW s \in Ids, Begun(life, s), Tabs(s)'
  PROVE  Tabs(s)
<1>1. CASE UNCHANGED vars
  BY <1>1 DEF vars, Tabs
<1>2. CASE WriteLayout
  BY <1>2 DEF WriteLayout, Tabs
<1>3. CASE Keep \/ StopAll \/ SettleOnQuit
  BY <1>3, RecordsTabs DEF Keep, StopAll, Stops, SettleOnQuit, Tabs
<1>4. CASE TearDown
  BY <1>4, IdsPositive DEF TearDown, Tabs, Nothing, Surfaces, ofWindow
<1>5. CASE Exit \/ Crash
  BY <1>5, IdsPositive DEF Exit, Crash, Away, Tabs, Nothing, Surfaces
<1>6. CASE HostChanges
  BY <1>6 DEF HostChanges, Tabs
<1>7. ASSUME NEW u \in Surfaces, Show(u) \/ Opening(u) \/ Close(u) PROVE Tabs(s)
  <2>1. card' = card /\ saved' = saved
    BY <1>7 DEF Show, Opening, Ask, Attach, Spawn, FollowNew, Promote, Settle, Close, ofWindow
  <2>2. \A layout \in save' : s = layout["tab"] => Tabs(s)
    <3>1. CASE Promote(u)
      <4>1. save' = {[Records EXCEPT ![u] = surface[u].shows]}
        BY <3>1 DEF Promote
      <4>2. CASE u = "tab"
        <5>1. [Records EXCEPT ![u] = surface[u].shows]["tab"] = surface["tab"].shows
          BY <4>2, RecordsLayout DEF Layouts
        <5> QED BY <4>1, <5>1 DEF Tabs
      <4>3. CASE u = "agent"
        <5>1. [Records EXCEPT ![u] = surface[u].shows]["tab"] = Records["tab"]
          BY <4>3, RecordsLayout DEF Layouts, Surfaces
        <5> QED BY <4>1, <5>1, RecordsTabs DEF Tabs
      <4> QED BY <4>2, <4>3 DEF Surfaces
    <3>2. CASE Close(u)
      <4>1. save' = {[Records EXCEPT ![u] = Absent]}
        BY <3>2 DEF Close
      <4>2. [Records EXCEPT ![u] = Absent]["tab"] \in {Absent, Records["tab"]}
        BY RecordsLayout DEF Layouts, Surfaces
      <4> QED BY <4>1, <4>2, RecordsTabs, IdsPositive DEF Tabs
    <3>3. CASE ~Promote(u) /\ ~Close(u)
      <4>1. save' = save
        BY <1>7, <3>3 DEF Show, Opening, Ask, Attach, Spawn, FollowNew, Settle, ofWindow
      <4> QED BY <4>1 DEF Tabs
    <3> QED BY <3>1, <3>2, <3>3
  <2>3. CASE u = "agent"
    <3>1. surface'["tab"] = surface["tab"]
      BY <1>7, <2>3 DEF Show, Opening, Ask, Attach, Spawn, FollowNew, Promote, Settle, Close, At, Shows,
                        WindowTypeOK, Surfaces
    <3> QED BY <2>1, <2>2, <3>1 DEF Tabs
  <2>4. CASE u = "tab"
    <3>1. s \in {surface'["tab"].held, surface'["tab"].shows}
            => s \in {surface["tab"].held, surface["tab"].shows}
      BY <1>7, <2>4, AtIs, IdsPositive
         DEF Show, Opening, Ask, Attach, Spawn, FollowNew, Promote, Settle, Close, Shows, Nothing, Kept,
             WindowTypeOK, Surfaces, Fresh, Begun
    <3> QED BY <2>1, <2>2, <3>1 DEF Tabs
  <2> QED BY <2>3, <2>4 DEF Surfaces
<1>8. ASSUME NEW r \in Ids, OpenHeld(r) \/ EndHeld(r) \/ Ending(r) \/ SessionExits(r) PROVE Tabs(s)
  <2>1. CASE OpenHeld(r)
    <3>1. save' = {[Records EXCEPT !["tab"] = r]} /\ r \in card /\ card' \subseteq card
      BY <2>1 DEF OpenHeld
    <3>2. [Records EXCEPT !["tab"] = r]["tab"] = r
      BY RecordsLayout DEF Layouts, Surfaces
    <3>3. surface'["tab"].held = r /\ surface'["tab"].shows = None /\ saved' = saved
      BY <2>1 DEF OpenHeld, WindowTypeOK, Surfaces
    <3> QED BY <3>1, <3>2, <3>3, IdsPositive DEF Tabs
  <2>2. CASE EndHeld(r)
    BY <2>2 DEF EndHeld, Tabs
  <2>3. CASE Ending(r)
    BY <2>3 DEF Ending, ReaderLooks, ReaderLooksAgain, EndSession, Forget, ofWindow, Tabs
  <2>4. CASE SessionExits(r)
    <3>1. \A v \in Surfaces :
            surface'[v].held = surface[v].held /\ surface'[v].shows = surface[v].shows
      BY <2>4 DEF SessionExits, WindowTypeOK, Panes
    <3> QED BY <2>4, <3>1 DEF SessionExits, ofWindow, Tabs, Surfaces
  <2> QED BY <1>8, <2>1, <2>2, <2>3, <2>4
<1> QED BY <1>1, <1>2, <1>3, <1>4, <1>5, <1>6, <1>7, <1>8 DEF Next

\* No step gives the tab what the agent's surface has just started.
LEMMA AsideNext == WindowTypeOK /\ Vacant /\ Known /\ Placed /\ Aside /\ [Next]_vars => Aside'
<1> SUFFICES ASSUME WindowTypeOK, Vacant, Known, Placed, Aside, [Next]_vars PROVE Aside'
  OBVIOUS
<1>a. surface["agent"] \in Panes /\ Fits(life, Mine) /\ "agent" \in Surfaces
  BY DEF WindowTypeOK, Surfaces, Placed, Mine
<1> DEFINE ThenTabs(s) == \/ s \in card' \/ s = surface'["tab"].held \/ s = surface'["tab"].shows
                          \/ s = saved'["tab"] \/ \E layout \in save' : s = layout["tab"]
<1>n. \A s : ThenTabs(s) <=> Tabs(s)'
  BY DEF Tabs
<1>g. agent \subseteq agent'
  BY DEF Next, vars, StartWindow, WriteLayout, Keep, StopAll, Stops, SettleOnQuit, TearDown, Exit,
         Crash, HostChanges, Show,
         Opening, Ask, Attach, Spawn, FollowNew, Promote, Settle, Close, OpenHeld, EndHeld, Ending,
         ReaderLooks, ReaderLooksAgain, EndSession, Forget, SessionExits, ofHost
<1>t. \A x : Typed(x) => (x \in Ids => x \in agent')
  BY <1>g DEF Typed
<1>r. Records["agent"] \in Ids => Records["agent"] \in agent'
  BY <1>t, RecordsTyped
\* The layouts.
<1>1. saved'["agent"] \in Ids => saved'["agent"] \in agent'
  <2>1. saved' = saved \/ saved' = Records \/ saved' \in save
    BY DEF Next, vars, StartWindow, WriteLayout, Keep, StopAll, Stops, SettleOnQuit, TearDown,
           Exit, Crash, HostChanges, Show,
           Opening, Ask, Attach, Spawn, FollowNew, Promote, Settle, Close, OpenHeld, EndHeld, Ending,
           ReaderLooks, ReaderLooksAgain, EndSession, Forget, SessionExits, ofWindow
  <2> QED BY <1>r, <1>t, <2>1 DEF Aside
<1>2. ASSUME NEW layout \in save', layout["agent"] \in Ids PROVE layout["agent"] \in agent'
  <2>1. CASE \E u \in Surfaces : Promote(u)
    <3>1. PICK u \in Surfaces : Promote(u)
      BY <2>1
    <3>2. layout = [Records EXCEPT ![u] = surface[u].shows]
      BY <3>1 DEF Promote
    <3>3. CASE u = "agent"
      <4>1. layout["agent"] = surface["agent"].shows
        BY <3>2, <3>3, RecordsLayout DEF Layouts
      <4> QED BY <1>t, <3>1, <3>3, <4>1, <1>2 DEF Promote, Aside, Mine
    <3>4. CASE u = "tab"
      <4>1. layout["agent"] = Records["agent"]
        BY <3>2, <3>4, RecordsLayout DEF Layouts, Surfaces
      <4> QED BY <1>r, <4>1, <1>2
    <3> QED BY <3>3, <3>4 DEF Surfaces
  <2>2. CASE \E u \in Surfaces : Close(u)
    <3>1. PICK u \in Surfaces : layout = [Records EXCEPT ![u] = Absent]
      BY <2>2 DEF Close
    <3>2. layout["agent"] \in {Absent, Records["agent"]}
      BY <3>1, RecordsLayout DEF Layouts, Surfaces
    <3> QED BY <1>r, <3>2, <1>2, IdsPositive
  <2>3. CASE \E r \in Ids : OpenHeld(r)
    <3>1. PICK r \in Ids : layout = [Records EXCEPT !["tab"] = r]
      BY <2>3 DEF OpenHeld
    <3>2. layout["agent"] = Records["agent"]
      BY <3>1, RecordsLayout DEF Layouts, Surfaces
    <3> QED BY <1>r, <3>2, <1>2
  <2>4. CASE save' \subseteq save
    BY <1>t, <1>2, <2>4 DEF Aside
  <2>5. \/ \E u \in Surfaces : Promote(u) \/ Close(u)
        \/ \E r \in Ids : OpenHeld(r)
        \/ save' \subseteq save
    BY DEF Next, vars, StartWindow, WriteLayout, Keep, StopAll, Stops, SettleOnQuit, TearDown,
           Exit, Crash, Away, HostChanges,
           Show, Opening, Ask, Attach, Spawn, FollowNew, Settle, EndHeld, Ending,
           ReaderLooks, ReaderLooksAgain, EndSession, Forget, SessionExits, ofWindow
  <2> QED BY <2>1, <2>2, <2>3, <2>4, <2>5
\* The agent's surface.
<1> DEFINE Right(w) ==
             /\ w.held \in Ids => w.held \in agent'
             /\ w.at \in {"attached", "shown", "ended"} => (w.shows \in Ids => w.shows \in agent')
             /\ w.at \in Following => w.shows \notin agent' /\ ~ThenTabs(w.shows)
<1> HIDE DEF ThenTabs
<1>3. Right(surface'["agent"])
  <2>n. Right(Nothing)
    BY IdsPositive DEF Nothing, Following
  <2>1. CASE StartWindow
    <3>1. \/ surface'["agent"] = Nothing
          \/ surface'["agent"] = [at |-> "unshown", held |-> saved["agent"], shows |-> None]
      BY <1>a, <2>1 DEF StartWindow
    <3>2. Right([at |-> "unshown", held |-> saved["agent"], shows |-> None])
      BY <1>t DEF Following, Aside
    <3> QED BY <2>n, <3>1, <3>2
  <2>s. ASSUME ~StartWindow, Mine.at \in Following
        PROVE  Mine.shows \in Ids /\ ~ThenTabs(Mine.shows)
    <3>1. Mine.shows \in Ids
      BY <1>a, <2>s DEF Fits, Opened, Panes, Slots, Mine
    <3>2. Begun(life, Mine.shows)
      BY <1>a DEF Known, Mine
    <3>3. ~Tabs(Mine.shows)
      BY <2>s DEF Aside
    <3>4. \A s \in Ids : Begun(life, s) /\ Tabs(s)' => Tabs(s)
      BY <2>s, TabsFrom
    <3> QED BY <1>n, <3>1, <3>2, <3>3, <3>4
  <2>2. ASSUME ~StartWindow, agent' = agent PROVE Right(Mine)
    BY <2>2, <2>s DEF Aside, Typed
  <2>3. CASE Opening("agent") \/ Show("agent") \/ Close("agent")
    <3> DEFINE held == surface["agent"].held
               shows == surface["agent"].shows
               Put(at, h, w) == surface'["agent"] = [at |-> at, held |-> h, shows |-> w]
    <3>0. ~StartWindow /\ surface["agent"] = Mine /\ held = Mine.held /\ shows = Mine.shows
      BY <2>3 DEF StartWindow, Show, Opening, Ask, Attach, Spawn, FollowNew, Promote, Settle, Close, Runs,
                  Mine
    <3>1. CASE Show("agent") \/ Ask("agent")
      <4>1. \E at \in {"spawn", "ask", "attach", "unanswered"} : Put(at, held, shows)
        BY <1>a, <3>1, AtIs DEF Show, Ask, WindowTypeOK
      <4> QED BY <1>t, <3>0, <4>1 DEF Aside, Following
    <3>2. CASE Attach("agent")
      <4>1. \/ Put("attached", held, held)
            \/ \E at \in {"unanswered", "failed"} : Put(at, held, shows)
        BY <1>a, <3>2, AtIs DEF Attach, Shows, WindowTypeOK
      <4> QED BY <1>t, <3>0, <4>1 DEF Aside, Following
    <3>3. CASE Spawn("agent")
      <4>1. \/ \E s \in Fresh : Put("follow", held, s)
            \/ Put("in_window", held, shows)
        BY <1>a, <3>3, AtIs DEF Spawn, Shows, WindowTypeOK
      <4>2. ASSUME NEW s \in Fresh PROVE s \notin agent' /\ ~ThenTabs(s)
        <5>1. s \in Ids /\ ~Begun(life, s)
          BY DEF Fresh, Begun
        <5>2. ~Tabs(s) /\ s \notin agent
          BY <5>1 DEF Tabs, Known, Surfaces
        <5>3. agent' = agent /\ saved' = saved /\ card' = card /\ save' = save
          BY <3>3 DEF Spawn, ofHost, ofWindow
        <5>4. surface'["tab"] = surface["tab"]
          BY <3>3 DEF Spawn, At, Shows, WindowTypeOK, Surfaces
        <5> QED BY <5>2, <5>3, <5>4 DEF Tabs, ThenTabs
      <4>3. held \in Ids => held \in agent'
        BY <1>t, <3>0 DEF Aside
      <4>4. ASSUME NEW s \in Fresh PROVE Right([at |-> "follow", held |-> held, shows |-> s])
        BY <4>2, <4>3
      <4>5. Right([at |-> "in_window", held |-> held, shows |-> shows])
        BY <4>3 DEF Following
      <4> HIDE DEF Right, held, shows
      <4> QED BY <4>1, <4>4, <4>5
    <3>4. CASE FollowNew("agent")
      <4>1. Put("opened", held, shows) \/ Put("lost_new", held, None)
        BY <1>a, <3>4, AtIs DEF FollowNew, Shows, WindowTypeOK
      <4>2. shows \notin agent' /\ ~ThenTabs(shows)
        BY <3>0, <3>4, <2>s DEF FollowNew, ofHost, Aside, Following
      <4> QED BY <1>t, <3>0, <4>1, <4>2 DEF Aside, Following
    <3>5. CASE Promote("agent")
      <4>1. Put("shown", None, shows)
        BY <1>a, <3>5 DEF Promote, WindowTypeOK
      <4>2. shows \in Ids => shows \in agent'
        BY <1>t, <3>0, <3>5 DEF Promote, Aside
      <4> QED BY <4>1, <4>2, IdsPositive DEF Following
    <3>6. CASE Settle("agent")
      <4>1. \E at \in {"window", "lost"} : Put(at, Kept("agent"), None)
        BY <1>a, <3>6 DEF Settle, WindowTypeOK
      <4> QED BY <1>t, <3>0, <4>1, IdsPositive DEF Aside, Following, Kept
    <3>7. CASE Close("agent")
      <4>1. surface'["agent"] = [Nothing EXCEPT !.at = "closed"]
        BY <1>a, <3>7 DEF Close, WindowTypeOK
      <4> QED BY <4>1, IdsPositive DEF Following, Nothing
    <3> QED BY <2>3, <3>1, <3>2, <3>3, <3>4, <3>5, <3>6, <3>7 DEF Opening
  <2>4. CASE \E s \in Ids : SessionExits(s)
    <3>1. ~StartWindow /\ agent' = agent
      <4>1. agent' = agent
        BY <2>4 DEF SessionExits
      <4>2. CASE StartWindow
        BY <2>4, <4>2 DEF StartWindow, SessionExits, ofWindow, WindowTypeOK
      <4> QED BY <4>1, <4>2
    <3>2. Right(Mine)
      BY <3>1, <2>2
    <3>3. \/ surface'["agent"] = Mine
          \/ /\ Mine.at = "shown"
             /\ surface'["agent"] = [at |-> "ended", held |-> Mine.held, shows |-> Mine.shows]
      BY <1>a, <2>4 DEF SessionExits, Mine, Panes
    <3> QED BY <3>2, <3>3 DEF Following
  <2>5. CASE /\ ~StartWindow /\ ~(Opening("agent") \/ Show("agent") \/ Close("agent"))
             /\ ~\E s \in Ids : SessionExits(s)
    <3>1. agent' = agent
      BY <2>5 DEF Next, vars, WriteLayout, Keep, StopAll, Stops, SettleOnQuit, TearDown, Exit,
                  Crash, HostChanges,
           Show, Opening, Ask, Attach, Spawn, FollowNew, Promote, Settle, Close, OpenHeld, EndHeld, Ending,
           ReaderLooks, ReaderLooksAgain, EndSession, Forget, ofHost
    <3>2. surface'["agent"] = Mine \/ surface'["agent"] = Nothing
      <4>1. CASE surface' = surface
        BY <4>1 DEF Mine
      <4>2. CASE TearDown \/ Exit \/ Crash
        BY <4>2 DEF TearDown, Exit, Crash, Away, Mine, Surfaces
      <4>3. CASE Show("tab") \/ Ask("tab") \/ Attach("tab") \/ Spawn("tab") \/ FollowNew("tab")
        BY <1>a, <4>3 DEF Show, Ask, Attach, Spawn, FollowNew, At, Shows, Mine, Surfaces, WindowTypeOK
      <4>4. CASE Promote("tab") \/ Settle("tab") \/ Close("tab")
        BY <1>a, <4>4 DEF Promote, Settle, Close, Mine, Surfaces, WindowTypeOK
      <4>5. CASE \E s \in Ids : OpenHeld(s)
        BY <1>a, <4>5 DEF OpenHeld, Mine, Surfaces, WindowTypeOK
      <4>6. CASE \/ WriteLayout \/ Keep \/ StopAll \/ SettleOnQuit \/ HostChanges
                 \/ \E s \in Ids : EndHeld(s) \/ Ending(s)
        BY <4>1, <4>6 DEF WriteLayout, Keep, StopAll, Stops, SettleOnQuit, HostChanges, EndHeld,
                          Ending, ReaderLooks, ReaderLooksAgain,
             EndSession, Forget
      <4> QED
        BY <2>5, <4>1, <4>2, <4>3, <4>4, <4>5, <4>6 DEF Next, vars, Opening, Surfaces
    <3> QED BY <2>2, <2>5, <2>n, <3>1, <3>2
  <2> QED BY <2>1, <2>3, <2>4, <2>5
<1> QED BY <1>1, <1>2, <1>3 DEF Aside, Typed, Mine, Tabs, ThenTabs

(***************************************************************************)
(* At most one agent works on the conversation, and it is where the window *)
(* comes back to: in the agent's surface, then in the layout.  One in the  *)
(* tab or on the card is there because the agent's surface was closed, and *)
(* that one is not opened again.                                           *)
(***************************************************************************)
AtWork == Live \cap agent
SurfaceGone ==
    saved["agent"] = Absent /\ Mine.at = "none" /\ \A layout \in save : layout["agent"] = Absent
\* The layout is final; a window that the Dock ends has yet to write it
InPlace == ~win.up \/ win.leaving \in {"keep", "stop"}
AloneAtWork ==
    /\ \A s, t \in AtWork : s = t
    /\ Mine.at # "failed"
    /\ \A s \in AtWork : Tabs(s) => SurfaceGone
    /\ win.up /\ Mine.at \notin Idle => AtWork \subseteq {Mine.held, Mine.shows}
    /\ InPlace => saved["agent"] = Absent \/ AtWork \subseteq {saved["agent"]}
Alone == excused = {} => AloneAtWork

\* Initially no agent works.
LEMMA AloneInit == Init => Alone
BY IdsPositive DEF Init, Alone, AloneAtWork, AtWork, Live, Mine, Nothing, Idle, InPlace, Surfaces

\* Only the window's thread has a command typed, and only into a new shell.
LEMMA AtWorkFrom ==
  ASSUME WindowTypeOK, Known, Placed, Aside, [Next]_vars
  PROVE  \/ AtWork' \subseteq AtWork
         \/ /\ Promote("agent") /\ Mine.at = "opened"
            /\ \E s \in Ids : s = Mine.shows /\ AtWork' \subseteq AtWork \cup {s} /\ ~Tabs(s)'
<1>1. ASSUME NEW s \in Ids, life'[s] = "live", s \in agent PROVE s \in AtWork
  <2>1. Begun(life, s)
    BY <1>1 DEF Known
  <2> QED BY <1>1, <2>1, LifeGoesOn DEF LifeFrom, Begun, AtWork, Live
<1>2. agent' = agent
      \/ (Promote("agent") /\ Mine.at = "opened" /\ agent' = agent \cup {Mine.shows})
  BY DEF Next, vars, StartWindow, WriteLayout, Keep, StopAll, Stops, SettleOnQuit, TearDown, Exit,
         Crash, HostChanges, Show,
         Opening, Ask, Attach, Spawn, FollowNew, Promote, Settle, Close, OpenHeld, EndHeld, Ending,
         ReaderLooks, ReaderLooksAgain, EndSession, Forget, SessionExits, ofHost, Mine
<1>3. CASE agent' = agent
  BY <1>1, <1>3 DEF AtWork, Live
<1>4. CASE Promote("agent") /\ Mine.at = "opened" /\ agent' = agent \cup {Mine.shows}
  <2>1. AtWork' \subseteq AtWork \cup {Mine.shows}
    BY <1>1, <1>4 DEF AtWork, Live
  <2>2. Mine \in Panes /\ Fits(life, Mine) /\ Begun(life, Mine.shows)
    BY DEF WindowTypeOK, Placed, Known, Mine, Surfaces
  <2>3. Mine.shows \in Ids
    BY <1>4, <2>2 DEF Fits, Opened, Following, Panes, Slots
  <2>4. PICK s \in Ids : s = Mine.shows
    BY <2>3
  <2>5. ~Tabs(s) /\ Begun(life, s)
    BY <1>4, <2>2, <2>4 DEF Aside, Following
  <2>6. ~StartWindow
    BY <1>4 DEF Promote, StartWindow, Runs
  <2>7. ~Tabs(s)'
    BY <2>5, <2>6, TabsFrom
  <2> QED BY <1>4, <2>1, <2>4, <2>7
<1> QED BY <1>2, <1>3, <1>4

\* An agent's surface that is gone from window and layout stays gone.
LEMMA SurfaceGoneNext == WindowTypeOK /\ Vacant /\ SurfaceGone /\ [Next]_vars => SurfaceGone'
<1> SUFFICES ASSUME WindowTypeOK, Vacant, SurfaceGone, [Next]_vars PROVE SurfaceGone'
  OBVIOUS
<1>1. Records["agent"] = Absent
  BY DEF SurfaceGone, Records, Mine, Surfaces
<1>2. saved'["agent"] = Absent
  <2>1. saved' = saved \/ saved' = Records \/ saved' \in save
    BY DEF Next, vars, StartWindow, WriteLayout, Keep, StopAll, Stops, SettleOnQuit, TearDown,
           Exit, Crash, HostChanges, Show,
           Opening, Ask, Attach, Spawn, FollowNew, Promote, Settle, Close, OpenHeld, EndHeld, Ending,
           ReaderLooks, ReaderLooksAgain, EndSession, Forget, SessionExits, ofWindow
  <2> QED BY <1>1, <2>1 DEF SurfaceGone
<1>3. ASSUME NEW u \in Surfaces, Show(u) \/ Opening(u) \/ Close(u) PROVE u = "tab"
  <2>1. surface[u].at # "none"
    BY <1>3 DEF Show, Opening, Ask, Attach, Spawn, FollowNew, Promote, Settle, Close
  <2> QED BY <2>1 DEF SurfaceGone, Mine, Surfaces
<1>4. surface'["agent"].at = "none"
  <2>1. surface["agent"] \in Panes
    BY DEF WindowTypeOK, Surfaces
  <2>2. surface'["agent"] = surface["agent"] \/ surface'["agent"] = Nothing
    <3>1. ASSUME NEW u \in Surfaces, Show(u) \/ Opening(u) \/ Close(u)
          PROVE  surface'["agent"] = surface["agent"]
      BY <1>3, <3>1 DEF Show, Opening, Ask, Attach, Spawn, FollowNew, Promote, Settle, Close, At, Shows,
                        WindowTypeOK, Surfaces
    <3>2. ASSUME NEW s \in Ids, OpenHeld(s) \/ EndHeld(s) \/ Ending(s) \/ SessionExits(s)
          PROVE  surface'["agent"] = surface["agent"]
      BY <3>2 DEF OpenHeld, EndHeld, Ending, ReaderLooks, ReaderLooksAgain, EndSession, Forget,
                  SessionExits, WindowTypeOK, Surfaces, SurfaceGone, Mine
    <3>3. CASE StartWindow
      BY <3>3 DEF StartWindow, SurfaceGone, Surfaces
    <3>4. CASE \/ WriteLayout \/ Keep \/ StopAll \/ SettleOnQuit \/ TearDown \/ Exit \/ Crash \/ HostChanges
               \/ UNCHANGED vars
      BY <3>4 DEF WriteLayout, Keep, StopAll, Stops, SettleOnQuit, TearDown, Exit, Crash, Away,
                  HostChanges, vars, Surfaces
    <3> QED BY <3>1, <3>2, <3>3, <3>4 DEF Next
  <2> QED BY <2>2 DEF SurfaceGone, Mine, Nothing
<1>5. ASSUME NEW layout \in save' PROVE layout["agent"] = Absent
  <2>1. \/ save' \subseteq save
        \/ \E u \in Surfaces : \E x : u = "tab" /\ layout = [Records EXCEPT ![u] = x]
    BY <1>3, <1>5 DEF Next, vars, StartWindow, WriteLayout, Keep, StopAll, Stops, SettleOnQuit,
                      TearDown, Exit, Crash, Away,
         HostChanges, Show, Opening, Ask, Attach, Spawn, FollowNew, Promote, Settle, Close, OpenHeld,
         EndHeld, Ending, ReaderLooks, ReaderLooksAgain, EndSession, Forget, SessionExits, ofWindow,
         Surfaces
  <2> QED BY <1>1, <1>5, <2>1, RecordsLayout DEF SurfaceGone, Layouts, Surfaces
<1> QED BY <1>2, <1>4, <1>5 DEF SurfaceGone, Mine

\* How the agent's surface changes, its own steps apart.
LEMMA MineFrom ==
  ASSUME WindowTypeOK, [Next]_vars, ~(Show("agent") \/ Opening("agent") \/ Close("agent"))
  PROVE  \/ Mine' = Mine /\ ~StartWindow
         \/ Mine' = Nothing
         \/ /\ StartWindow /\ saved["agent"] # Absent
            /\ Mine' = [at |-> "unshown", held |-> saved["agent"], shows |-> None]
         \/ /\ Mine.at = "shown" /\ ~StartWindow
            /\ Mine' = [at |-> "ended", held |-> Mine.held, shows |-> Mine.shows]
<1>b. surface["agent"] \in Panes /\ "agent" \in Surfaces
  BY DEF WindowTypeOK, Surfaces
<1>1. CASE StartWindow
  BY <1>1, <1>b DEF StartWindow, Mine
<1>2. ASSUME NEW u \in Surfaces, Show(u) \/ Opening(u) \/ Close(u) PROVE Mine' = Mine
  <2>1. u = "tab"
    BY <1>2 DEF Surfaces
  <2> QED BY <1>2, <2>1 DEF Show, Opening, Ask, Attach, Spawn, FollowNew, Promote, Settle, Close, At,
                            Shows, WindowTypeOK, Surfaces, Mine
<1>3. ASSUME NEW s \in Ids, OpenHeld(s) \/ EndHeld(s) \/ Ending(s) PROVE Mine' = Mine
  BY <1>3 DEF OpenHeld, EndHeld, Ending, ReaderLooks, ReaderLooksAgain, EndSession, Forget,
              WindowTypeOK, Surfaces, Mine
<1>4. ASSUME NEW s \in Ids, SessionExits(s)
      PROVE  \/ Mine' = Mine
             \/ /\ Mine.at = "shown"
                /\ Mine' = [at |-> "ended", held |-> Mine.held, shows |-> Mine.shows]
  BY <1>4, <1>b DEF SessionExits, Mine, Panes
<1>5. CASE /\ \/ WriteLayout \/ Keep \/ StopAll \/ SettleOnQuit \/ TearDown \/ Exit \/ Crash \/ HostChanges
              \/ UNCHANGED vars
           /\ ~StartWindow
  BY <1>5, <1>b DEF WriteLayout, Keep, StopAll, Stops, SettleOnQuit, TearDown, Exit, Crash, Away,
                    HostChanges, vars, Mine
<1> QED BY <1>1, <1>2, <1>3, <1>4, <1>5 DEF Next

\* No step puts a second agent beside the first.
LEMMA AloneNext ==
  WindowTypeOK /\ Vacant /\ Written /\ Known /\ Placed /\ Aside /\ Alone /\ [Next]_vars => Alone'
<1> SUFFICES ASSUME WindowTypeOK, Vacant, Written, Known, Placed, Aside, Alone, [Next]_vars, excused' = {}
             PROVE  AloneAtWork'
  BY DEF Alone
<1>a. AloneAtWork
  <2>1. excused \subseteq excused'
    BY DEF Next, vars, StartWindow, WriteLayout, Keep, StopAll, Stops, SettleOnQuit, TearDown,
           Exit, Crash, HostChanges, Show,
           Opening, Ask, Attach, Spawn, FollowNew, Promote, Settle, Close, OpenHeld, EndHeld, Ending,
           ReaderLooks, ReaderLooksAgain, EndSession, Forget, SessionExits, ghosts
  <2> QED BY <2>1 DEF Alone
<1>b. surface["agent"] \in Panes /\ Mine = surface["agent"] /\ Mine \in Panes /\ Fits(life, Mine)
  BY DEF WindowTypeOK, Surfaces, Placed, Mine
<1>c. \A s \in AtWork : s \in Ids /\ s # None /\ s # Absent /\ ~Over(life, s) /\ s \in agent
  BY IdsPositive DEF AtWork, Live, Over
\* Where the sessions with an agent are while the surface is in use.
<1>w. win.up /\ Mine.at \notin Idle => \A s \in AtWork :
        \/ s = Mine.held /\ Mine.at \in Waiting \cup {"attached"}
        \/ s = Mine.shows /\ Mine.at \in {"attached", "shown"}
  <2> SUFFICES ASSUME win.up, Mine.at \notin Idle, NEW s \in AtWork
               PROVE  \/ s = Mine.held /\ Mine.at \in Waiting \cup {"attached"}
                      \/ s = Mine.shows /\ Mine.at \in {"attached", "shown"}
    OBVIOUS
  <2>1. s = Mine.held \/ s = Mine.shows
    BY <1>a DEF AloneAtWork
  <2> QED BY <1>b, <1>c, <2>1 DEF Fits, Aside, Panes, Places, Idle, Opened, Anew, Waiting, Following
<1>1. \A s, t \in AtWork' : s = t
  <2>1. CASE AtWork' \subseteq AtWork
    BY <1>a, <2>1 DEF AloneAtWork
  <2>2. CASE Promote("agent") /\ Mine.at = "opened"
             /\ \E s \in Ids : s = Mine.shows /\ AtWork' \subseteq AtWork \cup {s}
    <3>1. AtWork = {}
      BY <1>w, <2>2 DEF Promote, Runs, Idle, Waiting
    <3> QED BY <2>2, <3>1
  <2> QED BY <2>1, <2>2, AtWorkFrom
<1> DEFINE held == surface["agent"].held
           shows == surface["agent"].shows
           Put(at, h, w) == surface'["agent"] = [at |-> at, held |-> h, shows |-> w]
<1>p. /\ Show("agent") => \E at \in {"spawn", "ask"} : Put(at, held, shows)
      /\ Ask("agent") => \E at \in {"spawn", "attach", "unanswered"} : Put(at, held, shows)
      /\ Attach("agent") => \/ Put("attached", held, held) \/ Put("unanswered", held, shows)
                           \/ Put("failed", held, shows)
      /\ Spawn("agent") => Put("in_window", held, shows) \/ \E s \in Fresh : Put("follow", held, s)
      /\ FollowNew("agent") => Put("opened", held, shows) \/ Put("lost_new", held, None)
      /\ Promote("agent") => Put("shown", None, shows)
      /\ Settle("agent") => \E at \in {"window", "lost"} : Put(at, Kept("agent"), None)
      /\ Close("agent") => Put("closed", None, None)
  <2>1. [Nothing EXCEPT !.at = "closed"] = [at |-> "closed", held |-> None, shows |-> None]
    BY DEF Nothing
  <2> QED BY <2>1, AtIs DEF Show, Ask, Attach, Spawn, FollowNew, Promote, Settle, Close, Shows,
                            WindowTypeOK, Surfaces
<1>2. surface'["agent"].at # "failed"
  <2>1. CASE Attach("agent")
    <3>1. held \in agent
      BY <1>b, <2>1, IdsPositive DEF Aside, Typed, Fits, Attach, Panes, Slots
    <3>2. "lost" \notin excused'
      OBVIOUS
    <3>3. Put("attached", held, held) \/ Put("unanswered", held, shows)
      BY <1>b, <2>1, <3>1, <3>2, AtIs DEF Attach, Shows, WindowTypeOK, Surfaces
    <3> QED BY <3>3
  <2>2. CASE Show("agent") \/ Ask("agent") \/ Spawn("agent") \/ FollowNew("agent") \/ Promote("agent")
             \/ Settle("agent") \/ Close("agent")
    <3>1. \E at, h, w : Put(at, h, w) /\ at # "failed"
      <4> HIDE DEF Put, held, shows
      <4>1. CASE Show("agent") \/ Ask("agent")
        BY <1>p, <4>1
      <4>2. CASE Spawn("agent") \/ FollowNew("agent")
        BY <1>p, <4>2
      <4>3. CASE Promote("agent") \/ Close("agent")
        BY <1>p, <4>3
      <4>4. CASE Settle("agent")
        BY <1>p, <4>4
      <4> QED BY <2>2, <4>1, <4>2, <4>3, <4>4
    <3> QED BY <3>1
  <2>3. CASE ~(Show("agent") \/ Opening("agent") \/ Close("agent"))
    BY <1>a, <1>b, <2>3, MineFrom DEF AloneAtWork, Mine, Nothing
  <2> QED BY <2>1, <2>2, <2>3 DEF Opening
<1>3. ASSUME NEW s \in AtWork', Tabs(s)' PROVE SurfaceGone'
  <2>1. CASE s \notin AtWork
    BY <1>3, <2>1, AtWorkFrom
  <2>2. CASE s \in AtWork /\ ~StartWindow
    <3>1. s \in Ids /\ Begun(life, s)
      BY <2>2 DEF AtWork, Live, Begun
    <3>2. Tabs(s)
      BY <1>3, <2>2, <3>1, TabsFrom
    <3> QED BY <1>a, <2>2, <3>2, SurfaceGoneNext DEF AloneAtWork
  <2>3. CASE s \in AtWork /\ StartWindow
    <3>1. Vacant /\ ~win.up /\ save = {} /\ \A u \in Surfaces : surface[u] = Nothing
      BY <2>3 DEF StartWindow, Vacant
    <3>2. CASE s \in card'
      <4>1. s \notin Mentioned(saved)
        BY <2>3, <3>2 DEF StartWindow, Unshown
      <4>2. s # saved["agent"]
        BY <1>c, <2>3, <4>1 DEF Mentioned, Surfaces
      <4>3. saved["agent"] = Absent
        BY <1>a, <2>3, <3>1, <4>2 DEF AloneAtWork, InPlace
      <4>4. SurfaceGone
        BY <3>1, <4>3 DEF SurfaceGone, Mine, Nothing, Surfaces
      <4> QED BY <4>4, SurfaceGoneNext
    <3>3. CASE s \notin card'
      <4>1. saved' = saved /\ save' = save
        BY <2>3 DEF StartWindow
      <4>2. surface'["tab"].held \in {None, saved["tab"]} /\ surface'["tab"].shows = None
        BY <2>3 DEF StartWindow, Nothing, Surfaces
      <4>3. s = saved["tab"]
        BY <1>3, <1>c, <2>3, <3>1, <3>3, <4>1, <4>2 DEF Tabs
      <4> QED BY <1>a, <2>3, <4>3, SurfaceGoneNext DEF AloneAtWork, Tabs
    <3> QED BY <3>2, <3>3
  <2> QED BY <2>1, <2>2, <2>3
<1>4. ASSUME win'.up, Mine'.at \notin Idle PROVE AtWork' \subseteq {Mine'.held, Mine'.shows}
  <2>m. Mine' = surface'["agent"]
    BY DEF Mine
  <2>1. CASE StartWindow
    <3>1. ~(Show("agent") \/ Opening("agent") \/ Close("agent"))
      BY <2>1 DEF StartWindow, Show, Opening, Ask, Attach, Spawn, FollowNew, Promote, Settle, Close, Runs
    <3>2. Mine'.held = saved["agent"] /\ saved["agent"] # Absent
      BY <1>4, <2>1, <3>1, MineFrom DEF Nothing, Idle
    <3>3. AtWork' \subseteq AtWork
      BY <3>1, AtWorkFrom DEF Opening
    <3> QED BY <1>a, <2>1, <3>2, <3>3 DEF AloneAtWork, InPlace, StartWindow
  <2>2. ASSUME ~StartWindow PROVE win.up
    BY <2>2, <1>4 DEF Next, vars, WriteLayout, Keep, StopAll, Stops, SettleOnQuit, TearDown, Exit,
                      Crash, Away, HostChanges,
           Show, Opening, Ask, Attach, Spawn, FollowNew, Promote, Settle, Close, OpenHeld, EndHeld, Ending,
           ReaderLooks, ReaderLooksAgain, EndSession, Forget, SessionExits, ofWindow, Runs
  <2>3. CASE ~StartWindow /\ ~(Show("agent") \/ Opening("agent") \/ Close("agent"))
    <3>1. AtWork' \subseteq AtWork
      BY <2>3, AtWorkFrom DEF Opening
    <3>2. Mine.at \notin Idle /\ Mine'.held = Mine.held /\ Mine'.shows = Mine.shows
      BY <1>4, <2>3, MineFrom DEF Nothing, Idle
    <3> QED BY <1>a, <2>2, <2>3, <3>1, <3>2 DEF AloneAtWork
  <2>4. CASE Promote("agent")
    <3>1. Mine'.shows = Mine.shows /\ win.up /\ Mine.at \in {"attached", "opened"}
      BY <1>b, <1>p, <2>m, <2>4 DEF Promote, Runs
    <3>2. \A s \in AtWork : s = Mine.shows
      BY <1>b, <1>w, <3>1 DEF Idle, Waiting, Fits
    <3> QED BY <3>1, <3>2, AtWorkFrom
  <2>5. CASE /\ Show("agent") \/ Ask("agent") \/ Attach("agent") \/ Spawn("agent") \/ FollowNew("agent")
                \/ Settle("agent") \/ Close("agent")
             /\ ~Promote("agent")
    <3>1. AtWork' \subseteq AtWork
      BY <2>5, AtWorkFrom
    <3>2. \/ Mine.at \in {"unshown", "ask", "attach", "spawn", "follow", "in_window", "failed", "unanswered",
                         "lost_new"} /\ win.up
          \/ Close("agent")
      BY <1>b, <2>5 DEF Show, Ask, Attach, Spawn, FollowNew, Settle, Runs
    <3>3. \A s \in AtWork : (s = Mine.held /\ Mine.at \in Waiting) \/ Close("agent")
      BY <1>w, <3>2 DEF Idle
    <3>4. Close("agent") => Mine'.at \in Idle
      BY <1>p, <2>m DEF Idle
    <3>5. Mine'.held = Mine.held \/ Mine.at \in {"failed", "in_window", "lost_new"} \/ Close("agent")
      <4>1. CASE Settle("agent")
        BY <1>b, <1>p, <2>m, <4>1 DEF Settle, Kept
      <4>2. CASE Show("agent") \/ Ask("agent")
        BY <1>b, <1>p, <2>m, <4>2
      <4>3. CASE Attach("agent") \/ Spawn("agent")
        <5>1. \E at, w : Put(at, held, w)
          <6> HIDE DEF Put, held, shows
          <6> QED BY <1>p, <4>3
        <5> QED BY <1>b, <2>m, <5>1
      <4>4. CASE FollowNew("agent") \/ Close("agent")
        BY <1>b, <1>p, <2>m, <4>4
      <4> QED BY <2>5, <4>1, <4>2, <4>3, <4>4
    <3> QED BY <1>4, <1>a, <3>1, <3>3, <3>4, <3>5 DEF AloneAtWork, Waiting
  <2> QED BY <2>1, <2>3, <2>4, <2>5 DEF Opening
<1>5. ASSUME InPlace' PROVE saved'["agent"] = Absent \/ AtWork' \subseteq {saved'["agent"]}
  <2>1. CASE Promote("agent")
    BY <1>5, <2>1 DEF Promote, Runs, InPlace
  <2>2. CASE AtWork' \subseteq AtWork
    <3>1. CASE Crash \/ (Exit /\ win.leaving = "quit")
      <4>1. Live \cap agent \subseteq Mentioned(saved) /\ saved' = saved
        BY <3>1 DEF Crash, Exit, Unwritten
      <4>2. \A s \in AtWork : s = saved["agent"] \/ s = saved["tab"]
        BY <4>1 DEF AtWork, Mentioned, Surfaces
      <4>3. \A s \in AtWork : s = saved["tab"] => saved["agent"] = Absent
        BY <1>a DEF AloneAtWork, Tabs, SurfaceGone
      <4> QED BY <2>2, <4>1, <4>2, <4>3
    <3>2. CASE Keep \/ StopAll
      <4>1. win.up /\ saved' = Records
        BY <3>2 DEF Keep, StopAll, Runs
      <4>2. Mine.at \in Idle => Records["agent"] = Absent
        BY DEF Records, Mine, Idle, Surfaces
      <4>3. Mine.at \notin Idle =>
              Records["agent"] = IF Mine.at \in {"shown", "ended"} THEN Mine.shows ELSE Mine.held
        BY DEF Records, Recorded, Mine, Idle, Surfaces
      <4>4. Mine.at \notin Idle => AtWork \subseteq {Records["agent"]}
        BY <1>b, <1>w, <4>1, <4>3 DEF Waiting, Fits
      <4> QED BY <2>2, <4>1, <4>2, <4>4
    <3>3. CASE StartWindow \/ WriteLayout \/ SettleOnQuit
      <4>1. ~StartWindow /\ ~SettleOnQuit
        BY <1>5 DEF StartWindow, SettleOnQuit, Runs, InPlace, WindowTypeOK
      <4>2. WriteLayout => save = {} /\ saved' \in save
        BY <1>5 DEF WriteLayout, Written, InPlace
      <4> QED BY <3>3, <4>1, <4>2
    <3>4. CASE InPlace /\ saved' = saved
      BY <1>a, <2>2, <3>4 DEF AloneAtWork
    <3>5. CASE Exit /\ win.leaving # "quit"
      <4>1. InPlace /\ saved' = saved
        BY <3>5 DEF Exit, Runs, InPlace, WindowTypeOK
      <4> QED BY <3>4, <4>1
    <3>6. \/ StartWindow \/ WriteLayout \/ SettleOnQuit \/ Keep \/ StopAll \/ Exit \/ Crash
          \/ win' = win /\ saved' = saved
      BY DEF Next, vars, TearDown, HostChanges, Show, Opening, Ask, Attach, Spawn, FollowNew, Promote,
             Settle, Close, OpenHeld, EndHeld, Ending, ReaderLooks, ReaderLooksAgain, EndSession, Forget,
             SessionExits, ofWindow
    <3>7. win' = win => InPlace
      BY <1>5 DEF InPlace
    <3> QED BY <3>1, <3>2, <3>3, <3>4, <3>5, <3>6, <3>7
  <2> QED BY <2>1, <2>2, AtWorkFrom
<1> QED BY <1>1, <1>2, <1>3, <1>4, <1>5 DEF AloneAtWork, Mine

(***************************************************************************)
(* The theorems.                                                           *)
(***************************************************************************)
IInv == WindowTypeOK /\ Vacant /\ Written /\ Known /\ Placed /\ Sighted /\ Aside /\ Alone

\* Initially there is no window, no session and nothing to remember.
LEMMA InvariantInit == Init => IInv
<1>1. Init => Vacant
  BY DEF Init, Vacant
<1>2. Init => Sighted
  BY DEF Init, Sighted, Runs, Nothing
<1>3. Init => Written
  BY DEF Init, Written
<1> QED BY <1>1, <1>2, <1>3, TypeInit, KnownInit, PlacedInit, AsideInit, AloneInit DEF IInv

\* The inductive invariant of the sessions and the windows that come and go
\* (host_session.rs, held_sessions.rs, app/session.rs).
THEOREM WindowInvariant == Spec => []IInv
<1>1. IInv /\ [Next]_vars => IInv'
  BY TypeNext, VacantNext, WrittenNext, KnownNext, PlacedNext, SightedNext, AsideNext, AloneNext
     DEF IInv
<1> QED BY InvariantInit, <1>1, PTL DEF Spec

\* A session that runs is in sight of the window: a pane's, the layout's, the
\* card's, or about to be ended (attach_or_open, held_unshown, end_session).
THEOREM InSightAlways == Spec => []InSight
<1>1. IInv => InSight
  <2> SUFFICES ASSUME IInv, Runs, NEW s \in Live
               PROVE  s \in Followed \cup Mentioned(Records) \cup {surface[u].shows : u \in Surfaces}
                            \cup card \cup {r \in Ids : ending[r] # "no"} \cup astray
    BY DEF InSight
  <2>1. s \in Ids /\ Seen(s) /\ s # None /\ s # Absent
    BY IdsPositive DEF IInv, Sighted, Live
  <2>2. ASSUME NEW u \in Surfaces, s = surface[u].held PROVE Records[u] = s
    BY <2>1, <2>2 DEF IInv, Placed, Fits, Records, Recorded, Idle
  <2> QED BY <2>1, <2>2 DEF Seen, Mentioned
<1> QED BY WindowInvariant, <1>1, PTL

\* "A new shell that resumed the same conversation would put a second agent
\* beside the first" (ReattachError): no window ever does, unless one was
\* gone before it wrote its layout or lost an attachment.
THEOREM OneAgentAlways == Spec => []OneAgent
<1>1. IInv => OneAgent
  <2> SUFFICES ASSUME IInv, excused = {} PROVE Agents <= 1
    BY DEF OneAgent
  <2>1. AloneAtWork /\ AtWork = Live \cap agent
    BY DEF IInv, Alone, AtWork
  <2>2. CASE AtWork = {}
    <3>1. Cardinality(Live \cap agent) = 0
      BY <2>1, <2>2, FS_EmptySet
    <3> QED BY <3>1 DEF Agents
  <2>3. CASE AtWork # {}
    <3>1. PICK s \in AtWork : AtWork = {s}
      BY <2>1, <2>3 DEF AloneAtWork
    <3>2. Cardinality(Live \cap agent) = 1
      BY <2>1, <3>1, FS_Singleton
    <3>3. surface["agent"].at # "window"
      <4>1. SUFFICES ASSUME surface["agent"].at = "window" PROVE FALSE
        OBVIOUS
      <4>2. win.up
        BY <4>1 DEF IInv, Vacant, Surfaces, Nothing
      <4>3. Mine.held = None /\ Mine.shows = None
        BY <4>1 DEF IInv, Placed, Fits, Mine, Surfaces, Opened, Following
      <4>4. s \in Ids /\ s \in {Mine.held, Mine.shows}
        BY <2>1, <3>1, <4>1, <4>2 DEF AloneAtWork, Mine, Idle, Live
      <4> QED BY <4>3, <4>4, IdsPositive
    <3> QED BY <3>2, <3>3 DEF Agents
  <2> QED BY <2>2, <2>3
<1> QED BY WindowInvariant, <1>1, PTL

(***************************************************************************)
(* A session that runs is in one place, and what is about to end one is    *)
(* about none that a pane has; so a window that leaves its sessions        *)
(* running (leave_sessions_in_host_and_quit) has none in the layout it     *)
(* wrote that something is yet to end.                                     *)
(***************************************************************************)
Has(u, s) == s \in {surface[u].held, surface[u].shows}
Doomed == {"closing", "again", "end"}

OnePlace(s) ==
    /\ ~(Has("agent", s) /\ Has("tab", s))
    /\ \A u \in Surfaces : Has(u, s) => s \notin card
    /\ \A l \in save \cup {saved} : ~(l["agent"] = s /\ l["tab"] = s)
Spared(s) == Runs /\ ending[s] \in Doomed => s \notin card /\ \A u \in Surfaces : ~Has(u, s)
LeftAlone(s) ==
    win.leaving = "keep" /\ s \in Mentioned(saved) =>
        ending[s] # "end" /\ \A u \in Surfaces : surface[u].at = "follow" => surface[u].shows # s
Apart == \A s \in Live : OnePlace(s) /\ Spared(s) /\ LeftAlone(s)

\* The layout records only what its surfaces have.
LEMMA RecordsHas == \A u \in Surfaces, s \in Ids : Records[u] = s => Has(u, s)
BY IdsPositive DEF Records, Recorded, Has

\* A step that gives no surface and not the card a session, and the layouts
\* what a surface had.
LEMMA OnePlaceKept ==
  ASSUME NEW s \in Ids, OnePlace(s),
         \A u \in Surfaces : Has(u, s)' => Has(u, s),
         s \in card' => s \in card,
         \A l \in save' \cup {saved'} :
            l \in save \cup {saved} \/ \A u \in Surfaces : l[u] = s => Has(u, s)
  PROVE  OnePlace(s)'
BY DEF OnePlace, Surfaces

\* The steps of windows and of the host.
LEMMA ApartWindow ==
  ASSUME WindowTypeOK, Vacant, Written, Known, Placed, Apart, [Next]_vars, NEW s \in Ids, life'[s] = "live",
         StartWindow \/ WriteLayout \/ Keep \/ StopAll \/ SettleOnQuit
         \/ TearDown \/ Exit \/ Crash \/ HostChanges
  PROVE  (OnePlace(s) /\ Spared(s) /\ LeftAlone(s))'
<1>s. s # None /\ s # Absent
  BY IdsPositive
<1>l. life[s] = "live"
  BY LifeOfWindow DEF LifeOn
<1>p. OnePlace(s) /\ Spared(s) /\ LeftAlone(s)
  BY <1>l DEF Apart, Live
<1>1. CASE StartWindow
  <2>1. \A u \in Surfaces : Has(u, s)' => saved[u] = s
    BY <1>1, <1>s DEF StartWindow, Has, Nothing
  <2>2. s \in card' => s \notin Mentioned(saved)
    BY <1>1 DEF StartWindow, Unshown
  <2>3. ~(saved["agent"] = s /\ saved["tab"] = s) /\ saved' = saved
    BY <1>1, <1>p DEF StartWindow, OnePlace
  <2>4. save' = {} /\ ending'[s] = "no" /\ win'.leaving = "no"
    BY <1>1 DEF StartWindow, Vacant
  <2>5. OnePlace(s)'
    BY <2>1, <2>2, <2>3, <2>4, <1>s DEF OnePlace, Mentioned, Surfaces
  <2> QED BY <2>4, <2>5 DEF Spared, LeftAlone, Doomed
<1>2. CASE WriteLayout
  <2>1. /\ surface' = surface /\ card' = card /\ ending' = ending /\ win' = win
        /\ win.leaving # "keep"
    BY <1>2 DEF WriteLayout, Written
  <2>2. OnePlace(s)'
    BY <1>2, <1>p, <2>1 DEF WriteLayout, OnePlace, Has
  <2> QED BY <1>p, <2>1, <2>2 DEF Spared, LeftAlone, Has, Runs
<1>3. CASE Keep \/ StopAll
  <2>1. /\ surface' = surface /\ card' = card /\ ending' = ending /\ Runs /\ win'.leaving # "no"
        /\ saved' = Records /\ save' = {}
    BY <1>3 DEF Keep, StopAll, WindowTypeOK
  <2>2. OnePlace(s)'
    BY <1>p, <2>1, RecordsHas, OnePlaceKept DEF Has
  <2>3. s \in Mentioned(saved') => \E u \in Surfaces : Records[u] = s
    BY <2>1 DEF Mentioned
  <2>4. s \in Mentioned(saved') => ending[s] # "end"
    BY <1>p, <2>1, <2>3, RecordsHas DEF Spared, Doomed
  <2>5. ASSUME NEW u \in Surfaces, surface[u].at = "follow", surface[u].shows = s,
               NEW v \in Surfaces, Records[v] = s
        PROVE  FALSE
    <3>1. Has(u, s) /\ Has(v, s)
      BY <2>5, RecordsHas DEF Has
    <3>2. v = u
      BY <1>p, <3>1 DEF OnePlace, Surfaces
    <3>3. surface[u].held = s
      BY <2>5, <3>2 DEF Records, Recorded
    <3> QED BY <1>l, <2>5, <3>3 DEF Placed, Fits, Anew, Following, Over
  <2>6. LeftAlone(s)'
    BY <2>1, <2>3, <2>4, <2>5 DEF LeftAlone
  <2> QED BY <2>1, <2>2, <2>6 DEF Spared, Runs
<1>4. CASE TearDown
  <2>1. /\ card' = card /\ win' = win /\ ~Runs /\ saved' = saved /\ save' = save
        /\ \A u \in Surfaces : surface'[u] = surface[u] \/ surface'[u] = Nothing
        /\ ending'[s] = ending[s] \/ ending'[s] = "closing"
    BY <1>4 DEF TearDown, Set, ofWindow, WindowTypeOK
  <2>2. \A u \in Surfaces : Has(u, s)' => Has(u, s)
    BY <2>1, <1>s DEF Has, Nothing
  <2>3. OnePlace(s)'
    BY <1>p, <2>1, <2>2, OnePlaceKept
  <2> QED BY <1>p, <2>1, <2>3 DEF Spared, LeftAlone, Runs, Nothing
<1>5. CASE Exit \/ Crash
  <2>1. Away /\ saved' = saved
    BY <1>5 DEF Exit, Crash
  <2>2. \A u \in Surfaces : ~Has(u, s)'
    BY <2>1, <1>s DEF Away, Has, Nothing
  <2>3. OnePlace(s)'
    BY <1>p, <2>1, <2>2, OnePlaceKept DEF Away
  <2> QED BY <2>1, <2>3 DEF Away, Spared, LeftAlone, Doomed
<1>6. CASE HostChanges
  <2>1. UNCHANGED <<saved, win, surface, ending, card, save>>
    BY <1>6 DEF HostChanges
  <2> QED BY <1>p, <2>1 DEF OnePlace, Spared, LeftAlone, Has, Runs
<1>7. CASE SettleOnQuit
  <2>1. /\ UNCHANGED <<saved, surface, ending, card, save>>
        /\ win'.leaving = "quit"
    BY <1>7 DEF SettleOnQuit, WindowTypeOK
  <2> QED BY <1>p, <2>1 DEF OnePlace, Spared, LeftAlone, Has, Runs
<1> QED BY <1>1, <1>2, <1>3, <1>4, <1>5, <1>6, <1>7

\* The steps of a surface.
LEMMA ApartSurface ==
  ASSUME WindowTypeOK, Vacant, Known, Placed, Apart, [Next]_vars, NEW s \in Ids, life'[s] = "live",
         NEW u \in Surfaces, Show(u) \/ Opening(u) \/ Close(u)
  PROVE  (OnePlace(s) /\ Spared(s) /\ LeftAlone(s))'
<1>s. s # None /\ s # Absent
  BY IdsPositive
<1>t. surface[u] \in Panes /\ \A v \in Surfaces : v # u => surface'[v] = surface[v]
  BY DEF Show, Opening, Ask, Attach, Spawn, FollowNew, Promote, Settle, Close, At, Shows, WindowTypeOK
<1>w. win' = win
  BY DEF Show, Opening, Ask, Attach, Spawn, FollowNew, Promote, Settle, Close, ofWindow
<1>1. CASE Spawn(u) /\ life[s] # "live"
  <2>1. s \in Fresh /\ life[s] = "free"
    BY <1>1 DEF Spawn, ofHost, WindowTypeOK, Fresh
  <2>2. /\ \A v \in Surfaces : ~Has(v, s) /\ saved[v] # s
        /\ s \notin card /\ \A l \in save : l["agent"] # s
        /\ ending[s] = "no"
    BY <2>1 DEF Known, Begun, Has, Surfaces
  <2>3. UNCHANGED <<saved, card, save, ending>>
    BY <1>1 DEF Spawn, ofWindow
  <2>4. \A v \in Surfaces : Has(v, s)' => v = u
    BY <1>t, <2>2 DEF Has
  <2>5. OnePlace(s)'
    BY <2>2, <2>3, <2>4 DEF OnePlace, Surfaces
  <2> QED BY <2>2, <2>3, <2>5 DEF Spared, LeftAlone, Doomed, Mentioned
<1> SUFFICES ASSUME life[s] = "live" PROVE (OnePlace(s) /\ Spared(s) /\ LeftAlone(s))'
  BY <1>1, LifeOfSurface DEF Opening, LifeOn
<1>p. OnePlace(s) /\ Spared(s) /\ LeftAlone(s)
  BY DEF Apart, Live
<1>2. \A v \in Surfaces : Has(v, s)' => Has(v, s)
  <2>1. CASE Show(u) \/ Ask(u) \/ Settle(u)
    BY <2>1, <1>s, <1>t, AtIs DEF Show, Ask, Settle, Kept, Has, WindowTypeOK
  <2>2. CASE Attach(u) \/ FollowNew(u)
    BY <2>2, <1>s, <1>t, AtIs DEF Attach, FollowNew, Shows, Has, WindowTypeOK
  <2>3. CASE Spawn(u)
    <3>1. \A r \in Fresh : r # s
      BY DEF Fresh
    <3> QED BY <2>3, <3>1, <1>s, <1>t, AtIs DEF Spawn, Shows, Has, WindowTypeOK
  <2>4. CASE Promote(u) \/ Close(u)
    BY <2>4, <1>s, <1>t DEF Promote, Close, Nothing, Has, WindowTypeOK
  <2> QED BY <2>1, <2>2, <2>3, <2>4 DEF Opening
<1>3. card' = card /\ saved' = saved
  BY DEF Show, Opening, Ask, Attach, Spawn, FollowNew, Promote, Settle, Close, ofWindow
<1>4. \A l \in save' : l \in save \/ \A v \in Surfaces : l[v] = s => Has(v, s)
  <2>1. CASE Promote(u)
    <3>1. save' = {[Records EXCEPT ![u] = surface[u].shows]}
      BY <2>1 DEF Promote
    <3> QED BY ZenonT(40), <3>1, RecordsHas DEF Has, Records
  <2>2. CASE Close(u)
    <3>1. save' = {[Records EXCEPT ![u] = Absent]}
      BY <2>2 DEF Close
    <3> QED BY <3>1, <1>s, RecordsHas DEF Records
  <2>3. CASE ~Promote(u) /\ ~Close(u)
    BY <2>3 DEF Show, Opening, Ask, Attach, Spawn, FollowNew, Settle, ofWindow
  <2> QED BY <2>1, <2>2, <2>3
<1>5. OnePlace(s)'
  BY <1>p, <1>2, <1>3, <1>4, OnePlaceKept
<1>6. CASE FollowNew(u) /\ ending' # ending /\ surface[u].shows = s
  <2>1. surface[u].at = "follow" /\ surface' = Shows(u, "lost_new", None)
    BY <1>6 DEF FollowNew
  <2>2. surface[u].held # s
    BY <2>1 DEF Placed, Fits, Anew, Following, Over
  <2>3. ~Has(u, s)'
    BY <2>1, <2>2, <1>s DEF Has, Shows, WindowTypeOK
  <2>4. Has(u, s)
    BY <1>6 DEF Has
  <2>5. s \notin card /\ \A v \in Surfaces : ~Has(v, s)'
    BY <1>p, <1>2, <2>3, <2>4 DEF OnePlace, Surfaces
  <2>6. win.leaving = "keep" => s \notin Mentioned(saved)
    BY <1>p, <1>6, <2>1 DEF LeftAlone
  <2> QED BY <1>3, <1>5, <1>w, <2>5, <2>6 DEF Spared, LeftAlone
<1>7. CASE Close(u) /\ Has(u, s)
  <2>1. Runs /\ surface'[u] = [Nothing EXCEPT !.at = "closed"]
    BY <1>7 DEF Close, WindowTypeOK
  <2>2. ~Has(u, s)'
    BY <2>1, <1>s DEF Has, Nothing
  <2>3. s \notin card /\ \A v \in Surfaces : ~Has(v, s)'
    BY <1>p, <1>2, <1>7, <2>2 DEF OnePlace, Surfaces
  <2> QED BY <1>3, <1>5, <1>w, <2>1, <2>3 DEF Spared, LeftAlone, Runs
<1>8. CASE ~(FollowNew(u) /\ ending' # ending /\ surface[u].shows = s) /\ ~(Close(u) /\ Has(u, s))
  <2>1. ending'[s] = ending[s]
    <3>1. CASE FollowNew(u)
      BY <1>8, <3>1 DEF FollowNew, WindowTypeOK
    <3>2. CASE Close(u)
      BY <1>8, <3>2 DEF Close, Has, WindowTypeOK
    <3>3. CASE ~FollowNew(u) /\ ~Close(u)
      BY <3>3 DEF Show, Opening, Ask, Attach, Spawn, Promote, Settle
    <3> QED BY <3>1, <3>2, <3>3
  <2>2. Spared(s)'
    BY <1>p, <1>2, <1>3, <1>w, <2>1 DEF Spared, Runs
  <2>3. ASSUME NEW v \in Surfaces, surface'[v].at = "follow", surface'[v].shows = s
        PROVE  surface[v].at = "follow" /\ surface[v].shows = s
    <3>1. CASE v # u
      BY <2>3, <3>1, <1>t
    <3>2. CASE v = u
      <4>1. CASE Spawn(u)
        <5>1. \A r \in Fresh : r # s
          BY DEF Fresh
        <5>2. surface[u].shows = None
          BY <4>1 DEF Spawn, Placed, Fits, Opened, Following
        <5> QED BY <2>3, <3>2, <4>1, <5>1, <5>2, <1>s, AtIs DEF Spawn, Shows, WindowTypeOK
      <4>2. CASE Show(u) \/ Ask(u) \/ Settle(u) \/ Promote(u) \/ Close(u)
        BY <2>3, <3>2, <4>2, AtIs DEF Show, Ask, Settle, Promote, Close, Nothing, WindowTypeOK
      <4>3. CASE Attach(u) \/ FollowNew(u)
        BY <2>3, <3>2, <4>3, AtIs DEF Attach, FollowNew, Shows, WindowTypeOK
      <4> QED BY <4>1, <4>2, <4>3 DEF Opening
    <3> QED BY <3>1, <3>2
  <2>4. LeftAlone(s)'
    BY <1>p, <1>3, <1>w, <2>1, <2>3 DEF LeftAlone
  <2> QED BY <1>5, <2>2, <2>4
<1> QED BY <1>6, <1>7, <1>8

\* The steps of a session, and of the threads that end one.
LEMMA ApartSession ==
  ASSUME WindowTypeOK, Vacant, Known, Placed, Apart, [Next]_vars, NEW s \in Ids, life'[s] = "live",
         NEW r \in Ids, OpenHeld(r) \/ EndHeld(r) \/ Ending(r) \/ SessionExits(r)
  PROVE  (OnePlace(s) /\ Spared(s) /\ LeftAlone(s))'
<1>s. s # None /\ s # Absent
  BY IdsPositive
<1>l. life[s] = "live"
  BY LifeOfSession DEF LifeOn
<1>p. OnePlace(s) /\ Spared(s) /\ LeftAlone(s)
  BY <1>l DEF Apart, Live
<1>1. CASE OpenHeld(r)
  <2>1. /\ Runs /\ win' = win /\ saved' = saved /\ ending' = ending
        /\ r \in card /\ card' = card \ {r}
        /\ save' = {[Records EXCEPT !["tab"] = r]}
        /\ surface' = [surface EXCEPT !["tab"] = [at |-> "unshown", held |-> r, shows |-> None]]
    BY <1>1 DEF OpenHeld
  <2>2. Runs'
    BY <2>1 DEF Runs
  <2>3. \A u \in Surfaces : s # r /\ Has(u, s)' => Has(u, s)
    BY <2>1, <1>s DEF Has, Surfaces, WindowTypeOK
  <2>4. Has("agent", s)' => Has("agent", s)
    BY <2>1 DEF Has, Surfaces, WindowTypeOK
  <2>5. CASE s # r
    <3>1. \A l \in save' \cup {saved'} :
            l \in save \cup {saved} \/ \A u \in Surfaces : l[u] = s => Has(u, s)
      BY <2>1, <2>5, RecordsHas DEF Records
    <3>2. OnePlace(s)'
      BY <1>p, <2>1, <2>3, <2>5, <3>1, OnePlaceKept
    <3> QED BY <1>p, <2>1, <2>2, <2>3, <2>5, <3>2 DEF Spared, LeftAlone, Runs
  <2>6. CASE s = r
    <3>1. ~Has("agent", s) /\ Records["agent"] # s
      BY <1>p, <2>1, <2>6, RecordsHas DEF OnePlace, Surfaces
    <3>2. OnePlace(s)'
      BY <1>p, <2>1, <2>4, <2>6, <3>1 DEF OnePlace, Surfaces, Records
    <3>3. ending[s] \notin Doomed
      BY <1>p, <2>1, <2>6 DEF Spared
    <3> QED BY <2>1, <2>2, <3>2, <3>3 DEF Spared, LeftAlone, Runs
  <2> QED BY <2>5, <2>6
<1>2. CASE EndHeld(r)
  <2>1. /\ Runs /\ UNCHANGED <<win, saved, surface, save>> /\ r \in card /\ card' = card \ {r}
        /\ ending' = [ending EXCEPT ![r] = "end"]
    BY <1>2 DEF EndHeld
  <2>2. OnePlace(s)'
    BY <1>p, <2>1 DEF OnePlace, Has
  <2>3. s = r => \A u \in Surfaces : ~Has(u, s)
    BY <1>p, <2>1 DEF OnePlace
  <2>4. s # r => ending'[s] = ending[s]
    BY <2>1 DEF WindowTypeOK
  <2>5. Spared(s)'
    BY <1>p, <2>1, <2>3, <2>4 DEF Spared, Has, Runs
  <2> QED BY <2>1, <2>2, <2>5 DEF LeftAlone, Runs
<1>3. CASE Ending(r)
  <2>1. UNCHANGED <<win, saved, surface, save, card>>
    BY <1>3 DEF Ending, ReaderLooks, ReaderLooksAgain, EndSession, Forget, ofWindow
  <2>2. /\ ending'[s] \in Doomed => ending[s] \in Doomed
        /\ win.leaving = "keep" /\ ending'[s] = "end" => ending[s] = "end"
    BY <1>3 DEF Ending, ReaderLooks, ReaderLooksAgain, EndSession, Forget, Goes, Doomed, Leaves, WindowTypeOK
  <2>3. OnePlace(s)'
    BY <1>p, <2>1 DEF OnePlace, Has
  <2> QED BY <1>p, <2>1, <2>2, <2>3 DEF Spared, LeftAlone, Has, Runs
<1>4. CASE SessionExits(r)
  <2>1. UNCHANGED <<win, saved, save, card>>
    BY <1>4 DEF SessionExits, ofWindow
  <2>2. \A u \in Surfaces : /\ surface'[u].held = surface[u].held /\ surface'[u].shows = surface[u].shows
                            /\ surface'[u].at = "follow" => surface[u].at = "follow"
    BY <1>4 DEF SessionExits, WindowTypeOK, Panes
  <2>3. ending'[s] = ending[s] \/ ending'[s] = "forget"
    BY <1>4 DEF SessionExits, WindowTypeOK
  <2>4. OnePlace(s)'
    <3>1. \A u \in Surfaces : Has(u, s)' => Has(u, s)
      BY <2>2 DEF Has
    <3> QED BY <1>p, <2>1, <3>1, OnePlaceKept
  <2> QED BY <1>p, <2>1, <2>2, <2>3, <2>4 DEF Spared, LeftAlone, Has, Runs, Doomed
<1> QED BY <1>1, <1>2, <1>3, <1>4

\* Every step leaves a session that runs in one place, and what ends one away
\* from the panes.
LEMMA ApartNext == WindowTypeOK /\ Vacant /\ Written /\ Known /\ Placed /\ Apart /\ [Next]_vars => Apart'
<1> SUFFICES ASSUME WindowTypeOK, Vacant, Written, Known, Placed, Apart, [Next]_vars,
                    NEW s \in Ids, life'[s] = "live"
             PROVE  (OnePlace(s) /\ Spared(s) /\ LeftAlone(s))'
  BY DEF Apart, Live
<1>1. CASE UNCHANGED vars
  BY <1>1 DEF vars, Apart, Live, OnePlace, Spared, LeftAlone, Has, Runs
<1> QED BY <1>1, ApartWindow, ApartSurface, ApartSession DEF Next

\* A session that runs is in one place, and none that a pane has is about to
\* be ended (PaneReader::run, end_session).
THEOREM ApartAlways == Spec => [](IInv /\ Apart)
<1>1. Init => IInv /\ Apart
  BY InvariantInit DEF Init, Apart, Live
<1>2. IInv /\ Apart /\ [Next]_vars => (IInv /\ Apart)'
  BY ApartNext, TypeNext, VacantNext, WrittenNext, KnownNext, PlacedNext, SightedNext, AsideNext,
     AloneNext DEF IInv
<1> QED BY <1>1, <1>2, PTL DEF Spec

\* A window that leaves its sessions running ends none of those it wrote into
\* the layout, whichever threads of it are still at work.
THEOREM LeftRunsAlways == Spec => LeftRuns
<1>1. ASSUME IInv, Apart, [Next]_vars, win.leaving = "keep", ~Elsewhere,
             NEW s \in Mentioned(saved), life[s] = "live"
      PROVE  life'[s] = "live"
  <2>1. s \in Ids
    BY <1>1 DEF IInv, WindowTypeOK, Mentioned, Layouts, Slots
  <2>2. ~Runs /\ Leaves /\ ending[s] # "end" /\ ending[s] # "forget"
    BY <1>1, <2>1 DEF IInv, Placed, Over, Apart, Live, LeftAlone, Runs, Leaves
  <2>3. CASE UNCHANGED vars
    BY <1>1, <2>3 DEF vars
  <2>4. CASE StartWindow \/ WriteLayout \/ Keep \/ StopAll \/ SettleOnQuit \/ TearDown \/ Exit \/ Crash
    BY <1>1, <2>1, <2>2, <2>4
       DEF StartWindow, WriteLayout, Keep, StopAll, Stops, SettleOnQuit, TearDown, Exit, Crash,
           ofHost, IInv, WindowTypeOK
  <2>5. ASSUME NEW u \in Surfaces, Show(u) \/ Opening(u) \/ Close(u) PROVE life'[s] = "live"
    <3>1. \A r \in Fresh : r # s
      BY <1>1 DEF Fresh
    <3> QED BY <1>1, <2>1, <2>2, <2>5, <3>1
         DEF Show, Opening, Ask, Attach, Spawn, FollowNew, Promote, Settle, Close, ofHost, IInv, WindowTypeOK
  <2>6. ASSUME NEW r \in Ids, OpenHeld(r) \/ EndHeld(r) PROVE life'[s] = "live"
    BY <2>2, <2>6 DEF OpenHeld, EndHeld
  <2>7. ASSUME NEW r \in Ids, Ending(r) PROVE life'[s] = "live"
    BY <1>1, <2>1, <2>2, <2>7
       DEF Ending, ReaderLooks, ReaderLooksAgain, EndSession, Forget, Ends, ofHost, IInv, WindowTypeOK
  <2> QED BY <1>1, <2>3, <2>4, <2>5, <2>6, <2>7 DEF Next, Elsewhere
<1>2. IInv /\ Apart /\ [Next]_vars =>
        [win.leaving = "keep" /\ ~Elsewhere
           => \A s \in Mentioned(saved) : life[s] = "live" => life'[s] = "live"]_vars
  BY <1>1
<1> QED BY <1>2, ApartAlways, PTL DEF Spec, LeftRuns

(***************************************************************************)
(* The turns of an agent, as the window counts them (AgentRuns): types.    *)
(***************************************************************************)
Sources == {"pass", "hook"}
Tails == [len: Nat \cup {Never}, turn: Nat, compacted: BOOLEAN]
Readings ==
    [at: {"none", "begun", "looked"}, age: 0..MaxDelay, known: Nat \cup {Never},
     state: {"none", "thinking", "finished", "waiting"}, tail: Tails, over: Nat, turn: Nat,
     older: BOOLEAN, stale: BOOLEAN]
Threads == [status: {"idle", "thinking", "waiting"}, owned: BOOLEAN, runs: Nat]
Watches ==
    [len: Nat \cup {Never}, current: Nat, counted: Nat, primed: BOOLEAN, settled: Never..Old,
     pending: Nat, since: 0..Old, compacted: BOOLEAN]

Files == [len: Nat, turn: Nat, compacted: BOOLEAN]

AgentTypeOK ==
    /\ word \in {"idle", "busy", "waiting"} /\ work \in {"none", "turn", "compaction"}
    /\ begun \in Nat /\ over \in Nat /\ blip \in BOOLEAN /\ since \in 0..Rest
    /\ due \in [what: {"none", "turn", "compaction"}, age: Nat]
    /\ file \in Files
    /\ frame \in {"none", "prompt", "tool", "notification", "stop"}
SurfaceTypeOK ==
    /\ readings \in [Sources -> Readings]
    /\ timer \in 0..Interval /\ thread \in Threads /\ running \in BOOLEAN
    /\ heldSince \in Never..Old /\ watch \in Watches /\ covered \in Nat /\ watched \in Nat

\* No turn is known of before it has ended, or, as one at work, before it began.
TurnsKnown ==
    /\ work = "turn" => begun = over + 1
    /\ work # "turn" => begun = over
    /\ begun <= MaxTurns
    /\ due.what # "none" => work = "none"
    /\ file.turn <= over /\ watch.current <= over /\ watch.counted <= over /\ covered <= over
    /\ watched <= begun
    /\ \A r \in Sources : readings[r].over <= over /\ readings[r].tail.turn <= over /\ readings[r].turn <= begun

RunsTyped == AgentTypeOK /\ SurfaceTypeOK /\ TurnsKnown

AgentStep ==
    BeginTurn \/ UseTool \/ AskQuestion \/ EndTurn \/ BlipBegins \/ BlipEnds \/ Compact \/ Compacted \/ RecordLands

\* The agent's own steps leave the window alone.
LEMMA AgentAlone ==
  ASSUME AgentStep
  PROVE  UNCHANGED <<case, readings, timer, thread, running, heldSince, watch, covered, watched>>
BY DEF AgentStep, BeginTurn, UseTool, AskQuestion, EndTurn, BlipBegins, BlipEnds, Compact, Compacted,
       RecordLands, windowVars

\* Where no reading is under way.
LEMMA NoReadingTyped == NoReading \in Readings /\ NoReading.over = 0 /\ NoReading.tail.turn = 0 /\ NoReading.turn = 0
BY AgentRunsAssumption DEF NoReading, Readings, NoTail, Tails

\* What a reading holds.
LEMMA ReadingFields ==
  ASSUME SurfaceTypeOK, NEW r \in Sources
  PROVE  /\ readings[r] \in Readings /\ readings[r].tail \in Tails
         /\ readings[r].over \in Nat /\ readings[r].turn \in Nat /\ readings[r].tail.turn \in Nat
<1>1. readings[r] \in Readings
  BY DEF SurfaceTypeOK
<1>2. readings[r].tail \in Tails /\ readings[r].over \in Nat /\ readings[r].turn \in Nat
  BY <1>1 DEF Readings
<1> QED BY <1>1, <1>2 DEF Tails

\* A turn's first record makes the file longer by one.
LEMMA FileGrows ==
  ASSUME file \in Files, BeginTurn
  PROVE  file' \in Files /\ file'.len = file.len + 1 /\ file'.turn = file.turn /\ ~file'.compacted
<1> PICK n \in Nat : n = file.len + 1
  BY DEF Files
<1>1. file' = [file EXCEPT !.len = n, !.compacted = FALSE]
  BY DEF BeginTurn
<1>2. file' \in Files /\ file'.len = n /\ file'.turn = file.turn /\ ~file'.compacted
  BY <1>1 DEF Files
<1> QED BY <1>2

(***************************************************************************)
(* What the window's steps do to the two readings.                         *)
(***************************************************************************)
LEMMA OtherIs ==
  /\ Other("pass") = "hook" /\ Other("hook") = "pass"
  /\ \A r \in Sources : Other(r) \in Sources /\ Other(r) # r /\ \A q \in Sources : q = r \/ q = Other(r)
<1>1. Other("pass") = "hook"
  BY DEF Other
<1>2. Other("hook") = "pass"
  BY DEF Other
<1> QED BY <1>1, <1>2 DEF Sources

\* Two readings that differ in what is said of the other one only.
AsLooked(x, y) ==
    /\ x.at = y.at /\ x.age = y.age /\ x.known = y.known /\ x.state = y.state /\ x.tail = y.tail
    /\ x.over = y.over /\ x.turn = y.turn
Empty(x) ==
    /\ x.age = 0 /\ x.state = "none" /\ x.tail = NoTail /\ x.over = 0 /\ x.turn = 0
    /\ x.older = FALSE /\ x.stale = FALSE

\* A reading begins, stamped later than one that is under way.
LEMMA BeginDoes ==
  ASSUME SurfaceTypeOK, NEW r \in Sources, Begin(r)
  PROVE  /\ readings' \in [Sources -> Readings]
         /\ readings'[r].at = "begun" /\ readings'[r].known = watch.len /\ Empty(readings'[r])
         /\ AsLooked(readings'[Other(r)], readings[Other(r)])
         /\ readings'[Other(r)].stale = readings[Other(r)].stale
         /\ readings'[Other(r)].older = (readings[Other(r)].at # "none")
<1> DEFINE o == Other(r)
<1> HIDE DEF o
<1>1. o \in Sources /\ o # r /\ readings[r] \in Readings /\ readings[o] \in Readings
      /\ \A q \in Sources : q = r \/ q = o
  BY OtherIs, ReadingFields DEF o
<1>2. readings' = [readings EXCEPT ![r] = [NoReading EXCEPT !.at = "begun", !.known = watch.len],
                                   ![o].older = readings[o].at # "none"]
  BY DEF Begin, o
<1>3. /\ readings'[r] = [NoReading EXCEPT !.at = "begun", !.known = watch.len]
      /\ readings'[o] = [readings[o] EXCEPT !.older = readings[o].at # "none"]
      /\ DOMAIN readings' = Sources
  BY <1>1, <1>2 DEF SurfaceTypeOK
<1>4. watch.len \in Nat \cup {Never}
  BY DEF SurfaceTypeOK, Watches
<1>5. readings'[r] \in Readings /\ readings'[r].at = "begun" /\ readings'[r].known = watch.len /\ Empty(readings'[r])
  BY <1>3, <1>4, NoReadingTyped DEF Readings, Empty, NoReading
<1>6. /\ readings'[o] \in Readings /\ AsLooked(readings'[o], readings[o])
      /\ readings'[o].stale = readings[o].stale /\ readings'[o].older = (readings[o].at # "none")
  BY <1>1, <1>3 DEF Readings, AsLooked
<1>7. readings' \in [Sources -> Readings]
  BY <1>1, <1>2, <1>5, <1>6 DEF SurfaceTypeOK
<1> QED BY <1>5, <1>6, <1>7 DEF o

\* What a reading finds of the file is the file or nothing.
LEMMA TurnEndTyped ==
  ASSUME AgentTypeOK, NEW k
  PROVE  /\ TurnEnd(k) \in Tails
         /\ TurnEnd(k) = NoTail \/ TurnEnd(k) = file
<1>1. NoTail \in Tails /\ file \in Tails
  BY DEF NoTail, Tails, AgentTypeOK, Files
<1>2. TurnEnd(k) = NoTail \/ TurnEnd(k) = file
  BY DEF TurnEnd
<1> QED BY <1>1, <1>2

\* What a reading finds of the status is a status or nothing.
LEMMA StateTyped ==
  ASSUME AgentTypeOK
  PROVE  State \in {"none", "thinking", "finished", "waiting"}
BY DEF State, StateOf, AgentTypeOK

\* A reading looks, and leaves the other one alone.
LEMMA LookDoes ==
  ASSUME AgentTypeOK, SurfaceTypeOK, NEW r \in Sources, Look(r)
  PROVE  /\ readings' \in [Sources -> Readings]
         /\ readings'[r].at = "looked" /\ readings'[r].age = readings[r].age /\ readings'[r].known = Never
         /\ readings'[r].state = State /\ readings'[r].tail = TurnEnd(readings[r].known)
         /\ readings'[r].over = over
         /\ readings'[r].turn = (IF State = "thinking" /\ work = "turn" THEN begun ELSE 0)
         /\ readings'[r].older = readings[r].older /\ readings'[r].stale = readings[r].stale
         /\ readings'[Other(r)] = readings[Other(r)]
<1>1. /\ Other(r) \in Sources /\ Other(r) # r /\ readings[r] \in Readings /\ readings[Other(r)] \in Readings
      /\ \A q \in Sources : q = r \/ q = Other(r)
  BY OtherIs, ReadingFields
<1> PICK turn \in Nat : turn = IF State = "thinking" /\ work = "turn" THEN begun ELSE 0
  BY DEF AgentTypeOK
<1> PICK tail \in Tails : tail = TurnEnd(readings[r].known)
  BY TurnEndTyped
<1> PICK state \in {"none", "thinking", "finished", "waiting"} : state = State
  BY StateTyped
<1>2. readings' = [readings EXCEPT ![r] = [readings[r] EXCEPT !.at = "looked", !.known = Never, !.state = state,
                                            !.tail = tail, !.over = over, !.turn = turn]]
  BY DEF Look
<1>3. /\ readings'[r] = [readings[r] EXCEPT !.at = "looked", !.known = Never, !.state = state,
                                            !.tail = tail, !.over = over, !.turn = turn]
      /\ readings'[Other(r)] = readings[Other(r)]
  BY <1>1, <1>2 DEF SurfaceTypeOK
<1>4. over \in Nat
  BY DEF AgentTypeOK
<1>5. /\ readings'[r] \in Readings /\ readings'[r].at = "looked" /\ readings'[r].age = readings[r].age
      /\ readings'[r].known = Never /\ readings'[r].state = state /\ readings'[r].tail = tail
      /\ readings'[r].over = over /\ readings'[r].turn = turn
      /\ readings'[r].older = readings[r].older /\ readings'[r].stale = readings[r].stale
  BY <1>1, <1>3, <1>4, ZenonT(40) DEF Readings
<1>6. readings' \in [Sources -> Readings]
  BY <1>1, <1>2, <1>3, <1>5 DEF SurfaceTypeOK
<1> QED BY <1>3, <1>5, <1>6

\* A reading is used up; the other one is stale when it was stamped before it.
LEMMA ApplyLeaves ==
  ASSUME SurfaceTypeOK, NEW r \in Sources, Apply(r)
  PROVE  /\ readings' \in [Sources -> Readings]
         /\ readings'[r] = NoReading
         /\ AsLooked(readings'[Other(r)], readings[Other(r)])
         /\ readings'[Other(r)].older = readings[Other(r)].older
         /\ readings'[Other(r)].stale <=>
               readings[Other(r)].stale \/ (readings[Other(r)].older /\ ~Stale(readings[r]))
<1> DEFINE o == Other(r)
<1> HIDE DEF o
<1>1. o \in Sources /\ o # r /\ readings[r] \in Readings /\ readings[o] \in Readings
      /\ \A q \in Sources : q = r \/ q = o
  BY OtherIs, ReadingFields DEF o
<1> PICK stale \in BOOLEAN : stale = (readings[o].stale \/ (readings[o].older /\ ~Stale(readings[r])))
  OBVIOUS
<1>2. readings' = [readings EXCEPT ![r] = NoReading, ![o].stale = stale]
  BY DEF Apply, o
<1>3. readings'[r] = NoReading /\ readings'[o] = [readings[o] EXCEPT !.stale = stale]
  BY <1>1, <1>2 DEF SurfaceTypeOK
<1>4. /\ readings'[o] \in Readings /\ AsLooked(readings'[o], readings[o])
      /\ readings'[o].stale = stale /\ readings'[o].older = readings[o].older
  BY <1>1, <1>3 DEF Readings, AsLooked
<1>5. readings' \in [Sources -> Readings]
  BY <1>1, <1>2, <1>3, <1>4, NoReadingTyped DEF SurfaceTypeOK
<1> QED BY <1>3, <1>4, <1>5 DEF o

\* A second passes for the readings under way.
LEMMA TickAges ==
  ASSUME SurfaceTypeOK, Tick
  PROVE  /\ readings' \in [Sources -> Readings]
         /\ \A r \in Sources :
              /\ readings[r].at = "none" => readings'[r] = readings[r]
              /\ readings[r].at # "none" =>
                   /\ readings[r].age < MaxDelay /\ readings'[r].age = readings[r].age + 1
                   /\ readings'[r].at = readings[r].at
              /\ readings'[r].known = readings[r].known /\ readings'[r].state = readings[r].state
              /\ readings'[r].tail = readings[r].tail /\ readings'[r].over = readings[r].over
              /\ readings'[r].turn = readings[r].turn
              /\ readings'[r].older = readings[r].older /\ readings'[r].stale = readings[r].stale
<1>1. ASSUME NEW r \in Sources
      PROVE  /\ readings'[r] \in Readings
             /\ readings[r].at = "none" => readings'[r] = readings[r]
             /\ readings[r].at # "none" =>
                   /\ readings[r].age < MaxDelay /\ readings'[r].age = readings[r].age + 1
                   /\ readings'[r].at = readings[r].at
             /\ readings'[r].known = readings[r].known /\ readings'[r].state = readings[r].state
             /\ readings'[r].tail = readings[r].tail /\ readings'[r].over = readings[r].over
             /\ readings'[r].turn = readings[r].turn
             /\ readings'[r].older = readings[r].older /\ readings'[r].stale = readings[r].stale
  <2>1. readings[r] \in Readings /\ readings'[r] = Aged(readings[r])
    BY ReadingFields DEF Tick, SurfaceTypeOK
  <2>2. CASE readings[r].at = "none"
    BY <2>1, <2>2 DEF Aged
  <2>3. CASE readings[r].at # "none"
    <3>1. readings[r].age < MaxDelay
      BY <2>3 DEF Tick, SurfaceTypeOK
    <3> PICK age : age = readings[r].age + 1
      OBVIOUS
    <3>2. age \in 0..MaxDelay
      BY <2>1, <3>1, AgentRunsAssumption DEF Readings
    <3>3. readings'[r] = [readings[r] EXCEPT !.age = age]
      BY <2>1, <2>3 DEF Aged
    <3>4. /\ readings'[r] \in Readings /\ readings'[r].age = age /\ readings'[r].at = readings[r].at
          /\ readings'[r].known = readings[r].known /\ readings'[r].state = readings[r].state
          /\ readings'[r].tail = readings[r].tail /\ readings'[r].over = readings[r].over
          /\ readings'[r].turn = readings[r].turn
          /\ readings'[r].older = readings[r].older /\ readings'[r].stale = readings[r].stale
      BY <2>1, <3>2, <3>3 DEF Readings
    <3> QED BY <2>3, <3>1, <3>4
  <2> QED BY <2>2, <2>3, <2>1
<1>2. readings' \in [Sources -> Readings]
  BY <1>1 DEF Tick, SurfaceTypeOK
<1> QED BY <1>1, <1>2

(***************************************************************************)
(* What using a reading does to the surface.                               *)
(***************************************************************************)
HasTail(r) == r.tail.len # Never
Then(r) == Deposit(r, ConfirmRunEnd(r).state)
Left(r) == running /\ Then(r).status = "idle" /\ ~EndedOnCompaction(Observe(r))
Unseen(r) == UnseenTurnEnded(Observe(r), Then(r).status, r)
Counts(r) == Then(r).owned /\ (Left(r) \/ Unseen(r).ended)

\* What the watch has observed when it has observed a reading.
LEMMA ObserveDoes ==
  ASSUME watch \in Watches, NEW r \in Readings
  PROVE  LET w == Observe(r)
         IN  /\ w \in Watches
             /\ w.settled = watch.settled /\ w.pending = watch.pending /\ w.since = watch.since
             /\ ~HasTail(r) => w = watch
             /\ HasTail(r) =>
                  /\ w.len = r.tail.len /\ w.compacted = r.tail.compacted /\ w.primed = TRUE
                  /\ watch.primed => w.counted = watch.counted
                  /\ ~watch.primed => w.counted = r.tail.turn
                  /\ r.tail.turn # 0 => w.current = r.tail.turn
                  /\ r.tail.turn = 0 => w.current = watch.current
<1>1. CASE ~HasTail(r)
  BY <1>1 DEF HasTail, Observe
<1>2. CASE HasTail(r)
  <2>1. /\ r.tail.len \in Nat \cup {Never} /\ r.tail.turn \in Nat /\ r.tail.compacted \in BOOLEAN
        /\ watch.counted \in Nat /\ watch.current \in Nat
    BY DEF Readings, Tails, Watches
  <2> PICK counted : counted = IF watch.primed THEN watch.counted ELSE r.tail.turn
    OBVIOUS
  <2> PICK current : current = IF r.tail.turn # 0 THEN r.tail.turn ELSE watch.current
    OBVIOUS
  <2>2. counted \in Nat /\ current \in Nat
    BY <2>1
  <2>3. Observe(r) = [watch EXCEPT !.len = r.tail.len, !.compacted = r.tail.compacted, !.primed = TRUE,
                                   !.counted = counted, !.current = current]
    BY <1>2 DEF HasTail, Observe
  <2>4. /\ Observe(r) \in Watches
        /\ Observe(r).settled = watch.settled /\ Observe(r).pending = watch.pending /\ Observe(r).since = watch.since
        /\ Observe(r).len = r.tail.len /\ Observe(r).compacted = r.tail.compacted /\ Observe(r).primed = TRUE
        /\ Observe(r).counted = counted /\ Observe(r).current = current
    BY <2>1, <2>2, <2>3 DEF Watches
  <2> QED BY <1>2, <2>4
<1> QED BY <1>1, <1>2

\* A turn that is counted where it was watched settles the account.
LEMMA SettledDoes ==
  ASSUME NEW w \in Watches, NEW r \in Readings
  PROVE  LET v == Settled(w, r)
         IN  /\ v \in Watches
             /\ v.len = w.len /\ v.current = w.current /\ v.counted = w.current /\ v.primed = TRUE
             /\ v.settled = r.age /\ v.pending = 0 /\ v.since = 0 /\ v.compacted = w.compacted
<1>1. r.age \in Never..Old /\ 0 \in 0..Old
  BY AgentRunsAssumption DEF Readings, Old, Never
<1> QED BY <1>1 DEF Settled, Watches

Open(w, status) == w.current # 0 /\ w.counted # w.current /\ status = "idle"
Near(w, r) == w.settled # Never /\ Between(w.settled, r) < Confirm
\* Since when the turn has been seen uncounted
SeenSince(w, r) == IF w.pending = w.current THEN w.since ELSE r.age
Young(w, r) == Between(SeenSince(w, r), r) < Confirm

\* A turn found in the file is counted when it has been there for long enough,
\* and not so soon after another that it must be that one.
LEMMA UnseenDoes ==
  ASSUME NEW w \in Watches, NEW status, NEW r \in Readings
  PROVE  LET u == UnseenTurnEnded(w, status, r)
             v == u.watch
         IN  /\ v \in Watches
             /\ v.len = w.len /\ v.current = w.current /\ v.primed = w.primed
             /\ v.settled = w.settled /\ v.compacted = w.compacted
             /\ u.ended <=> Open(w, status) /\ ~Near(w, r) /\ ~Young(w, r)
             /\ Open(w, status) /\ (Near(w, r) \/ ~Young(w, r)) => v.counted = w.current
             /\ ~Open(w, status) \/ (~Near(w, r) /\ Young(w, r)) => v.counted = w.counted
             /\ w.current = 0 => v = w
             /\ w.current # 0 /\ (~Open(w, status) \/ Near(w, r) \/ ~Young(w, r)) => v.pending = 0
             /\ Open(w, status) /\ ~Near(w, r) /\ Young(w, r) => v.pending = w.current /\ v.since = SeenSince(w, r)
<1> DEFINE dropped == [w EXCEPT !.pending = 0, !.since = 0]
           adopted == [dropped EXCEPT !.counted = w.current]
           waits == IF w.pending = w.current THEN w ELSE [w EXCEPT !.pending = w.current, !.since = r.age]
<1>1. r.age \in 0..Old /\ 0 \in 0..Old /\ w.current \in Nat
  BY AgentRunsAssumption DEF Readings, Old, Watches
<1>2. /\ dropped \in Watches /\ dropped.counted = w.counted /\ dropped.pending = 0
      /\ dropped.len = w.len /\ dropped.current = w.current /\ dropped.primed = w.primed
      /\ dropped.settled = w.settled /\ dropped.compacted = w.compacted
  BY <1>1 DEF Watches
<1>3. /\ adopted \in Watches /\ adopted.counted = w.current /\ adopted.pending = 0
      /\ adopted.len = w.len /\ adopted.current = w.current /\ adopted.primed = w.primed
      /\ adopted.settled = w.settled /\ adopted.compacted = w.compacted
  <2> HIDE DEF dropped
  <2> QED BY <1>1, <1>2 DEF Watches
<1>4. /\ waits \in Watches /\ waits.counted = w.counted /\ waits.pending = w.current /\ waits.since = SeenSince(w, r)
      /\ waits.len = w.len /\ waits.current = w.current /\ waits.primed = w.primed
      /\ waits.settled = w.settled /\ waits.compacted = w.compacted
  BY <1>1 DEF Watches, SeenSince
<1> PICK u : u = UnseenTurnEnded(w, status, r)
  OBVIOUS
<1> HIDE DEF dropped, adopted, waits
<1> SUFFICES /\ u.watch \in Watches
             /\ u.watch.len = w.len /\ u.watch.current = w.current /\ u.watch.primed = w.primed
             /\ u.watch.settled = w.settled /\ u.watch.compacted = w.compacted
             /\ u.ended <=> Open(w, status) /\ ~Near(w, r) /\ ~Young(w, r)
             /\ Open(w, status) /\ (Near(w, r) \/ ~Young(w, r)) => u.watch.counted = w.current
             /\ ~Open(w, status) \/ (~Near(w, r) /\ Young(w, r)) => u.watch.counted = w.counted
             /\ w.current = 0 => u.watch = w
             /\ w.current # 0 /\ (~Open(w, status) \/ Near(w, r) \/ ~Young(w, r)) => u.watch.pending = 0
             /\ Open(w, status) /\ ~Near(w, r) /\ Young(w, r)
                  => u.watch.pending = w.current /\ u.watch.since = SeenSince(w, r)
  OBVIOUS
<1>5. CASE w.current = 0
  <2>1. u = [watch |-> w, ended |-> FALSE]
    BY <1>5 DEF UnseenTurnEnded
  <2> QED BY <1>5, <2>1 DEF Open
<1>6. CASE w.current # 0 /\ ~Open(w, status)
  <2>1. u = [watch |-> dropped, ended |-> FALSE]
    BY <1>6 DEF UnseenTurnEnded, Open, dropped
  <2> QED BY <1>2, <1>6, <2>1
<1>7. CASE Open(w, status) /\ Near(w, r)
  <2>1. u = [watch |-> adopted, ended |-> FALSE]
    BY <1>7 DEF UnseenTurnEnded, Open, Near, dropped, adopted
  <2> QED BY <1>3, <1>7, <2>1 DEF Open
<1>8. CASE Open(w, status) /\ ~Near(w, r) /\ Young(w, r)
  <2>1. u = [watch |-> waits, ended |-> FALSE]
    BY <1>4, <1>8 DEF UnseenTurnEnded, Open, Near, Young, waits
  <2> QED BY <1>4, <1>8, <2>1 DEF Open
<1>9. CASE Open(w, status) /\ ~Near(w, r) /\ ~Young(w, r)
  <2>1. u = [watch |-> adopted, ended |-> TRUE]
    BY <1>4, <1>9 DEF UnseenTurnEnded, Open, Near, Young, waits, dropped, adopted
  <2> QED BY <1>3, <1>9, <2>1 DEF Open
<1> QED BY <1>5, <1>6, <1>7, <1>8, <1>9

\* The status that a reading leaves: none but the end of a run is held back.
LEMMA ThenDoes ==
  ASSUME SurfaceTypeOK, NEW r \in Readings
  PROVE  LET t == Then(r)
             c == ConfirmRunEnd(r)
             held == thread.status = "thinking" /\ r.state = "finished"
             first == IF heldSince = Never THEN r.age ELSE heldSince
         IN  /\ t \in Threads /\ t.runs = thread.runs /\ c.held \in Never..Old
             /\ Stale(r) => t = thread /\ c.held = heldSince
             /\ ~Stale(r) =>
                  /\ t.owned = (r.state # "none")
                  /\ ~held => /\ c.held = Never
                              /\ r.state = "none" /\ ~thread.owned => t.status = thread.status
                              /\ r.state # "none" \/ thread.owned => t.status = Status(r.state)
                  /\ held => /\ c.held = first
                             /\ first - r.age < Confirm => t.status = "thinking"
                             /\ first - r.age >= Confirm => t.status = "idle"
<1>1. /\ thread.status \in {"idle", "thinking", "waiting"} /\ thread.owned \in BOOLEAN /\ thread.runs \in Nat
      /\ thread \in Threads /\ heldSince \in Never..Old
  BY DEF SurfaceTypeOK, Threads
<1>2. /\ r.age \in 0..MaxDelay /\ r.age \in Never..Old /\ Never \in Never..Old
      /\ r.state \in {"none", "thinking", "finished", "waiting"}
  BY AgentRunsAssumption DEF Readings, Old, Never
<1> PICK c : c = ConfirmRunEnd(r)
  OBVIOUS
<1> PICK t : t = Then(r)
  OBVIOUS
<1>3. t = Deposit(r, c.state)
  BY DEF Then
<1>4. CASE Stale(r)
  <2>1. t = thread /\ c.held = heldSince
    BY <1>3, <1>4 DEF ConfirmRunEnd, Deposit
  <2> QED BY <1>1, <1>4, <2>1
<1>5. ASSUME ~Stale(r), NEW state \in {"none", "thinking", "finished", "waiting"}, c.state = state
      PROVE  /\ t \in Threads /\ t.runs = thread.runs /\ t.owned = (state # "none")
             /\ state = "none" /\ ~thread.owned => t.status = thread.status
             /\ state # "none" \/ thread.owned => t.status = Status(state)
  <2> PICK owned \in BOOLEAN : owned = (state # "none")
    OBVIOUS
  <2> PICK status \in {"idle", "thinking", "waiting"} :
        /\ state = "none" /\ ~thread.owned => status = thread.status
        /\ state # "none" \/ thread.owned => status = Status(state)
    BY <1>1 DEF Status
  <2>1. t = [thread EXCEPT !.owned = owned, !.status = status]
    BY <1>3, <1>5 DEF Deposit
  <2>2. t \in Threads /\ t.runs = thread.runs /\ t.owned = owned /\ t.status = status
    BY <1>1, <2>1 DEF Threads
  <2> QED BY <2>2
<1>6. CASE ~Stale(r) /\ ~(thread.status = "thinking" /\ r.state = "finished")
  <2>1. c.state = r.state /\ c.held = Never
    BY <1>6 DEF ConfirmRunEnd
  <2> QED BY <1>2, <1>5, <1>6, <2>1
<1>7. CASE ~Stale(r) /\ thread.status = "thinking" /\ r.state = "finished"
  <2> PICK first : first = IF heldSince = Never THEN r.age ELSE heldSince
    OBVIOUS
  <2>1. c.held = first /\ first \in Never..Old
    BY <1>1, <1>2, <1>7 DEF ConfirmRunEnd
  <2>2. ASSUME first - r.age < Confirm
        PROVE  t \in Threads /\ t.runs = thread.runs /\ t.owned = TRUE /\ t.status = "thinking"
    <3>1. c.state = "thinking"
      BY <1>7, <2>2 DEF ConfirmRunEnd, Between
    <3> QED BY <1>5, <1>7, <3>1 DEF Status
  <2>3. ASSUME first - r.age >= Confirm
        PROVE  t \in Threads /\ t.runs = thread.runs /\ t.owned = TRUE /\ t.status = "idle"
    <3>1. c.state = "finished"
      BY <1>1, <1>2, <1>7, <2>1, <2>3, AgentRunsAssumption DEF ConfirmRunEnd, Between, Old, Never
    <3> QED BY <1>5, <1>7, <3>1 DEF Status
  <2>4. /\ first \in Int /\ r.age \in Int /\ Confirm \in Int
        /\ first - r.age < Confirm \/ first - r.age >= Confirm
        /\ ~(first - r.age < Confirm /\ first - r.age >= Confirm)
    BY <1>2, <2>1, AgentRunsAssumption DEF Old, Never
  <2>5. t \in Threads /\ t.runs = thread.runs /\ t.owned = TRUE
    BY <2>2, <2>3, <2>4
  <2> HIDE DEF Then
  <2> QED BY <1>7, <2>1, <2>2, <2>3, <2>4, <2>5
<1> QED BY <1>4, <1>6, <1>7

\* Using the reading of who.
LEMMA ApplyDoes ==
  ASSUME SurfaceTypeOK, NEW who \in Sources, Apply(who)
  PROVE  LET r == readings[who]
             t == Then(r)
         IN  /\ r.at = "looked"
             /\ t.status = "thinking" => heldSince' = ConfirmRunEnd(r).held
             /\ t.status # "thinking" => heldSince' = Never
             /\ running' = Running(t.status)
             /\ ~t.owned => watch' = Observe(r)
             /\ t.owned /\ Left(r) => watch' = Settled(Observe(r), r)
             /\ t.owned /\ ~Left(r) => watch' = Unseen(r).watch
             /\ thread' \in Threads /\ thread'.status = t.status /\ thread'.owned = t.owned
             /\ Counts(r) => thread'.runs = thread.runs + 1
             /\ ~Counts(r) => thread'.runs = thread.runs
             /\ watched' = IF ~Stale(r) /\ r.turn > watched THEN r.turn ELSE watched
             /\ covered' \in {covered, r.over, Observe(r).current}
             /\ who = "pass" => timer' = 0
             /\ who = "hook" => timer' = timer
             /\ UNCHANGED <<case, agentVars>>
<1> PICK r \in Readings : r = readings[who]
  BY ReadingFields
<1> PICK t \in Threads : t = Then(r) /\ t.runs = thread.runs
  BY ThenDoes
<1>1. t = Deposit(r, ConfirmRunEnd(r).state)
  BY DEF Then
<1>2. thread' = IF Counts(r) THEN [t EXCEPT !.runs = @ + 1] ELSE t
  BY <1>1 DEF Apply, Counts, Left, Unseen
<1>3. t.runs \in Nat /\ t.runs + 1 \in Nat
  BY DEF Threads
<1> PICK n \in Nat : n = t.runs + 1
  BY <1>3
<1>4. CASE Counts(r)
  <2>1. thread' = [t EXCEPT !.runs = n]
    BY <1>2, <1>4
  <2>2. thread' \in Threads /\ thread'.status = t.status /\ thread'.owned = t.owned /\ thread'.runs = n
    BY <2>1 DEF Threads
  <2> QED BY <1>1, <1>4, <2>2 DEF Apply, Left, Unseen
<1>5. CASE ~Counts(r)
  <2>1. thread' = t
    BY <1>2, <1>5
  <2> QED BY <1>1, <1>5, <2>1 DEF Apply, Left, Unseen
<1> QED BY <1>4, <1>5

\* Ages are told apart up to Old.
LEMMA LaterDoes ==
  ASSUME NEW age \in Never..Old
  PROVE  /\ Later(age) \in Never..Old
         /\ age = Never => Later(age) = Never
         /\ age # Never => Later(age) # Never /\ Later(age) >= age /\ Later(age) <= age + 1
         /\ age # Never /\ age # Old => Later(age) = age + 1
         /\ age = Old => Later(age) = Old
         /\ age \in 0..Old => Later(age) \in 0..Old
BY AgentRunsAssumption DEF Later, Never, Old

\* A second passes for the watch.
LEMMA TickWatch ==
  ASSUME SurfaceTypeOK, Tick
  PROVE  /\ watch' \in Watches
         /\ watch'.len = watch.len /\ watch'.current = watch.current /\ watch'.counted = watch.counted
         /\ watch'.primed = watch.primed /\ watch'.pending = watch.pending
         /\ watch'.compacted = watch.compacted
         /\ watch'.settled = Later(watch.settled)
         /\ watch.pending = 0 => watch'.since = watch.since
         /\ watch.pending # 0 => watch'.since = Later(watch.since)
<1>1. watch \in Watches /\ watch.settled \in Never..Old /\ watch.since \in 0..Old /\ watch.since \in Never..Old
  BY AgentRunsAssumption DEF SurfaceTypeOK, Watches, Never
<1> PICK settled \in Never..Old : settled = Later(watch.settled)
  BY <1>1, LaterDoes
<1> PICK since0 \in 0..Old : since0 = IF watch.pending = 0 THEN watch.since ELSE Later(watch.since)
  BY <1>1, LaterDoes
<1>2. watch' = [watch EXCEPT !.settled = settled, !.since = since0]
  BY DEF Tick
<1>3. /\ watch' \in Watches
      /\ watch'.len = watch.len /\ watch'.current = watch.current /\ watch'.counted = watch.counted
      /\ watch'.primed = watch.primed /\ watch'.pending = watch.pending
      /\ watch'.compacted = watch.compacted
      /\ watch'.settled = settled /\ watch'.since = since0
  BY <1>1, <1>2 DEF Watches
<1> QED BY <1>3

\* The agent's steps keep the types.
LEMMA AgentTyped ==
  ASSUME RunsTyped, AgentStep
  PROVE  RunsTyped'
<1> USE DEF Sends, Ready
<1>1. UNCHANGED <<readings, timer, thread, running, heldSince, watch, covered, watched>>
  BY AgentAlone
<1>2. SurfaceTypeOK'
  BY <1>1 DEF SurfaceTypeOK, RunsTyped
<1>3. /\ over' >= over /\ begun' >= begun /\ begun' <= MaxTurns /\ over' \in Nat /\ begun' \in Nat
      /\ work' = "turn" => begun' = over' + 1
      /\ work' # "turn" => begun' = over'
      /\ due'.what # "none" => work' = "none"
  <2> USE AgentRunsAssumption DEF RunsTyped, AgentTypeOK, TurnsKnown
  <2>1. CASE BeginTurn
    BY <2>1 DEF BeginTurn
  <2>2. CASE UseTool \/ AskQuestion \/ BlipBegins \/ BlipEnds \/ Compact
    BY <2>2 DEF UseTool, AskQuestion, BlipBegins, BlipEnds, Compact
  <2>3. CASE EndTurn
    BY <2>3 DEF EndTurn
  <2>4. CASE Compacted \/ RecordLands
    BY <2>4 DEF Compacted, RecordLands
  <2> QED BY <2>1, <2>2, <2>3, <2>4 DEF AgentStep
<1>4. over' >= over /\ begun' >= begun /\ over' \in Nat /\ begun' \in Nat
  BY <1>3
<1>5. file' \in Files /\ file'.turn <= over'
  <2>1. CASE BeginTurn
    BY <2>1, FileGrows DEF BeginTurn, RunsTyped, AgentTypeOK, TurnsKnown
  <2>2. CASE RecordLands
    BY <2>2 DEF RecordLands, RunsTyped, AgentTypeOK, TurnsKnown, Files
  <2>3. CASE file' = file
    BY <2>3, <1>3 DEF RunsTyped, AgentTypeOK, TurnsKnown, Files
  <2> QED
    BY <2>1, <2>2, <2>3 DEF AgentStep, UseTool, AskQuestion, EndTurn, BlipBegins, BlipEnds, Compact, Compacted
<1>6. AgentTypeOK'
  <2> USE AgentRunsAssumption DEF RunsTyped, AgentTypeOK, AgentStep, BeginTurn, UseTool, AskQuestion, EndTurn,
          BlipBegins, BlipEnds, Compact, Compacted, RecordLands
  <2>1. frame' \in {"none", "prompt", "tool", "notification", "stop"} /\ blip' \in BOOLEAN
    OBVIOUS
  <2>2. since' \in 0..Rest
    OBVIOUS
  <2>3. word' \in {"idle", "busy", "waiting"} /\ work' \in {"none", "turn", "compaction"}
    OBVIOUS
  <2>4. due' \in [what: {"none", "turn", "compaction"}, age: Nat]
    OBVIOUS
  <2> QED BY <1>3, <1>5, <2>1, <2>2, <2>3, <2>4
<1>7. ASSUME NEW r \in Sources
      PROVE  readings'[r].over <= over' /\ readings'[r].tail.turn <= over' /\ readings'[r].turn <= begun'
  <2>1. readings[r].over \in Nat /\ readings[r].tail.turn \in Nat /\ readings[r].turn \in Nat
    BY ReadingFields DEF RunsTyped
  <2>2. readings'[r] = readings[r]
    BY <1>1
  <2>3. readings[r].over <= over /\ readings[r].tail.turn <= over /\ readings[r].turn <= begun
        /\ over \in Nat /\ begun \in Nat
    BY DEF RunsTyped, TurnsKnown, AgentTypeOK
  <2> QED BY <1>4, <2>1, <2>2, <2>3
<1>8. watch'.current <= over' /\ watch'.counted <= over' /\ covered' <= over' /\ watched' <= begun'
  <2>1. covered \in Nat /\ watched \in Nat /\ watch.current \in Nat /\ watch.counted \in Nat
    BY DEF RunsTyped, SurfaceTypeOK, Watches
  <2>2. /\ watch.current <= over /\ watch.counted <= over /\ covered <= over /\ watched <= begun
        /\ over \in Nat /\ begun \in Nat
    BY DEF RunsTyped, TurnsKnown, AgentTypeOK
  <2> QED BY <1>1, <1>4, <2>1, <2>2
<1>9. TurnsKnown'
  BY <1>3, <1>5, <1>7, <1>8 DEF TurnsKnown
<1> QED BY <1>2, <1>6, <1>9 DEF RunsTyped

\* A reading is taken, or begins: the surface stays as it is.
LEMMA ReadingTyped ==
  ASSUME RunsTyped, UNCHANGED <<work, begun, over, due, thread, running, heldSince, watch, covered, watched>>,
         AgentTypeOK', timer' \in 0..Interval, file'.turn = file.turn,
         readings' \in [Sources -> Readings],
         \A r \in Sources : readings'[r].over <= over /\ readings'[r].tail.turn <= over /\ readings'[r].turn <= begun
  PROVE  RunsTyped'
BY DEF RunsTyped, SurfaceTypeOK, TurnsKnown

\* A reading begins and keeps the types.
LEMMA BeginTyped ==
  ASSUME RunsTyped, NEW r \in Sources, Begin(r)
  PROVE  /\ readings' \in [Sources -> Readings]
         /\ \A q \in Sources : readings'[q].over <= over /\ readings'[q].tail.turn <= over /\ readings'[q].turn <= begun
<1>1. over \in Nat /\ begun \in Nat
  BY DEF RunsTyped, AgentTypeOK
<1>2. readings' \in [Sources -> Readings]
  BY BeginDoes DEF RunsTyped
<1>3. readings'[r].over = 0 /\ readings'[r].tail.turn = 0 /\ readings'[r].turn = 0
  <2>1. Empty(readings'[r])
    BY BeginDoes DEF RunsTyped
  <2> QED BY <2>1 DEF Empty, NoTail
<1>4. /\ readings[Other(r)].over <= over /\ readings[Other(r)].tail.turn <= over /\ readings[Other(r)].turn <= begun
      /\ \A q \in Sources : q = r \/ q = Other(r)
  BY OtherIs DEF RunsTyped, TurnsKnown
<1>5. /\ readings'[Other(r)].over <= over /\ readings'[Other(r)].tail.turn <= over
      /\ readings'[Other(r)].turn <= begun
  BY <1>4, BeginDoes DEF RunsTyped, AsLooked
<1> QED BY <1>1, <1>2, <1>3, <1>4, <1>5

\* A reading looks and keeps the types: what it knows is no newer than the turns.
LEMMA LookTyped ==
  ASSUME RunsTyped, NEW r \in Sources, Look(r)
  PROVE  RunsTyped'
<1>1. /\ over \in Nat /\ begun \in Nat /\ file.turn <= over /\ AgentTypeOK /\ SurfaceTypeOK
      /\ \A q \in Sources : readings[q].over <= over /\ readings[q].tail.turn <= over /\ readings[q].turn <= begun
  BY DEF RunsTyped, AgentTypeOK, TurnsKnown
<1>2. readings'[r].over <= over /\ readings'[r].tail.turn <= over /\ readings'[r].turn <= begun
  BY <1>1, LookDoes, TurnEndTyped DEF NoTail
<1>3. \A q \in Sources : readings'[q].over <= over /\ readings'[q].tail.turn <= over /\ readings'[q].turn <= begun
  BY <1>1, <1>2, LookDoes, OtherIs
<1>4. UNCHANGED <<case, agentVars, timer, thread, running, heldSince, watch, covered, watched>>
  BY DEF Look
<1>5. AgentTypeOK' /\ timer' \in 0..Interval
  BY <1>1, <1>4 DEF AgentTypeOK, SurfaceTypeOK, agentVars
<1> QED BY <1>1, <1>3, <1>4, <1>5, LookDoes, ReadingTyped DEF agentVars

\* A reading is used and keeps the types.
LEMMA ApplyTyped ==
  ASSUME RunsTyped, NEW who \in Sources, Apply(who)
  PROVE  RunsTyped'
<1> PICK r \in Readings : r = readings[who]
  BY ReadingFields DEF RunsTyped
<1>1. SurfaceTypeOK /\ AgentTypeOK /\ watch \in Watches /\ thread.runs \in Nat
  BY DEF RunsTyped, SurfaceTypeOK, Threads
<1>2. /\ over \in Nat /\ begun \in Nat /\ r.over <= over /\ r.tail.turn <= over /\ r.turn <= begun
      /\ watch.current <= over /\ watch.counted <= over /\ covered <= over /\ watched <= begun
      /\ r.over \in Nat /\ r.turn \in Nat /\ r.tail.turn \in Nat /\ covered \in Nat /\ watched \in Nat
  BY ReadingFields DEF RunsTyped, AgentTypeOK, TurnsKnown, SurfaceTypeOK
<1>3. UNCHANGED <<case, agentVars>>
  BY <1>1, ApplyDoes
<1>4. AgentTypeOK'
  BY <1>1, <1>3 DEF AgentTypeOK, agentVars
<1> PICK w \in Watches : w = Observe(r)
  BY <1>1, ObserveDoes
<1>5. w.current <= over /\ w.counted <= over /\ w.current \in Nat
  BY <1>1, <1>2, ObserveDoes DEF Watches
<1>6. /\ watch' \in Watches /\ watch'.current = w.current
      /\ watch'.counted = w.counted \/ watch'.counted = w.current
  <2>1. CASE ~Then(r).owned
    BY <1>1, <2>1, ApplyDoes
  <2>2. CASE Then(r).owned /\ Left(r)
    <3>1. watch' = Settled(w, r)
      BY <1>1, <2>2, ApplyDoes
    <3> QED BY <3>1, SettledDoes
  <2>3. CASE Then(r).owned /\ ~Left(r)
    BY <1>1, <2>3, ApplyDoes, UnseenDoes DEF Unseen
  <2> QED BY <2>1, <2>2, <2>3
<1>7. /\ thread' \in Threads /\ heldSince' \in Never..Old /\ timer' \in 0..Interval
      /\ running' \in BOOLEAN /\ watched' \in Nat /\ watched' <= begun /\ covered' \in Nat /\ covered' <= over
  <2>1. thread' \in Threads /\ running' \in BOOLEAN
    BY <1>1, ApplyDoes DEF Running, SurfaceTypeOK
  <2>2. heldSince' \in Never..Old
    BY <1>1, ApplyDoes, ThenDoes, AgentRunsAssumption DEF Never, Old
  <2>3. timer' \in 0..Interval
    BY <1>1, ApplyDoes, AgentRunsAssumption DEF SurfaceTypeOK, Sources
  <2>4. watched' \in Nat /\ watched' <= begun
    BY <1>1, <1>2, ApplyDoes
  <2>5. covered' \in Nat /\ covered' <= over
    BY <1>1, <1>2, <1>5, ApplyDoes
  <2> QED BY <2>1, <2>2, <2>3, <2>4, <2>5
<1>8. readings' \in [Sources -> Readings]
  BY <1>1, ApplyLeaves
<1>9. ASSUME NEW q \in Sources
      PROVE  readings'[q].over <= over /\ readings'[q].tail.turn <= over /\ readings'[q].turn <= begun
  <2>1. CASE q = who
    BY <1>1, <1>2, <2>1, ApplyLeaves, NoReadingTyped
  <2>2. CASE q = Other(who)
    <3>1. readings[q].over <= over /\ readings[q].tail.turn <= over /\ readings[q].turn <= begun
      BY DEF RunsTyped, TurnsKnown
    <3> QED BY <1>1, <2>2, <3>1, ApplyLeaves DEF AsLooked
  <2> QED BY <2>1, <2>2, OtherIs
<1>10. SurfaceTypeOK'
  BY <1>6, <1>7, <1>8 DEF SurfaceTypeOK
<1>11. watch'.current <= over /\ watch'.counted <= over
  BY <1>5, <1>6
<1>12. TurnsKnown'
  BY <1>3, <1>7, <1>9, <1>11 DEF TurnsKnown, RunsTyped, agentVars
<1> QED BY <1>4, <1>10, <1>12 DEF RunsTyped

\* A second passes and keeps the types.
LEMMA TickTyped ==
  ASSUME RunsTyped, Tick
  PROVE  RunsTyped'
<1>1. UNCHANGED <<case, word, work, begun, over, blip, file, frame, thread, running, covered, watched>>
  BY DEF Tick
<1>2. since' \in 0..Rest /\ timer' \in 0..Interval
  BY AgentRunsAssumption DEF Tick, RunsTyped, AgentTypeOK, SurfaceTypeOK
<1>3. due' \in [what: {"none", "turn", "compaction"}, age: Nat] /\ due'.what = due.what
  <2>1. due \in [what: {"none", "turn", "compaction"}, age: Nat]
    BY DEF RunsTyped, AgentTypeOK
  <2> PICK n \in Nat : n = due.age + 1
    BY <2>1
  <2>2. due' = IF due.what # "none" THEN [due EXCEPT !.age = n] ELSE due
    BY DEF Tick
  <2> QED BY <2>1, <2>2
<1>4. heldSince' \in Never..Old
  BY LaterDoes DEF Tick, RunsTyped, SurfaceTypeOK
<1>5. AgentTypeOK'
  BY <1>1, <1>2, <1>3 DEF RunsTyped, AgentTypeOK
<1>6. SurfaceTypeOK'
  BY <1>1, <1>2, <1>4, TickAges, TickWatch DEF RunsTyped, SurfaceTypeOK
<1>7. TurnsKnown'
  <2>1. \A r \in Sources : readings'[r].over = readings[r].over /\ readings'[r].tail = readings[r].tail
                           /\ readings'[r].turn = readings[r].turn
    BY TickAges DEF RunsTyped
  <2>2. watch'.current = watch.current /\ watch'.counted = watch.counted
    BY TickWatch DEF RunsTyped
  <2> QED BY <1>1, <1>3, <2>1, <2>2 DEF RunsTyped, TurnsKnown
<1> QED BY <1>5, <1>6, <1>7 DEF RunsTyped

\* A frame is delivered and keeps the types.
LEMMA DeliverTyped ==
  ASSUME RunsTyped, Deliver
  PROVE  RunsTyped'
<1>1. UNCHANGED <<case, word, work, begun, over, blip, since, due, file, timer, running, heldSince, watch, watched>>
      /\ frame' = "none"
  BY DEF Deliver
<1>2. AgentTypeOK'
  BY <1>1 DEF RunsTyped, AgentTypeOK
<1>3. CASE Accelerate
  <2>1. thread' = thread /\ covered' = covered
    BY <1>3 DEF Accelerate
  <2>2. /\ readings' \in [Sources -> Readings]
        /\ \A q \in Sources : readings'[q].over <= over /\ readings'[q].tail.turn <= over
                              /\ readings'[q].turn <= begun
    <3>1. CASE UNCHANGED readings
      BY <3>1 DEF RunsTyped, TurnsKnown, SurfaceTypeOK
    <3>2. CASE Begin("hook")
      BY <3>2, BeginTyped DEF Sources
    <3> QED BY <1>3, <3>1, <3>2 DEF Accelerate
  <2> QED BY <1>1, <1>2, <2>1, <2>2, ReadingTyped DEF RunsTyped, SurfaceTypeOK
<1>4. CASE HookSpeaks
  <2>1. thread' \in Threads
    <3> PICK status \in {"idle", "thinking", "waiting"} :
          status = CASE frame = "stop" -> "idle" [] frame = "notification" -> "waiting" [] OTHER -> "thinking"
      OBVIOUS
    <3>1. thread \in Threads /\ thread.runs \in Nat /\ thread.runs + 1 \in Nat
      BY DEF RunsTyped, SurfaceTypeOK, Threads
    <3> PICK runs \in Nat : runs = IF frame = "stop" THEN thread.runs + 1 ELSE thread.runs
      BY <3>1
    <3>2. thread' = [thread EXCEPT !.status = status, !.runs = runs]
      BY <1>4 DEF HookSpeaks
    <3> QED BY <3>1, <3>2 DEF Threads
  <2>2. readings' = readings /\ covered' \in {over, covered}
    BY <1>4 DEF HookSpeaks
  <2>3. covered' \in Nat /\ covered' <= over
    BY <2>2 DEF RunsTyped, SurfaceTypeOK, AgentTypeOK, TurnsKnown
  <2>4. SurfaceTypeOK'
    BY <1>1, <2>1, <2>2, <2>3 DEF RunsTyped, SurfaceTypeOK
  <2>5. TurnsKnown'
    BY <1>1, <2>2, <2>3 DEF RunsTyped, TurnsKnown
  <2> QED BY <1>2, <2>4, <2>5 DEF RunsTyped
<1> QED BY <1>3, <1>4 DEF Deliver

\* Every step keeps the types.
LEMMA TypedNext ==
  ASSUME RunsTyped, [RunsNext]_runsVars
  PROVE  RunsTyped'
<1>1. CASE AgentStep
  BY <1>1, AgentTyped
<1>2. CASE BeginPass
  <2>1. UNCHANGED <<case, agentVars, timer, thread, running, heldSince, watch, covered, watched>> /\ Begin("pass")
    BY <1>2 DEF BeginPass
  <2>2. AgentTypeOK' /\ timer' \in 0..Interval
    BY <2>1 DEF RunsTyped, AgentTypeOK, SurfaceTypeOK, agentVars
  <2> QED BY <2>1, <2>2, BeginTyped, ReadingTyped DEF Sources, agentVars
<1>3. CASE Tick
  BY <1>3, TickTyped
<1>4. CASE Deliver
  BY <1>4, DeliverTyped
<1>5. ASSUME NEW r \in Sources, Look(r) \/ Apply(r) PROVE RunsTyped'
  BY <1>5, LookTyped, ApplyTyped
<1>6. CASE UNCHANGED runsVars
  BY <1>6 DEF runsVars, agentVars, windowVars, RunsTyped, AgentTypeOK, SurfaceTypeOK, TurnsKnown
<1> QED BY <1>1, <1>2, <1>3, <1>4, <1>5, <1>6 DEF RunsNext, GoesOn, AgentStep, Sources

\* The types hold in the beginning.
LEMMA TypedInit == RunsInit => RunsTyped
<1> SUFFICES ASSUME RunsInit PROVE RunsTyped
  OBVIOUS
<1>1. AgentTypeOK
  <2>1. file \in Files /\ due \in [what: {"none", "turn", "compaction"}, age: Nat]
    BY DEF RunsInit, Files
  <2>2. since \in 0..Rest
    BY AgentRunsAssumption DEF RunsInit
  <2> QED BY <2>1, <2>2 DEF RunsInit, AgentTypeOK
<1>2. \A r \in Sources : readings[r] = NoReading
  BY DEF RunsInit, Sources
<1>3. SurfaceTypeOK
  <2>1. readings \in [Sources -> Readings]
    BY NoReadingTyped DEF RunsInit, Sources
  <2>2. Never \in Never..Old /\ 0 \in 0..Old /\ Interval \in 0..Interval
    BY AgentRunsAssumption DEF Never, Old
  <2>3. watch \in Watches /\ thread \in Threads
    BY <2>2 DEF RunsInit, Watches, Threads
  <2> QED BY <2>1, <2>2, <2>3 DEF RunsInit, SurfaceTypeOK
<1>4. TurnsKnown
  BY <1>2, NoReadingTyped, AgentRunsAssumption DEF RunsInit, TurnsKnown
<1> QED BY <1>1, <1>3, <1>4 DEF RunsTyped

\* Types this exact are the types the run checks.
LEMMA TypedTypeOK == RunsTyped => RunsTypeOK
BY AgentRunsAssumption
   DEF RunsTyped, RunsTypeOK, AgentTypeOK, SurfaceTypeOK, TurnsKnown, Threads, Watches

\* Every field has its type, whatever surface it is and however long a reading takes.
THEOREM RunsTypeAlways == RunsSpec => []RunsTypeOK
BY TypedTypeOK, TypedInit, TypedNext, PTL DEF RunsSpec

(***************************************************************************)
(* The count is never ahead of the turns that have ended, when a reading   *)
(* and the agent's records come soon enough.                               *)
(***************************************************************************)
\* Two passes see every end within the time an end must stay true, no blip
\* lasts that long, and the agent rests longer before it compacts.
Timely ==
    /\ MaxDelay < Interval /\ Interval + 3 * MaxDelay + MaxLag < Confirm
    /\ MaxBlip + MaxDelay < Confirm /\ Confirm <= Rest
Plain == ~HandsOver /\ ~Unheld

Pass == readings["pass"]
Hook == readings["hook"]
Looked(x) == x.at = "looked"
Started(x) == x.at = "begun"
Hooks == "hooks" \in case
KeepsStatus == "status" \in case
Idling == thread.status = "idle"
Thinking == thread.status = "thinking"
Busy == work = "turn" /\ word = "busy"
Lately == work = "compaction" \/ due.what = "compaction" \/ file.compacted

\* The agent and its file.
Words == word # "waiting" /\ (work = "none" => word = "idle") /\ (work = "compaction" => word = "busy")
Dues == due.what # "none" => work = "none" /\ since = due.age /\ due.age <= MaxLag
Landed ==
    /\ due.what = "turn" => over > 0 /\ file.turn = over - 1
    /\ due.what # "turn" => file.turn = over
Compacts == (file.compacted => work = "none" /\ due.what = "none") /\ (Lately => over > 0)
Blips == InBlip => since <= MaxBlip
Begins == (begun > 0 => file.len > 0) /\ (begun = 0 => file.len = 0)
AgentOK == Words /\ Dues /\ Landed /\ Compacts /\ Blips /\ Begins

\* What the hooks tell, and of whom.
Frames == frame # "none" => Hooks /\ begun > 0 /\ (work = "turn" \/ (work = "none" /\ since = 0 /\ ~Lately))
Asked ==
    /\ Hook.at # "none" =>
          Hooks /\ begun > 0 /\ (work = "turn" \/ (work = "none" /\ since <= Hook.age /\ ~Lately))
    /\ Pass.older => Hooks
Owned == (Hooks /\ begun > 0 => thread.owned) /\ (Hooks /\ thread.owned => KeepsStatus /\ watch.primed)
Unowned == Hooks /\ ~thread.owned =>
    /\ Started(Pass) => Pass.known = Never
    /\ Looked(Pass) /\ KeepsStatus => Pass.state = "finished" /\ HasTail(Pass)
    /\ Looked(Pass) /\ ~KeepsStatus => Pass.state = "none"
ToldOK == Frames /\ Asked /\ Owned /\ Unowned

\* A reading is of a file that has not grown shorter.
Steps(x) ==
    /\ x.at = "none" => ~x.older /\ ~x.stale /\ x.age = 0
    /\ x.stale => x.older
    /\ ~Looked(x) => ~HasTail(x) /\ x.state = "none"
    /\ ~Started(x) => x.known = Never
Lengths(x) ==
    /\ x.known <= file.len
    /\ HasTail(x) => x.tail.len <= file.len /\ x.tail.turn <= file.turn /\ x.tail.turn <= x.over
Newest(x) ==
    HasTail(x) /\ x.tail.len = file.len => x.tail.turn = file.turn /\ (x.tail.compacted <=> file.compacted)
Says(x) == x.state # "waiting" /\ (Looked(x) /\ x.state = "none" => ~KeepsStatus /\ ~thread.owned /\ ~HasTail(x))
ReadOK(x) == Steps(x) /\ Lengths(x) /\ Newest(x) /\ Says(x)

\* Where the agent keeps no status file its transcript tells the status.
Transcript ==
    ~KeepsStatus =>
       /\ thread.owned => file.len > 0
       /\ Looked(Pass) /\ Pass.state # "none" => HasTail(Pass)
       /\ HasTail(Pass) => Pass.tail.len > 0
       /\ Looked(Pass) /\ Pass.state = "finished" => Pass.tail.turn = Pass.over
NoCut == Hook.tail.compacted => HasTail(Hook) /\ Hook.tail.turn = Hook.over /\ Hook.over > 0

\* Of the two readings the older is taken first, and knows less.
Ranked == Pass.at # "none" /\ Hook.at # "none" => (Pass.older <=> ~Hook.older)
Late == Hook.stale => Pass.at = "none" /\ timer <= Hook.age
Precedes(x, y) == x.older =>
    /\ Looked(y) => ~Started(x)
    /\ Looked(x) /\ Looked(y) => x.over <= y.over
    /\ y.at # "none" => y.age <= x.age
    /\ HasTail(x) /\ HasTail(y) => x.tail.turn <= y.tail.turn /\ x.tail.len <= y.tail.len
InOrder == Ranked /\ Late /\ Precedes(Pass, Hook) /\ Precedes(Hook, Pass)

\* The surface and its watch.
Statuses == thread.status # "waiting" /\ (running <=> Thinking)
Holds == heldSince # Never => Thinking
Unread == ~thread.owned => Idling /\ thread.runs = 0 /\ ~watch.primed
Unprimed == ~watch.primed => watch.len = Never /\ watch.counted = 0 /\ watch.current = 0 /\ ~watch.compacted
WatchNewest ==
    /\ watch.len <= file.len
    /\ watch.len = file.len => watch.current = file.turn /\ (watch.compacted <=> file.compacted)
WatchTurns == watch.counted <= file.turn /\ watch.current <= file.turn
Pending == watch.pending # 0 => watch.pending = watch.current /\ watch.counted < watch.current /\ Idling
InTurn == Idling => watch.counted <= watch.current
SurfaceOK == Statuses /\ Holds /\ Unread /\ Unprimed /\ WatchNewest /\ WatchTurns /\ Pending /\ InTurn

\* The watch is behind the readings under way.
Behind(x) == HasTail(x) /\ ~x.stale => watch.len <= x.tail.len /\ watch.current <= x.tail.turn
BehindHook == Looked(Hook) /\ ~Hook.stale => watch.current <= Hook.over
Pended(x) == watch.pending # 0 /\ watch.since > x.age
PendedTail(x) == Pended(x) /\ HasTail(x) => watch.pending <= x.tail.turn
PendedHook == Pended(Hook) /\ Looked(Hook) => watch.pending <= Hook.over
Unpassed == Behind(Pass) /\ Behind(Hook) /\ BehindHook /\ PendedTail(Pass) /\ PendedTail(Hook) /\ PendedHook

\* A turn that is counted ahead of its record is counted lately.
SincePass == timer + (IF Pass.at = "none" THEN 0 ELSE Pass.age)
Within(time) == watch.settled # Never /\ watch.settled <= time
InFile == thread.runs <= watch.counted /\ thread.runs <= watch.current
Same(x) == (Started(x) /\ x.known = file.len) \/ (Looked(x) /\ ~HasTail(x) /\ x.state = "finished")
GraceIdle == Idling => InFile \/ Within(SincePass + 2 * MaxDelay + MaxLag)
GraceDue == due.what = "turn" /\ thread.runs = over => Within(since + MaxDelay)
GraceNone == ~KeepsStatus => thread.runs <= file.turn
GraceTail(x) == HasTail(x) => thread.runs <= x.tail.turn \/ Within(MaxDelay + MaxLag + x.age)
GraceCount(x) == HasTail(x) => watch.counted <= x.tail.turn \/ Near(watch, x)
GracePass == Same(Pass) => thread.runs <= watch.current \/ Within(MaxDelay + MaxLag + Pass.age)
GraceOlder == Same(Hook) /\ Pass.older => thread.runs <= watch.current \/ Within(MaxDelay + MaxLag + Pass.age)
GraceHook ==
    Same(Hook) /\ ~Hook.stale => thread.runs <= watch.current \/ Within(SincePass + 2 * MaxDelay + MaxLag)
GraceStale == Pass.stale /\ Idling => InFile \/ Within(MaxDelay + MaxLag + Pass.age)
Grace ==
    /\ GraceIdle /\ GraceDue /\ GraceNone /\ GraceTail(Pass) /\ GraceTail(Hook) /\ GraceCount(Pass)
    /\ GraceCount(Hook) /\ GracePass /\ GraceOlder /\ GraceHook /\ GraceStale

\* When the agent has rested for long the window knows all it did.
Calm == Lately \/ (work = "none" /\ since > Pass.age + MaxLag + MaxDelay)
Rested == Lately \/ (work = "none" /\ since > SincePass + MaxLag + 2 * MaxDelay)
CalmKnown == Calm => ~Pass.stale /\ (Started(Pass) => Pass.known = watch.len)
CalmTail == Calm /\ HasTail(Pass) => Pass.tail.turn = over
CalmSame ==
    Calm /\ Looked(Pass) /\ ~HasTail(Pass) /\ Pass.state = "finished" => watch.current = over /\ (over > 0 => watch.primed)
CalmThinks == Calm /\ Pass.state = "thinking" => Lately /\ KeepsStatus
CalmNone == Calm /\ Looked(Pass) /\ Pass.state = "none" => over = 0
RestedWatch == Rested => watch.current = over /\ (over > 0 => watch.primed)
RestedCount == Rested /\ Idling => thread.runs < over \/ watch.counted = over
AtRest == CalmKnown /\ CalmTail /\ CalmSame /\ CalmThinks /\ CalmNone /\ RestedWatch /\ RestedCount

\* Where a run goes on after its turn there is a turn to count, or a compaction ends it.
Owes ==
    \/ thread.runs < over
    \/ KeepsStatus /\ Lately /\ watch.primed /\ watch.counted = over /\ watch.current = over
OwesThread == Thinking /\ work # "turn" => Owes
OwesRead(x) == x.state = "thinking" /\ ~x.stale /\ work # "turn" => Owes
OwesNewer(x, y) == x.state = "thinking" /\ ~x.older /\ y.at # "none" => work = "turn" \/ x.over < over
Owing ==
    /\ OwesThread /\ OwesRead(Pass) /\ OwesRead(Hook) /\ OwesNewer(Pass, Hook) /\ OwesNewer(Hook, Pass)

\* An end that has been held for long is the end of a turn that is not counted.
Long(x) == heldSince # Never /\ heldSince - x.age >= Confirm
Quiet == EndedOnCompaction(Observe(Pass))
HeldBlip == InBlip => heldSince <= since + MaxDelay
HeldBusy == Busy /\ since > SincePass + MaxDelay => heldSince = Never
HeldRead(x) == Busy /\ since > x.age /\ Looked(x) => x.state = "thinking"
HeldStale == Busy /\ since > Pass.age /\ Pass.stale => heldSince = Never
HeldCompact ==
    work = "compaction" /\ Thinking /\ thread.runs = over =>
       heldSince = Never /\ (Looked(Pass) => Pass.state = "thinking")
HeldNone == work = "none" /\ Thinking /\ thread.runs = over => heldSince <= since + MaxDelay
HeldHook == Hook.state = "finished" /\ ~Hook.stale /\ Thinking /\ Long(Hook) => thread.runs < Hook.over
HeldPass ==
    Pass.state = "finished" /\ ~Pass.stale /\ Thinking /\ Long(Pass) =>
       thread.runs < Pass.over \/ (Quiet /\ ~Hook.older)
Held ==
    /\ HeldBlip /\ HeldBusy /\ HeldRead(Pass) /\ HeldRead(Hook) /\ HeldStale /\ HeldCompact /\ HeldNone
    /\ HeldHook /\ HeldPass

Counted ==
    /\ AgentOK /\ ToldOK /\ ReadOK(Pass) /\ ReadOK(Hook) /\ Transcript /\ NoCut /\ InOrder /\ SurfaceOK
    /\ Unpassed /\ Grace /\ AtRest /\ Owing /\ Held /\ RunsAreTurns

\* The numbers among them.
Numbers ==
    /\ Confirm \in Nat /\ Interval \in Nat /\ Rest \in Nat /\ MaxDelay \in Nat /\ MaxBlip \in Nat /\ MaxLag \in Nat
    /\ over \in Nat /\ begun \in Nat /\ since \in Nat /\ due.age \in Nat /\ file.len \in Nat /\ file.turn \in Nat
    /\ thread.runs \in Nat /\ heldSince \in Int /\ heldSince >= 0 - 1 /\ heldSince <= Confirm + MaxDelay
    /\ since <= Rest /\ timer \in Nat /\ timer <= Interval
    /\ watch.len \in Int /\ watch.len >= 0 - 1 /\ watch.current \in Nat /\ watch.counted \in Nat
    /\ watch.settled \in Int /\ watch.settled >= 0 - 1 /\ watch.settled <= Confirm + MaxDelay
    /\ watch.pending \in Nat /\ watch.since \in Nat /\ watch.since <= Confirm + MaxDelay
Sizes(x) ==
    /\ x.age \in Nat /\ x.age <= MaxDelay /\ x.known \in Int /\ x.known >= 0 - 1 /\ x.over \in Nat /\ x.over <= over
    /\ x.tail.len \in Int /\ x.tail.len >= 0 - 1 /\ x.tail.turn \in Nat
    /\ x.state \in {"none", "thinking", "finished", "waiting"} /\ x.at \in {"none", "begun", "looked"}
Measured ==
    /\ Numbers /\ Sizes(Pass) /\ Sizes(Hook)
    /\ work = "turn" => begun = over + 1
    /\ work # "turn" => begun = over
    /\ work \in {"none", "turn", "compaction"} /\ word \in {"idle", "busy", "waiting"}
    /\ due.what \in {"none", "turn", "compaction"}
    /\ thread.status \in {"idle", "thinking", "waiting"}

\* The types, said of numbers.
LEMMA MeasuredTyped == RunsTyped => Measured
<1> SUFFICES ASSUME RunsTyped PROVE Measured
  OBVIOUS
<1>1. Pass \in Readings /\ Hook \in Readings /\ Pass.tail \in Tails /\ Hook.tail \in Tails
  BY ReadingFields DEF RunsTyped, Pass, Hook, Sources
<1>2. Sizes(Pass) /\ Sizes(Hook)
  <2>1. Pass.over <= over /\ Hook.over <= over
    BY DEF RunsTyped, TurnsKnown, Pass, Hook, Sources
  <2> QED BY <1>1, <2>1, AgentRunsAssumption DEF Sizes, Readings, Tails, Never
<1>3. Numbers
  <2>1. /\ over \in Nat /\ begun \in Nat /\ since \in Nat /\ due.age \in Nat /\ file.len \in Nat /\ file.turn \in Nat
        /\ timer \in Nat /\ timer <= Interval /\ since <= Rest
    BY AgentRunsAssumption DEF RunsTyped, AgentTypeOK, SurfaceTypeOK, Files
  <2>2. thread.runs \in Nat /\ heldSince \in Int /\ heldSince >= 0 - 1 /\ heldSince <= Confirm + MaxDelay
    BY AgentRunsAssumption DEF RunsTyped, SurfaceTypeOK, Threads, Never, Old
  <2>3. /\ watch.len \in Int /\ watch.len >= 0 - 1 /\ watch.current \in Nat /\ watch.counted \in Nat
        /\ watch.settled \in Int /\ watch.settled >= 0 - 1 /\ watch.settled <= Confirm + MaxDelay
        /\ watch.pending \in Nat /\ watch.since \in Nat /\ watch.since <= Confirm + MaxDelay
    BY AgentRunsAssumption DEF RunsTyped, SurfaceTypeOK, Watches, Never, Old
  <2> QED BY <2>1, <2>2, <2>3, AgentRunsAssumption DEF Numbers
<1> QED BY <1>2, <1>3 DEF Measured, RunsTyped, TurnsKnown, AgentTypeOK, SurfaceTypeOK, Threads

\* When the pass finds a run that ended on a compaction.
Quietly ==
    /\ HasTail(Pass) =>
         (Quiet <=> /\ Pass.tail.compacted
                    /\ (IF watch.primed THEN watch.counted ELSE Pass.tail.turn) =
                       (IF Pass.tail.turn # 0 THEN Pass.tail.turn ELSE watch.current))
    /\ ~HasTail(Pass) => (Quiet <=> watch.compacted /\ watch.primed /\ watch.counted = watch.current)

\* The same of the fields of the reading and of the watch.
LEMMA QuietFields == RunsTyped => Quietly
<1> SUFFICES ASSUME RunsTyped PROVE Quietly
  OBVIOUS
<1>1. Pass \in Readings /\ watch \in Watches
  BY ReadingFields DEF RunsTyped, SurfaceTypeOK, Pass, Sources
<1> PICK w : w = Observe(Pass)
  OBVIOUS
<1>2. CASE HasTail(Pass)
  <2>1. /\ w.compacted = Pass.tail.compacted /\ w.primed = TRUE
        /\ watch.primed => w.counted = watch.counted
        /\ ~watch.primed => w.counted = Pass.tail.turn
        /\ Pass.tail.turn # 0 => w.current = Pass.tail.turn
        /\ Pass.tail.turn = 0 => w.current = watch.current
    BY <1>1, <1>2, ObserveDoes
  <2>2. Quiet <=> w.compacted /\ w.primed /\ w.counted = w.current
    BY DEF Quiet, EndedOnCompaction
  <2> QED BY <1>2, <2>1, <2>2 DEF Quietly
<1>3. CASE ~HasTail(Pass)
  BY <1>3 DEF Quiet, Quietly, EndedOnCompaction, Observe, HasTail
<1> QED BY <1>2, <1>3

(***************************************************************************)
(* What using a reading comes to where no case is special.                 *)
(***************************************************************************)
First(x) == IF heldSince = Never THEN x.age ELSE heldSince
Drops(x) == watch'.counted = Observe(x).counted /\ watch'.settled = watch.settled /\ watch'.pending = 0
Adopts == watch'.counted = watch'.current /\ watch'.settled = watch.settled /\ watch'.pending = 0
Pends(x) ==
    /\ watch'.counted = Observe(x).counted /\ watch'.settled = watch.settled
    /\ watch'.pending = watch'.current
    /\ watch.pending = watch'.current => watch'.since = watch.since
    /\ watch.pending # watch'.current => watch'.since = x.age
Settles(x) == watch'.counted = watch'.current /\ watch'.settled = x.age /\ watch'.pending = 0 /\ watch'.primed

Observes(x) ==
    /\ watch.primed => watch'.primed
    /\ ~HasTail(x) => /\ watch'.len = watch.len /\ watch'.compacted = watch.compacted
                      /\ watch'.current = watch.current /\ Observe(x).counted = watch.counted
    /\ HasTail(x) =>
          /\ watch'.len = x.tail.len /\ watch'.compacted = x.tail.compacted /\ watch'.primed
          /\ x.tail.turn # 0 => watch'.current = x.tail.turn
          /\ x.tail.turn = 0 => watch'.current = watch.current
          /\ watch.primed => Observe(x).counted = watch.counted
          /\ ~watch.primed => Observe(x).counted = x.tail.turn
Silent(x) ==
    /\ x.state = "none" /\ ~thread'.owned /\ Idling' /\ thread'.runs = thread.runs
    /\ Drops(x) /\ watch'.primed = watch.primed
Works(x) ==
    /\ thread'.owned /\ Thinking' /\ thread'.runs = thread.runs /\ Drops(x)
    /\ \/ Stale(x) /\ Thinking /\ heldSince' = heldSince
       \/ ~Stale(x) /\ x.state = "thinking" /\ heldSince' = Never
       \/ ~Stale(x) /\ x.state = "finished" /\ Thinking /\ First(x) - x.age < Confirm /\ heldSince' = First(x)
Finishes(x) ==
    /\ ~Stale(x) /\ x.state = "finished" /\ Thinking /\ Long(x)
    /\ thread'.owned /\ Idling'
    /\ \/ ~EndedOnCompaction(Observe(x)) /\ thread'.runs = thread.runs + 1 /\ Settles(x)
       \/ /\ EndedOnCompaction(Observe(x)) /\ Observe(x).counted = watch'.current
          /\ thread'.runs = thread.runs /\ Drops(x)
Rests(x) ==
    /\ Stale(x) \/ x.state = "finished"
    /\ Idling /\ thread'.owned /\ Idling'
    /\ \/ /\ Observe(x).counted = watch'.current \/ watch'.current = 0
          /\ thread'.runs = thread.runs /\ Drops(x)
       \/ /\ Observe(x).counted # watch'.current /\ watch'.current # 0
          /\ \/ Near(watch, x) /\ thread'.runs = thread.runs /\ Adopts
             \/ ~Near(watch, x) /\ thread'.runs = thread.runs /\ Pends(x)
             \/ /\ ~Near(watch, x) /\ thread'.runs = thread.runs + 1 /\ Adopts
                /\ watch.pending = watch'.current /\ watch.since - x.age >= Confirm
Uses(x) ==
    /\ Looked(x) /\ Observes(x)
    /\ (Idling' => heldSince' = Never) /\ (running' <=> Thinking') /\ thread'.status \in {"idle", "thinking"}
    /\ Silent(x) \/ Works(x) \/ Finishes(x) \/ Rests(x)

\* Using a reading whose word is not waiting comes to these.
LEMMA UsesPlain ==
  ASSUME RunsTyped, Counted, Timely, NEW who \in Sources, Apply(who)
  PROVE  Uses(readings[who])
<1> PICK x \in Readings : x = readings[who]
  BY ReadingFields DEF RunsTyped
<1>1. /\ SurfaceTypeOK /\ watch \in Watches /\ thread \in Threads /\ Confirm \in Nat \ {0} /\ MaxDelay \in Nat
      /\ x.age \in 0..MaxDelay /\ heldSince \in Never..Old
  BY AgentRunsAssumption DEF RunsTyped, SurfaceTypeOK, Readings
<1>2. ReadOK(x)
  BY OtherIs DEF Counted, Pass, Hook, Sources
<1>3. /\ Says(x) /\ Statuses /\ Holds /\ Unread /\ Unprimed /\ Pending
  BY <1>2 DEF Counted, SurfaceOK, ReadOK
<1> PICK w \in Watches : w = Observe(x)
  BY <1>1, ObserveDoes
<1> PICK t \in Threads : t = Then(x)
  BY <1>1, ThenDoes
<1> PICK c : c = ConfirmRunEnd(x)
  OBVIOUS
<1>4. /\ Looked(x) /\ thread' \in Threads /\ thread'.status = t.status /\ thread'.owned = t.owned
      /\ running' = Running(t.status)
      /\ t.status = "thinking" => heldSince' = c.held
      /\ t.status # "thinking" => heldSince' = Never
      /\ Counts(x) => thread'.runs = thread.runs + 1
      /\ ~Counts(x) => thread'.runs = thread.runs
  BY <1>1, ApplyDoes DEF Looked
<1>5. /\ ~t.owned => watch' = w
      /\ t.owned /\ Left(x) => watch' = Settled(w, x)
      /\ t.owned /\ ~Left(x) => watch' = Unseen(x).watch
  BY <1>1, ApplyDoes
<1>6. /\ w.settled = watch.settled /\ w.pending = watch.pending /\ w.since = watch.since
      /\ ~HasTail(x) => w = watch
      /\ HasTail(x) =>
            /\ w.len = x.tail.len /\ w.compacted = x.tail.compacted /\ w.primed = TRUE
            /\ watch.primed => w.counted = watch.counted
            /\ ~watch.primed => w.counted = x.tail.turn
            /\ x.tail.turn # 0 => w.current = x.tail.turn
            /\ x.tail.turn = 0 => w.current = watch.current
  BY <1>1, ObserveDoes
<1>7. /\ Stale(x) => t = thread /\ c.held = heldSince
      /\ ~Stale(x) /\ ~(Thinking /\ x.state = "finished") =>
            /\ t.owned = (x.state # "none") /\ c.held = Never
            /\ x.state = "none" /\ ~thread.owned => t.status = thread.status
            /\ x.state # "none" => t.status = Status(x.state)
      /\ ~Stale(x) /\ Thinking /\ x.state = "finished" =>
            /\ t.owned = TRUE /\ c.held = First(x)
            /\ First(x) - x.age < Confirm => t.status = "thinking"
            /\ First(x) - x.age >= Confirm => t.status = "idle"
  BY <1>1, ThenDoes DEF Thinking, First
<1>8. Left(x) <=> running /\ t.status = "idle" /\ ~EndedOnCompaction(w)
  BY DEF Left
<1>9. LET v == Unseen(x).watch
      IN  /\ v \in Watches /\ v.len = w.len /\ v.current = w.current /\ v.primed = w.primed
          /\ v.settled = w.settled /\ v.compacted = w.compacted
          /\ Unseen(x).ended <=> Open(w, t.status) /\ ~Near(w, x) /\ ~Young(w, x)
          /\ Open(w, t.status) /\ (Near(w, x) \/ ~Young(w, x)) => v.counted = w.current
          /\ ~Open(w, t.status) \/ (~Near(w, x) /\ Young(w, x)) => v.counted = w.counted
          /\ w.current = 0 => v = w
          /\ w.current # 0 /\ (~Open(w, t.status) \/ Near(w, x) \/ ~Young(w, x)) => v.pending = 0
          /\ Open(w, t.status) /\ ~Near(w, x) /\ Young(w, x) => v.pending = w.current /\ v.since = SeenSince(w, x)
  BY UnseenDoes DEF Unseen
<1>10. w.current = 0 => w.pending = 0
  BY <1>3, <1>6 DEF Pending, Watches
<1>11. /\ watch'.len = w.len /\ watch'.current = w.current /\ watch'.compacted = w.compacted
       /\ w.primed => watch'.primed
  <2> HIDE DEF Unseen
  <2>1. CASE Left(x) /\ t.owned
    <3>1. watch' = Settled(w, x)
      BY <1>5, <2>1
    <3> QED BY <3>1, SettledDoes
  <2>2. CASE ~(Left(x) /\ t.owned)
    BY <1>5, <1>9, <2>2
  <2> QED BY <2>1, <2>2
<1>12. Observes(x)
  BY <1>6, <1>11 DEF Observes
<1>13. ASSUME ~Left(x), t.owned, ~Open(w, t.status)
       PROVE  Drops(x) /\ thread'.runs = thread.runs
  <2>1. watch' = Unseen(x).watch /\ ~Counts(x)
    BY <1>5, <1>9, <1>13 DEF Counts
  <2> QED BY <1>4, <1>6, <1>9, <1>10, <1>13, <2>1 DEF Drops
<1>14. /\ Idling' => heldSince' = Never
       /\ running' <=> Thinking'
       /\ thread'.status \in {"idle", "thinking"}
  <2>1. t.status \in {"idle", "thinking"}
    <3>1. thread.status \in {"idle", "thinking", "waiting"} /\ thread.status # "waiting"
      BY <1>1, <1>3 DEF Threads, Statuses
    <3>2. CASE Stale(x)
      BY <1>7, <3>1, <3>2
    <3>3. CASE ~Stale(x) /\ ~(Thinking /\ x.state = "finished")
      <4>1. x.state \in {"none", "thinking", "finished"}
        BY <1>3 DEF Says, Readings
      <4> QED BY <1>3, <1>4, <1>7, <3>1, <3>3, <4>1 DEF Says, Status
    <3>4. CASE ~Stale(x) /\ Thinking /\ x.state = "finished"
      <4>1. First(x) - x.age < Confirm \/ First(x) - x.age >= Confirm
        BY <1>1 DEF First, Never, Old
      <4> QED BY <1>7, <3>4, <4>1
    <3> QED BY <3>2, <3>3, <3>4
  <2> QED BY <1>4, <2>1 DEF Idling, Thinking, Running
<1>15. CASE x.state = "none"
  <2>1. ~thread.owned /\ ~HasTail(x) /\ ~Stale(x)
    BY <1>3, <1>4, <1>15 DEF Says, Stale
  <2>2. t.status = "idle" /\ ~t.owned
    BY <1>3, <1>7, <1>15, <2>1 DEF Unread, Idling
  <2>3. watch' = watch /\ watch.pending = 0 /\ w = watch
    BY <1>3, <1>5, <1>6, <2>1, <2>2 DEF Unread, Unprimed, Pending, Watches
  <2>4. ~Counts(x)
    BY <2>2 DEF Counts
  <2> QED BY <1>4, <1>12, <1>14, <1>15, <2>2, <2>3, <2>4 DEF Uses, Silent, Drops, Idling
<1>16. CASE Stale(x) /\ Thinking
  <2>1. t = thread /\ t.status = "thinking" /\ t.owned /\ c.held = heldSince
    BY <1>7, <1>16 DEF Thinking, Stale
  <2>2. ~Left(x) /\ ~Open(w, t.status)
    BY <1>8, <2>1 DEF Open
  <2> QED BY <1>4, <1>12, <1>13, <1>14, <1>16, <2>1, <2>2 DEF Uses, Works, Thinking
<1>17. CASE ~Stale(x) /\ x.state = "thinking"
  <2>1. t.status = "thinking" /\ t.owned /\ c.held = Never
    BY <1>7, <1>17 DEF Status
  <2>2. ~Left(x) /\ ~Open(w, t.status)
    BY <1>8, <2>1 DEF Open
  <2> QED BY <1>4, <1>12, <1>13, <1>14, <1>17, <2>1, <2>2 DEF Uses, Works, Thinking
<1>18. CASE ~Stale(x) /\ x.state = "finished" /\ Thinking /\ First(x) - x.age < Confirm
  <2>1. t.status = "thinking" /\ t.owned /\ c.held = First(x)
    BY <1>7, <1>18
  <2>2. ~Left(x) /\ ~Open(w, t.status)
    BY <1>8, <2>1 DEF Open
  <2> QED BY <1>4, <1>12, <1>13, <1>14, <1>18, <2>1, <2>2 DEF Uses, Works, Thinking
<1>19. CASE ~Stale(x) /\ x.state = "finished" /\ Thinking /\ First(x) - x.age >= Confirm
  <2>1. t.status = "idle" /\ t.owned
    BY <1>7, <1>19
  <2>2. running /\ Long(x)
    <3>1. running
      BY <1>3, <1>19 DEF Statuses
    <3>2. heldSince # Never /\ First(x) = heldSince
      BY <1>1, <1>19 DEF First, Never, Old
    <3> QED BY <1>19, <3>1, <3>2 DEF Long
  <2>3. CASE EndedOnCompaction(w)
    <3>1. ~Left(x) /\ ~Open(w, t.status)
      BY <1>8, <2>3 DEF Open, EndedOnCompaction
    <3> QED BY <1>4, <1>12, <1>13, <1>14, <1>19, <1>11, <2>1, <2>2, <2>3, <3>1 DEF Uses, Finishes, Idling, EndedOnCompaction
  <2>4. CASE ~EndedOnCompaction(w)
    <3>1. Left(x) /\ Counts(x)
      BY <1>8, <2>1, <2>2, <2>4 DEF Counts
    <3>2. watch' = Settled(w, x)
      BY <1>5, <2>1, <3>1
    <3>3. LET v == Settled(w, x)
          IN  v.counted = w.current /\ v.settled = x.age /\ v.pending = 0 /\ v.primed = TRUE
      BY SettledDoes
    <3>4. Settles(x)
      BY <1>11, <3>2, <3>3 DEF Settles
    <3> QED BY <1>4, <1>12, <1>14, <1>19, <2>1, <2>2, <2>4, <3>1, <3>4 DEF Uses, Finishes, Idling
  <2> QED BY <2>3, <2>4
<1>20. CASE (Stale(x) \/ x.state = "finished") /\ Idling
  <2>1. t.status = "idle" /\ t.owned /\ ~running
    BY <1>3, <1>7, <1>20 DEF Status, Statuses, Idling, Thinking, Stale
  <2>2. ~Left(x) /\ watch' = Unseen(x).watch
    BY <1>5, <1>8, <2>1
  <2>3. Counts(x) <=> Unseen(x).ended
    BY <2>1, <2>2 DEF Counts
  <2>4. Near(w, x) <=> Near(watch, x)
    BY <1>6 DEF Near
  <2>5. SUFFICES Rests(x)
    BY <1>4, <1>12, <1>14 DEF Uses
  <2>6. CASE ~Open(w, t.status)
    <3>1. w.counted = watch'.current \/ watch'.current = 0
      BY <1>11, <2>1, <2>6 DEF Open
    <3> QED BY <1>4, <1>13, <1>20, <2>1, <2>2, <2>6, <3>1 DEF Rests, Idling
  <2>7. CASE Open(w, t.status) /\ Near(w, x)
    <3>1. Adopts /\ ~Counts(x)
      BY <1>6, <1>9, <2>2, <2>3, <2>7 DEF Adopts, Open
    <3> QED BY <1>4, <1>11, <1>20, <2>1, <2>4, <2>7, <3>1 DEF Rests, Idling, Open
  <2>8. CASE Open(w, t.status) /\ ~Near(w, x) /\ Young(w, x)
    <3>1. Pends(x) /\ ~Counts(x)
      BY <1>6, <1>9, <2>2, <2>3, <2>8 DEF Pends, Open, SeenSince
    <3> QED BY <1>4, <1>11, <1>20, <2>1, <2>4, <2>8, <3>1 DEF Rests, Idling, Open
  <2>9. CASE Open(w, t.status) /\ ~Near(w, x) /\ ~Young(w, x)
    <3>1. Adopts /\ Counts(x)
      BY <1>6, <1>9, <2>2, <2>3, <2>9 DEF Adopts, Open
    <3>2. watch.pending = watch'.current /\ watch.since - x.age >= Confirm
      BY <1>1, <1>6, <1>11, <2>9 DEF Young, SeenSince, Between, Watches
    <3> QED BY <1>4, <1>11, <1>20, <2>1, <2>4, <2>9, <3>1, <3>2 DEF Rests, Idling, Open
  <2> QED BY <2>6, <2>7, <2>8, <2>9
<1>21. x.state \in {"none", "thinking", "finished"} /\ (Idling \/ Thinking)
  BY <1>1, <1>3 DEF Says, Readings, Statuses, Threads, Idling, Thinking
<1>22. First(x) - x.age < Confirm \/ First(x) - x.age >= Confirm
  BY <1>1 DEF First, Never, Old
<1> QED BY <1>15, <1>16, <1>17, <1>18, <1>19, <1>20, <1>21, <1>22

(***************************************************************************)
(* What the window's other steps come to.                                  *)
(***************************************************************************)
Blank(x) ==
    /\ x.age = 0 /\ x.state = "none" /\ x.tail.len = 0 - 1 /\ x.tail.turn = 0 /\ ~x.tail.compacted
    /\ x.over = 0 /\ ~x.older /\ ~x.stale
AgentStays == UNCHANGED <<case, word, work, begun, over, since, due, file, frame>>
SurfaceStays == UNCHANGED <<timer, thread, running, heldSince, watch>>

\* A reading that begins knows nothing.
LEMMA EmptyBlank == ASSUME NEW x, Empty(x) PROVE Blank(x)
BY DEF Empty, Blank, NoTail, Never

\* What the beginning of a pass leaves of the two readings.
LEMMA PassBegins ==
  ASSUME RunsTyped, BeginPass
  PROVE  /\ Pass.at = "none" /\ timer = Interval
         /\ Pass'.at = "begun" /\ Pass'.known = watch.len /\ Blank(Pass')
         /\ AsLooked(Hook', Hook) /\ Hook'.stale = Hook.stale /\ Hook'.older = (Hook.at # "none")
         /\ AgentStays /\ SurfaceStays
<1>1. SurfaceTypeOK /\ Begin("pass") /\ "pass" \in Sources
  BY DEF BeginPass, RunsTyped, Sources
<1>2. Pass'.at = "begun" /\ Pass'.known = watch.len /\ Empty(Pass')
  BY <1>1, BeginDoes DEF Pass
<1>3. AsLooked(Hook', Hook) /\ Hook'.stale = Hook.stale /\ Hook'.older = (Hook.at # "none")
  BY <1>1, BeginDoes, OtherIs DEF Hook
<1> QED BY <1>2, <1>3, EmptyBlank DEF BeginPass, Pass, agentVars, AgentStays, SurfaceStays

\* What the beginning of a reading that a frame asked for leaves of the two.
LEMMA HookBegins ==
  ASSUME RunsTyped, Deliver, Begin("hook"), thread' = thread
  PROVE  /\ Hook'.at = "begun" /\ Hook'.known = watch.len /\ Blank(Hook')
         /\ AsLooked(Pass', Pass) /\ Pass'.stale = Pass.stale /\ Pass'.older = (Pass.at # "none")
         /\ (Quiet' <=> Quiet) /\ SurfaceStays
<1>1. SurfaceTypeOK /\ "hook" \in Sources
  BY DEF RunsTyped, Sources
<1>2. Hook'.at = "begun" /\ Hook'.known = watch.len /\ Empty(Hook')
  BY <1>1, BeginDoes DEF Hook
<1>3. AsLooked(Pass', Pass) /\ Pass'.stale = Pass.stale /\ Pass'.older = (Pass.at # "none")
  BY <1>1, BeginDoes, OtherIs DEF Pass
<1>4. SurfaceStays
  BY DEF Deliver, SurfaceStays
<1>5. Quiet' <=> Quiet
  BY <1>3, <1>4 DEF Quiet, Observe, EndedOnCompaction, AsLooked, SurfaceStays
<1> QED BY <1>2, <1>3, <1>4, <1>5, EmptyBlank

\* What a reading that looks finds.
Finds(x) ==
    /\ Started(x) /\ Looked(x') /\ x'.age = x.age /\ x'.known = 0 - 1 /\ x'.over = over
    /\ x'.older = x.older /\ x'.stale = x.stale
    /\ word # "waiting"
    /\ KeepsStatus /\ word = "idle" => x'.state = "finished"
    /\ KeepsStatus /\ word = "busy" => x'.state = "thinking"
    /\ ~KeepsStatus /\ file.len = 0 => x'.state = "none"
    /\ ~KeepsStatus /\ file.len # 0 /\ begun > file.turn => x'.state = "thinking"
    /\ ~KeepsStatus /\ file.len # 0 /\ begun <= file.turn => x'.state = "finished"
    /\ \/ /\ IF KeepsStatus THEN x'.state = "finished" /\ file.len # x.known ELSE file.len > 0
          /\ x'.tail.len = file.len /\ x'.tail.turn = file.turn /\ x'.tail.compacted = file.compacted
       \/ /\ ~(IF KeepsStatus THEN x'.state = "finished" /\ file.len # x.known ELSE file.len > 0)
          /\ x'.tail.len = 0 - 1 /\ x'.tail.turn = 0 /\ ~x'.tail.compacted

\* A reading that looks finds the word or the file as they are, and at most one of
\* two that have not looked does so first.
LEMMA LookFinds ==
  ASSUME RunsTyped, Words, NEW r \in Sources, Look(r), Plain
  PROVE  /\ readings[r].at = "begun"
         /\ readings[Other(r)].at = "begun" => ~readings[Other(r)].older
         /\ readings'[Other(r)] = readings[Other(r)]
         /\ AgentStays /\ SurfaceStays
         /\ Finds(readings[r])
<1> DEFINE k == readings[r].known
<1>1. /\ readings'[r].at = "looked" /\ readings'[r].age = readings[r].age /\ readings'[r].known = Never
      /\ readings'[r].state = State /\ readings'[r].tail = TurnEnd(k)
      /\ readings'[r].over = over
      /\ readings'[r].older = readings[r].older /\ readings'[r].stale = readings[r].stale
      /\ readings'[Other(r)] = readings[Other(r)]
  BY LookDoes DEF RunsTyped
<1>2. /\ KeepsStatus /\ word = "idle" => State = "finished"
      /\ KeepsStatus /\ word = "busy" => State = "thinking"
      /\ ~KeepsStatus /\ file.len = 0 => State = "none"
  BY DEF State, StateOf, KeepsStatus, Words
<1>3. /\ ~KeepsStatus /\ file.len # 0 /\ begun > file.turn => State = "thinking"
      /\ ~KeepsStatus /\ file.len # 0 /\ begun <= file.turn => State = "finished"
  <2>1. begun \in Nat /\ file.turn \in Nat /\ word # "waiting"
    BY DEF RunsTyped, AgentTypeOK, Files, Words
  <2>2. ASSUME ~KeepsStatus, file.len # 0
        PROVE  State = IF begun > file.turn THEN "thinking" ELSE "finished"
    BY <2>1, <2>2 DEF State, KeepsStatus
  <2> QED BY <2>1, <2>2
<1>4. \/ /\ IF KeepsStatus THEN State = "finished" /\ file.len # k ELSE file.len > 0
         /\ TurnEnd(k) = file
      \/ /\ ~(IF KeepsStatus THEN State = "finished" /\ file.len # k ELSE file.len > 0)
         /\ TurnEnd(k) = NoTail
  BY DEF TurnEnd, KeepsStatus
<1>5. AgentStays /\ SurfaceStays /\ readings[r].at = "begun"
  BY DEF Look, AgentStays, SurfaceStays, agentVars
<1>6. readings[Other(r)].at = "begun" => ~readings[Other(r)].older
  BY DEF Look, Plain, Unheld
<1>7. NoTail.len = 0 - 1 /\ NoTail.turn = 0 /\ ~NoTail.compacted
  BY DEF NoTail, Never
<1>8. Finds(readings[r])
  <2> HIDE DEF k
  <2>1. readings[r].known = k
    BY DEF k
  <2> QED BY <1>1, <1>2, <1>3, <1>4, <1>5, <1>7, <2>1 DEF Finds, Words, Looked, Started, Never
<1> QED BY <1>1, <1>5, <1>6, <1>8

\* Using a reading of plain cases: one of four things, the agent left alone, the
\* other reading stale when it was stamped before.
LEMMA ApplyUses ==
  ASSUME RunsTyped, Counted, Timely, NEW who \in Sources, Apply(who)
  PROVE  /\ Uses(readings[who]) /\ AgentStays
         /\ readings'[who].at = "none" /\ readings'[who].known = 0 - 1 /\ Blank(readings'[who])
         /\ AsLooked(readings'[Other(who)], readings[Other(who)])
         /\ readings'[Other(who)].older = readings[Other(who)].older
         /\ readings'[Other(who)].stale <=>
               readings[Other(who)].stale \/ (readings[Other(who)].older /\ ~Stale(readings[who]))
         /\ who = "pass" => timer' = 0
         /\ who = "hook" => timer' = timer
<1>1. Uses(readings[who])
  BY UsesPlain
<1>2. /\ readings'[who] = NoReading
      /\ AsLooked(readings'[Other(who)], readings[Other(who)])
      /\ readings'[Other(who)].older = readings[Other(who)].older
      /\ readings'[Other(who)].stale <=>
            readings[Other(who)].stale \/ (readings[Other(who)].older /\ ~Stale(readings[who]))
  BY ApplyLeaves DEF RunsTyped
<1>3. NoReading.at = "none" /\ NoReading.known = 0 - 1 /\ Blank(NoReading)
  BY DEF NoReading, Blank, NoTail, Never
<1>4. AgentStays /\ (who = "pass" => timer' = 0) /\ (who = "hook" => timer' = timer)
  BY DEF Apply, AgentStays, agentVars
<1> QED BY <1>1, <1>2, <1>3, <1>4

\* A second passes for an age.
Ages(age, then) ==
    /\ age < 0 => then < 0
    /\ age >= 0 => then >= age /\ then <= age + 1
    /\ age >= 0 /\ age < Confirm + MaxDelay => then = age + 1

\* An age grows by one, unless it is none or the last that is told.
LEMMA LaterAges == ASSUME NEW age \in Never..Old PROVE Ages(age, Later(age))
BY LaterDoes, AgentRunsAssumption DEF Ages, Never, Old

\* A second for the agent, the surface and its watch.
LEMMA TickDoes ==
  ASSUME RunsTyped, Tick
  PROVE  /\ frame = "none" /\ (timer < Interval \/ Pass.at # "none") /\ (InBlip => since < MaxBlip)
         /\ due.what # "none" => due.age < MaxLag /\ due'.age = due.age + 1
         /\ due.what = "none" => due'.age = due.age
         /\ due'.what = due.what
         /\ timer < Interval => timer' = timer + 1
         /\ timer >= Interval => timer' = timer
         /\ since < Rest => since' = since + 1
         /\ since >= Rest => since' = since
         /\ UNCHANGED <<case, word, work, begun, over, file, frame, thread, running>>
         /\ Ages(heldSince, heldSince') /\ Ages(watch.settled, watch'.settled)
         /\ watch.pending # 0 => Ages(watch.since, watch'.since)
         /\ watch'.len = watch.len /\ watch'.current = watch.current /\ watch'.counted = watch.counted
         /\ watch'.primed = watch.primed /\ watch'.pending = watch.pending /\ watch'.compacted = watch.compacted
<1>1. frame = "none" /\ (InBlip => since < MaxBlip) /\ UNCHANGED <<case, word, work, begun, over, file, frame, thread, running>>
  BY DEF Tick
<1>2. timer < Interval \/ Pass.at # "none"
  BY DEF Tick, Pass
<1>3. /\ due.what # "none" => due.age < MaxLag /\ due'.age = due.age + 1
      /\ due.what = "none" => due'.age = due.age
      /\ due'.what = due.what
  <2>1. due \in [what: {"none", "turn", "compaction"}, age: Nat]
    BY DEF RunsTyped, AgentTypeOK
  <2> PICK n \in Nat : n = due.age + 1
    BY <2>1
  <2>2. due' = IF due.what # "none" THEN [due EXCEPT !.age = n] ELSE due
    BY DEF Tick
  <2>3. due.what # "none" => due.age < MaxLag
    BY DEF Tick
  <2> QED BY <2>1, <2>2, <2>3
<1>4. /\ timer < Interval => timer' = timer + 1
      /\ timer >= Interval => timer' = timer
      /\ since < Rest => since' = since + 1
      /\ since >= Rest => since' = since
  BY AgentRunsAssumption DEF Tick, RunsTyped, AgentTypeOK, SurfaceTypeOK
<1>5. Ages(heldSince, heldSince')
  BY LaterAges DEF Tick, RunsTyped, SurfaceTypeOK
<1>6. watch.settled \in Never..Old /\ watch.since \in Never..Old
  BY AgentRunsAssumption DEF RunsTyped, SurfaceTypeOK, Watches, Never
<1>7. /\ watch'.len = watch.len /\ watch'.current = watch.current /\ watch'.counted = watch.counted
      /\ watch'.primed = watch.primed /\ watch'.pending = watch.pending /\ watch'.compacted = watch.compacted
      /\ watch'.settled = Later(watch.settled)
      /\ watch.pending # 0 => watch'.since = Later(watch.since)
  BY TickWatch DEF RunsTyped
<1>8. Ages(watch.settled, watch'.settled) /\ (watch.pending # 0 => Ages(watch.since, watch'.since))
  BY <1>6, <1>7, LaterAges
<1> QED BY <1>1, <1>2, <1>3, <1>4, <1>5, <1>7, <1>8

\* A second passes for a reading.
Older(x) ==
    /\ x'.at = x.at /\ x'.known = x.known /\ x'.state = x.state /\ x'.tail = x.tail /\ x'.over = x.over
    /\ x'.older = x.older /\ x'.stale = x.stale
    /\ x.at = "none" => x'.age = x.age
    /\ x.at # "none" => x.age < MaxDelay /\ x'.age = x.age + 1

\* A second for the readings; nothing it finds changes.
LEMMA TickOlder ==
  ASSUME RunsTyped, RunsTyped', Tick
  PROVE  Older(Pass) /\ Older(Hook) /\ (Quiet' <=> Quiet)
<1>1. ASSUME NEW r \in Sources PROVE Older(readings[r])
  BY TickAges DEF RunsTyped, Older
<1>2. Older(Pass) /\ Older(Hook)
  BY <1>1 DEF Pass, Hook, Sources, Older
<1>3. Pass'.tail = Pass.tail
  BY <1>2 DEF Older
<1>4. /\ watch'.primed = watch.primed /\ watch'.counted = watch.counted
      /\ watch'.current = watch.current /\ watch'.compacted = watch.compacted
  BY TickWatch DEF RunsTyped
<1>5. Quietly /\ Quietly'
  BY QuietFields, PTL
<1> QED BY <1>2, <1>3, <1>4, <1>5 DEF Quietly, HasTail

(***************************************************************************)
(* Every action keeps Counted; one lemma for each.                         *)
(***************************************************************************)

\* A turn begins where none was: the surface and the readings know nothing of it yet.
LEMMA CountedBeginTurn ==
  ASSUME RunsTyped, RunsTyped', Timely, Plain, Counted, BeginTurn
  PROVE  Counted'
<1>1. Measured /\ Measured'
  BY MeasuredTyped, PTL
<1>2. /\ Pass' = Pass /\ Hook' = Hook /\ (Quiet' <=> Quiet)
      /\ UNCHANGED <<case, timer, thread, running, heldSince, watch>>
  BY AgentAlone DEF AgentStep, Pass, Hook, Quiet, Observe, EndedOnCompaction
<1>3. /\ work = "none" /\ due.what = "none" /\ frame = "none" /\ work' = "turn" /\ word' = "busy"
      /\ begun' = begun + 1 /\ since' = 0 /\ over' = over /\ due' = due
      /\ frame' # "none" => Hooks
      /\ Hooks => thread.owned
  BY DEF BeginTurn, Ready, Sends, Hooks, Plain, HandsOver
<1>4. file'.len = file.len + 1 /\ file'.turn = file.turn /\ ~file'.compacted
  BY FileGrows DEF RunsTyped, AgentTypeOK
<1>5. AgentOK' /\ ToldOK'
  BY <1>1, <1>2, <1>3, <1>4 DEF Measured, Numbers, Counted, AgentOK, ToldOK, Words, Dues, Landed, Compacts,
     Blips, Begins, Frames, Asked, Owned, Unowned, Hooks, KeepsStatus, Lately
<1>6. ReadOK(Pass)' /\ ReadOK(Hook)' /\ Transcript' /\ NoCut'
  BY <1>1, <1>2, <1>4 DEF Measured, Numbers, Sizes, Counted, ReadOK, Steps, Lengths, Newest, Says, Transcript,
     NoCut, KeepsStatus
<1>7. InOrder' /\ SurfaceOK'
  BY <1>1, <1>2, <1>4 DEF Measured, Numbers, Counted, InOrder, SurfaceOK, Ranked, Late, Precedes, Statuses,
     Holds, Unread, Unprimed, WatchNewest, WatchTurns, Pending, InTurn, Idling, Thinking
<1>8. Unpassed'
  BY <1>2 DEF Counted, Unpassed, Behind, BehindHook, PendedTail, PendedHook, Pended
<1>9. Grace'
  BY <1>1, <1>2, <1>3, <1>4 DEF Measured, Numbers, Counted, Grace, ReadOK, GraceIdle, GraceDue, GraceNone,
     GraceTail, GraceCount, GracePass, GraceOlder, GraceHook, GraceStale, Lengths, Idling, InFile, KeepsStatus,
     Same, SincePass, Within
<1>10. AtRest' /\ Owing'
  BY <1>3, <1>4 DEF Counted, AtRest, Owing, CalmKnown, CalmTail, CalmSame, CalmThinks, CalmNone, RestedWatch,
     RestedCount, OwesThread, OwesRead, OwesNewer, Calm, Lately, Rested
<1>11. Held' /\ RunsAreTurns'
  BY <1>1, <1>2, <1>3 DEF Measured, Numbers, Sizes, Counted, Held, HeldBlip, HeldBusy, HeldRead, HeldStale,
     HeldCompact, HeldNone, HeldHook, HeldPass, RunsAreTurns, InBlip, Long, SincePass, Thinking
<1> QED BY <1>5, <1>6, <1>7, <1>8, <1>9, <1>10, <1>11 DEF Counted

\* The agent works on in a turn it has begun; the word it left on a blip is busy again.
LEMMA CountedUseTool ==
  ASSUME RunsTyped, RunsTyped', Timely, Plain, Counted, UseTool
  PROVE  Counted'
<1>1. Measured /\ Measured'
  BY MeasuredTyped, PTL
<1>2. /\ Pass' = Pass /\ Hook' = Hook /\ (Quiet' <=> Quiet)
      /\ UNCHANGED <<case, timer, thread, running, heldSince, watch>>
  BY AgentAlone DEF AgentStep, Pass, Hook, Quiet, Observe, EndedOnCompaction
<1>3. /\ work = "turn" /\ word # "idle" /\ due.what = "none" /\ frame = "none" /\ word' = "busy"
      /\ frame' # "none" => Hooks
      /\ UNCHANGED <<work, begun, over, since, due, file>>
  BY DEF UseTool, Ready, Sends, Hooks
<1>4. AgentOK' /\ ToldOK'
  BY <1>1, <1>2, <1>3 DEF Measured, Numbers, Counted, AgentOK, ToldOK, Words, Dues, Landed, Compacts, Blips,
     Begins, Frames, Asked, Owned, Unowned, Hooks, InBlip, KeepsStatus, Lately
<1>5. ReadOK(Pass)' /\ ReadOK(Hook)' /\ Transcript' /\ NoCut'
  BY <1>2, <1>3 DEF Counted, ReadOK, Steps, Lengths, Newest, Says, Transcript, NoCut, KeepsStatus
<1>6. InOrder' /\ SurfaceOK'
  BY <1>2, <1>3 DEF Counted, InOrder, SurfaceOK, Ranked, Late, Precedes, Statuses, Holds, Unread, Unprimed,
     WatchNewest, WatchTurns, Pending, InTurn, Idling, Thinking
<1>7. Unpassed'
  BY <1>2 DEF Counted, Unpassed, Behind, BehindHook, PendedTail, PendedHook, Pended
<1>8. Grace'
  BY <1>2, <1>3 DEF Counted, Grace, GraceIdle, GraceDue, GraceNone, GraceTail, GraceCount, GracePass,
     GraceOlder, GraceHook, GraceStale, Idling, InFile, KeepsStatus, Same, SincePass, Within
<1>9. AtRest' /\ Owing'
  BY <1>2, <1>3 DEF Counted, AtRest, Owing, CalmKnown, CalmTail, CalmSame, CalmThinks, CalmNone, RestedWatch,
     RestedCount, OwesThread, OwesRead, OwesNewer, Calm, Idling, KeepsStatus, Lately, Rested
<1>10. Held' /\ RunsAreTurns'
  BY <1>1, <1>2, <1>3 DEF Measured, Numbers, Counted, AgentOK, Held, HeldBlip, HeldBusy, HeldRead, HeldStale,
     HeldCompact, HeldNone, HeldHook, HeldPass, RunsAreTurns, Words, Busy, InBlip, Long, SincePass, Thinking
<1> QED BY <1>4, <1>5, <1>6, <1>7, <1>8, <1>9, <1>10 DEF Counted

\* A turn ends: its end is in the word at once, in the file within MaxLag, and no
\* reading has seen it.
LEMMA CountedEndTurn ==
  ASSUME RunsTyped, RunsTyped', Timely, Plain, Counted, EndTurn
  PROVE  Counted'
<1>1. Measured /\ Measured'
  BY MeasuredTyped, PTL
<1>2. /\ Pass' = Pass /\ Hook' = Hook /\ (Quiet' <=> Quiet)
      /\ UNCHANGED <<case, timer, thread, running, heldSince, watch>>
  BY AgentAlone DEF AgentStep, Pass, Hook, Quiet, Observe, EndedOnCompaction
<1>3. /\ work = "turn" /\ due.what = "none" /\ frame = "none" /\ work' = "none" /\ word' = "idle"
      /\ over' = over + 1 /\ due'.what = "turn" /\ due'.age = 0 /\ since' = 0
      /\ frame' # "none" => Hooks
      /\ UNCHANGED <<begun, file>>
  BY DEF EndTurn, Ready, Sends, Hooks
<1>4. AgentOK' /\ ToldOK'
  BY <1>1, <1>2, <1>3 DEF Measured, Numbers, Sizes, Counted, AgentOK, ToldOK, Words, Dues, Landed, Compacts,
     Blips, Begins, Frames, Asked, Owned, Unowned, Hooks, KeepsStatus, Lately
<1>5. ReadOK(Pass)' /\ ReadOK(Hook)' /\ Transcript' /\ NoCut'
  BY <1>2, <1>3 DEF Counted, ReadOK, Steps, Lengths, Newest, Says, Transcript, NoCut, KeepsStatus
<1>6. InOrder' /\ SurfaceOK'
  BY <1>2, <1>3 DEF Counted, InOrder, SurfaceOK, Ranked, Late, Precedes, Statuses, Holds, Unread, Unprimed,
     WatchNewest, WatchTurns, Pending, InTurn, Idling, Thinking
<1>7. Unpassed'
  BY <1>2 DEF Counted, Unpassed, Behind, BehindHook, PendedTail, PendedHook, Pended
<1>8. Grace'
  BY <1>1, <1>2, <1>3 DEF Measured, Numbers, Counted, Grace, GraceIdle, GraceDue, GraceNone, GraceTail,
     GraceCount, GracePass, GraceOlder, GraceHook, GraceStale, RunsAreTurns, Idling, InFile, KeepsStatus, Same,
     SincePass, Within
<1>9. AtRest' /\ Owing'
  BY <1>1, <1>2, <1>3 DEF Measured, Numbers, Sizes, Counted, AgentOK, AtRest, Owing, CalmKnown, CalmTail,
     CalmSame, CalmThinks, CalmNone, RestedWatch, RestedCount, OwesThread, OwesRead, OwesNewer, Compacts,
     RunsAreTurns, Calm, Lately, Owes, Rested, SincePass
<1>10. Held' /\ RunsAreTurns'
  BY <1>1, <1>2, <1>3 DEF Measured, Numbers, Counted, Held, HeldBlip, HeldBusy, HeldRead, HeldStale,
     HeldCompact, HeldNone, HeldHook, HeldPass, RunsAreTurns, Busy, InBlip, Long, Thinking
<1> QED BY <1>4, <1>5, <1>6, <1>7, <1>8, <1>9, <1>10 DEF Counted

\* The word says idle in the middle of a turn; no end is held from before it.
LEMMA CountedBlipBegins ==
  ASSUME RunsTyped, RunsTyped', Timely, Plain, Counted, BlipBegins
  PROVE  Counted'
<1>1. Measured /\ Measured'
  BY MeasuredTyped, PTL
<1>2. /\ Pass' = Pass /\ Hook' = Hook /\ (Quiet' <=> Quiet)
      /\ UNCHANGED <<case, timer, thread, running, heldSince, watch>>
  BY AgentAlone DEF AgentStep, Pass, Hook, Quiet, Observe, EndedOnCompaction
<1>3. /\ work = "turn" /\ word = "busy" /\ due.what = "none" /\ frame = "none" /\ since >= Confirm
      /\ word' = "idle" /\ since' = 0
      /\ UNCHANGED <<work, begun, over, due, file, frame>>
  BY DEF BlipBegins, Ready
<1>4. AgentOK' /\ ToldOK'
  BY <1>1, <1>2, <1>3 DEF Measured, Numbers, Counted, AgentOK, ToldOK, Words, Dues, Landed, Compacts, Blips,
     Begins, Frames, Asked, Owned, Unowned, Hooks, KeepsStatus, Lately
<1>5. ReadOK(Pass)' /\ ReadOK(Hook)' /\ Transcript' /\ NoCut'
  BY <1>2, <1>3 DEF Counted, ReadOK, Steps, Lengths, Newest, Says, Transcript, NoCut, KeepsStatus
<1>6. InOrder' /\ SurfaceOK'
  BY <1>2, <1>3 DEF Counted, InOrder, SurfaceOK, Ranked, Late, Precedes, Statuses, Holds, Unread, Unprimed,
     WatchNewest, WatchTurns, Pending, InTurn, Idling, Thinking
<1>7. Unpassed'
  BY <1>2 DEF Counted, Unpassed, Behind, BehindHook, PendedTail, PendedHook, Pended
<1>8. Grace'
  BY <1>2, <1>3 DEF Counted, Grace, GraceIdle, GraceDue, GraceNone, GraceTail, GraceCount, GracePass,
     GraceOlder, GraceHook, GraceStale, Idling, InFile, KeepsStatus, Same, SincePass, Within
<1>9. AtRest' /\ Owing'
  BY <1>2, <1>3 DEF Counted, AtRest, Owing, CalmKnown, CalmTail, CalmSame, CalmThinks, CalmNone, RestedWatch,
     RestedCount, OwesThread, OwesRead, OwesNewer, Calm, Idling, KeepsStatus, Lately, Rested
<1>10. Held' /\ RunsAreTurns'
  BY <1>1, <1>2, <1>3 DEF Measured, Numbers, Sizes, Timely, Never, Counted, Held, HeldBlip, HeldBusy, HeldRead,
     HeldStale, HeldCompact, HeldNone, HeldHook, HeldPass, RunsAreTurns, Busy, Long, SincePass
<1> QED BY <1>4, <1>5, <1>6, <1>7, <1>8, <1>9, <1>10 DEF Counted

\* The word says busy again, at most MaxBlip later: an end held since is not old enough.
LEMMA CountedBlipEnds ==
  ASSUME RunsTyped, RunsTyped', Timely, Plain, Counted, BlipEnds
  PROVE  Counted'
<1>1. Measured /\ Measured'
  BY MeasuredTyped, PTL
<1>2. /\ Pass' = Pass /\ Hook' = Hook /\ (Quiet' <=> Quiet)
      /\ UNCHANGED <<case, timer, thread, running, heldSince, watch>>
  BY AgentAlone DEF AgentStep, Pass, Hook, Quiet, Observe, EndedOnCompaction
<1>3. /\ work = "turn" /\ word = "idle" /\ word' = "busy" /\ since' = 0
      /\ UNCHANGED <<work, begun, over, due, file, frame>>
  BY DEF BlipEnds
<1>4. AgentOK' /\ ToldOK'
  BY <1>2, <1>3 DEF Counted, AgentOK, ToldOK, Words, Dues, Landed, Compacts, Blips, Begins, Frames, Asked,
     Owned, Unowned, Hooks, InBlip, KeepsStatus, Lately
<1>5. ReadOK(Pass)' /\ ReadOK(Hook)' /\ Transcript' /\ NoCut'
  BY <1>2, <1>3 DEF Counted, ReadOK, Steps, Lengths, Newest, Says, Transcript, NoCut, KeepsStatus
<1>6. InOrder' /\ SurfaceOK'
  BY <1>2, <1>3 DEF Counted, InOrder, SurfaceOK, Ranked, Late, Precedes, Statuses, Holds, Unread, Unprimed,
     WatchNewest, WatchTurns, Pending, InTurn, Idling, Thinking
<1>7. Unpassed'
  BY <1>2 DEF Counted, Unpassed, Behind, BehindHook, PendedTail, PendedHook, Pended
<1>8. Grace'
  BY <1>2, <1>3 DEF Counted, AgentOK, Grace, GraceIdle, GraceDue, GraceNone, GraceTail, GraceCount, GracePass,
     GraceOlder, GraceHook, GraceStale, Dues, Idling, InFile, KeepsStatus, Same, SincePass, Within
<1>9. AtRest' /\ Owing'
  BY <1>2, <1>3 DEF Counted, AtRest, Owing, CalmKnown, CalmTail, CalmSame, CalmThinks, CalmNone, RestedWatch,
     RestedCount, OwesThread, OwesRead, OwesNewer, Calm, Idling, KeepsStatus, Lately, Rested
<1>10. Held' /\ RunsAreTurns'
  BY <1>1, <1>2, <1>3 DEF Measured, Numbers, Sizes, Counted, Held, HeldBlip, HeldBusy, HeldRead, HeldStale,
     HeldCompact, HeldNone, HeldHook, HeldPass, RunsAreTurns, InBlip, Long, SincePass, Thinking
<1> QED BY <1>4, <1>5, <1>6, <1>7, <1>8, <1>9, <1>10 DEF Counted

\* An agent that has rested for long compacts: by then the window has counted all.
LEMMA CountedCompact ==
  ASSUME RunsTyped, RunsTyped', Timely, Plain, Counted, Compact
  PROVE  Counted'
<1>1. Measured /\ Measured'
  BY MeasuredTyped, PTL
<1>2. /\ Pass' = Pass /\ Hook' = Hook /\ (Quiet' <=> Quiet)
      /\ UNCHANGED <<case, timer, thread, running, heldSince, watch>>
  BY AgentAlone DEF AgentStep, Pass, Hook, Quiet, Observe, EndedOnCompaction
<1>3. /\ work = "none" /\ due.what = "none" /\ frame = "none" /\ file.turn > 0 /\ ~file.compacted
      /\ since = Rest /\ work' = "compaction" /\ word' = "busy" /\ since' = 0
      /\ UNCHANGED <<begun, over, due, file, frame>>
  BY DEF Compact, Ready
<1>4. AgentOK' /\ ToldOK'
  BY <1>1, <1>2, <1>3 DEF Measured, Numbers, Sizes, Timely, Counted, AgentOK, ToldOK, Words, Dues, Landed,
     Compacts, Blips, Begins, Frames, Asked, Owned, Unowned, Hooks, KeepsStatus
<1>5. ReadOK(Pass)' /\ ReadOK(Hook)' /\ Transcript' /\ NoCut'
  BY <1>2, <1>3 DEF Counted, ReadOK, Steps, Lengths, Newest, Says, Transcript, NoCut, KeepsStatus
<1>6. InOrder' /\ SurfaceOK'
  BY <1>2, <1>3 DEF Counted, InOrder, SurfaceOK, Ranked, Late, Precedes, Statuses, Holds, Unread, Unprimed,
     WatchNewest, WatchTurns, Pending, InTurn, Idling, Thinking
<1>7. Unpassed'
  BY <1>2 DEF Counted, Unpassed, Behind, BehindHook, PendedTail, PendedHook, Pended
<1>8. Grace'
  BY <1>2, <1>3 DEF Counted, Grace, GraceIdle, GraceDue, GraceNone, GraceTail, GraceCount, GracePass,
     GraceOlder, GraceHook, GraceStale, Idling, InFile, KeepsStatus, Same, SincePass, Within
<1>9. AtRest' /\ Owing'
  BY <1>1, <1>2, <1>3 DEF Measured, Numbers, Sizes, Timely, Counted, AtRest, Owing, CalmKnown, CalmTail,
     CalmSame, CalmThinks, CalmNone, RestedWatch, RestedCount, OwesThread, OwesRead, OwesNewer, Calm, Idling,
     Lately, Owes, Rested, SincePass, Thinking
<1>10. Held' /\ RunsAreTurns'
  BY <1>1, <1>2, <1>3 DEF Measured, Numbers, Counted, Held, Owing, HeldBlip, HeldBusy, HeldRead, HeldStale,
     HeldCompact, HeldNone, HeldHook, HeldPass, RunsAreTurns, OwesThread, Busy, InBlip, Lately, Long, Owes,
     Thinking
<1> QED BY <1>4, <1>5, <1>6, <1>7, <1>8, <1>9, <1>10 DEF Counted

\* The compaction is over, and what it leaves in the file is a cut and no turn.
LEMMA CountedCompacted ==
  ASSUME RunsTyped, RunsTyped', Timely, Plain, Counted, Compacted
  PROVE  Counted'
<1>1. Measured /\ Measured'
  BY MeasuredTyped, PTL
<1>2. /\ Pass' = Pass /\ Hook' = Hook /\ (Quiet' <=> Quiet)
      /\ UNCHANGED <<case, timer, thread, running, heldSince, watch>>
  BY AgentAlone DEF AgentStep, Pass, Hook, Quiet, Observe, EndedOnCompaction
<1>3. /\ work = "compaction" /\ work' = "none" /\ word' = "idle" /\ since' = 0
      /\ due'.what = "compaction" /\ due'.age = 0
      /\ UNCHANGED <<begun, over, file, frame>>
  BY DEF Compacted
<1>4. AgentOK' /\ ToldOK'
  BY <1>1, <1>2, <1>3 DEF Measured, Numbers, Counted, AgentOK, ToldOK, Words, Dues, Landed, Compacts, Blips,
     Begins, Frames, Asked, Owned, Unowned, Hooks, KeepsStatus, Lately
<1>5. ReadOK(Pass)' /\ ReadOK(Hook)' /\ Transcript' /\ NoCut'
  BY <1>2, <1>3 DEF Counted, ReadOK, Steps, Lengths, Newest, Says, Transcript, NoCut, KeepsStatus
<1>6. InOrder' /\ SurfaceOK'
  BY <1>2, <1>3 DEF Counted, InOrder, SurfaceOK, Ranked, Late, Precedes, Statuses, Holds, Unread, Unprimed,
     WatchNewest, WatchTurns, Pending, InTurn, Idling, Thinking
<1>7. Unpassed'
  BY <1>2 DEF Counted, Unpassed, Behind, BehindHook, PendedTail, PendedHook, Pended
<1>8. Grace'
  BY <1>2, <1>3 DEF Counted, Grace, GraceIdle, GraceDue, GraceNone, GraceTail, GraceCount, GracePass,
     GraceOlder, GraceHook, GraceStale, Idling, InFile, KeepsStatus, Same, SincePass, Within
<1>9. AtRest' /\ Owing'
  BY <1>2, <1>3 DEF Counted, AtRest, Owing, CalmKnown, CalmTail, CalmSame, CalmThinks, CalmNone, RestedWatch,
     RestedCount, OwesThread, OwesRead, OwesNewer, Calm, Idling, KeepsStatus, Lately, Owes, Rested, Thinking
<1>10. Held' /\ RunsAreTurns'
  BY <1>1, <1>2, <1>3 DEF Measured, Numbers, Never, Counted, Held, HeldBlip, HeldBusy, HeldRead, HeldStale,
     HeldCompact, HeldNone, HeldHook, HeldPass, RunsAreTurns, Busy, InBlip, Long, Thinking
<1> QED BY <1>4, <1>5, <1>6, <1>7, <1>8, <1>9, <1>10 DEF Counted

\* What was due is in the file: a count made ahead of it was made a short while ago.
LEMMA CountedRecordLands ==
  ASSUME RunsTyped, RunsTyped', Timely, Plain, Counted, RecordLands
  PROVE  Counted'
<1>1. Measured /\ Measured'
  BY MeasuredTyped, PTL
<1>2. /\ Pass' = Pass /\ Hook' = Hook /\ (Quiet' <=> Quiet)
      /\ UNCHANGED <<case, timer, thread, running, heldSince, watch>>
  BY AgentAlone DEF AgentStep, Pass, Hook, Quiet, Observe, EndedOnCompaction
<1>3. /\ due.what # "none" /\ due'.what = "none" /\ due'.age = 0
      /\ file'.len = file.len + 1
      /\ due.what = "turn" => file'.turn = over
      /\ due.what # "turn" => file'.turn = file.turn
      /\ file'.compacted <=> due.what = "compaction"
      /\ UNCHANGED <<word, work, begun, over, since, frame>>
  BY DEF RecordLands
<1>4. AgentOK' /\ ToldOK'
  BY <1>1, <1>2, <1>3 DEF Measured, Numbers, Counted, AgentOK, ToldOK, Words, Dues, Landed, Compacts, Blips,
     Begins, Frames, Asked, Owned, Unowned, Hooks, InBlip, KeepsStatus, Lately
<1>5. ReadOK(Pass)' /\ ReadOK(Hook)' /\ Transcript' /\ NoCut'
  BY <1>1, <1>2, <1>3 DEF Measured, Numbers, Sizes, Counted, ReadOK, Steps, Lengths, Newest, Says, Transcript,
     NoCut, KeepsStatus
<1>6. InOrder' /\ SurfaceOK'
  BY <1>1, <1>2, <1>3 DEF Measured, Numbers, Counted, AgentOK, InOrder, SurfaceOK, Ranked, Late, Precedes,
     Statuses, Holds, Unread, Unprimed, WatchNewest, WatchTurns, Pending, InTurn, Landed, Idling, Thinking
<1>7. Unpassed'
  BY <1>2 DEF Counted, Unpassed, Behind, BehindHook, PendedTail, PendedHook, Pended
<1>8. Grace'
  BY <1>1, <1>2, <1>3 DEF Measured, Numbers, Counted, Grace, ReadOK, GraceIdle, GraceDue, GraceNone, GraceTail,
     GraceCount, GracePass, GraceOlder, GraceHook, GraceStale, RunsAreTurns, Lengths, Idling, InFile,
     KeepsStatus, Same, SincePass, Within
<1>9. AtRest' /\ Owing'
  BY <1>2, <1>3 DEF Counted, AgentOK, AtRest, Owing, CalmKnown, CalmTail, CalmSame, CalmThinks, CalmNone,
     RestedWatch, RestedCount, OwesThread, OwesRead, OwesNewer, Compacts, Calm, Idling, KeepsStatus, Lately,
     Owes, Rested, SincePass, Thinking
<1>10. Held' /\ RunsAreTurns'
  BY <1>2, <1>3 DEF Counted, Held, HeldBlip, HeldBusy, HeldRead, HeldStale, HeldCompact, HeldNone, HeldHook,
     HeldPass, RunsAreTurns, Busy, InBlip, Long, SincePass, Thinking
<1> QED BY <1>4, <1>5, <1>6, <1>7, <1>8, <1>9, <1>10 DEF Counted

\* A pass begins when the one before it is over and Interval has passed.
LEMMA CountedBeginPass ==
  ASSUME RunsTyped, RunsTyped', Timely, Plain, Counted, BeginPass
  PROVE  Counted'
<1>1. Measured /\ Measured'
  BY MeasuredTyped, PTL
<1>2. /\ Pass.at = "none" /\ timer = Interval
      /\ Pass'.at = "begun" /\ Pass'.known = watch.len /\ Blank(Pass')
      /\ AsLooked(Hook', Hook) /\ Hook'.stale = Hook.stale /\ Hook'.older = (Hook.at # "none")
      /\ AgentStays /\ SurfaceStays
  BY PassBegins
<1>3. AgentOK' /\ ToldOK' /\ ReadOK(Pass)'
  BY <1>2 DEF Never, Counted, AgentOK, ReadOK, SurfaceOK, ToldOK, Words, Dues, Landed, Compacts, Blips, Begins,
     Frames, Asked, Owned, Unowned, Steps, Lengths, Newest, Says, Unread, Unprimed, WatchNewest, HasTail,
     Hooks, InBlip, KeepsStatus, Lately, Looked, Started, Blank, AsLooked, AgentStays, SurfaceStays
<1>4. ReadOK(Hook)'
  <2>1. Lengths(Hook)' /\ Newest(Hook)' /\ Says(Hook)'
    BY <1>2 DEF Counted, ReadOK, Lengths, Newest, Says, HasTail, KeepsStatus, Looked, AsLooked, AgentStays,
       SurfaceStays
  <2>2. Steps(Hook)'
    BY <1>1, <1>2 DEF Measured, Numbers, Sizes, Timely, Never, Counted, ReadOK, Steps, HasTail, Looked,
       Started, Blank, AsLooked, AgentStays, SurfaceStays
  <2> QED BY <2>1, <2>2 DEF ReadOK
<1>5. Transcript' /\ NoCut'
  BY <1>2 DEF Never, Counted, Transcript, NoCut, HasTail, KeepsStatus, Blank, AsLooked, AgentStays,
     SurfaceStays
<1>6. InOrder'
  <2>1. Ranked' /\ Precedes(Pass, Hook)'
    BY <1>1, <1>2 DEF Measured, Numbers, Sizes, Timely, Never, Counted, InOrder, Ranked, Precedes, HasTail,
       Looked, Started, Blank, AsLooked, AgentStays, SurfaceStays
  <2>2. Late'
    BY <1>1, <1>2 DEF Measured, Numbers, Sizes, Timely, Counted, InOrder, Late
  <2>3. Precedes(Hook, Pass)'
    BY <1>1, <1>2 DEF Measured, Numbers, Sizes, Never, Counted, Precedes, HasTail, Looked, Blank
  <2> QED BY <2>1, <2>2, <2>3 DEF InOrder
<1>7. SurfaceOK' /\ Unpassed'
  BY <1>2 DEF Never, Counted, SurfaceOK, Unpassed, Statuses, Holds, Unread, Unprimed, WatchNewest, WatchTurns,
     Pending, InTurn, Behind, BehindHook, PendedTail, PendedHook, HasTail, Idling, Looked, Pended, Thinking,
     Blank, AsLooked, AgentStays, SurfaceStays
<1>8. Grace'
  BY <1>1, <1>2 DEF Measured, Numbers, Never, Counted, AgentOK, Grace, SurfaceOK, GraceIdle, GraceDue,
     GraceNone, GraceTail, GraceCount, GracePass, GraceOlder, GraceHook, GraceStale, Dues, Landed, WatchNewest,
     RunsAreTurns, Between, HasTail, Idling, InFile, KeepsStatus, Looked, Near, Same, SincePass, Started,
     Within, Blank, AsLooked, AgentStays, SurfaceStays
<1>9. AtRest'
  BY <1>2 DEF Never, Counted, AtRest, CalmKnown, CalmTail, CalmSame, CalmThinks, CalmNone, RestedWatch,
     RestedCount, HasTail, Idling, Lately, Looked, Rested, SincePass, Blank, AgentStays, SurfaceStays
<1>10. Owing'
  <2>1. OwesThread' /\ OwesRead(Pass)' /\ OwesRead(Hook)' /\ OwesNewer(Pass, Hook)'
    BY <1>2 DEF Counted, Owing, OwesThread, OwesRead, OwesNewer, KeepsStatus, Lately, Owes, Thinking, Blank,
       AsLooked, AgentStays, SurfaceStays
  <2>2. OwesNewer(Hook, Pass)'
    BY <1>1, <1>2 DEF Measured, Numbers, Sizes, Timely, Never, Counted, Owing, ReadOK, OwesNewer, Steps,
       HasTail, Looked, Started, Blank, AsLooked, AgentStays, SurfaceStays
  <2> QED BY <2>1, <2>2 DEF Owing
<1>11. Held' /\ RunsAreTurns'
  BY <1>2 DEF Counted, Held, HeldBlip, HeldBusy, HeldRead, HeldStale, HeldCompact, HeldNone, HeldHook,
     HeldPass, RunsAreTurns, Busy, InBlip, Long, Looked, SincePass, Thinking, Blank, AsLooked, AgentStays,
     SurfaceStays
<1> QED BY <1>3, <1>4, <1>5, <1>6, <1>7, <1>8, <1>9, <1>10, <1>11 DEF Counted

\* A frame begins a reading where none of its kind is under way.
LEMMA CountedDeliverBegin ==
  ASSUME RunsTyped, RunsTyped', Timely, Plain, Counted, Deliver, Begin("hook"), Hook.at = "none", thread.owned, thread' = thread
  PROVE  Counted'
<1>1. Measured /\ Measured'
  BY MeasuredTyped, PTL
<1>2. /\ Hook'.at = "begun" /\ Hook'.known = watch.len /\ Blank(Hook')
      /\ AsLooked(Pass', Pass) /\ Pass'.stale = Pass.stale /\ Pass'.older = (Pass.at # "none")
      /\ (Quiet' <=> Quiet) /\ SurfaceStays
  BY HookBegins
<1>3. /\ frame # "none" /\ frame' = "none"
      /\ UNCHANGED <<case, word, work, begun, over, since, due, file>>
  BY DEF Deliver
<1>4. AgentOK' /\ ToldOK'
  BY <1>2, <1>3 DEF Counted, AgentOK, ToldOK, Words, Dues, Landed, Compacts, Blips, Begins, Frames, Asked,
     Owned, Unowned, Hooks, InBlip, KeepsStatus, Lately, Blank, SurfaceStays
<1>5. ReadOK(Pass)'
  <2>1. Lengths(Pass)' /\ Newest(Pass)' /\ Says(Pass)'
    BY <1>2, <1>3 DEF Counted, ReadOK, Lengths, Newest, Says, HasTail, Looked, AsLooked
  <2>2. Steps(Pass)'
    BY <1>1, <1>2, <1>3 DEF Measured, Numbers, Sizes, Timely, Never, Counted, ReadOK, Steps, HasTail, Looked,
       Started, Blank, AsLooked, SurfaceStays
  <2> QED BY <2>1, <2>2 DEF ReadOK
<1>6. ReadOK(Hook)' /\ Transcript' /\ NoCut'
  BY <1>2, <1>3 DEF Never, Counted, ReadOK, SurfaceOK, Steps, Lengths, Newest, Says, Transcript, NoCut,
     WatchNewest, HasTail, KeepsStatus, Looked, Started, Blank, AsLooked
<1>7. InOrder'
  <2>1. Ranked' /\ Late' /\ Precedes(Hook, Pass)'
    BY <1>1, <1>2, <1>3 DEF Measured, Numbers, Sizes, Timely, Never, Counted, InOrder, Ranked, Late, Precedes,
       HasTail, Looked, Started, Blank, AsLooked, SurfaceStays
  <2>2. Precedes(Pass, Hook)'
    BY <1>1, <1>2 DEF Measured, Numbers, Sizes, Never, Counted, Precedes, HasTail, Looked, Blank
  <2> QED BY <2>1, <2>2 DEF InOrder
<1>8. SurfaceOK' /\ Unpassed'
  BY <1>2, <1>3 DEF Never, Counted, SurfaceOK, Unpassed, Statuses, Holds, Unread, Unprimed, WatchNewest,
     WatchTurns, Pending, InTurn, Behind, BehindHook, PendedTail, PendedHook, HasTail, Idling, Looked, Pended,
     Thinking, Blank, AsLooked, SurfaceStays
<1>9. Grace'
  BY <1>1, <1>2, <1>3 DEF Measured, Numbers, Sizes, Never, Counted, AgentOK, Grace, SurfaceOK, GraceIdle,
     GraceDue, GraceNone, GraceTail, GraceCount, GracePass, GraceOlder, GraceHook, GraceStale, Dues, Landed,
     WatchNewest, RunsAreTurns, Between, HasTail, Idling, InFile, KeepsStatus, Looked, Near, Same, SincePass,
     Started, Within, Blank, AsLooked, SurfaceStays
<1>10. AtRest'
  BY <1>2, <1>3 DEF Counted, AtRest, CalmKnown, CalmTail, CalmSame, CalmThinks, CalmNone, RestedWatch,
     RestedCount, Calm, HasTail, Idling, KeepsStatus, Lately, Looked, Rested, SincePass, Started, AsLooked,
     SurfaceStays
<1>11. Owing'
  <2>1. OwesThread' /\ OwesRead(Pass)' /\ OwesRead(Hook)' /\ OwesNewer(Hook, Pass)'
    BY <1>2, <1>3 DEF Counted, Owing, OwesThread, OwesRead, OwesNewer, KeepsStatus, Lately, Owes, Thinking,
       Blank, AsLooked, SurfaceStays
  <2>2. OwesNewer(Pass, Hook)'
    BY <1>1, <1>2, <1>3 DEF Measured, Numbers, Sizes, Timely, Never, Counted, Owing, ReadOK, OwesNewer, Steps,
       HasTail, Looked, Started, Blank, AsLooked, SurfaceStays
  <2> QED BY <2>1, <2>2 DEF Owing
<1>12. Held' /\ RunsAreTurns'
  BY <1>2, <1>3 DEF Counted, Held, HeldBlip, HeldBusy, HeldRead, HeldStale, HeldCompact, HeldNone, HeldHook,
     HeldPass, RunsAreTurns, Busy, InBlip, Long, Looked, SincePass, Thinking, Blank, AsLooked, SurfaceStays
<1> QED BY <1>4, <1>5, <1>6, <1>7, <1>8, <1>9, <1>10, <1>11, <1>12 DEF Counted

\* A frame finds a reading under way and tells the surface of a turn, no more.
LEMMA CountedDeliverBusy ==
  ASSUME RunsTyped, RunsTyped', Timely, Plain, Counted, Deliver, UNCHANGED <<readings, thread>>
  PROVE  Counted'
<1>1. Measured /\ Measured'
  BY MeasuredTyped, PTL
<1>2. /\ Pass' = Pass /\ Hook' = Hook /\ frame' = "none" /\ SurfaceStays
      /\ UNCHANGED <<case, word, work, begun, over, since, due, file>>
  BY DEF Deliver, Pass, Hook, SurfaceStays
<1>3. Quiet' <=> Quiet
  BY DEF Deliver, Quiet, Observe, EndedOnCompaction, Pass
<1>4. AgentOK' /\ ToldOK'
  BY <1>2 DEF Counted, AgentOK, ToldOK, Words, Dues, Landed, Compacts, Blips, Begins, Frames, Asked, Owned,
     Unowned, Hooks, InBlip, KeepsStatus, Lately, SurfaceStays
<1>5. ReadOK(Pass)' /\ ReadOK(Hook)' /\ Transcript' /\ NoCut'
  BY <1>2 DEF Counted, ReadOK, Steps, Lengths, Newest, Says, Transcript, NoCut, KeepsStatus
<1>6. InOrder' /\ SurfaceOK'
  BY <1>2 DEF Counted, InOrder, SurfaceOK, Ranked, Late, Precedes, Statuses, Holds, Unread, Unprimed,
     WatchNewest, WatchTurns, Pending, InTurn, Idling, Thinking, SurfaceStays
<1>7. Unpassed'
  BY <1>2 DEF Counted, Unpassed, Behind, BehindHook, PendedTail, PendedHook, Pended, SurfaceStays
<1>8. Grace'
  BY <1>2 DEF Counted, Grace, GraceIdle, GraceDue, GraceNone, GraceTail, GraceCount, GracePass, GraceOlder,
     GraceHook, GraceStale, Idling, InFile, KeepsStatus, Same, SincePass, Within, SurfaceStays
<1>9. AtRest' /\ Owing'
  BY <1>2 DEF Counted, AtRest, Owing, CalmKnown, CalmTail, CalmSame, CalmThinks, CalmNone, RestedWatch,
     RestedCount, OwesThread, OwesRead, OwesNewer, Calm, Idling, KeepsStatus, Lately, Owes, Rested, SincePass,
     Thinking, SurfaceStays
<1>10. Held' /\ RunsAreTurns'
  BY <1>2, <1>3 DEF Counted, Held, HeldBlip, HeldBusy, HeldRead, HeldStale, HeldCompact, HeldNone, HeldHook,
     HeldPass, RunsAreTurns, Busy, InBlip, Long, SincePass, Thinking, SurfaceStays
<1> QED BY <1>4, <1>5, <1>6, <1>7, <1>8, <1>9, <1>10 DEF Counted

\* The pass looks: what it finds of a rested agent is a compaction or a turn that is
\* not counted, and of a blip an end too young to be believed.
LEMMA CountedLookPass ==
  ASSUME RunsTyped, RunsTyped', Timely, Plain, Counted, Look("pass")
  PROVE  Counted'
<1>1. Measured /\ Measured'
  BY MeasuredTyped, PTL
<1>2. /\ Finds(Pass) /\ Hook' = Hook /\ AgentStays /\ SurfaceStays
      /\ Started(Hook) => ~Hook.older
  BY LookFinds, OtherIs DEF Counted, AgentOK, Pass, Hook, Sources, Finds, Started, Looked
<1>3. Quietly /\ Quietly'
  BY QuietFields, PTL
<1>4. AgentOK' /\ ToldOK'
  BY <1>1, <1>2 DEF Measured, Numbers, Counted, AgentOK, ToldOK, Words, Dues, Landed, Compacts, Blips, Begins,
     Frames, Asked, Owned, Unowned, HasTail, Hooks, InBlip, KeepsStatus, Lately, Looked, Started, Finds,
     AgentStays, SurfaceStays
<1>5. ReadOK(Pass)' /\ ReadOK(Hook)' /\ Transcript' /\ NoCut'
  BY <1>1, <1>2 DEF Measured, Numbers, Never, Counted, AgentOK, ReadOK, Steps, Lengths, Newest, Says,
     Transcript, NoCut, Landed, HasTail, KeepsStatus, Looked, Finds, AgentStays, SurfaceStays
<1>6. InOrder' /\ SurfaceOK'
  BY <1>1, <1>2 DEF Measured, Numbers, Sizes, Never, Counted, InOrder, ReadOK, SurfaceOK, Ranked, Late,
     Precedes, Statuses, Holds, Unread, Unprimed, WatchNewest, WatchTurns, Pending, InTurn, Steps, Lengths,
     HasTail, Idling, Started, Thinking, Finds, AgentStays, SurfaceStays
<1>7. Unpassed'
  BY <1>2 DEF Never, Counted, SurfaceOK, Unpassed, Behind, BehindHook, PendedTail, PendedHook, WatchNewest,
     WatchTurns, Pending, HasTail, Pended, Finds, SurfaceStays
<1>8. Grace'
  <2>1. GraceIdle' /\ GraceDue' /\ GraceNone' /\ GraceTail(Hook)' /\ GraceCount(Hook)' /\ GraceOlder' /\
     GraceHook' /\ GraceStale'
    BY <1>2 DEF Counted, Grace, GraceIdle, GraceDue, GraceNone, GraceTail, GraceCount, GraceOlder, GraceHook,
       GraceStale, Idling, InFile, KeepsStatus, Looked, Same, SincePass, Started, Within, Finds, AgentStays,
       SurfaceStays
  <2>2. GraceTail(Pass)'
    BY <1>1, <1>2 DEF Measured, Numbers, Sizes, Never, Counted, AgentOK, Grace, GraceTail, Dues, Landed,
       RunsAreTurns, GraceDue, HasTail, Within, Finds, SurfaceStays
  <2>3. GraceCount(Pass)'
    BY <1>2 DEF Never, Counted, SurfaceOK, GraceCount, WatchTurns, HasTail, Finds, SurfaceStays
  <2>4. GracePass'
    BY <1>1, <1>2 DEF Measured, Numbers, Never, Counted, Grace, GracePass, HasTail, Same, Within, Finds,
       SurfaceStays
  <2> QED BY <2>1, <2>2, <2>3, <2>4 DEF Grace
<1>9. AtRest' /\ Owing'
  BY <1>1, <1>2 DEF Measured, Numbers, Sizes, Never, Counted, AgentOK, AtRest, Grace, Owing, SurfaceOK, ToldOK,
     CalmKnown, CalmTail, CalmSame, CalmThinks, CalmNone, RestedWatch, RestedCount, OwesThread, OwesRead,
     OwesNewer, Dues, Landed, Begins, Unprimed, WatchNewest, Words, Compacts, Statuses, GraceNone, Asked,
     Owned, Calm, HasTail, Idling, KeepsStatus, Lately, Looked, Owes, Rested, SincePass, Started, Thinking,
     Finds, AgentStays, SurfaceStays
<1>10. Held'
  <2>1. HeldBlip' /\ HeldBusy' /\ HeldRead(Hook)' /\ HeldStale' /\ HeldNone' /\ HeldHook'
    BY <1>2 DEF Counted, Held, HeldBlip, HeldBusy, HeldRead, HeldStale, HeldNone, HeldHook, Busy, InBlip, Long,
       Looked, SincePass, Thinking, Finds, AgentStays, SurfaceStays, Started
  <2>2. HeldRead(Pass)'
    BY <1>1, <1>2 DEF Measured, Numbers, Counted, AgentOK, HeldRead, Landed, Begins, Busy, Finds, AgentStays
  <2>3. HeldCompact'
    BY <1>1, <1>2 DEF Measured, Numbers, Counted, AgentOK, Held, Owing, HeldCompact, Words, OwesThread, Owes,
       Thinking, Finds, AgentStays, SurfaceStays
  <2>4. HeldPass'
    <3> SUFFICES ASSUME Pass'.state = "finished", Thinking, Long(Pass), thread.runs = over
                 PROVE  Quiet' /\ ~Hook.older
      BY <1>1, <1>2 DEF HeldPass, Finds, SurfaceStays, AgentStays, Thinking, Long, Counted, RunsAreTurns,
         Measured, Numbers, Sizes
    <3>1. work # "turn"
      BY <1>1, <1>2 DEF Finds, Measured, Numbers, Sizes, Timely, Long, Never, Counted, AgentOK, Blips, Landed,
         Begins, Held, HeldBlip, InBlip
    <3>2. KeepsStatus /\ Lately /\ watch.primed /\ watch.counted = over /\ watch.current = over
      BY <1>1, <3>1 DEF Measured, Numbers, Counted, Owing, OwesThread, Owes
    <3>3. work = "none"
      BY <1>1, <1>2, <3>1, <3>2 DEF Finds, Measured, Counted, AgentOK, Words
    <3>4. heldSince <= since + MaxDelay /\ heldSince - Pass.age >= Confirm
      BY <3>3 DEF Counted, Held, HeldNone, Long
    <3>5. since > Pass.age + MaxLag + MaxDelay
      BY <1>1, <3>4 DEF Measured, Numbers, Sizes, Timely
    <3>6. due.what = "none" /\ file.compacted /\ file.turn = over /\ over > 0
      BY <1>1, <3>2, <3>3, <3>5 DEF Measured, Numbers, Sizes, Counted, AgentOK, Dues, Landed, Compacts, Lately
    <3>7. ~Hook.older
      BY <3>2, <3>3 DEF Counted, ReadOK, Steps, ToldOK, Asked
    <3>8. Pass.known = watch.len
      BY <1>2, <3>2 DEF Finds, Counted, AtRest, CalmKnown, Calm
    <3>9. CASE file.len = Pass.known
      <4>1. watch.compacted
        BY <3>6, <3>8, <3>9 DEF Counted, SurfaceOK, WatchNewest
      <4>2. ~HasTail(Pass')
        BY <1>2, <3>2, <3>9 DEF Finds, HasTail, Never
      <4> QED BY <1>2, <1>3, <3>2, <3>7, <4>1, <4>2 DEF Quietly, SurfaceStays, HasTail
    <3>10. CASE file.len # Pass.known
      <4>1. Pass'.tail.len = file.len /\ Pass'.tail.turn = over /\ Pass'.tail.compacted
        BY <1>2, <3>2, <3>6, <3>10 DEF Finds
      <4>2. HasTail(Pass')
        BY <1>1, <4>1 DEF HasTail, Never, Measured, Numbers
      <4> QED BY <1>1, <1>2, <1>3, <3>2, <3>6, <3>7, <4>1, <4>2 DEF Quietly, SurfaceStays, HasTail, Measured, Numbers
    <3> QED BY <3>9, <3>10
  <2> QED BY <2>1, <2>2, <2>3, <2>4 DEF Held
<1>11. RunsAreTurns'
  BY <1>2 DEF Counted, RunsAreTurns, AgentStays, SurfaceStays
<1> QED BY <1>4, <1>5, <1>6, <1>7, <1>8, <1>9, <1>10, <1>11 DEF Counted

\* The reading a frame asked for looks; no compaction comes so soon after a frame.
LEMMA CountedLookHook ==
  ASSUME RunsTyped, RunsTyped', Timely, Plain, Counted, Look("hook")
  PROVE  Counted'
<1>1. Measured /\ Measured'
  BY MeasuredTyped, PTL
<1>2. /\ Finds(Hook) /\ Pass' = Pass /\ AgentStays /\ SurfaceStays
      /\ Started(Pass) => ~Pass.older
  BY LookFinds, OtherIs DEF Counted, AgentOK, Pass, Hook, Sources, Finds, Started, Looked
<1>3. Quiet' <=> Quiet
  BY <1>2 DEF Quiet, Observe, EndedOnCompaction, SurfaceStays
<1>4. AgentOK' /\ ToldOK'
  BY <1>2 DEF Counted, AgentOK, ToldOK, Words, Dues, Landed, Compacts, Blips, Begins, Frames, Asked, Owned,
     Unowned, Hooks, InBlip, KeepsStatus, Lately, Started, Finds, AgentStays, SurfaceStays
<1>5. ReadOK(Pass)' /\ ReadOK(Hook)' /\ Transcript' /\ NoCut'
  BY <1>1, <1>2 DEF Measured, Numbers, Never, Counted, AgentOK, ReadOK, Steps, Lengths, Newest, Says,
     Transcript, NoCut, Landed, Compacts, HasTail, KeepsStatus, Lately, Looked, Finds, AgentStays, SurfaceStays
<1>6. InOrder' /\ SurfaceOK'
  BY <1>1, <1>2 DEF Measured, Numbers, Sizes, Never, Counted, InOrder, ReadOK, SurfaceOK, Ranked, Late,
     Precedes, Statuses, Holds, Unread, Unprimed, WatchNewest, WatchTurns, Pending, InTurn, Lengths, Steps,
     HasTail, Idling, Started, Thinking, Finds, AgentStays, SurfaceStays
<1>7. Unpassed'
  BY <1>1, <1>2 DEF Measured, Numbers, Never, Counted, AgentOK, SurfaceOK, Unpassed, Behind, BehindHook,
     PendedTail, PendedHook, WatchNewest, WatchTurns, Landed, Pending, HasTail, Pended, Finds, SurfaceStays
<1>8. Grace'
  BY <1>1, <1>2 DEF Measured, Numbers, Sizes, Never, Counted, AgentOK, Grace, SurfaceOK, GraceIdle, GraceDue,
     GraceNone, GraceTail, GraceCount, GracePass, GraceOlder, GraceHook, GraceStale, Dues, Landed,
     RunsAreTurns, WatchTurns, HasTail, Idling, InFile, KeepsStatus, Same, SincePass, Within, Finds,
     AgentStays, SurfaceStays
<1>9. AtRest' /\ Owing'
  BY <1>2 DEF Counted, AgentOK, AtRest, Owing, ToldOK, CalmKnown, CalmTail, CalmSame, CalmThinks, CalmNone,
     RestedWatch, RestedCount, OwesThread, OwesRead, OwesNewer, Words, Asked, Owned, Calm, Idling, KeepsStatus,
     Lately, Owes, Rested, SincePass, Started, Thinking, Finds, AgentStays, SurfaceStays
<1>10. Held' /\ RunsAreTurns'
  BY <1>1, <1>2, <1>3 DEF Measured, Numbers, Sizes, Timely, Counted, AgentOK, Held, ToldOK, HeldBlip, HeldBusy,
     HeldRead, HeldStale, HeldCompact, HeldNone, HeldHook, HeldPass, RunsAreTurns, Asked, Owned, Blips, Busy,
     InBlip, Long, SincePass, Started, Thinking, Finds, AgentStays, SurfaceStays
<1> QED BY <1>4, <1>5, <1>6, <1>7, <1>8, <1>9, <1>10 DEF Counted

\* The pass is used: an end it lets through is the end of a turn not counted, what it
\* counts from the file has been there for Confirm, and it adopts the turns of a run.
LEMMA CountedApplyPass ==
  ASSUME RunsTyped, RunsTyped', Timely, Plain, Counted, Apply("pass")
  PROVE  Counted'
<1>1. Measured /\ Measured'
  BY MeasuredTyped, PTL
<1>2. /\ Uses(Pass) /\ AgentStays
      /\ Pass'.at = "none" /\ Pass'.known = 0 - 1 /\ Blank(Pass')
      /\ AsLooked(Hook', Hook) /\ Hook'.older = Hook.older
      /\ Hook'.stale <=> Hook.stale \/ (Hook.older /\ ~Stale(Pass))
      /\ timer' = 0
  BY ApplyUses, OtherIs DEF Pass, Hook, Sources, Uses, Looked, Observes, Silent, Works, Finishes, Rests, Drops,
     Adopts, Pends, Settles, Stale, HasTail, First, Long, Near, Between, EndedOnCompaction
<1>3. AgentOK' /\ ToldOK'
  BY <1>2 DEF Counted, AgentOK, ReadOK, ToldOK, Words, Dues, Landed, Compacts, Blips, Begins, Frames, Asked,
     Owned, Unowned, Says, Hooks, InBlip, KeepsStatus, Lately, Started, Blank, AsLooked, AgentStays, Uses,
     Observes, Silent, Works, Finishes, Rests, Stale
<1>4. ReadOK(Pass)' /\ ReadOK(Hook)' /\ Transcript' /\ NoCut'
  BY <1>1, <1>2 DEF Measured, Numbers, Never, Counted, ReadOK, ToldOK, Steps, Lengths, Newest, Says,
     Transcript, NoCut, Asked, Owned, HasTail, KeepsStatus, Looked, Started, Blank, AsLooked, AgentStays, Uses,
     Observes, Silent, Works, Finishes, Rests, Stale
<1>5. InOrder' /\ SurfaceOK'
  BY <1>1, <1>2 DEF Measured, Numbers, Sizes, Never, Counted, Grace, InOrder, ReadOK, SurfaceOK, Ranked, Late,
     Precedes, Statuses, Holds, Unread, Unprimed, WatchNewest, WatchTurns, Pending, InTurn, Says, Lengths,
     Newest, GraceCount, HasTail, Idling, Looked, Thinking, Blank, AgentStays, Uses, Observes, Silent, Works,
     Finishes, Rests, Drops, Adopts, Pends, Settles
<1>6. Unpassed'
  BY <1>1, <1>2 DEF Measured, Numbers, Sizes, Never, Counted, InOrder, ReadOK, Unpassed, Behind, BehindHook,
     PendedTail, PendedHook, Steps, Ranked, Precedes, Lengths, HasTail, Looked, Pended, Blank, AsLooked, Uses,
     Observes, Silent, Works, Finishes, Rests, Drops, Adopts, Pends, Settles, Stale
<1>7. Grace'
  BY <1>1, <1>2 DEF Measured, Numbers, Sizes, Timely, Never, Counted, AgentOK, Grace, Held, InOrder, ReadOK,
     SurfaceOK, ToldOK, Unpassed, GraceIdle, GraceDue, GraceNone, GraceTail, GraceCount, GracePass, GraceOlder,
     GraceHook, GraceStale, Steps, Says, Statuses, Unread, WatchTurns, Landed, Pending, Lengths, Transcript,
     HeldPass, Behind, Asked, Owned, Ranked, Precedes, PendedTail, Between, HasTail, Idling, InFile,
     KeepsStatus, Looked, Near, Pended, Same, SincePass, Started, Thinking, Within, Blank, AsLooked,
     AgentStays, Uses, Observes, Silent, Works, Finishes, Rests, Drops, Adopts, Pends, Settles, Stale, Quiet
<1>8. AtRest' /\ Owing'
  BY <1>1, <1>2 DEF Measured, Numbers, Sizes, Timely, Never, Counted, AtRest, Grace, Held, InOrder, Owing,
     ReadOK, SurfaceOK, ToldOK, Unpassed, CalmKnown, CalmTail, CalmSame, CalmThinks, CalmNone, RestedWatch,
     RestedCount, OwesThread, OwesRead, OwesNewer, Steps, Says, Unread, Unprimed, Behind, InTurn, GraceIdle,
     Unowned, Asked, Ranked, Precedes, BehindHook, Pending, HeldPass, Calm, HasTail, Idling, InFile,
     KeepsStatus, Lately, Looked, Owes, Rested, SincePass, Started, Thinking, Within, Blank, AsLooked,
     AgentStays, Uses, Observes, Silent, Works, Finishes, Rests, Drops, Adopts, Settles, Stale, Near, Between,
     Quiet
<1>9. Held' /\ RunsAreTurns'
  BY <1>1, <1>2 DEF Measured, Numbers, Sizes, Timely, Never, Counted, AgentOK, Grace, Held, ReadOK, SurfaceOK,
     HeldBlip, HeldBusy, HeldRead, HeldStale, HeldCompact, HeldNone, HeldHook, HeldPass, RunsAreTurns, Landed,
     Unread, WatchTurns, Lengths, GraceIdle, GraceCount, Between, Busy, Idling, InBlip, InFile, Long, Looked,
     Near, SincePass, Thinking, Within, Blank, AsLooked, AgentStays, Uses, Observes, Silent, Works, Finishes,
     Rests, Stale, First, Quiet
<1> QED BY <1>3, <1>4, <1>5, <1>6, <1>7, <1>8, <1>9 DEF Counted

\* The same for the reading that a frame asked for, which may be stale.
LEMMA CountedApplyHook ==
  ASSUME RunsTyped, RunsTyped', Timely, Plain, Counted, Apply("hook")
  PROVE  Counted'
<1>1. Measured /\ Measured'
  BY MeasuredTyped, PTL
<1>2. /\ Uses(Hook) /\ AgentStays
      /\ Hook'.at = "none" /\ Hook'.known = 0 - 1 /\ Blank(Hook')
      /\ AsLooked(Pass', Pass) /\ Pass'.older = Pass.older
      /\ Pass'.stale <=> Pass.stale \/ (Pass.older /\ ~Stale(Hook))
      /\ timer' = timer
  BY ApplyUses, OtherIs DEF Pass, Hook, Sources, Uses, Looked, Observes, Silent, Works, Finishes, Rests, Drops,
     Adopts, Pends, Settles, Stale, HasTail, First, Long, Near, Between, EndedOnCompaction
<1>3. AgentOK' /\ ToldOK'
  BY <1>2 DEF Counted, AgentOK, ReadOK, ToldOK, Words, Dues, Landed, Compacts, Blips, Begins, Frames, Asked,
     Owned, Unowned, Says, Hooks, InBlip, KeepsStatus, Lately, Looked, AgentStays, Uses, Observes, Silent,
     Works, Finishes, Rests
<1>4. ReadOK(Pass)' /\ ReadOK(Hook)' /\ Transcript' /\ NoCut'
  BY <1>2 DEF Never, Counted, ReadOK, ToldOK, Steps, Lengths, Newest, Says, Transcript, NoCut, Asked, Owned,
     HasTail, KeepsStatus, Looked, Started, Blank, AsLooked, AgentStays, Uses
<1>5. InOrder' /\ SurfaceOK'
  BY <1>1, <1>2 DEF Measured, Numbers, Never, Counted, Grace, InOrder, ReadOK, SurfaceOK, Ranked, Late,
     Precedes, Statuses, Holds, Unread, Unprimed, WatchNewest, WatchTurns, Pending, InTurn, Says, Lengths,
     Newest, GraceCount, HasTail, Idling, Looked, Thinking, Blank, AgentStays, Uses, Observes, Silent, Works,
     Finishes, Rests, Drops, Adopts, Pends, Settles
<1>6. Unpassed'
  BY <1>1, <1>2 DEF Measured, Numbers, Sizes, Never, Counted, InOrder, ReadOK, Unpassed, Behind, BehindHook,
     PendedTail, PendedHook, Steps, Ranked, Precedes, HasTail, Looked, Pended, Blank, AsLooked, Uses, Observes,
     Silent, Works, Finishes, Rests, Drops, Adopts, Pends, Settles, Stale
<1>7. Grace'
  BY <1>1, <1>2 DEF Measured, Numbers, Sizes, Timely, Never, Counted, AgentOK, Grace, InOrder, ReadOK,
     SurfaceOK, ToldOK, Unpassed, GraceIdle, GraceDue, GraceNone, GraceTail, GraceCount, GracePass, GraceOlder,
     GraceHook, GraceStale, Steps, Says, Pending, Landed, WatchTurns, Asked, Owned, PendedTail, Ranked,
     Precedes, Behind, Late, Between, HasTail, Idling, InFile, KeepsStatus, Looked, Near, Pended, Same,
     SincePass, Started, Thinking, Within, Blank, AsLooked, AgentStays, Uses, Observes, Silent, Works,
     Finishes, Rests, Drops, Adopts, Pends, Settles, Stale
<1>8. AtRest' /\ Owing'
  BY <1>1, <1>2 DEF Measured, Numbers, Sizes, Timely, Counted, AgentOK, AtRest, Grace, Held, InOrder, Owing,
     ReadOK, SurfaceOK, ToldOK, Unpassed, CalmKnown, CalmTail, CalmSame, CalmThinks, CalmNone, RestedWatch,
     RestedCount, OwesThread, OwesRead, OwesNewer, Dues, Compacts, Asked, Steps, Lengths, Late, Behind, Owned,
     Ranked, Precedes, BehindHook, InTurn, GraceIdle, HeldHook, Calm, Idling, InFile, Lately, Looked, Owes,
     Rested, SincePass, Thinking, Within, Blank, AsLooked, AgentStays, Uses, Observes, Silent, Works, Finishes,
     Rests, Stale, Near, Between
<1>9. Held' /\ RunsAreTurns'
  BY <1>1, <1>2 DEF Measured, Numbers, Sizes, Timely, Never, Counted, Grace, Held, InOrder, ReadOK, SurfaceOK,
     ToldOK, Unpassed, HeldBlip, HeldBusy, HeldRead, HeldStale, HeldCompact, HeldNone, HeldHook, HeldPass,
     RunsAreTurns, Steps, Precedes, Asked, Owned, Ranked, Pending, PendedHook, GraceIdle, Busy, InBlip, InFile,
     Long, Looked, Pended, SincePass, Within, Blank, AsLooked, AgentStays, Uses, Silent, Works, Finishes,
     Rests, Stale, First, Near, Between
<1> QED BY <1>3, <1>4, <1>5, <1>6, <1>7, <1>8, <1>9 DEF Counted

\* A second passes: what may take no longer is done first.
LEMMA CountedTick ==
  ASSUME RunsTyped, RunsTyped', Timely, Plain, Counted, Tick
  PROVE  Counted'
<1>1. Measured /\ Measured'
  BY MeasuredTyped, PTL
<1>2. /\ frame = "none" /\ (timer < Interval \/ Pass.at # "none") /\ (InBlip => since < MaxBlip)
      /\ due.what # "none" => due.age < MaxLag /\ due'.age = due.age + 1
      /\ due.what = "none" => due'.age = due.age
      /\ due'.what = due.what
      /\ timer < Interval => timer' = timer + 1
      /\ timer >= Interval => timer' = timer
      /\ since < Rest => since' = since + 1
      /\ since >= Rest => since' = since
      /\ UNCHANGED <<case, word, work, begun, over, file, frame, thread, running>>
      /\ Ages(heldSince, heldSince') /\ Ages(watch.settled, watch'.settled)
      /\ watch.pending # 0 => Ages(watch.since, watch'.since)
      /\ watch'.len = watch.len /\ watch'.current = watch.current /\ watch'.counted = watch.counted
      /\ watch'.primed = watch.primed /\ watch'.pending = watch.pending /\ watch'.compacted = watch.compacted
  BY TickDoes
<1>3. Older(Pass) /\ Older(Hook) /\ (Quiet' <=> Quiet)
  BY TickOlder
<1>4. AgentOK' /\ ToldOK'
  BY <1>1, <1>2, <1>3 DEF Measured, Numbers, Sizes, Timely, Counted, AgentOK, ToldOK, Words, Dues, Landed,
     Compacts, Blips, Begins, Frames, Asked, Owned, Unowned, HasTail, Hooks, InBlip, KeepsStatus, Lately,
     Looked, Started, Older
<1>5. ReadOK(Pass)' /\ ReadOK(Hook)' /\ Transcript' /\ NoCut'
  BY <1>2, <1>3 DEF Counted, ReadOK, Steps, Lengths, Newest, Says, Transcript, NoCut, HasTail, KeepsStatus,
     Looked, Started, Older
<1>6. InOrder' /\ SurfaceOK'
  BY <1>1, <1>2, <1>3 DEF Measured, Numbers, Sizes, Never, Counted, InOrder, ReadOK, SurfaceOK, Ranked, Late,
     Precedes, Statuses, Holds, Unread, Unprimed, WatchNewest, WatchTurns, Pending, InTurn, Steps, HasTail,
     Idling, Looked, Started, Thinking, Ages, Older
<1>7. Unpassed'
  BY <1>1, <1>2, <1>3 DEF Measured, Numbers, Sizes, Counted, ReadOK, Unpassed, Behind, BehindHook, PendedTail,
     PendedHook, Steps, HasTail, Looked, Pended, Ages, Older
<1>8. Grace'
  BY <1>1, <1>2, <1>3 DEF Measured, Numbers, Sizes, Timely, Never, Counted, Grace, ReadOK, GraceIdle, GraceDue,
     GraceNone, GraceTail, GraceCount, GracePass, GraceOlder, GraceHook, GraceStale, Steps, Between, HasTail,
     Idling, InFile, KeepsStatus, Looked, Near, Same, SincePass, Started, Within, Ages, Older
<1>9. AtRest' /\ Owing'
  BY <1>1, <1>2, <1>3 DEF Measured, Numbers, Sizes, Counted, AtRest, Owing, ReadOK, CalmKnown, CalmTail,
     CalmSame, CalmThinks, CalmNone, RestedWatch, RestedCount, OwesThread, OwesRead, OwesNewer, Steps, Calm,
     HasTail, Idling, KeepsStatus, Lately, Looked, Owes, Rested, SincePass, Started, Thinking, Older
<1>10. Held'
  <2>1. HeldBlip'
    <3> SUFFICES ASSUME InBlip PROVE heldSince' <= since' + MaxDelay
      BY <1>2 DEF HeldBlip, InBlip
    <3>1. since' = since + 1 /\ heldSince <= since + MaxDelay
      BY <1>1, <1>2 DEF Measured, Numbers, Timely, Counted, Held, HeldBlip
    <3>2. heldSince' < 0 \/ heldSince' <= heldSince + 1
      BY <1>1, <1>2 DEF Measured, Numbers, Ages
    <3> QED BY <1>1, <3>1, <3>2 DEF Measured, Numbers
  <2>2. HeldBusy'
    <3>1. CASE heldSince < 0
      BY <1>1, <1>2, <3>1 DEF Measured, Numbers, Never, Counted, HeldBusy, Ages
    <3>2. CASE heldSince >= 0 /\ Pass.at = "none"
      BY <1>1, <1>2, <1>3, <3>2 DEF Measured, Numbers, Never, Counted, Held, HeldBusy, Busy, SincePass, Older
    <3>3. CASE heldSince >= 0 /\ Pass.at # "none"
      BY <1>1, <1>2, <1>3, <3>3 DEF Measured, Numbers, Sizes, Never, Counted, Held, HeldBusy, Busy, SincePass,
         Older
    <3> QED BY <1>1, <3>1, <3>2, <3>3 DEF Measured, Numbers
  <2>3. HeldRead(Pass)'
    BY <1>1, <1>2, <1>3 DEF Measured, Numbers, Sizes, Counted, Held, HeldRead, Busy, Looked, Older
  <2>4. HeldRead(Hook)'
    BY <1>1, <1>2, <1>3 DEF Measured, Numbers, Sizes, Counted, Held, HeldRead, Busy, Looked, Older
  <2>5. HeldStale'
    BY <1>1, <1>2, <1>3 DEF Measured, Numbers, Sizes, Never, Counted, Held, ReadOK, HeldStale, Steps, Busy,
       Ages, Older
  <2>6. HeldCompact'
    BY <1>1, <1>2, <1>3 DEF Measured, Numbers, Never, Counted, Held, HeldCompact, Looked, Thinking, Ages, Older
  <2>7. HeldNone'
    <3> SUFFICES ASSUME work = "none", Thinking, thread.runs = over PROVE heldSince' <= since' + MaxDelay
      BY <1>2 DEF HeldNone, Thinking
    <3>1. heldSince <= since + MaxDelay
      BY DEF Counted, Held, HeldNone
    <3>2. heldSince' < 0 \/ heldSince' <= heldSince + 1
      BY <1>1, <1>2 DEF Measured, Numbers, Ages
    <3>3. CASE since < Rest
      BY <1>1, <1>2, <3>1, <3>2, <3>3 DEF Measured, Numbers
    <3>4. CASE ~(since < Rest)
      <4>1. since' = since /\ since \in Nat /\ since >= Confirm
        BY <1>1, <1>2, <3>4 DEF Measured, Numbers, Timely
      <4>2. heldSince' \in Int /\ heldSince' <= Confirm + MaxDelay /\ Confirm \in Nat /\ MaxDelay \in Nat
        BY <1>1 DEF Measured, Numbers
      <4> QED BY <4>1, <4>2
    <3> QED BY <3>3, <3>4
  <2>8. HeldHook'
    BY <1>1, <1>2, <1>3 DEF Measured, Numbers, Sizes, Never, Counted, Held, ReadOK, HeldHook, Steps, Long,
       Looked, Thinking, Ages, Older
  <2>9. HeldPass'
    BY <1>1, <1>2, <1>3 DEF Measured, Numbers, Sizes, Never, Counted, Held, ReadOK, HeldPass, Steps, Long,
       Looked, Thinking, Ages, Older
  <2> QED BY <2>1, <2>2, <2>3, <2>4, <2>5, <2>6, <2>7, <2>8, <2>9 DEF Held
<1>11. RunsAreTurns'
  BY <1>2 DEF Counted, RunsAreTurns
<1> QED BY <1>4, <1>5, <1>6, <1>7, <1>8, <1>9, <1>10, <1>11 DEF Counted

\* Nothing happens.
LEMMA CountedStays ==
  ASSUME RunsTyped, RunsTyped', Timely, Plain, Counted, Pass' = Pass, Hook' = Hook, SurfaceStays, AgentStays, Quiet' <=> Quiet
  PROVE  Counted'
<1>1. Measured /\ Measured'
  BY MeasuredTyped, PTL
<1>2. AgentOK' /\ ToldOK'
  BY DEF Counted, AgentOK, ToldOK, Words, Dues, Landed, Compacts, Blips, Begins, Frames, Asked, Owned, Unowned,
     Hooks, InBlip, KeepsStatus, Lately, SurfaceStays, AgentStays
<1>3. ReadOK(Pass)' /\ ReadOK(Hook)' /\ Transcript' /\ NoCut'
  BY DEF Counted, ReadOK, Steps, Lengths, Newest, Says, Transcript, NoCut, KeepsStatus, SurfaceStays,
     AgentStays
<1>4. InOrder' /\ SurfaceOK'
  BY DEF Counted, InOrder, SurfaceOK, Ranked, Late, Precedes, Statuses, Holds, Unread, Unprimed, WatchNewest,
     WatchTurns, Pending, InTurn, Idling, Thinking, SurfaceStays, AgentStays
<1>5. Unpassed'
  BY DEF Counted, Unpassed, Behind, BehindHook, PendedTail, PendedHook, Pended, SurfaceStays
<1>6. Grace'
  BY DEF Counted, Grace, GraceIdle, GraceDue, GraceNone, GraceTail, GraceCount, GracePass, GraceOlder,
     GraceHook, GraceStale, Idling, InFile, KeepsStatus, Same, SincePass, Within, SurfaceStays, AgentStays
<1>7. AtRest' /\ Owing'
  BY DEF Counted, AtRest, Owing, CalmKnown, CalmTail, CalmSame, CalmThinks, CalmNone, RestedWatch, RestedCount,
     OwesThread, OwesRead, OwesNewer, Calm, Idling, KeepsStatus, Lately, Owes, Rested, SincePass, Thinking,
     SurfaceStays, AgentStays
<1>8. Held' /\ RunsAreTurns'
  BY DEF Counted, Held, HeldBlip, HeldBusy, HeldRead, HeldStale, HeldCompact, HeldNone, HeldHook, HeldPass,
     RunsAreTurns, Busy, InBlip, Long, SincePass, Thinking, SurfaceStays, AgentStays
<1> QED BY <1>2, <1>3, <1>4, <1>5, <1>6, <1>7, <1>8 DEF Counted

\* A frame asks for a reading where the detector speaks for the surface, and it
\* does wherever a hook has told of a turn.
LEMMA CountedDeliver ==
  ASSUME RunsTyped, RunsTyped', Timely, Plain, Counted, Deliver
  PROVE  Counted'
<1>1. thread.owned
  BY DEF Deliver, Counted, ToldOK, Frames, Owned
<1>2. Accelerate
  BY <1>1 DEF Deliver, HookSpeaks
<1>3. CASE Hook.at # "none"
  BY <1>2, <1>3, CountedDeliverBusy DEF Accelerate, Hook
<1>4. CASE Hook.at = "none"
  BY <1>1, <1>2, <1>4, CountedDeliverBegin DEF Accelerate, Hook
<1> QED BY <1>3, <1>4

\* In the beginning nothing was begun, read or counted.
LEMMA CountedInit == RunsInit => Counted
<1> SUFFICES ASSUME RunsInit PROVE Counted
  OBVIOUS
<1>1. Pass = NoReading /\ Hook = NoReading
  BY DEF RunsInit, Pass, Hook
<1>2. /\ Blank(NoReading) /\ NoReading.at = "none" /\ NoReading.known = 0 - 1
  BY DEF NoReading, Blank, NoTail, Never
<1>3. /\ word = "idle" /\ work = "none" /\ begun = 0 /\ over = 0 /\ since = 0 /\ due.what = "none"
      /\ file.len = 0 /\ file.turn = 0 /\ ~file.compacted /\ frame = "none" /\ timer = Interval
      /\ thread.status = "idle" /\ ~thread.owned /\ thread.runs = 0 /\ ~running /\ heldSince = 0 - 1
      /\ watch.len = 0 - 1 /\ watch.current = 0 /\ watch.counted = 0 /\ ~watch.primed
      /\ watch.pending = 0 /\ ~watch.compacted
  BY DEF RunsInit, Never
<1>4. /\ Pass.at = "none" /\ Pass.known = 0 - 1 /\ Blank(Pass)
      /\ Hook.at = "none" /\ Hook.known = 0 - 1 /\ Blank(Hook)
  BY <1>1, <1>2
<1> USE <1>3, <1>4 DEF Blank, Looked, Started, HasTail, Never
<1>5. AgentOK /\ ToldOK
  BY DEF AgentOK, Words, Dues, Landed, Compacts, Lately, Blips, InBlip, Begins, ToldOK, Frames, Asked, Owned, Unowned
<1>6. ReadOK(Pass) /\ ReadOK(Hook) /\ Transcript /\ NoCut /\ InOrder
  BY DEF ReadOK, Steps, Lengths, Newest, Says, Transcript, NoCut, InOrder, Ranked, Late, Precedes
<1>7. SurfaceOK /\ Unpassed
  BY DEF SurfaceOK, Statuses, Idling, Thinking, Holds, Unread, Unprimed, WatchNewest, WatchTurns, Pending, InTurn,
     Unpassed, Behind, BehindHook, Pended, PendedTail, PendedHook
<1>8. Grace
  BY DEF Grace, GraceIdle, InFile, GraceDue, GraceNone, GraceTail, GraceCount, GracePass, GraceOlder, GraceHook,
     GraceStale, Same
<1>9. AtRest /\ Owing /\ Held /\ RunsAreTurns
  BY DEF AtRest, CalmKnown, CalmTail, CalmSame, CalmThinks, CalmNone, RestedWatch, RestedCount, Owing, OwesThread,
     OwesRead, OwesNewer, Held, HeldBlip, InBlip, HeldBusy, HeldRead, HeldStale, HeldCompact, HeldNone, HeldHook,
     HeldPass, Thinking, RunsAreTurns
<1> QED BY <1>5, <1>6, <1>7, <1>8, <1>9 DEF Counted

\* Every step of a plain surface keeps the invariant, and no step makes a surface plain.
LEMMA CountedNext ==
  ASSUME Timely, RunsTyped, Plain => Counted, [RunsNext]_runsVars, Plain'
  PROVE  Counted'
<1>1. Plain /\ Counted /\ RunsTyped'
  <2>1. case' = case
    BY DEF RunsNext, GoesOn, Tick, BeginPass, Deliver, Look, Apply, RecordLands, BlipEnds, BeginTurn, UseTool,
       AskQuestion, EndTurn, BlipBegins, Compact, Compacted, runsVars
  <2> QED BY <2>1, TypedNext DEF Plain, HandsOver, Unheld
<1>2. ~AskQuestion
  BY <1>1 DEF AskQuestion, Plain, Unheld
<1>3. CASE BeginTurn \/ UseTool \/ EndTurn \/ BlipBegins \/ BlipEnds \/ Compact \/ Compacted \/ RecordLands
  BY <1>1, <1>3, CountedBeginTurn, CountedUseTool, CountedEndTurn, CountedBlipBegins, CountedBlipEnds, CountedCompact,
     CountedCompacted, CountedRecordLands
<1>4. CASE BeginPass \/ Deliver \/ Tick
  BY <1>1, <1>4, CountedBeginPass, CountedDeliver, CountedTick
<1>5. ASSUME NEW r \in {"pass", "hook"}, Look(r) \/ Apply(r) PROVE Counted'
  BY <1>1, <1>5, CountedLookPass, CountedLookHook, CountedApplyPass, CountedApplyHook
<1>6. CASE UNCHANGED runsVars
  <2>1. Pass' = Pass /\ Hook' = Hook /\ SurfaceStays /\ AgentStays
    BY <1>6 DEF runsVars, agentVars, windowVars, Pass, Hook, SurfaceStays, AgentStays
  <2>2. Quiet' <=> Quiet
    BY <2>1 DEF Quiet, Observe, EndedOnCompaction, SurfaceStays
  <2> QED BY <1>1, <2>1, <2>2, CountedStays
<1> QED BY <1>2, <1>3, <1>4, <1>5, <1>6 DEF RunsNext, GoesOn

\* The count of an agent's ended turns is never ahead of them: no blip and no
\* compaction is counted, and no turn twice, however the readings of the pass
\* and of the frames interleave. It takes that the times keep to Timely.
THEOREM NeverAheadAlways ==
  ASSUME Timely
  PROVE  RunsSpec => []NeverAhead
<1> DEFINE Inv == RunsTyped /\ (Plain => Counted)
<1>1. RunsInit => Inv
  BY TypedInit, CountedInit
<1>2. Inv /\ [RunsNext]_runsVars => Inv'
  BY TypedNext, CountedNext
<1>3. Inv => NeverAhead
  BY TypedTypeOK DEF Counted, NeverAhead, Plain
<1> QED BY <1>1, <1>2, <1>3, PTL DEF RunsSpec

=============================================================================
