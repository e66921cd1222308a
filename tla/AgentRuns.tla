------------------------------ MODULE AgentRuns ------------------------------
(***************************************************************************)
(* How the window counts the turns of one agent (rail_state.rs,            *)
(* app/agent_state_pass.rs, app/ipc_handler.rs). A pass reads every        *)
(* Interval what the agent's own files say; a hook frame asks for a reading*)
(* out of turn. Both take their time and are applied when they come back.  *)
(* Where no file speaks for the agent the frames themselves do. Time goes  *)
(* in seconds; every instant the code keeps is here its age.               *)
(***************************************************************************)
EXTENDS Integers

CONSTANTS
    Confirm,      \* RUN_END_CONFIRM: how long an end must stay true
    Interval,     \* INTERVAL: the time between two passes
    MaxDelay,     \* bound: the longest a reading takes, from its stamp to its use
    MaxBlip,      \* bound: how long a working agent says idle when a task of its ends
    Rest,         \* bound: how long an agent has rested at least when it compacts (in truth
                  \* the better part of an hour)
    MaxLag,       \* bound: how much later than the word the record lands in the file
    MaxTurns,     \* bound on turns
    Cases         \* what surfaces there are, sets of: "status" (its agent keeps a status
                  \* file), "hooks", "early" (a turn may begin before any reading),
                  \* "asks" (it asks questions), "tasks" (it has background tasks),
                  \* "overtakes" (a reading stamped later may look first)

\* An end is held, passes are apart and a rest is long; what takes time may take none.
ASSUME AgentRunsAssumption ==
    /\ {Confirm, Interval, Rest} \subseteq Nat \ {0}
    /\ {MaxDelay, MaxBlip, MaxLag, MaxTurns} \subseteq Nat

Never == 0 - 1                      \* None, of an instant and of a length
Old == Confirm + MaxDelay           \* ages are told apart up to here
NoTail == [len |-> Never, turn |-> 0, compacted |-> FALSE]
NoReading == [at |-> "none", age |-> 0, known |-> Never, state |-> "none",
              tail |-> NoTail, over |-> 0, turn |-> 0, older |-> FALSE, stale |-> FALSE]

VARIABLES
    case,       \* what this surface is
    word,       \* the agent: the status word it writes,
    work,       \*     what it really does,
    begun,      \*     its turns begun
    over,       \*     and ended,
    blip,       \*     whether this turn has had its blip,
    since,      \*     the seconds since its last step but a frame,
    due,        \*     the record it has still to write, and its age,
    file,       \*     its transcript: length, newest turn end, compaction after it,
    frame,      \*     the hook frame it has sent
    readings,   \* the window: the reading of the pass and of the last frame,
    timer,      \*     the seconds since the last pass,
    thread,     \*     the surface: status, whether the detector owns it, runs_ended,
    running,    \*     whether running_since has the surface,
    heldSince,  \*     its entry of run_end_seen_at
    watch,      \*     its TurnEndWatch
    covered,    \* history: the newest turn that is counted, alone or with others,
    watched     \*     the last turn a reading found the agent at work on

agentVars == <<word, work, begun, over, blip, since, due, file, frame>>
windowVars == <<readings, timer, thread, running, heldSince, watch, covered, watched>>
runsVars == <<case, agentVars, windowVars>>

RunsInit ==
    /\ case \in Cases
    /\ word = "idle" /\ work = "none" /\ begun = 0 /\ over = 0
    /\ blip = FALSE /\ since = 0 /\ due = [what |-> "none", age |-> 0]
    /\ file = [len |-> 0, turn |-> 0, compacted |-> FALSE]
    /\ frame = "none"
    /\ readings = [r \in {"pass", "hook"} |-> NoReading]
    /\ timer = Interval
    /\ thread = [status |-> "idle", owned |-> FALSE, runs |-> 0]
    /\ running = FALSE
    /\ heldSince = Never
    /\ watch = [len |-> Never, current |-> 0, counted |-> 0, primed |-> FALSE,
                settled |-> Never, pending |-> 0, since |-> 0, compacted |-> FALSE]
    /\ covered = 0 /\ watched = 0

(***************************************************************************)
(* The agent. Each step that a hook tells of leaves its frame to deliver.  *)
(***************************************************************************)
Sends(f) == frame' = IF "hooks" \in case THEN f ELSE "none"
Ready == frame = "none" /\ due.what = "none"

BeginTurn ==
    /\ Ready /\ work = "none" /\ begun < MaxTurns
    /\ "early" \notin case => thread.owned
    /\ work' = "turn" /\ word' = "busy" /\ begun' = begun + 1
    /\ blip' = FALSE /\ since' = 0
    /\ file' = [file EXCEPT !.len = @ + 1, !.compacted = FALSE]
    /\ Sends("prompt")
    /\ UNCHANGED <<case, over, due, windowVars>>

UseTool ==
    /\ Ready /\ work = "turn" /\ word # "idle"
    /\ word' = "busy"
    /\ Sends("tool")
    /\ UNCHANGED <<case, work, begun, over, blip, since, due, file, windowVars>>

AskQuestion ==
    /\ "asks" \in case /\ Ready /\ work = "turn" /\ word = "busy"
    /\ word' = "waiting"
    /\ Sends("notification")
    /\ UNCHANGED <<case, work, begun, over, blip, since, due, file, windowVars>>

EndTurn ==
    /\ Ready /\ work = "turn"
    /\ work' = "none" /\ word' = "idle" /\ over' = over + 1
    /\ due' = [what |-> "turn", age |-> 0]
    /\ since' = 0
    /\ Sends("stop")
    /\ UNCHANGED <<case, begun, blip, file, windowVars>>

\* A background task ends: the status says idle until the agent is woken.
BlipBegins ==
    /\ "tasks" \in case /\ Ready /\ work = "turn" /\ word = "busy" /\ ~blip /\ since >= Confirm
    /\ word' = "idle" /\ blip' = TRUE /\ since' = 0
    /\ UNCHANGED <<case, work, begun, over, due, file, frame, windowVars>>

BlipEnds ==
    /\ work = "turn" /\ word = "idle"
    /\ word' = "busy" /\ since' = 0
    /\ UNCHANGED <<case, work, begun, over, blip, due, file, frame, windowVars>>

\* Left idle for long, the agent compacts its conversation. No hook tells.
Compact ==
    /\ Ready /\ work = "none" /\ file.turn > 0 /\ ~file.compacted /\ since = Rest
    /\ work' = "compaction" /\ word' = "busy" /\ since' = 0
    /\ UNCHANGED <<case, begun, over, blip, due, file, frame, windowVars>>

Compacted ==
    /\ work = "compaction"
    /\ work' = "none" /\ word' = "idle" /\ since' = 0 /\ due' = [what |-> "compaction", age |-> 0]
    /\ UNCHANGED <<case, begun, over, blip, file, frame, windowVars>>

RecordLands ==
    /\ due.what # "none"
    /\ due' = [what |-> "none", age |-> 0]
    /\ file' = [len |-> file.len + 1,
                turn |-> IF due.what = "turn" THEN over ELSE file.turn,
                compacted |-> due.what = "compaction"]
    /\ UNCHANGED <<case, word, work, begun, over, blip, since, frame, windowVars>>

(***************************************************************************)
(* Taking a reading: the targets and the stamp, then, on a thread of its   *)
(* own, the word and the file. A reading whose state is "none" could not   *)
(* say.                                                                    *)
(***************************************************************************)
\* Of two readings under way the older is the one that was stamped first.
Other(r) == CHOOSE o \in {"pass", "hook"} : o # r
Begin(r) ==
    readings' = [readings EXCEPT ![r] = [NoReading EXCEPT !.at = "begun", !.known = watch.len],
                                 ![Other(r)].older = readings[Other(r)].at # "none"]

BeginPass ==
    /\ readings["pass"].at = "none" /\ timer = Interval
    /\ Begin("pass")
    /\ UNCHANGED <<case, agentVars, timer, thread, running, heldSince, watch, covered, watched>>

StateOf(w) == CASE w = "idle" -> "finished" [] w = "busy" -> "thinking" [] OTHER -> "waiting"
State ==
    IF "status" \in case THEN StateOf(word)
    ELSE IF file.len = 0 THEN "none"
    ELSE IF word = "waiting" THEN "waiting"
    ELSE IF begun > file.turn THEN "thinking" ELSE "finished"

TurnEnd(known) ==
    IF IF "status" \in case THEN State = "finished" /\ file.len # known ELSE file.len > 0
    THEN file ELSE NoTail

Look(r) ==
    /\ readings[r].at = "begun"
    /\ readings[Other(r)].at = "begun" /\ readings[Other(r)].older => "overtakes" \in case
    /\ readings' = [readings EXCEPT
           ![r] = [@ EXCEPT !.at = "looked", !.known = Never, !.state = State, !.tail = TurnEnd(readings[r].known),
                            !.over = over, !.turn = IF State = "thinking" /\ work = "turn" THEN begun ELSE 0]]
    /\ UNCHANGED <<case, agentVars, timer, thread, running, heldSince, watch, covered, watched>>

(***************************************************************************)
(* Using a reading r, on the window's main thread.                         *)
(***************************************************************************)
Between(instant, r) == instant - r.age            \* from that instant to r's stamp
Stale(r) == r.stale /\ thread.owned          \* detector_read_at is a later stamp

\* confirm_run_end: [state, held], the state to deposit and the clock of a held end.
ConfirmRunEndFaulty(r) ==
    IF Stale(r) THEN [state |-> r.state, held |-> heldSince]
    ELSE IF ~(thread.status = "thinking" /\ r.state = "finished")
      THEN [state |-> r.state, held |-> Never]
    ELSE [state |-> IF heldSince # Never THEN r.state ELSE "thinking",
          held |-> IF heldSince = Never THEN r.age ELSE heldSince]
ConfirmRestarted(r) ==
    IF Stale(r) THEN [state |-> r.state, held |-> heldSince]
    ELSE IF ~(thread.status = "thinking" /\ r.state = "finished")
      THEN [state |-> r.state, held |-> Never]
    ELSE [state |-> IF heldSince # Never /\ Between(heldSince, r) >= Confirm THEN r.state ELSE "thinking",
          held |-> r.age]
ConfirmRunEnd(r) ==
    IF Stale(r) THEN [state |-> r.state, held |-> heldSince]
    ELSE IF ~(thread.status = "thinking" /\ r.state = "finished")
      THEN [state |-> r.state, held |-> Never]
    ELSE LET first == IF heldSince = Never THEN r.age ELSE heldSince
         IN  [state |-> IF Between(first, r) < Confirm THEN "thinking" ELSE r.state, held |-> first]

Status(state) == IF state \in {"none", "finished"} THEN "idle" ELSE state

\* deposit. What the detector put there it takes back; the rest is the hook's.
Deposit(r, state) ==
    IF Stale(r) THEN thread
    ELSE [thread EXCEPT
              !.owned = state # "none",
              !.status = IF state = "none" /\ ~thread.owned THEN @ ELSE Status(state)]

\* TurnEndWatch::observe, with what apply_agent_states keeps beside it. Not
\* asked of a stale reading only: an older tail may follow a newer one.
Observe(r) ==
    IF r.tail.len = Never THEN watch
    ELSE [watch EXCEPT
              !.len = r.tail.len, !.compacted = r.tail.compacted, !.primed = TRUE,
              !.counted = IF watch.primed THEN @ ELSE r.tail.turn,
              !.current = IF r.tail.turn # 0 THEN r.tail.turn ELSE @]

SettledFaulty(w, r) == [w EXCEPT !.settled = r.age, !.pending = 0, !.since = 0]
Settled(w, r) ==
    [w EXCEPT !.counted = w.current, !.primed = TRUE, !.settled = r.age, !.pending = 0, !.since = 0]

EndedOnCompactionFaulty(w) == FALSE
EndedOnCompaction(w) == w.compacted /\ w.primed /\ w.counted = w.current

\* unseen_turn_ended: [watch, ended].
UnseenTurnEnded(w, status, r) ==
    LET dropped == [w EXCEPT !.pending = 0, !.since = 0]
        adopted == [dropped EXCEPT !.counted = w.current]
        waits == IF w.pending = w.current THEN w ELSE [w EXCEPT !.pending = w.current, !.since = r.age]
    IN  CASE w.current = 0 -> [watch |-> w, ended |-> FALSE]
          [] w.current # 0 /\ (w.counted = w.current \/ status # "idle") -> [watch |-> dropped, ended |-> FALSE]
          [] w.current # 0 /\ w.counted # w.current /\ status = "idle" ->
               IF w.settled # Never /\ Between(w.settled, r) < Confirm
                 THEN [watch |-> adopted, ended |-> FALSE]
               ELSE IF Between(waits.since, r) < Confirm
                 THEN [watch |-> waits, ended |-> FALSE]
               ELSE [watch |-> adopted, ended |-> TRUE]

\* run_ended_at: the clock stands through a question, and ends with the run.
Running(status) == status = "thinking" \/ (running /\ status = "waiting")

\* apply_agent_states, of one surface.
Apply(who) ==
    LET r == readings[who]
        confirmed == ConfirmRunEnd(r)
        t == Deposit(r, confirmed.state)
        seen == Observe(r)
        runEnded == running /\ t.status = "idle"
        left == runEnded /\ ~EndedOnCompaction(seen)
        unseen == UnseenTurnEnded(seen, t.status, r)
        counts == t.owned /\ (left \/ unseen.ended)
    IN  /\ r.at = "looked"
        /\ heldSince' = IF t.status = "thinking" THEN confirmed.held ELSE Never
        /\ running' = Running(t.status)
        /\ watch' = IF ~t.owned THEN seen
                    ELSE IF left THEN Settled(seen, r) ELSE unseen.watch
        /\ thread' = IF counts THEN [t EXCEPT !.runs = @ + 1] ELSE t
        /\ covered' = LET newest == IF left THEN r.over ELSE seen.current
                     IN  IF counts /\ newest > covered THEN newest ELSE covered
        /\ watched' = IF ~Stale(r) /\ r.turn > watched THEN r.turn ELSE watched
        /\ readings' = [readings EXCEPT ![who] = NoReading,
                                        ![Other(who)].stale = @ \/ (readings[Other(who)].older /\ ~Stale(r))]
        /\ timer' = IF who = "pass" THEN 0 ELSE timer
        /\ UNCHANGED <<case, agentVars>>

(***************************************************************************)
(* A frame. Where the detector owns the surface it is only a reason to read*)
(* now, one reading at a time; elsewhere it writes the status, and the stop*)
(* counts the run.                                                         *)
(***************************************************************************)
Accelerate ==
    /\ thread.owned
    /\ IF readings["hook"].at # "none" THEN UNCHANGED readings ELSE Begin("hook")
    /\ UNCHANGED <<thread, covered>>

HookSpeaks ==
    /\ ~thread.owned
    /\ thread' = [thread EXCEPT
           !.status = CASE frame = "stop" -> "idle" [] frame = "notification" -> "waiting" [] OTHER -> "thinking",
           !.runs = IF frame = "stop" THEN @ + 1 ELSE @]
    /\ covered' = IF frame = "stop" THEN over ELSE covered
    /\ UNCHANGED readings

Deliver ==
    /\ frame # "none"
    /\ frame' = "none"
    /\ Accelerate \/ HookSpeaks
    /\ UNCHANGED <<case, word, work, begun, over, blip, since, due, file,
                   timer, running, heldSince, watch, watched>>

(***************************************************************************)
(* A second. What is due within a second happens before it is over: the    *)
(* pass, a reading at its longest, a blip, a record.                       *)
(***************************************************************************)
InBlip == work = "turn" /\ word = "idle"
Later(age) == IF age \in {Never, Old} THEN age ELSE age + 1
Aged(r) == IF r.at = "none" THEN r ELSE [r EXCEPT !.age = @ + 1]

Tick ==
    /\ frame = "none"
    /\ \A r \in DOMAIN readings : readings[r].at = "none" \/ readings[r].age < MaxDelay
    /\ timer < Interval \/ readings["pass"].at # "none"
    /\ InBlip => since < MaxBlip
    /\ due.what # "none" => due.age < MaxLag
    /\ readings' = [r \in DOMAIN readings |-> Aged(readings[r])]
    /\ timer' = IF timer < Interval THEN timer + 1 ELSE timer
    /\ since' = IF since < Rest THEN since + 1 ELSE since
    /\ due' = IF due.what # "none" THEN [due EXCEPT !.age = @ + 1] ELSE due
    /\ heldSince' = Later(heldSince)
    /\ watch' = [watch EXCEPT !.settled = Later(@), !.since = IF watch.pending = 0 THEN @ ELSE Later(@)]
    /\ UNCHANGED <<case, word, work, begun, over, blip, file, frame, thread, running, covered, watched>>

\* Time, and what is due in it
GoesOn ==
    \/ Tick \/ BeginPass \/ Deliver \/ RecordLands \/ BlipEnds
    \/ \E r \in {"pass", "hook"} : Look(r) \/ Apply(r)

RunsNext ==
    \/ GoesOn
    \/ BeginTurn \/ UseTool \/ AskQuestion \/ EndTurn \/ BlipBegins \/ Compact \/ Compacted

\* The window's threads run, and the agent's files are written, as time passes
RunsSpec == RunsInit /\ [][RunsNext]_runsVars /\ WF_runsVars(GoesOn)
=============================================================================
