------------------------- MODULE AgentRunsProperties -------------------------
(* What AgentRuns promises to whoever waits for an agent's turn to end. *)
EXTENDS AgentRuns

\* Every field has its type.
RunsTypeOK ==
    /\ word \in {"idle", "busy", "waiting"} /\ work \in {"none", "turn", "compaction"}
    /\ covered \in 0 .. MaxTurns /\ over \in 0 .. MaxTurns /\ watched \in 0 .. begun
    /\ thread.status \in {"idle", "thinking", "waiting"} /\ thread.runs \in Nat
    /\ thread.owned \in BOOLEAN /\ heldSince \in Never .. Old /\ timer \in 0 .. Interval
    /\ watch.counted \in 0 .. MaxTurns /\ watch.current \in 0 .. MaxTurns

\* Where the frames speak first and a file after them.
HandsOver == {"hooks", "early"} \subseteq case
\* Where a run may end straight out of a question, which is not held, and where
\* a reading that was asked for first may look last.
Unheld == {"asks", "overtakes"} \cap case # {}

\* The frames count for the surfaces they speak for and the pass for the ones
\* it reads (ipc_handler.rs:4917-4919), so no turn is counted twice: the count
\* is never ahead of the turns that have ended.
RunsAreTurns == thread.runs <= over

\* No turn is counted twice, no blip and no compaction as one, whether the pass
\* watched the turn, found it in the file, or a frame told of it. Not stated
\* where a surface changes hands (RunsAreTurns), a run ends out of a question,
\* or readings overtake each other: there a run may be counted twice.
NeverAhead == RunsTypeOK /\ (~HandsOver /\ ~Unheld => RunsAreTurns)

\* A turn that a reading has found the agent at work on is counted once the
\* agent rests, alone or with one that followed at once: a script that waits
\* for runs_ended to grow does not wait for its time-out.
WatchedCounted == []<>(covered >= watched \/ work # "none")
=============================================================================
