-------------------------------- MODULE MCPane --------------------------------
(***************************************************************************)
(* PaneSizes and StreamReplay for TLC: a pane's way to its session's PTY,  *)
(* and the stream's way to the pane.  They share no variable: a behaviour  *)
(* takes the steps of one of them, and the other stays where it starts.    *)
(* There are two sizes each, so that a size can be a wrong one.            *)
(***************************************************************************)
EXTENDS PaneSizesProperties, StreamReplayProperties

VARIABLE part
MCInit ==
    /\ part \in {"sizes", "replay"}
    /\ Init /\ ReplayInit
    /\ part # "sizes" => ~rt.replaying /\ view.bounds = Like
    /\ part # "replay" => log = <<>> /\ start.mode = "fresh" /\ start.tail = 0
MCNext ==
    /\ UNCHANGED part
    /\ \/ part = "sizes" /\ Next /\ UNCHANGED replayVars
       \/ part = "replay" /\ ReplayNext /\ UNCHANGED vars

\* The fairness of PaneSizes where its part is taken
InSizes(action) == part = "sizes" /\ action
MCSpec ==
    /\ MCInit /\ [][MCNext]_<<vars, replayVars, part>>
    /\ WF_vars(InSizes(Prepaint)) /\ WF_vars(InSizes(ReconcilePtySize))
    /\ WF_vars(InSizes(Wakeup)) /\ WF_vars(InSizes(Promote)) /\ WF_vars(InSizes(Post))
    /\ WF_vars(InSizes(Runtime)) /\ WF_vars(InSizes(Writer)) /\ WF_vars(InSizes(HostResizes))
=============================================================================
