--------------------------- MODULE PaneSizesProperties ---------------------------
(***************************************************************************)
(* What must hold of a pane's size on its way to the PTY.                  *)
(***************************************************************************)
EXTENDS PaneSizes

\* Old output is read into a grid of the size the log recorded for it,
\* whatever sizes the window asks for in the meantime.
ReadAsPrinted ==
    mail # <<>> /\ Head(mail).kind = "output" => rt.replaying /\ rt.grid = Head(mail).at

\* Nothing is under way, and the frame has been drawn.
Settled ==
    /\ mail = <<>> /\ script = <<>> /\ out = <<>> /\ call.sent = <<>> /\ ~call.waiting
    /\ ~signal.backpressure /\ ~signal.wakeup /\ rt.promoted
    /\ view.recorded # None /\ (Collapsed \/ view.recorded = view.bounds)

\* When nothing is under way, every place that keeps the size keeps the size
\* of the window: no request was lost to a full mailbox, to a replay, to the
\* time before the pane had a queue, or to one that overtook it.
SettledAgrees ==
    Settled =>
        /\ resize.requested = view.recorded /\ resize.applied = view.recorded
        /\ resize.submitted = None /\ ~resize.clear
        /\ rt.window = view.recorded /\ rt.told = view.recorded
        /\ rt.grid = Cells(view.recorded)
        /\ spent.faults = 0 => host.pty = Cells(view.recorded)

\* "The first layout with room is the first size the PTY hears"
\* (element/mod.rs, prepaint).  This does not hold.
FirstSizeHasRoom == host.pty # Tiny /\ \A i \in 1..Len(call.sent) : call.sent[i] # Tiny

\* The PTY comes to have the window's size and keeps it, though a resize is
\* answered too late any number of times, or is refused once and an earlier
\* one was acknowledged.
PtyFollows ==
    <>[](view.recorded # None /\ (spent.refused => host.acked # None /\ spent.faults = 1)
            => host.pty = Cells(view.recorded))

\* The grid has the size of what is read into it, and all places agree when
\* nothing is under way (ReadAsPrinted, SettledAgrees).
SizesAgree == ReadAsPrinted /\ SettledAgrees
=============================================================================
