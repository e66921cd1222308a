------------------------------- MODULE PaneSizes -------------------------------
(***************************************************************************)
(* The size of a pane whose session is in the host, from the layout of the *)
(* window to the PTY: terminal/element/mod.rs and view.rs (the frame),     *)
(* ghostty_session.rs (the request and its mailbox), ghostty_remote.rs     *)
(* (the runtime, which owns the grid), host_session.rs (the writer).       *)
(*                                                                         *)
(* The same size is kept at eight places, by four threads and the host:    *)
(* what the frame recorded, what was requested, what was submitted, what   *)
(* was applied, the runtime's window size, what the host was told, what it *)
(* acknowledged and what the PTY has.  The library takes every size it is  *)
(* given; its errors, which are only logged, are left out.                 *)
(***************************************************************************)
EXTENDS Integers, Sequences, FiniteSets

CONSTANTS
    Sizes,       \* sizes of a layout that has room for the pane
    Tiny,        \* what a layout without room computes: one cell
    Bootstrap,   \* the size a terminal is created with: no size of a cell
    Like,        \* the size whose columns and rows Bootstrap has
    None,
    Capacity,    \* CONTROL_CAPACITY
    MaxLayouts, MaxOther, MaxFaults   \* bounds of the model

ASSUME PaneSizesAssumption ==
    /\ Like \in Sizes
    /\ Tiny \notin Sizes /\ Bootstrap \notin Sizes \cup {Tiny}
    /\ None \notin Sizes \cup {Tiny, Bootstrap}
    /\ Capacity \in Nat \ {0}
    /\ MaxLayouts \in Nat /\ MaxOther \in Nat /\ MaxFaults \in Nat

VARIABLES
    view,     \* the frame: bounds, recorded, needs_initial_clear, apart_from
    resize,   \* ResizeState
    signal,   \* command_backpressure and the queued wakeup
    mail,     \* the runtime's mailbox
    rt,       \* RemoteRuntime
    script,   \* what the stream's reader has yet to post
    out,      \* the pane's queue to the host
    call,     \* the writer's call, and the requests on the connection
    host,     \* the PTY's size, and the size the host acknowledged
    spent     \* of the bounds

vars == <<view, resize, signal, mail, rt, script, out, call, host, spent>>
ofView == <<view, resize, signal>>

Grids == Sizes \cup {Tiny}
WindowSizes == Grids \cup {Bootstrap}
Cells(size) == IF size = Bootstrap THEN Like ELSE size

(***************************************************************************)
(* The mailbox.  Only the window's commands are refused when there are too *)
(* many; what the stream brings waits for room instead.                    *)
(***************************************************************************)
Control == {"resize", "resend", "other"}
ControlCount(q) == Cardinality({i \in 1..Len(q) : q[i].kind \in Control})
StreamCount == Cardinality({i \in 1..Len(mail) : mail[i].kind \in {"grid", "output"}})

\* The window's side of a request: [resize, signal, mail]
Request == [resize |-> resize, signal |-> signal, mail |-> mail]

RefusedFaulty(r) == r                          \* nothing is noted
Refused(r) == [r EXCEPT !.signal.backpressure = TRUE]
\* submit_requested_resize: one command at a time
Submit(r) ==
    IF \/ r.resize.submitted # None
       \/ r.resize.applied = r.resize.requested /\ ~r.resize.clear
    THEN r
    ELSE IF ControlCount(r.mail) >= Capacity
    THEN Refused(r)
    ELSE LET command == [kind |-> "resize", size |-> r.resize.requested, clear |-> r.resize.clear]
         IN [r EXCEPT !.resize.submitted = command, !.resize.clear = FALSE,
                      !.mail = Append(@, command)]

NotifyWindowSize(r, size) == Submit([r EXCEPT !.resize.requested = size])

\* The one-shot clear of a new pane's first layout rides on a resize
Clears(size) ==
    /\ view.clear
    /\ \/ rt.grid # Cells(size)
       \/ Cells(resize.requested) # Cells(size)
       \/ Cells(resize.applied) # Cells(size)
RenderContent(r, size) ==
    IF Clears(size)
    THEN Submit([r EXCEPT !.resize.requested = size, !.resize.clear = TRUE])
    ELSE r

Requests(r) == resize' = r.resize /\ signal' = r.signal /\ mail' = r.mail

(***************************************************************************)
(* The window's thread.                                                    *)
(***************************************************************************)
Layout ==
    /\ spent.layouts < MaxLayouts
    /\ \E b \in Grids \ {view.bounds} : view' = [view EXCEPT !.bounds = b]
    /\ spent' = [spent EXCEPT !.layouts = @ + 1]
    /\ UNCHANGED <<resize, signal, mail, rt, script, out, call, host>>

\* A frame.  A layout without room keeps the size the terminal has.
Collapsed == view.bounds = Tiny
WindowSize == IF Collapsed /\ view.recorded # None THEN view.recorded ELSE view.bounds
Prepaint ==
    LET rendered == RenderContent(Request, WindowSize)
        tells == ~(Collapsed /\ view.recorded = None) /\ view.recorded # WindowSize
    IN
    /\ Requests(IF tells THEN NotifyWindowSize(rendered, WindowSize) ELSE rendered)
    /\ view' = [view EXCEPT !.clear = @ /\ ~Clears(WindowSize),
                            !.recorded = IF tells THEN WindowSize ELSE @]
    /\ UNCHANGED <<rt, script, out, call, host, spent>>

\* The size recorded last against the size the host acknowledged last: two
\* readings that differ, against the same size, have it sent again.  Two
\* readings are two seconds apart, in which the runtime takes its messages.
Apart == view.recorded # None /\ rt.promoted /\ host.acked # None
         /\ host.acked # Cells(view.recorded)
ResendsFaulty == FALSE           \* a size the host refused stays refused
Resends == Apart /\ view.apart = view.recorded
ReconcilePtySize ==
    /\ \A i \in 1..Len(mail) : mail[i].kind # "resend"
    /\ view' = [view EXCEPT !.apart = IF Apart THEN view.recorded ELSE None]
    /\ mail' = IF Resends /\ ControlCount(mail) < Capacity
               THEN Append(mail, [kind |-> "resend"]) ELSE mail
    /\ UNCHANGED <<resize, signal, rt, script, out, call, host, spent>>

\* process_backend_wakeup: what a full mailbox refused is submitted again
Wakeup ==
    /\ signal.wakeup
    /\ Requests(Submit([Request EXCEPT !.signal.wakeup = FALSE]))
    /\ UNCHANGED <<view, rt, script, out, call, host, spent>>

\* A key, a scroll, a selection
OtherCommand ==
    /\ spent.other < MaxOther /\ ControlCount(mail) < Capacity
    /\ mail' = Append(mail, [kind |-> "other"])
    /\ spent' = [spent EXCEPT !.other = @ + 1]
    /\ UNCHANGED <<ofView, rt, script, out, call, host>>

\* The pane's session was opened: the runtime is given the queue to the
\* host, and asked for the size that frames recorded in the meantime
Promote ==
    LET attached == [Request EXCEPT !.mail = Append(@, [kind |-> "attached"])] IN
    /\ ~rt.promoted
    /\ Requests(IF view.recorded = None THEN attached
                ELSE NotifyWindowSize(attached, view.recorded))
    /\ rt' = [rt EXCEPT !.promoted = TRUE]
    /\ UNCHANGED <<view, script, out, call, host, spent>>

(***************************************************************************)
(* The stream's reader: GhosttySink posts the replay, then that it is over.*)
(***************************************************************************)
StreamRoom == 2
Post ==
    /\ script # <<>> /\ StreamCount < StreamRoom
    /\ mail' = Append(mail, Head(script)) /\ script' = Tail(script)
    /\ UNCHANGED <<ofView, rt, out, call, host, spent>>

(***************************************************************************)
(* The runtime takes a message; between messages it lets a refused command *)
(* be tried again.                                                         *)
(***************************************************************************)
\* notify_command_capacity and queue_wakeup
Notified(s) == IF s.backpressure THEN [backpressure |-> FALSE, wakeup |-> TRUE] ELSE s
Take(kind) == mail # <<>> /\ Head(mail).kind = kind /\ mail' = Tail(mail)

\* The queue keeps every size; of a run of them the writer sends the last, and
\* that one is all that is kept of a run here.
Queued(size) ==
    IF out # <<>> /\ out[Len(out)].kind = "resize" THEN [out EXCEPT ![Len(out)].size = size]
    ELSE Append(out, [kind |-> "resize", size |-> size])

\* Once per size unless asked again, and only with a size and a queue
Told(r, again) ==
    r.sender /\ r.window # None /\ (again \/ r.told # r.window)
Tells(r, again) ==
    /\ rt' = IF Told(r, again) THEN [r EXCEPT !.told = r.window] ELSE r
    /\ out' = IF Told(r, again) THEN Queued(Cells(r.window)) ELSE out
IdleThen == signal' = Notified(signal)

TakeAttached ==
    /\ Take("attached") /\ IdleThen
    /\ IF rt.replaying THEN rt' = [rt EXCEPT !.sender = TRUE] /\ UNCHANGED out
       ELSE Tells([rt EXCEPT !.sender = TRUE], FALSE)
    /\ UNCHANGED <<view, resize, script, call, host, spent>>

TakeResend ==
    /\ Take("resend") /\ IdleThen
    /\ IF rt.replaying THEN UNCHANGED <<rt, out>> ELSE Tells(rt, TRUE)
    /\ UNCHANGED <<view, resize, script, call, host, spent>>

TakeOther ==
    /\ Take("other") \/ Take("output")
    /\ IdleThen
    /\ UNCHANGED <<view, resize, rt, script, out, call, host, spent>>

\* A size the log recorded
TakeGrid ==
    /\ Take("grid") /\ IdleThen
    /\ rt' = IF rt.replaying THEN [rt EXCEPT !.grid = Head(mail).size] ELSE rt
    /\ UNCHANGED <<view, resize, script, out, call, host, spent>>

TakeGoLive ==
    /\ Take("live") /\ IdleThen
    /\ Tells([rt EXCEPT !.replaying = FALSE,
                        !.grid = IF rt.window = None THEN @ ELSE Cells(rt.window)], FALSE)
    /\ UNCHANGED <<view, resize, script, call, host, spent>>

\* complete_resize: the request that came meanwhile has the window woken
Complete(size) ==
    /\ resize' = [resize EXCEPT !.submitted = None, !.applied = size]
    /\ signal' = Notified([signal EXCEPT
                    !.backpressure = @ \/ resize.requested # size \/ resize.clear])
\* Live, a resize publishes the new grid, which wakes the window too
GridIsTheLogsFaulty == FALSE     \* a frame's size disturbs a replay
GridIsTheLogs == rt.replaying
TakeResize ==
    LET size == Head(mail).size IN
    /\ Take("resize")
    /\ IF GridIsTheLogs
       THEN Complete(size) /\ rt' = [rt EXCEPT !.window = size] /\ UNCHANGED out
       ELSE /\ resize' = [resize EXCEPT !.submitted = None, !.applied = size]
            /\ signal' = [backpressure |-> FALSE, wakeup |-> TRUE]
            /\ Tells([rt EXCEPT !.window = size, !.grid = Cells(size)], FALSE)
    /\ UNCHANGED <<view, script, call, host, spent>>

\* Every ten milliseconds without a message
Idle ==
    /\ mail = <<>> /\ IdleThen
    /\ UNCHANGED <<view, resize, mail, rt, script, out, call, host, spent>>

(***************************************************************************)
(* The writer sends what is in the queue; of a run of sizes only the last. *)
(***************************************************************************)
\* An input, a fact, a repaint: it splits a run
SayOther ==
    /\ spent.other < MaxOther /\ rt.promoted
    /\ out' = Append(out, [kind |-> "other"])
    /\ spent' = [spent EXCEPT !.other = @ + 1]
    /\ UNCHANGED <<ofView, mail, rt, script, call, host>>

WriteResize ==
    /\ ~call.waiting /\ out # <<>> /\ Head(out).kind = "resize"
    /\ call' = [waiting |-> TRUE, sent |-> Append(call.sent, Head(out).size)]
    /\ out' = Tail(out)
    /\ UNCHANGED <<ofView, mail, rt, script, host, spent>>
WriteOther ==
    /\ ~call.waiting /\ out # <<>> /\ Head(out).kind = "other"
    /\ out' = Tail(out)
    /\ UNCHANGED <<ofView, mail, rt, script, call, host, spent>>

\* The host takes the requests of a connection in order; the reply is for a
\* writer that still waits for it
Answered == call.waiting /\ Len(call.sent) = 1
Replies == call' = [waiting |-> call.waiting /\ ~Answered, sent |-> Tail(call.sent)]
HostResizes ==
    /\ call.sent # <<>> /\ Replies
    /\ host' = [pty |-> Head(call.sent),
                acked |-> IF Answered THEN Head(call.sent) ELSE host.acked]
    /\ UNCHANGED <<ofView, mail, rt, script, out, spent>>
\* The PTY cannot be resized
HostRefuses ==
    /\ spent.faults < MaxFaults
    /\ call.sent # <<>> /\ Replies
    /\ spent' = [spent EXCEPT !.faults = @ + 1, !.refused = TRUE]
    /\ UNCHANGED <<ofView, mail, rt, script, out, host>>
\* The reply did not come in time.  The host takes the request all the same.
TimesOut ==
    /\ spent.faults < MaxFaults
    /\ call.waiting
    /\ call' = [call EXCEPT !.waiting = FALSE]
    /\ spent' = [spent EXCEPT !.faults = @ + 1]
    /\ UNCHANGED <<ofView, mail, rt, script, out, host>>

(***************************************************************************)
(* The specification: a new session's pane, or one attached to a session   *)
(* whose log holds output of one size.                                     *)
(***************************************************************************)
Replay(size) ==
    <<[kind |-> "grid", size |-> size], [kind |-> "output", at |-> size], [kind |-> "live"]>>
Init ==
    /\ \E fresh \in BOOLEAN, old \in Sizes, b \in Grids :
        /\ view = [bounds |-> b, recorded |-> None, clear |-> fresh, apart |-> None]
        /\ rt = [replaying |-> ~fresh, window |-> None, told |-> None, sender |-> FALSE,
                 grid |-> Cells(Bootstrap), promoted |-> FALSE]
        /\ script = IF fresh THEN <<>> ELSE Replay(old)
        /\ host = IF fresh THEN [pty |-> Cells(Bootstrap), acked |-> Cells(Bootstrap)]
                  ELSE [pty |-> old, acked |-> None]
    /\ resize = [requested |-> Bootstrap, submitted |-> None, applied |-> Bootstrap,
                 clear |-> FALSE]
    /\ signal = [backpressure |-> FALSE, wakeup |-> FALSE]
    /\ mail = <<>> /\ out = <<>>
    /\ call = [waiting |-> FALSE, sent |-> <<>>]
    /\ spent = [layouts |-> 0, other |-> 0, faults |-> 0, refused |-> FALSE]

Runtime == \/ TakeAttached \/ TakeResend \/ TakeOther \/ TakeGrid \/ TakeGoLive
           \/ TakeResize \/ Idle
Writer == WriteResize \/ WriteOther
Next == \/ Layout \/ Prepaint \/ ReconcilePtySize \/ Wakeup \/ OtherCommand \/ Promote
        \/ Post \/ Runtime
        \/ SayOther \/ Writer \/ HostResizes \/ HostRefuses \/ TimesOut

\* Frames go on being drawn, and every thread runs
Fairness ==
    /\ WF_vars(Prepaint) /\ WF_vars(ReconcilePtySize) /\ WF_vars(Wakeup)
    /\ WF_vars(Promote) /\ WF_vars(Post) /\ WF_vars(Runtime)
    /\ WF_vars(Writer) /\ WF_vars(HostResizes)
Spec == Init /\ [][Next]_vars /\ Fairness
=============================================================================
