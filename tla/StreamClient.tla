------------------------------ MODULE StreamClient ------------------------------
(***************************************************************************)
(* The client's side of a connection: crates/splitlane-host/src/client.rs. *)
(*                                                                         *)
(* Calls run on the threads of the program that uses the client.  One      *)
(* reader thread takes the frames off the socket and hands those of a      *)
(* stream to the slot of their session through a bounded queue.  The       *)
(* frames of a stream carry the session and not the attach they belong to, *)
(* so with one session here a frame says nothing of its stream; the number *)
(* kept with it below is what the host meant, for the properties only.     *)
(*                                                                         *)
(* The host answers one connection's requests in order (server.rs).  Each  *)
(* stream of the session sends its Total positions and then, if the        *)
(* session has ended, its end.                                             *)
(***************************************************************************)
EXTENDS Integers, Sequences

CONSTANTS
    Threads,      \* who may call the client
    NoThread,     \* nobody waits for the reply
    MaxAttaches,  \* bound of the model: calls of attach
    Total,        \* positions in the session's log
    QueueRoom,    \* STREAM_QUEUE
    SocketRoom    \* frames the socket holds

ASSUME StreamClientAssumption ==
    /\ NoThread \notin Threads
    /\ MaxAttaches \in Nat /\ Total \in Nat
    /\ QueueRoom \in Nat \ {0} /\ SocketRoom \in Nat \ {0}

Ids == 1..MaxAttaches
NoId == 0

VARIABLES
    users,        \* the threads that do call it in this behaviour
    timeouts,     \* whether a request may time out in it
    call,         \* per thread: the call it is in
    asked,        \* attaches so far; also the newest attach's id
    slot,         \* Inner::streams: whose the session's slot is, and live
    cancelled,    \* StreamSlot::cancelled, per attach
    queue,        \* the bounded queue to each attachment
    held,         \* per attach: "none", "open", "dropped" or "refused"
    seen,         \* per attach: what its consumer took last
    reader,       \* the reader: a frame in its hands, or nothing
    requests,     \* client to host
    frames,       \* host to client
    serving,      \* the host's connection thread: a detach it is busy with
    stream,       \* the host's stream thread for this session
    ended         \* the session has ended

setting == <<users, timeouts>>
client == <<setting, call, asked, slot, cancelled, queue, held, seen, reader>>
host == <<serving, stream, ended>>
vars == <<client, requests, frames, host>>

(***************************************************************************)
(* Calls.                                                                  *)
(***************************************************************************)
NoCall == [op |-> "idle", id |-> NoId]
NoSlot == [id |-> NoId, live |-> FALSE]
Call(t, op, id) == call' = [call EXCEPT ![t] = [op |-> op, id |-> id]]

\* attach: the slot is registered before the request goes out
AttachRegister(t) ==
    /\ call[t].op = "idle" /\ asked < MaxAttaches
    /\ slot = NoSlot
    /\ asked' = asked + 1
    /\ slot' = [id |-> asked', live |-> FALSE]
    /\ Call(t, "attach", asked')
    /\ UNCHANGED <<setting, cancelled, queue, held, seen, reader, requests, frames, host>>

AttachSend(t) ==
    /\ call[t].op = "attach"
    /\ requests' = Append(requests, [op |-> "attach", id |-> call[t].id, by |-> t])
    /\ Call(t, "attaching", call[t].id)
    /\ UNCHANGED <<setting, asked, slot, cancelled, queue, held, seen, reader, frames, host>>

\* The error path of attach: the slot goes, if it is still this one's
GiveUp(t) ==
    /\ Call(t, "idle", NoId)
    /\ slot' = IF slot.id = call[t].id THEN NoSlot ELSE slot
    /\ held' = [held EXCEPT ![call[t].id] = "refused"]
    /\ UNCHANGED <<setting, asked, cancelled, queue, seen, reader, requests, frames, host>>
AttachRefused(t) == call[t].op = "refused" /\ GiveUp(t)
AttachTimeout(t) == timeouts /\ call[t].op = "attaching" /\ GiveUp(t)


\* Dropping an Attachment: the slot goes if it is still its own, and then the
\* host is told; nobody waits for the answer
DropRemove(t, id) ==
    /\ call[t].op = "idle" /\ held[id] = "open"
    /\ held' = [held EXCEPT ![id] = "dropped"]
    /\ IF slot.id = id
       THEN /\ slot' = NoSlot
            /\ cancelled' = [cancelled EXCEPT ![id] = TRUE]
            /\ Call(t, "dropping", id)
       ELSE UNCHANGED <<slot, cancelled, call>>
    /\ UNCHANGED <<setting, asked, queue, seen, reader, requests, frames, host>>

\* mutant: the host is not told
DropSendFaulty(t) ==
    /\ call[t].op = "dropping"
    /\ Call(t, "idle", NoId)
    /\ UNCHANGED <<setting, asked, slot, cancelled, queue, held, seen, reader, requests, frames, host>>

DropSend(t) ==
    /\ call[t].op = "dropping"
    /\ requests' = Append(requests, [op |-> "detach", id |-> call[t].id, by |-> NoThread])
    /\ Call(t, "idle", NoId)
    /\ UNCHANGED <<setting, asked, slot, cancelled, queue, held, seen, reader, frames, host>>

\* detach: whatever slot the session has goes, and the reply is waited for.
\* The call is made by whoever follows the session, so there is a slot.
DetachRemove(t) ==
    /\ call[t].op = "idle" /\ slot # NoSlot /\ held[slot.id] = "open"
    /\ slot' = NoSlot
    /\ cancelled' = [cancelled EXCEPT ![slot.id] = TRUE]
    /\ Call(t, "detach", slot.id)
    /\ UNCHANGED <<setting, asked, queue, held, seen, reader, requests, frames, host>>

DetachSend(t) ==
    /\ call[t].op = "detach"
    /\ requests' = Append(requests, [op |-> "detach", id |-> call[t].id, by |-> t])
    /\ Call(t, "detaching", call[t].id)
    /\ UNCHANGED <<setting, asked, slot, cancelled, queue, held, seen, reader, frames, host>>

\* The consumer takes the next event
Take(id) ==
    /\ held[id] = "open" /\ queue[id] # <<>>
    /\ seen' = [seen EXCEPT ![id] = Head(queue[id])]
    /\ queue' = [queue EXCEPT ![id] = Tail(@)]
    /\ UNCHANGED <<setting, call, asked, slot, cancelled, held, reader, requests, frames, host>>

(***************************************************************************)
(* The reader thread.                                                      *)
(***************************************************************************)
Free == [to |-> NoId, event |-> 0, from |-> NoId]
End == Total + 1        \* the event Exited, as a position

\* A reply: the slot it opened goes live, and the call that waits returns
Waits == [attach |-> "attaching", detach |-> "detaching"]
Waiting(t, r) == t # NoThread /\ call[t] = [op |-> Waits[r.op], id |-> r.id]
Returns(r) ==
    IF ~Waiting(r.by, r) THEN UNCHANGED <<call, held>>
    ELSE IF r.ok
    THEN /\ Call(r.by, "idle", NoId)
         /\ held' = IF r.op = "attach" THEN [held EXCEPT ![r.id] = "open"] ELSE held
    ELSE Call(r.by, "refused", r.id) /\ held' = held

ReadReply ==
    /\ reader = Free /\ frames # <<>> /\ Head(frames).kind = "reply"
    /\ LET r == Head(frames) IN
       /\ slot' = IF r.ok /\ r.op = "attach" /\ slot.id = r.id
                  THEN [slot EXCEPT !.live = TRUE] ELSE slot
       /\ Returns(r)
    /\ frames' = Tail(frames)
    /\ UNCHANGED <<setting, asked, cancelled, queue, seen, reader, requests, host>>

\* A frame of the stream: dropped unless the session's slot is live.  After the
\* last event the session's slot is removed, under a lock of its own.
Stream == frames # <<>> /\ Head(frames).kind = "stream"
Removing == [Free EXCEPT !.event = End]
After(event) == IF event = End THEN Removing ELSE Free
ListeningFaulty == slot # NoSlot     \* an attach not answered yet listens too
Listening == slot.live
ReadFrame ==
    /\ reader = Free /\ Stream
    /\ frames' = Tail(frames)
    /\ LET f == Head(frames) IN
       reader' = IF Listening THEN [to |-> slot.id, event |-> f.event, from |-> f.id]
                 ELSE After(f.event)
    /\ UNCHANGED <<setting, call, asked, slot, cancelled, queue, held, seen, requests, host>>

\* deliver: into the queue, or nowhere once the stream was let go of
Gone == {"dropped", "refused"}
Full(id) == Len(queue[id]) >= QueueRoom
LetsGoFaulty(id) == held[id] \in Gone     \* waits though detached
LetsGo(id) == held[id] \in Gone \/ (Full(id) /\ cancelled[id])
Accepts(id) == held[id] \notin Gone /\ ~Full(id)
Deliver ==
    /\ reader.to # NoId
    /\ LET id == reader.to IN
       \/ LetsGo(id) /\ queue' = queue
       \/ /\ Accepts(id)
          /\ queue' = [queue EXCEPT ![id] = Append(@, [event |-> reader.event, from |-> reader.from])]
    /\ reader' = After(reader.event)
    /\ UNCHANGED <<setting, call, asked, slot, cancelled, held, seen, requests, frames, host>>

RemoveSlot ==
    /\ reader = Removing
    /\ slot' = NoSlot /\ reader' = Free
    /\ UNCHANGED <<setting, call, asked, cancelled, queue, held, seen, requests, frames, host>>

Reader == ReadReply \/ ReadFrame \/ Deliver \/ RemoveSlot

(***************************************************************************)
(* The host.                                                               *)
(***************************************************************************)
NoStream == [id |-> NoId, state |-> "none", next |-> 1, stop |-> FALSE]
NotBusy == [op |-> "idle", id |-> NoId, by |-> NoThread]
CanSend == Len(frames) < SocketRoom
ReplyTo(r, ok) == [kind |-> "reply", op |-> r.op, id |-> r.id, by |-> r.by, ok |-> ok]

HostAttach ==
    /\ serving = NotBusy /\ requests # <<>> /\ Head(requests).op = "attach" /\ CanSend
    /\ requests' = Tail(requests)
    /\ IF stream.state \in {"none", "done"}
       THEN /\ stream' = [NoStream EXCEPT !.id = Head(requests).id, !.state = "run"]
            /\ frames' = Append(frames, ReplyTo(Head(requests), TRUE))
       ELSE /\ stream' = stream
            /\ frames' = Append(frames, ReplyTo(Head(requests), FALSE))
    /\ UNCHANGED <<client, serving, ended>>

HostDetach ==
    /\ serving = NotBusy /\ requests # <<>> /\ Head(requests).op = "detach"
    /\ requests' = Tail(requests)
    /\ serving' = Head(requests)
    /\ stream' = [stream EXCEPT !.stop = TRUE]
    /\ UNCHANGED <<client, frames, ended>>

HostDetached ==
    /\ serving # NotBusy /\ stream.state \in {"none", "done"} /\ CanSend
    /\ frames' = Append(frames, ReplyTo(serving, TRUE))
    /\ serving' = NotBusy
    /\ stream' = NoStream
    /\ UNCHANGED <<client, requests, ended>>

\* follow, with one position to a batch; a batch that was read is sent
HostStreams ==
    /\ \/ /\ stream.state = "run"
          /\ IF stream.stop THEN stream' = [stream EXCEPT !.state = "left"]
             ELSE /\ stream.next <= Total \/ ended
                  /\ stream' = [stream EXCEPT !.state = "send"]
          /\ frames' = frames
       \/ /\ stream.state = "send" /\ CanSend
          /\ frames' = Append(frames, [kind |-> "stream", id |-> stream.id, event |-> stream.next])
          /\ stream' = [stream EXCEPT !.next = @ + 1,
                                      !.state = IF stream.next = End THEN "left" ELSE "run"]
       \/ /\ stream.state = "left"
          /\ stream' = [stream EXCEPT !.state = "done"]
          /\ frames' = frames
    /\ UNCHANGED <<client, requests, serving, ended>>

SessionEnds == ~ended /\ ended' = TRUE /\ UNCHANGED <<client, requests, frames, serving, stream>>

Host == HostAttach \/ HostDetach \/ HostDetached

(***************************************************************************)
(* The specification.                                                      *)
(***************************************************************************)
Nothing == [event |-> 0, from |-> NoId]
Init ==
    /\ users \in SUBSET Threads \ {{}} /\ timeouts \in BOOLEAN
    /\ call = [t \in Threads |-> NoCall] /\ asked = 0 /\ slot = NoSlot
    /\ cancelled = [i \in Ids |-> FALSE]
    /\ queue = [i \in Ids |-> <<>>]
    /\ held = [i \in Ids |-> "none"]
    /\ seen = [i \in Ids |-> Nothing]
    /\ reader = Free
    /\ requests = <<>> /\ frames = <<>>
    /\ serving = NotBusy /\ stream = NoStream /\ ended = FALSE

\* A call that is not waiting goes on
Sends(t) == AttachSend(t) \/ DropSend(t) \/ DetachSend(t) \/ AttachRefused(t)

Next ==
    \/ \E t \in users :
          \/ AttachRegister(t) \/ AttachTimeout(t) \/ DetachRemove(t) \/ Sends(t)
          \/ \E i \in Ids : DropRemove(t, i)
    \/ \E i \in Ids : Take(i)
    \/ Reader \/ Host \/ HostStreams \/ SessionEnds

\* Threads run on; a consumer need not take its events
Fairness ==
    /\ WF_vars(Reader) /\ WF_vars(Host) /\ WF_vars(HostStreams)
    /\ \A t \in Threads : WF_vars(Sends(t))
Spec == Init /\ [][Next]_vars /\ Fairness
=============================================================================
