--------------------------- MODULE StreamClientProofs ---------------------------
(***************************************************************************)
(* Proofs of what must hold of a client's attachments, for two threads and *)
(* any number of attaches, positions and frames under way.                 *)
(*                                                                         *)
(* The frames of a stream do not say which attach they belong to, and so   *)
(* the argument follows the socket from its reading end to its writing     *)
(* end: the spot of a place in it is the stream and the position that the  *)
(* next frame there belongs to.  A frame of a stream moves the spot on by  *)
(* one, the reply that opens a stream sets it to that stream's beginning,  *)
(* the host's stream is at the last spot and the live slot's reader is at  *)
(* the first.  So what has to be shown is that the reply to another attach *)
(* is never behind frames of a slot that still listens: the host opens a   *)
(* second stream only after the first came to its end, or after a detach;  *)
(* and a detach of another slot that is still under way can only be the    *)
(* one request that the second thread had not sent in time.                *)
(***************************************************************************)
EXTENDS StreamClientProperties, FiniteSetTheorems, SequenceTheorems, TLAPS

\* There are no three threads.
TwoThreads == \A t, u, v \in Threads : t = u \/ u = v \/ t = v

Ops == {"idle", "attach", "attaching", "refused", "dropping", "detach", "detaching"}
Reply == [kind: {"reply"}, op: {"attach", "detach"}, id: Ids, by: Threads \cup {NoThread},
          ok: BOOLEAN]
Sent == [kind: {"stream"}, id: Ids, event: 1..End]
Frame == {r \in Reply : r.op = "detach" => r.ok} \cup Sent

\* The types that the steps below lean on
Typed ==
    /\ users \subseteq Threads /\ timeouts \in BOOLEAN /\ ended \in BOOLEAN
    /\ call \in [Threads -> [op: Ops, id: Ids \cup {NoId}]]
    /\ asked \in 0..MaxAttaches
    /\ slot \in [id: Ids \cup {NoId}, live: BOOLEAN]
    /\ cancelled \in [Ids -> BOOLEAN]
    /\ held \in [Ids -> {"none", "open", "dropped", "refused"}]
    /\ seen \in [Ids -> Events]
    /\ queue \in [Ids -> Seq(Events)]
    /\ reader \in [to: Ids \cup {NoId}, event: 0..End, from: Ids \cup {NoId}]
    /\ requests \in Seq(Request)
    /\ frames \in Seq(Frame)
    /\ serving \in Request \cup {NotBusy}
    /\ serving # NotBusy => serving.op = "detach"
    /\ stream \in [id: Ids \cup {NoId}, state: {"none", "run", "send", "left", "done"},
                   next: 1..End + 1, stop: BOOLEAN]
    /\ stream.state \in {"run", "send"} => stream.next <= End
    /\ stream.state # "none" => stream.id # NoId
    /\ slot.live => slot.id # NoId
    /\ \A t \in Threads : call[t].op # "idle" => t \in users /\ call[t].id # NoId

\* The queues and the socket hold no more than their room.
Roomy ==
    /\ \A i \in Ids : Len(queue[i]) <= QueueRoom
    /\ Len(frames) <= SocketRoom

(***************************************************************************)
(* Sequences.                                                              *)
(***************************************************************************)
\* What is appended is the last, and the rest stays.
LEMMA Longer ==
    ASSUME NEW S, NEW s \in Seq(S), NEW x \in S
    PROVE  /\ Append(s, x) \in Seq(S)
           /\ Len(s) \in Nat /\ Len(Append(s, x)) = Len(s) + 1
           /\ \A i \in 1..Len(s) : Append(s, x)[i] = s[i]
           /\ Append(s, x)[Len(s) + 1] = x
  BY AppendProperties

\* Without the first, each of the rest is one place further ahead.
LEMMA Shorter ==
    ASSUME NEW S, NEW s \in Seq(S), s # <<>>
    PROVE  /\ Head(s) = s[1] /\ Head(s) \in S
           /\ Tail(s) \in Seq(S)
           /\ Len(s) \in Nat \ {0} /\ Len(Tail(s)) = Len(s) - 1
           /\ \A i \in 1..Len(Tail(s)) : Tail(s)[i] = s[i + 1]
  <1>1. /\ Head(s) \in S /\ Tail(s) \in Seq(S) /\ Len(Tail(s)) = Len(s) - 1
        /\ \A i \in 1..Len(Tail(s)) : Tail(s)[i] = s[i + 1]
    BY HeadTailProperties
  <1>2. Len(s) \in Nat \ {0}
    BY EmptySeq, LenProperties
  <1> QED BY <1>1, <1>2

(***************************************************************************)
(* Types.                                                                  *)
(***************************************************************************)
LEMMA Numbers ==
    /\ Total \in Nat /\ End \in Nat \ {0} /\ NoId \notin Ids /\ NoThread \notin Threads
    /\ QueueRoom \in Nat \ {0} /\ SocketRoom \in Nat \ {0}
    /\ 0 \in 0..End /\ 1 \in 1..End + 1 /\ End \in 0..End /\ 0 \in 0..MaxAttaches
  BY StreamClientAssumption DEF End, Ids, NoId

\* The stream that an attach opens
Opened(i) == [id |-> i, state |-> "run", next |-> 1, stop |-> FALSE]
\* Both fields are set, the others are those of no stream.
LEMMA OpenedIs ==
    \A i : [NoStream EXCEPT !.id = i, !.state = "run"] = Opened(i)
  <1> SUFFICES ASSUME NEW i PROVE [NoStream EXCEPT !.id = i, !.state = "run"] = Opened(i)
    OBVIOUS
  <1> DEFINE S == [id: {NoId, i}, state: {"none", "run"}, next: {1}, stop: {FALSE}]
             e == [NoStream EXCEPT !.id = i, !.state = "run"]
  <1>1. NoStream \in S
    BY DEF NoStream
  <1>2. e \in S /\ e.id = i /\ e.state = "run"
    BY <1>1
  <1>3. e.next = 1 /\ e.stop = FALSE
    BY <1>2
  <1> HIDE DEF e
  <1>4. e = Opened(i)
    BY <1>2, <1>3 DEF Opened
  <1> QED BY <1>4 DEF e

\* One more frame in the socket
LEMMA OneMore ==
    ASSUME Typed, NEW f \in Frame
    PROVE  /\ Append(frames, f) \in Seq(Frame)
           /\ Len(frames) \in Nat /\ Len(Append(frames, f)) = Len(frames) + 1
           /\ \A i \in 1..Len(frames) : Append(frames, f)[i] = frames[i]
           /\ Append(frames, f)[Len(frames) + 1] = f
  BY Longer DEF Typed

\* The initial states have the types.
LEMMA TypedInit == Init => Typed
  <1> SUFFICES ASSUME Init PROVE Typed
    OBVIOUS
  <1>1. \A S : <<>> \in Seq(S)
    OBVIOUS
  <1>2. [event |-> 0, from |-> NoId] \in Events
    BY Numbers DEF Events, NoId
  <1> QED BY <1>1, <1>2, Numbers, StreamClientAssumption
      DEF Init, Typed, NoCall, NoSlot, Ops, Free, NotBusy, NoStream, Nothing

\* Every step keeps the types.
LEMMA TypedStep ==
    ASSUME Typed, [Next]_vars
    PROVE  Typed'
  <1> USE DEF Typed, Call
  <1>1. ASSUME NEW t \in users, AttachRegister(t) PROVE Typed'
    <2>1. asked' \in Ids /\ asked' \in 0..MaxAttaches
      BY <1>1, StreamClientAssumption DEF AttachRegister, Ids
    <2>2. /\ slot' = [id |-> asked', live |-> FALSE]
          /\ call' = [call EXCEPT ![t] = [op |-> "attach", id |-> asked']]
      BY <1>1 DEF AttachRegister
    <2>3. UNCHANGED <<setting, cancelled, queue, held, seen, reader, requests, frames, host>>
      BY <1>1 DEF AttachRegister
    <2> QED BY <2>1, <2>2, <2>3, Numbers DEF setting, host, Ops
  <1>2. ASSUME NEW t \in users, AttachSend(t) PROVE Typed'
    <2>1. [op |-> "attach", id |-> call[t].id, by |-> t] \in Request
      BY <1>2 DEF AttachSend, Request
    <2>2. requests' \in Seq(Request)
      BY <1>2, <2>1, Longer DEF AttachSend
    <2> QED BY <1>2, <2>2 DEF AttachSend, setting, host, Ops
  <1>3. ASSUME NEW t \in users, GiveUp(t) PROVE Typed'
    <2>1. /\ call' = [call EXCEPT ![t] = [op |-> "idle", id |-> NoId]]
          /\ slot' = slot \/ slot' = [id |-> NoId, live |-> FALSE]
          /\ held' = [held EXCEPT ![call[t].id] = "refused"]
          /\ UNCHANGED <<setting, asked, cancelled, queue, seen, reader, requests, frames, host>>
      BY <1>3 DEF GiveUp, NoSlot
    <2>2. /\ call' \in [Threads -> [op: Ops, id: Ids \cup {NoId}]]
          /\ \A u \in Threads : call'[u].op # "idle" => u \in users /\ call'[u].id # NoId
      <3>1. [op |-> "idle", id |-> NoId] \in [op: Ops, id: Ids \cup {NoId}]
        BY DEF Ops
      <3> QED BY <2>1, <3>1
    <2>3. /\ slot' \in [id: Ids \cup {NoId}, live: BOOLEAN]
          /\ slot'.live => slot'.id # NoId
      <3>1. CASE slot' = slot
        BY <3>1
      <3>2. CASE slot' = [id |-> NoId, live |-> FALSE]
        BY <3>2
      <3> QED BY <2>1, <3>1, <3>2
    <2>4. held' \in [Ids -> {"none", "open", "dropped", "refused"}]
      BY <2>1
    <2> QED BY <2>1, <2>2, <2>3, <2>4 DEF setting, host
  <1>4. ASSUME NEW t \in users, NEW id \in Ids, DropRemove(t, id) PROVE Typed'
    <2>1. CASE slot.id = id
      <3>1. /\ slot' = [id |-> NoId, live |-> FALSE]
            /\ cancelled' = [cancelled EXCEPT ![id] = TRUE]
            /\ call' = [call EXCEPT ![t] = [op |-> "dropping", id |-> id]]
        BY <1>4, <2>1 DEF DropRemove, NoSlot
      <3>2. /\ held' = [held EXCEPT ![id] = "dropped"]
            /\ UNCHANGED <<setting, asked, queue, seen, reader, requests, frames, host>>
        BY <1>4 DEF DropRemove
      <3> QED BY <3>1, <3>2, Numbers DEF setting, host, Ops
    <2>2. CASE slot.id # id
      BY <1>4, <2>2 DEF DropRemove, setting, host
    <2> QED BY <2>1, <2>2
  <1>5. ASSUME NEW t \in users, DropSend(t) PROVE Typed'
    <2>1. [op |-> "detach", id |-> call[t].id, by |-> NoThread] \in Request
      BY <1>5 DEF DropSend, Request
    <2>2. requests' \in Seq(Request)
      BY <1>5, <2>1, Longer DEF DropSend
    <2> QED BY <1>5, <2>2 DEF DropSend, setting, host, Ops
  <1>6. ASSUME NEW t \in users, DetachRemove(t) PROVE Typed'
    <2>1. slot.id \in Ids
      BY <1>6 DEF DetachRemove, NoSlot
    <2>2. /\ slot' = [id |-> NoId, live |-> FALSE]
          /\ cancelled' = [cancelled EXCEPT ![slot.id] = TRUE]
          /\ call' = [call EXCEPT ![t] = [op |-> "detach", id |-> slot.id]]
      BY <1>6 DEF DetachRemove, NoSlot
    <2>3. UNCHANGED <<setting, asked, queue, held, seen, reader, requests, frames, host>>
      BY <1>6 DEF DetachRemove
    <2> QED BY <2>1, <2>2, <2>3, Numbers DEF setting, host, Ops
  <1>7. ASSUME NEW t \in users, DetachSend(t) PROVE Typed'
    <2>1. [op |-> "detach", id |-> call[t].id, by |-> t] \in Request
      BY <1>7 DEF DetachSend, Request
    <2>2. requests' \in Seq(Request)
      BY <1>7, <2>1, Longer DEF DetachSend
    <2> QED BY <1>7, <2>2 DEF DetachSend, setting, host, Ops
  <1>8. ASSUME NEW id \in Ids, Take(id) PROVE Typed'
    <2>1. Head(queue[id]) \in Events /\ Tail(queue[id]) \in Seq(Events)
      BY <1>8, Shorter DEF Take
    <2> QED BY <1>8, <2>1 DEF Take, setting, host
  <1>9. ASSUME ReadReply PROVE Typed'
    <2>1. Head(frames) \in Frame /\ Tail(frames) \in Seq(Frame)
      BY <1>9, Shorter DEF ReadReply
    <2>2. Head(frames) \in Reply
      BY <1>9, <2>1 DEF ReadReply, Frame, Sent
    <2>3. /\ slot' \in [id: Ids \cup {NoId}, live: BOOLEAN]
          /\ held' \in [Ids -> {"none", "open", "dropped", "refused"}]
          /\ slot'.live => slot'.id # NoId
      <3>1. Head(frames).id \in Ids
        BY <2>2 DEF Reply
      <3>2. slot' = slot \/ (slot' = [slot EXCEPT !.live = TRUE] /\ slot.id = Head(frames).id)
        BY <1>9 DEF ReadReply
      <3>3. held' = held \/ held' = [held EXCEPT ![Head(frames).id] = "open"]
        BY <1>9 DEF ReadReply, Returns
      <3>4. /\ slot' \in [id: Ids \cup {NoId}, live: BOOLEAN]
            /\ slot'.live => slot'.id # NoId
        <4>1. CASE slot' = slot
          BY <4>1
        <4>2. CASE slot' = [slot EXCEPT !.live = TRUE] /\ slot.id = Head(frames).id
          <5>1. slot' = [id |-> Head(frames).id, live |-> TRUE]
            BY <4>2
          <5> QED BY <3>1, <5>1, Numbers
        <4> QED BY <3>2, <4>1, <4>2
      <3>5. held' \in [Ids -> {"none", "open", "dropped", "refused"}]
        BY <3>3
      <3> QED BY <3>4, <3>5
    <2>4. /\ call' \in [Threads -> [op: Ops, id: Ids \cup {NoId}]]
          /\ \A t \in Threads : call'[t].op # "idle" => t \in users /\ call'[t].id # NoId
      <3>1. CASE UNCHANGED call
        BY <3>1
      <3>2. CASE ~UNCHANGED call
        <4>1. Waiting(Head(frames).by, Head(frames))
          BY <1>9, <3>2 DEF ReadReply, Returns
        <4> DEFINE u == Head(frames).by
        <4>2. /\ u \in Threads /\ call[u].op # "idle"
          BY <4>1, <2>2 DEF Waiting, Waits, Reply
        <4>3. \/ call' = [call EXCEPT ![u] = [op |-> "idle", id |-> NoId]]
              \/ call' = [call EXCEPT ![u] = [op |-> "refused", id |-> Head(frames).id]]
          BY <1>9, <4>1 DEF ReadReply, Returns
        <4>4. Head(frames).id \in Ids
          BY <2>2 DEF Reply
        <4> DEFINE i == Head(frames).id
        <4>5. PICK c \in [op: Ops, id: Ids \cup {NoId}] :
                 call' = [call EXCEPT ![u] = c] /\ (c.op # "idle" => c.id # NoId)
          <5>1. [op |-> "refused", id |-> i] \in [op: Ops, id: Ids \cup {NoId}] /\ i # NoId
            BY <4>4, Numbers DEF Ops
          <5>2. [op |-> "idle", id |-> NoId] \in [op: Ops, id: Ids \cup {NoId}]
            BY DEF Ops
          <5> HIDE DEF i
          <5> QED BY <4>3, <5>1, <5>2 DEF i
        <4> HIDE DEF u
        <4> QED BY <4>2, <4>5
      <3> QED BY <3>1, <3>2
    <2> QED BY <1>9, <2>1, <2>3, <2>4 DEF ReadReply, setting, host
  <1>10. ASSUME ReadFrame PROVE Typed'
    <2>1. Head(frames) \in Frame /\ Tail(frames) \in Seq(Frame)
      BY <1>10, Shorter DEF ReadFrame, Stream
    <2>2. Head(frames) \in Sent
      BY <1>10, <2>1 DEF ReadFrame, Stream, Frame, Reply
    <2>3. reader' \in [to: Ids \cup {NoId}, event: 0..End, from: Ids \cup {NoId}]
      BY <1>10, <2>2, Numbers DEF ReadFrame, Sent, After, Removing, Free
    <2> QED BY <1>10, <2>1, <2>3 DEF ReadFrame, setting, host
  <1>11. ASSUME Deliver PROVE Typed'
    <2>1. [event |-> reader.event, from |-> reader.from] \in Events
      BY DEF Events
    <2> DEFINE e == [event |-> reader.event, from |-> reader.from]
    <2>2. queue' \in [Ids -> Seq(Events)]
      <3>1. \A s \in Seq(Events) : Append(s, e) \in Seq(Events)
        BY <2>1, Longer
      <3> HIDE DEF e
      <3>2. \/ queue' = queue
            \/ queue' = [queue EXCEPT ![reader.to] = Append(@, e)]
        BY <1>11 DEF Deliver, e
      <3>3. queue \in [Ids -> Seq(Events)]
        OBVIOUS
      <3> HIDE DEF Typed
      <3> QED BY <3>1, <3>2, <3>3
    <2> HIDE DEF e
    <2>3. reader' \in [to: Ids \cup {NoId}, event: 0..End, from: Ids \cup {NoId}]
      BY <1>11, Numbers DEF Deliver, After, Removing, Free
    <2> QED BY <1>11, <2>2, <2>3 DEF Deliver, setting, host
  <1>12. ASSUME RemoveSlot PROVE Typed'
    BY <1>12, Numbers DEF RemoveSlot, setting, host, NoSlot, Free
  <1>13. ASSUME HostAttach PROVE Typed'
    <2>1. Head(requests) \in Request /\ Tail(requests) \in Seq(Request)
      BY <1>13, Shorter DEF HostAttach
    <2>2. \A b \in BOOLEAN : ReplyTo(Head(requests), b) \in Frame
      BY <1>13, <2>1 DEF HostAttach, ReplyTo, Frame, Reply, Request
    <2>3. frames' \in Seq(Frame)
      <3>1. PICK b \in BOOLEAN : frames' = Append(frames, ReplyTo(Head(requests), b))
        BY <1>13 DEF HostAttach
      <3> QED BY <3>1, <2>2, OneMore
    <2>4. /\ stream' = stream \/ stream' = Opened(Head(requests).id)
          /\ requests' = Tail(requests)
          /\ UNCHANGED <<client, serving, ended>>
      BY <1>13, OpenedIs DEF HostAttach
    <2>5. Head(requests).id \in Ids
      BY <2>1 DEF Request
    <2>6. /\ stream' \in [id: Ids \cup {NoId}, state: {"none", "run", "send", "left", "done"},
                           next: 1..End + 1, stop: BOOLEAN]
          /\ stream'.state \in {"run", "send"} => stream'.next <= End
          /\ stream'.state # "none" => stream'.id # NoId
      <3>1. 1 <= End
        BY Numbers
      <3>2. CASE stream' = stream
        BY <3>2
      <3>3. CASE stream' = Opened(Head(requests).id)
        BY <3>1, <3>3, <2>5, Numbers DEF Opened
      <3> QED BY <2>4, <3>2, <3>3
    <2> QED BY <2>1, <2>3, <2>4, <2>6 DEF client, setting
  <1>14. ASSUME HostDetach PROVE Typed'
    <2>1. Head(requests) \in Request /\ Tail(requests) \in Seq(Request)
      BY <1>14, Shorter DEF HostDetach
    <2> QED BY <1>14, <2>1 DEF HostDetach, client, setting
  <1>15. ASSUME HostDetached PROVE Typed'
    <2>1. ReplyTo(serving, TRUE) \in Frame
      BY <1>15 DEF HostDetached, ReplyTo, Frame, Reply, Request
    <2>2. frames' \in Seq(Frame)
      BY <1>15, <2>1, OneMore DEF HostDetached
    <2> QED BY <1>15, <2>2, Numbers DEF HostDetached, client, setting, NoStream
  <1>16. ASSUME HostStreams PROVE Typed'
    <2>1. CASE stream.state = "send"
      <3>1. [kind |-> "stream", id |-> stream.id, event |-> stream.next] \in Frame
        BY <2>1, Numbers DEF Frame, Sent
      <3>2. frames' \in Seq(Frame)
        <4>1. frames' = Append(frames, [kind |-> "stream", id |-> stream.id, event |-> stream.next])
          BY <1>16, <2>1 DEF HostStreams
        <4> QED BY <4>1, <3>1, OneMore
      <3>3. stream' = [id |-> stream.id, state |-> IF stream.next = End THEN "left" ELSE "run",
                       next |-> stream.next + 1, stop |-> stream.stop]
        BY <1>16, <2>1 DEF HostStreams
      <3>4. /\ stream.next \in Nat /\ stream.next <= End /\ stream.next \in 1..End + 1
            /\ stream.id \in Ids /\ stream.stop \in BOOLEAN
        BY <2>1
      <3>5. /\ stream.next + 1 \in 1..End + 1
            /\ stream.next # End => stream.next + 1 <= End
        BY <3>4, Numbers
      <3>6. /\ stream' \in [id: Ids \cup {NoId}, state: {"none", "run", "send", "left", "done"},
                            next: 1..End + 1, stop: BOOLEAN]
            /\ stream'.state \in {"run", "send"} => stream'.next <= End
            /\ stream'.state # "none" => stream'.id # NoId
        BY <3>3, <3>4, <3>5, Numbers
      <3>7. UNCHANGED <<client, requests, serving, ended>>
        BY <1>16 DEF HostStreams
      <3> QED BY <3>2, <3>6, <3>7 DEF client, setting
    <2>2. CASE stream.state # "send"
      <3>1. /\ frames' = frames
            /\ UNCHANGED <<client, requests, serving, ended>>
            /\ \/ stream' = [stream EXCEPT !.state = "send"] /\ stream.state = "run"
               \/ stream' = [stream EXCEPT !.state = "left"] /\ stream.state = "run"
               \/ stream' = [stream EXCEPT !.state = "done"] /\ stream.state = "left"
        BY <1>16, <2>2 DEF HostStreams
      <3>2. /\ stream' \in [id: Ids \cup {NoId}, state: {"none", "run", "send", "left", "done"},
                            next: 1..End + 1, stop: BOOLEAN]
            /\ stream'.state \in {"run", "send"} => stream'.next <= End
            /\ stream'.state # "none" => stream'.id # NoId
        BY <3>1
      <3> QED BY <3>1, <3>2 DEF client, setting
    <2> QED BY <2>1, <2>2
  <1>17. ASSUME SessionEnds PROVE Typed'
    BY <1>17 DEF SessionEnds, client, setting
  <1>18. ASSUME UNCHANGED vars PROVE Typed'
    BY <1>18 DEF vars, client, setting, host
  <1> QED BY <1>1, <1>2, <1>3, <1>4, <1>5, <1>6, <1>7, <1>8, <1>9, <1>10, <1>11, <1>12, <1>13,
        <1>14, <1>15, <1>16, <1>17, <1>18
      DEF Next, Sends, AttachRefused, AttachTimeout, Reader, Host

(***************************************************************************)
(* Who has been asked for.                                                 *)
(***************************************************************************)
\* Numbers above the last attach's are not used yet.
Numbered ==
    /\ slot.id <= asked /\ stream.id <= asked /\ serving.id <= asked /\ reader.to <= asked
    /\ \A t \in Threads : call[t].id <= asked
    /\ \A p \in 1..Len(requests) : requests[p].id <= asked
    /\ \A p \in 1..Len(frames) : frames[p].id <= asked
    /\ \A j \in Ids : j > asked =>
          queue[j] = <<>> /\ seen[j] = Nothing /\ held[j] = "none" /\ ~cancelled[j]

\* An attach that the host has not answered yet, and one that it refused and
\* whose caller has not given up yet
Attaches(r, k) == r.op = "attach" /\ r.id = k
Asking(k) ==
    \/ \E t \in Threads : Attaches(call[t], k)
    \/ \E p \in 1..Len(requests) : Attaches(requests[p], k)
Refusal(f, k) == f.kind = "reply" /\ f.op = "attach" /\ f.id = k /\ ~f.ok
Denied(k) ==
    \/ \E t \in Threads : call[t].op = "refused" /\ call[t].id = k
    \/ \E p \in 1..Len(frames) : Refusal(frames[p], k)

\* An attach is asked for once.
Once ==
    /\ \A t, u \in Threads : call[t].op = "attach" /\ Attaches(call[u], call[t].id) => t = u
    /\ \A t \in Threads, p \in 1..Len(requests) :
          call[t].op = "attach" => ~Attaches(requests[p], call[t].id)
    /\ \A p, q \in 1..Len(requests) :
          requests[p].op = "attach" /\ Attaches(requests[q], requests[p].id) => p = q

\* It has at most one answer, and only an accepted one has the host's stream.
Settled ==
    \A k \in Ids :
        /\ Asking(k) => ~Denied(k) /\ stream.id # k
        /\ Denied(k) => stream.id # k

\* What the steps that send a request append
Requested(t) ==
    [op |-> IF call[t].op = "attach" THEN "attach" ELSE "detach", id |-> call[t].id,
     by |-> IF call[t].op = "dropping" THEN NoThread ELSE t]
Unsent(t) == call[t].op \in {"attach", "dropping", "detach"}
Sending(t) ==
    /\ Unsent(t)
    /\ requests' = Append(requests, Requested(t))
    /\ \E c \in {"idle", "attaching", "detaching"} :
          \E i \in {call[t].id, NoId} : call' = [call EXCEPT ![t] = [op |-> c, id |-> i]]
    /\ UNCHANGED <<setting, asked, slot, cancelled, queue, held, seen, reader, frames, host>>

\* These three steps are such a sending.
LEMMA SendingIs ==
    ASSUME NEW t \in users, AttachSend(t) \/ DropSend(t) \/ DetachSend(t)
    PROVE  Sending(t)
  <1>1. CASE AttachSend(t)
    BY <1>1 DEF AttachSend, Sending, Unsent, Requested, Call
  <1>2. CASE DropSend(t)
    BY <1>2 DEF DropSend, Sending, Unsent, Requested, Call
  <1>3. CASE DetachSend(t)
    BY <1>3 DEF DetachSend, Sending, Unsent, Requested, Call
  <1> QED BY <1>1, <1>2, <1>3

\* One more request, and the call it came from
LEMMA OneSent ==
    ASSUME Typed, NEW t \in users, Sending(t)
    PROVE  /\ t \in Threads /\ call[t].id \in Ids /\ Requested(t) \in Request
           /\ requests' \in Seq(Request)
           /\ Len(requests) \in Nat /\ Len(requests') = Len(requests) + 1
           /\ \A p \in 1..Len(requests) : requests'[p] = requests[p]
           /\ requests'[Len(requests) + 1] = Requested(t)
           /\ \A u \in Threads : u # t => call'[u] = call[u]
           /\ call'[t].op \in {"idle", "attaching", "detaching"}
           /\ call'[t].id \in {call[t].id, NoId}
  <1>1. t \in Threads /\ call[t].id \in Ids
    BY DEF Typed, Sending, Unsent
  <1>2. Requested(t) \in Request
    BY <1>1 DEF Requested, Request
  <1>3. requests \in Seq(Request) /\ requests' = Append(requests, Requested(t))
    BY DEF Typed, Sending
  <1>4. PICK c \in {"idle", "attaching", "detaching"}, i \in {call[t].id, NoId} :
           call' = [call EXCEPT ![t] = [op |-> c, id |-> i]]
    BY DEF Sending
  <1>5. call \in [Threads -> [op: Ops, id: Ids \cup {NoId}]]
    BY DEF Typed
  <1>6. /\ \A u \in Threads : u # t => call'[u] = call[u]
        /\ call'[t].op \in {"idle", "attaching", "detaching"}
        /\ call'[t].id \in {call[t].id, NoId}
    BY <1>1, <1>4, <1>5
  <1>7. /\ requests' \in Seq(Request)
        /\ Len(requests) \in Nat /\ Len(requests') = Len(requests) + 1
        /\ \A p \in 1..Len(requests) : requests'[p] = requests[p]
        /\ requests'[Len(requests) + 1] = Requested(t)
    BY <1>2, <1>3, Longer
  <1> QED BY <1>1, <1>2, <1>6, <1>7

\* The host has read the first request
LEMMA OneServed ==
    ASSUME Typed, HostAttach \/ HostDetach
    PROVE  /\ requests' \in Seq(Request)
           /\ Len(requests) \in Nat \ {0} /\ Len(requests') = Len(requests) - 1
           /\ Head(requests) = requests[1] /\ Head(requests) \in Request
           /\ \A p \in 1..Len(requests') : requests'[p] = requests[p + 1]
  <1>1. requests' = Tail(requests) /\ requests # <<>>
    BY DEF HostAttach, HostDetach
  <1>2. requests \in Seq(Request)
    BY DEF Typed
  <1> QED BY <1>1, <1>2, Shorter

\* A step that reads no request answers no attach.
LEMMA NotServed ==
    ASSUME Typed, UNCHANGED requests \/ (\E t \in users : Sending(t)) \/ HostDetach
    PROVE  ~HostAttach
  <1>1. HostAttach => Len(requests) \in Nat \ {0} /\ Len(requests') = Len(requests) - 1
    BY OneServed
  <1>2. CASE UNCHANGED requests
    BY <1>1, <1>2
  <1>3. CASE \E t \in users : Sending(t)
    BY <1>1, <1>3, OneSent
  <1>4. CASE HostDetach
    BY <1>4 DEF HostDetach, HostAttach
  <1> QED BY <1>2, <1>3, <1>4

\* The reader has read the first frame
LEMMA OneRead ==
    ASSUME Typed, ReadReply \/ ReadFrame
    PROVE  /\ frames' \in Seq(Frame)
           /\ Len(frames) \in Nat \ {0} /\ Len(frames') = Len(frames) - 1
           /\ Head(frames) = frames[1] /\ Head(frames) \in Frame
           /\ \A p \in 1..Len(frames') : frames'[p] = frames[p + 1]
           /\ ReadReply => Head(frames) \in Reply
           /\ ReadFrame => Head(frames) \in Sent
           /\ Head(frames).id \in Ids
  <1>1. frames' = Tail(frames) /\ frames # <<>>
    BY DEF ReadReply, ReadFrame, Stream
  <1>2. frames \in Seq(Frame)
    BY DEF Typed
  <1>3. /\ frames' \in Seq(Frame)
        /\ Len(frames) \in Nat \ {0} /\ Len(frames') = Len(frames) - 1
        /\ Head(frames) = frames[1] /\ Head(frames) \in Frame
        /\ \A p \in 1..Len(frames') : frames'[p] = frames[p + 1]
    BY <1>1, <1>2, Shorter
  <1>4. ReadReply => Head(frames) \in Reply
    BY <1>3 DEF ReadReply, Frame, Sent
  <1>5. ReadFrame => Head(frames) \in Sent
    BY <1>3 DEF ReadFrame, Stream, Frame, Reply
  <1>6. Head(frames).id \in Ids
    BY <1>4, <1>5 DEF Reply, Sent
  <1> QED BY <1>3, <1>4, <1>5, <1>6

\* The host has sent one frame
LEMMA OneWritten ==
    ASSUME Typed, NEW f \in Frame, frames' = Append(frames, f)
    PROVE  /\ Len(frames) \in Nat /\ Len(frames') = Len(frames) + 1
           /\ \A i \in 1..Len(frames) : frames'[i] = frames[i]
           /\ frames'[Len(frames) + 1] = f
  BY OneMore

\* A reply returns the call that waits for it.
LEMMA ReplyReturns ==
    ASSUME Typed, ReadReply
    PROVE  \/ UNCHANGED <<call, held>>
           \/ \E u \in Threads :
                /\ call[u].op \in {"attaching", "detaching"} /\ call[u].id = Head(frames).id
                /\ \A v \in Threads : v # u => call'[v] = call[v]
                /\ \/ /\ Head(frames).ok /\ call'[u] = NoCall
                      /\ held' = held \/ (/\ Head(frames).op = "attach"
                                          /\ held' = [held EXCEPT ![Head(frames).id] = "open"])
                   \/ /\ Refusal(Head(frames), Head(frames).id) /\ held' = held
                      /\ call'[u] = [op |-> "refused", id |-> Head(frames).id]
  <1> DEFINE r == Head(frames)
             u == r.by
  <1>1. r \in Reply /\ r \in Frame /\ Returns(r)
    BY OneRead DEF ReadReply
  <1>2. CASE ~Waiting(u, r)
    BY <1>1, <1>2 DEF Returns
  <1>3. CASE Waiting(u, r)
    <2>1. u \in Threads /\ call[u] = [op |-> Waits[r.op], id |-> r.id]
      BY <1>1, <1>3 DEF Waiting, Reply
    <2>2. Waits[r.op] \in {"attaching", "detaching"}
      BY <1>1 DEF Waits, Reply
    <2>3. call[u].op \in {"attaching", "detaching"} /\ call[u].id = r.id
      BY <2>1, <2>2
    <2>4. call \in [Threads -> [op: Ops, id: Ids \cup {NoId}]]
      BY DEF Typed
    <2>5. CASE r.ok
      <3>1. /\ call' = [call EXCEPT ![u] = NoCall]
            /\ held' = held \/ (r.op = "attach" /\ held' = [held EXCEPT ![r.id] = "open"])
        BY <1>1, <1>3, <2>5 DEF Returns, Call, NoCall
      <3> HIDE DEF r, u
      <3>2. call'[u] = NoCall /\ \A v \in Threads : v # u => call'[v] = call[v]
        BY <2>1, <2>4, <3>1
      <3> QED BY <2>1, <2>3, <2>5, <3>1, <3>2 DEF r
    <2>6. CASE ~r.ok
      <3>1. /\ call' = [call EXCEPT ![u] = [op |-> "refused", id |-> r.id]]
            /\ held' = held
        BY <1>1, <1>3, <2>6 DEF Returns, Call
      <3>2. Refusal(r, r.id)
        BY <1>1, <2>6 DEF Refusal, Frame, Reply, Sent
      <3> HIDE DEF r, u
      <3>3. /\ call'[u] = [op |-> "refused", id |-> r.id]
            /\ \A v \in Threads : v # u => call'[v] = call[v]
        BY <2>1, <2>4, <3>1
      <3> QED BY <2>1, <2>3, <3>1, <3>2, <3>3 DEF r
    <2> QED BY <2>5, <2>6
  <1> QED BY <1>2, <1>3

\* The calls as a step leaves them, when it changes that of one thread
LEMMA OneCall ==
    ASSUME Typed, NEW t \in Threads, NEW op, NEW id, call' = [call EXCEPT ![t] = [op |-> op, id |-> id]]
    PROVE  /\ call'[t].op = op /\ call'[t].id = id
           /\ \A u \in Threads : u # t => call'[u] = call[u]
  BY DEF Typed

\* A step that touches neither the requests nor a call that is about to send
\* an attach
LEMMA AskingUntouched ==
    ASSUME UNCHANGED requests,
           \A u \in Threads : call'[u] = call[u] \/ (call'[u].op # "attach" /\ call[u].op # "attach")
    PROVE  \A k \in Ids : Asking(k)' <=> Asking(k)
  BY DEF Asking, Attaches

\* Only a call of attach asks anew, and only the host's answer settles it.
LEMMA AskingKept ==
    ASSUME Typed, [Next]_vars, ~HostAttach, \A t \in users : ~AttachRegister(t)
    PROVE  \A k \in Ids : Asking(k)' <=> Asking(k)
  <1> DEFINE Kept == \A k \in Ids : Asking(k)' <=> Asking(k)
  <1>t. users \subseteq Threads
    BY DEF Typed
  <1>1. ASSUME NEW t \in users, Sending(t) PROVE Kept
    <2>1. /\ t \in Threads /\ call[t].id \in Ids
          /\ Len(requests) \in Nat /\ Len(requests') = Len(requests) + 1
          /\ \A p \in 1..Len(requests) : requests'[p] = requests[p]
          /\ requests'[Len(requests) + 1] = Requested(t)
          /\ \A u \in Threads : u # t => call'[u] = call[u]
          /\ call'[t].op # "attach"
      BY <1>1, OneSent
    <2>2. \A k : Attaches(Requested(t), k) <=> Attaches(call[t], k)
      BY <1>1 DEF Requested, Attaches
    <2>3. ASSUME NEW k \in Ids, Asking(k) PROVE Asking(k)'
      <3>1. CASE \E p \in 1..Len(requests) : Attaches(requests[p], k)
        <4>1. \E p \in 1..Len(requests') : Attaches(requests'[p], k)
          BY <2>1, <3>1
        <4> QED BY <4>1 DEF Asking
      <3>2. CASE Attaches(call[t], k)
        <4>1. Len(requests) + 1 \in 1..Len(requests')
          BY <2>1
        <4> QED BY <4>1, <2>1, <2>2, <3>2 DEF Asking
      <3>3. CASE \E u \in Threads : u # t /\ Attaches(call[u], k)
        BY <2>1, <3>3 DEF Asking
      <3> QED BY <2>3, <3>1, <3>2, <3>3 DEF Asking
    <2>4. ASSUME NEW k \in Ids, Asking(k)' PROVE Asking(k)
      <3>1. CASE \E p \in 1..Len(requests') : Attaches(requests'[p], k)
        <4>1. PICK p \in 1..Len(requests') : Attaches(requests'[p], k)
          BY <3>1
        <4>2. p \in 1..Len(requests) \/ p = Len(requests) + 1
          BY <2>1
        <4> QED BY <4>1, <4>2, <2>1, <2>2 DEF Asking
      <3>2. CASE \E u \in Threads : Attaches(call'[u], k)
        BY <2>1, <3>2 DEF Asking, Attaches
      <3> QED BY <2>4, <3>1, <3>2 DEF Asking
    <2> QED BY <2>3, <2>4
  <1>2. ASSUME NEW t \in users, AttachRefused(t) \/ AttachTimeout(t) PROVE Kept
    <2>1. call' = [call EXCEPT ![t] = [op |-> "idle", id |-> NoId]] /\ UNCHANGED requests
      BY <1>2 DEF AttachRefused, AttachTimeout, GiveUp, Call
    <2>2. call'[t].op = "idle" /\ \A u \in Threads : u # t => call'[u] = call[u]
      BY <2>1, <1>t, OneCall
    <2>3. call[t].op # "attach"
      BY <1>2 DEF AttachRefused, AttachTimeout
    <2> QED BY <2>1, <2>2, <2>3, AskingUntouched
  <1>3. ASSUME NEW t \in users, NEW id \in Ids, DropRemove(t, id) PROVE Kept
    <2>1. UNCHANGED requests /\ call[t].op = "idle"
          /\ (call' = call \/ call' = [call EXCEPT ![t] = [op |-> "dropping", id |-> id]])
      BY <1>3 DEF DropRemove, Call
    <2>2. \A u \in Threads : call'[u] = call[u] \/ (u = t /\ call'[u].op = "dropping")
      BY <2>1, <1>t, OneCall
    <2> QED BY <2>1, <2>2, AskingUntouched
  <1>4. ASSUME NEW t \in users, DetachRemove(t) PROVE Kept
    <2>1. UNCHANGED requests /\ call[t].op = "idle"
          /\ call' = [call EXCEPT ![t] = [op |-> "detach", id |-> slot.id]]
      BY <1>4 DEF DetachRemove, Call
    <2>2. \A u \in Threads : call'[u] = call[u] \/ (u = t /\ call'[u].op = "detach")
      BY <2>1, <1>t, OneCall
    <2> QED BY <2>1, <2>2, AskingUntouched
  <1>5. ASSUME ReadReply PROVE Kept
    <2>1. UNCHANGED requests
      BY <1>5 DEF ReadReply
    <2>2. \A u \in Threads : call'[u] = call[u] \/ (call'[u].op # "attach" /\ call[u].op # "attach")
      BY <1>5, ReplyReturns DEF NoCall
    <2> QED BY <2>1, <2>2, AskingUntouched
  <1>6. ASSUME HostDetach PROVE Kept
    <2>1. /\ Len(requests) \in Nat \ {0} /\ Len(requests') = Len(requests) - 1
          /\ \A p \in 1..Len(requests') : requests'[p] = requests[p + 1]
          /\ call' = call /\ requests[1].op # "attach"
      BY <1>6, OneServed DEF HostDetach, client
    <2>2. ASSUME NEW k \in Ids, NEW p \in 1..Len(requests), Attaches(requests[p], k)
          PROVE  \E q \in 1..Len(requests') : Attaches(requests'[q], k)
      <3>1. p # 1
        BY <2>1, <2>2 DEF Attaches
      <3>2. p - 1 \in 1..Len(requests') /\ (p - 1) + 1 = p
        BY <2>1, <3>1
      <3> QED BY <2>1, <2>2, <3>2
    <2>3. ASSUME NEW k \in Ids, NEW p \in 1..Len(requests'), Attaches(requests'[p], k)
          PROVE  \E q \in 1..Len(requests) : Attaches(requests[q], k)
      <3>1. p + 1 \in 1..Len(requests)
        BY <2>1
      <3> QED BY <2>1, <2>3, <3>1
    <2> QED BY <2>1, <2>2, <2>3 DEF Asking
  <1>7. ASSUME UNCHANGED <<call, requests>> PROVE Kept
    BY <1>7, AskingUntouched
  <1>8. ASSUME \/ \E i \in Ids : Take(i)
               \/ ReadFrame \/ Deliver \/ RemoveSlot \/ HostDetached \/ HostStreams \/ SessionEnds
               \/ UNCHANGED vars
        PROVE  UNCHANGED <<call, requests>>
    BY <1>8 DEF Take, ReadFrame, Deliver, RemoveSlot, HostDetached, HostStreams, SessionEnds, vars, client
  <1> HIDE DEF Kept
  <1>9. Kept
    BY <1>1, <1>2, <1>3, <1>4, <1>5, <1>6, <1>7, <1>8, SendingIs DEF Next, Sends, Reader, Host
  <1> QED BY <1>9 DEF Kept

\* A new attach asks for a number of its own.
LEMMA AskingRegistered ==
    ASSUME Typed, Numbered, NEW t \in users, AttachRegister(t)
    PROVE  /\ asked' = asked + 1 /\ asked' \in Ids /\ ~Asking(asked') /\ ~Denied(asked')
           /\ \A k \in Ids : Asking(k)' <=> Asking(k) \/ k = asked'
  <1>1. asked \in Nat /\ asked' = asked + 1 /\ asked' \in Ids
    BY StreamClientAssumption DEF AttachRegister, Typed, Ids
  <1>2. /\ t \in Threads /\ UNCHANGED requests /\ call[t].op = "idle"
        /\ call' = [call EXCEPT ![t] = [op |-> "attach", id |-> asked']]
    BY DEF AttachRegister, Typed, Call
  <1>3. /\ call'[t].op = "attach" /\ call'[t].id = asked'
        /\ \A u \in Threads : u # t => call'[u] = call[u]
    BY <1>2, OneCall
  <1>4. /\ \A u \in Threads : call[u].id # asked'
        /\ \A p \in 1..Len(requests) : requests[p].id # asked'
        /\ \A p \in 1..Len(frames) : frames[p].id # asked'
    <2>1. \A n \in Ids \cup {NoId} : n <= asked => n # asked'
      BY <1>1 DEF Ids, NoId
    <2>2. /\ \A u \in Threads : call[u].id \in Ids \cup {NoId}
          /\ \A p \in 1..Len(requests) : requests[p].id \in Ids
          /\ \A p \in 1..Len(frames) : frames[p].id \in Ids
      <3>1. requests \in Seq(Request) /\ frames \in Seq(Frame)
        BY DEF Typed
      <3>2. \A f \in Frame : f.id \in Ids
        BY DEF Frame, Reply, Sent
      <3>3. \A p \in 1..Len(requests) : requests[p] \in Request
        BY <3>1
      <3>4. \A p \in 1..Len(frames) : frames[p] \in Frame
        BY <3>1
      <3> QED BY <3>2, <3>3, <3>4 DEF Typed, Request
    <2> QED BY <2>1, <2>2 DEF Numbered
  <1> QED BY <1>1, <1>2, <1>3, <1>4 DEF Asking, Denied, Attaches, Refusal

\* The host answers an attach; nothing else asks for it.
LEMMA AskingServed ==
    ASSUME Typed, Once, HostAttach
    PROVE  /\ Head(requests).id \in Ids /\ Asking(Head(requests).id)
           /\ \A k \in Ids : Asking(k)' <=> Asking(k) /\ k # Head(requests).id
  <1>1. /\ Len(requests) \in Nat \ {0} /\ Len(requests') = Len(requests) - 1
        /\ \A p \in 1..Len(requests') : requests'[p] = requests[p + 1]
        /\ call' = call /\ Head(requests) = requests[1] /\ Head(requests) \in Request
        /\ Head(requests).op = "attach"
    BY OneServed DEF HostAttach, client
  <1>2. Head(requests).id \in Ids /\ 1 \in 1..Len(requests)
    BY <1>1 DEF Request
  <1>3. Attaches(requests[1], Head(requests).id)
    BY <1>1 DEF Attaches
  <1>4. Asking(Head(requests).id)
    BY <1>2, <1>3 DEF Asking
  <1>5. ASSUME NEW k \in Ids, Asking(k), k # Head(requests).id PROVE Asking(k)'
    <2>1. CASE \E u \in Threads : Attaches(call[u], k)
      BY <1>1, <2>1 DEF Asking
    <2>2. CASE \E p \in 1..Len(requests) : Attaches(requests[p], k)
      <3>1. PICK p \in 1..Len(requests) : Attaches(requests[p], k)
        BY <2>2
      <3>2. p # 1
        BY <1>1, <1>5, <3>1 DEF Attaches
      <3>3. p - 1 \in 1..Len(requests') /\ (p - 1) + 1 = p
        BY <1>1, <3>2
      <3>4. Attaches(requests'[p - 1], k)
        BY <1>1, <3>1, <3>3
      <3> QED BY <3>3, <3>4 DEF Asking
    <2> QED BY <1>5, <2>1, <2>2 DEF Asking
  <1>6. ASSUME NEW k \in Ids, Asking(k)' PROVE Asking(k) /\ k # Head(requests).id
    <2>1. CASE \E u \in Threads : Attaches(call'[u], k)
      <3>1. PICK u \in Threads : Attaches(call[u], k)
        BY <1>1, <2>1
      <3>2. k # Head(requests).id
        BY <1>1, <1>2, <3>1 DEF Once, Attaches
      <3> QED BY <3>1, <3>2 DEF Asking
    <2>2. CASE \E p \in 1..Len(requests') : Attaches(requests'[p], k)
      <3>1. PICK p \in 1..Len(requests') : Attaches(requests'[p], k)
        BY <2>2
      <3>2. p + 1 \in 1..Len(requests) /\ p + 1 # 1 /\ Attaches(requests[p + 1], k)
        BY <1>1, <3>1
      <3>3. k # Head(requests).id
        BY <1>1, <1>2, <3>2 DEF Once, Attaches
      <3> QED BY <3>2, <3>3 DEF Asking
    <2> QED BY <1>6, <2>1, <2>2 DEF Asking
  <1> QED BY <1>2, <1>4, <1>5, <1>6

\* A refusal comes from the host's answer to an attach only.
LEMMA DeniedKept ==
    ASSUME Typed, [Next]_vars, ~HostAttach
    PROVE  \A k \in Ids : Denied(k)' => Denied(k)
  <1> DEFINE Kept == \A k \in Ids : Denied(k)' => Denied(k)
             CallsKept == \A u \in Threads : call'[u].op = "refused" => call'[u] = call[u]
             NoneSent == \A k \in Ids, p \in 1..Len(frames') : Refusal(frames'[p], k) => Denied(k)
  <1>t. users \subseteq Threads
    BY DEF Typed
  <1>u. UNCHANGED frames => NoneSent
    BY DEF Denied
  <1>v. CallsKept /\ NoneSent => Kept
    BY DEF Denied
  <1>1. ASSUME NEW t \in users, NEW op, NEW id, op # "refused", UNCHANGED frames,
               call' = [call EXCEPT ![t] = [op |-> op, id |-> id]]
        PROVE  Kept
    <2>1. \A u \in Threads : call'[u] = call[u] \/ call'[u].op = op
      BY <1>1, <1>t, OneCall
    <2> QED BY <1>1, <1>u, <1>v, <2>1
  <1>2. ASSUME NEW t \in users,
               \/ AttachRegister(t) \/ AttachSend(t) \/ AttachRefused(t) \/ AttachTimeout(t)
               \/ DropSend(t) \/ DetachRemove(t) \/ DetachSend(t)
        PROVE  \E op \in Ops : /\ op # "refused" /\ UNCHANGED frames
                               /\ \E id : call' = [call EXCEPT ![t] = [op |-> op, id |-> id]]
    BY <1>2 DEF AttachRegister, AttachSend, AttachRefused, AttachTimeout, GiveUp, DropSend,
                DetachRemove, DetachSend, Call, Ops
  <1>3. ASSUME UNCHANGED <<call, frames>> PROVE Kept
    BY <1>3, <1>u, <1>v
  <1>4. ASSUME NEW t \in users, NEW id \in Ids, DropRemove(t, id) PROVE Kept
    <2>1. UNCHANGED frames /\ (call' = call \/ call' = [call EXCEPT ![t] = [op |-> "dropping", id |-> id]])
      BY <1>4 DEF DropRemove, Call
    <2> HIDE DEF Kept
    <2> QED BY <2>1, <1>1, <1>3
  <1>5. ASSUME ReadReply \/ ReadFrame PROVE NoneSent
    <2>1. /\ Len(frames) \in Nat \ {0} /\ Len(frames') = Len(frames) - 1
          /\ \A p \in 1..Len(frames') : frames'[p] = frames[p + 1]
      BY <1>5, OneRead
    <2>2. \A p \in 1..Len(frames') : p + 1 \in 1..Len(frames) /\ frames'[p] = frames[p + 1]
      BY <2>1
    <2> QED BY <2>2 DEF Denied
  <1>6. ASSUME ReadReply PROVE Kept
    <2>1. CASE UNCHANGED <<call, held>>
      BY <2>1, <1>5, <1>6, <1>v
    <2>2. CASE ~UNCHANGED <<call, held>>
      <3>1. PICK u \in Threads :
                /\ \A v \in Threads : v # u => call'[v] = call[v]
                /\ \/ call'[u] = NoCall
                   \/ /\ Refusal(Head(frames), Head(frames).id)
                      /\ call'[u] = [op |-> "refused", id |-> Head(frames).id]
        BY <1>6, <2>2, ReplyReturns
      <3>2. CASE call'[u] = NoCall
        BY <3>1, <3>2, <1>5, <1>6, <1>v DEF NoCall
      <3>3. CASE /\ Refusal(Head(frames), Head(frames).id)
                 /\ call'[u] = [op |-> "refused", id |-> Head(frames).id]
        <4>1. Head(frames) = frames[1] /\ 1 \in 1..Len(frames)
          BY <1>6, OneRead
        <4>2. Denied(Head(frames).id)
          BY <3>3, <4>1 DEF Denied
        <4>3. \A v \in Threads : v # u => call'[v] = call[v]
          BY <3>1
        <4>4. call'[u].id = Head(frames).id
          BY <3>3
        <4>5. ASSUME NEW k \in Ids, Denied(k)' PROVE Denied(k)
          <5>1. CASE \E p \in 1..Len(frames') : Refusal(frames'[p], k)
            BY <5>1, <1>5, <1>6
          <5>2. CASE \E v \in Threads : call'[v].op = "refused" /\ call'[v].id = k
            BY <5>2, <4>2, <4>3, <4>4 DEF Denied
          <5> QED BY <4>5, <5>1, <5>2 DEF Denied
        <4> QED BY <4>5
      <3> QED BY <3>1, <3>2, <3>3
    <2> QED BY <2>1, <2>2
  <1>7. ASSUME ReadFrame PROVE Kept
    BY <1>5, <1>7, <1>v DEF ReadFrame
  <1>8. ASSUME NEW f \in Frame, frames' = Append(frames, f), f.kind = "stream" \/ f.op = "detach",
               UNCHANGED call
        PROVE  Kept
    <2>1. /\ Len(frames) \in Nat /\ Len(frames') = Len(frames) + 1
          /\ \A i \in 1..Len(frames) : frames'[i] = frames[i]
          /\ frames'[Len(frames) + 1] = f
      BY <1>8, OneWritten
    <2>2. \A k : ~Refusal(f, k)
      BY <1>8 DEF Refusal
    <2>3. ASSUME NEW k \in Ids, NEW p \in 1..Len(frames'), Refusal(frames'[p], k) PROVE Denied(k)
      <3>1. p \in 1..Len(frames) \/ p = Len(frames) + 1
        BY <2>1
      <3> QED BY <2>1, <2>2, <2>3, <3>1 DEF Denied
    <2>4. NoneSent
      BY <2>3
    <2> QED BY <1>8, <2>4, <1>v
  <1>9. ASSUME HostDetached PROVE Kept
    <2>1. serving \in Request /\ serving.op = "detach"
      BY <1>9 DEF HostDetached, Typed
    <2>2. ReplyTo(serving, TRUE) \in Frame /\ ReplyTo(serving, TRUE).op = "detach"
      BY <2>1 DEF ReplyTo, Frame, Reply, Request
    <2>3. frames' = Append(frames, ReplyTo(serving, TRUE)) /\ UNCHANGED call
      BY <1>9 DEF HostDetached, client
    <2> HIDE DEF Kept
    <2> QED BY <2>2, <2>3, <1>8
  <1>10. ASSUME HostStreams PROVE Kept
    <2> DEFINE f == [kind |-> "stream", id |-> stream.id, event |-> stream.next]
    <2>1. CASE frames' = frames
      BY <1>10, <2>1, <1>3 DEF HostStreams, client
    <2>2. CASE frames' # frames
      <3>1. stream.state = "send" /\ frames' = Append(frames, f) /\ UNCHANGED call
        BY <1>10, <2>2 DEF HostStreams, client
      <3>2. f \in Frame /\ f.kind = "stream"
        BY <3>1 DEF Frame, Sent, Typed
      <3> HIDE DEF Kept, f
      <3> QED BY <3>1, <3>2, <1>8
    <2> QED BY <2>1, <2>2
  <1>11. ASSUME \/ \E i \in Ids : Take(i)
                \/ Deliver \/ RemoveSlot \/ HostDetach \/ SessionEnds \/ UNCHANGED vars
         PROVE  UNCHANGED <<call, frames>>
    BY <1>11 DEF Take, Deliver, RemoveSlot, HostDetach, SessionEnds, vars, client
  <1>12. ASSUME NEW t \in users,
               \/ AttachRegister(t) \/ AttachSend(t) \/ AttachRefused(t) \/ AttachTimeout(t)
               \/ DropSend(t) \/ DetachRemove(t) \/ DetachSend(t)
        PROVE  Kept
    <2> HIDE DEF Kept
    <2> QED BY <1>12, <1>1, <1>2
  <1> HIDE DEF Kept
  <1>13. Kept
    BY <1>3, <1>4, <1>6, <1>7, <1>9, <1>10, <1>11, <1>12 DEF Next, Sends, Reader, Host
  <1> QED BY <1>13 DEF Kept

\* The host's answer to an attach: it opens a stream, or is a refusal.
LEMMA OneAnswered ==
    ASSUME Typed, HostAttach, NEW k, k = Head(requests).id
    PROVE  /\ k \in Ids
           /\ Len(frames) \in Nat /\ Len(frames') = Len(frames) + 1
           /\ \A i \in 1..Len(frames) : frames'[i] = frames[i]
           /\ frames'[Len(frames) + 1].kind = "reply" /\ frames'[Len(frames) + 1].op = "attach"
           /\ frames'[Len(frames) + 1].id = k
           /\ \/ /\ frames'[Len(frames) + 1].ok
                 /\ stream.state \in {"none", "done"} /\ stream' = Opened(k)
              \/ ~frames'[Len(frames) + 1].ok /\ stream' = stream
           /\ serving = NotBusy /\ UNCHANGED <<client, serving, ended>>
  <1>1. Head(requests) \in Request /\ Head(requests).op = "attach"
    BY OneServed DEF HostAttach
  <1>2. ASSUME NEW b \in BOOLEAN, frames' = Append(frames, ReplyTo(Head(requests), b))
        PROVE  /\ Len(frames) \in Nat /\ Len(frames') = Len(frames) + 1
               /\ \A i \in 1..Len(frames) : frames'[i] = frames[i]
               /\ frames'[Len(frames) + 1].kind = "reply" /\ frames'[Len(frames) + 1].op = "attach"
               /\ frames'[Len(frames) + 1].id = k /\ frames'[Len(frames) + 1].ok = b
    <2> DEFINE f == ReplyTo(Head(requests), b)
    <2>1. f \in Frame /\ f.kind = "reply" /\ f.op = "attach" /\ f.id = k /\ f.ok = b
      BY <1>1 DEF ReplyTo, Frame, Reply, Request
    <2> HIDE DEF f
    <2>2. frames' = Append(frames, f)
      BY <1>2 DEF f
    <2> QED BY <2>1, <2>2, OneWritten
  <1>3. k \in Ids
    BY <1>1 DEF Request
  <1>4. serving = NotBusy /\ UNCHANGED <<client, serving, ended>>
    BY DEF HostAttach
  <1>5. CASE stream.state \in {"none", "done"}
    <2>1. frames' = Append(frames, ReplyTo(Head(requests), TRUE)) /\ stream' = Opened(k)
      BY <1>5, OpenedIs DEF HostAttach
    <2> QED BY <1>2, <1>3, <1>4, <1>5, <2>1
  <1>6. CASE stream.state \notin {"none", "done"}
    <2>1. frames' = Append(frames, ReplyTo(Head(requests), FALSE)) /\ stream' = stream
      BY <1>6 DEF HostAttach
    <2> QED BY <1>2, <1>3, <1>4, <2>1
  <1> QED BY <1>5, <1>6

\* The host refuses only the attach it answers.
LEMMA DeniedServed ==
    ASSUME Typed, HostAttach, NEW i \in Ids, Denied(i)'
    PROVE  Denied(i) \/ (i = Head(requests).id /\ stream' = stream)
  <1> DEFINE k == Head(requests).id
  <1>1. /\ Len(frames) \in Nat /\ Len(frames') = Len(frames) + 1
        /\ \A p \in 1..Len(frames) : frames'[p] = frames[p]
        /\ frames'[Len(frames) + 1].id = k
        /\ frames'[Len(frames) + 1].ok \/ stream' = stream
        /\ UNCHANGED client
    BY OneAnswered
  <1> HIDE DEF k
  <1>2. CASE \E u \in Threads : call'[u].op = "refused" /\ call'[u].id = i
    BY <1>1, <1>2 DEF client, Denied
  <1>3. CASE \E p \in 1..Len(frames') : Refusal(frames'[p], i)
    <2>1. PICK p \in 1..Len(frames') : Refusal(frames'[p], i)
      BY <1>3
    <2>2. p \in 1..Len(frames) \/ p = Len(frames) + 1
      BY <1>1
    <2>3. CASE p \in 1..Len(frames)
      BY <2>1, <2>3, <1>1 DEF Denied
    <2>4. CASE p = Len(frames) + 1
      BY <2>1, <2>4, <1>1 DEF Refusal, k
    <2> QED BY <2>2, <2>3, <2>4
  <1> QED BY <1>2, <1>3 DEF Denied

\* The host's reply to a detach, and a frame of its stream
LEMMA OneDetached ==
    ASSUME Typed, HostDetached
    PROVE  /\ Len(frames) \in Nat /\ Len(frames') = Len(frames) + 1
           /\ \A i \in 1..Len(frames) : frames'[i] = frames[i]
           /\ frames'[Len(frames) + 1].kind = "reply" /\ frames'[Len(frames) + 1].op = "detach"
           /\ frames'[Len(frames) + 1].id = serving.id
  <1> DEFINE f == ReplyTo(serving, TRUE)
  <1>1. serving \in Request /\ serving.op = "detach"
    BY DEF HostDetached, Typed
  <1>2. f \in Frame /\ f.kind = "reply" /\ f.op = "detach" /\ f.id = serving.id
    BY <1>1 DEF ReplyTo, Frame, Reply, Request
  <1>3. frames' = Append(frames, f)
    BY DEF HostDetached
  <1> HIDE DEF f
  <1> QED BY <1>2, <1>3, OneWritten

\* A batch that was read becomes one frame, and the stream goes on.
LEMMA OneStreamed ==
    ASSUME Typed, HostStreams, stream.state = "send"
    PROVE  /\ Len(frames) \in Nat /\ Len(frames') = Len(frames) + 1
           /\ \A i \in 1..Len(frames) : frames'[i] = frames[i]
           /\ frames'[Len(frames) + 1] =
                 [kind |-> "stream", id |-> stream.id, event |-> stream.next]
           /\ stream' = [id |-> stream.id, state |-> IF stream.next = End THEN "left" ELSE "run",
                         next |-> stream.next + 1, stop |-> stream.stop]
  <1> DEFINE f == [kind |-> "stream", id |-> stream.id, event |-> stream.next]
  <1>1. frames' = Append(frames, f)
    BY DEF HostStreams
  <1>2. f \in Frame
    BY DEF Frame, Sent, Typed
  <1>3. stream' = [id |-> stream.id, state |-> IF stream.next = End THEN "left" ELSE "run",
                   next |-> stream.next + 1, stop |-> stream.stop]
    BY DEF HostStreams, Typed
  <1> HIDE DEF f
  <1>4. /\ Len(frames) \in Nat /\ Len(frames') = Len(frames) + 1
        /\ \A i \in 1..Len(frames) : frames'[i] = frames[i]
        /\ frames'[Len(frames) + 1] = f
    BY <1>1, <1>2, OneWritten
  <1> QED BY <1>3, <1>4 DEF f

\* Numbers above the last attach's stay unused.
LEMMA NumberedStep ==
    ASSUME Typed, Typed', Numbered, [Next]_vars
    PROVE  Numbered'
  <1>t. users \subseteq Threads
    BY DEF Typed
  <1>n. asked \in Nat /\ NoId = 0 /\ \A i \in Ids : i \in Nat
    BY DEF Typed, Ids, NoId
  <1>1. ASSUME NEW t \in users, AttachRegister(t) PROVE Numbered'
    <2>1. /\ asked' = asked + 1
          /\ call' = [call EXCEPT ![t] = [op |-> "attach", id |-> asked']]
          /\ slot' = [id |-> asked', live |-> FALSE]
          /\ UNCHANGED <<cancelled, queue, held, seen, reader, requests, frames, host>>
      BY <1>1 DEF AttachRegister, Call
    <2>2. \A u \in Threads : call'[u].id = asked' \/ call'[u].id = call[u].id
      BY <2>1, <1>t, OneCall
    <2>3. \A n \in Int : n <= asked => n <= asked'
      BY <2>1, <1>n
    <2>4. /\ stream.id \in Int /\ serving.id \in Int /\ reader.to \in Int
          /\ \A u \in Threads : call[u].id \in Int
          /\ \A p \in 1..Len(requests) : requests[p].id \in Int
          /\ \A p \in 1..Len(frames) : frames[p].id \in Int
      <3>1. \A p \in 1..Len(frames) : frames[p] \in Frame
        BY DEF Typed
      <3>2. \A f \in Frame : f.id \in Ids
        BY DEF Frame, Reply, Sent
      <3>3. \A p \in 1..Len(requests) : requests[p] \in Request
        BY DEF Typed
      <3>4. \A r \in Request : r.id \in Ids
        BY DEF Request
      <3>5. serving.id \in Ids \cup {NoId}
        <4>1. NotBusy.id = NoId
          BY DEF NotBusy
        <4> QED BY <4>1, <3>4 DEF Typed
      <3>6. /\ stream.id \in Ids \cup {NoId} /\ reader.to \in Ids \cup {NoId}
            /\ \A u \in Threads : call[u].id \in Ids \cup {NoId}
        BY DEF Typed
      <3>7. \A i \in Ids \cup {NoId} : i \in Int
        BY <1>n
      <3> QED BY <3>1, <3>2, <3>3, <3>4, <3>5, <3>6, <3>7
    <2>5. \A j \in Ids : j > asked' => j > asked
      BY <2>1, <1>n
    <2>6. asked' <= asked'
      BY <2>1, <1>n
    <2> QED BY <2>1, <2>2, <2>3, <2>4, <2>5, <2>6 DEF Numbered, host
  <1>2. ASSUME NEW t \in users, Sending(t) PROVE Numbered'
    <2>1. /\ Len(requests) \in Nat /\ Len(requests') = Len(requests) + 1
          /\ \A p \in 1..Len(requests) : requests'[p] = requests[p]
          /\ requests'[Len(requests) + 1] = Requested(t)
          /\ \A u \in Threads : u # t => call'[u] = call[u]
          /\ call'[t].id \in {call[t].id, NoId}
      BY <1>2, OneSent
    <2>2. Requested(t).id <= asked /\ \A u \in Threads : call'[u].id <= asked
      BY <2>1, <1>t, <1>n DEF Requested, Numbered
    <2>3. ASSUME NEW p \in 1..Len(requests') PROVE requests'[p].id <= asked
      <3>1. p \in 1..Len(requests) \/ p = Len(requests) + 1
        BY <2>1
      <3> QED BY <3>1, <2>1, <2>2 DEF Numbered
    <2> QED BY <1>2, <2>2, <2>3 DEF Sending, Numbered, host
  <1>3. ASSUME NEW t \in users, AttachRefused(t) \/ AttachTimeout(t) PROVE Numbered'
    <2>1. call[t].id \in Ids /\ call[t].id <= asked
      BY <1>3, <1>t DEF AttachRefused, AttachTimeout, Typed, Numbered
    <2>2. /\ call' = [call EXCEPT ![t] = [op |-> "idle", id |-> NoId]]
          /\ slot' = [id |-> NoId, live |-> FALSE] \/ slot' = slot
          /\ held' = [held EXCEPT ![call[t].id] = "refused"]
          /\ UNCHANGED <<setting, asked, cancelled, queue, seen, reader, requests, frames, host>>
      BY <1>3 DEF AttachRefused, AttachTimeout, GiveUp, Call, NoSlot
    <2>3. \A u \in Threads : call'[u].id = NoId \/ call'[u].id = call[u].id
      BY <2>2, <1>t, OneCall
    <2>4. \A j \in Ids : j > asked => held'[j] = held[j]
      BY <2>1, <2>2, <1>n DEF Typed
    <2> QED BY <2>2, <2>3, <2>4, <1>n DEF Numbered, host
  <1>4. ASSUME NEW t \in users, NEW id \in Ids, DropRemove(t, id) PROVE Numbered'
    <2>1. held[id] = "open" /\ ~(id > asked) /\ id <= asked
      BY <1>4, <1>n DEF DropRemove, Numbered
    <2>2. /\ \/ call' = call
             \/ call' = [call EXCEPT ![t] = [op |-> "dropping", id |-> id]]
          /\ slot' = [id |-> NoId, live |-> FALSE] \/ slot' = slot
          /\ cancelled' = cancelled \/ cancelled' = [cancelled EXCEPT ![id] = TRUE]
          /\ held' = [held EXCEPT ![id] = "dropped"]
          /\ UNCHANGED <<setting, asked, queue, seen, reader, requests, frames, host>>
      BY <1>4 DEF DropRemove, Call, NoSlot
    <2>3. \A u \in Threads : call'[u].id = id \/ call'[u].id = call[u].id
      BY <2>2, <1>t, OneCall
    <2>4. \A j \in Ids : j > asked => held'[j] = held[j] /\ cancelled'[j] = cancelled[j]
      BY <2>1, <2>2 DEF Typed
    <2> QED BY <2>1, <2>2, <2>3, <2>4, <1>n DEF Numbered, host
  <1>5. ASSUME NEW t \in users, DetachRemove(t) PROVE Numbered'
    <2>1. /\ call' = [call EXCEPT ![t] = [op |-> "detach", id |-> slot.id]]
          /\ slot' = [id |-> NoId, live |-> FALSE]
          /\ cancelled' = [cancelled EXCEPT ![slot.id] = TRUE]
          /\ UNCHANGED <<setting, asked, queue, held, seen, reader, requests, frames, host>>
      BY <1>5 DEF DetachRemove, Call, NoSlot
    <2>2. \A u \in Threads : call'[u].id = slot.id \/ call'[u].id = call[u].id
      BY <2>1, <1>t, OneCall
    <2>3. slot.id \in Ids \cup {NoId} /\ slot.id <= asked
      BY DEF Typed, Numbered
    <2>4. \A j \in Ids : j > asked => j # slot.id
      BY <2>3, <1>n
    <2>5. \A j \in Ids : j > asked => cancelled'[j] = cancelled[j]
      BY <2>1, <2>4 DEF Typed
    <2> QED BY <2>1, <2>2, <2>3, <2>5, <1>n DEF Numbered, host
  <1>6. ASSUME NEW id \in Ids, Take(id) PROVE Numbered'
    <2>1. \A j \in Ids : j > asked => j # id
      BY <1>6 DEF Take, Numbered
    <2>2. \A j \in Ids : j # id => queue'[j] = queue[j] /\ seen'[j] = seen[j]
      BY <1>6 DEF Take, Typed
    <2> QED BY <1>6, <2>1, <2>2 DEF Numbered, Take, host
  <1>7. ASSUME ReadReply \/ ReadFrame
        PROVE  \A p \in 1..Len(frames') : frames'[p].id <= asked
    <2>1. /\ Len(frames) \in Nat \ {0} /\ Len(frames') = Len(frames) - 1
          /\ \A p \in 1..Len(frames') : frames'[p] = frames[p + 1]
      BY <1>7, OneRead
    <2>2. \A p \in 1..Len(frames') : p + 1 \in 1..Len(frames) /\ frames'[p] = frames[p + 1]
      BY <2>1
    <2> QED BY <2>2 DEF Numbered
  <1>8. ASSUME ReadReply PROVE Numbered'
    <2>1. Head(frames) = frames[1] /\ 1 \in 1..Len(frames)
      BY <1>8, OneRead
    <2>2. Head(frames).id <= asked /\ Head(frames).id \in Ids
      BY <1>8, <2>1, OneRead DEF Numbered
    <2>3. \A u \in Threads : call'[u].id <= asked
      <3>1. CASE call' = call
        BY <3>1 DEF Numbered
      <3>2. CASE call' # call
        <4>1. PICK u \in Threads :
                /\ \A v \in Threads : v # u => call'[v] = call[v]
                /\ call'[u] = NoCall \/ call'[u] = [op |-> "refused", id |-> Head(frames).id]
          BY <1>8, <3>2, ReplyReturns
        <4>2. call'[u].id <= asked
          BY <4>1, <2>2, <1>n DEF NoCall, Typed
        <4> QED BY <4>1, <4>2 DEF Numbered
      <3> QED BY <3>1, <3>2
    <2>4. \A j \in Ids : j > asked => held'[j] = held[j]
      <3>1. held' = held \/ held' = [held EXCEPT ![Head(frames).id] = "open"]
        BY <1>8, ReplyReturns
      <3>2. \A j \in Ids : j > asked => j # Head(frames).id
        BY <2>2, <1>n
      <3> QED BY <3>1, <3>2 DEF Typed
    <2>5. slot'.id = slot.id
      BY <1>8 DEF ReadReply, Typed
    <2>6. UNCHANGED <<setting, asked, cancelled, queue, seen, reader, requests, host>>
      BY <1>8 DEF ReadReply
    <2> QED BY <1>7, <1>8, <2>3, <2>4, <2>5, <2>6 DEF Numbered, host
  <1>9. ASSUME ReadFrame PROVE Numbered'
    <2>1. /\ reader'.to \in {slot.id, NoId}
          /\ UNCHANGED <<setting, call, asked, slot, cancelled, queue, held, seen, requests, host>>
      BY <1>9 DEF ReadFrame, After, Removing, Free
    <2> QED BY <1>7, <1>9, <2>1, <1>n DEF Numbered, host
  <1>10. ASSUME Deliver PROVE Numbered'
    <2>1. /\ reader'.to = NoId /\ reader.to \in Ids
          /\ queue' = queue \/ \E e : queue' = [queue EXCEPT ![reader.to] = e]
          /\ UNCHANGED <<setting, call, asked, slot, cancelled, held, seen, requests, frames, host>>
      BY <1>10 DEF Deliver, After, Removing, Free, Typed
    <2>2. \A j \in Ids : j > asked => j # reader.to
      BY <2>1, <1>n DEF Numbered
    <2>3. \A j \in Ids : j # reader.to => queue'[j] = queue[j]
      BY <2>1 DEF Typed
    <2> QED BY <2>1, <2>2, <2>3, <1>n DEF Numbered, host
  <1>11. ASSUME RemoveSlot PROVE Numbered'
    BY <1>11, <1>n DEF RemoveSlot, Numbered, NoSlot, Free, host
  <1>12. ASSUME HostAttach \/ HostDetach
         PROVE  /\ Head(requests).id <= asked
                /\ \A p \in 1..Len(requests') : requests'[p].id <= asked
    <2>1. /\ Len(requests) \in Nat \ {0} /\ Len(requests') = Len(requests) - 1
          /\ Head(requests) = requests[1]
          /\ \A p \in 1..Len(requests') : requests'[p] = requests[p + 1]
      BY <1>12, OneServed
    <2>2. \A p \in 1..Len(requests') : p + 1 \in 1..Len(requests) /\ requests'[p] = requests[p + 1]
      BY <2>1
    <2>3. 1 \in 1..Len(requests)
      BY <2>1
    <2> QED BY <2>1, <2>2, <2>3 DEF Numbered
  <1>13. ASSUME Len(frames) \in Nat, Len(frames') = Len(frames) + 1, UNCHANGED asked,
                \A i \in 1..Len(frames) : frames'[i] = frames[i],
                frames'[Len(frames) + 1].id <= asked
         PROVE  \A p \in 1..Len(frames') : frames'[p].id <= asked
    <2>1. \A p \in 1..Len(frames') : p \in 1..Len(frames) \/ p = Len(frames) + 1
      BY <1>13
    <2> QED BY <1>13, <2>1 DEF Numbered
  <1>14. ASSUME HostAttach PROVE Numbered'
    <2> DEFINE k == Head(requests).id
    <2>1. /\ Len(frames) \in Nat /\ Len(frames') = Len(frames) + 1
          /\ \A i \in 1..Len(frames) : frames'[i] = frames[i]
          /\ frames'[Len(frames) + 1].id = k
          /\ stream' = Opened(k) \/ stream' = stream
          /\ UNCHANGED <<client, serving, ended>>
      BY <1>14, OneAnswered
    <2>2. k <= asked /\ \A p \in 1..Len(requests') : requests'[p].id <= asked
      BY <1>12, <1>14
    <2> HIDE DEF k
    <2>3. \A p \in 1..Len(frames') : frames'[p].id <= asked
      BY <2>1, <2>2, <1>13 DEF client
    <2>4. stream'.id <= asked
      BY <2>1, <2>2 DEF Opened, Numbered
    <2> QED BY <2>1, <2>2, <2>3, <2>4 DEF Numbered, client
  <1>15. ASSUME HostDetach PROVE Numbered'
    <2>1. stream'.id = stream.id
      BY <1>15 DEF HostDetach, Typed
    <2> QED BY <1>12, <1>15, <2>1 DEF HostDetach, Numbered, client
  <1>16. ASSUME HostDetached PROVE Numbered'
    <2>1. frames'[Len(frames) + 1].id <= asked
      BY <1>16, OneDetached DEF Numbered
    <2>2. \A p \in 1..Len(frames') : frames'[p].id <= asked
      BY <1>16, <2>1, <1>13, OneDetached DEF HostDetached, client
    <2>3. stream'.id = NoId /\ serving'.id = NoId
      BY <1>16 DEF HostDetached, NoStream, NotBusy
    <2>4. NoId <= asked /\ UNCHANGED <<client, requests>>
      BY <1>16, <1>n DEF HostDetached
    <2> QED BY <2>2, <2>3, <2>4 DEF Numbered, client
  <1>17. ASSUME HostStreams PROVE Numbered'
    <2>1. CASE stream.state = "send"
      <3>1. frames'[Len(frames) + 1].id <= asked /\ stream'.id = stream.id
        BY <1>17, <2>1, OneStreamed DEF Numbered
      <3>2. \A p \in 1..Len(frames') : frames'[p].id <= asked
        BY <1>17, <2>1, <3>1, <1>13, OneStreamed DEF HostStreams, client
      <3> QED BY <1>17, <3>1, <3>2 DEF HostStreams, Numbered, client
    <2>2. CASE stream.state # "send"
      <3>1. stream'.id = stream.id /\ frames' = frames
        BY <1>17, <2>2 DEF HostStreams, Typed
      <3> QED BY <1>17, <3>1 DEF HostStreams, Numbered, client
    <2> QED BY <2>1, <2>2
  <1>18. ASSUME SessionEnds \/ UNCHANGED vars PROVE Numbered'
    BY <1>18 DEF SessionEnds, vars, client, host, Numbered
  <1> QED BY <1>1, <1>2, <1>3, <1>4, <1>5, <1>6, <1>8, <1>9, <1>10, <1>11, <1>14, <1>15, <1>16,
        <1>17, <1>18, SendingIs
      DEF Next, Sends, Reader, Host

\* Nobody asks twice with one number.
LEMMA OnceStep ==
    ASSUME Typed, Numbered, Once, [Next]_vars
    PROVE  Once'
  <1>t. users \subseteq Threads
    BY DEF Typed
  <1>1. ASSUME NEW t \in users, AttachRegister(t) PROVE Once'
    <2>1. ~Asking(asked') /\ asked' \in Ids
      BY <1>1, AskingRegistered
    <2>2. /\ call' = [call EXCEPT ![t] = [op |-> "attach", id |-> asked']]
          /\ UNCHANGED requests
      BY <1>1 DEF AttachRegister, Call
    <2>3. /\ call'[t].op = "attach" /\ call'[t].id = asked'
          /\ \A u \in Threads : u # t => call'[u] = call[u]
      BY <2>2, <1>t, OneCall
    <2>4. /\ \A u \in Threads : ~Attaches(call[u], asked')
          /\ \A p \in 1..Len(requests) : ~Attaches(requests[p], asked')
      BY <2>1 DEF Asking
    <2>5. \A u, v \in Threads : call'[u].op = "attach" /\ Attaches(call'[v], call'[u].id) => u = v
      BY <2>3, <2>4 DEF Once, Attaches
    <2>6. \A u \in Threads, p \in 1..Len(requests) :
            call'[u].op = "attach" => ~Attaches(requests[p], call'[u].id)
      BY <2>3, <2>4 DEF Once
    <2> QED BY <2>2, <2>5, <2>6 DEF Once
  <1>2. ASSUME NEW t \in users, Sending(t) PROVE Once'
    <2>1. /\ t \in Threads
          /\ Len(requests) \in Nat /\ Len(requests') = Len(requests) + 1
          /\ \A p \in 1..Len(requests) : requests'[p] = requests[p]
          /\ requests'[Len(requests) + 1] = Requested(t)
          /\ \A u \in Threads : u # t => call'[u] = call[u]
          /\ call'[t].op # "attach"
      BY <1>2, OneSent
    <2>2. \A k : Attaches(Requested(t), k) <=> Attaches(call[t], k)
      BY <1>2 DEF Sending, Requested, Attaches
    <2>3. \A p \in 1..Len(requests') : p \in 1..Len(requests) \/ p = Len(requests) + 1
      BY <2>1
    <2>4. \A u, v \in Threads : call'[u].op = "attach" /\ Attaches(call'[v], call'[u].id) => u = v
      BY <2>1 DEF Once, Attaches
    <2>5. ASSUME NEW u \in Threads, NEW p \in 1..Len(requests'), call'[u].op = "attach"
          PROVE  ~Attaches(requests'[p], call'[u].id)
      <3>1. u # t /\ call'[u] = call[u]
        BY <2>1, <2>5
      <3>2. CASE p \in 1..Len(requests)
        BY <2>1, <2>5, <3>1, <3>2 DEF Once
      <3>3. CASE p = Len(requests) + 1
        <4>1. requests'[p] = requests'[Len(requests')]
          BY <2>1, <3>3
        <4> QED BY <2>1, <2>2, <2>5, <3>1, <4>1, SMTT(30) DEF Once, Attaches
      <3> QED BY <2>3, <3>2, <3>3
    <2>6. ASSUME NEW p \in 1..Len(requests'), NEW q \in 1..Len(requests'),
                 requests'[p].op = "attach", Attaches(requests'[q], requests'[p].id)
          PROVE  p = q
      <3>1. Attaches(requests'[p], requests'[q].id) /\ requests'[q].op = "attach"
            /\ Attaches(requests'[q], requests'[p].id) /\ requests'[p].id = requests'[q].id
        BY <2>6 DEF Attaches
      <3>2. CASE p \in 1..Len(requests) /\ q \in 1..Len(requests)
        BY <2>1, <2>6, <3>2 DEF Once
      <3>3. CASE p = Len(requests) + 1 /\ q \in 1..Len(requests)
        <4>1. call[t].op = "attach" /\ Attaches(requests[q], call[t].id)
          BY <2>1, <2>2, <3>1, <3>3 DEF Attaches
        <4> QED BY <4>1, <2>1, <3>3 DEF Once
      <3>4. CASE q = Len(requests) + 1 /\ p \in 1..Len(requests)
        <4>1. call[t].op = "attach" /\ Attaches(requests[p], call[t].id)
          BY <2>1, <2>2, <3>1, <3>4 DEF Attaches
        <4> QED BY <4>1, <2>1, <3>4 DEF Once
      <3> QED BY <2>3, <3>2, <3>3, <3>4
    <2> QED BY <2>4, <2>5, <2>6 DEF Once
  <1>3. ASSUME HostAttach \/ HostDetach PROVE Once'
    <2>1. /\ Len(requests) \in Nat \ {0} /\ Len(requests') = Len(requests) - 1
          /\ \A p \in 1..Len(requests') : requests'[p] = requests[p + 1]
          /\ call' = call
      BY <1>3, OneServed DEF HostAttach, HostDetach, client
    <2>2. \A p \in 1..Len(requests') : p + 1 \in 1..Len(requests) /\ requests'[p] = requests[p + 1]
      BY <2>1
    <2>3. \A p, q \in 1..Len(requests') :
             requests'[p].op = "attach" /\ Attaches(requests'[q], requests'[p].id) => p = q
      <3>1. SUFFICES ASSUME NEW p \in 1..Len(requests'), NEW q \in 1..Len(requests'),
                     requests'[p].op = "attach", Attaches(requests'[q], requests'[p].id)
                     PROVE  p = q
        OBVIOUS
      <3>2. p + 1 = q + 1
        BY <2>2, <3>1 DEF Once
      <3> QED BY <3>2, <2>1
    <2> QED BY <2>1, <2>2, <2>3 DEF Once
  <1>4. ASSUME UNCHANGED requests,
               \A u \in Threads : call'[u] = call[u] \/ call'[u].op # "attach"
        PROVE  Once'
    <2>1. \A u, v \in Threads : call'[u].op = "attach" /\ Attaches(call'[v], call'[u].id) => u = v
      BY <1>4 DEF Once, Attaches
    <2>2. \A u \in Threads, p \in 1..Len(requests) :
            call'[u].op = "attach" => ~Attaches(requests[p], call'[u].id)
      BY <1>4 DEF Once
    <2> QED BY <1>4, <2>1, <2>2 DEF Once
  <1>5. ASSUME NEW t \in users, AttachRefused(t) \/ AttachTimeout(t) PROVE Once'
    <2>1. call' = [call EXCEPT ![t] = [op |-> "idle", id |-> NoId]] /\ UNCHANGED requests
      BY <1>5 DEF AttachRefused, AttachTimeout, GiveUp, Call
    <2>2. \A u \in Threads : call'[u] = call[u] \/ call'[u].op = "idle"
      BY <2>1, <1>t, OneCall
    <2> QED BY <2>1, <2>2, <1>4
  <1>6. ASSUME NEW t \in users, NEW id \in Ids, DropRemove(t, id) PROVE Once'
    <2>1. UNCHANGED requests
          /\ (call' = call \/ call' = [call EXCEPT ![t] = [op |-> "dropping", id |-> id]])
      BY <1>6 DEF DropRemove, Call
    <2>2. \A u \in Threads : call'[u] = call[u] \/ call'[u].op = "dropping"
      BY <2>1, <1>t, OneCall
    <2> QED BY <2>1, <2>2, <1>4
  <1>7. ASSUME NEW t \in users, DetachRemove(t) PROVE Once'
    <2>1. UNCHANGED requests /\ call' = [call EXCEPT ![t] = [op |-> "detach", id |-> slot.id]]
      BY <1>7 DEF DetachRemove, Call
    <2>2. \A u \in Threads : call'[u] = call[u] \/ call'[u].op = "detach"
      BY <2>1, <1>t, OneCall
    <2> QED BY <2>1, <2>2, <1>4
  <1>8. ASSUME ReadReply PROVE Once'
    <2>1. UNCHANGED requests
      BY <1>8 DEF ReadReply
    <2>2. \A u \in Threads : call'[u] = call[u] \/ call'[u].op # "attach"
      BY <1>8, ReplyReturns DEF NoCall
    <2> QED BY <2>1, <2>2, <1>4
  <1>9. ASSUME \/ \E i \in Ids : Take(i)
               \/ ReadFrame \/ Deliver \/ RemoveSlot \/ HostDetached \/ HostStreams \/ SessionEnds
               \/ UNCHANGED vars
        PROVE  Once'
    <2>1. UNCHANGED <<call, requests>>
      BY <1>9 DEF Take, ReadFrame, Deliver, RemoveSlot, HostDetached, HostStreams, SessionEnds, vars, client
    <2> QED BY <2>1, <1>4
  <1> QED BY <1>1, <1>2, <1>3, <1>5, <1>6, <1>7, <1>8, <1>9, SendingIs
      DEF Next, Sends, Reader, Host

\* What the host refused is not asked for any more, and has no stream.
LEMMA SettledStep ==
    ASSUME Typed, Numbered, Once, Settled, [Next]_vars
    PROVE  Settled'
  <1>1. ASSUME NEW t \in users, AttachRegister(t) PROVE Settled'
    <2>1. /\ asked' = asked + 1 /\ asked' \in Ids /\ ~Denied(asked')
          /\ \A k \in Ids : Asking(k)' <=> Asking(k) \/ k = asked'
      BY <1>1, AskingRegistered
    <2>2. ~HostAttach
      <3>1. asked \in Int
        BY DEF Typed
      <3>2. HostAttach => asked' = asked
        BY DEF HostAttach, client
      <3> QED BY <2>1, <3>1, <3>2
    <2>3. \A k \in Ids : Denied(k)' => Denied(k)
      BY <2>2, DeniedKept
    <2>4. stream' = stream /\ stream.id # asked'
      <3>1. stream.id \in Ids \cup {NoId} /\ stream.id <= asked /\ asked \in Int
        BY DEF Typed, Numbered
      <3>2. \A i \in Ids \cup {NoId} : i \in Int
        BY DEF Ids, NoId
      <3> QED BY <1>1, <2>1, <3>1, <3>2 DEF AttachRegister, host
    <2> QED BY <2>1, <2>3, <2>4 DEF Settled
  <1>2. ASSUME HostAttach PROVE Settled'
    <2> DEFINE k == Head(requests).id
    <2>1. /\ k \in Ids /\ Asking(k)
          /\ \A i \in Ids : Asking(i)' <=> Asking(i) /\ i # k
      BY <1>2, AskingServed
    <2>2. /\ Len(frames) \in Nat /\ Len(frames') = Len(frames) + 1
          /\ \A i \in 1..Len(frames) : frames'[i] = frames[i]
          /\ frames'[Len(frames) + 1].id = k
          /\ \/ frames'[Len(frames) + 1].ok /\ stream' = Opened(k)
             \/ ~frames'[Len(frames) + 1].ok /\ stream' = stream
          /\ UNCHANGED client
      BY <1>2, OneAnswered
    <2> HIDE DEF k
    <2>3. \A i \in Ids : Denied(i)' => Denied(i) \/ (i = k /\ stream' = stream)
      BY <1>2, DeniedServed DEF k
    <2>4. stream'.id = stream.id \/ stream'.id = k
      BY <2>2 DEF Opened
    <2>5. ASSUME NEW i \in Ids PROVE Asking(i)' => ~Denied(i)' /\ stream'.id # i
      BY <2>1, <2>3, <2>4 DEF Settled
    <2>6. ASSUME NEW i \in Ids PROVE Denied(i)' => stream'.id # i
      BY <2>1, <2>3, <2>4 DEF Settled
    <2> QED BY <2>5, <2>6 DEF Settled
  <1>3. ASSUME ~HostAttach, \A t \in users : ~AttachRegister(t) PROVE Settled'
    <2>1. /\ \A k \in Ids : Asking(k)' <=> Asking(k)
          /\ \A k \in Ids : Denied(k)' => Denied(k)
      BY <1>3, AskingKept, DeniedKept
    <2>2. stream'.id = stream.id \/ stream'.id = NoId
      <3>1. CASE HostDetach
        BY <3>1 DEF HostDetach, Typed
      <3>2. CASE HostDetached
        BY <3>2 DEF HostDetached, NoStream
      <3>3. CASE HostStreams
        BY <3>3 DEF HostStreams, Typed
      <3>4. ASSUME \/ \E t \in users : \/ Sending(t) \/ AttachRefused(t) \/ AttachTimeout(t)
                                       \/ DetachRemove(t) \/ \E i \in Ids : DropRemove(t, i)
                   \/ \E i \in Ids : Take(i)
                   \/ Reader \/ SessionEnds \/ UNCHANGED vars
            PROVE  UNCHANGED stream
        BY <3>4 DEF Sending, AttachRefused, AttachTimeout, GiveUp, DetachRemove, DropRemove, Take,
              Reader, ReadReply, ReadFrame, Deliver, RemoveSlot, SessionEnds, vars, host
      <3> QED BY <1>3, <3>1, <3>2, <3>3, <3>4, SendingIs DEF Next, Sends, Host
    <2> QED BY <2>1, <2>2, Numbers DEF Settled
  <1> QED BY <1>1, <1>2, <1>3

(***************************************************************************)
(* What an attachment has been given.                                      *)
(***************************************************************************)
\* The events one took and those in its queue follow one another.
Chain(s, q, id) ==
    /\ s = Nothing \/ s.from = id
    /\ \A k \in 1..Len(q) : q[k].from = id
    /\ \A k \in 1..Len(q) - 1 : q[k + 1].event = q[k].event + 1
    /\ q # <<>> => q[1].event = s.event + 1
GotOf(s, q) == IF q = <<>> THEN s.event ELSE q[Len(q)].event
Got(j) == GotOf(seen[j], queue[j])
LastOf(j) == IF reader.to = j THEN reader.event ELSE Got(j)

\* An attachment has its own stream's events, the one in the reader's hands is
\* the next, and nobody who let go of it has the slot.
Fed ==
    \A j \in Ids :
        /\ Chain(seen[j], queue[j], j)
        /\ reader.to = j => reader.from = j /\ reader.event = Got(j) + 1
        /\ held[j] \in Gone \/ cancelled[j] => slot.id # j

\* A slot that nothing was answered to has nothing; one that has the last event
\* is about to be removed.
Slotted ==
    /\ slot.id # NoId /\ ~slot.live =>
          queue[slot.id] = <<>> /\ seen[slot.id] = Nothing /\ reader.to # slot.id
    /\ slot.live /\ LastOf(slot.id) = End => reader.event = End
    /\ slot.live => ~Asking(slot.id) /\ ~Denied(slot.id)

\* What is left after the consumer took one event still follows what it took.
LEMMA ChainTaken ==
    ASSUME NEW s \in Events, NEW q \in Seq(Events), NEW id, Chain(s, q, id), q # <<>>
    PROVE  Chain(Head(q), Tail(q), id) /\ GotOf(Head(q), Tail(q)) = GotOf(s, q)
  <1> DEFINE h == Head(q)
             r == Tail(q)
  <1>1. /\ h = q[1] /\ h \in Events /\ r \in Seq(Events)
        /\ Len(q) \in Nat \ {0} /\ Len(r) = Len(q) - 1
        /\ \A i \in 1..Len(r) : r[i] = q[i + 1]
    BY Shorter
  <1>2. r = <<>> <=> Len(r) = 0
    BY <1>1, EmptySeq
  <1> HIDE DEF h, r
  <1>3. h.from = id
    BY <1>1 DEF Chain
  <1>4. \A k \in 1..Len(r) : r[k].from = id
    <2>1. \A k \in 1..Len(r) : k + 1 \in 1..Len(q) /\ r[k] = q[k + 1]
      BY <1>1
    <2> QED BY <2>1 DEF Chain
  <1>5. \A k \in 1..Len(r) - 1 : r[k + 1].event = r[k].event + 1
    <2>1. \A k \in 1..Len(r) - 1 : /\ k + 1 \in 1..Len(q) - 1
                                   /\ r[k] = q[k + 1] /\ r[k + 1] = q[(k + 1) + 1]
      BY <1>1
    <2> QED BY <2>1 DEF Chain
  <1>6. r # <<>> => r[1].event = h.event + 1
    <2>1. r # <<>> => 1 \in 1..Len(q) - 1 /\ r[1] = q[1 + 1]
      BY <1>1, <1>2
    <2> QED BY <1>1, <2>1 DEF Chain
  <1>7. GotOf(h, r) = GotOf(s, q)
    <2>1. CASE r = <<>>
      <3>1. Len(q) \in Int /\ Len(r) = Len(q) - 1 /\ Len(r) = 0
        BY <1>1, <1>2, <2>1
      <3>2. Len(q) = 1
        BY <3>1
      <3> QED BY <1>1, <2>1, <3>2 DEF GotOf
    <2>2. CASE r # <<>>
      <3>1. Len(r) \in 1..Len(r) /\ r[Len(r)] = q[Len(q)]
        BY <1>1, <1>2, <2>2
      <3> QED BY <2>2, <3>1 DEF GotOf
    <2> QED BY <2>1, <2>2
  <1>8. Chain(h, r, id)
    BY <1>3, <1>4, <1>5, <1>6 DEF Chain
  <1> QED BY <1>7, <1>8 DEF h, r

\* One more event follows the last if it is the next.
LEMMA ChainFed ==
    ASSUME NEW s \in Events, NEW q \in Seq(Events), NEW id, NEW e \in Events,
           Chain(s, q, id), e.from = id, e.event = GotOf(s, q) + 1
    PROVE  Chain(s, Append(q, e), id) /\ GotOf(s, Append(q, e)) = e.event
  <1> DEFINE r == Append(q, e)
  <1>1. /\ r \in Seq(Events) /\ r # <<>>
        /\ Len(q) \in Nat /\ Len(r) = Len(q) + 1
        /\ \A i \in 1..Len(q) : r[i] = q[i]
        /\ r[Len(q) + 1] = e
    BY Longer, AppendProperties
  <1>2. q = <<>> <=> Len(q) = 0
    BY EmptySeq
  <1> HIDE DEF r
  <1>3. \A k \in 1..Len(r) : r[k].from = id
    <2>1. \A k \in 1..Len(r) : k \in 1..Len(q) \/ k = Len(q) + 1
      BY <1>1
    <2> QED BY <1>1, <2>1 DEF Chain
  <1>4. ASSUME NEW k \in 1..Len(r) - 1 PROVE r[k + 1].event = r[k].event + 1
    <2>1. CASE k = Len(q)
      <3>1. q # <<>> /\ k \in 1..Len(q) /\ r[k] = q[Len(q)] /\ r[k + 1] = e
        BY <1>1, <1>2, <1>4, <2>1
      <3> QED BY <3>1 DEF GotOf
    <2>2. CASE k # Len(q)
      <3>1. k \in 1..Len(q) - 1 /\ r[k] = q[k] /\ r[k + 1] = q[k + 1]
        BY <1>1, <1>4, <2>2
      <3> QED BY <3>1 DEF Chain
    <2> QED BY <2>1, <2>2
  <1>5. r[1].event = s.event + 1
    <2>1. CASE q = <<>>
      <3>1. r[1] = e
        BY <1>1, <1>2, <2>1
      <3> QED BY <2>1, <3>1 DEF GotOf
    <2>2. CASE q # <<>>
      <3>1. r[1] = q[1]
        BY <1>1, <1>2, <2>2
      <3> QED BY <2>2, <3>1 DEF Chain
    <2> QED BY <2>1, <2>2
  <1>6. GotOf(s, r) = e.event
    BY <1>1 DEF GotOf
  <1>7. Chain(s, r, id)
    BY <1>3, <1>4, <1>5 DEF Chain
  <1> QED BY <1>6, <1>7 DEF r

(***************************************************************************)
(* What is on its way.                                                     *)
(***************************************************************************)
\* The stream and the position that the next frame at a place belongs to
Spots == [id : Ids \cup {NoId}, event : 1..End + 1]
Opens(f) == f.kind = "reply" /\ f.op = "attach" /\ f.ok
Goes(a, f, b) ==
    IF Opens(f) THEN b = [id |-> f.id, event |-> 1]
    ELSE IF f.kind = "stream"
    THEN f.id = a.id /\ f.event = a.event /\ b = [id |-> a.id, event |-> a.event + 1]
    ELSE b = a

\* Nothing that is under way can disturb the slot: nobody else calls, or what
\* the other thread has under way is an attach, and so no detach.
Alone == \E t \in users : users = {t}
Loose == Alone \/ \E k \in Ids : k # slot.id /\ Asking(k)

\* The spots are those of streams that were opened and not refused since ...
Flows(nx) ==
    /\ \A k \in 1..Len(frames) : Goes(nx[k], frames[k], nx[k + 1])
    /\ \A k \in 1..Len(frames) + 1 : nx[k].id <= asked
    /\ \A k \in 1..Len(frames) + 1, i \in Ids : Asking(i) \/ Denied(i) => nx[k].id # i
\* ... the last is where the host's stream goes on, and the host has it undisturbed
\* if it is the slot's and nothing can disturb it ...
Writes(nx) ==
    /\ stream.state # "none" => nx[Len(frames) + 1] = [id |-> stream.id, event |-> stream.next]
    /\ slot.id # NoId /\ nx[Len(frames) + 1].id = slot.id /\ Loose =>
          serving = NotBusy /\ ~stream.stop /\ stream.state # "none"
\* ... the first is where the slot's attachment goes on, and no stream is opened
\* behind the slot's before that came to its end.
Reads(nx) ==
    /\ slot.live => nx[1] = [id |-> slot.id, event |-> LastOf(slot.id) + 1]
    /\ \A k \in 1..Len(frames) :
          Opens(frames[k]) /\ slot.id # NoId /\ nx[k].id = slot.id => nx[k].event = End + 1
Line == \E nx \in [1..Len(frames) + 1 -> Spots] : Flows(nx) /\ Writes(nx) /\ Reads(nx)

\* What the host will read after the attach of the slot (after p requests): one
\* thing at most, of another thread.
Behind(p) ==
    /\ Len(requests) - p <= 1
    /\ Len(requests) - p = 1 => \A t \in Threads : ~Unsent(t)
    /\ \A t, u \in Threads : Unsent(t) /\ Unsent(u) => t = u
    /\ Alone => Len(requests) = p /\ \A t \in Threads : ~Unsent(t)
Following ==
    slot.id # NoId =>
       /\ \A p \in 1..Len(requests) : Attaches(requests[p], slot.id) => Behind(p)
       /\ ~Asking(slot.id) => Behind(0)

\* The host's stream ends after its last event or when it is stopped.
Stopped == stream.state \in {"left", "done"} => stream.stop \/ stream.next = End + 1

\* The reader's hands
Handed ==
    /\ reader.to = NoId => reader = Free \/ reader = Removing
    /\ reader.to # NoId => reader.event # 0

Inv == /\ TwoThreads /\ Typed /\ Numbered /\ Once /\ Settled /\ Handed
       /\ Fed /\ Slotted /\ Line /\ Following /\ Stopped

\* The frame that a live slot's reader takes is its stream's next.
LEMMA HeadFits ==
    ASSUME Inv, ReadFrame, slot.live
    PROVE  Head(frames).id = slot.id /\ Head(frames).event = Got(slot.id) + 1
  <1>1. PICK nx \in [1..Len(frames) + 1 -> Spots] : Flows(nx) /\ Writes(nx) /\ Reads(nx)
    BY DEF Inv, Line
  <1>2. /\ 1 \in 1..Len(frames) /\ Head(frames) = frames[1] /\ Head(frames) \in Sent
    BY OneRead DEF Inv
  <1>3. Goes(nx[1], frames[1], nx[1 + 1])
    BY <1>1, <1>2 DEF Flows
  <1>4. frames[1].id = nx[1].id /\ frames[1].event = nx[1].event
    BY <1>2, <1>3 DEF Goes, Opens, Sent
  <1>5. nx[1] = [id |-> slot.id, event |-> LastOf(slot.id) + 1]
    BY <1>1 DEF Reads
  <1>6. LastOf(slot.id) = Got(slot.id)
    BY Numbers DEF Inv, Typed, ReadFrame, Free, LastOf
  <1> QED BY <1>2, <1>4, <1>5, <1>6

\* The reply that opens a stream finds a slot that does not listen, and no
\* answer to its attach is left.
LEMMA HeadOpens ==
    ASSUME Inv, ReadReply, Opens(Head(frames))
    PROVE  ~slot.live /\ ~Asking(Head(frames).id) /\ ~Denied(Head(frames).id)
  <1>1. PICK nx \in [1..Len(frames) + 1 -> Spots] : Flows(nx) /\ Writes(nx) /\ Reads(nx)
    BY DEF Inv, Line
  <1>2. /\ 1 \in 1..Len(frames) /\ Head(frames) = frames[1] /\ Head(frames).id \in Ids
        /\ 1 + 1 \in 1..Len(frames) + 1
    BY OneRead DEF Inv
  <1>3. nx[1 + 1] = [id |-> frames[1].id, event |-> 1]
    BY <1>1, <1>2 DEF Flows, Goes
  <1>4. ~Asking(Head(frames).id) /\ ~Denied(Head(frames).id)
    BY <1>1, <1>2, <1>3 DEF Flows
  <1>5. ASSUME slot.live PROVE FALSE
    <2>1. nx[1] = [id |-> slot.id, event |-> LastOf(slot.id) + 1] /\ slot.id # NoId
      BY <1>1, <1>5 DEF Reads, Inv, Typed
    <2>2. LastOf(slot.id) + 1 = End + 1
      BY <1>1, <1>2, <2>1 DEF Reads
    <2>3. LastOf(slot.id) \in Int
      <3>1. slot.id \in Ids /\ reader = Free
        BY <2>1 DEF Inv, Typed, ReadReply
      <3>2. seen[slot.id] \in Events /\ queue[slot.id] \in Seq(Events)
        BY <3>1 DEF Inv, Typed
      <3>3. \A e \in Events : e.event \in Int
        BY DEF Events
      <3>4. queue[slot.id] # <<>> => queue[slot.id][Len(queue[slot.id])] \in Events
        BY <3>2, EmptySeq
      <3> QED BY <3>1, <3>2, <3>3, <3>4, Numbers DEF LastOf, Got, GotOf, Free
    <2>4. LastOf(slot.id) = End /\ reader.event = End /\ reader = Free
      BY <1>5, <2>2, <2>3, Numbers DEF Inv, Slotted, ReadReply
    <2> QED BY <2>4, Numbers DEF Free
  <1> QED BY <1>4, <1>5

(***************************************************************************)
(* One step of an attachment.                                              *)
(***************************************************************************)
\* Most steps change nothing of the consumer's side but the slot, or let go of
\* one attachment whose slot goes.
LEMMA FedUntouched ==
    ASSUME Fed, UNCHANGED <<queue, seen, reader>>,
           \A j \in Ids : held'[j] \in Gone \/ cancelled'[j] => slot'.id # j
    PROVE  Fed'
  BY DEF Fed, Got

\* An attachment goes on having its own stream's events in order.
LEMMA FedStep ==
    ASSUME Inv, [Next]_vars
    PROVE  Fed'
  <1>t. Fed /\ Typed /\ Numbered /\ NoId \notin Ids
    BY Numbers DEF Inv
  <1>1. ASSUME NEW t \in users, AttachRegister(t) PROVE Fed'
    <2>1. /\ UNCHANGED <<queue, seen, reader, held, cancelled>> /\ slot'.id = asked + 1
          /\ asked \in Int
      BY <1>1, <1>t DEF AttachRegister, Typed
    <2>2. \A j \in Ids : j = asked + 1 => j > asked
      BY <2>1 DEF Ids
    <2>3. \A j \in Ids : held[j] \in Gone \/ cancelled[j] => slot'.id # j
      BY <2>1, <2>2, <1>t DEF Numbered, Gone
    <2> QED BY <2>1, <2>3, <1>t, FedUntouched
  <1>2. ASSUME NEW t \in users, AttachRefused(t) \/ AttachTimeout(t) PROVE Fed'
    <2>1. /\ UNCHANGED <<queue, seen, reader, cancelled>>
          /\ slot' = NoSlot \/ (slot' = slot /\ slot.id # call[t].id)
          /\ held' = [held EXCEPT ![call[t].id] = "refused"]
      BY <1>2 DEF AttachRefused, AttachTimeout, GiveUp
    <2>2. \A j \in Ids : j # call[t].id => held'[j] = held[j]
      BY <2>1, <1>t DEF Typed
    <2>3. \A j \in Ids : held'[j] \in Gone \/ cancelled'[j] => slot'.id # j
      BY <2>1, <2>2, <1>t DEF Fed, NoSlot
    <2> QED BY <2>1, <2>3, <1>t, FedUntouched
  <1>3. ASSUME NEW t \in users, NEW id \in Ids, DropRemove(t, id) PROVE Fed'
    <2>1. /\ UNCHANGED <<queue, seen, reader>>
          /\ \/ slot' = NoSlot
             \/ slot' = slot /\ slot.id # id /\ cancelled' = cancelled
          /\ held' = [held EXCEPT ![id] = "dropped"]
      BY <1>3 DEF DropRemove
    <2>2. \A j \in Ids : j # id => held'[j] = held[j]
      BY <2>1, <1>t DEF Typed
    <2>3. \A j \in Ids : held'[j] \in Gone \/ cancelled'[j] => slot'.id # j
      BY <2>1, <2>2, <1>t DEF Fed, NoSlot
    <2> QED BY <2>1, <2>3, <1>t, FedUntouched
  <1>4. ASSUME NEW t \in users, DetachRemove(t) PROVE Fed'
    <2>1. UNCHANGED <<queue, seen, reader>> /\ slot' = NoSlot
      BY <1>4 DEF DetachRemove
    <2>2. \A j \in Ids : held'[j] \in Gone \/ cancelled'[j] => slot'.id # j
      BY <2>1, <1>t DEF NoSlot
    <2> QED BY <2>1, <2>2, <1>t, FedUntouched
  <1>5. ASSUME NEW id \in Ids, Take(id) PROVE Fed'
    <2>1. /\ queue[id] \in Seq(Events) /\ queue[id] # <<>> /\ seen[id] \in Events
          /\ queue' = [queue EXCEPT ![id] = Tail(queue[id])]
          /\ seen' = [seen EXCEPT ![id] = Head(queue[id])]
          /\ UNCHANGED <<slot, cancelled, held, reader>>
      BY <1>5, <1>t DEF Take, Typed
    <2>2. /\ Chain(Head(queue[id]), Tail(queue[id]), id)
          /\ GotOf(Head(queue[id]), Tail(queue[id])) = Got(id)
      BY <2>1, <1>t, ChainTaken DEF Fed, Got
    <2>3. queue'[id] = Tail(queue[id]) /\ seen'[id] = Head(queue[id])
      BY <2>1, <1>t DEF Typed
    <2>4. \A j \in Ids : j # id => queue'[j] = queue[j] /\ seen'[j] = seen[j]
      BY <2>1, <1>t DEF Typed
    <2> QED BY <2>1, <2>2, <2>3, <2>4, <1>t DEF Fed, Got
  <1>6. ASSUME ReadReply PROVE Fed'
    <2>1. /\ UNCHANGED <<queue, seen, reader, cancelled>> /\ slot'.id = slot.id
          /\ held' = held \/ held' = [held EXCEPT ![Head(frames).id] = "open"]
      BY <1>6, <1>t, ReplyReturns DEF ReadReply, Typed
    <2>2. \A j \in Ids : held'[j] = held[j] \/ held'[j] = "open"
      BY <2>1, <1>t DEF Typed
    <2>3. \A j \in Ids : held'[j] \in Gone \/ cancelled'[j] => slot'.id # j
      BY <2>1, <2>2, <1>t DEF Fed, Gone
    <2> QED BY <2>1, <2>3, <1>t, FedUntouched
  <1>7. ASSUME ReadFrame PROVE Fed'
    <2>1. UNCHANGED <<slot, cancelled, queue, held, seen>>
      BY <1>7 DEF ReadFrame
    <2>2. CASE slot.live
      <3>1. /\ reader' = [to |-> slot.id, event |-> Head(frames).event, from |-> Head(frames).id]
        BY <1>7, <2>2 DEF ReadFrame, Listening
      <3>2. Head(frames).id = slot.id /\ Head(frames).event = Got(slot.id) + 1
        BY <1>7, <2>2, HeadFits
      <3> QED BY <2>1, <3>1, <3>2, <1>t DEF Fed, Got
    <2>3. CASE ~slot.live
      <3>1. reader'.to = NoId
        BY <1>7, <2>3 DEF ReadFrame, Listening, After, Removing, Free
      <3> QED BY <2>1, <3>1, <1>t DEF Fed, Got
    <2> QED BY <2>2, <2>3
  <1>8. ASSUME Deliver PROVE Fed'
    <2> DEFINE id == reader.to
               e == [event |-> reader.event, from |-> reader.from]
    <2>1. /\ id \in Ids /\ UNCHANGED <<slot, cancelled, held, seen>> /\ reader'.to = NoId
          /\ queue' = queue \/ queue' = [queue EXCEPT ![id] = Append(queue[id], e)]
      BY <1>8, <1>t DEF Deliver, After, Removing, Free, Typed
    <2>2. /\ queue[id] \in Seq(Events) /\ seen[id] \in Events
          /\ e \in Events /\ e.from = id /\ e.event = Got(id) + 1 /\ Chain(seen[id], queue[id], id)
      BY <2>1, <1>t DEF Typed, Fed, Events
    <2> HIDE DEF id, e
    <2>3. Chain(seen[id], Append(queue[id], e), id)
      BY <2>2, ChainFed DEF Got
    <2>4. CASE queue' = queue
      BY <2>1, <2>4, <1>t DEF Fed, Got
    <2>5. CASE queue' = [queue EXCEPT ![id] = Append(queue[id], e)]
      <3>1. queue'[id] = Append(queue[id], e) /\ \A j \in Ids : j # id => queue'[j] = queue[j]
        BY <2>1, <2>5, <1>t DEF Typed
      <3> QED BY <2>1, <2>3, <3>1, <1>t DEF Fed, Got
    <2> QED BY <2>1, <2>4, <2>5
  <1>9. ASSUME RemoveSlot PROVE Fed'
    <2>1. slot' = NoSlot /\ reader' = Free /\ UNCHANGED <<cancelled, queue, held, seen>>
      BY <1>9 DEF RemoveSlot
    <2> QED BY <2>1, <1>t DEF Fed, Got, NoSlot, Free
  <1>10. ASSUME UNCHANGED <<slot, cancelled, queue, held, seen, reader>> PROVE Fed'
    BY <1>10, <1>t DEF Fed, Got
  <1>11. ASSUME \/ \E t \in users : Sending(t)
                \/ Host \/ HostStreams \/ SessionEnds \/ UNCHANGED vars
         PROVE  UNCHANGED <<slot, cancelled, queue, held, seen, reader>>
    BY <1>11 DEF Sending, Host, HostAttach, HostDetach, HostDetached, HostStreams, SessionEnds,
          vars, client
  <1> QED BY <1>1, <1>2, <1>3, <1>4, <1>5, <1>6, <1>7, <1>8, <1>9, <1>10, <1>11, SendingIs
      DEF Next, Sends, Reader

\* What the reader has in hand
LEMMA HandedStep ==
    ASSUME Typed, Handed, [Next]_vars
    PROVE  Handed'
  <1>1. ASSUME ReadFrame PROVE Handed'
    <2>1. Head(frames) \in Sent
      BY <1>1, OneRead
    <2>2. Head(frames).event # 0
      BY <2>1, Numbers DEF Sent
    <2>3. CASE slot.live
      BY <1>1, <2>2, <2>3, Numbers DEF ReadFrame, Listening, Handed, Typed
    <2>4. CASE ~slot.live
      BY <1>1, <2>4 DEF ReadFrame, Listening, After, Removing, Free, Handed
    <2> QED BY <2>3, <2>4
  <1>2. ASSUME Deliver PROVE Handed'
    BY <1>2 DEF Deliver, After, Removing, Free, Handed
  <1>3. ASSUME RemoveSlot PROVE Handed'
    BY <1>3 DEF RemoveSlot, Free, Handed
  <1>4. ASSUME UNCHANGED reader PROVE Handed'
    BY <1>4 DEF Handed
  <1>5. ASSUME \/ \E t \in users : \/ AttachRegister(t) \/ Sending(t) \/ AttachRefused(t)
                                   \/ AttachTimeout(t) \/ DetachRemove(t)
                                   \/ \E i \in Ids : DropRemove(t, i)
               \/ \E i \in Ids : Take(i)
               \/ ReadReply \/ Host \/ HostStreams \/ SessionEnds \/ UNCHANGED vars
         PROVE  UNCHANGED reader
    BY <1>5 DEF AttachRegister, Sending, AttachRefused, AttachTimeout, GiveUp, DetachRemove,
          DropRemove, Take, ReadReply, Host, HostAttach, HostDetach, HostDetached, HostStreams,
          SessionEnds, vars, client
  <1> QED BY <1>1, <1>2, <1>3, <1>4, <1>5, SendingIs DEF Next, Sends, Reader

\* How the host's stream came to its end
LEMMA StoppedStep ==
    ASSUME Typed, Stopped, [Next]_vars
    PROVE  Stopped'
  <1>1. ASSUME HostAttach PROVE Stopped'
    <2>1. stream' = stream \/ \E i : stream' = Opened(i)
      BY <1>1, OneAnswered
    <2> QED BY <2>1 DEF Stopped, Opened
  <1>2. ASSUME HostDetach PROVE Stopped'
    BY <1>2 DEF HostDetach, Stopped, Typed
  <1>3. ASSUME HostDetached PROVE Stopped'
    BY <1>3 DEF HostDetached, Stopped, NoStream
  <1>4. ASSUME HostStreams PROVE Stopped'
    <2>1. CASE stream.state = "send"
      BY <1>4, <2>1, OneStreamed DEF Stopped
    <2>2. CASE stream.state # "send"
      BY <1>4, <2>2 DEF HostStreams, Stopped, Typed
    <2> QED BY <2>1, <2>2
  <1>5. ASSUME UNCHANGED stream PROVE Stopped'
    BY <1>5 DEF Stopped
  <1>6. ASSUME \/ \E t \in users : \/ AttachRegister(t) \/ Sending(t) \/ AttachRefused(t)
                                   \/ AttachTimeout(t) \/ DetachRemove(t)
                                   \/ \E i \in Ids : DropRemove(t, i)
               \/ \E i \in Ids : Take(i)
               \/ Reader \/ SessionEnds \/ UNCHANGED vars
         PROVE  UNCHANGED stream
    BY <1>6 DEF AttachRegister, Sending, AttachRefused, AttachTimeout, GiveUp, DetachRemove,
          DropRemove, Take, Reader, ReadReply, ReadFrame, Deliver, RemoveSlot, SessionEnds, vars, host
  <1> QED BY <1>1, <1>2, <1>3, <1>4, <1>5, <1>6, SendingIs DEF Next, Sends, Host

\* Queues and socket stay within their room.
LEMMA RoomyStep ==
    ASSUME Typed, Roomy, [Next]_vars
    PROVE  Roomy'
  <1>n. QueueRoom \in Int /\ SocketRoom \in Int /\ Len(frames) \in Nat
    BY Numbers, LenProperties DEF Typed
  <1>1. ASSUME NEW id \in Ids, Take(id) PROVE Roomy'
    <2>1. /\ queue[id] \in Seq(Events) /\ queue[id] # <<>>
          /\ queue' = [queue EXCEPT ![id] = Tail(queue[id])] /\ frames' = frames
      BY <1>1 DEF Take, Typed
    <2>2. Len(queue[id]) \in Nat /\ Len(Tail(queue[id])) = Len(queue[id]) - 1
      BY <2>1, Shorter
    <2>3. /\ queue'[id] = Tail(queue[id])
          /\ \A j \in Ids : j # id => queue'[j] = queue[j]
      BY <2>1 DEF Typed
    <2>4. Len(queue'[id]) <= QueueRoom
      BY <2>2, <2>3, <1>n DEF Roomy
    <2> QED BY <2>1, <2>3, <2>4 DEF Roomy
  <1>2. ASSUME Deliver PROVE Roomy'
    <2> DEFINE id == reader.to
               e == [event |-> reader.event, from |-> reader.from]
    <2>1. /\ id \in Ids /\ frames' = frames
          /\ \/ queue' = queue
             \/ Accepts(id) /\ queue' = [queue EXCEPT ![id] = Append(queue[id], e)]
      BY <1>2 DEF Deliver, Typed
    <2>2. e \in Events /\ queue[id] \in Seq(Events)
      BY <2>1 DEF Typed, Events
    <2> HIDE DEF id, e
    <2>3. Len(queue[id]) \in Nat /\ Len(Append(queue[id], e)) = Len(queue[id]) + 1
      BY <2>2, Longer
    <2>4. CASE Accepts(id) /\ queue' = [queue EXCEPT ![id] = Append(queue[id], e)]
      <3>1. queue'[id] = Append(queue[id], e) /\ \A j \in Ids : j # id => queue'[j] = queue[j]
        BY <2>1, <2>4 DEF Typed
      <3>2. Len(queue'[id]) <= QueueRoom
        BY <2>3, <2>4, <3>1, <1>n DEF Accepts, Full
      <3> QED BY <2>1, <3>1, <3>2 DEF Roomy
    <2> QED BY <2>1, <2>4 DEF Roomy
  <1>3. ASSUME ReadReply \/ ReadFrame PROVE Roomy'
    <2>1. Len(frames') = Len(frames) - 1 /\ queue' = queue
      BY <1>3, OneRead DEF ReadReply, ReadFrame
    <2> QED BY <2>1, <1>n DEF Roomy
  <1>4. ASSUME Len(frames') = Len(frames) + 1, CanSend, UNCHANGED queue PROVE Roomy'
    BY <1>4, <1>n DEF Roomy, CanSend
  <1>5. ASSUME HostAttach PROVE Roomy'
    BY <1>4, <1>5, OneAnswered DEF HostAttach, client
  <1>6. ASSUME HostDetached PROVE Roomy'
    BY <1>4, <1>6, OneDetached DEF HostDetached, client
  <1>7. ASSUME HostStreams PROVE Roomy'
    <2>1. CASE stream.state = "send"
      BY <1>4, <1>7, <2>1, OneStreamed DEF HostStreams, client
    <2>2. CASE stream.state # "send"
      BY <1>7, <2>2 DEF HostStreams, client, Roomy
    <2> QED BY <2>1, <2>2
  <1>8. ASSUME UNCHANGED <<queue, frames>> PROVE Roomy'
    BY <1>8 DEF Roomy
  <1>9. ASSUME \/ \E t \in users : \/ AttachRegister(t) \/ Sending(t) \/ AttachRefused(t)
                                   \/ AttachTimeout(t) \/ DetachRemove(t)
                                   \/ \E i \in Ids : DropRemove(t, i)
               \/ RemoveSlot \/ HostDetach \/ SessionEnds \/ UNCHANGED vars
        PROVE  UNCHANGED <<queue, frames>>
    BY <1>9 DEF AttachRegister, Sending, AttachRefused, AttachTimeout, GiveUp, DetachRemove,
          DropRemove, RemoveSlot, HostDetach, SessionEnds, vars, client
  <1> QED BY <1>1, <1>2, <1>3, <1>5, <1>6, <1>7, <1>8, <1>9, SendingIs
      DEF Next, Sends, Reader, Host

\* A slot goes live once, with nothing before it, and is not asked for again.
LEMMA SlottedStep ==
    ASSUME Inv, [Next]_vars
    PROVE  Slotted'
  <1> DEFINE Empty(j) == queue[j] = <<>> /\ seen[j] = Nothing /\ reader.to # j
             Fresh == slot.id # NoId /\ ~slot.live => Empty(slot.id)
             Over == slot.live /\ LastOf(slot.id) = End => reader.event = End
             Alive == slot.live => ~Asking(slot.id) /\ ~Denied(slot.id)
  <1>i. Typed /\ Fresh /\ Over /\ Alive
    BY DEF Inv, Slotted
  <1>t. slot \in [id: Ids \cup {NoId}, live: BOOLEAN] /\ (slot.live => slot.id # NoId)
    BY DEF Inv, Typed
  <1>h. ASSUME Fresh', Over', Alive' PROVE Slotted'
    BY <1>h DEF Slotted
  <1>u. ASSUME UNCHANGED <<queue, seen, reader>>, slot' = slot \/ slot' = NoSlot
        PROVE  Fresh' /\ Over'
    <2>1. \A j : LastOf(j)' = LastOf(j)
      BY <1>u DEF LastOf, Got
    <2> QED BY <1>u, <1>i, <2>1 DEF NoSlot
  <1>v. ASSUME ~HostAttach, \A t \in users : ~AttachRegister(t),
               slot' = slot \/ ~slot'.live
        PROVE  Alive'
    <2>1. /\ \A k \in Ids : Asking(k)' <=> Asking(k)
          /\ \A k \in Ids : Denied(k)' => Denied(k)
      BY <1>v, <1>i, AskingKept, DeniedKept
    <2>2. CASE ~slot'.live
      BY <2>2
    <2>3. CASE slot' = slot
      <3>1. slot.live => slot.id \in Ids
        BY <1>t
      <3> QED BY <1>i, <2>1, <2>3, <3>1
    <2> QED BY <1>v, <2>2, <2>3
  <1>1. ASSUME NEW t \in users, AttachRegister(t) PROVE Slotted'
    <2>1. /\ asked' = asked + 1 /\ asked' \in Ids
          /\ slot' = [id |-> asked', live |-> FALSE]
          /\ UNCHANGED <<queue, seen, reader>>
      BY <1>1, AskingRegistered DEF AttachRegister, Inv
    <2>2. asked \in Nat /\ reader.to <= asked /\ reader.to \in Int
      BY DEF Inv, Typed, Numbered, Ids, NoId
    <2>3. queue[asked'] = <<>> /\ seen[asked'] = Nothing
      BY <2>1, <2>2 DEF Inv, Numbered
    <2>4. reader.to # asked'
      BY <2>1, <2>2
    <2>5. Fresh' /\ Over' /\ Alive'
      BY <2>1, <2>3, <2>4
    <2> QED BY <1>h, <2>5
  <1>2. ASSUME NEW t \in users, \/ Sending(t) \/ AttachRefused(t) \/ AttachTimeout(t) \/ DetachRemove(t)
                                \/ \E i \in Ids : DropRemove(t, i)
        PROVE  /\ UNCHANGED <<queue, seen, reader>>
               /\ slot' = slot \/ slot' = NoSlot
    BY <1>2 DEF Sending, AttachRefused, AttachTimeout, GiveUp, DetachRemove, DropRemove
  <1>3. ASSUME SessionEnds \/ HostDetach \/ HostDetached \/ HostStreams \/ UNCHANGED vars
        PROVE  UNCHANGED <<queue, seen, reader, slot, asked>>
    BY <1>3 DEF SessionEnds, HostDetach, HostDetached, HostStreams, vars, client
  <1>a. asked' = asked => ~\E t \in users : AttachRegister(t)
    <2>1. asked \in Int
      BY DEF Inv, Typed
    <2> QED BY <2>1 DEF AttachRegister
  <1>4. ASSUME asked' = asked, ~HostAttach, UNCHANGED <<queue, seen, reader>>,
               slot' = slot \/ slot' = NoSlot
        PROVE  Slotted'
    <2>1. Fresh' /\ Over'
      BY <1>4, <1>u
    <2>2. Alive'
      BY <1>4, <1>v, <1>a DEF NoSlot
    <2> QED BY <1>h, <2>1, <2>2
  <1>5. ASSUME HostAttach PROVE Slotted'
    <2>1. /\ UNCHANGED <<slot, queue, seen, reader>>
          /\ Asking(Head(requests).id)
          /\ \A k \in Ids : Asking(k)' => Asking(k)
      BY <1>5, AskingServed DEF HostAttach, client, Inv
    <2>2. \A k \in Ids : Denied(k)' => Denied(k) \/ k = Head(requests).id
      BY <1>5, <1>i, DeniedServed
    <2>3. Alive'
      <3>1. slot.live => slot.id \in Ids
        BY <1>t
      <3> QED BY <1>i, <2>1, <2>2, <3>1
    <2>4. Fresh' /\ Over'
      BY <1>u, <2>1
    <2> QED BY <1>h, <2>3, <2>4
  <1>6. ASSUME NEW id \in Ids, Take(id) PROVE Slotted'
    <2>1. /\ queue[id] \in Seq(Events) /\ queue[id] # <<>> /\ seen[id] \in Events
          /\ queue' = [queue EXCEPT ![id] = Tail(queue[id])]
          /\ seen' = [seen EXCEPT ![id] = Head(queue[id])]
          /\ UNCHANGED <<slot, reader, asked, frames>>
      BY <1>6, <1>i DEF Take, Typed
    <2>2. GotOf(Head(queue[id]), Tail(queue[id])) = Got(id)
      BY <2>1, ChainTaken DEF Inv, Fed, Got
    <2>3. /\ queue'[id] = Tail(queue[id]) /\ seen'[id] = Head(queue[id])
          /\ \A j \in Ids : j # id => queue'[j] = queue[j] /\ seen'[j] = seen[j]
      BY <2>1, <1>i DEF Typed
    <2>4. \A j \in Ids : LastOf(j)' = LastOf(j)
      BY <2>1, <2>2, <2>3 DEF LastOf, Got
    <2>5. ~HostAttach /\ \A t \in users : ~AttachRegister(t)
      BY <1>6, <1>a, <1>i, <2>1, NotServed DEF Take
    <2>6. Alive'
      BY <2>1, <2>5, <1>v
    <2>7. Over'
      BY <2>1, <2>4, <1>i, <1>t
    <2>8. Fresh'
      BY <2>1, <2>3, <1>i, <1>t
    <2> QED BY <1>h, <2>6, <2>7, <2>8
  <1>7. ASSUME ReadReply PROVE Slotted'
    <2>1. /\ UNCHANGED <<queue, seen, reader, asked, requests>> /\ reader = Free
          /\ \/ slot' = slot
             \/ /\ Opens(Head(frames)) /\ slot.id = Head(frames).id
                /\ slot' = [slot EXCEPT !.live = TRUE]
      BY <1>7 DEF ReadReply, Opens
    <2>2. ~HostAttach
      BY <2>1, NotServed, <1>i
    <2>3. CASE slot' = slot
      BY <2>1, <2>2, <2>3, <1>4
    <2>4. CASE /\ Opens(Head(frames)) /\ slot.id = Head(frames).id
               /\ slot' = [slot EXCEPT !.live = TRUE]
      <3>1. slot.id \in Ids /\ slot'.id = slot.id /\ slot'.live
        BY <1>7, <1>i, <1>t, <2>4, OneRead
      <3>2. ~slot.live /\ ~Asking(slot.id) /\ ~Denied(slot.id)
        BY <1>7, <2>4, HeadOpens
      <3>3. /\ \A k \in Ids : Asking(k)' <=> Asking(k)
            /\ \A k \in Ids : Denied(k)' => Denied(k)
        BY <2>1, <2>2, <1>a, <1>i, AskingKept, DeniedKept
      <3>4. Alive'
        BY <3>1, <3>2, <3>3
      <3>5. Fresh'
        BY <3>1
      <3>6. LastOf(slot.id) = 0 /\ LastOf(slot.id)' = LastOf(slot.id)
        <4>1. LastOf(slot.id) = 0
          BY <3>1, <3>2, <1>i, Numbers DEF LastOf, Got, GotOf, Nothing
        <4>2. \A j : LastOf(j)' = LastOf(j)
          BY <2>1 DEF LastOf, Got
        <4> QED BY <3>1, <4>1, <4>2
      <3>7. Over'
        BY <3>1, <3>6, Numbers
      <3> QED BY <1>h, <3>4, <3>5, <3>7
    <2> QED BY <2>1, <2>3, <2>4
  <1>8. ASSUME ReadFrame PROVE Slotted'
    <2>1. /\ UNCHANGED <<slot, queue, seen, asked, requests>> /\ reader = Free
      BY <1>8 DEF ReadFrame
    <2>2. ~HostAttach
      BY <2>1, NotServed, <1>i
    <2>3. Alive'
      BY <2>1, <2>2, <1>a, <1>v
    <2>4. CASE slot.live
      <3>1. reader' = [to |-> slot.id, event |-> Head(frames).event, from |-> Head(frames).id]
        BY <1>8, <2>4 DEF ReadFrame, Listening
      <3>2. LastOf(slot.id)' = reader'.event
        BY <2>1, <3>1 DEF LastOf
      <3> QED BY <1>h, <2>1, <2>3, <2>4, <3>2
    <2>5. CASE ~slot.live
      <3>1. reader'.to = NoId
        BY <1>8, <2>5 DEF ReadFrame, Listening, After, Removing, Free
      <3>2. Fresh' /\ Over'
        BY <2>1, <2>5, <3>1, <1>i, <1>t
      <3> QED BY <1>h, <2>3, <3>2
    <2> QED BY <2>4, <2>5
  <1>9. ASSUME Deliver PROVE Slotted'
    <2>i. PICK id \in Ids : id = reader.to
      BY <1>9, <1>i DEF Deliver, Typed
    <2>j. PICK e : e = [event |-> reader.event, from |-> reader.from]
      OBVIOUS
    <2>1. /\ id \in Ids /\ UNCHANGED <<slot, cancelled, held, seen, requests, asked>>
          /\ reader'.to = NoId /\ (reader.event = End => reader'.event = End)
          /\ \/ queue' = queue /\ LetsGo(id)
             \/ queue' = [queue EXCEPT ![id] = Append(queue[id], e)]
      BY <1>9, <1>i, <2>i, <2>j DEF Deliver, After, Removing, Free, Typed
    <2>2. /\ queue[id] \in Seq(Events) /\ seen[id] \in Events
          /\ e \in Events /\ e.from = id /\ e.event = Got(id) + 1 /\ Chain(seen[id], queue[id], id)
          /\ LastOf(id) = e.event
      BY <2>1, <2>i, <2>j, <1>i DEF Typed, Inv, Fed, Events, LastOf
    <2>3. ~HostAttach
      BY <2>1, NotServed, <1>i
    <2>4. Alive'
      BY <2>1, <2>3, <1>a, <1>v
    <2>e. reader.event = e.event
      BY <2>j
    <2>5. GotOf(seen[id], Append(queue[id], e)) = e.event
      BY <2>2, ChainFed DEF Got
    <2>6. \A j \in Ids : j # id => queue'[j] = queue[j]
      BY <2>1, <1>i DEF Typed
    <2>7. Fresh'
      <3>1. slot.id # NoId /\ ~slot.live => slot.id # id
        BY <1>i, <2>i
      <3> QED BY <2>1, <2>6, <3>1, <1>i, <1>t, Numbers
    <2>8. Over'
      <3>1. \A j \in Ids : j # id => LastOf(j)' = LastOf(j)
        BY <2>1, <2>i, <2>6, Numbers DEF LastOf, Got
      <3>2. CASE slot.id # id
        BY <2>1, <3>1, <3>2, <1>i, <1>t
      <3>3. CASE slot.id = id /\ queue' = [queue EXCEPT ![id] = Append(queue[id], e)]
        <4>1. queue'[id] = Append(queue[id], e)
          BY <2>1, <3>3, <1>i DEF Typed
        <4>2. LastOf(id)' = e.event
          BY <2>1, <2>5, <4>1, Numbers DEF LastOf, Got
        <4> QED BY <2>1, <2>e, <3>3, <4>2
      <3>4. CASE slot.id = id /\ LetsGo(id)
        <4>1. held[id] \in Gone \/ cancelled[id]
          BY <3>4 DEF LetsGo
        <4> QED BY <2>1, <3>4, <4>1 DEF Inv, Fed
      <3> QED BY <2>1, <3>2, <3>3, <3>4
    <2> QED BY <1>h, <2>4, <2>7, <2>8
  <1>10. ASSUME RemoveSlot PROVE Slotted'
    <2>1. slot' = NoSlot
      BY <1>10 DEF RemoveSlot
    <2> QED BY <1>h, <2>1 DEF NoSlot
  <1>11. ASSUME NEW t \in users, \/ Sending(t) \/ AttachRefused(t) \/ AttachTimeout(t) \/ DetachRemove(t)
                                 \/ \E i \in Ids : DropRemove(t, i)
         PROVE  Slotted'
    <2>1. asked' = asked /\ (requests' = requests \/ Sending(t))
      BY <1>11 DEF Sending, AttachRefused, AttachTimeout, GiveUp, DetachRemove, DropRemove
    <2>2. ~HostAttach
      BY <2>1, <1>i, NotServed
    <2> QED BY <1>2, <1>4, <1>11, <2>1, <2>2
  <1>12. ASSUME SessionEnds \/ HostDetach \/ HostDetached \/ HostStreams \/ UNCHANGED vars
         PROVE  Slotted'
    <2>1. ~HostAttach
      BY <1>12, NotServed, <1>i DEF SessionEnds, HostDetached, HostStreams, vars
    <2> QED BY <1>3, <1>4, <1>12, <2>1
  <1> QED BY <1>1, <1>5, <1>6, <1>7, <1>8, <1>9, <1>10, <1>11, <1>12, SendingIs
      DEF Next, Sends, Reader, Host

(***************************************************************************)
(* One step of what is under way.                                          *)
(***************************************************************************)
\* A step that sends nothing and gives no thread anything to send
LEMMA FollowingUntouched ==
    ASSUME Following, UNCHANGED <<requests, users>>,
           slot'.id = slot.id \/ slot'.id = NoId, slot.id \in Ids \cup {NoId},
           \A u \in Threads : Unsent(u)' => Unsent(u),
           \A k \in Ids : Asking(k) => Asking(k)'
    PROVE  Following'
  <1>1. Alone' <=> Alone
    BY DEF Alone
  <1>2. \A p : Behind(p) => Behind(p)'
    BY <1>1 DEF Behind
  <1>3. CASE slot'.id = NoId
    BY <1>3 DEF Following
  <1>4. CASE slot'.id = slot.id /\ slot.id # NoId
    <2>1. slot.id \in Ids
      BY <1>4
    <2>2. /\ \A p \in 1..Len(requests) : Attaches(requests[p], slot.id) => Behind(p)
          /\ ~Asking(slot.id) => Behind(0)
      BY <1>4 DEF Following
    <2> QED BY <1>2, <1>4, <2>1, <2>2 DEF Following
  <1> QED BY <1>3, <1>4

\* What follows the slot's attach stays at most one thing of another thread.
LEMMA FollowingStep ==
    ASSUME Inv, [Next]_vars
    PROVE  Following'
  <1>i. Typed /\ Following /\ users \subseteq Threads
    BY DEF Inv, Typed
  <1>s. slot.id \in Ids \cup {NoId} /\ NoId \notin Ids
    BY Numbers DEF Inv, Typed
  <1>r. Len(requests) \in Nat
    BY LenProperties DEF Inv, Typed
  <1>a. asked' = asked => ~\E t \in users : AttachRegister(t)
    <2>1. asked \in Int
      BY DEF Inv, Typed
    <2> QED BY <2>1 DEF AttachRegister
  <1>1. ASSUME NEW t \in users, AttachRegister(t) PROVE Following'
    <2>1. /\ asked' \in Ids /\ ~Asking(asked') /\ slot'.id = asked' /\ requests' = requests
          /\ \A k \in Ids : Asking(k)' <=> Asking(k) \/ k = asked'
      BY <1>1, AskingRegistered DEF AttachRegister, Inv
    <2>2. \A p \in 1..Len(requests) : ~Attaches(requests[p], asked')
      BY <2>1 DEF Asking
    <2>3. Asking(slot.id)'
      BY <2>1
    <2> QED BY <2>1, <2>2, <2>3 DEF Following
  <1>2. ASSUME NEW t \in users, Sending(t) PROVE Following'
    <2>1. /\ t \in Threads /\ call[t].id \in Ids
          /\ Len(requests') = Len(requests) + 1
          /\ \A p \in 1..Len(requests) : requests'[p] = requests[p]
          /\ requests'[Len(requests) + 1] = Requested(t)
          /\ \A u \in Threads : u # t => call'[u] = call[u]
          /\ call'[t].op \in {"idle", "attaching", "detaching"}
          /\ Unsent(t) /\ slot' = slot /\ users' = users
      BY <1>2, <1>i, OneSent DEF Sending, setting
    <2>2. /\ \A u \in Threads : u # t => (Unsent(u)' <=> Unsent(u))
          /\ ~Unsent(t)'
          /\ Alone' <=> Alone
      BY <2>1 DEF Unsent, Alone
    <2>3. ASSUME NEW p \in 0..Len(requests), Behind(p) PROVE Behind(p)'
      <3>1. Len(requests) - p <= 1 /\ Len(requests) - p # 1 /\ ~Alone
        BY <2>1, <2>3 DEF Behind
      <3>2. Len(requests) = p /\ Len(requests') - p = 1
        BY <2>1, <3>1, <1>r
      <3>3. \A u \in Threads : ~Unsent(u)'
        BY <2>1, <2>2, <2>3 DEF Behind
      <3> QED BY <2>2, <3>1, <3>2, <3>3 DEF Behind
    <2>4. ~HostAttach /\ asked' = asked
      BY <1>2, <1>i, NotServed DEF Sending
    <2>5. \A k \in Ids : Asking(k)' <=> Asking(k)
      BY <2>4, <1>a, <1>i, AskingKept
    <2>6. ASSUME NEW p \in 1..Len(requests'), slot.id \in Ids, Attaches(requests'[p], slot.id)
          PROVE  Behind(p)'
      <3>1. p \in 1..Len(requests) \/ p = Len(requests) + 1
        BY <2>1, <1>r
      <3>2. CASE p \in 1..Len(requests)
        <4>1. Behind(p)
          BY <2>1, <2>6, <3>2, <1>i, <1>s DEF Following
        <4> QED BY <2>3, <3>2, <4>1, <1>r
      <3>3. CASE p = Len(requests) + 1
        <4>1. Len(requests') - p = 0 /\ Len(requests') = p
          BY <2>1, <3>3, <1>r
        <4>2. \A u, v \in Threads : Unsent(u)' /\ Unsent(v)' => u = v
          BY <2>1, <2>2 DEF Inv, TwoThreads
        <4>3. Alone => \A u \in Threads : ~Unsent(u)'
          <5>1. ASSUME Alone, NEW u \in Threads, Unsent(u)' PROVE FALSE
            <6>1. u # t /\ Unsent(u)
              BY <2>2, <5>1
            <6>2. u \in users
              BY <6>1 DEF Unsent, Inv, Typed
            <6> QED BY <5>1, <6>1, <6>2 DEF Alone
          <5> QED BY <5>1
        <4> QED BY <2>2, <4>1, <4>2, <4>3 DEF Behind
      <3> QED BY <3>1, <3>2, <3>3
    <2>7. ASSUME slot.id \in Ids, ~Asking(slot.id)' PROVE Behind(0)'
      <3>1. Behind(0)
        BY <2>1, <2>5, <2>7, <1>i, <1>s DEF Following
      <3> QED BY <2>3, <3>1, <1>r
    <2>8. slot.id \in Ids => ((~Asking(slot.id))' => Behind(0)')
      BY <2>1, <2>7
    <2>9. slot'.id # NoId => slot.id \in Ids
      BY <2>1, <1>s
    <2> QED BY <2>1, <2>6, <2>8, <2>9 DEF Following
  <1>3. ASSUME HostAttach \/ HostDetach PROVE Following'
    <2>1. /\ Len(requests) \in Nat \ {0} /\ Len(requests') = Len(requests) - 1
          /\ \A p \in 1..Len(requests') : requests'[p] = requests[p + 1]
          /\ Head(requests) = requests[1]
          /\ UNCHANGED <<users, call, slot, asked>>
      BY <1>3, <1>i, OneServed DEF HostAttach, HostDetach, client, setting
    <2>2. /\ \A u \in Threads : Unsent(u)' <=> Unsent(u)
          /\ Alone' <=> Alone
      BY <2>1 DEF Unsent, Alone
    <2>3. ASSUME NEW p \in 0..Len(requests'), Behind(p + 1) PROVE Behind(p)'
      <3>1. /\ Len(requests') - p = Len(requests) - (p + 1)
            /\ Len(requests') = p <=> Len(requests) = p + 1
        BY <2>1
      <3> QED BY <2>2, <2>3, <3>1 DEF Behind
    <2>4. ASSUME NEW p \in 1..Len(requests'), slot.id # NoId, Attaches(requests'[p], slot.id)
          PROVE  Behind(p)'
      <3>1. p + 1 \in 1..Len(requests) /\ p \in 0..Len(requests')
        BY <2>1
      <3>2. Behind(p + 1)
        BY <2>1, <2>4, <3>1, <1>i DEF Following
      <3> QED BY <2>3, <3>1, <3>2
    <2>5. ASSUME slot.id # NoId, Behind(0) PROVE Behind(0)'
      <3>1. Len(requests) = 1 /\ ~Alone
        BY <2>1, <2>5 DEF Behind
      <3>2. Len(requests') - 0 = 0
        BY <2>1, <3>1
      <3> QED BY <2>2, <2>5, <3>1, <3>2 DEF Behind
    <2>6. ASSUME slot.id # NoId, ~Asking(slot.id)' PROVE Behind(0)'
      <3>0. slot.id \in Ids
        BY <2>6, <1>s
      <3>1. CASE ~Asking(slot.id)
        BY <2>5, <2>6, <3>1, <1>i DEF Following
      <3>2. CASE Asking(slot.id)
        <4>1. HostAttach
          <5>1. CASE HostDetach /\ ~HostAttach
            <6>1. Asking(slot.id)'
              <7>1. \A k \in Ids : Asking(k)' <=> Asking(k)
                BY <5>1, <1>a, <1>i, <2>1, AskingKept
              <7> QED BY <7>1, <3>0, <3>2, <2>1
            <6> QED BY <6>1, <2>6, <2>1
          <5> QED BY <5>1, <1>3
        <4>2. slot.id = Head(requests).id
          <5>1. \A k \in Ids : Asking(k)' <=> Asking(k) /\ k # Head(requests).id
            BY <4>1, AskingServed DEF Inv
          <5> QED BY <5>1, <3>0, <3>2, <2>6, <2>1
        <4>3. Attaches(requests[1], slot.id) /\ 1 \in 1..Len(requests)
          BY <2>1, <4>1, <4>2 DEF HostAttach, Attaches
        <4>4. Behind(0 + 1) /\ 0 \in 0..Len(requests')
          BY <2>1, <2>6, <4>3, <1>i DEF Following
        <4> QED BY <2>3, <4>4
      <3> QED BY <3>1, <3>2
    <2>7. slot.id # NoId => ((~Asking(slot.id))' => Behind(0)')
      BY <2>1, <2>6
    <2> QED BY <2>1, <2>4, <2>7 DEF Following
  <1>4. ASSUME requests' = requests, asked' = asked, users' = users,
               slot'.id = slot.id \/ slot'.id = NoId,
               \A u \in Threads : Unsent(u)' => Unsent(u)
        PROVE  Following'
    <2>1. \A k \in Ids : Asking(k)' <=> Asking(k)
      BY <1>4, <1>a, <1>i, NotServed, AskingKept
    <2> QED BY <1>4, <1>i, <1>s, <2>1, FollowingUntouched
  <1>5. ASSUME slot' = NoSlot PROVE Following'
    BY <1>5 DEF Following, NoSlot
  <1>6. ASSUME NEW t \in users, AttachRefused(t) \/ AttachTimeout(t) PROVE Following'
    <2>1. /\ UNCHANGED <<requests, asked, users>> /\ (slot' = slot \/ slot' = NoSlot)
          /\ call' = [call EXCEPT ![t] = [op |-> "idle", id |-> NoId]]
      BY <1>6 DEF AttachRefused, AttachTimeout, GiveUp, Call, setting
    <2>2. \A u \in Threads : call'[u] = call[u] \/ call'[u].op = "idle"
      BY <2>1, <1>i, OneCall
    <2>3. \A u \in Threads : Unsent(u)' => Unsent(u)
      BY <2>2 DEF Unsent
    <2> QED BY <2>1, <2>3, <1>4, <1>5
  <1>7. ASSUME NEW t \in users, NEW id \in Ids, DropRemove(t, id) PROVE Following'
    <2>1. \/ slot' = NoSlot
          \/ UNCHANGED <<requests, asked, users, slot, call>>
      BY <1>7 DEF DropRemove, setting
    <2>2. CASE UNCHANGED <<requests, asked, users, slot, call>>
      BY <2>2, <1>4 DEF Unsent
    <2> QED BY <2>1, <2>2, <1>5
  <1>8. ASSUME NEW t \in users, DetachRemove(t) PROVE Following'
    BY <1>8, <1>5 DEF DetachRemove
  <1>9. ASSUME ReadReply PROVE Following'
    <2>1. UNCHANGED <<requests, asked, users>> /\ slot'.id = slot.id
      BY <1>9, <1>i DEF ReadReply, setting, Typed
    <2>2. \A u \in Threads : call'[u] = call[u] \/ call'[u].op \in {"idle", "refused"}
      BY <1>9, <1>i, ReplyReturns DEF NoCall
    <2>3. \A u \in Threads : Unsent(u)' => Unsent(u)
      BY <2>2 DEF Unsent
    <2> QED BY <2>1, <2>3, <1>4
  <1>10. ASSUME \/ \E i \in Ids : Take(i)
                \/ ReadFrame \/ Deliver \/ HostDetached \/ HostStreams \/ SessionEnds \/ UNCHANGED vars
         PROVE  Following'
    <2>1. UNCHANGED <<requests, asked, users, slot, call>>
      BY <1>10 DEF Take, ReadFrame, Deliver, HostDetached, HostStreams, SessionEnds, vars, client, setting
    <2> QED BY <2>1, <1>4 DEF Unsent
  <1>11. ASSUME RemoveSlot PROVE Following'
    BY <1>11, <1>5 DEF RemoveSlot
  <1> QED BY <1>1, <1>2, <1>3, <1>6, <1>7, <1>8, <1>9, <1>10, <1>11, SendingIs
      DEF Next, Sends, Reader, Host

\* A spot has an identifier, and every step's last spot is one of them.
LEMMA Places ==
    ASSUME Typed, NEW nx \in [1..Len(frames) + 1 -> Spots]
    PROVE  /\ Len(frames) \in Nat
           /\ \A k \in 1..Len(frames) + 1 : nx[k] \in Spots
           /\ Len(frames) + 1 \in 1..Len(frames) + 1 /\ 1 \in 1..Len(frames) + 1
  <1>1. Len(frames) \in Nat
    BY LenProperties DEF Typed
  <1> QED BY <1>1

\* A step that leaves socket, stream and what was asked for as they are
LEMMA LineUntouched ==
    ASSUME Line, UNCHANGED <<frames, users, asked, serving>>,
           stream'.id = stream.id, stream'.next = stream.next, stream'.stop = stream.stop,
           stream'.state = "none" <=> stream.state = "none",
           slot' = slot \/ slot' = NoSlot, slot.id \in Ids \cup {NoId}, slot.live => slot.id # NoId,
           \A k \in Ids : Asking(k)' <=> Asking(k), \A k \in Ids : Denied(k)' => Denied(k),
           \A j \in Ids : slot'.id = j => LastOf(j)' = LastOf(j)
    PROVE  Line'
  <1>1. PICK nx \in [1..Len(frames) + 1 -> Spots] : Flows(nx) /\ Writes(nx) /\ Reads(nx)
    BY DEF Line
  <1>2. Flows(nx)'
    BY <1>1 DEF Flows
  <1>3. CASE slot' = slot
    <2>1. Loose' => Loose
      BY <1>3 DEF Loose, Alone
    <2>2. Writes(nx)'
      BY <1>1, <1>3, <2>1 DEF Writes
    <2>3. slot.live => LastOf(slot.id)' = LastOf(slot.id)
      <3>1. \A j \in Ids : slot.id = j => LastOf(j)' = LastOf(j)
        BY <1>3
      <3>2. slot.live => slot.id \in Ids
        OBVIOUS
      <3> QED BY <1>3, <3>1, <3>2
    <2>4. Reads(nx)'
      BY <1>1, <1>3, <2>3 DEF Reads
    <2> QED BY <1>1, <1>2, <2>2, <2>4 DEF Line
  <1>4. CASE slot' = NoSlot
    <2>1. Writes(nx)'
      BY <1>1, <1>4 DEF Writes, NoSlot
    <2>2. Reads(nx)'
      BY <1>1, <1>4 DEF Reads, NoSlot
    <2> QED BY <1>1, <1>2, <2>1, <2>2 DEF Line
  <1> QED BY <1>3, <1>4

\* The reader takes the first frame: every spot is one place further ahead.
LEMMA LineRead ==
    ASSUME Inv, ReadReply \/ ReadFrame,
           NEW nx \in [1..Len(frames) + 1 -> Spots], Flows(nx), Writes(nx), Reads(nx),
           slot'.id = slot.id,
           \A k \in Ids : Asking(k)' <=> Asking(k), \A k \in Ids : Denied(k)' => Denied(k),
           slot'.live => nx[2] = [id |-> slot'.id, event |-> LastOf(slot.id)' + 1]
    PROVE  Line'
  <1> PICK m : m = [k \in 1..Len(frames') + 1 |-> nx[k + 1]]
    OBVIOUS
  <1>1. /\ Len(frames) \in Nat \ {0} /\ Len(frames') = Len(frames) - 1
        /\ \A p \in 1..Len(frames') : frames'[p] = frames[p + 1]
        /\ UNCHANGED <<users, asked, stream, serving>>
    BY OneRead DEF Inv, ReadReply, ReadFrame, setting, host
  <1>2. \A k \in 1..Len(frames') + 1 : k + 1 \in 1..Len(frames) + 1 /\ m[k] = nx[k + 1]
    BY <1>1
  <1>3. \A k \in 1..Len(frames') : /\ k + 1 \in 1..Len(frames) /\ frames'[k] = frames[k + 1]
                                   /\ m[k] = nx[k + 1] /\ m[k + 1] = nx[(k + 1) + 1]
    BY <1>1
  <1>4. m \in [1..Len(frames') + 1 -> Spots]
    BY <1>2
  <1>5. m[1] = nx[2] /\ m[Len(frames') + 1] = nx[Len(frames) + 1]
    BY <1>1
  <1>6. Flows(m)'
    <2>1. \A k \in 1..Len(frames') : Goes(m[k], frames'[k], m[k + 1])
      BY <1>3 DEF Flows
    <2>2. \A k \in 1..Len(frames') + 1 : m[k].id <= asked'
      BY <1>1, <1>2 DEF Flows
    <2>3. \A k \in 1..Len(frames') + 1, i \in Ids : Asking(i)' \/ Denied(i)' => m[k].id # i
      BY <1>2 DEF Flows
    <2> QED BY <2>1, <2>2, <2>3 DEF Flows
  <1>7. Loose' => Loose
    BY <1>1 DEF Loose, Alone
  <1>8. Writes(m)'
    BY <1>1, <1>5, <1>7 DEF Writes
  <1>9. Reads(m)'
    <2>1. \A k \in 1..Len(frames') :
            Opens(frames'[k]) /\ slot'.id # NoId /\ m[k].id = slot'.id => m[k].event = End + 1
      BY <1>3 DEF Reads
    <2>2. slot'.live => m[1] = [id |-> slot'.id, event |-> LastOf(slot.id)' + 1]
      BY <1>5
    <2> QED BY <2>1, <2>2 DEF Reads
  <1> QED BY <1>4, <1>6, <1>8, <1>9 DEF Line

\* The host sends a frame, and s is the spot behind it.
LEMMA LineWritten ==
    ASSUME Inv, NEW f, NEW s \in Spots,
           NEW nx \in [1..Len(frames) + 1 -> Spots], Flows(nx), Reads(nx),
           Len(frames') = Len(frames) + 1, \A i \in 1..Len(frames) : frames'[i] = frames[i],
           frames'[Len(frames) + 1] = f, UNCHANGED client,
           Goes(nx[Len(frames) + 1], f, s), s.id <= asked,
           \A i \in Ids : Asking(i)' => Asking(i),
           \A i \in Ids : Denied(i)' => Denied(i) \/ Asking(i),
           \A i \in Ids : Asking(i)' \/ Denied(i)' => s.id # i,
           Opens(f) /\ slot.id # NoId /\ nx[Len(frames) + 1].id = slot.id
              => nx[Len(frames) + 1].event = End + 1,
           stream'.state # "none" => s = [id |-> stream'.id, event |-> stream'.next],
           slot.id # NoId /\ s.id = slot.id /\ Loose =>
              serving' = NotBusy /\ ~stream'.stop /\ stream'.state # "none"
    PROVE  Line'
  <1> PICK m : m = [k \in 1..Len(frames') + 1 |-> IF k <= Len(frames) + 1 THEN nx[k] ELSE s]
    OBVIOUS
  <1>1. Len(frames) \in Nat
    BY Places DEF Inv
  <1>2. /\ \A k \in 1..Len(frames) + 1 : k \in 1..Len(frames') + 1 /\ m[k] = nx[k]
        /\ m[Len(frames') + 1] = s
        /\ \A k \in 1..Len(frames') + 1 : k \in 1..Len(frames) + 1 \/ k = Len(frames') + 1
    BY <1>1
  <1>3. \A k \in 1..Len(frames') :
           \/ k \in 1..Len(frames) /\ m[k] = nx[k] /\ m[k + 1] = nx[k + 1] /\ frames'[k] = frames[k]
           \/ /\ k = Len(frames) + 1 /\ m[k] = nx[Len(frames) + 1] /\ m[k + 1] = s
              /\ frames'[k] = f
    BY <1>1
  <1>4. m \in [1..Len(frames') + 1 -> Spots]
    BY <1>1
  <1>5. Flows(m)'
    <2>1. \A k \in 1..Len(frames') : Goes(m[k], frames'[k], m[k + 1])
      BY <1>3 DEF Flows
    <2>2. \A k \in 1..Len(frames') + 1 : m[k].id <= asked'
      BY <1>2 DEF Flows, client
    <2>3. \A k \in 1..Len(frames') + 1, i \in Ids : Asking(i)' \/ Denied(i)' => m[k].id # i
      BY <1>2 DEF Flows
    <2> QED BY <2>1, <2>2, <2>3 DEF Flows
  <1>6. Loose' => Loose
    BY DEF Loose, Alone, client, setting
  <1>7. Writes(m)'
    BY <1>2, <1>6 DEF Writes, client
  <1>8. Reads(m)'
    <2>1. \A k \in 1..Len(frames') :
            Opens(frames'[k]) /\ slot'.id # NoId /\ m[k].id = slot'.id => m[k].event = End + 1
      BY <1>3 DEF Reads, client
    <2>2. m[1] = nx[1]
      BY <1>1, <1>2
    <2>3. slot'.live => m[1] = [id |-> slot'.id, event |-> LastOf(slot.id)' + 1]
      BY <2>2 DEF Reads, client, LastOf, Got
    <2> QED BY <2>1, <2>3 DEF Reads
  <1> QED BY <1>4, <1>5, <1>7, <1>8 DEF Line

\* The spots of the socket stay right through every step at either end.
LEMMA LineStep ==
    ASSUME Inv, [Next]_vars
    PROVE  Line'
  <1>i. Typed /\ Line /\ users \subseteq Threads
    BY DEF Inv, Typed
  <1>s. slot.id \in Ids \cup {NoId} /\ NoId \notin Ids /\ (slot.live => slot.id # NoId)
    BY Numbers DEF Inv, Typed
  <1>a. asked' = asked => ~\E t \in users : AttachRegister(t)
    <2>1. asked \in Int
      BY DEF Inv, Typed
    <2> QED BY <2>1 DEF AttachRegister
  <1>b. ASSUME asked' = asked, ~HostAttach
        PROVE  /\ \A k \in Ids : Asking(k)' <=> Asking(k)
               /\ \A k \in Ids : Denied(k)' => Denied(k)
    BY <1>a, <1>b, <1>i, AskingKept, DeniedKept
  <1>1. ASSUME NEW t \in users, AttachRegister(t) PROVE Line'
    <2>1. /\ asked' = asked + 1 /\ asked' \in Ids
          /\ \A k \in Ids : Asking(k)' <=> Asking(k) \/ k = asked'
          /\ slot' = [id |-> asked', live |-> FALSE] /\ UNCHANGED <<frames, requests, stream, serving>>
      BY <1>1, AskingRegistered DEF Inv, AttachRegister, host
    <2>2. \A k \in Ids : Denied(k)' => Denied(k)
      BY <2>1, <1>i, NotServed, DeniedKept
    <2>3. PICK nx \in [1..Len(frames) + 1 -> Spots] : Flows(nx) /\ Writes(nx) /\ Reads(nx)
      BY <1>i DEF Line
    <2>4. ASSUME NEW k \in 1..Len(frames) + 1 PROVE nx[k].id <= asked' /\ nx[k].id # asked'
      <3>1. nx[k].id <= asked /\ nx[k].id \in Ids \cup {NoId}
        BY <2>3 DEF Flows, Spots
      <3>2. nx[k].id \in Int /\ asked \in Int
        BY <3>1, <1>i DEF Ids, NoId, Typed
      <3> QED BY <2>1, <3>1, <3>2
    <2>5. Flows(nx)'
      <3>1. \A k \in 1..Len(frames) + 1, i \in Ids : Asking(i)' \/ Denied(i)' => nx[k].id # i
        BY <2>1, <2>2, <2>3, <2>4 DEF Flows
      <3> QED BY <2>1, <2>3, <2>4, <3>1 DEF Flows
    <2>6. Writes(nx)' /\ Reads(nx)'
      <3>1. Len(frames) + 1 \in 1..Len(frames) + 1 /\ \A k \in 1..Len(frames) : k \in 1..Len(frames) + 1
        BY <1>i, Places
      <3>2. Writes(nx)'
        BY <2>1, <2>3, <2>4, <3>1 DEF Writes
      <3>3. Reads(nx)'
        BY <2>1, <2>4, <3>1 DEF Reads
      <3> QED BY <3>2, <3>3
    <2> QED BY <2>1, <2>3, <2>5, <2>6 DEF Line
  <1>2. ASSUME UNCHANGED <<frames, users, asked, host, queue, seen, reader>>, ~HostAttach,
               slot' = slot \/ slot' = NoSlot
        PROVE  Line'
    <2>1. \A j \in Ids : LastOf(j)' = LastOf(j)
      BY <1>2 DEF LastOf, Got
    <2>2. UNCHANGED <<frames, users, asked, serving>> /\ stream' = stream
      BY <1>2 DEF host
    <2> QED BY <1>2, <1>b, <1>i, <1>s, <2>1, <2>2, LineUntouched
  <1>3. ASSUME NEW t \in users, \/ Sending(t) \/ AttachRefused(t) \/ AttachTimeout(t) \/ DetachRemove(t)
                                \/ \E i \in Ids : DropRemove(t, i)
        PROVE  Line'
    <2>1. /\ UNCHANGED <<frames, users, asked, host, queue, seen, reader>>
          /\ slot' = slot \/ slot' = NoSlot
          /\ requests' = requests \/ Sending(t)
      BY <1>3 DEF Sending, AttachRefused, AttachTimeout, GiveUp, DetachRemove, DropRemove, setting
    <2>2. ~HostAttach
      BY <2>1, <1>i, NotServed
    <2> QED BY <1>2, <2>1, <2>2
  <1>4. ASSUME NEW id \in Ids, Take(id) PROVE Line'
    <2>1. /\ queue[id] \in Seq(Events) /\ queue[id] # <<>> /\ seen[id] \in Events
          /\ queue' = [queue EXCEPT ![id] = Tail(queue[id])]
          /\ seen' = [seen EXCEPT ![id] = Head(queue[id])]
          /\ UNCHANGED <<users, slot, reader, asked, frames, requests, stream, serving>>
      BY <1>4, <1>i DEF Take, Typed, setting, host
    <2>2. GotOf(Head(queue[id]), Tail(queue[id])) = Got(id)
      BY <2>1, ChainTaken DEF Inv, Fed, Got
    <2>3. /\ queue'[id] = Tail(queue[id]) /\ seen'[id] = Head(queue[id])
          /\ \A j \in Ids : j # id => queue'[j] = queue[j] /\ seen'[j] = seen[j]
      BY <2>1, <1>i DEF Typed
    <2>4. \A j \in Ids : LastOf(j)' = LastOf(j)
      BY <2>1, <2>2, <2>3 DEF LastOf, Got
    <2>5. ~HostAttach
      BY <2>1, <1>i, NotServed
    <2> QED BY <2>1, <2>4, <2>5, <1>b, <1>i, <1>s, LineUntouched
  <1>5. ASSUME Deliver PROVE Line'
    <2>i. PICK id \in Ids : id = reader.to
      BY <1>5, <1>i DEF Deliver, Typed
    <2>j. PICK e : e = [event |-> reader.event, from |-> reader.from]
      OBVIOUS
    <2>1. /\ UNCHANGED <<users, slot, cancelled, held, seen, requests, asked, frames, stream, serving>>
          /\ reader'.to = NoId
          /\ \/ queue' = queue /\ LetsGo(id)
             \/ queue' = [queue EXCEPT ![id] = Append(queue[id], e)]
      BY <1>5, <1>i, <2>i, <2>j DEF Deliver, After, Removing, Free, Typed, setting, host
    <2>2. /\ queue[id] \in Seq(Events) /\ seen[id] \in Events
          /\ e \in Events /\ e.from = id /\ e.event = Got(id) + 1 /\ Chain(seen[id], queue[id], id)
          /\ LastOf(id) = e.event
      BY <2>1, <2>i, <2>j, <1>i DEF Typed, Inv, Fed, Events, LastOf
    <2>3. ~HostAttach
      BY <2>1, NotServed, <1>i
    <2>5. GotOf(seen[id], Append(queue[id], e)) = e.event
      BY <2>2, ChainFed DEF Got
    <2>6. \A j \in Ids : j # id => queue'[j] = queue[j]
      BY <2>1, <1>i DEF Typed
    <2>7. \A j \in Ids : slot'.id = j => LastOf(j)' = LastOf(j)
      <3>1. \A j \in Ids : j # id => LastOf(j)' = LastOf(j)
        BY <2>1, <2>i, <2>6, Numbers DEF LastOf, Got
      <3>2. CASE queue' = [queue EXCEPT ![id] = Append(queue[id], e)]
        <4>1. queue'[id] = Append(queue[id], e)
          BY <2>1, <3>2, <1>i DEF Typed
        <4>2. LastOf(id)' = e.event
          BY <2>1, <2>5, <4>1, Numbers DEF LastOf, Got
        <4> QED BY <2>2, <3>1, <4>2
      <3>3. CASE LetsGo(id)
        <4>1. held[id] \in Gone \/ cancelled[id]
          BY <3>3 DEF LetsGo
        <4>2. slot'.id # id
          BY <2>1, <4>1 DEF Inv, Fed
        <4> QED BY <3>1, <4>2
      <3> QED BY <2>1, <3>2, <3>3
    <2> QED BY <2>1, <2>3, <2>7, <1>b, <1>i, <1>s, LineUntouched
  <1>6. ASSUME RemoveSlot PROVE Line'
    <2>1. /\ slot' = NoSlot /\ UNCHANGED <<frames, users, asked, serving, stream, requests>>
      BY <1>6 DEF RemoveSlot, setting, host
    <2>2. ~HostAttach
      BY <2>1, <1>i, NotServed
    <2>3. \A j \in Ids : slot'.id # j
      BY <2>1, <1>s DEF NoSlot
    <2> QED BY <2>1, <2>2, <2>3, <1>b, <1>i, <1>s, LineUntouched
  <1>7. ASSUME ReadReply PROVE Line'
    <2>1. /\ UNCHANGED <<queue, seen, reader, asked, requests>> /\ reader = Free
          /\ \/ slot' = slot
             \/ /\ Opens(Head(frames)) /\ slot.id = Head(frames).id
                /\ slot' = [slot EXCEPT !.live = TRUE]
      BY <1>7 DEF ReadReply, Opens
    <2>2. ~HostAttach
      BY <2>1, <1>i, NotServed
    <2>3. PICK nx \in [1..Len(frames) + 1 -> Spots] : Flows(nx) /\ Writes(nx) /\ Reads(nx)
      BY <1>i DEF Line
    <2>4. /\ 1 \in 1..Len(frames) /\ Head(frames) = frames[1] /\ Head(frames) \in Reply
      BY <1>7, <1>i, OneRead
    <2>5. Goes(nx[1], frames[1], nx[2])
      BY <2>3, <2>4 DEF Flows
    <2>6. \A j : LastOf(j)' = LastOf(j)
      BY <2>1 DEF LastOf, Got
    <2>7. slot'.id = slot.id
      BY <2>1, <1>i DEF Typed
    <2>8. slot'.live => nx[2] = [id |-> slot'.id, event |-> LastOf(slot.id)' + 1]
      <3>1. CASE slot.live
        <4>1. ~Opens(frames[1])
          BY <1>7, <2>4, <3>1, HeadOpens
        <4>2. nx[2] = nx[1]
          BY <2>4, <2>5, <4>1 DEF Goes, Reply
        <4> QED BY <2>3, <2>6, <2>7, <3>1, <4>2 DEF Reads
      <3>2. CASE ~slot.live
        <4> SUFFICES ASSUME slot'.live PROVE nx[2] = [id |-> slot'.id, event |-> LastOf(slot.id)' + 1]
          OBVIOUS
        <4>1. Opens(frames[1]) /\ slot.id = frames[1].id
          BY <2>1, <2>4, <3>2
        <4>2. nx[2] = [id |-> slot.id, event |-> 1]
          BY <2>5, <4>1 DEF Goes
        <4>3. slot.id \in Ids
          BY <1>7, <1>i, <2>4, <4>1, OneRead
        <4>4. LastOf(slot.id) = 0
          BY <3>2, <4>3, <1>i, <2>1, Numbers DEF Inv, Slotted, LastOf, Got, GotOf, Nothing
        <4> QED BY <2>6, <2>7, <4>2, <4>4
      <3> QED BY <3>1, <3>2
    <2> QED BY <1>7, <2>1, <2>2, <2>3, <2>7, <2>8, <1>b, LineRead
  <1>8. ASSUME ReadFrame PROVE Line'
    <2>1. /\ UNCHANGED <<slot, queue, seen, asked, requests>> /\ reader = Free
      BY <1>8 DEF ReadFrame
    <2>2. ~HostAttach
      BY <2>1, <1>i, NotServed
    <2>3. PICK nx \in [1..Len(frames) + 1 -> Spots] : Flows(nx) /\ Writes(nx) /\ Reads(nx)
      BY <1>i DEF Line
    <2>4. /\ 1 \in 1..Len(frames) /\ Head(frames) = frames[1] /\ Head(frames) \in Sent
      BY <1>8, <1>i, OneRead
    <2>5. Goes(nx[1], frames[1], nx[2])
      BY <2>3, <2>4 DEF Flows
    <2>6. nx[2] = [id |-> nx[1].id, event |-> nx[1].event + 1] /\ frames[1].event = nx[1].event
      BY <2>4, <2>5 DEF Goes, Opens, Sent
    <2>7. slot.live => nx[2] = [id |-> slot.id, event |-> LastOf(slot.id)' + 1]
      <3> SUFFICES ASSUME slot.live PROVE nx[2] = [id |-> slot.id, event |-> LastOf(slot.id)' + 1]
        OBVIOUS
      <3>1. nx[1].id = slot.id
        BY <2>3 DEF Reads
      <3>2. reader' = [to |-> slot.id, event |-> frames[1].event, from |-> frames[1].id]
        BY <1>8, <2>4 DEF ReadFrame, Listening
      <3>3. LastOf(slot.id)' = frames[1].event
        BY <2>1, <3>2 DEF LastOf
      <3> QED BY <2>6, <3>1, <3>3
    <2>8. slot' = slot
      BY <2>1
    <2> QED BY <1>8, <2>1, <2>2, <2>3, <2>7, <2>8, <1>b, LineRead
  <1>9. ASSUME HostAttach PROVE Line'
    <2>1. PICK nx \in [1..Len(frames) + 1 -> Spots] : Flows(nx) /\ Writes(nx) /\ Reads(nx)
      BY <1>i DEF Line
    <2>2. PICK k : k = Head(requests).id
      OBVIOUS
    <2>3. /\ k \in Ids /\ Asking(k)
          /\ \A i \in Ids : Asking(i)' <=> Asking(i) /\ i # k
      BY <1>9, <2>2, AskingServed DEF Inv
    <2>4. \A i \in Ids : Denied(i)' => Denied(i) \/ (i = k /\ stream' = stream)
      BY <1>9, <1>i, <2>2, DeniedServed
    <2>5. PICK f : f = frames'[Len(frames) + 1]
      OBVIOUS
    <2>6. /\ Len(frames') = Len(frames) + 1
          /\ \A i \in 1..Len(frames) : frames'[i] = frames[i]
          /\ f.kind = "reply" /\ f.op = "attach" /\ f.id = k
          /\ \/ f.ok /\ stream.state \in {"none", "done"} /\ stream' = Opened(k)
             \/ ~f.ok /\ stream' = stream
          /\ serving = NotBusy /\ UNCHANGED <<client, serving, ended>>
      BY <1>9, <1>i, <2>2, <2>5, OneAnswered
    <2>7. PICK a : a = nx[Len(frames) + 1]
      OBVIOUS
    <2>8. /\ a \in Spots /\ a.id <= asked /\ a.id # k
          /\ \A i \in Ids : Asking(i) \/ Denied(i) => a.id # i
      BY <2>1, <2>3, <2>7, <1>i, Places DEF Flows
    <2>9. \A i \in Ids : Denied(i)' => Denied(i) \/ Asking(i)
      BY <2>3, <2>4
    <2>10. /\ stream.state # "none" => a = [id |-> stream.id, event |-> stream.next]
           /\ slot.id # NoId /\ a.id = slot.id /\ Loose =>
                 serving = NotBusy /\ ~stream.stop /\ stream.state # "none"
      BY <2>1, <2>7 DEF Writes
    <2>11. CASE f.ok
      <3>1. PICK s : s = [id |-> k, event |-> 1]
        OBVIOUS
      <3>2. stream.state \in {"none", "done"} /\ stream' = Opened(k) /\ Opens(f) /\ stream'.id = k
        BY <2>6, <2>11 DEF Opens, Opened
      <3>3. s \in Spots
        BY <2>3, <3>1, Numbers DEF Spots
      <3>4. Goes(a, f, s)
        BY <2>6, <3>1, <3>2 DEF Goes
      <3>5. ~Asking(k)' /\ ~Denied(k)'
        <4>1. stream'.id # stream.id
          BY <2>3, <3>2 DEF Inv, Settled
        <4>2. ~Denied(k)
          BY <2>3 DEF Inv, Settled
        <4> QED BY <2>3, <2>4, <4>1, <4>2
      <3>6. \A i \in Ids : Asking(i)' \/ Denied(i)' => s.id # i
        BY <3>1, <3>5
      <3>7. slot.id # NoId /\ a.id = slot.id => a.event = End + 1
        <4> SUFFICES ASSUME slot.id # NoId, a.id = slot.id PROVE a.event = End + 1
          OBVIOUS
        <4>1. Loose
          BY <2>3, <2>8 DEF Loose
        <4>2. ~stream.stop /\ stream.state = "done"
          BY <2>10, <3>2, <4>1
        <4> QED BY <2>10, <4>2 DEF Inv, Stopped
      <3>8. s.id <= asked
        <4>1. Head(requests) = requests[1] /\ 1 \in 1..Len(requests)
          BY <1>9, <1>i, OneServed
        <4> QED BY <2>2, <3>1, <4>1 DEF Inv, Numbered
      <3>9. /\ stream'.state # "none" => s = [id |-> stream'.id, event |-> stream'.next]
            /\ serving' = NotBusy /\ ~stream'.stop /\ stream'.state # "none"
        BY <2>6, <3>1, <3>2 DEF Opened
      <3> QED BY <2>1, <2>3, <2>5, <2>6, <2>7, <2>9, <3>3, <3>4, <3>6, <3>7, <3>8, <3>9, LineWritten
    <2>12. CASE ~f.ok
      <3>1. stream' = stream /\ ~Opens(f) /\ Goes(a, f, a) /\ serving' = NotBusy
        BY <2>6, <2>12 DEF Opens, Goes
      <3>2. \A i \in Ids : Asking(i)' \/ Denied(i)' => a.id # i
        BY <2>3, <2>8, <2>9
      <3>3. /\ stream'.state # "none" => a = [id |-> stream'.id, event |-> stream'.next]
            /\ slot.id # NoId /\ a.id = slot.id /\ Loose =>
                 serving' = NotBusy /\ ~stream'.stop /\ stream'.state # "none"
        BY <2>10, <3>1
      <3> QED BY <2>1, <2>3, <2>5, <2>6, <2>7, <2>8, <2>9, <3>1, <3>2, <3>3, LineWritten
    <2> QED BY <2>11, <2>12
  <1>10. ASSUME HostDetach PROVE Line'
    <2>1. PICK nx \in [1..Len(frames) + 1 -> Spots] : Flows(nx) /\ Writes(nx) /\ Reads(nx)
      BY <1>i DEF Line
    <2>2. /\ UNCHANGED <<client, frames>> /\ Head(requests).op = "detach"
          /\ stream' = [stream EXCEPT !.stop = TRUE]
      BY <1>10 DEF HostDetach
    <2>3. /\ \A k \in Ids : Asking(k)' <=> Asking(k)
          /\ \A k \in Ids : Denied(k)' => Denied(k)
      BY <1>10, <2>2, <1>b, <1>i, NotServed DEF client
    <2>4. Flows(nx)'
      BY <2>1, <2>2, <2>3 DEF Flows, client
    <2>5. Reads(nx)'
      BY <2>1, <2>2 DEF Reads, client, LastOf, Got
    <2>6. stream'.id = stream.id /\ stream'.next = stream.next /\ stream'.state = stream.state
      BY <2>2, <1>i DEF Typed
    <2>7. ASSUME slot.id # NoId, nx[Len(frames) + 1].id = slot.id, Loose PROVE FALSE
      <3>1. slot.id \in Ids /\ ~Asking(slot.id)
        BY <2>1, <2>7, <1>i, <1>s, Places DEF Flows
      <3>2. Behind(0)
        BY <2>7, <3>1 DEF Inv, Following
      <3>3. Len(requests) \in Nat \ {0} /\ Head(requests) = requests[1]
        BY <1>10, <1>i, OneServed
      <3>4. Len(requests) = 1 /\ ~Alone /\ \A t \in Threads : ~Unsent(t)
        <4>1. Len(requests) \in Int /\ Len(requests) >= 1 /\ Len(requests) - 0 = Len(requests)
          BY <3>3
        <4>2. Len(requests) <= 1 /\ ~Alone
          BY <3>2, <4>1 DEF Behind
        <4>3. Len(requests) = 1
          BY <4>1, <4>2
        <4> QED BY <3>2, <4>1, <4>2, <4>3 DEF Behind
      <3>5. PICK k \in Ids : Asking(k)
        BY <2>7, <3>4 DEF Loose
      <3>6. \A t \in Threads : ~Attaches(call[t], k)
        BY <3>4 DEF Unsent, Attaches
      <3>7. \A p \in 1..Len(requests) : ~Attaches(requests[p], k)
        <4>1. \A p \in 1..Len(requests) : p = 1
          BY <3>4
        <4> QED BY <2>2, <3>3, <4>1 DEF Attaches
      <3> QED BY <3>5, <3>6, <3>7 DEF Asking
    <2>8. Loose' => Loose
      BY <2>2, <2>3 DEF Loose, Alone, client, setting
    <2>9. Writes(nx)'
      <3>1. stream'.state # "none" =>
               nx[Len(frames) + 1] = [id |-> stream'.id, event |-> stream'.next]
        BY <2>1, <2>6 DEF Writes
      <3>2. ~(slot.id # NoId /\ nx[Len(frames) + 1].id = slot.id /\ Loose')
        BY <2>7, <2>8
      <3> QED BY <2>2, <3>1, <3>2 DEF Writes, client
    <2> QED BY <2>1, <2>2, <2>4, <2>5, <2>9 DEF Line
  <1>11. ASSUME HostDetached PROVE Line'
    <2>1. PICK nx \in [1..Len(frames) + 1 -> Spots] : Flows(nx) /\ Writes(nx) /\ Reads(nx)
      BY <1>i DEF Line
    <2>2. /\ UNCHANGED <<client, requests>> /\ serving # NotBusy /\ stream'.state = "none"
      BY <1>11 DEF HostDetached, NoStream
    <2>3. /\ \A k \in Ids : Asking(k)' <=> Asking(k)
          /\ \A k \in Ids : Denied(k)' => Denied(k)
      BY <2>2, <1>b, <1>i, NotServed DEF client
    <2>5. PICK f : f = frames'[Len(frames) + 1]
      OBVIOUS
    <2>6. /\ Len(frames') = Len(frames) + 1
          /\ \A i \in 1..Len(frames) : frames'[i] = frames[i]
          /\ f.kind = "reply" /\ f.op = "detach"
      BY <1>11, <1>i, <2>5, OneDetached
    <2>7. PICK a : a = nx[Len(frames) + 1]
      OBVIOUS
    <2>8. /\ a \in Spots /\ a.id <= asked
          /\ \A i \in Ids : Asking(i) \/ Denied(i) => a.id # i
      BY <2>1, <2>7, <1>i, Places DEF Flows
    <2>9. ~(slot.id # NoId /\ a.id = slot.id /\ Loose)
      BY <2>1, <2>2, <2>7 DEF Writes
    <2>10. ~Opens(f) /\ Goes(a, f, a)
      BY <2>6 DEF Opens, Goes
    <2> QED BY <2>1, <2>2, <2>3, <2>5, <2>6, <2>7, <2>8, <2>9, <2>10, LineWritten
  <1>12. ASSUME HostStreams PROVE Line'
    <2>1. CASE stream.state = "send"
      <3>1. PICK nx \in [1..Len(frames) + 1 -> Spots] : Flows(nx) /\ Writes(nx) /\ Reads(nx)
        BY <1>i DEF Line
      <3>2. UNCHANGED <<client, requests, serving>>
        BY <1>12 DEF HostStreams
      <3>3. /\ \A k \in Ids : Asking(k)' <=> Asking(k)
            /\ \A k \in Ids : Denied(k)' => Denied(k)
        BY <3>2, <1>b, <1>i, NotServed DEF client
      <3>4. PICK f : f = frames'[Len(frames) + 1]
        OBVIOUS
      <3>5. /\ Len(frames') = Len(frames) + 1
            /\ \A i \in 1..Len(frames) : frames'[i] = frames[i]
            /\ f = [kind |-> "stream", id |-> stream.id, event |-> stream.next]
            /\ stream' = [id |-> stream.id, state |-> IF stream.next = End THEN "left" ELSE "run",
                          next |-> stream.next + 1, stop |-> stream.stop]
        BY <1>12, <1>i, <2>1, <3>4, OneStreamed
      <3>6. PICK a : a = nx[Len(frames) + 1]
        OBVIOUS
      <3>7. PICK s : s = [id |-> stream.id, event |-> stream.next + 1]
        OBVIOUS
      <3>8. /\ a \in Spots /\ a.id <= asked /\ a = [id |-> stream.id, event |-> stream.next]
            /\ \A i \in Ids : Asking(i) \/ Denied(i) => a.id # i
            /\ slot.id # NoId /\ a.id = slot.id /\ Loose => serving = NotBusy /\ ~stream.stop
        BY <2>1, <3>1, <3>6, <1>i, Places DEF Flows, Writes
      <3>9. s \in Spots
        <4>1. stream.id \in Ids \cup {NoId} /\ stream.next \in 1..End + 1 /\ stream.next <= End
          BY <1>i, <2>1 DEF Typed
        <4> QED BY <3>7, <4>1, Numbers DEF Spots
      <3>10. ~Opens(f) /\ Goes(a, f, s)
        BY <3>5, <3>7, <3>8 DEF Opens, Goes
      <3>11. s.id = a.id
        BY <3>7, <3>8
      <3>12. /\ s = [id |-> stream'.id, event |-> stream'.next]
             /\ stream'.stop = stream.stop /\ stream'.state # "none"
        BY <3>5, <3>7
      <3> QED BY <3>1, <3>2, <3>3, <3>4, <3>5, <3>6, <3>8, <3>9, <3>10, <3>11, <3>12, LineWritten
    <2>2. CASE stream.state # "send"
      <3>1. /\ UNCHANGED <<client, requests, serving, frames>>
            /\ stream'.id = stream.id /\ stream'.next = stream.next /\ stream'.stop = stream.stop
            /\ (stream'.state = "none" <=> stream.state = "none")
        BY <1>12, <2>2, <1>i DEF HostStreams, Typed
      <3>2. ~HostAttach
        BY <3>1, <1>i, NotServed
      <3>3. UNCHANGED <<users, asked, slot>> /\ \A j : LastOf(j)' = LastOf(j)
        BY <3>1 DEF client, setting, LastOf, Got
      <3> QED BY <3>1, <3>2, <3>3, <1>b, <1>i, <1>s, LineUntouched
    <2> QED BY <2>1, <2>2
  <1>13. ASSUME SessionEnds \/ UNCHANGED vars PROVE Line'
    <2>1. UNCHANGED <<client, requests, frames, serving, stream>>
      BY <1>13 DEF SessionEnds, vars, host
    <2>2. ~HostAttach
      BY <2>1, <1>i, NotServed
    <2>3. UNCHANGED <<users, asked, slot>> /\ \A j : LastOf(j)' = LastOf(j)
      BY <2>1 DEF client, setting, LastOf, Got
    <2> QED BY <2>1, <2>2, <2>3, <1>b, <1>i, <1>s, LineUntouched
  <1> QED BY <1>1, <1>3, <1>4, <1>5, <1>6, <1>7, <1>8, <1>9, <1>10, <1>11, <1>12, <1>13, SendingIs
      DEF Next, Sends, Reader, Host

(***************************************************************************)
(* The theorems.                                                           *)
(***************************************************************************)
\* Init establishes the invariant: nothing was asked for, and nothing is under
\* way.
LEMMA InvInit ==
    ASSUME TwoThreads, Init
    PROVE  Inv /\ Roomy
  <1>1. Typed
    BY TypedInit
  <1>2. /\ asked = 0 /\ slot = NoSlot /\ reader = Free /\ requests = <<>> /\ frames = <<>>
        /\ serving = NotBusy /\ stream = NoStream
        /\ \A t \in Threads : call[t] = NoCall
        /\ \A j \in Ids : /\ queue[j] = <<>> /\ seen[j] = Nothing /\ held[j] = "none"
                          /\ ~cancelled[j]
    BY DEF Init
  <1>3. \A t \in Threads : call[t].op = "idle" /\ call[t].id = 0
    <2>1. NoCall.op = "idle" /\ NoCall.id = 0
      BY DEF NoCall, NoId
    <2>2. \A t \in Threads : call[t] = NoCall
      BY <1>2
    <2> QED BY <2>1, <2>2
  <1>4. Len(requests) = 0 /\ Len(frames) = 0
    BY <1>2
  <1>5. \A k \in Ids : ~Asking(k) /\ ~Denied(k)
    BY <1>3, <1>4 DEF Asking, Denied, Attaches
  <1>6. /\ slot.id = 0 /\ ~slot.live /\ reader.to = 0 /\ reader.event = 0 /\ serving.id = 0
        /\ stream.id = 0 /\ stream.state = "none" /\ NoId = 0
    BY <1>2 DEF NoSlot, Free, NotBusy, NoStream, NoId
  <1>7. Numbered
    BY <1>2, <1>3, <1>4, <1>6 DEF Numbered
  <1>8. Once /\ Settled
    BY <1>3, <1>4, <1>5 DEF Once, Settled
  <1>9. Handed /\ Stopped
    BY <1>2, <1>6 DEF Handed, Stopped
  <1>10. Fed
    <2>1. ASSUME NEW j \in Ids PROVE Chain(seen[j], queue[j], j)
      <3>1. queue[j] = <<>> /\ Len(queue[j]) = 0 /\ seen[j] = Nothing
        BY <1>2
      <3> QED BY <3>1 DEF Chain
    <2>2. \A j \in Ids : reader.to # j /\ slot.id # j
      BY <1>6, Numbers
    <2> QED BY <2>1, <2>2 DEF Fed
  <1>11. Slotted /\ Following
    BY <1>6 DEF Slotted, Following
  <1>12. Line
    <2> PICK nx : nx = [k \in 1..Len(frames) + 1 |-> [id |-> NoId, event |-> 1]]
      OBVIOUS
    <2>1. nx \in [1..Len(frames) + 1 -> Spots]
      BY Numbers DEF Spots
    <2>2. Flows(nx)
      <3>1. \A k \in 1..Len(frames) + 1 : nx[k].id = 0
        BY <1>6
      <3> QED BY <1>2, <1>4, <1>5, <3>1 DEF Flows
    <2>3. Writes(nx) /\ Reads(nx)
      BY <1>4, <1>6 DEF Writes, Reads
    <2> QED BY <2>1, <2>2, <2>3 DEF Line
  <1>13. Roomy
    <2>1. QueueRoom \in Nat /\ SocketRoom \in Nat /\ \A j \in Ids : Len(queue[j]) = 0
      BY <1>2, Numbers
    <2> QED BY <1>4, <2>1 DEF Roomy
  <1> QED BY <1>1, <1>7, <1>8, <1>9, <1>10, <1>11, <1>12, <1>13 DEF Inv

\* The invariant is inductive.
LEMMA InvStep ==
    ASSUME Inv, Roomy, [Next]_vars
    PROVE  Inv' /\ Roomy'
  <1>1. Typed' /\ Roomy'
    BY TypedStep, RoomyStep DEF Inv
  <1>2. Numbered' /\ Once' /\ Settled' /\ Handed' /\ Stopped'
    BY <1>1, NumberedStep, OnceStep, SettledStep, HandedStep, StoppedStep DEF Inv
  <1>3. Fed' /\ Slotted' /\ Line' /\ Following'
    BY FedStep, SlottedStep, LineStep, FollowingStep
  <1> QED BY <1>1, <1>2, <1>3 DEF Inv, TwoThreads

\* The invariant implies the types that the runs check, and that what every
\* attachment was given is its own stream's events in order.
LEMMA OwnStreamFollows ==
    ASSUME Inv, Roomy
    PROVE  OwnStream
  <1>1. Typed
    BY DEF Inv
  <1>2. TypeOK
    <2>1. \A i \in Ids : /\ Len(queue[i]) <= QueueRoom
                         /\ \A k \in 1..Len(queue[i]) : queue[i][k] \in Events
      BY <1>1 DEF Typed, Roomy
    <2>2. \A k \in 1..Len(requests) : requests[k] \in Request
      BY <1>1 DEF Typed
    <2> QED BY <1>1, <2>1, <2>2 DEF TypeOK, Typed, Roomy, Ops
  <1>3. ASSUME NEW id \in Ids
        PROVE  /\ \A k \in 1..Len(Given(id)) : Given(id)[k].from = id
               /\ \A k \in 1..Len(Given(id)) - 1 : Given(id)[k + 1].event = Given(id)[k].event + 1
               /\ seen[id] = Nothing /\ queue[id] # <<>> => queue[id][1].event = 1
    <2>1. PICK s \in Events, q \in Seq(Events) : s = seen[id] /\ q = queue[id]
      BY <1>1 DEF Typed
    <2>2. Chain(s, q, id)
      BY <2>1 DEF Inv, Fed
    <2>3. Len(q) \in Nat /\ (q = <<>> <=> Len(q) = 0)
      BY LenProperties, EmptySeq
    <2>4. seen[id] = Nothing /\ queue[id] # <<>> => queue[id][1].event = 1
      BY <2>1, <2>2 DEF Chain, Nothing
    <2>5. CASE s = Nothing
      <3>1. Given(id) = q
        BY <2>1, <2>5, ConcatEmptySeq DEF Given
      <3> QED BY <2>2, <2>4, <3>1 DEF Chain
    <2>6. CASE s # Nothing
      <3>1. PICK g : g = Given(id)
        OBVIOUS
      <3>2. g = <<s>> \o q
        BY <2>1, <2>6, <3>1 DEF Given
      <3>3. <<s>> \in Seq(Events) /\ Len(<<s>>) = 1 /\ <<s>>[1] = s
        OBVIOUS
      <3>4. /\ Len(g) = 1 + Len(q)
            /\ \A i \in 1..Len(g) : g[i] = IF i <= 1 THEN <<s>>[i] ELSE q[i - 1]
        BY <3>2, <3>3, ConcatProperties
      <3>5. /\ g[1] = s
            /\ \A i \in 1..Len(q) : i + 1 \in 1..Len(g) /\ g[i + 1] = q[i]
        BY <2>3, <3>3, <3>4
      <3>6. \A k \in 1..Len(g) : g[k].from = id
        <4>1. \A k \in 1..Len(g) : k = 1 \/ (k - 1 \in 1..Len(q) /\ g[k] = q[k - 1])
          BY <2>3, <3>4
        <4> QED BY <2>2, <2>6, <3>5, <4>1 DEF Chain
      <3>7. ASSUME NEW k \in 1..Len(g) - 1 PROVE g[k + 1].event = g[k].event + 1
        <4>1. k \in 1..Len(q) /\ g[k + 1] = q[k]
          BY <2>3, <3>4, <3>5
        <4>2. CASE k = 1
          BY <2>2, <2>3, <3>5, <4>1, <4>2 DEF Chain
        <4>3. CASE k # 1
          <5>1. k - 1 \in 1..Len(q) - 1 /\ (k - 1) + 1 = k /\ g[k] = q[k - 1]
            BY <2>3, <3>4, <4>1, <4>3
          <5> QED BY <2>2, <4>1, <5>1 DEF Chain
        <4> QED BY <4>2, <4>3
      <3> QED BY <2>4, <3>1, <3>6, <3>7
    <2> QED BY <2>5, <2>6
  <1> QED BY <1>2, <1>3 DEF OwnStream

\* The spots of the socket, what follows the slot's attach, and that queues and
\* socket keep to their room: with two threads client.rs and server.rs keep all
\* of it at every step.
THEOREM StreamInvariant == TwoThreads /\ Spec => [](Inv /\ Roomy)
  <1>1. TwoThreads /\ Init => Inv /\ Roomy
    BY InvInit
  <1>2. (Inv /\ Roomy) /\ [Next]_vars => (Inv /\ Roomy)'
    BY InvStep
  <1> QED BY <1>1, <1>2, PTL DEF Spec

\* OwnStream: with two threads, an attachment is given its own stream's events
\* from the first on, whatever attaches, detaches, drops and timeouts overtake
\* one another.
THEOREM OwnStreamAlways == TwoThreads /\ Spec => []OwnStream
  <1>1. Inv /\ Roomy => OwnStream
    BY OwnStreamFollows
  <1> QED BY <1>1, StreamInvariant, PTL

(***************************************************************************)
(* Client and host agree.                                                  *)
(***************************************************************************)
\* The last event is on its way after the session's end only.
EndKnown ==
    /\ reader.event = End => ended
    /\ \A p \in 1..Len(frames) : frames[p].kind = "stream" /\ frames[p].event = End => ended
    /\ stream.state = "send" /\ stream.next = End => ended

\* A stream that nobody has asked the host to stop is that of the slot, whose
\* reply may be on its way; or a detach is.  What is asked for is the slot's.
\* It is so until the session has ended, and if no attach times out.
Opening(j) == \E p \in 1..Len(frames) : Opens(frames[p]) /\ frames[p].id = j
Streaming == stream.state \in {"run", "send"} /\ ~stream.stop
DetachComing ==
    \/ \E t \in Threads : call[t].op \in {"dropping", "detach"}
    \/ \E p \in 1..Len(requests) : requests[p].op = "detach"
Owned(j) == slot.id = j /\ (slot.live \/ Opening(j))
Awaited == \A k \in Ids : Asking(k) => slot.id = k /\ ~slot.live /\ held[k] = "none"
Wanted == \A j \in Ids : Streaming /\ stream.id = j => Owned(j) \/ DetachComing
Watched == ~ended /\ ~timeouts => Awaited /\ Wanted

\* What a behaviour never changes, and that the session ends once
LEMMA Lasting ==
    ASSUME [Next]_vars
    PROVE  users' = users /\ timeouts' = timeouts /\ (ended => ended')
  <1>1. ASSUME \/ \E t \in users : \/ AttachRegister(t) \/ Sending(t) \/ AttachRefused(t)
                                   \/ AttachTimeout(t) \/ DetachRemove(t)
                                   \/ \E i \in Ids : DropRemove(t, i)
        PROVE  UNCHANGED <<users, timeouts, ended>>
    BY <1>1 DEF AttachRegister, Sending, AttachRefused, AttachTimeout, GiveUp, DetachRemove,
          DropRemove, setting, host
  <1>2. ASSUME (\E i \in Ids : Take(i)) \/ ReadReply \/ ReadFrame \/ Deliver \/ RemoveSlot
        PROVE  UNCHANGED <<users, timeouts, ended>>
    BY <1>2 DEF Take, ReadReply, ReadFrame, Deliver, RemoveSlot, setting, host
  <1>3. ASSUME HostAttach \/ HostDetach \/ HostDetached \/ HostStreams
        PROVE  UNCHANGED <<users, timeouts, ended>>
    BY <1>3 DEF HostAttach, HostDetach, HostDetached, HostStreams, client, setting
  <1>4. ASSUME SessionEnds PROVE UNCHANGED <<users, timeouts>> /\ ended'
    BY <1>4 DEF SessionEnds, client, setting
  <1>5. ASSUME UNCHANGED vars PROVE UNCHANGED <<users, timeouts, ended>>
    BY <1>5 DEF vars, client, setting, host
  <1> QED BY <1>1, <1>2, <1>3, <1>4, <1>5, SendingIs DEF Next, Sends, Reader, Host

\* Until the host reads it, a detach is on its way.
LEMMA ComingKept ==
    ASSUME Typed, [Next]_vars, ~HostDetach, DetachComing
    PROVE  DetachComing'
  <1>t. users \subseteq Threads
    BY DEF Typed
  <1>1. ASSUME NEW t \in users, Sending(t) PROVE DetachComing'
    <2>1. /\ Len(requests) \in Nat /\ Len(requests') = Len(requests) + 1
          /\ \A p \in 1..Len(requests) : requests'[p] = requests[p]
          /\ requests'[Len(requests) + 1] = Requested(t)
          /\ \A u \in Threads : u # t => call'[u] = call[u]
      BY <1>1, OneSent, <1>t DEF Typed
    <2>2. Len(requests) + 1 \in 1..Len(requests') /\ \A p \in 1..Len(requests) : p \in 1..Len(requests')
      BY <2>1
    <2>3. CASE call[t].op \in {"dropping", "detach"}
      <3>1. Requested(t).op = "detach"
        BY <2>3 DEF Requested
      <3> QED BY <2>1, <2>2, <3>1 DEF DetachComing
    <2>4. CASE call[t].op \notin {"dropping", "detach"}
      BY <2>1, <2>2, <2>4 DEF DetachComing
    <2> QED BY <2>3, <2>4
  <1>2. ASSUME HostAttach PROVE DetachComing'
    <2>1. /\ Len(requests) \in Nat \ {0} /\ Len(requests') = Len(requests) - 1
          /\ \A p \in 1..Len(requests') : requests'[p] = requests[p + 1]
          /\ call' = call /\ requests[1].op # "detach"
      BY <1>2, OneServed DEF HostAttach, client
    <2>2. CASE \E p \in 1..Len(requests) : requests[p].op = "detach"
      <3>1. PICK p \in 1..Len(requests) : requests[p].op = "detach"
        BY <2>2
      <3>2. p # 1
        BY <2>1, <3>1
      <3>3. p - 1 \in 1..Len(requests') /\ (p - 1) + 1 = p
        BY <2>1, <3>2
      <3> QED BY <2>1, <3>1, <3>3 DEF DetachComing
    <2>3. CASE \E t \in Threads : call[t].op \in {"dropping", "detach"}
      BY <2>1, <2>3 DEF DetachComing
    <2> QED BY <2>2, <2>3 DEF DetachComing
  <1>3. ASSUME requests' = requests,
               \A u \in Threads : call[u].op \in {"dropping", "detach"} => call'[u] = call[u]
        PROVE  DetachComing'
    BY <1>3 DEF DetachComing
  <1>4. ASSUME NEW t \in users, NEW op, NEW id, requests' = requests,
               call[t].op \notin {"dropping", "detach"},
               call' = [call EXCEPT ![t] = [op |-> op, id |-> id]]
        PROVE  DetachComing'
    <2>1. \A u \in Threads : u # t => call'[u] = call[u]
      BY <1>4, <1>t, OneCall
    <2> QED BY <1>3, <1>4, <2>1
  <1>5. ASSUME NEW t \in users,
               AttachRegister(t) \/ AttachRefused(t) \/ AttachTimeout(t) \/ DetachRemove(t)
        PROVE  DetachComing'
    <2>1. /\ requests' = requests /\ call[t].op \notin {"dropping", "detach"}
          /\ \E op, id : call' = [call EXCEPT ![t] = [op |-> op, id |-> id]]
      BY <1>5 DEF AttachRegister, AttachRefused, AttachTimeout, GiveUp, DetachRemove, Call
    <2> QED BY <1>4, <2>1
  <1>6. ASSUME NEW t \in users, NEW i \in Ids, DropRemove(t, i) PROVE DetachComing'
    <2>1. /\ requests' = requests /\ call[t].op \notin {"dropping", "detach"}
          /\ call' = call \/ call' = [call EXCEPT ![t] = [op |-> "dropping", id |-> i]]
      BY <1>6 DEF DropRemove, Call
    <2> QED BY <1>3, <1>4, <2>1
  <1>7. ASSUME ReadReply PROVE DetachComing'
    <2>1. requests' = requests
      BY <1>7 DEF ReadReply
    <2>2. \A u \in Threads : call[u].op \in {"dropping", "detach"} => call'[u] = call[u]
      BY <1>7, ReplyReturns
    <2> QED BY <2>1, <2>2, <1>3
  <1>8. ASSUME \/ \E i \in Ids : Take(i)
               \/ ReadFrame \/ Deliver \/ RemoveSlot \/ HostDetached \/ HostStreams \/ SessionEnds
               \/ UNCHANGED vars
        PROVE  DetachComing'
    <2>1. UNCHANGED <<call, requests>>
      BY <1>8 DEF Take, ReadFrame, Deliver, RemoveSlot, HostDetached, HostStreams, SessionEnds, vars, client
    <2> QED BY <2>1, <1>3
  <1> QED BY <1>1, <1>2, <1>5, <1>6, <1>7, <1>8, SendingIs DEF Next, Sends, Reader, Host

\* Until the client reads it, the reply that opens a stream is on its way.
LEMMA OpeningKept ==
    ASSUME Typed, [Next]_vars, NEW j, Opening(j),
           ~(ReadReply /\ Opens(Head(frames)) /\ Head(frames).id = j)
    PROVE  Opening(j)'
  <1>1. PICK p \in 1..Len(frames) : Opens(frames[p]) /\ frames[p].id = j
    BY DEF Opening
  <1>2. CASE frames' = frames
    BY <1>2 DEF Opening
  <1>3. ASSUME Len(frames) \in Nat, Len(frames') = Len(frames) + 1,
               \A i \in 1..Len(frames) : frames'[i] = frames[i]
        PROVE  Opening(j)'
    <2>1. p \in 1..Len(frames') /\ frames'[p] = frames[p]
      BY <1>3
    <2> QED BY <1>1, <2>1 DEF Opening
  <1>4. ASSUME ReadReply \/ ReadFrame PROVE Opening(j)'
    <2>1. /\ Len(frames) \in Nat \ {0} /\ Len(frames') = Len(frames) - 1
          /\ \A i \in 1..Len(frames') : frames'[i] = frames[i + 1]
          /\ Head(frames) = frames[1] /\ (ReadFrame => Head(frames) \in Sent)
      BY <1>4, OneRead
    <2>2. p # 1
      BY <1>1, <1>4, <2>1 DEF Sent, Opens
    <2>3. p - 1 \in 1..Len(frames') /\ (p - 1) + 1 = p
      BY <2>1, <2>2
    <2> QED BY <1>1, <2>1, <2>3 DEF Opening
  <1>5. ASSUME HostStreams PROVE Opening(j)'
    <2>1. CASE stream.state = "send"
      BY <1>3, <1>5, <2>1, OneStreamed
    <2>2. CASE stream.state # "send"
      BY <1>2, <1>5, <2>2 DEF HostStreams
    <2> QED BY <2>1, <2>2
  <1>6. ASSUME HostAttach PROVE Opening(j)'
    BY <1>3, <1>6, OneAnswered
  <1>7. ASSUME HostDetached PROVE Opening(j)'
    BY <1>3, <1>7, OneDetached
  <1>8. ASSUME \/ \E t \in users : \/ AttachRegister(t) \/ Sending(t) \/ AttachRefused(t)
                                   \/ AttachTimeout(t) \/ DetachRemove(t)
                                   \/ \E i \in Ids : DropRemove(t, i)
               \/ \E i \in Ids : Take(i)
               \/ Deliver \/ RemoveSlot \/ HostDetach \/ SessionEnds \/ UNCHANGED vars
        PROVE  frames' = frames
    BY <1>8 DEF AttachRegister, Sending, AttachRefused, AttachTimeout, GiveUp, DetachRemove,
          DropRemove, Take, Deliver, RemoveSlot, HostDetach, SessionEnds, vars, client
  <1> QED BY <1>2, <1>4, <1>5, <1>6, <1>7, <1>8, SendingIs DEF Next, Sends, Reader, Host

\* The host sends the end only after it, and the reader has it from there.
LEMMA EndKnownStep ==
    ASSUME Typed, EndKnown, [Next]_vars
    PROVE  EndKnown'
  <1> DEFINE HandOK == reader.event = End => ended
             SentOK == \A p \in 1..Len(frames) :
                          frames[p].kind = "stream" /\ frames[p].event = End => ended
             NextOK == stream.state = "send" /\ stream.next = End => ended
  <1>e. ended => ended'
    BY Lasting
  <1>h. ASSUME HandOK', SentOK', NextOK' PROVE EndKnown'
    BY <1>h DEF EndKnown
  <1>1. ASSUME reader' = reader PROVE HandOK'
    BY <1>1, <1>e DEF EndKnown
  <1>2. ASSUME frames' = frames PROVE SentOK'
    BY <1>2, <1>e DEF EndKnown
  <1>3. ASSUME stream' = stream PROVE NextOK'
    BY <1>3, <1>e DEF EndKnown
  <1>4. ASSUME Len(frames) \in Nat, Len(frames') = Len(frames) + 1,
               \A i \in 1..Len(frames) : frames'[i] = frames[i],
               frames'[Len(frames) + 1].kind = "reply"
        PROVE  SentOK'
    <2>1. \A p \in 1..Len(frames') : p \in 1..Len(frames) \/ p = Len(frames) + 1
      BY <1>4
    <2> QED BY <1>4, <1>e, <2>1 DEF EndKnown
  <1>5. ASSUME ReadReply \/ ReadFrame PROVE SentOK'
    <2>1. /\ Len(frames) \in Nat \ {0} /\ Len(frames') = Len(frames) - 1
          /\ \A i \in 1..Len(frames') : frames'[i] = frames[i + 1]
      BY <1>5, OneRead
    <2>2. \A i \in 1..Len(frames') : i + 1 \in 1..Len(frames) /\ frames'[i] = frames[i + 1]
      BY <2>1
    <2> QED BY <2>2, <1>e DEF EndKnown
  <1>6. ASSUME ReadReply PROVE EndKnown'
    BY <1>1, <1>3, <1>5, <1>6, <1>h DEF ReadReply, host
  <1>7. ASSUME ReadFrame PROVE EndKnown'
    <2>1. Head(frames) = frames[1] /\ 1 \in 1..Len(frames) /\ Head(frames) \in Sent
      BY <1>7, OneRead
    <2>2. Head(frames).event = End => ended
      BY <2>1 DEF EndKnown, Sent
    <2>3. reader'.event = End => Head(frames).event = End
      BY <1>7, Numbers DEF ReadFrame, After, Removing, Free
    <2>4. HandOK'
      BY <2>2, <2>3, <1>e
    <2> QED BY <1>3, <1>5, <1>7, <1>h, <2>4 DEF ReadFrame, host
  <1>8. ASSUME Deliver PROVE EndKnown'
    <2>1. reader'.event = End => reader.event = End
      BY <1>8, Numbers DEF Deliver, After, Removing, Free
    <2>2. HandOK'
      BY <2>1, <1>e DEF EndKnown
    <2> QED BY <1>2, <1>3, <1>8, <1>h, <2>2 DEF Deliver, host
  <1>9. ASSUME RemoveSlot PROVE EndKnown'
    <2>1. HandOK'
      BY <1>9, Numbers DEF RemoveSlot, Free
    <2> QED BY <1>2, <1>3, <1>9, <1>h, <2>1 DEF RemoveSlot, host
  <1>10. ASSUME HostAttach PROVE EndKnown'
    <2>1. NextOK'
      BY <1>3, <1>10, OneAnswered DEF Opened
    <2>2. SentOK' /\ HandOK'
      BY <1>1, <1>4, <1>10, OneAnswered DEF client
    <2> QED BY <1>h, <2>1, <2>2
  <1>11. ASSUME HostDetach PROVE EndKnown'
    <2>1. NextOK'
      <3>1. stream'.state = stream.state /\ stream'.next = stream.next
        BY <1>11 DEF HostDetach, Typed
      <3> QED BY <3>1, <1>e DEF EndKnown
    <2> QED BY <1>1, <1>2, <1>11, <1>h, <2>1 DEF HostDetach, client
  <1>12. ASSUME HostDetached PROVE EndKnown'
    <2>1. NextOK'
      BY <1>12 DEF HostDetached, NoStream
    <2>2. SentOK' /\ HandOK'
      BY <1>1, <1>4, <1>12, OneDetached DEF HostDetached, client
    <2> QED BY <1>h, <2>1, <2>2
  <1>13. ASSUME HostStreams PROVE EndKnown'
    <2>1. CASE stream.state = "send"
      <3>1. /\ Len(frames) \in Nat /\ Len(frames') = Len(frames) + 1
            /\ \A i \in 1..Len(frames) : frames'[i] = frames[i]
            /\ frames'[Len(frames) + 1].event = stream.next
            /\ stream'.state # "send"
        BY <1>13, <2>1, OneStreamed
      <3>2. \A p \in 1..Len(frames') : p \in 1..Len(frames) \/ p = Len(frames) + 1
        BY <3>1
      <3>3. SentOK'
        BY <2>1, <3>1, <3>2, <1>e DEF EndKnown
      <3> QED BY <1>1, <1>13, <1>h, <3>1, <3>3 DEF HostStreams, client
    <2>2. CASE stream.state # "send"
      <3>1. frames' = frames /\ reader' = reader /\ ended' = ended
        BY <1>13, <2>2 DEF HostStreams, client
      <3>2. NextOK'
        <4>1. stream'.state = "send" => stream'.next = stream.next /\ (stream.next <= Total \/ ended)
          BY <1>13, <2>2 DEF HostStreams, Typed
        <4>2. stream.next <= Total => stream.next # End
          <5>1. Total \in Nat /\ End = Total + 1
            BY Numbers DEF End
          <5> QED BY <5>1
        <4> QED BY <3>1, <4>1, <4>2
      <3> QED BY <1>1, <1>2, <1>h, <3>1, <3>2
    <2> QED BY <2>1, <2>2
  <1>14. ASSUME UNCHANGED <<reader, frames, stream>> PROVE EndKnown'
    BY <1>1, <1>2, <1>3, <1>14, <1>h
  <1>15. ASSUME \/ \E t \in users : \/ AttachRegister(t) \/ Sending(t) \/ AttachRefused(t)
                                    \/ AttachTimeout(t) \/ DetachRemove(t)
                                    \/ \E i \in Ids : DropRemove(t, i)
                \/ \E i \in Ids : Take(i)
                \/ SessionEnds \/ UNCHANGED vars
        PROVE  UNCHANGED <<reader, frames, stream>>
    BY <1>15 DEF AttachRegister, Sending, AttachRefused, AttachTimeout, GiveUp, DetachRemove,
          DropRemove, Take, SessionEnds, vars, client, host
  <1>16. ASSUME \/ \E t \in users : \/ AttachRegister(t) \/ Sending(t) \/ AttachRefused(t)
                                    \/ AttachTimeout(t) \/ DetachRemove(t)
                                    \/ \E i \in Ids : DropRemove(t, i)
                \/ \E i \in Ids : Take(i)
                \/ SessionEnds \/ UNCHANGED vars
         PROVE  EndKnown'
    BY <1>14, <1>15, <1>16
  <1> QED BY <1>6, <1>7, <1>8, <1>9, <1>10, <1>11, <1>12, <1>13, <1>16, SendingIs
      DEF Next, Sends, Reader, Host
\* No step leaves a stream to nobody while no detach is on its way.
LEMMA WatchedStep ==
    ASSUME Inv, EndKnown, Watched, [Next]_vars
    PROVE  Watched'
  <1> SUFFICES ASSUME ~ended', ~timeouts' PROVE Awaited' /\ Wanted'
    BY DEF Watched
  <1>0. ~ended /\ ~timeouts /\ Awaited /\ Wanted /\ Typed
    BY Lasting DEF Watched, Inv
  <1>k. ASSUME ~HostAttach, \A t \in users : ~AttachRegister(t), NEW k \in Ids, Asking(k)'
        PROVE  Asking(k)
    BY <1>0, <1>k, AskingKept
  \* What another step does to the attach that is waited for, and to the owner
  <1>a. ASSUME ~HostAttach, \A t \in users : ~AttachRegister(t),
               \A k \in Ids : Asking(k) => slot' = slot /\ held'[k] = held[k]
        PROVE  Awaited'
    BY <1>0, <1>a, <1>k DEF Awaited
  <1>w. ASSUME ~HostDetach, Streaming' => Streaming /\ stream'.id = stream.id,
               \A j \in Ids : stream.id = j /\ Streaming /\ Owned(j) => Owned(j)' \/ DetachComing'
        PROVE  Wanted'
    BY <1>0, <1>w, ComingKept DEF Wanted
  <1>o. ASSUME ~ReadReply, slot' = slot, NEW j \in Ids, Owned(j) PROVE Owned(j)'
    BY <1>0, <1>o, OpeningKept DEF Owned
  <1>u. ASSUME stream' = stream PROVE Streaming' => Streaming /\ stream'.id = stream.id
    BY <1>u DEF Streaming
  <1>s. /\ HostAttach \/ HostDetach => Len(requests') # Len(requests)
        /\ (\E t \in users : AttachRegister(t)) => asked' # asked
        /\ ReadReply => Len(frames') # Len(frames)
    BY <1>0, OneServed, OneRead, AskingRegistered DEF Inv, Typed
  <1>1. ASSUME NEW t \in users, AttachRegister(t) PROVE Awaited' /\ Wanted'
    <2>1. /\ asked' = asked + 1 /\ asked' \in Ids /\ asked \in Nat
          /\ \A k \in Ids : Asking(k)' <=> Asking(k) \/ k = asked'
      BY <1>1, AskingRegistered DEF Inv, Typed
    <2>2. slot = NoSlot /\ slot' = [id |-> asked', live |-> FALSE] /\ UNCHANGED <<held, stream>>
      BY <1>1 DEF AttachRegister, host
    <2>3. held[asked'] = "none"
      BY <2>1 DEF Inv, Numbered
    <2>4. \A k \in Ids : ~Asking(k)
      BY <1>0, <2>2, Numbers DEF Awaited, NoSlot
    <2>5. Awaited'
      BY <2>1, <2>2, <2>3, <2>4 DEF Awaited
    <2>6. \A j \in Ids : ~Owned(j)
      BY <2>2, Numbers DEF Owned, NoSlot
    <2>7. ~HostDetach
      BY <1>1 DEF AttachRegister, HostDetach, client
    <2>8. Wanted'
      BY <1>u, <1>w, <2>2, <2>6, <2>7
    <2> QED BY <2>5, <2>8
  <1>2. ASSUME ~HostAttach, ~HostDetach, \A t \in users : ~AttachRegister(t), ~ReadReply,
               UNCHANGED <<slot, held, stream>>
        PROVE  Awaited' /\ Wanted'
    BY <1>2, <1>a, <1>w, <1>o, <1>u
  <1>3. ASSUME NEW t \in users, AttachRefused(t) PROVE Awaited' /\ Wanted'
    <2> DEFINE i == call[t].id
    <2>1. Denied(i) /\ i \in Ids
      BY <1>0, <1>3 DEF AttachRefused, Denied, Typed
    <2>2. ~Asking(i) /\ stream.id # i
      BY <2>1 DEF Inv, Settled
    <2>3. /\ slot.id # i => slot' = slot
          /\ held' = [held EXCEPT ![i] = "refused"]
          /\ stream' = stream
      BY <1>3 DEF AttachRefused, GiveUp, host
    <2>4. ~HostAttach /\ ~HostDetach /\ (\A u \in users : ~AttachRegister(u)) /\ ~ReadReply
      BY <1>3, <1>s DEF AttachRefused, GiveUp
    <2> HIDE DEF i
    <2>5. \A k \in Ids : Asking(k) => slot' = slot /\ held'[k] = held[k]
      BY <1>0, <2>2, <2>3 DEF Awaited, Typed
    <2>6. \A j \in Ids : stream.id = j /\ Owned(j) => slot' = slot
      BY <2>2, <2>3 DEF Owned
    <2> QED BY <1>a, <1>w, <1>o, <1>u, <2>3, <2>4, <2>5, <2>6
  <1>4. ASSUME NEW t \in users, NEW i \in Ids, DropRemove(t, i) PROVE Awaited' /\ Wanted'
    <2>1. /\ held[i] = "open" /\ held' = [held EXCEPT ![i] = "dropped"]
          /\ slot.id # i => slot' = slot
          /\ slot.id = i => call' = [call EXCEPT ![t] = [op |-> "dropping", id |-> i]]
          /\ stream' = stream
      BY <1>4 DEF DropRemove, Call, host
    <2>2. ~HostAttach /\ ~HostDetach /\ (\A u \in users : ~AttachRegister(u)) /\ ~ReadReply
      BY <1>4, <1>s DEF DropRemove
    <2>3. \A k \in Ids : Asking(k) => slot' = slot /\ held'[k] = held[k]
      BY <1>0, <2>1 DEF Awaited, Typed
    <2>4. slot.id = i => DetachComing'
      BY <1>0, <2>1 DEF DetachComing, Typed
    <2> QED BY <1>a, <1>w, <1>o, <1>u, <2>1, <2>2, <2>3, <2>4
  <1>5. ASSUME NEW t \in users, DetachRemove(t) PROVE Awaited' /\ Wanted'
    <2>1. /\ slot # NoSlot /\ held[slot.id] = "open"
          /\ call' = [call EXCEPT ![t] = [op |-> "detach", id |-> slot.id]]
          /\ UNCHANGED <<requests, frames, asked, stream>>
      BY <1>5 DEF DetachRemove, Call, host
    <2>2. ~HostAttach /\ ~HostDetach /\ (\A u \in users : ~AttachRegister(u)) /\ ~ReadReply
      BY <2>1, <1>s
    <2>3. \A k \in Ids : ~Asking(k)
      BY <1>0, <2>1 DEF Awaited
    <2>4. DetachComing'
      BY <1>0, <2>1 DEF DetachComing, Typed
    <2> QED BY <1>a, <1>w, <1>u, <2>1, <2>2, <2>3, <2>4
  <1>6. ASSUME ReadReply PROVE Awaited' /\ Wanted'
    <2> DEFINE r == Head(frames)
    <2>1. r.id \in Ids /\ stream' = stream
      BY <1>0, <1>6, OneRead DEF ReadReply, host
    <2>2. ~HostAttach /\ ~HostDetach /\ (\A u \in users : ~AttachRegister(u))
      BY <1>6, <1>s DEF ReadReply
    <2>3. /\ ~Opens(r) => slot' = slot /\ held' = held
          /\ held' = held \/ held' = [held EXCEPT ![r.id] = "open"]
          /\ slot.id # r.id => slot' = slot
          /\ Opens(r) /\ slot.id = r.id => slot' = [slot EXCEPT !.live = TRUE]
      BY <1>6 DEF ReadReply, Returns, Opens
    <2>4. Opens(r) => ~slot.live /\ ~Asking(r.id)
      BY <1>6, HeadOpens
    <2>5. \A j \in Ids : Opening(j) => Opening(j)' \/ (Opens(r) /\ r.id = j)
      BY <1>0, <1>6, OpeningKept
    <2> HIDE DEF r
    <2>6. \A k \in Ids : Asking(k) => slot' = slot /\ held'[k] = held[k]
      BY <1>0, <2>1, <2>3, <2>4 DEF Awaited, Typed
    <2>7. \A j \in Ids : Owned(j) => Owned(j)'
      <3> SUFFICES ASSUME NEW j \in Ids, Owned(j) PROVE Owned(j)'
        OBVIOUS
      <3>1. slot.id = j /\ (slot.live \/ Opening(j)) /\ slot \in [id: Ids \cup {NoId}, live: BOOLEAN]
        BY <1>0 DEF Owned, Typed
      <3>2. CASE Opens(r) /\ r.id = j
        <4>1. slot' = [slot EXCEPT !.live = TRUE]
          BY <2>3, <3>1, <3>2
        <4>2. slot'.id = j /\ slot'.live
          BY <3>1, <4>1
        <4> QED BY <4>2 DEF Owned
      <3>3. CASE ~(Opens(r) /\ r.id = j)
        <4>1. slot' = slot
          BY <2>3, <3>1, <3>3
        <4> QED BY <2>5, <3>1, <3>3, <4>1 DEF Owned
      <3> QED BY <3>2, <3>3
    <2> QED BY <1>a, <1>w, <1>u, <2>1, <2>2, <2>6, <2>7
  <1>7. ~RemoveSlot
    BY <1>0 DEF EndKnown, RemoveSlot, Removing, Free
  <1>8. ASSUME HostAttach PROVE Awaited' /\ Wanted'
    <2> PICK k : k = Head(requests).id
      OBVIOUS
    <2>1. /\ k \in Ids /\ Asking(k) /\ \A i \in Ids : Asking(i)' => Asking(i)
      BY <1>8, AskingServed DEF Inv
    <2>2. /\ Len(frames) \in Nat /\ Len(frames') = Len(frames) + 1
          /\ frames'[Len(frames) + 1].kind = "reply" /\ frames'[Len(frames) + 1].op = "attach"
          /\ frames'[Len(frames) + 1].id = k
          /\ \/ frames'[Len(frames) + 1].ok /\ stream' = Opened(k)
             \/ stream' = stream
          /\ UNCHANGED <<slot, held>>
      BY <1>0, <1>8, OneAnswered DEF client
    <2>3. Awaited'
      BY <1>0, <2>1, <2>2 DEF Awaited
    <2>4. CASE frames'[Len(frames) + 1].ok /\ stream' = Opened(k)
      <3>1. Len(frames) + 1 \in 1..Len(frames')
        BY <2>2
      <3>2. Opening(k)'
        BY <2>2, <2>4, <3>1 DEF Opening, Opens
      <3>3. Owned(k)'
        BY <1>0, <2>1, <2>2, <3>2 DEF Owned, Awaited
      <3> QED BY <2>3, <2>4, <3>3 DEF Wanted, Opened
    <2>5. CASE stream' = stream
      <3>1. ~HostDetach /\ ~ReadReply
        BY <1>8, <2>2 DEF HostAttach, HostDetach, ReadReply, host, client
      <3> QED BY <1>o, <1>u, <1>w, <2>2, <2>3, <2>5, <3>1
    <2> QED BY <2>2, <2>4, <2>5
  <1>9. ASSUME HostDetach PROVE Awaited' /\ Wanted'
    <2>1. ~Streaming'
      BY <1>0, <1>9 DEF HostDetach, Streaming, Typed
    <2>2. ~HostAttach /\ (\A u \in users : ~AttachRegister(u)) /\ UNCHANGED <<slot, held>>
      BY <1>9, <1>s DEF HostDetach, HostAttach, client
    <2> QED BY <1>a, <2>1, <2>2 DEF Wanted
  <1>10. ASSUME HostDetached PROVE Awaited' /\ Wanted'
    <2>1. ~Streaming'
      BY <1>10 DEF HostDetached, Streaming, NoStream
    <2>2. ~HostAttach /\ (\A u \in users : ~AttachRegister(u)) /\ UNCHANGED <<slot, held>>
      BY <1>10, <1>s DEF HostDetached, client
    <2> QED BY <1>a, <2>1, <2>2 DEF Wanted
  <1>11. ASSUME HostStreams PROVE Awaited' /\ Wanted'
    <2>1. Streaming' => Streaming /\ stream'.id = stream.id
      BY <1>0, <1>11 DEF HostStreams, Streaming, Typed
    <2>2. ~HostDetach /\ ~ReadReply /\ ~HostAttach /\ (\A u \in users : ~AttachRegister(u))
          /\ UNCHANGED <<slot, held>>
      <3>1. UNCHANGED <<requests, client>>
        BY <1>11 DEF HostStreams
      <3>2. ~HostDetach /\ ~HostAttach /\ (\A u \in users : ~AttachRegister(u))
        BY <1>s, <3>1 DEF client
      <3>3. ReadReply => Len(frames') = Len(frames) - 1 /\ stream' = stream /\ Len(frames) \in Nat
        BY <1>0, OneRead DEF ReadReply, host
      <3>4. stream' = stream => Len(frames') >= Len(frames)
        <4>1. CASE stream.state = "send"
          BY <1>0, <1>11, <4>1, OneStreamed
        <4>2. CASE stream.state # "send"
          <5>1. frames' = frames /\ Len(frames) \in Nat
            BY <1>0, <1>11, <4>2 DEF HostStreams, Typed
          <5> QED BY <5>1
        <4> QED BY <4>1, <4>2
      <3> QED BY <3>1, <3>2, <3>3, <3>4 DEF client
    <2> QED BY <1>a, <1>o, <1>w, <2>1, <2>2
  <1>12. ASSUME \/ \E t \in users : Sending(t)
                \/ \E i \in Ids : Take(i)
                \/ ReadFrame \/ Deliver \/ UNCHANGED vars
         PROVE  Awaited' /\ Wanted'
    <2>1. UNCHANGED <<slot, held, stream, asked, serving>>
      BY <1>12 DEF Sending, Take, ReadFrame, Deliver, vars, client, host
    <2>2. requests' = requests \/ \E t \in users : Sending(t)
      BY <1>12 DEF Take, ReadFrame, Deliver, vars
    <2>3. ~HostAttach /\ ~HostDetach
      <3>1. HostAttach \/ HostDetach => Len(requests') = Len(requests) - 1 /\ Len(requests) \in Nat
        BY <1>0, OneServed
      <3>2. (\E t \in users : Sending(t)) => Len(requests') = Len(requests) + 1
        BY <1>0, OneSent
      <3> QED BY <2>2, <3>1, <3>2
    <2>4. \A t \in users : ~AttachRegister(t)
      BY <2>1, <1>s
    <2>5. ~ReadReply
      <3>1. ReadReply => Len(frames') = Len(frames) - 1 /\ Len(frames) \in Nat /\ Head(frames) \in Reply
        BY <1>0, OneRead
      <3>2. ReadFrame => Head(frames) \in Sent
        BY <1>0, OneRead
      <3>3. ReadFrame \/ frames' = frames
        BY <1>12 DEF Sending, Take, Deliver, vars
      <3> QED BY <3>1, <3>2, <3>3 DEF Reply, Sent
    <2> QED BY <1>2, <2>1, <2>3, <2>4, <2>5
  <1>13. ~SessionEnds /\ \A t \in users : ~AttachTimeout(t)
    BY <1>0 DEF SessionEnds, AttachTimeout
  <1> QED BY <1>1, <1>3, <1>4, <1>5, <1>6, <1>7, <1>8, <1>9, <1>10, <1>11, <1>12, <1>13, SendingIs
      DEF Next, Sends, Reader, Host
\* Nothing is asked for and nothing is streamed at first.
LEMMA WatchedInit ==
    ASSUME Init
    PROVE  EndKnown /\ Watched
  <1>1. /\ reader = Free /\ requests = <<>> /\ frames = <<>> /\ stream = NoStream
        /\ \A t \in Threads : call[t] = NoCall
    BY DEF Init
  <1>2. Len(requests) = 0 /\ Len(frames) = 0
    BY <1>1
  <1>3. \A k \in Ids : ~Asking(k)
    BY <1>1, <1>2 DEF Asking, Attaches, NoCall
  <1>4. EndKnown
    BY <1>1, <1>2, Numbers DEF EndKnown, Free, NoStream
  <1>5. ~Streaming
    BY <1>1 DEF Streaming, NoStream
  <1> QED BY <1>3, <1>4, <1>5 DEF Watched, Awaited, Wanted

\* Who is the only one that calls the client is alone.
LEMMA OnlyOne ==
    ASSUME TwoThreads, users \subseteq Threads, Cardinality(users) = 1
    PROVE  Alone
  <1>1. users # {}
    BY FS_EmptySet
  <1>2. PICK t \in users : TRUE
    BY <1>1
  <1>3. ASSUME NEW u \in users, u # t PROVE FALSE
    <2>1. users = {t} \cup {u}
      BY <1>2, <1>3 DEF TwoThreads
    <2>2. IsFiniteSet({t}) /\ Cardinality({t}) = 1
      BY FS_Singleton
    <2>3. Cardinality({t} \cup {u}) = Cardinality({t}) + 1
      BY <1>3, <2>2, FS_AddElement
    <2> QED BY <2>1, <2>2, <2>3
  <1> QED BY <1>2, <1>3 DEF Alone

\* When nothing is under way the socket has one spot: the host's stream is at
\* it and the live slot's attachment is.
LEMMA BothAgreeFollows ==
    ASSUME Inv, Watched
    PROVE  BothAgree
  <1> USE DEF Inv
  <1>1. ASSUME Quiet, ~timeouts, stream.state = "run"
        PROVE  slot = [id |-> stream.id, live |-> TRUE]
    <2>1. /\ ~ended /\ ~stream.stop /\ requests = <<>> /\ frames = <<>>
          /\ \A t \in Threads : call[t].op = "idle"
      BY <1>1 DEF Quiet
    <2>2. Len(requests) = 0 /\ Len(frames) = 0
      BY <2>1
    <2>3. stream.id \in Ids
      BY <1>1 DEF Typed
    <2>4. Owned(stream.id) \/ DetachComing
      BY <1>1, <2>1, <2>3 DEF Watched, Wanted, Streaming
    <2>5. ~DetachComing /\ ~Opening(stream.id)
      BY <2>1, <2>2 DEF DetachComing, Opening
    <2>6. slot.id = stream.id /\ slot.live
      BY <2>4, <2>5 DEF Owned
    <2> QED BY <2>6 DEF Typed
  <1>2. ASSUME Quiet, Cardinality(users) = 1, slot.live
        PROVE  stream.id = slot.id /\ stream.state = "run"
    <2>1. /\ frames = <<>> /\ reader = Free
          /\ stream.state \in {"run", "none", "done"}
      BY <1>2 DEF Quiet
    <2>2. Len(frames) = 0 /\ 0 + 1 = 1
      BY <2>1
    <2>3. PICK nx \in [1..Len(frames) + 1 -> Spots] : Flows(nx) /\ Writes(nx) /\ Reads(nx)
      BY DEF Line
    <2>4. nx[1] = [id |-> slot.id, event |-> LastOf(slot.id) + 1] /\ slot.id # NoId
      BY <1>2, <2>3 DEF Reads, Typed
    <2>5. Loose
      BY <1>2, OnlyOne DEF Typed, Loose
    <2>6. ~stream.stop /\ stream.state # "none"
      BY <2>2, <2>3, <2>4, <2>5 DEF Writes
    <2>7. nx[1] = [id |-> stream.id, event |-> stream.next]
      BY <2>2, <2>3, <2>6 DEF Writes
    <2>8. stream.id = slot.id /\ stream.next = LastOf(slot.id) + 1
      BY <2>4, <2>7
    <2>9. ASSUME stream.state = "done" PROVE FALSE
      <3>1. LastOf(slot.id) + 1 = End + 1
        BY <2>6, <2>8, <2>9 DEF Stopped
      <3>2. LastOf(slot.id) \in Int
        <4>1. slot.id \in Ids
          BY <2>4 DEF Typed
        <4>2. seen[slot.id] \in Events /\ queue[slot.id] \in Seq(Events)
          BY <4>1 DEF Typed
        <4>3. \A e \in Events : e.event \in Int
          BY DEF Events
        <4>4. queue[slot.id] # <<>> => queue[slot.id][Len(queue[slot.id])] \in Events
          BY <4>2, EmptySeq
        <4> QED BY <2>1, <4>1, <4>2, <4>3, <4>4, Numbers DEF LastOf, Got, GotOf, Free
      <3>3. LastOf(slot.id) = End
        BY <3>1, <3>2, Numbers
      <3>4. reader.event = End
        BY <1>2, <3>3 DEF Slotted
      <3> QED BY <2>1, <3>4, Numbers DEF Free
    <2> QED BY <2>1, <2>6, <2>8, <2>9
  <1> QED BY <1>1, <1>2 DEF BothAgree, NobodyStreamed, NobodyWaits

\* BothAgree: whenever nothing is under way between client and host, a stream
\* that waits for news is that of the client's live slot (if no attach timed
\* out), and a live slot has its stream (if one thread makes the calls).
THEOREM BothAgreeAlways == TwoThreads /\ Spec => []BothAgree
  <1>1. TwoThreads /\ Init => (Inv /\ Roomy) /\ EndKnown /\ Watched
    BY InvInit, WatchedInit
  <1>2. ((Inv /\ Roomy) /\ EndKnown /\ Watched) /\ [Next]_vars
            => ((Inv /\ Roomy) /\ EndKnown /\ Watched)'
    <2> SUFFICES ASSUME Inv, Roomy, EndKnown, Watched, [Next]_vars
                 PROVE  ((Inv /\ Roomy) /\ EndKnown /\ Watched)'
      OBVIOUS
    <2>1. Typed
      BY DEF Inv
    <2>2. Inv' /\ Roomy'
      BY InvStep
    <2>3. EndKnown' /\ Watched'
      BY <2>1, EndKnownStep, WatchedStep
    <2> QED BY <2>2, <2>3
  <1>3. (Inv /\ Roomy) /\ EndKnown /\ Watched => BothAgree
    BY BothAgreeFollows
  <1> QED BY <1>1, <1>2, <1>3, PTL DEF Spec

=============================================================================
