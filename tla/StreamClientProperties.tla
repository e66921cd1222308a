------------------------- MODULE StreamClientProperties -------------------------
(***************************************************************************)
(* What must hold of a client's attachments.                               *)
(***************************************************************************)
EXTENDS StreamClient, FiniteSets

Events == [event: 0..End, from: Ids \cup {NoId}]
Request == [op: {"attach", "detach"}, id: Ids, by: Threads \cup {NoThread}]

\* Type correctness; the socket never holds more than its room.
TypeOK ==
    /\ users \subseteq Threads /\ timeouts \in BOOLEAN
    /\ call \in [Threads -> [op: {"idle", "attach", "attaching", "refused", "dropping",
                                  "detach", "detaching"}, id: Ids \cup {NoId}]]
    /\ asked \in 0..MaxAttaches
    /\ slot \in [id: Ids \cup {NoId}, live: BOOLEAN]
    /\ cancelled \in [Ids -> BOOLEAN]
    /\ held \in [Ids -> {"none", "open", "dropped", "refused"}]
    /\ seen \in [Ids -> Events]
    /\ \A i \in Ids : Len(queue[i]) <= QueueRoom /\ \A k \in 1..Len(queue[i]) : queue[i][k] \in Events
    /\ reader \in [to: Ids \cup {NoId}, event: 0..End, from: Ids \cup {NoId}]
    /\ \A k \in 1..Len(requests) : requests[k] \in Request
    /\ Len(frames) <= SocketRoom
    /\ stream \in [id: Ids \cup {NoId}, state: {"none", "run", "send", "left", "done"},
                   next: 1..End + 1, stop: BOOLEAN]
    /\ ended \in BOOLEAN

\* What an attachment has been given: its own stream's events from the first
\* on, none missing, none twice, and none of a stream that another attach to
\* the session opened before or after it.  So it is with two threads; with
\* three, a late detach (which names the session) may end the stream of one
\* attach while another, whose slot an older end has removed, is answered, and
\* a third one's slot then takes its frames.
Given(id) == (IF seen[id] = Nothing THEN <<>> ELSE <<seen[id]>>) \o queue[id]
OwnStream ==
    /\ TypeOK
    /\ \A id \in Ids : LET given == Given(id) IN
        /\ \A k \in 1..Len(given) : given[k].from = id
        /\ \A k \in 1..Len(given) - 1 : given[k + 1].event = given[k].event + 1
        /\ seen[id] = Nothing /\ queue[id] # <<>> => queue[id][1].event = 1

\* Nothing is under way between client and host, and the stream has sent what
\* there is.
Quiet ==
    /\ \A t \in Threads : call[t].op = "idle"
    /\ requests = <<>> /\ frames = <<>> /\ reader = Free /\ serving = NotBusy
    /\ \/ stream.state = "run" /\ ~stream.stop /\ stream.next > Total /\ ~ended
       \/ stream.state \in {"none", "done"}

\* The host never streams to nobody: a stream that waits for news is that of
\* the client's slot.  Otherwise the next attach to the session would be
\* refused as a second one, for as long as the connection lasts.  It may after
\* an attach that timed out, which the host still serves.
NobodyStreamed == Quiet /\ ~timeouts /\ stream.state = "run" => slot = [id |-> stream.id, live |-> TRUE]

\* An attachment never waits for a stream that is not there: if its slot is
\* live, the host has its stream.  With two threads it may: a detach names the
\* session and not the stream, and one sent late stops the stream that another
\* thread has opened since.
NobodyWaits == Quiet /\ Cardinality(users) = 1 /\ slot.live => stream.id = slot.id /\ stream.state = "run"

\* Host and client agree on who is streamed to, through attaches, detaches,
\* drops and the frames that were on their way meanwhile.
BothAgree == NobodyStreamed /\ NobodyWaits

\* An attachment's events end after the exit, after a detach, or when the
\* connection is lost (Attachment), and no connection is lost here.
EndsAfterExit ==
    \A id \in Ids :
        held[id] = "open" /\ queue[id] = <<>> /\ slot.id # id /\ reader.to # id
            => seen[id].event = End \/ cancelled[id]

\* A detach is answered though its stream's consumer takes nothing: a reader
\* that waits on the full queue lets go.  (Another attachment that nobody reads
\* does hold up everything on its connection.)
Detaching(t) == users = {t} /\ call[t].op = "detaching"
DetachReturns == (\E t \in Threads : Detaching(t)) ~> \A t \in Threads : ~Detaching(t)
=============================================================================
