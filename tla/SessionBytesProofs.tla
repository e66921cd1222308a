--------------------------- MODULE SessionBytesProofs ---------------------------
(***************************************************************************)
(* Proofs of what goes into a session and of what is known of it.          *)
(*                                                                         *)
(* A paste and its Enter stay together on their way into a session, for    *)
(* any number of senders, a queue and a PTY of any size, and a program     *)
(* that reads or not.  A chunk changes hands three times, and may be lost  *)
(* when the terminal closes.  What is said of everything that went in, in  *)
(* its order (Wire), therefore speaks of the order alone: it is true of a  *)
(* wire that has lost a chunk if it was true before.                       *)
(*                                                                         *)
(* A reading with the window closed adds up, and a state is orphaned by    *)
(* its own connection, for any number of connections, reports, turns and   *)
(* states.  A publication counts the turns and is stamped in two steps,    *)
(* the reports held back in between: so the turns it counted ended no      *)
(* later than its stamp, and those that follow no earlier.  That splits    *)
(* the turns for good (Splits), whenever the reader takes what.            *)
(***************************************************************************)
EXTENDS SessionInputProperties, SessionStateProperties, FiniteSetTheorems, SequenceTheorems, TLAPS

(***************************************************************************)
(* What goes in: SessionInput.                                             *)
(***************************************************************************)
Parts == {"raw", "keys", "paste", "typed", "enter"}
Chunks == [by: Senders, part: Parts] \cup {Chunk("reader", "answer")}
Underway == {"clones", "sends", "pauses"}

InputTypeOK ==
    /\ queue \in Seq(Chunks) /\ tty \in Seq(Chunks) /\ got \in Seq(Chunks)
    /\ writer \in [at: {"recv", "writes", "drains", "gone"}, chunk: Seq(Chunks)]
    /\ writer.at = "writes" => \E c \in Chunks : writer.chunk = <<c>>
    /\ writer.at # "writes" => writer.chunk = <<>>
    /\ sender \in [Senders -> [at: {"idle", "waits", "done"} \cup Underway,
                               part: {"none", "raw", "keys", "paste", "typed", "enter"}]]
    /\ \A s \in Senders :
          /\ sender[s].at \in Underway <=> sender[s].part # "none"
          /\ sender[s].at = "pauses" => sender[s].part = "enter"

\* Who is under way with more than raw input has the lock, alone.
SendLocked ==
    \A s \in Senders : sender[s].part \notin {"none", "raw"} => sending = {s}

(***************************************************************************)
(* The wire: a text and its Enter, both of one sender.                     *)
(***************************************************************************)
Text(c) == c.part \in {"paste", "typed"}
Aside(c) == c.part \in {"raw", "answer"}

\* Between a text and an Enter of its sender only asides come,
Together(w) ==
    \A i \in 1..Len(w), j \in 1..Len(w), k \in 1..Len(w) :
        i < k /\ k < j /\ Text(w[i]) /\ w[j] = Chunk(w[i].by, "enter") => Aside(w[k])
\* after a text of a sender that has yet to press Enter only asides come,
Unbroken(w, s) ==
    \A i \in 1..Len(w), k \in 1..Len(w) : i < k /\ Text(w[i]) /\ w[i].by = s => Aside(w[k])
\* and there is none yet of a sender whose text has not gone in.
Silent(w, s) == \A i \in 1..Len(w) : Text(w[i]) => w[i].by # s

Early(s) == sender[s].at \in {"idle", "waits"} \/ sender[s].part \in {"paste", "typed"}
WireInOrder ==
    /\ Together(Wire)
    /\ \A s \in Senders : (Pasting(s) => Unbroken(Wire, s)) /\ (Early(s) => Silent(Wire, s))

InputInv == InputTypeOK /\ SendLocked /\ WireInOrder

(***************************************************************************)
(* Chunks change hands.                                                    *)
(***************************************************************************)
\* Three hands make one order, whichever two are taken together.
LEMMA ChunksAssociate ==
    ASSUME NEW p \in Seq(Chunks), NEW q \in Seq(Chunks), NEW r \in Seq(Chunks)
    PROVE  (p \o q) \o r = p \o (q \o r)
  BY ConcatAssociative, SMTT(30)

\* What is added to the last hand is added to the wire.
LEMMA AddLast ==
    ASSUME NEW p \in Seq(Chunks), NEW q \in Seq(Chunks), NEW c \in Chunks
    PROVE  p \o Append(q, c) = Append(p \o q, c)
  <1> DEFINE one == <<c>>
  <1>1. one \in Seq(Chunks)
    OBVIOUS
  <1>2. Append(q, c) = q \o one
    BY AppendIsConcat
  <1>3. p \o q \in Seq(Chunks)
    BY ConcatProperties
  <1>4. Append(p \o q, c) = (p \o q) \o one
    BY <1>3, AppendIsConcat
  <1> HIDE DEF one
  <1>5. (p \o q) \o one = p \o (q \o one)
    BY <1>1, ChunksAssociate
  <1> QED BY <1>2, <1>4, <1>5

\* A hand that is not empty begins with its head.
LEMMA HeadFirst ==
    ASSUME NEW q \in Seq(Chunks), q # <<>>
    PROVE  Head(q) \in Chunks /\ Tail(q) \in Seq(Chunks) /\ q = <<Head(q)>> \o Tail(q)
  <1>1. Len(q) \in Nat \ {0}
    BY EmptySeq
  <1>2. SubSeq(q, 1, Len(q)) = <<q[1]>> \o SubSeq(q, 2, Len(q))
    BY <1>1, SubSeqRecursiveFirst
  <1>3. SubSeq(q, 1, Len(q)) = q /\ Tail(q) = SubSeq(q, 2, Len(q))
    BY SubSeqFull, TailIsSubSeq
  <1>4. Head(q) = q[1]
    OBVIOUS
  <1> QED BY <1>2, <1>3, <1>4, HeadTailProperties

\* From one hand to the next, the order of all is the same.
LEMMA HeadPassed ==
    ASSUME NEW p \in Seq(Chunks), NEW q \in Seq(Chunks), q # <<>>
    PROVE  Append(p, Head(q)) \o Tail(q) = p \o q
  <1> DEFINE h == <<Head(q)>>
  <1>1. Head(q) \in Chunks /\ Tail(q) \in Seq(Chunks) /\ q = h \o Tail(q)
    BY HeadFirst
  <1>2. h \in Seq(Chunks) /\ Append(p, Head(q)) = p \o h
    BY <1>1, AppendIsConcat
  <1> HIDE DEF h
  <1>3. (p \o h) \o Tail(q) = p \o (h \o Tail(q))
    BY <1>1, <1>2, ChunksAssociate
  <1> QED BY <1>1, <1>2, <1>3

(***************************************************************************)
(* The order on the wire.                                                  *)
(***************************************************************************)
\* One chunk more.
LEMMA Grown ==
    ASSUME NEW w \in Seq(Chunks), NEW c \in Chunks
    PROVE  LET v == Append(w, c) IN
           /\ Together(w) /\ (c.part # "enter" \/ Unbroken(w, c.by)) => Together(v)
           /\ \A s : Unbroken(w, s) /\ Aside(c) => Unbroken(v, s)
           /\ \A s : Silent(w, s) /\ (~Text(c) \/ c.by # s) => Silent(v, s)
           /\ \A s : Silent(w, s) => Unbroken(v, s)
  <1> DEFINE v == Append(w, c)
             n == Len(w)
  <1>1. n \in Nat /\ Len(v) = n + 1 /\ v[n + 1] = c /\ \A i \in 1..n : v[i] = w[i]
    BY AppendProperties
  <1> HIDE DEF v
  <1>2. \A i \in 1..Len(v) : i \in 1..n \/ i = n + 1
    BY <1>1
  <1>3. ASSUME Together(w), c.part # "enter" \/ Unbroken(w, c.by) PROVE Together(v)
    <2> SUFFICES ASSUME NEW i \in 1..Len(v), NEW j \in 1..Len(v), NEW k \in 1..Len(v),
                        i < k, k < j, Text(v[i]), v[j] = Chunk(v[i].by, "enter")
                 PROVE  Aside(v[k])
      BY DEF Together
    <2>1. i \in 1..n /\ k \in 1..n /\ v[i] = w[i] /\ v[k] = w[k]
      BY <1>1
    <2>2. CASE j \in 1..n
      BY <1>1, <1>3, <2>1, <2>2 DEF Together
    <2>3. CASE j = n + 1
      <3>1. c = Chunk(w[i].by, "enter")
        BY <1>1, <2>1, <2>3
      <3>2. c.part = "enter" /\ c.by = w[i].by
        BY <3>1 DEF Chunk
      <3> QED BY <1>3, <2>1, <3>2 DEF Unbroken
    <2> QED BY <1>2, <2>2, <2>3
  <1>4. ASSUME NEW s, Unbroken(w, s), Aside(c) PROVE Unbroken(v, s)
    <2> SUFFICES ASSUME NEW i \in 1..Len(v), NEW k \in 1..Len(v), i < k, Text(v[i]), v[i].by = s
                 PROVE  Aside(v[k])
      BY DEF Unbroken
    <2>1. i \in 1..n /\ v[i] = w[i]
      BY <1>1
    <2>2. CASE k \in 1..n
      BY <1>1, <1>4, <2>1, <2>2 DEF Unbroken
    <2>3. CASE k = n + 1
      BY <1>1, <1>4, <2>3
    <2> QED BY <1>2, <2>2, <2>3
  <1>5. ASSUME NEW s, Silent(w, s), ~Text(c) \/ c.by # s PROVE Silent(v, s)
    BY <1>1, <1>2, <1>5 DEF Silent
  <1>6. ASSUME NEW s, Silent(w, s) PROVE Unbroken(v, s)
    <2> SUFFICES ASSUME NEW i \in 1..Len(v), NEW k \in 1..Len(v), i < k, Text(v[i]), v[i].by = s
                 PROVE  Aside(v[k])
      BY DEF Unbroken
    <2>1. i \in 1..n /\ v[i] = w[i]
      BY <1>1
    <2> QED BY <1>6, <2>1 DEF Silent
  <1> QED BY <1>3, <1>4, <1>5, <1>6 DEF v

\* One chunk less.
LEMMA Lost ==
    ASSUME NEW p \in Seq(Chunks), NEW q \in Seq(Chunks), NEW c \in Chunks
    PROVE  LET w == (p \o <<c>>) \o q
               v == p \o q IN
           /\ Together(w) => Together(v)
           /\ \A s : Unbroken(w, s) => Unbroken(v, s)
           /\ \A s : Silent(w, s) => Silent(v, s)
  <1> DEFINE one == <<c>>
             pc == p \o one
             w == pc \o q
             v == p \o q
             m == Len(p)
             n == Len(v)
             up(i) == IF i <= m THEN i ELSE i + 1
  <1>1. one \in Seq(Chunks) /\ Len(one) = 1
    OBVIOUS
  <1>2. w = (p \o <<c>>) \o q
    OBVIOUS
  <1> HIDE DEF one
  <1>3. /\ pc \in Seq(Chunks) /\ Len(pc) = m + 1
        /\ \A i \in 1..m + 1 : pc[i] = IF i <= m THEN p[i] ELSE one[i - m]
    <2>1. /\ pc \in Seq(Chunks) /\ Len(pc) = Len(p) + Len(one)
          /\ \A i \in 1..Len(p) + Len(one) : pc[i] = IF i <= Len(p) THEN p[i] ELSE one[i - Len(p)]
      BY <1>1, ConcatProperties
    <2> HIDE DEF pc
    <2> QED BY <1>1, <2>1
  <1>4. /\ n = m + Len(q)
        /\ \A i \in 1..m + Len(q) : v[i] = IF i <= m THEN p[i] ELSE q[i - m]
    BY ConcatProperties
  <1> HIDE DEF pc
  <1>5. /\ Len(w) = m + 1 + Len(q)
        /\ \A i \in 1..m + 1 + Len(q) : w[i] = IF i <= m + 1 THEN pc[i] ELSE q[i - (m + 1)]
    <2>1. /\ Len(w) = Len(pc) + Len(q)
          /\ \A i \in 1..Len(pc) + Len(q) : w[i] = IF i <= Len(pc) THEN pc[i] ELSE q[i - Len(pc)]
      <3>1. w = pc \o q /\ pc \in Seq(Chunks)
        BY <1>2, <1>3
      <3> HIDE DEF w
      <3> QED BY <3>1, ConcatProperties
    <2> HIDE DEF w, m
    <2> QED BY <1>3, <2>1
  <1>6. m \in Nat /\ Len(q) \in Nat
    OBVIOUS
  <1> HIDE DEF w, v, m, n
  <1>7. \A i \in 1..n : up(i) \in 1..Len(w) /\ v[i] = w[up(i)]
    <2> SUFFICES ASSUME NEW i \in 1..n PROVE up(i) \in 1..Len(w) /\ v[i] = w[up(i)]
      OBVIOUS
    <2>1. CASE i <= m
      <3>1. i \in 1..m + 1 /\ i \in 1..m + 1 + Len(q) /\ i \in 1..m + Len(q)
        BY <1>4, <1>6, <2>1
      <3>2. v[i] = p[i] /\ w[i] = pc[i] /\ pc[i] = p[i]
        BY <1>3, <1>4, <1>5, <1>6, <2>1, <3>1
      <3> QED BY <1>5, <2>1, <3>1, <3>2
    <2>2. CASE ~(i <= m)
      <3>1. i + 1 \in 1..m + 1 + Len(q) /\ i \in 1..m + Len(q) /\ ~(i + 1 <= m + 1)
        BY <1>4, <1>6, <2>2
      <3>2. v[i] = q[i - m] /\ w[i + 1] = q[(i + 1) - (m + 1)]
        BY <1>4, <1>5, <2>2, <3>1
      <3>3. (i + 1) - (m + 1) = i - m
        BY <1>4, <1>6
      <3> QED BY <1>5, <2>2, <3>1, <3>2, <3>3
    <2> QED BY <2>1, <2>2
  <1>8. \A i, j \in 1..n : i < j => up(i) < up(j)
    BY <1>4, <1>6
  <1> HIDE DEF up
  <1>9. n = Len(v)
    BY DEF n
  <1>10. Together(w) => Together(v)
    <2> SUFFICES ASSUME Together(w), NEW i \in 1..n, NEW j \in 1..n, NEW k \in 1..n,
                        i < k, k < j, Text(v[i]), v[j] = Chunk(v[i].by, "enter")
                 PROVE  Aside(v[k])
      BY <1>9 DEF Together
    <2>1. up(i) < up(k) /\ up(k) < up(j)
      BY <1>8
    <2>2. Text(w[up(i)]) /\ w[up(j)] = Chunk(w[up(i)].by, "enter") /\ v[k] = w[up(k)]
      BY <1>7
    <2>3. up(i) \in 1..Len(w) /\ up(j) \in 1..Len(w) /\ up(k) \in 1..Len(w)
      BY <1>7
    <2> QED BY <2>1, <2>2, <2>3 DEF Together
  <1>11. ASSUME NEW s, Unbroken(w, s) PROVE Unbroken(v, s)
    <2> SUFFICES ASSUME NEW i \in 1..n, NEW k \in 1..n, i < k, Text(v[i]), v[i].by = s
                 PROVE  Aside(v[k])
      BY <1>9 DEF Unbroken
    <2>1. up(i) < up(k) /\ up(i) \in 1..Len(w) /\ up(k) \in 1..Len(w)
      BY <1>7, <1>8
    <2>2. Text(w[up(i)]) /\ w[up(i)].by = s /\ v[k] = w[up(k)]
      BY <1>7
    <2> QED BY <1>11, <2>1, <2>2 DEF Unbroken
  <1>12. ASSUME NEW s, Silent(w, s) PROVE Silent(v, s)
    BY <1>7, <1>9, <1>12 DEF Silent
  <1> QED BY <1>2, <1>10, <1>11, <1>12 DEF v

(***************************************************************************)
(* The steps.                                                              *)
(***************************************************************************)
SenderType == [Senders -> [at: {"idle", "waits", "done"} \cup Underway,
                           part: {"none", "raw", "keys", "paste", "typed", "enter"}]]

\* All that went in are chunks.
LEMMA WireTyped ==
    ASSUME InputTypeOK
    PROVE  /\ got \o tty \in Seq(Chunks) /\ (got \o tty) \o writer.chunk \in Seq(Chunks)
           /\ Wire = ((got \o tty) \o writer.chunk) \o queue /\ Wire \in Seq(Chunks)
  <1>1. /\ got \in Seq(Chunks) /\ tty \in Seq(Chunks) /\ writer.chunk \in Seq(Chunks)
        /\ queue \in Seq(Chunks)
    BY DEF InputTypeOK
  <1>2. got \o tty \in Seq(Chunks)
    BY <1>1, ConcatProperties
  <1>3. (got \o tty) \o writer.chunk \in Seq(Chunks)
    BY <1>1, <1>2, ConcatProperties
  <1>4. ((got \o tty) \o writer.chunk) \o queue \in Seq(Chunks)
    BY <1>1, <1>3, ConcatProperties
  <1> QED BY <1>2, <1>3, <1>4 DEF Wire

\* Where the senders stay, the wire may keep what it has, lose a chunk or get
\* an aside.
LEMMA WireStep ==
    ASSUME InputInv, InputTypeOK', UNCHANGED <<sender, sending>>,
           \/ Wire' = Wire
           \/ \E p, q \in Seq(Chunks) : \E c \in Chunks : Wire = (p \o <<c>>) \o q /\ Wire' = p \o q
           \/ \E c \in Chunks : Wire' = Append(Wire, c) /\ Aside(c)
    PROVE  InputInv'
  <1>1. Wire \in Seq(Chunks)
    BY WireTyped DEF InputInv
  <1>2. /\ Together(Wire) => Together(Wire')
        /\ \A s : Unbroken(Wire, s) => Unbroken(Wire', s)
        /\ \A s : Silent(Wire, s) => Silent(Wire', s)
    <2>1. CASE Wire' = Wire
      BY <2>1
    <2>2. CASE \E p, q \in Seq(Chunks) : \E c \in Chunks : Wire = (p \o <<c>>) \o q /\ Wire' = p \o q
      BY <2>2, Lost
    <2>3. CASE \E c \in Chunks : Wire' = Append(Wire, c) /\ Aside(c)
      <3>1. PICK c \in Chunks : Wire' = Append(Wire, c) /\ Aside(c)
        BY <2>3
      <3>2. c.part # "enter" /\ ~Text(c)
        BY <3>1 DEF Aside, Text
      <3> QED BY <1>1, <3>1, <3>2, Grown
    <2> QED BY <2>1, <2>2, <2>3
  <1>3. SendLocked' /\ WireInOrder'
    BY <1>2 DEF InputInv, SendLocked, WireInOrder, Pasting, Early
  <1> QED BY <1>3 DEF InputInv

\* A sender asks, is let in or refused, or hands nothing over: the wire stays.
LEMMA AskStep ==
    ASSUME InputInv, NEW s \in Senders, Ask(s) \/ Take(s)
    PROVE  InputInv'
  <1>1. InputTypeOK /\ sender \in SenderType
    BY DEF InputInv, InputTypeOK, SenderType
  <1>2. UNCHANGED <<queue, writer, tty, got>>
    BY DEF Ask, Take
  <1>3. /\ sender' \in SenderType /\ \A t \in Senders : t # s => sender'[t] = sender[t]
        /\ Early(s)
        /\ \/ sender'[s] = [at |-> "clones", part |-> "raw"] /\ sending' = sending
           \/ sender'[s].at \in {"waits", "done"} /\ sender'[s].part = "none" /\ sending' = sending
           \/ /\ sender'[s].at = "clones" /\ sender'[s].part \in {"keys", "paste", "typed"}
              /\ sending = {} /\ sending' = {s}
    <2>1. CASE Ask(s)
      <3>1. /\ sender[s].at = "idle" /\ sending' = sending
            /\ \/ sender' = [sender EXCEPT ![s] = [at |-> "clones", part |-> "raw"]]
               \/ sender' = [sender EXCEPT ![s] = [at |-> "waits", part |-> "none"]]
        BY <2>1 DEF Ask, At
      <3> QED BY <1>1, <3>1 DEF SenderType, Underway, Early
    <2>2. CASE Take(s)
      <3>1. /\ sender[s].at = "waits" /\ sending = {}
            /\ \/ sender' = [sender EXCEPT ![s] = [at |-> "done", part |-> "none"]] /\ sending' = sending
               \/ /\ sender' = [sender EXCEPT ![s] = [at |-> "clones", part |-> FirstPart(s)]]
                  /\ sending' = sending \cup {s}
        BY <2>2 DEF Take, LockFree, At
      <3>2. FirstPart(s) \in {"keys", "paste", "typed"}
        BY DEF FirstPart
      <3> QED BY <1>1, <3>1, <3>2 DEF SenderType, Underway, Early
    <2> QED BY <2>1, <2>2
  <1>4. InputTypeOK'
    <2>1. /\ sender'[s].at \in Underway <=> sender'[s].part # "none"
          /\ sender'[s].at = "pauses" => sender'[s].part = "enter"
      BY <1>3 DEF Underway
    <2>2. \A t \in Senders :
            /\ sender'[t].at \in Underway <=> sender'[t].part # "none"
            /\ sender'[t].at = "pauses" => sender'[t].part = "enter"
      BY <1>1, <1>3, <2>1 DEF InputTypeOK
    <2> QED BY <1>1, <1>2, <1>3, <2>2 DEF InputTypeOK, SenderType
  <1>5. SendLocked'
    <2> SUFFICES ASSUME NEW t \in Senders, sender'[t].part \notin {"none", "raw"}
                 PROVE  sending' = {t}
      BY DEF SendLocked
    <2>1. CASE t = s
      BY <1>3, <2>1
    <2>2. CASE t # s
      <3>1. sending = {t}
        BY <1>3, <2>2 DEF InputInv, SendLocked
      <3> QED BY <1>3, <3>1
    <2> QED BY <2>1, <2>2
  <1>6. WireInOrder'
    <2>1. Wire' = Wire
      BY <1>2 DEF Wire
    <2>2. ~Pasting(s)' /\ \A t \in Senders : t # s => (Pasting(t)' <=> Pasting(t)) /\ (Early(t)' <=> Early(t))
      BY <1>3 DEF Pasting, Early
    <2>3. Together(Wire)' /\ \A t \in Senders : /\ Pasting(t)' => Unbroken(Wire, t)'
                                                /\ Early(t)' => Silent(Wire, t)'
      BY <1>3, <2>1, <2>2 DEF InputInv, WireInOrder
    <2> QED BY <2>3 DEF WireInOrder
  <1> QED BY <1>4, <1>5, <1>6 DEF InputInv

\* What comes after a part: Enter, with the lock kept, or the end of the call.
Goes(s) ==
    \/ /\ sender[s].part \in {"paste", "typed"} /\ sending' = sending
       /\ sender'[s].at \in {"pauses", "clones"} /\ sender'[s].part = "enter"
    \/ /\ sender'[s].at = "done" /\ sender'[s].part = "none" /\ sending' = sending \ {s}
    \/ /\ sender'[s].at \in {"clones", "sends"} /\ sender'[s].part = sender[s].part
       /\ sender[s].part # "none" /\ sending' = sending
\* After a chunk was sent the sender is where Goes says, and nobody else moves.
LEMMA AfterGoes ==
    ASSUME InputInv, NEW s \in Senders, After(s)
    PROVE  /\ sender' \in SenderType /\ \A t \in Senders : t # s => sender'[t] = sender[t]
           /\ Goes(s) /\ sender'[s].part \in {"enter", "none"}
  <1>1. sender \in SenderType
    BY DEF InputInv, InputTypeOK, SenderType
  <1>2. CASE sender[s].part \in {"paste", "typed"}
    <2>1. /\ sending' = sending
          /\ \/ sender' = [sender EXCEPT ![s] = [at |-> "pauses", part |-> "enter"]]
             \/ sender' = [sender EXCEPT ![s] = [at |-> "clones", part |-> "enter"]]
      BY <1>2 DEF After, At
    <2> QED BY <1>1, <1>2, <2>1 DEF SenderType, Underway, Goes
  <1>3. CASE sender[s].part \notin {"paste", "typed"}
    <2>1. sender' = [sender EXCEPT ![s] = [at |-> "done", part |-> "none"]] /\ sending' = sending \ {s}
      BY <1>3 DEF After, At, Release
    <2> QED BY <1>1, <2>1 DEF SenderType, Underway, Goes
  <1> QED BY <1>2, <1>3

\* The lock stays with whoever is under way.
LEMMA GoesLocked ==
    ASSUME InputInv, NEW s \in Senders, sender[s].at \in Underway, Goes(s),
           sender' \in SenderType, \A t \in Senders : t # s => sender'[t] = sender[t],
           UNCHANGED <<tty, got>>, queue' \in Seq(Chunks), UNCHANGED writer
    PROVE  InputTypeOK' /\ SendLocked'
  <1>1. InputTypeOK'
    <2>1. /\ sender'[s].at \in Underway <=> sender'[s].part # "none"
          /\ sender'[s].at = "pauses" => sender'[s].part = "enter"
      BY DEF Goes, Underway
    <2>2. \A t \in Senders :
            /\ sender'[t].at \in Underway <=> sender'[t].part # "none"
            /\ sender'[t].at = "pauses" => sender'[t].part = "enter"
      BY <2>1 DEF InputInv, InputTypeOK
    <2> QED BY <2>2 DEF InputInv, InputTypeOK, SenderType
  <1>2. SendLocked'
    <2> SUFFICES ASSUME NEW t \in Senders, sender'[t].part \notin {"none", "raw"}
                 PROVE  sending' = {t}
      BY DEF SendLocked
    <2>1. CASE t = s
      BY <2>1 DEF InputInv, SendLocked, Goes
    <2>2. CASE t # s
      BY <2>2 DEF InputInv, SendLocked, Goes
    <2> QED BY <2>1, <2>2
  <1> QED BY <1>1, <1>2

\* A sender goes on without putting anything on the wire.
LEMMA QuietStep ==
    ASSUME InputInv, NEW s \in Senders, Clone(s) \/ PauseEnds(s)
    PROVE  InputInv'
  <1>1. InputTypeOK /\ sender \in SenderType
    BY DEF InputInv, InputTypeOK, SenderType
  <1>2. UNCHANGED <<queue, writer, tty, got>>
    BY DEF Clone, PauseEnds
  <1>3. /\ sender[s].at \in Underway
        /\ sender' \in SenderType /\ \A t \in Senders : t # s => sender'[t] = sender[t]
        /\ Goes(s)
    <2>1. CASE Clone(s)
      <3>1. sender[s].at = "clones" /\ sender[s].part # "none"
        BY <1>1, <2>1 DEF Clone, InputTypeOK, Underway
      <3>2. CASE tx
        <4>1. sender' = [sender EXCEPT ![s] = [at |-> "sends", part |-> sender[s].part]]
              /\ sending' = sending
          BY <2>1, <3>2 DEF Clone, At
        <4> QED BY <1>1, <3>1, <4>1 DEF SenderType, Underway, Goes
      <3>3. CASE ~tx
        <4>1. After(s)
          BY <2>1, <3>3 DEF Clone
        <4> QED BY <3>1, <4>1, AfterGoes DEF Underway
      <3> QED BY <3>2, <3>3
    <2>2. CASE PauseEnds(s)
      <3>1. sender[s].at = "pauses" /\ sender[s].part = "enter"
        BY <1>1, <2>2 DEF PauseEnds, InputTypeOK
      <3>2. \/ /\ sender' = [sender EXCEPT ![s] = [at |-> "done", part |-> "none"]]
               /\ sending' = sending \ {s}
            \/ /\ sender' = [sender EXCEPT ![s] = [at |-> "clones", part |-> "enter"]]
               /\ sending' = sending
        BY <2>2 DEF PauseEnds, At, Release
      <3> QED BY <1>1, <3>1, <3>2 DEF SenderType, Underway, Goes
    <2> QED BY <2>1, <2>2
  <1>4. InputTypeOK' /\ SendLocked'
    BY <1>1, <1>2, <1>3, GoesLocked DEF InputTypeOK
  <1>5. WireInOrder'
    <2>1. Wire' = Wire
      BY <1>2 DEF Wire
    <2>2. \A t \in Senders : t # s => (Pasting(t)' <=> Pasting(t)) /\ (Early(t)' <=> Early(t))
      BY <1>3 DEF Pasting, Early
    <2>3. Early(s)' => Early(s)
      BY <1>3 DEF Early, Goes, Underway
    <2>4. Silent(Wire, s) => Unbroken(Wire, s)
      BY DEF Silent, Unbroken
    <2>5. Pasting(s)' => Unbroken(Wire, s)
      <3>1. Pasting(s)' => Pasting(s) \/ Early(s)
        BY <1>3 DEF Pasting, Early, Goes
      <3> QED BY <2>4, <3>1 DEF InputInv, WireInOrder
    <2>6. Together(Wire)' /\ \A t \in Senders : /\ Pasting(t)' => Unbroken(Wire, t)'
                                                /\ Early(t)' => Silent(Wire, t)'
      BY <2>1, <2>2, <2>3, <2>5 DEF InputInv, WireInOrder
    <2> QED BY <2>6 DEF WireInOrder
  <1> QED BY <1>4, <1>5 DEF InputInv

\* It hands a part over: a text is its first, an Enter comes while it still
\* has the lock, and raw input is an aside.
LEMMA PutStep ==
    ASSUME InputInv, NEW s \in Senders, Put(s)
    PROVE  InputInv'
  <1> DEFINE c == Chunk(s, sender[s].part)
  <1>1. InputTypeOK /\ sender \in SenderType /\ Wire \in Seq(Chunks)
    BY WireTyped DEF InputInv, InputTypeOK, SenderType
  <1>2. /\ sender[s].at = "sends" /\ queue' = Append(queue, c) /\ After(s)
        /\ UNCHANGED <<writer, tty, got>>
    BY DEF Put
  <1>3. /\ sender' \in SenderType /\ \A t \in Senders : t # s => sender'[t] = sender[t]
        /\ Goes(s) /\ sender'[s].part \in {"enter", "none"}
    BY <1>2, AfterGoes
  <1>4. sender[s].at \in Underway /\ sender[s].part # "none"
    BY <1>1, <1>2 DEF InputTypeOK, Underway
  <1>5. c \in Chunks /\ c.by = s /\ c.part = sender[s].part
    BY <1>1, <1>4 DEF Chunk, Chunks, Parts, SenderType
  <1> HIDE DEF c
  <1>6. queue' \in Seq(Chunks) /\ Wire' = Append(Wire, c)
    <2>1. queue \in Seq(Chunks)
      BY <1>1 DEF InputTypeOK
    <2>2. /\ ((got \o tty) \o writer.chunk) \o Append(queue, c)
                = Append(((got \o tty) \o writer.chunk) \o queue, c)
          /\ Append(queue, c) \in Seq(Chunks)
      BY <1>1, <1>5, <2>1, WireTyped, AddLast, AppendProperties
    <2> QED BY <1>2, <2>2 DEF Wire
  <1>7. InputTypeOK' /\ SendLocked'
    BY <1>2, <1>3, <1>4, <1>6, GoesLocked
  <1>8. /\ Together(Wire) /\ (c.part # "enter" \/ Unbroken(Wire, s)) => Together(Wire')
        /\ \A t : Unbroken(Wire, t) /\ Aside(c) => Unbroken(Wire', t)
        /\ \A t : Silent(Wire, t) /\ (~Text(c) \/ s # t) => Silent(Wire', t)
        /\ \A t : Silent(Wire, t) => Unbroken(Wire', t)
    BY <1>1, <1>5, <1>6, Grown
  <1>9. Together(Wire')
    <2>1. c.part = "enter" => Unbroken(Wire, s)
      BY <1>5 DEF InputInv, WireInOrder, Pasting
    <2> QED BY <1>8, <2>1 DEF InputInv, WireInOrder
  <1>10. ASSUME NEW t \in Senders PROVE /\ Pasting(t)' => Unbroken(Wire', t)
                                        /\ Early(t)' => Silent(Wire', t)
    <2>1. CASE t = s
      <3>1. ~Early(t)'
        BY <1>3, <2>1 DEF Early, Goes
      <3>2. Pasting(t)' => Early(t)
        <4>1. sender'[s].part = "enter" => sender[s].part \in {"paste", "typed"}
          <5>1. CASE sender[s].part \in {"paste", "typed"}
            BY <5>1
          <5>2. CASE sender[s].part \notin {"paste", "typed"}
            BY <1>2, <1>1, <5>2 DEF After, At, SenderType
          <5> QED BY <5>1, <5>2
        <4> QED BY <2>1, <4>1 DEF Pasting, Early
      <3> QED BY <1>8, <3>1, <3>2 DEF InputInv, WireInOrder
    <2>2. CASE t # s
      <3>1. (Pasting(t)' <=> Pasting(t)) /\ (Early(t)' <=> Early(t))
        BY <1>3, <2>2 DEF Pasting, Early
      <3>2. Pasting(t) => Aside(c)
        <4>1. Pasting(t) => sending = {t}
          BY DEF InputInv, SendLocked, Pasting
        <4>2. sender[s].part \notin {"none", "raw"} => sending = {s}
          BY DEF InputInv, SendLocked
        <4> QED BY <1>4, <1>5, <2>2, <4>1, <4>2 DEF Aside
      <3> QED BY <1>8, <2>2, <3>1, <3>2 DEF InputInv, WireInOrder
    <2> QED BY <2>1, <2>2
  <1>11. WireInOrder'
    BY <1>9, <1>10 DEF WireInOrder
  <1> QED BY <1>7, <1>11 DEF InputInv

\* The writer passes chunks on, or loses them when the terminal is closed.
LEMMA WriterStep ==
    ASSUME InputInv, WriterSteps
    PROVE  InputInv'
  <1>1. /\ InputTypeOK /\ queue \in Seq(Chunks) /\ tty \in Seq(Chunks) /\ got \in Seq(Chunks)
        /\ got \o tty \in Seq(Chunks) /\ (got \o tty) \o writer.chunk \in Seq(Chunks)
        /\ Wire = ((got \o tty) \o writer.chunk) \o queue
        /\ writer \in [at: {"recv", "writes", "drains", "gone"}, chunk: Seq(Chunks)]
    BY WireTyped DEF InputInv, InputTypeOK
  <1>2. UNCHANGED <<sender, sending>>
    BY DEF WriterSteps, Recv, WriterGoes, Write, WriteFails
  <1>3. (got \o tty) \o <<>> = got \o tty
    BY <1>1, ConcatEmptySeq
  <1>4. CASE Recv
    <2>1. /\ queue # <<>> /\ queue' = Tail(queue) /\ writer.at \in {"recv", "drains"}
          /\ UNCHANGED <<tty, got>>
          /\ \/ writer' = [at |-> "writes", chunk |-> <<Head(queue)>>]
             \/ writer' = writer
      BY <1>4 DEF Recv, Writes
    <2>2. writer.chunk = <<>>
      BY <1>1, <2>1 DEF InputTypeOK
    <2>3. Head(queue) \in Chunks /\ Tail(queue) \in Seq(Chunks) /\ queue = <<Head(queue)>> \o Tail(queue)
      BY <1>1, <2>1, HeadFirst
    <2>4. <<Head(queue)>> \in Seq(Chunks)
      BY <2>3
    <2>5. Wire = ((got \o tty) \o <<Head(queue)>>) \o Tail(queue)
      <3> DEFINE h == <<Head(queue)>>
      <3>1. Wire = (got \o tty) \o queue
        BY <1>1, <1>3, <2>2
      <3>2. queue = h \o Tail(queue) /\ h \in Seq(Chunks)
        BY <2>3, <2>4
      <3> HIDE DEF h
      <3>3. (got \o tty) \o (h \o Tail(queue)) = ((got \o tty) \o h) \o Tail(queue)
        <4> DEFINE gt == got \o tty
                   rest == Tail(queue)
        <4>1. gt \in Seq(Chunks) /\ rest \in Seq(Chunks)
          BY <1>1, <2>3
        <4> HIDE DEF gt, rest
        <4>2. gt \o (h \o rest) = (gt \o h) \o rest
          BY <3>2, <4>1, ChunksAssociate
        <4> QED BY <4>2 DEF gt, rest
      <3>4. Wire = ((got \o tty) \o h) \o Tail(queue)
        BY <3>1, <3>2, <3>3
      <3> QED BY <3>4 DEF h
    <2>6. CASE writer' = [at |-> "writes", chunk |-> <<Head(queue)>>]
      <3>1. writer'.at = "writes" /\ writer'.chunk = <<Head(queue)>>
            /\ writer' \in [at: {"recv", "writes", "drains", "gone"}, chunk: Seq(Chunks)]
        BY <2>4, <2>6
      <3>2. InputTypeOK'
        BY <1>1, <1>2, <2>1, <2>3, <3>1 DEF InputTypeOK
      <3>3. Wire' = Wire
        BY <2>1, <2>5, <3>1 DEF Wire
      <3> QED BY <1>2, <3>2, <3>3, WireStep
    <2>7. CASE writer' = writer
      <3>1. InputTypeOK'
        BY <1>1, <1>2, <2>1, <2>3, <2>7 DEF InputTypeOK
      <3>2. Wire' = (got \o tty) \o Tail(queue)
        BY <1>3, <2>1, <2>2, <2>7 DEF Wire
      <3> QED BY <1>1, <1>2, <2>3, <2>5, <3>1, <3>2, WireStep
    <2> QED BY <2>1, <2>6, <2>7
  <1>5. CASE WriterGoes
    <2>1. /\ writer.at \in {"recv", "drains"} /\ writer' = [at |-> "gone", chunk |-> <<>>]
          /\ UNCHANGED <<queue, tty, got>>
      BY <1>5 DEF WriterGoes, Writes
    <2>2. writer.chunk = <<>> /\ writer'.at = "gone" /\ writer'.chunk = <<>>
          /\ writer' \in [at: {"recv", "writes", "drains", "gone"}, chunk: Seq(Chunks)]
      BY <1>1, <2>1 DEF InputTypeOK
    <2>3. InputTypeOK'
      BY <1>1, <1>2, <2>1, <2>2 DEF InputTypeOK
    <2>4. Wire' = Wire
      BY <2>1, <2>2 DEF Wire
    <2> QED BY <1>2, <2>3, <2>4, WireStep
  <1>6. CASE Write
    <2>1. /\ writer.at = "writes" /\ tty' = tty \o writer.chunk
          /\ writer' = [at |-> "recv", chunk |-> <<>>] /\ UNCHANGED <<queue, got>>
      BY <1>6 DEF Write, Writes
    <2>2. writer'.at = "recv" /\ writer'.chunk = <<>>
          /\ writer' \in [at: {"recv", "writes", "drains", "gone"}, chunk: Seq(Chunks)]
      BY <2>1
    <2>3. tty' \in Seq(Chunks) /\ got \o tty' = (got \o tty) \o writer.chunk
      <3>1. writer.chunk \in Seq(Chunks)
        BY <1>1
      <3>2. tty \o writer.chunk \in Seq(Chunks)
        BY <1>1, <3>1, ConcatProperties
      <3>3. (got \o tty) \o writer.chunk = got \o (tty \o writer.chunk)
        BY <1>1, <3>1, ChunksAssociate, SMTT(30)
      <3> QED BY <2>1, <3>2, <3>3
    <2>4. InputTypeOK'
      BY <1>1, <1>2, <2>1, <2>2, <2>3 DEF InputTypeOK
    <2>5. ((got \o tty) \o writer.chunk) \o <<>> = (got \o tty) \o writer.chunk
      BY <1>1, ConcatEmptySeq
    <2>6. Wire' = Wire
      BY <1>1, <2>1, <2>2, <2>3, <2>5 DEF Wire
    <2> QED BY <1>2, <2>4, <2>6, WireStep
  <1>7. CASE WriteFails
    <2>1. /\ writer.at = "writes" /\ writer' = [at |-> "drains", chunk |-> <<>>]
          /\ UNCHANGED <<queue, tty, got>>
      BY <1>7 DEF WriteFails, Writes
    <2>2. writer'.at = "drains" /\ writer'.chunk = <<>>
          /\ writer' \in [at: {"recv", "writes", "drains", "gone"}, chunk: Seq(Chunks)]
      BY <2>1
    <2>3. PICK c \in Chunks : writer.chunk = <<c>>
      BY <1>1, <2>1 DEF InputTypeOK
    <2>4. InputTypeOK'
      BY <1>1, <1>2, <2>1, <2>2 DEF InputTypeOK
    <2>5. Wire = ((got \o tty) \o <<c>>) \o queue
      BY <1>1, <2>3
    <2>6. Wire' = (got \o tty) \o queue
      BY <1>3, <2>1, <2>2 DEF Wire
    <2> QED BY <1>1, <1>2, <2>4, <2>5, <2>6, WireStep
  <1> QED BY <1>4, <1>5, <1>6, <1>7 DEF WriterSteps

\* The reader's answers are asides; whatever else it and the program do, the
\* wire stays: what the program reads has come out of the PTY.
LEMMA OtherStep ==
    ASSUME InputInv, \/ ReaderSteps \/ Hear
                     \/ ProgramReads \/ ProgramTurns \/ ProgramEnds \/ HelperEnds
    PROVE  InputInv'
  <1>1. /\ InputTypeOK /\ queue \in Seq(Chunks) /\ tty \in Seq(Chunks) /\ got \in Seq(Chunks)
        /\ (got \o tty) \o writer.chunk \in Seq(Chunks)
        /\ Wire = ((got \o tty) \o writer.chunk) \o queue
    BY WireTyped DEF InputInv, InputTypeOK
  <1>2. UNCHANGED <<sender, sending, writer>>
    BY DEF ReaderSteps, Answer, Finish, Hear, ProgramReads, ProgramTurns, ProgramEnds, HelperEnds
  <1>3. CASE UNCHANGED <<queue, tty, got>>
    <2>1. InputTypeOK' /\ Wire' = Wire
      BY <1>1, <1>2, <1>3 DEF InputTypeOK, Wire
    <2> QED BY <1>2, <2>1, WireStep
  <1>4. CASE Answer
    <2> DEFINE c == Chunk("reader", "answer")
    <2>1. UNCHANGED <<tty, got>> /\ (queue' = queue \/ queue' = Append(queue, c))
      BY <1>4 DEF Answer
    <2>2. c \in Chunks /\ Aside(c)
      BY DEF Chunk, Chunks, Aside
    <2> HIDE DEF c
    <2>3. CASE queue' = queue
      BY <1>3, <2>1, <2>3
    <2>4. CASE queue' = Append(queue, c)
      <3>1. /\ queue' \in Seq(Chunks)
            /\ ((got \o tty) \o writer.chunk) \o Append(queue, c)
                  = Append(((got \o tty) \o writer.chunk) \o queue, c)
        BY <1>1, <2>2, <2>4, AddLast, AppendProperties
      <3>2. InputTypeOK' /\ Wire' = Append(Wire, c)
        BY <1>1, <1>2, <2>1, <2>4, <3>1 DEF InputTypeOK, Wire
      <3> QED BY <1>2, <2>2, <3>2, WireStep
    <2> QED BY <2>1, <2>3, <2>4
  <1>5. CASE ProgramReads
    <2>1. tty # <<>> /\ got' = Append(got, Head(tty)) /\ tty' = Tail(tty) /\ UNCHANGED queue
      BY <1>5 DEF ProgramReads
    <2>2. /\ got' \in Seq(Chunks) /\ tty' \in Seq(Chunks) /\ got' \o tty' = got \o tty
      BY <1>1, <2>1, HeadPassed, HeadFirst, AppendProperties
    <2>3. InputTypeOK' /\ Wire' = Wire
      BY <1>1, <1>2, <2>1, <2>2 DEF InputTypeOK, Wire
    <2> QED BY <1>2, <2>3, WireStep
  <1>6. CASE Finish \/ Hear \/ ProgramTurns \/ ProgramEnds \/ HelperEnds
    <2>1. UNCHANGED <<queue, tty, got>>
      BY <1>6 DEF Finish, Hear, ProgramTurns, ProgramEnds, HelperEnds
    <2> QED BY <1>3, <2>1
  <1> QED BY <1>4, <1>5, <1>6 DEF ReaderSteps

(***************************************************************************)
(* The theorems.                                                           *)
(***************************************************************************)
\* Who sends a text or keys has the lock alone until it is done, and on the
\* wire only asides come between a text and its Enter.
THEOREM InputInvariant == InputSpec => []InputInv
  <1>1. InputInit => InputInv
    <2> SUFFICES ASSUME InputInit PROVE InputInv
      OBVIOUS
    <2>1. <<>> \in Seq(Chunks)
      OBVIOUS
    <2>2. InputTypeOK
      BY <2>1 DEF InputInit, InputTypeOK, Underway
    <2>3. SendLocked
      BY DEF InputInit, SendLocked
    <2>4. Wire \in Seq(Chunks) /\ Len(Wire) = 0
      <3>1. Wire = ((<<>> \o <<>>) \o <<>>) \o <<>>
        BY DEF InputInit, Wire
      <3>2. <<>> \o <<>> = <<>>
        BY <2>1, ConcatEmptySeq
      <3> QED BY <2>1, <3>1, <3>2
    <2>5. \A i \in 1..Len(Wire) : FALSE
      BY <2>4
    <2>6. WireInOrder
      BY <2>5 DEF WireInOrder, Together, Unbroken, Silent
    <2> QED BY <2>2, <2>3, <2>6 DEF InputInv
  <1>2. InputInv /\ [InputNext]_inputVars => InputInv'
    <2> SUFFICES ASSUME InputInv, [InputNext]_inputVars PROVE InputInv'
      OBVIOUS
    <2>1. ASSUME NEW s \in Senders, Ask(s) \/ Sends(s) PROVE InputInv'
      BY <2>1, AskStep, QuietStep, PutStep DEF Sends
    <2>2. CASE WriterSteps
      BY <2>2, WriterStep
    <2>3. CASE ReaderSteps \/ Hear \/ ProgramReads \/ ProgramTurns \/ ProgramEnds \/ HelperEnds
      BY <2>3, OtherStep
    <2>4. CASE UNCHANGED inputVars
      <3>1. UNCHANGED <<queue, writer, tty, sender, sending, got>>
        BY <2>4 DEF inputVars
      <3>2. InputTypeOK' /\ Wire' = Wire
        BY <3>1 DEF InputInv, InputTypeOK, Wire
      <3> QED BY <3>1, <3>2, WireStep
    <2> QED BY <2>1, <2>2, <2>3, <2>4 DEF InputNext
  <1> QED BY <1>1, <1>2, PTL DEF InputSpec

\* Between a text and its Enter nothing of another sender comes (server.rs
\* send_text), wherever they are on their way, and though chunks are lost.
THEOREM PasteWholeAlways == InputSpec => []PasteWhole
  <1>1. InputInv => PasteWhole
    <2> SUFFICES ASSUME InputInv, NEW i \in 1..Len(Wire), Wire[i].part \in {"paste", "typed"},
                        NEW k \in i + 1..Len(Wire),
                        \A j \in {j \in i + 1..Len(Wire) : Wire[j] = Chunk(Wire[i].by, "enter")} : k < j,
                        \/ {j \in i + 1..Len(Wire) : Wire[j] = Chunk(Wire[i].by, "enter")} # {}
                        \/ Pasting(Wire[i].by)
                 PROVE  Wire[k].part \in {"raw", "answer"}
      BY DEF PasteWhole
    <2>1. Wire \in Seq(Chunks) /\ Len(Wire) \in Nat /\ Text(Wire[i])
      <3>1. Wire \in Seq(Chunks)
        BY WireTyped DEF InputInv
      <3>2. Text(Wire[i])
        BY DEF Text
      <3> QED BY <3>1, <3>2, LenProperties
    <2>2. k \in 1..Len(Wire) /\ i < k
      BY <2>1
    <2>3. CASE Pasting(Wire[i].by)
      <3>1. Wire[i].by \in Senders
        <4>1. Wire[i] \in Chunks
          BY <2>1, ElementOfSeq
        <4> QED BY <2>1, <4>1 DEF Chunks, Chunk, Text
      <3> QED BY <2>1, <2>2, <2>3, <3>1 DEF InputInv, WireInOrder, Unbroken, Aside
    <2>4. CASE {j \in i + 1..Len(Wire) : Wire[j] = Chunk(Wire[i].by, "enter")} # {}
      <3>1. PICK j \in i + 1..Len(Wire) : Wire[j] = Chunk(Wire[i].by, "enter")
        BY <2>4
      <3>2. k < j /\ j \in 1..Len(Wire)
        BY <2>1, <3>1
      <3> QED BY <2>1, <2>2, <3>1, <3>2 DEF InputInv, WireInOrder, Together, Aside
    <2> QED BY <2>3, <2>4
  <1> QED BY <1>1, InputInvariant, PTL

(***************************************************************************)
(* What is known of it: SessionState.                                      *)
(***************************************************************************)
Watches == [state: Reports \cup {"none"}, inTurn: BOOLEAN, turns: Nat, at: Nat]
States == [rail: Rails, at: Nat, publisher: SUBSET Conns, by: Conns, turns: Nat]

StateTypeOK ==
    /\ now \in Nat /\ sent \in Nat /\ news \in BOOLEAN /\ ends \in Seq(Nat)
    /\ watch \in Watches
    /\ reporting \subseteq Conns /\ published \subseteq States
    /\ conn \in [Conns -> [at: {"open", "stamps", "publishes", "gone"}, turns: Nat, stamp: Nat,
                           state: SUBSET Rails]]
    /\ reading.at \in {"idle", "reports", "state", "shown"} /\ reading.calm \in BOOLEAN
    /\ reading.sent \in Nat /\ reading.report \subseteq Watches /\ reading.of \subseteq States
    /\ reading.runs \in Nat
    /\ reading = [at |-> reading.at, sent |-> reading.sent, report |-> reading.report,
                  calm |-> reading.calm, of |-> reading.of, status |-> reading.status,
                  runs |-> reading.runs]
    /\ used.sends \in {0, 1} /\ used.reports \in Nat /\ used.published \in Nat
    /\ used = [reports |-> used.reports, published |-> used.published, sends |-> used.sends]

\* The first `past` of the turns that ended did by `time`, the others since.
Splits(times, past, time) ==
    /\ past <= Len(times)
    /\ \A i \in 1..Len(times) : IF i <= past THEN times[i] <= time ELSE times[i] >= time
Stamped(past, time) == time <= now /\ Splits(ends, past, time)

\* What is stamped counts the turns up to its stamp: the reports, a state
\* about to be published, one published and the one that a reader has.
Counted ==
    /\ watch.turns = Len(ends) /\ Stamped(watch.turns, watch.at)
    /\ \A c \in Conns :
        /\ conn[c].at \in {"stamps", "publishes"} => reporting = {c} /\ conn[c].turns = Len(ends)
        /\ conn[c].at = "publishes" => Stamped(conn[c].turns, conn[c].stamp)
    /\ \A p \in published \cup reading.of : Stamped(p.turns, p.at)

\* What a reader has and what it shows.
Read ==
    /\ \A report \in reading.report : reading.report = {report} /\ report.turns <= Len(ends)
    /\ reading.at = "shown" => \A p \in reading.of : \A report \in reading.report :
          reading.runs = p.rail.runs + Since(p, report)

\* The one send that is noted: nothing is newer than it until there are news.
Calm ==
    /\ sent <= now
    /\ sent > 0 => used.sends = 1
    /\ sent > 0 /\ ~news => watch.at <= sent /\ \A p \in published : p.at <= sent
    /\ reading.calm => sent > 0 /\ reading.sent = sent
    /\ reading.calm /\ ~news => \A report \in reading.report : report.at <= sent

\* A state is kept by nobody but who published it.
OwnPublisher == \A p \in published : p.publisher \subseteq {p.by}

StateInv ==
    /\ StateTypeOK /\ Counted /\ Read /\ Calm /\ SendShows
    /\ OwnPublisher /\ OrphanMarked

(***************************************************************************)
(* The turns that ended.                                                   *)
(***************************************************************************)
\* A turn that ends now keeps the split of what was stamped before.
LEMMA SplitsGrow ==
    ASSUME NEW times \in Seq(Nat), NEW past \in Nat, NEW time \in Nat, NEW at \in Nat,
           time <= at, Splits(times, past, time)
    PROVE  Splits(Append(times, at), past, time)
  <1> DEFINE t == Append(times, at)
             n == Len(times)
  <1>1. n \in Nat /\ Len(t) = n + 1 /\ t[n + 1] = at /\ \A i \in 1..n : t[i] = times[i]
    BY AppendProperties
  <1>2. past <= n /\ \A i \in 1..n : IF i <= past THEN times[i] <= time ELSE times[i] >= time
    BY DEF Splits
  <1> HIDE DEF t, n
  <1>3. past <= Len(t)
    BY <1>1, <1>2
  <1>4. ASSUME NEW i \in 1..Len(t) PROVE IF i <= past THEN t[i] <= time ELSE t[i] >= time
    <2>1. CASE i \in 1..n
      BY <1>1, <1>2, <2>1
    <2>2. CASE i = n + 1
      <3>1. ~(i <= past)
        BY <1>1, <1>2, <2>2
      <3> QED BY <1>1, <2>2, <3>1
    <2> QED BY <1>1, <2>1, <2>2
  <1> QED BY <1>3, <1>4 DEF Splits, t

\* All that ended did by a time that none of them is later than.
LEMMA SplitsAll ==
    ASSUME NEW times \in Seq(Nat), NEW past, NEW time \in Nat, NEW at \in Nat,
           past = Len(times), Splits(times, past, time), time <= at
    PROVE  Splits(times, past, at)
  <1>1. \A i \in 1..Len(times) : times[i] \in Nat
    OBVIOUS
  <1>2. Len(times) \in Nat
    OBVIOUS
  <1> QED BY <1>1, <1>2 DEF Splits

\* So do all and the one that ends now.
LEMMA SplitsNow ==
    ASSUME NEW times \in Seq(Nat), NEW past, NEW time \in Nat, NEW at \in Nat,
           past = Len(times), Splits(times, past, time), time <= at
    PROVE  Splits(Append(times, at), past + 1, at)
  <1> DEFINE t == Append(times, at)
             n == Len(times)
  <1>1. n \in Nat /\ Len(t) = n + 1 /\ t[n + 1] = at /\ \A i \in 1..n : t[i] = times[i]
    BY AppendProperties
  <1>2. \A i \in 1..n : times[i] <= time /\ times[i] \in Nat
    BY DEF Splits
  <1>3. past = n
    OBVIOUS
  <1> HIDE DEF t, n
  <1>4. ASSUME NEW i \in 1..Len(t) PROVE i <= past + 1 /\ t[i] <= at
    <2>1. CASE i \in 1..n
      BY <1>1, <1>2, <1>3, <2>1
    <2>2. CASE i = n + 1
      BY <1>1, <1>3, <2>2
    <2> QED BY <1>1, <2>1, <2>2
  <1> QED BY <1>1, <1>3, <1>4 DEF Splits, t

\* Of the first turns, as many ended since a time that splits them as there
\* are beyond the split: but for those that ended at that very time.
LEMMA TurnsSince ==
    ASSUME NEW times \in Seq(Nat), NEW past \in Nat, NEW time \in Nat, NEW count \in Nat,
           Splits(times, past, time), count <= Len(times)
    PROVE  LET since == IF count > past THEN count - past ELSE 0 IN
           /\ Cardinality({i \in 1..count : times[i] >= time + 1}) <= since
           /\ since <= Cardinality({i \in 1..count : times[i] >= time})
  <1> DEFINE later == {i \in 1..count : times[i] >= time + 1}
             from == {i \in 1..count : times[i] >= time}
             beyond == past + 1..count
  <1>1. /\ \A i \in 1..count : times[i] \in Nat
        /\ \A i \in 1..count : IF i <= past THEN times[i] <= time ELSE times[i] >= time
    <2>1. Len(times) \in Nat
      OBVIOUS
    <2>2. \A i \in 1..count : i \in 1..Len(times)
      BY <2>1
    <2> QED BY <2>2 DEF Splits
  <1>2. IsFiniteSet(1..count) /\ IsFiniteSet(beyond)
        /\ Cardinality(beyond) = IF count > past THEN count - past ELSE 0
    <2>1. IsFiniteSet(1..count)
      BY FS_Interval
    <2>2. past + 1 \in Int /\ count \in Int
      OBVIOUS
    <2>3. IsFiniteSet(beyond)
      BY <2>2, FS_Interval
    <2>4. Cardinality(beyond) = IF past + 1 > count THEN 0 ELSE count - (past + 1) + 1
      BY <2>2, FS_Interval
    <2> HIDE DEF beyond
    <2>5. CASE past + 1 > count
      BY <2>1, <2>3, <2>4, <2>5
    <2>6. CASE ~(past + 1 > count)
      BY <2>1, <2>3, <2>4, <2>6
    <2> QED BY <2>5, <2>6
  <1>3. later \subseteq beyond /\ beyond \subseteq from
    BY <1>1
  <1>4. IsFiniteSet(from)
    BY <1>2, FS_Subset
  <1>5. Cardinality(later) <= Cardinality(beyond) /\ Cardinality(beyond) <= Cardinality(from)
    BY <1>2, <1>3, <1>4, FS_Subset
  <1> QED BY <1>2, <1>5

(***************************************************************************)
(* The steps.                                                              *)
(***************************************************************************)
\* Time passes.
LEMMA TickStep ==
    ASSUME StateInv, Tick
    PROVE  StateInv'
  <1>1. /\ now' = now + 1 /\ now \in Nat
        /\ UNCHANGED <<watch, reporting, published, conn, sent, reading, news, ends, used>>
    BY DEF Tick, StateInv, StateTypeOK
  <1>2. StateTypeOK'
    BY <1>1 DEF StateInv, StateTypeOK
  <1>3. Counted'
    <2>1. watch.at \in Nat /\ \A c \in Conns : conn[c].stamp \in Nat
      BY DEF StateInv, StateTypeOK, Watches
    <2>2. \A p \in published \cup reading.of : p.at \in Nat
      BY DEF StateInv, StateTypeOK, States
    <2>3. \A time \in Nat : time <= now => time <= now'
      BY <1>1
    <2>4. Stamped(watch.turns, watch.at)'
      BY <1>1, <2>1, <2>3 DEF StateInv, Counted, Stamped
    <2>5. \A c \in Conns : conn[c].at = "publishes" => Stamped(conn[c].turns, conn[c].stamp)'
      BY <1>1, <2>1, <2>3 DEF StateInv, Counted, Stamped
    <2>6. \A p \in published \cup reading.of : Stamped(p.turns, p.at)'
      BY <1>1, <2>2, <2>3 DEF StateInv, Counted, Stamped
    <2> QED BY <1>1, <2>4, <2>5, <2>6 DEF StateInv, Counted
  <1>4. Read'
    BY <1>1 DEF StateInv, Read, Since
  <1>5. Calm'
    BY <1>1 DEF StateInv, StateTypeOK, Calm
  <1>6. SendShows' /\ OwnPublisher' /\ OrphanMarked'
    BY <1>1 DEF StateInv, SendShows, OwnPublisher, OrphanMarked
  <1> QED BY <1>2, <1>3, <1>4, <1>5, <1>6 DEF StateInv

\* The program reports: a turn may end, no earlier than any stamp.
LEMMA ReportStep ==
    ASSUME StateInv, NEW state \in Reports, Report(state)
    PROVE  StateInv'
  <1>1. /\ reporting = {}
        /\ watch' = [state |-> state, at |-> now,
                     inTurn |-> Starts(state) \/ (watch.inTurn /\ ~EndsTurn(state)),
                     turns |-> watch.turns + IF EndsTurn(state) THEN 1 ELSE 0]
        /\ ends' = IF EndsTurn(state) THEN Append(ends, now) ELSE ends
        /\ news' = TRUE /\ used' = [used EXCEPT !.reports = @ + 1]
        /\ UNCHANGED <<now, reporting, published, conn, sent, reading>>
    BY DEF Report
  <1>2. /\ StateTypeOK /\ now \in Nat /\ ends \in Seq(Nat)
        /\ watch.turns \in Nat /\ watch.at \in Nat /\ watch.inTurn \in BOOLEAN
    BY DEF StateInv, StateTypeOK, Watches
  <1>3. ends' \in Seq(Nat) /\ watch' \in Watches
    <2>1. Append(ends, now) \in Seq(Nat)
      BY <1>2, AppendProperties
    <2>2. (Starts(state) \/ (watch.inTurn /\ ~EndsTurn(state))) \in BOOLEAN
      BY <1>2 DEF Starts, EndsTurn
    <2> QED BY <1>1, <1>2, <2>1, <2>2 DEF Watches
  <1>4. StateTypeOK'
    <2>1. /\ used'.sends = used.sends /\ used'.reports = used.reports + 1
          /\ used'.published = used.published
          /\ used' = [reports |-> used'.reports, published |-> used'.published,
                      sends |-> used'.sends]
      BY <1>1, <1>2 DEF StateTypeOK
    <2> QED BY <1>1, <1>2, <1>3, <2>1 DEF StateTypeOK
  <1>5. ASSUME NEW past \in Nat, NEW time \in Nat, Stamped(past, time)
        PROVE  time <= now' /\ Splits(ends', past, time)
    BY <1>1, <1>2, <1>5, SplitsGrow DEF Stamped
  <1>6. watch'.turns = Len(ends') /\ watch'.at = now' /\ Splits(ends', watch'.turns, watch'.at)
    <2>1. watch.turns = Len(ends) /\ Splits(ends, watch.turns, watch.at) /\ watch.at <= now
      BY DEF StateInv, Counted, Stamped
    <2>2. /\ Splits(ends, watch.turns, now) /\ Splits(Append(ends, now), watch.turns + 1, now)
          /\ Len(Append(ends, now)) = Len(ends) + 1
      BY <1>2, <2>1, SplitsAll, SplitsNow, AppendProperties
    <2> QED BY <1>1, <1>2, <2>1, <2>2
  <1>7. Counted'
    <2>1. \A c \in Conns : conn[c].at \notin {"stamps", "publishes"}
      BY <1>1 DEF StateInv, Counted
    <2>2. \A p \in published \cup reading.of : p.turns \in Nat /\ p.at \in Nat
      BY <1>2 DEF StateTypeOK, States
    <2>3. \A p \in published \cup reading.of : p.at <= now' /\ Splits(ends', p.turns, p.at)
      BY <1>5, <2>2 DEF StateInv, Counted
    <2>4. now' \in Nat
      BY <1>1, <1>2
    <2> QED BY <1>1, <1>6, <2>1, <2>3, <2>4 DEF Counted, Stamped
  <1>8. Read'
    <2>1. \A report \in reading.report : report.turns \in Nat
      BY <1>2 DEF StateTypeOK, Watches
    <2>2. Len(ends) \in Nat /\ Len(ends) <= Len(ends')
      BY <1>1, <1>2, AppendProperties
    <2>3. Len(ends') \in Nat
      BY <1>3
    <2>4. \A report \in reading.report : report.turns <= Len(ends')
      BY <2>1, <2>2, <2>3 DEF StateInv, Read
    <2> QED BY <1>1, <2>4 DEF StateInv, Read, Since
  <1>9. Calm' /\ SendShows'
    BY <1>1 DEF StateInv, Calm, SendShows
  <1>10. OwnPublisher' /\ OrphanMarked'
    BY <1>1 DEF StateInv, OwnPublisher, OrphanMarked
  <1> QED BY <1>4, <1>7, <1>8, <1>9, <1>10 DEF StateInv

\* A connection counts the turns, and the reports are held back.
LEMMA CountStep ==
    ASSUME StateInv, NEW c \in Conns, NEW state \in SUBSET Rails, Count(c, state)
    PROVE  StateInv'
  <1>1. /\ conn[c].at = "open" /\ reporting = {} /\ reporting' = {c}
        /\ conn' = [conn EXCEPT ![c] = [@ EXCEPT !.at = "stamps", !.turns = watch.turns,
                                                  !.state = state]]
        /\ used' = [used EXCEPT !.published = @ + 1]
        /\ UNCHANGED <<now, watch, published, sent, reading, news, ends>>
    BY DEF Count, Keeps
  <1>2. /\ StateTypeOK /\ watch.turns \in Nat
        /\ conn \in [Conns -> [at: {"open", "stamps", "publishes", "gone"}, turns: Nat, stamp: Nat,
                               state: SUBSET Rails]]
    BY DEF StateInv, StateTypeOK, Watches
  <1>3. /\ conn' \in [Conns -> [at: {"open", "stamps", "publishes", "gone"}, turns: Nat, stamp: Nat,
                                state: SUBSET Rails]]
        /\ conn'[c].at = "stamps" /\ conn'[c].turns = watch.turns
        /\ \A d \in Conns : d # c => conn'[d] = conn[d]
    BY <1>1, <1>2
  <1>4. StateTypeOK'
    <2>1. /\ used'.sends = used.sends /\ used'.published = used.published + 1
          /\ used'.reports = used.reports
          /\ used' = [reports |-> used'.reports, published |-> used'.published,
                      sends |-> used'.sends]
      BY <1>1, <1>2 DEF StateTypeOK
    <2> QED BY <1>1, <1>2, <1>3, <2>1 DEF StateTypeOK
  <1>5. Counted'
    <2>1. \A d \in Conns : conn[d].at \notin {"stamps", "publishes"}
      BY <1>1 DEF StateInv, Counted
    <2>2. watch.turns = Len(ends)
      BY DEF StateInv, Counted
    <2>3. \A d \in Conns : conn'[d].at \in {"stamps", "publishes"}
                             => d = c /\ conn'[d].at = "stamps"
      BY <1>3, <2>1
    <2>4. Stamped(watch.turns, watch.at)' /\ \A p \in published \cup reading.of : Stamped(p.turns, p.at)'
      BY <1>1 DEF StateInv, Counted, Stamped
    <2> QED BY <1>1, <1>3, <2>2, <2>3, <2>4 DEF Counted
  <1>6. Read' /\ Calm' /\ SendShows' /\ OwnPublisher'
    <2>1. used'.sends = used.sends
      BY <1>1, <1>2 DEF StateTypeOK
    <2> QED BY <1>1, <2>1 DEF StateInv, Read, Since, Calm, SendShows, OwnPublisher
  <1>7. OrphanMarked'
    <2>1. \A d \in Conns : conn'[d].at = "gone" <=> conn[d].at = "gone"
      BY <1>1, <1>3
    <2>2. \A p \in published : p.by \in Conns
      BY <1>2 DEF StateTypeOK, States
    <2> QED BY <1>1, <2>1, <2>2 DEF StateInv, OrphanMarked
  <1> QED BY <1>4, <1>5, <1>6, <1>7 DEF StateInv

\* It takes the time for a stamp: no turn has ended since it counted them.
LEMMA StampStep ==
    ASSUME StateInv, NEW c \in Conns, Stamp(c)
    PROVE  StateInv'
  <1>1. /\ conn[c].at = "stamps"
        /\ conn' = [conn EXCEPT ![c].at = "publishes", ![c].stamp = now]
        /\ UNCHANGED <<now, watch, reporting, published, sent, reading, news, ends, used>>
    BY DEF Stamp
  <1>2. /\ StateTypeOK /\ watch.turns \in Nat /\ watch.at \in Nat /\ now \in Nat
        /\ ends \in Seq(Nat)
        /\ conn \in [Conns -> [at: {"open", "stamps", "publishes", "gone"}, turns: Nat, stamp: Nat,
                               state: SUBSET Rails]]
    BY DEF StateInv, StateTypeOK, Watches
  <1>3. /\ conn' \in [Conns -> [at: {"open", "stamps", "publishes", "gone"}, turns: Nat, stamp: Nat,
                                state: SUBSET Rails]]
        /\ conn'[c].at = "publishes" /\ conn'[c].turns = conn[c].turns /\ conn'[c].stamp = now
        /\ \A d \in Conns : d # c => conn'[d] = conn[d]
    BY <1>1, <1>2
  <1>4. StateTypeOK'
    BY <1>1, <1>2, <1>3 DEF StateTypeOK
  <1>5. Counted'
    <2>1. conn[c].turns = Len(ends) /\ reporting = {c}
      BY <1>1 DEF StateInv, Counted
    <2>2. watch.turns = Len(ends) /\ Splits(ends, watch.turns, watch.at) /\ watch.at <= now
      BY DEF StateInv, Counted, Stamped
    <2>3. Splits(ends, watch.turns, now)
      BY <1>2, <2>2, SplitsAll
    <2>4. Stamped(conn[c].turns, conn[c].stamp)'
      BY <1>1, <1>2, <1>3, <2>1, <2>2, <2>3 DEF Stamped
    <2>5. \A d \in Conns : d # c => (conn[d].at = "publishes" => Stamped(conn[d].turns, conn[d].stamp)')
      BY <1>1, <1>3 DEF StateInv, Counted, Stamped
    <2>6. Stamped(watch.turns, watch.at)' /\ \A p \in published \cup reading.of : Stamped(p.turns, p.at)'
      BY <1>1 DEF StateInv, Counted, Stamped
    <2>7. \A d \in Conns :
            /\ conn'[d].at \in {"stamps", "publishes"} =>
                  reporting = {d} /\ conn'[d].turns = Len(ends)
            /\ conn'[d].at = "publishes" => Stamped(conn[d].turns, conn[d].stamp)'
      BY <1>3, <2>1, <2>4, <2>5 DEF StateInv, Counted
    <2> QED BY <1>1, <2>2, <2>6, <2>7 DEF Counted
  <1>6. Read' /\ Calm' /\ SendShows' /\ OwnPublisher'
    BY <1>1 DEF StateInv, Read, Since, Calm, SendShows, OwnPublisher
  <1>7. OrphanMarked'
    <2>1. \A d \in Conns : conn'[d].at = "gone" <=> conn[d].at = "gone"
      BY <1>1, <1>3
    <2>2. \A p \in published : p.by \in Conns
      BY <1>2 DEF StateTypeOK, States
    <2> QED BY <1>1, <2>1, <2>2 DEF StateInv, OrphanMarked
  <1> QED BY <1>4, <1>5, <1>6, <1>7 DEF StateInv

\* It publishes what it counted under its stamp, and lets the reports on.
LEMMA PublishStep ==
    ASSUME StateInv, NEW c \in Conns, Publish(c)
    PROVE  StateInv'
  <1> DEFINE Made(rail) == [rail |-> rail, at |-> conn[c].stamp, publisher |-> {c},
                            by |-> c, turns |-> conn[c].turns]
             Opened == [at |-> "open", turns |-> 0, stamp |-> 0, state |-> {}]
  <1>1. /\ conn[c].at = "publishes"
        /\ published' = {Made(rail) : rail \in conn[c].state}
        /\ reporting' = reporting \ {c} /\ news' = TRUE
        /\ conn' = [conn EXCEPT ![c] = Opened]
        /\ UNCHANGED <<now, watch, sent, reading, ends, used>>
    BY DEF Publish
  <1>2. /\ StateTypeOK
        /\ conn \in [Conns -> [at: {"open", "stamps", "publishes", "gone"}, turns: Nat, stamp: Nat,
                               state: SUBSET Rails]]
    BY DEF StateInv, StateTypeOK
  <1>3. /\ conn' \in [Conns -> [at: {"open", "stamps", "publishes", "gone"}, turns: Nat, stamp: Nat,
                                state: SUBSET Rails]]
        /\ conn'[c].at = "open"
        /\ \A d \in Conns : d # c => conn'[d] = conn[d]
    BY <1>1, <1>2
  <1>4. \A p \in published' : /\ p \in States /\ p.by = c /\ p.publisher = {c}
                              /\ p.at = conn[c].stamp /\ p.turns = conn[c].turns
    <2>1. conn[c].stamp \in Nat /\ conn[c].turns \in Nat /\ conn[c].state \subseteq Rails
      BY <1>2
    <2> QED BY <1>1, <2>1 DEF States
  <1>5. StateTypeOK'
    BY <1>1, <1>2, <1>3, <1>4 DEF StateTypeOK
  <1>6. Counted'
    <2>1. Stamped(conn[c].turns, conn[c].stamp) /\ reporting = {c}
      BY <1>1 DEF StateInv, Counted
    <2>2. \A p \in published' : Stamped(p.turns, p.at)'
      BY <1>1, <1>4, <2>1 DEF Stamped
    <2>3. \A d \in Conns : conn'[d].at \notin {"stamps", "publishes"}
      BY <1>3, <2>1 DEF StateInv, Counted
    <2>4. watch.turns = Len(ends) /\ Stamped(watch.turns, watch.at)'
          /\ \A p \in reading.of : Stamped(p.turns, p.at)'
      BY <1>1 DEF StateInv, Counted, Stamped
    <2> QED BY <1>1, <2>2, <2>3, <2>4 DEF Counted
  <1>7. Read' /\ Calm' /\ SendShows'
    BY <1>1 DEF StateInv, Read, Since, Calm, SendShows
  <1>8. OwnPublisher' /\ OrphanMarked'
    BY <1>3, <1>4 DEF OwnPublisher, OrphanMarked
  <1> QED BY <1>5, <1>6, <1>7, <1>8 DEF StateInv

\* A connection goes: it keeps no state any more, and no other's is touched.
LEMMA GoneStep ==
    ASSUME StateInv, NEW c \in Conns, PublisherGone(c)
    PROVE  StateInv'
  <1> DEFINE Left(p) == [p EXCEPT !.publisher = @ \ {c}]
  <1>1. /\ conn[c].at = "open" /\ conn' = [conn EXCEPT ![c].at = "gone"]
        /\ published' = {Left(p) : p \in published}
        /\ UNCHANGED <<now, watch, reporting, sent, reading, news, ends, used>>
    BY DEF PublisherGone
  <1>2. /\ StateTypeOK /\ published \subseteq States
        /\ conn \in [Conns -> [at: {"open", "stamps", "publishes", "gone"}, turns: Nat, stamp: Nat,
                               state: SUBSET Rails]]
    BY DEF StateInv, StateTypeOK
  <1>3. /\ conn' \in [Conns -> [at: {"open", "stamps", "publishes", "gone"}, turns: Nat, stamp: Nat,
                                state: SUBSET Rails]]
        /\ conn'[c].at = "gone"
        /\ \A d \in Conns : d # c => conn'[d] = conn[d]
    BY <1>1, <1>2
  <1>4. \A p \in published : /\ Left(p) \in States /\ Left(p).by = p.by /\ Left(p).at = p.at
                             /\ Left(p).turns = p.turns /\ Left(p).publisher = p.publisher \ {c}
    BY <1>2 DEF States
  <1>5. \A q \in published' : \E p \in published :
            /\ q \in States /\ q.by = p.by /\ q.at = p.at /\ q.turns = p.turns
            /\ q.publisher = p.publisher \ {c}
    <2> SUFFICES ASSUME NEW q \in published'
                 PROVE  \E p \in published :
                            /\ q \in States /\ q.by = p.by /\ q.at = p.at /\ q.turns = p.turns
                            /\ q.publisher = p.publisher \ {c}
      OBVIOUS
    <2>1. PICK p \in published : q = Left(p)
      BY <1>1
    <2> HIDE DEF Left
    <2> QED BY <1>4, <2>1
  <1>6. StateTypeOK'
    BY <1>1, <1>2, <1>3, <1>5 DEF StateTypeOK
  <1>7. Counted'
    <2>1. \A p \in published : Stamped(p.turns, p.at)
      BY DEF StateInv, Counted
    <2>2. \A q \in published' : Stamped(q.turns, q.at)'
      BY <1>1, <1>5, <2>1 DEF Stamped
    <2>3. \A d \in Conns :
            /\ conn'[d].at \in {"stamps", "publishes"} => conn'[d] = conn[d]
            /\ conn'[d].at \in {"stamps", "publishes"} =>
                  reporting = {d} /\ conn[d].turns = Len(ends)
            /\ conn'[d].at = "publishes" => Stamped(conn[d].turns, conn[d].stamp)
      BY <1>3 DEF StateInv, Counted
    <2>4. watch.turns = Len(ends) /\ Stamped(watch.turns, watch.at)'
          /\ \A p \in reading.of : Stamped(p.turns, p.at)'
      BY <1>1 DEF StateInv, Counted, Stamped
    <2>5. \A d \in Conns : conn'[d].at = "publishes" => Stamped(conn[d].turns, conn[d].stamp)'
      BY <1>1, <2>3 DEF Stamped
    <2> QED BY <1>1, <2>2, <2>3, <2>4, <2>5 DEF Counted
  <1>8. Read' /\ SendShows'
    BY <1>1 DEF StateInv, Read, Since, SendShows
  <1>9. Calm'
    <2>1. sent > 0 /\ ~news => \A q \in published' : q.at <= sent
      BY <1>5 DEF StateInv, Calm
    <2> QED BY <1>1, <2>1 DEF StateInv, Calm
  <1>10. OwnPublisher'
    BY <1>5 DEF StateInv, OwnPublisher
  <1>11. OrphanMarked'
    <2> SUFFICES ASSUME NEW q \in published' PROVE (q.publisher # {}) <=> (conn'[q.by].at # "gone")
      BY DEF OrphanMarked
    <2>1. PICK p \in published : q.by = p.by /\ q.publisher = p.publisher \ {c}
      BY <1>5
    <2>2. /\ p.publisher \subseteq {p.by} /\ p.by \in Conns
          /\ (p.publisher # {}) <=> (conn[p.by].at # "gone")
      BY <1>2 DEF StateInv, OwnPublisher, OrphanMarked, States
    <2>3. CASE p.by = c
      BY <1>3, <2>1, <2>2, <2>3
    <2>4. CASE p.by # c
      <3>1. q.publisher = p.publisher
        BY <2>1, <2>2, <2>4
      <3> QED BY <1>3, <2>1, <2>2, <2>4, <3>1
    <2> QED BY <2>3, <2>4
  <1> QED BY <1>6, <1>7, <1>8, <1>9, <1>10, <1>11 DEF StateInv

\* A send is noted.
LEMMA NoteStep ==
    ASSUME StateInv, NoteSent
    PROVE  StateInv'
  <1>1. /\ used.sends = 0 /\ used' = [used EXCEPT !.sends = 1]
        /\ sent' = now /\ news' = FALSE
        /\ UNCHANGED <<now, watch, reporting, published, conn, reading, ends>>
    BY DEF NoteSent
  <1>2. StateTypeOK /\ now \in Nat /\ sent \in Nat
    BY DEF StateInv, StateTypeOK
  <1>3. /\ used'.sends = 1 /\ used'.published = used.published /\ used'.reports = used.reports
        /\ used' = [reports |-> used'.reports, published |-> used'.published, sends |-> used'.sends]
    BY <1>1, <1>2 DEF StateTypeOK
  <1>4. StateTypeOK'
    BY <1>1, <1>2, <1>3 DEF StateTypeOK
  <1>5. Counted' /\ Read' /\ OwnPublisher' /\ OrphanMarked'
    BY <1>1 DEF StateInv, Counted, Stamped, Read, Since, OwnPublisher, OrphanMarked
  <1>6. sent = 0 /\ ~reading.calm
    BY <1>1, <1>2 DEF StateInv, Calm
  <1>7. Calm'
    <2>1. watch.at <= now /\ \A p \in published : p.at <= now
      BY DEF StateInv, Counted, Stamped
    <2> QED BY <1>1, <1>2, <1>3, <1>6, <2>1 DEF Calm
  <1>8. SendShows'
    BY <1>1, <1>6 DEF SendShows
  <1> QED BY <1>4, <1>5, <1>7, <1>8 DEF StateInv

\* A reader takes the time of the send first, and then the report.
LEMMA ReadStep ==
    ASSUME StateInv, ReadSent \/ ReadReport
    PROVE  StateInv'
  <1>1. UNCHANGED <<now, watch, reporting, published, conn, sent, news, ends, used>>
    BY DEF ReadSent, ReadReport
  <1>2. /\ StateTypeOK /\ sent \in Nat /\ news \in BOOLEAN /\ watch \in Watches
    BY DEF StateInv, StateTypeOK
  <1>3. OwnPublisher' /\ OrphanMarked'
    BY <1>1 DEF StateInv, OwnPublisher, OrphanMarked
  <1>4. CASE ReadSent
    <2>1. reading' = [at |-> "reports", sent |-> sent, report |-> {}, calm |-> sent > 0 /\ ~news,
                      of |-> {}, status |-> "none", runs |-> 0]
      BY <1>4 DEF ReadSent, NoReading
    <2>2. /\ reading'.at = "reports" /\ reading'.sent = sent /\ reading'.report = {}
          /\ reading'.of = {} /\ reading'.runs = 0 /\ reading'.calm = (sent > 0 /\ ~news)
      BY <2>1
    <2>3. StateTypeOK'
      BY <1>1, <1>2, <2>1, <2>2 DEF StateTypeOK
    <2>4. Counted' /\ Read' /\ Calm' /\ SendShows'
      BY <1>1, <2>2 DEF StateInv, Counted, Stamped, Read, Calm, SendShows
    <2> QED BY <1>3, <2>3, <2>4 DEF StateInv
  <1>5. CASE ReadReport
    <2>1. /\ reading.at = "reports"
          /\ reading' = [reading EXCEPT !.at = "state",
                                        !.report = IF watch.at = 0 THEN {} ELSE {watch}]
      BY <1>5 DEF ReadReport
    <2>2. /\ reading'.at = "state" /\ reading'.report = IF watch.at = 0 THEN {} ELSE {watch}
          /\ reading'.sent = reading.sent /\ reading'.calm = reading.calm
          /\ reading'.of = reading.of /\ reading'.runs = reading.runs
          /\ reading' = [at |-> reading'.at, sent |-> reading'.sent, report |-> reading'.report,
                         calm |-> reading'.calm, of |-> reading'.of, status |-> reading'.status,
                         runs |-> reading'.runs]
      BY <1>2, <2>1 DEF StateTypeOK
    <2>3. StateTypeOK'
      BY <1>1, <1>2, <2>2 DEF StateTypeOK
    <2>4. Counted' /\ SendShows'
      BY <1>1, <2>2 DEF StateInv, Counted, Stamped, SendShows
    <2>5. Read'
      <3>1. watch.turns = Len(ends) /\ Len(ends) \in Nat
        BY <1>2 DEF StateInv, StateTypeOK, Counted
      <3>2. \A report \in reading'.report : report = watch /\ reading'.report = {report}
        BY <2>2
      <3> QED BY <1>1, <2>2, <3>1, <3>2 DEF Read
    <2>6. Calm'
      <3>1. \A report \in reading'.report : report = watch
        BY <2>2
      <3> QED BY <1>1, <2>2, <3>1 DEF StateInv, Calm
    <2> QED BY <1>3, <2>3, <2>4, <2>5, <2>6 DEF StateInv
  <1> QED BY <1>4, <1>5

\* It takes the state last, and reads.
LEMMA ShownStep ==
    ASSUME StateInv, ReadState
    PROVE  StateInv'
  <1>1. /\ reading.at = "state"
        /\ UNCHANGED <<now, watch, reporting, published, conn, sent, news, ends, used>>
    BY DEF ReadState
  <1>2. /\ StateTypeOK /\ sent \in Nat /\ reading.sent \in Nat /\ published \subseteq States
        /\ reading.report \subseteq Watches
    BY DEF StateInv, StateTypeOK
  <1>3. OwnPublisher' /\ OrphanMarked'
    BY <1>1 DEF StateInv, OwnPublisher, OrphanMarked
  <1>4. CASE reading' = [NoReading EXCEPT !.at = "shown"]
    <2>1. reading' = [at |-> "shown", sent |-> 0, report |-> {}, calm |-> FALSE,
                      of |-> {}, status |-> "none", runs |-> 0]
      BY <1>4 DEF NoReading
    <2>2. /\ reading'.at = "shown" /\ reading'.sent = 0 /\ reading'.report = {}
          /\ reading'.of = {} /\ reading'.runs = 0 /\ reading'.calm = FALSE
      BY <2>1
    <2>3. StateTypeOK'
      BY <1>1, <1>2, <2>1, <2>2 DEF StateTypeOK
    <2>4. Counted' /\ Read' /\ Calm' /\ SendShows'
      BY <1>1, <2>2 DEF StateInv, Counted, Stamped, Read, Calm, SendShows
    <2> QED BY <1>3, <2>3, <2>4 DEF StateInv
  <1>5. ASSUME NEW p \in published, NEW status, NEW runs \in Nat, Show(p, status, runs),
               \A report \in Newest(p) : runs = p.rail.runs + Since(p, report),
               reading.calm /\ ~news => status = "running"
        PROVE  StateInv'
    <2>1. reading' = [reading EXCEPT !.at = "shown", !.of = {p}, !.status = status, !.runs = runs,
                                     !.report = Newest(p)]
      BY <1>5 DEF Show
    <2>2. /\ reading'.at = "shown" /\ reading'.report = Newest(p) /\ reading'.of = {p}
          /\ reading'.sent = reading.sent /\ reading'.calm = reading.calm
          /\ reading'.runs = runs /\ reading'.status = status
          /\ reading' = [at |-> reading'.at, sent |-> reading'.sent, report |-> reading'.report,
                         calm |-> reading'.calm, of |-> reading'.of, status |-> reading'.status,
                         runs |-> reading'.runs]
      BY <1>2, <2>1 DEF StateTypeOK
    <2>3. Newest(p) \subseteq reading.report
      BY DEF Newest
    <2>4. StateTypeOK'
      BY <1>1, <1>2, <2>2, <2>3 DEF StateTypeOK
    <2>5. Counted'
      BY <1>1, <2>2 DEF StateInv, Counted, Stamped
    <2>6. Read'
      <3>1. \A report \in Newest(p) : Newest(p) = {report} /\ report.turns <= Len(ends)
        BY <2>3 DEF StateInv, Read
      <3> QED BY <1>1, <1>5, <2>2, <3>1 DEF Read, Since
    <2>7. Calm'
      BY <1>1, <2>2, <2>3 DEF StateInv, Calm
    <2>8. SendShows'
      BY <1>1, <1>5, <2>2 DEF SendShows
    <2> QED BY <1>3, <2>4, <2>5, <2>6, <2>7, <2>8 DEF StateInv
  <1>6. ASSUME NEW p \in published
        PROVE  /\ p.rail.runs \in Nat /\ p.at \in Nat /\ p.turns \in Nat
               /\ reading.calm /\ ~news => SentSince(p) /\ Newest(p) = {}
    <2>1. p.rail.runs \in Nat /\ p.at \in Nat /\ p.turns \in Nat
      BY <1>2, SessionStateAssumption DEF States
    <2>2. ASSUME reading.calm /\ ~news PROVE SentSince(p) /\ Newest(p) = {}
      <3>1. reading.sent = sent /\ sent > 0 /\ p.at <= sent
        BY <2>2 DEF StateInv, Calm
      <3>2. SentSince(p)
        BY <1>2, <2>1, <3>1 DEF SentSince
      <3>3. \A report \in reading.report : report.at <= sent /\ report.at \in Nat
        BY <1>2, <2>2 DEF StateInv, Calm, Watches
      <3>4. \A report \in reading.report : ~(report.at > reading.sent)
        BY <1>2, <3>1, <3>3
      <3> QED BY <3>2, <3>4 DEF Newest
    <2> QED BY <2>1, <2>2
  <1>7. ASSUME NEW p \in published, NEW report \in Newest(p),
               Show(p, Word(report.state), p.rail.runs + Since(p, report))
        PROVE  StateInv'
    <2>1. report \in reading.report /\ report.turns \in Nat /\ reading.report = {report}
      BY <1>2, <1>7 DEF StateInv, Read, Newest, Watches
    <2>2. p.rail.runs + Since(p, report) \in Nat
      BY <1>6, <2>1 DEF Since
    <2>3. \A r \in Newest(p) : r = report
      BY <2>1 DEF Newest
    <2>4. ~(reading.calm /\ ~news)
      BY <1>6, <1>7
    <2> QED BY <1>5, <1>7, <2>2, <2>3, <2>4
  <1>8. ASSUME NEW p \in published, Newest(p) = {},
               Show(p, IF SentSince(p) THEN "running" ELSE p.rail.status, p.rail.runs)
        PROVE  StateInv'
    <2>1. reading.calm /\ ~news => SentSince(p)
      BY <1>6
    <2> DEFINE status == IF SentSince(p) THEN "running" ELSE p.rail.status
    <2>2. Show(p, status, p.rail.runs) /\ (reading.calm /\ ~news => status = "running")
      BY <1>8, <2>1
    <2> HIDE DEF status
    <2> QED BY <1>5, <1>6, <1>8, <2>2
  <1> QED BY <1>4, <1>7, <1>8 DEF ReadState

(***************************************************************************)
(* The theorems.                                                           *)
(***************************************************************************)
\* Whatever is stamped splits the turns by its stamp, and what a reader has
\* is as old as the order of its steps allows.
THEOREM StateInvariant == StateSpec => []StateInv
  <1>1. StateInit => StateInv
    <2> SUFFICES ASSUME StateInit PROVE StateInv
      OBVIOUS
    <2>1. StateTypeOK
      <3>1. /\ watch \in Watches /\ ends \in Seq(Nat)
            /\ conn \in [Conns -> [at: {"open", "stamps", "publishes", "gone"}, turns: Nat,
                                   stamp: Nat, state: SUBSET Rails]]
        BY DEF StateInit, Watches
      <3> QED BY <3>1 DEF StateInit, StateTypeOK, NoReading
    <2>2. Counted
      <3>1. \A i \in 1..Len(ends) : FALSE
        BY DEF StateInit
      <3>2. Len(ends) = 0
        BY DEF StateInit
      <3> QED BY <3>1, <3>2 DEF StateInit, Counted, Stamped, Splits, NoReading
    <2>3. Read /\ Calm /\ SendShows /\ OwnPublisher /\ OrphanMarked
      BY DEF StateInit, NoReading, Read, Calm, SendShows, OwnPublisher, OrphanMarked
    <2> QED BY <2>1, <2>2, <2>3 DEF StateInv
  <1>2. StateInv /\ [StateNext]_stateVars => StateInv'
    <2> SUFFICES ASSUME StateInv, [StateNext]_stateVars PROVE StateInv'
      OBVIOUS
    <2>1. CASE Tick \/ NoteSent
      BY <2>1, TickStep, NoteStep
    <2>2. ASSUME NEW state \in Reports, Report(state) PROVE StateInv'
      BY <2>2, ReportStep
    <2>3. ASSUME NEW c \in Conns, NEW state \in {{}} \cup {{rail} : rail \in Rails}, Count(c, state)
          PROVE  StateInv'
      <3>1. state \in SUBSET Rails
        OBVIOUS
      <3> QED BY <2>3, <3>1, CountStep
    <2>4. ASSUME NEW c \in Conns, Stamp(c) \/ Publish(c) \/ PublisherGone(c) PROVE StateInv'
      BY <2>4, StampStep, PublishStep, GoneStep
    <2>5. CASE ReadSent \/ ReadReport \/ ReadState
      BY <2>5, ReadStep, ShownStep
    <2>6. CASE UNCHANGED stateVars
      <3>1. UNCHANGED <<now, watch, reporting, published, conn, sent, reading, news, ends, used>>
        BY <2>6 DEF stateVars
      <3>2. StateTypeOK' /\ Counted' /\ Read'
        BY <3>1 DEF StateInv, StateTypeOK, Counted, Stamped, Read, Since
      <3>3. Calm' /\ SendShows' /\ OwnPublisher' /\ OrphanMarked'
        BY <3>1 DEF StateInv, Calm, SendShows, OwnPublisher, OrphanMarked
      <3> QED BY <3>2, <3>3 DEF StateInv
    <2> QED BY <2>1, <2>2, <2>3, <2>4, <2>5, <2>6 DEF StateNext
  <1> QED BY <1>1, <1>2, PTL DEF StateSpec

\* A reading adds the turns that ended after the window spoke and no others,
\* and never shows the turn before a send as its answer (closed_window.rs
\* published, apply_report), in whatever order reports, states, sends and the
\* reader's own steps come.
THEOREM ReadingTrueAlways == StateSpec => []ReadingTrue
  <1>1. StateInv => ReadingTrue
    <2> SUFFICES ASSUME StateInv PROVE ReadingTrue
      OBVIOUS
    <2>1. RunsAddUp
      <3> SUFFICES ASSUME reading.at = "shown", NEW p \in reading.of, NEW report \in reading.report
                   PROVE  /\ reading.runs >= p.rail.runs + EndedFrom(report, p.at + 1)
                          /\ reading.runs <= p.rail.runs + EndedFrom(report, p.at)
        BY DEF RunsAddUp
      <3>1. /\ reading.runs = p.rail.runs + Since(p, report)
            /\ report.turns <= Len(ends) /\ Splits(ends, p.turns, p.at)
        BY DEF StateInv, Read, Counted, Stamped
      <3>2. /\ p.turns \in Nat /\ p.at \in Nat /\ report.turns \in Nat /\ ends \in Seq(Nat)
            /\ p.rail.runs \in Nat
        BY SessionStateAssumption DEF StateInv, StateTypeOK, States, Watches
      <3>3. /\ EndedFrom(report, p.at + 1) <= Since(p, report)
            /\ Since(p, report) <= EndedFrom(report, p.at)
        BY <3>1, <3>2, TurnsSince DEF EndedFrom, Since
      <3>4. EndedFrom(report, p.at + 1) \in Nat /\ EndedFrom(report, p.at) \in Nat
        <4>1. IsFiniteSet(1..report.turns)
          <5>1. report.turns \in Int
            BY <3>2
          <5> QED BY <5>1, FS_Interval
        <4>2. \A time : IsFiniteSet({i \in 1..report.turns : ends[i] >= time})
          BY <4>1, FS_Subset
        <4> QED BY <4>2, FS_CardinalityType DEF EndedFrom
      <3>5. Since(p, report) \in Nat
        BY <3>2 DEF Since
      <3> QED BY <3>1, <3>2, <3>3, <3>4, <3>5
    <2>2. SendShows
      BY DEF StateInv
    <2> QED BY <2>1, <2>2 DEF ReadingTrue
  <1> QED BY <1>1, StateInvariant, PTL

\* A state is kept current exactly while the connection that published it is
\* there (publish_state, publisher_gone), whichever others come and go.
THEOREM OrphanMarkedAlways == StateSpec => []OrphanMarked
  <1>1. StateInv => OrphanMarked
    BY DEF StateInv
  <1> QED BY <1>1, StateInvariant, PTL
=================================================================================
