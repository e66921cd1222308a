--------------------------- MODULE SessionLogProofs ---------------------------
(***************************************************************************)
(* Proofs that the ring of SessionLog keeps the stream, for every capacity,*)
(* chunk size, set of modes and sizes, and every sequence of calls.        *)
(*                                                                         *)
(* The properties are not inductive: that the head is described correctly  *)
(* after a drop depends on what every record remembers of its start, and   *)
(* `stored` on what every record is charged.  Sound says it of one record, *)
(* RingOK of the records together; both are stated of values, so that the  *)
(* lemmas on pushing, filling and dropping a record need no action.        *)
(***************************************************************************)
EXTENDS SessionLogReads, LogBudget, FiniteSetTheorems, SequenceTheorems, WellFoundedInduction,
        TLAPS

Look(w, p) == IF p = 0 THEN Origin ELSE w[p]

\* What one record must be for a history w
Sound(w, e) ==
    /\ e \in Entry
    /\ Len(e.bytes) <= ChunkCap
    /\ e.seq + Span(e) <= Len(w)
    /\ IF IsResize(e)
       THEN /\ e.bytes = <<>>
            /\ w[e.seq + 1].resize /\ w[e.seq + 1].size = e.size
       ELSE \A j \in 1..Len(e.bytes) :
               /\ ~w[e.seq + j].resize
               /\ e.bytes[j].safe = w[e.seq + j].safe
               /\ e.bytes[j].modes = w[e.seq + j].modes
    /\ e.modes = Look(w, e.seq).modes
    /\ e.clean = Look(w, e.seq).safe
    /\ Look(w, e.seq + Span(e)).upto = Look(w, e.seq).upto + Cost(e)
    /\ Look(w, e.seq + Span(e)).size = IF IsResize(e) THEN e.size ELSE Look(w, e.seq).size

\* What the records es must be for a history w and a head h
RingOK(es, w, h) ==
    /\ es \in Seq(Entry)
    /\ w \in Seq(Past)
    /\ h \in 0..Len(w)
    /\ es = <<>> => h = Len(w)
    /\ es # <<>> => es[1].seq = h /\ es[Len(es)].seq + Span(es[Len(es)]) = Len(w)
    /\ \A i \in 1..Len(es) : Sound(w, es[i])
    /\ \A i \in 1..(Len(es) - 1) : es[i].seq + Span(es[i]) = es[i + 1].seq

Extends(w2, w) ==
    /\ w2 \in Seq(Past) /\ Len(w) <= Len(w2)
    /\ \A p \in 1..Len(w) : w2[p] = w[p]

(***************************************************************************)
(* Lemmas on one record and on the ring.                                   *)
(***************************************************************************)
\* What is remembered of a position is a terminal state.
LEMMA LookType ==
    ASSUME NEW w \in Seq(Past), NEW p \in 0..Len(w)
    PROVE  Look(w, p) \in Past
  <1>1. Origin \in Past
    BY LogAssumption DEF Origin, Past
  <1>2. CASE p = 0
    BY <1>1, <1>2 DEF Look
  <1>3. CASE p # 0
    <2>1. p \in 1..Len(w)
      BY <1>3
    <2>2. w[p] \in Past
      BY <2>1
    <2> QED BY <1>3, <2>2 DEF Look
  <1> QED BY <1>2, <1>3

\* A record's span and cost are numbers, and they are zero only for an empty
\* output record.
LEMMA SpanType ==
    ASSUME NEW e \in Entry
    PROVE  /\ Span(e) \in Nat /\ Cost(e) \in Nat
           /\ Cost(e) >= Span(e)
  BY LogAssumption DEF Span, Cost, Entry, IsResize

\* A sound record stays sound however the history goes on.
LEMMA SoundGrows ==
    ASSUME NEW w \in Seq(Past), NEW w2, Extends(w2, w), NEW e, Sound(w, e)
    PROVE  Sound(w2, e)
  <1>1. e \in Entry /\ e.seq \in Nat /\ Span(e) \in Nat /\ Len(e.bytes) \in Nat
    BY SpanType DEF Sound, Entry
  <1>2. \A p \in 0..Len(w) : Look(w2, p) = Look(w, p)
    BY DEF Extends, Look
  <1>3. e.seq \in 0..Len(w) /\ e.seq + Span(e) \in 0..Len(w)
    BY <1>1 DEF Sound
  <1>4. CASE IsResize(e)
    <2>1. Span(e) = 1 /\ e.seq + 1 \in 1..Len(w)
      BY <1>1, <1>3, <1>4 DEF Span
    <2>2. w2[e.seq + 1] = w[e.seq + 1]
      BY <2>1 DEF Extends
    <2> QED
      BY <1>1, <1>2, <1>3, <1>4, <2>2 DEF Sound, Extends
  <1>5. CASE ~IsResize(e)
    <2>1. Span(e) = Len(e.bytes)
      BY <1>5 DEF Span
    <2>2. ASSUME NEW j \in 1..Len(e.bytes) PROVE w2[e.seq + j] = w[e.seq + j]
      <3>1. e.seq + j \in 1..Len(w)
        BY <1>1, <1>3, <2>1
      <3> QED BY <3>1 DEF Extends
    <2>3. \A j \in 1..Len(e.bytes) :
             /\ ~w2[e.seq + j].resize
             /\ e.bytes[j].safe = w2[e.seq + j].safe
             /\ e.bytes[j].modes = w2[e.seq + j].modes
      BY <1>5, <2>2 DEF Sound
    <2>4. /\ Look(w2, e.seq) = Look(w, e.seq)
          /\ Look(w2, e.seq + Span(e)) = Look(w, e.seq + Span(e))
          /\ e.seq + Span(e) <= Len(w2)
      BY <1>2, <1>3 DEF Extends
    <2> QED
      BY <1>5, <2>3, <2>4 DEF Sound
  <1> QED
    BY <1>4, <1>5

\* Pushing a record that starts at the end of the history.
LEMMA RingPush ==
    ASSUME NEW es, NEW w, NEW h, RingOK(es, w, h),
           NEW w2, Extends(w2, w),
           NEW e, Sound(w2, e), e.seq = Len(w), e.seq + Span(e) = Len(w2)
    PROVE  RingOK(Append(es, e), w2, h)
  <1> DEFINE fs == Append(es, e)
  <1>1. es \in Seq(Entry) /\ e \in Entry /\ w \in Seq(Past) /\ w2 \in Seq(Past)
    BY DEF RingOK, Sound, Extends
  <1>2. /\ fs \in Seq(Entry) /\ Len(fs) = Len(es) + 1 /\ fs[Len(fs)] = e
        /\ \A i \in 1..Len(es) : fs[i] = es[i]
    BY <1>1
  <1> HIDE DEF fs
  <1>3. \A i \in 1..Len(es) : Sound(w2, fs[i])
    BY <1>1, <1>2, SoundGrows DEF RingOK
  <1>4. \A i \in 1..Len(fs) : Sound(w2, fs[i])
    BY <1>1, <1>2, <1>3
  <1>5. h \in 0..Len(w2)
    BY <1>1 DEF RingOK, Extends
  <1>6. fs[1].seq = h
    <2>1. CASE es = <<>>
      BY <2>1, <1>1, <1>2 DEF RingOK
    <2>2. CASE es # <<>>
      <3>1. es[1].seq = h
        BY <2>2 DEF RingOK
      <3>2. 1 \in 1..Len(es)
        BY <2>2, <1>1
      <3> QED BY <3>1, <3>2, <1>2
    <2> QED BY <2>1, <2>2
  <1>7. ASSUME NEW i \in 1..(Len(fs) - 1)
        PROVE  fs[i].seq + Span(fs[i]) = fs[i + 1].seq
    <2>1. CASE i = Len(es)
      BY <2>1, <1>1, <1>2, <1>7 DEF RingOK
    <2>2. CASE i # Len(es)
      BY <2>2, <1>1, <1>2, <1>7 DEF RingOK
    <2> QED BY <2>1, <2>2
  <1>8. fs # <<>> /\ fs[Len(fs)].seq + Span(fs[Len(fs)]) = Len(w2)
    BY <1>1, <1>2
  <1> QED
    BY <1>1, <1>2, <1>4, <1>5, <1>6, <1>7, <1>8 DEF RingOK, fs

\* Adding to the last record.
LEMMA RingFill ==
    ASSUME NEW es, NEW w, NEW h, RingOK(es, w, h), es # <<>>,
           NEW w2, Extends(w2, w),
           NEW e, Sound(w2, e), e.seq = es[Len(es)].seq, e.seq + Span(e) = Len(w2)
    PROVE  RingOK([es EXCEPT ![Len(es)] = e], w2, h)
  <1>0. Len(es) \in Nat /\ Len(es) >= 1
    BY DEF RingOK
  <1> DEFINE fs == [es EXCEPT ![Len(es)] = e]
  <1>1. es \in Seq(Entry) /\ e \in Entry /\ w \in Seq(Past) /\ w2 \in Seq(Past)
        /\ Len(es) \in Nat \ {0}
    BY DEF RingOK, Sound, Extends
  <1>2. /\ fs \in Seq(Entry) /\ Len(fs) = Len(es) /\ fs[Len(fs)] = e
        /\ \A i \in 1..(Len(es) - 1) : fs[i] = es[i]
    BY <1>1
  <1> HIDE DEF fs
  <1>3. ASSUME NEW i \in 1..(Len(es) - 1) PROVE Sound(w2, fs[i])
    <2>1. i \in 1..Len(es) /\ fs[i] = es[i]
      BY <1>0, <1>2
    <2>2. Sound(w, es[i])
      BY <2>1 DEF RingOK
    <2> QED BY <1>1, <2>1, <2>2, SoundGrows
  <1>4. \A i \in 1..Len(fs) : Sound(w2, fs[i])
    BY <1>1, <1>2, <1>3
  <1>5. h \in 0..Len(w2)
    BY <1>1 DEF RingOK, Extends
  <1>6. fs[1].seq = h
    <2>1. CASE Len(es) = 1
      BY <2>1, <1>1, <1>2 DEF RingOK
    <2>2. CASE Len(es) # 1
      <3>1. 1 \in 1..(Len(es) - 1)
        <4>1. \A n \in Nat : n >= 1 /\ n # 1 => 1 \in 1..(n - 1)
          OBVIOUS
        <4> QED BY <4>1, <2>2, <1>0
      <3> QED BY <3>1, <1>2 DEF RingOK
    <2> QED BY <2>1, <2>2
  <1>7. ASSUME NEW i \in 1..(Len(fs) - 1)
        PROVE  fs[i].seq + Span(fs[i]) = fs[i + 1].seq
    <2> i \in 1..(Len(es) - 1) /\ fs[i] = es[i]
      BY <1>1, <1>2, <1>7
    <2>1. CASE i = Len(es) - 1
      BY <2>1, <1>1, <1>2, <1>7 DEF RingOK
    <2>2. CASE i # Len(es) - 1
      <3>1. i + 1 \in 1..(Len(es) - 1) /\ fs[i + 1] = es[i + 1]
        BY <2>2, <1>0, <1>2
      <3> QED BY <3>1 DEF RingOK
    <2> QED BY <2>1, <2>2
  <1>8. fs # <<>> /\ fs[Len(fs)].seq + Span(fs[Len(fs)]) = Len(w2)
    BY <1>1, <1>2
  <1> QED
    BY <1>1, <1>2, <1>4, <1>5, <1>6, <1>7, <1>8 DEF RingOK, fs

\* Dropping the oldest record.
LEMMA RingDrop ==
    ASSUME NEW es, NEW w, NEW h, RingOK(es, w, h), es # <<>>
    PROVE  RingOK(Tail(es), w, es[1].seq + Span(es[1]))
  <1> DEFINE fs == Tail(es)
             g == es[1].seq + Span(es[1])
  <1>1. es \in Seq(Entry) /\ w \in Seq(Past) /\ Len(es) \in Nat \ {0}
    BY DEF RingOK
  <1>2. /\ fs \in Seq(Entry) /\ Len(fs) = Len(es) - 1
        /\ \A i \in 1..Len(fs) : fs[i] = es[i + 1]
    BY <1>1
  <1> HIDE DEF fs
  <1>3. \A i \in 1..Len(fs) : Sound(w, fs[i])
    BY SMTT(30), <1>1, <1>2 DEF RingOK
  <1>4. g \in 0..Len(w)
    <2>1. Sound(w, es[1]) /\ es[1] \in Entry
      BY <1>1 DEF RingOK
    <2>2. es[1].seq \in Nat /\ Span(es[1]) \in Nat
      BY <2>1, SpanType DEF Entry
    <2> QED BY <1>1, <2>1, <2>2 DEF Sound
  <1>5. fs = <<>> => g = Len(w)
    <2>1. HAVE fs = <<>>
    <2>2. Len(es) = 1
      BY <2>1, <1>1, <1>2
    <2> QED BY <2>2, <1>1 DEF RingOK
  <1>6. fs # <<>> => fs[1].seq = g /\ fs[Len(fs)].seq + Span(fs[Len(fs)]) = Len(w)
    <2>1. HAVE fs # <<>>
    <2>2. Len(es) - 1 \in Nat \ {0} /\ Len(fs) = Len(es) - 1
      BY <2>1, <1>1, <1>2
    <2>3. fs[1] = es[2] /\ fs[Len(fs)] = es[Len(es)]
      BY <2>2, <1>1, <1>2
    <2> QED BY <2>2, <2>3, <1>1 DEF RingOK
  <1>7. \A i \in 1..(Len(fs) - 1) : fs[i].seq + Span(fs[i]) = fs[i + 1].seq
    BY SMTT(30), <1>1, <1>2 DEF RingOK
  <1> QED
    BY <1>1, <1>2, <1>3, <1>4, <1>5, <1>6, <1>7 DEF RingOK, fs

(***************************************************************************)
(* Lemmas on the history.                                                  *)
(***************************************************************************)
\* What is charged grows with every position.
Rising(w) ==
    \A p, q \in 0..Len(w) : p < q => Look(w, p).upto < Look(w, q).upto

\* w2 is w with the bytes bs written after it
Grows(w2, w, bs) ==
    /\ Extends(w2, w)
    /\ Len(w2) = Len(w) + Len(bs)
    /\ \A i \in 1..Len(bs) :
          w2[Len(w) + i] = [resize |-> FALSE, safe |-> bs[i].safe, modes |-> bs[i].modes,
                            size |-> Look(w, Len(w)).size,
                            upto |-> Look(w, Len(w)).upto + i]

\* Appending what the bytes leave behind grows the history by them.
LEMMA HistoryGrows ==
    ASSUME written \in Seq(Past), Len(written) = tail_seq, NEW bs \in Seq(Byte)
    PROVE  Grows(written \o AfterBytes(bs), written, bs)
  <1> DEFINE new == AfterBytes(bs)
  <1>1. At(tail_seq) = Look(written, Len(written)) /\ At(tail_seq) \in Past
    BY LookType DEF At, Look
  <1>2. new \in Seq(Past) /\ Len(new) = Len(bs)
    <2>1. Len(bs) \in Nat /\ \A i \in 1..Len(bs) : bs[i] \in Byte
      OBVIOUS
    <2>2. ASSUME NEW i \in 1..Len(bs)
          PROVE  [resize |-> FALSE, safe |-> bs[i].safe, modes |-> bs[i].modes,
                  size |-> At(tail_seq).size, upto |-> At(tail_seq).upto + i] \in Past
      BY <1>1, <2>1 DEF Past, Byte
    <2> QED
      BY <2>1, <2>2 DEF AfterBytes
  <1>3. \A i \in 1..Len(bs) :
           new[i] = [resize |-> FALSE, safe |-> bs[i].safe, modes |-> bs[i].modes,
                     size |-> At(tail_seq).size, upto |-> At(tail_seq).upto + i]
    BY DEF AfterBytes
  <1> HIDE DEF new
  <1>4. /\ written \o new \in Seq(Past)
        /\ Len(written \o new) = Len(written) + Len(bs)
        /\ \A p \in 1..Len(written) : (written \o new)[p] = written[p]
        /\ \A i \in 1..Len(bs) : (written \o new)[Len(written) + i] = new[i]
    BY <1>2
  <1>5. Extends(written \o new, written)
    BY <1>2, <1>4 DEF Extends
  <1> QED
    BY <1>1, <1>3, <1>4, <1>5 DEF Grows, new

\* Charges keep rising when bytes are written.
LEMMA RisingGrows ==
    ASSUME NEW w \in Seq(Past), NEW bs \in Seq(Byte), NEW w2, Grows(w2, w, bs), Rising(w)
    PROVE  Rising(w2)
  <1> DEFINE n == Len(w)
             top == Look(w, n).upto
  <1>0. \A p \in 0..n : Look(w, p).upto \in Nat
    BY LookType DEF Past
  <1>1. n \in Nat /\ Len(bs) \in Nat /\ Len(w2) = n + Len(bs) /\ top \in Nat
    BY <1>0 DEF Grows
  <1>2. \A p \in 0..n : Look(w2, p) = Look(w, p) /\ Look(w, p).upto \in Nat
    BY <1>0, <1>1 DEF Grows, Extends, Look
  <1>3. ASSUME NEW p \in 0..n PROVE Look(w, p).upto <= top
    <2>1. CASE p = n
      BY <2>1, <1>1
    <2>2. CASE p # n
      <3>1. p \in 0..Len(w) /\ n \in 0..Len(w) /\ p < n
        BY <2>2, <1>1
      <3>2. Look(w, p).upto < top
        BY <3>1 DEF Rising
      <3> QED BY <3>2, <1>0, <1>1
    <2> QED BY <2>1, <2>2
  <1>4. ASSUME NEW i \in 1..Len(bs) PROVE Look(w2, n + i).upto = top + i
    <2>1. n + i # 0
      BY <1>1
    <2>2. w2[Len(w) + i] = [resize |-> FALSE, safe |-> bs[i].safe, modes |-> bs[i].modes,
                            size |-> Look(w, Len(w)).size,
                            upto |-> Look(w, Len(w)).upto + i]
      BY DEF Grows
    <2> QED BY <2>1, <2>2 DEF Look
  <1> HIDE DEF n, top
  <1>5. ASSUME NEW p \in 0..Len(w2), NEW q \in 0..Len(w2), p < q
        PROVE  Look(w2, p).upto < Look(w2, q).upto
    <2>1. CASE q <= n
      BY <1>1, <1>2, <1>5, <2>1 DEF Rising, n
    <2>2. CASE q > n
      <3>1. PICK j \in 1..Len(bs) : q = n + j
        <4>1. q - n \in 1..Len(bs) /\ q = n + (q - n)
          BY <1>1, <2>2
        <4> QED BY <4>1
      <3>2. Look(w2, q).upto = top + j
        BY <3>1, <1>4
      <3>3. CASE p <= n
        <4>1. p \in 0..n
          BY <3>3, <1>1
        <4>2. Look(w2, p).upto <= top /\ Look(w2, p).upto \in Nat
          BY <4>1, <1>2, <1>3
        <4> QED BY <4>2, <3>2, <1>1
      <3>4. CASE p > n
        <4>1. PICK i \in 1..Len(bs) : p = n + i
          <5>1. p - n \in 1..Len(bs) /\ p = n + (p - n)
            BY <1>1, <3>4
          <5> QED BY <5>1
        <4>2. Look(w2, p).upto = top + i
          BY <4>1, <1>4
        <4> QED BY <3>1, <3>2, <4>1, <4>2, <1>1, <1>5
      <3> QED BY <3>3, <3>4, <1>1
    <2> QED BY <2>1, <2>2, <1>1
  <1> QED
    BY <1>5 DEF Rising

\* The last record with more bytes, and the record a piece's rest starts.
Longer(e, bs) == [e EXCEPT !.bytes = @ \o bs]
RestOf(w, bs, o) ==
    [seq |-> Len(w) + o, bytes |-> SubSeq(bs, o + 1, Len(bs)), size |-> NoSize,
     modes |-> bs[o].modes, clean |-> TRUE]

\* A longer record differs in its bytes only.
LEMMA LongerFields ==
    ASSUME NEW e \in Entry, NEW bs \in Seq(Byte)
    PROVE  /\ Longer(e, bs) \in Entry
           /\ Longer(e, bs).bytes = e.bytes \o bs
           /\ Longer(e, bs).seq = e.seq /\ Longer(e, bs).size = e.size
           /\ Longer(e, bs).modes = e.modes /\ Longer(e, bs).clean = e.clean
  <1>1. e.bytes \o bs \in Seq(Byte)
    BY DEF Entry
  <1> QED BY <1>1 DEF Longer, Entry

\* The fields of a rest.
LEMMA RestFields ==
    ASSUME NEW w \in Seq(Past), NEW bs \in Seq(Byte), NEW o \in 1..(Len(bs) - 1)
    PROVE  LET r == RestOf(w, bs, o) IN
           /\ r \in Entry
           /\ r.seq = Len(w) + o /\ r.bytes = SubSeq(bs, o + 1, Len(bs))
           /\ r.size = NoSize /\ r.modes = bs[o].modes /\ r.clean = TRUE
  <1>1. bs[o] \in Byte /\ SubSeq(bs, o + 1, Len(bs)) \in Seq(Byte) /\ Len(w) + o \in Nat
    OBVIOUS
  <1> QED BY <1>1 DEF RestOf, Entry, Byte

\* A record that ends where the history does takes the bytes that follow.
LEMMA FillSound ==
    ASSUME NEW w \in Seq(Past), NEW bs \in Seq(Byte), NEW w2, Grows(w2, w, bs),
           NEW e, Sound(w, e), ~IsResize(e), e.seq + Len(e.bytes) = Len(w),
           Len(e.bytes) + Len(bs) <= ChunkCap
    PROVE  /\ Sound(w2, Longer(e, bs)) /\ Longer(e, bs).seq = e.seq
           /\ Longer(e, bs).seq + Span(Longer(e, bs)) = Len(w2)
  <1> DEFINE m == Len(e.bytes)
             f == Longer(e, bs)
  <1>1. e \in Entry /\ e.bytes \in Seq(Byte) /\ e.seq \in Nat
        /\ m \in Nat /\ Len(bs) \in Nat /\ Len(w) \in Nat
        /\ e.seq + m = Len(w) /\ Len(w2) = Len(w) + Len(bs)
    BY DEF Sound, Entry, Grows
  <1>2. f.bytes = e.bytes \o bs /\ f.seq = e.seq /\ f.size = e.size
        /\ f.modes = e.modes /\ f.clean = e.clean
    BY <1>1, LongerFields
  <1>3. /\ f.bytes \in Seq(Byte) /\ Len(f.bytes) = m + Len(bs)
        /\ \A j \in 1..m : f.bytes[j] = e.bytes[j]
        /\ \A j \in 1..Len(bs) : f.bytes[m + j] = bs[j]
    BY <1>1, <1>2
  <1>4. f \in Entry
    BY <1>1, LongerFields
  <1> HIDE DEF f
  <1>5. ~IsResize(f) /\ Span(f) = Len(f.bytes) /\ Cost(f) = Len(f.bytes)
    BY <1>2 DEF IsResize, Span, Cost
  <1>6. f.seq + Span(f) = Len(w2)
    <2>1. f.seq + Span(f) = e.seq + (m + Len(bs))
      BY <1>2, <1>3, <1>5
    <2>2. e.seq + (m + Len(bs)) = (e.seq + m) + Len(bs)
      BY <1>1
    <2>3. (e.seq + m) + Len(bs) = Len(w2)
      BY <1>1
    <2> QED BY <2>1, <2>2, <2>3
  <1>7. /\ \A p \in 0..Len(w) : Look(w2, p) = Look(w, p)
        /\ \A p \in 1..Len(w) : w2[p] = w[p]
    BY <1>1 DEF Grows, Extends, Look
  <1>8. ASSUME NEW j \in 1..Len(f.bytes)
        PROVE  /\ ~w2[f.seq + j].resize
               /\ f.bytes[j].safe = w2[f.seq + j].safe
               /\ f.bytes[j].modes = w2[f.seq + j].modes
    <2>1. CASE j <= m
      <3>1. j \in 1..m /\ e.seq + j \in 1..Len(w)
        BY <2>1, <1>1, <1>3
      <3>2. w2[e.seq + j] = w[e.seq + j]
        BY <3>1, <1>7
      <3> QED BY <3>1, <3>2, <1>2, <1>3 DEF Sound
    <2>2. CASE j > m
      <3>0. /\ j \in Nat /\ e.seq \in Nat /\ Len(bs) \in Nat /\ m \in Nat
            /\ j <= m + Len(bs) /\ f.seq = e.seq
        BY <1>1, <1>2, <1>3
      <3>1. /\ j - m \in 1..Len(bs)
            /\ m + (j - m) = j
            /\ f.seq + j = Len(w) + (j - m)
        <4>1. j - m \in 1..Len(bs)
          BY <3>0, <2>2
        <4>2. m + (j - m) = j
          BY <3>0
        <4>3. e.seq + j = (e.seq + m) + (j - m)
          BY <3>0
        <4> QED BY <4>1, <4>2, <4>3, <3>0, <1>1
      <3>2. f.bytes[j] = bs[j - m]
        BY <3>1, <1>3
      <3>3. w2[Len(w) + (j - m)] =
              [resize |-> FALSE, safe |-> bs[j - m].safe, modes |-> bs[j - m].modes,
               size |-> Look(w, Len(w)).size, upto |-> Look(w, Len(w)).upto + (j - m)]
        BY <3>1 DEF Grows
      <3>4. w2[f.seq + j] =
              [resize |-> FALSE, safe |-> bs[j - m].safe, modes |-> bs[j - m].modes,
               size |-> Look(w, Len(w)).size, upto |-> Look(w, Len(w)).upto + (j - m)]
        BY <3>1, <3>3
      <3> QED BY <3>2, <3>4
    <2> QED BY <2>1, <2>2, <1>1, <1>3
  <1>9. f.modes = Look(w2, f.seq).modes /\ f.clean = Look(w2, f.seq).safe
    <2>1. e.seq \in 0..Len(w)
      BY <1>1
    <2> QED BY <2>1, <1>2, <1>7 DEF Sound
  <1>10. /\ Look(w2, Len(w2)).upto = Look(w2, f.seq).upto + Len(f.bytes)
         /\ Look(w2, Len(w2)).size = Look(w2, f.seq).size
    <2>1. e.seq \in 0..Len(w) /\ Look(w2, f.seq) = Look(w, e.seq)
      BY <1>1, <1>2, <1>7
    <2>2. /\ Look(w, Len(w)).upto = Look(w, e.seq).upto + m
          /\ Look(w, Len(w)).size = Look(w, e.seq).size
      BY DEF Sound, Span, Cost
    <2>3. Look(w, e.seq).upto \in Nat
      BY <2>1, LookType DEF Past
    <2>4. CASE Len(bs) = 0
      <3>1. Len(w2) = Len(w) /\ Look(w2, Len(w2)) = Look(w, Len(w)) /\ Len(f.bytes) = m
        BY <2>4, <1>1, <1>3, <1>7 DEF Grows
      <3> QED BY <3>1, <2>1, <2>2
    <2>5. CASE Len(bs) # 0
      <3>1. Len(bs) \in 1..Len(bs) /\ Len(w2) = Len(w) + Len(bs) /\ Len(w2) # 0
        BY <2>5, <1>1 DEF Grows
      <3> DEFINE k == Len(bs)
      <3>2. w2[Len(w) + k] =
              [resize |-> FALSE, safe |-> bs[k].safe, modes |-> bs[k].modes,
               size |-> Look(w, Len(w)).size, upto |-> Look(w, Len(w)).upto + k]
        BY <3>1 DEF Grows
      <3>3. Look(w2, Len(w2)) = w2[Len(w) + Len(bs)]
        BY <3>1 DEF Look
      <3> QED BY <3>2, <3>3, <2>1, <2>2, <2>3, <1>1, <1>3
    <2> QED BY <2>4, <2>5
  <1>11. Sound(w2, f)
    <2>1. Len(f.bytes) <= ChunkCap /\ f.seq + Span(f) <= Len(w2)
      BY <1>1, <1>2, <1>3, <1>5 DEF Grows
    <2> QED BY <2>1, <1>4, <1>5, <1>6, <1>8, <1>9, <1>10 DEF Sound
  <1> QED
    BY <1>2, <1>6, <1>11 DEF f

\* The rest of a piece, after a place where the stream may be cut, is a
\* record of its own.
LEMMA RestSound ==
    ASSUME NEW w \in Seq(Past), NEW bs \in Seq(Byte), NEW o \in 1..(Len(bs) - 1),
           bs[o].safe, Len(bs) <= ChunkCap,
           NEW w1, Grows(w1, w, SubSeq(bs, 1, o)),
           NEW w2, Grows(w2, w, bs)
    PROVE  /\ Sound(w2, RestOf(w, bs, o)) /\ RestOf(w, bs, o).seq = Len(w1)
           /\ RestOf(w, bs, o).seq + Span(RestOf(w, bs, o)) = Len(w2)
  <1> DEFINE n == Len(bs)
             r == RestOf(w, bs, o)
  <1>1. /\ n \in Nat /\ o \in 1..n /\ o < n /\ Len(w) \in Nat
        /\ bs[o] \in Byte /\ SubSeq(bs, 1, o) \in Seq(Byte) /\ Len(SubSeq(bs, 1, o)) = o
    OBVIOUS
  <1>0. r.seq = Len(w) + o /\ r.size = NoSize /\ r.modes = bs[o].modes /\ r.clean = TRUE
        /\ r.bytes = SubSeq(bs, o + 1, Len(bs))
    BY RestFields
  <1>2. /\ r.bytes \in Seq(Byte) /\ Len(r.bytes) = n - o
        /\ \A j \in 1..(n - o) : r.bytes[j] = bs[o + j]
        /\ r.seq = Len(w) + o /\ r.size = NoSize /\ r.modes = bs[o].modes /\ r.clean = TRUE
    <2>1. /\ SubSeq(bs, o + 1, Len(bs)) \in Seq(Byte)
          /\ Len(SubSeq(bs, o + 1, Len(bs))) = n - o
          /\ \A j \in 1..(n - o) : SubSeq(bs, o + 1, Len(bs))[j] = bs[o + j]
      BY <1>1
    <2> HIDE DEF r
    <2> QED BY <1>0, <2>1
  <1>3. r \in Entry
    BY RestFields
  <1> HIDE DEF r
  <1> DEFINE Left(i) == [resize |-> FALSE, safe |-> bs[i].safe, modes |-> bs[i].modes,
                        size |-> Look(w, Len(w)).size,
                        upto |-> Look(w, Len(w)).upto + i]
  <1>4. ~IsResize(r) /\ Span(r) = n - o /\ Cost(r) = n - o
    BY <1>2 DEF IsResize, Span, Cost
  <1>5. /\ Len(w1) = Len(w) + o
        /\ Len(w2) = Len(w) + n
    BY <1>1 DEF Grows
  <1>6. r.seq = Len(w1) /\ r.seq + Span(r) = Len(w2)
    <2>1. Len(w) + n = (Len(w) + o) + (n - o)
      BY <1>1
    <2> QED BY <2>1, <1>2, <1>4, <1>5
  <1>7. ASSUME NEW i \in 1..n
        PROVE  w2[Len(w) + i] = Left(i)
    BY DEF Grows
  <1>8. ASSUME NEW j \in 1..Len(r.bytes)
        PROVE  /\ ~w2[r.seq + j].resize
               /\ r.bytes[j].safe = w2[r.seq + j].safe
               /\ r.bytes[j].modes = w2[r.seq + j].modes
    <2>0. j \in 1..(n - o) /\ r.bytes[j] = bs[o + j]
      BY <1>2
    <2>1. o + j \in 1..n /\ (Len(w) + o) + j = Len(w) + (o + j) /\ r.bytes[j] = bs[o + j]
      BY <1>1, <2>0
    <2>2. w2[r.seq + j] = w2[Len(w) + (o + j)]
      BY <2>1, <1>2
    <2>3. w2[Len(w) + (o + j)] = Left(o + j)
      BY <2>1, <1>7
    <2> QED BY <2>1, <2>2, <2>3
  <1>9. /\ Look(w2, r.seq) = w2[Len(w) + o]
        /\ Look(w2, r.seq + Span(r)) = w2[Len(w) + n]
        /\ r.modes = Look(w2, r.seq).modes /\ r.clean = Look(w2, r.seq).safe
    <2>1. Len(w) + o # 0 /\ Len(w) + n # 0
      BY <1>1
    <2>2. Look(w2, r.seq) = w2[Len(w) + o] /\ Look(w2, r.seq + Span(r)) = w2[Len(w) + n]
      BY <2>1, <1>2, <1>5, <1>6 DEF Look
    <2>3. bs[o].safe = TRUE
      BY <1>1 DEF Byte
    <2>4. w2[Len(w) + o] = Left(o)
      BY <1>1, <1>7
    <2>5. Look(w2, r.seq).modes = bs[o].modes /\ Look(w2, r.seq).safe = bs[o].safe
      BY <2>2, <2>4
    <2>6. r.modes = bs[o].modes /\ r.clean = TRUE
      BY <1>2
    <2> HIDE DEF Left
    <2> QED BY <2>2, <2>3, <2>5, <2>6
  <1>10. /\ Look(w2, r.seq + Span(r)).upto = Look(w2, r.seq).upto + Cost(r)
         /\ Look(w2, r.seq + Span(r)).size = Look(w2, r.seq).size
    <2>1. Look(w, Len(w)).upto \in Nat
      <3>1. Len(w) \in 0..Len(w)
        BY <1>1
      <3>2. Look(w, Len(w)) \in Past
        BY <3>1, LookType
      <3> QED BY <3>2 DEF Past
    <2>2. n \in 1..n
      BY <1>1
    <2>6. w2[Len(w) + n] = Left(n) /\ w2[Len(w) + o] = Left(o)
      BY <2>2, <1>1, <1>7
    <2>3. w2[Len(w) + n].upto = Look(w, Len(w)).upto + n
          /\ w2[Len(w) + n].size = Look(w, Len(w)).size
      BY <2>6
    <2>4. w2[Len(w) + o].upto = Look(w, Len(w)).upto + o
          /\ w2[Len(w) + o].size = Look(w, Len(w)).size
      BY <2>6
    <2>5. Look(w, Len(w)).upto + n = (Look(w, Len(w)).upto + o) + (n - o)
      BY <2>1, <1>1
    <2> QED BY <2>3, <2>4, <2>5, <1>4, <1>9
  <1>11. Sound(w2, r)
    <2>1. Len(r.bytes) <= ChunkCap
      <3>1. ChunkCap \in Int
        BY LogAssumption DEF ChunkCap, Most, Least
      <3> QED BY <3>1, <1>1, <1>2
    <2>2. r.seq + Span(r) <= Len(w2)
      BY <1>1, <1>5, <1>6
    <2> QED BY <2>1, <2>2, <1>3, <1>4, <1>8, <1>9, <1>10 DEF Sound
  <1> QED
    BY <1>6, <1>11 DEF r

\* A new output record, still empty, at the end of the log.
LEMMA EmptySound ==
    ASSUME NEW w \in Seq(Past), NEW e \in Entry, e.seq = Len(w), e.bytes = <<>>,
           e.size = NoSize, e.modes = Look(w, Len(w)).modes, e.clean = Look(w, Len(w)).safe
    PROVE  Sound(w, e) /\ e.seq + Span(e) = Len(w)
  <1>1. ~IsResize(e) /\ Span(e) = 0 /\ Cost(e) = 0 /\ Len(e.bytes) = 0
    BY DEF IsResize, Span, Cost
  <1>2. ChunkCap \in Nat
    BY LogAssumption DEF ChunkCap, Most, Least
  <1>3. Len(w) \in Nat /\ Len(w) \in 0..Len(w)
    OBVIOUS
  <1>4. Look(w, Len(w)) \in Past
    BY <1>3, LookType
  <1>5. Look(w, Len(w)).upto \in Nat
    BY <1>4 DEF Past
  <1> QED BY <1>1, <1>2, <1>3, <1>5 DEF Sound

(***************************************************************************)
(* The inductive invariant.                                                *)
(***************************************************************************)
Typed ==
    /\ entries \in Seq(Entry) /\ written \in Seq(Past)
    /\ head_seq \in Nat /\ tail_seq \in Nat /\ stored \in Nat
    /\ head_size \in Sizes /\ scanner \in Byte /\ sealed \in BOOLEAN
    /\ head_modes \in Modes \cup {NoModes} /\ head_torn \in BOOLEAN
    /\ call \in Call

\* The ring and its counters fit the history.
RingInv ==
    /\ RingOK(entries, written, head_seq)
    /\ tail_seq = Len(written)
    /\ Rising(written)
    /\ stored = Look(written, tail_seq).upto - Look(written, head_seq).upto
    /\ head_size = Look(written, head_seq).size
    /\ scanner.safe = Look(written, tail_seq).safe
    /\ scanner.modes = Look(written, tail_seq).modes

\* What was told of a head holds of it, also while a trim is moving the head.
ToldAt(p) ==
    /\ head_modes = NoModes => p = 0
    /\ head_modes # NoModes => head_modes = Look(written, p).modes
    /\ head_torn = ~Look(written, p).safe

\* How far the call under way has come.  A budget that asks for more than the
\* capacity finds, and leaves, a log that is bounded already.
CallInv ==
    /\ Trimming => call.before <= head_seq
    /\ ToldAt(SeenHead)
    /\ call.op = "append" => call.rest # <<>>
    /\ call.op = "drop" => HasClean
    /\ (call.op = "idle" \/ (Trimming /\ call.limit > Capacity)) =>
          /\ stored <= 2 * Capacity
          /\ stored > Capacity => ~HasClean

IInv == Typed /\ RingInv /\ CallInv

\* The two names for what is known at a position agree.
LEMMA AtLook == \A p : At(p) = Look(written, p)
  BY DEF At, Look

\* A log that was just started satisfies the invariant.
LEMMA InvInit == Init => IInv
  <1> SUFFICES ASSUME Init PROVE IInv
    OBVIOUS
  <1>1. /\ entries = <<>> /\ written = <<>> /\ head_seq = 0 /\ tail_seq = 0 /\ stored = 0
        /\ head_size = FirstSize /\ scanner = [safe |-> TRUE, modes |-> FirstModes]
        /\ sealed = FALSE /\ head_modes = NoModes /\ head_torn = FALSE /\ call = Idle
    BY DEF Init
  <1>2. Len(entries) = 0 /\ Len(written) = 0
    BY <1>1
  <1>3. Look(written, 0) = Origin
    BY DEF Look
  <1>4. Typed
    <2>1. call \in Call
      BY <1>1 DEF Idle, Call, Ops
    <2>2. scanner \in Byte
      BY <1>1, LogAssumption DEF Byte
    <2>3. entries \in Seq(Entry) /\ written \in Seq(Past)
      BY <1>1
    <2> QED BY <1>1, <2>1, <2>2, <2>3, LogAssumption DEF Typed
  <1>5. RingInv
    <2>1. RingOK(entries, written, head_seq)
      BY <1>1, <1>2 DEF RingOK
    <2>2. Rising(written)
      BY <1>2 DEF Rising
    <2>3. Origin.upto = 0 /\ Origin.size = FirstSize /\ Origin.safe = TRUE
          /\ Origin.modes = FirstModes
      BY DEF Origin
    <2>4. Look(written, tail_seq) = Origin /\ Look(written, head_seq) = Origin
          /\ tail_seq = Len(written)
      BY <1>1, <1>2, <1>3
    <2>5. /\ stored = Origin.upto - Origin.upto /\ head_size = Origin.size
          /\ scanner.safe = Origin.safe /\ scanner.modes = Origin.modes
      <3>1. stored = Origin.upto - Origin.upto
        BY <1>1, <2>3
      <3>2. scanner.safe = TRUE /\ scanner.modes = FirstModes
        BY <1>1
      <3>3. scanner.safe = Origin.safe
        BY <3>2, <2>3
      <3> QED BY <1>1, <3>1, <3>2, <3>3, <2>3
    <2> QED BY <2>1, <2>2, <2>4, <2>5 DEF RingInv
  <1>6. CallInv
    <2>1. call.op = "idle"
      BY <1>1 DEF Idle
    <2>2. ToldAt(0)
      <3>1. Look(written, 0).safe = TRUE
        BY <1>3 DEF Origin
      <3> QED BY <1>1, <3>1 DEF ToldAt
    <2> QED BY <1>1, <2>1, <2>2, LogAssumption DEF CallInv, Trimming, SeenHead
  <1> QED BY <1>4, <1>5, <1>6 DEF IInv

\* A step that only starts a call leaves the ring alone.
LEMMA InvStart ==
    ASSUME IInv, UNCHANGED <<ring, told, written>>,
           Typed => call' \in Call, CallInv'
    PROVE  IInv'
  <1>1. Typed'
    BY DEF IInv, Typed, ring, told
  <1>2. RingInv'
    BY DEF IInv, RingInv, ring, Rising, RingOK, Sound, Look
  <1> QED BY <1>1, <1>2 DEF IInv

\* append_output is called: the call is noted and the log is not touched.
LEMMA InvAppendOutput ==
    ASSUME IInv, NEW bytes \in Pieces, AppendOutput(bytes)
    PROVE  IInv'
  <1>1. bytes \in Seq(Byte) /\ bytes # <<>>
    BY LogAssumption
  <1>2. call'.op = "append" /\ call'.rest = bytes
    BY DEF AppendOutput, Idle
  <1>3. call' \in Call
    BY <1>1 DEF AppendOutput, Idle, Call, Ops
  <1>4. CallInv'
    BY <1>1, <1>2 DEF IInv, CallInv, AppendOutput, Trimming, SeenHead, ToldAt, Look, ring, told
  <1> QED BY <1>3, <1>4, InvStart DEF AppendOutput

\* trim_to is called, by the budget: the log is not touched yet.
LEMMA InvTrimTo ==
    ASSUME IInv, NEW limit \in Limits, TrimTo(limit)
    PROVE  IInv'
  <1>1. limit \in Nat
    BY LogAssumption
  <1>2. call'.op = "trim" /\ call'.before = head_seq /\ call'.limit = limit
    BY DEF TrimTo, Trim
  <1>3. call' \in Call
    BY <1>1 DEF TrimTo, Trim, Call, Ops, IInv, Typed
  <1>4. CallInv'
    BY <1>1, <1>2 DEF IInv, Typed, CallInv, TrimTo, Trimming, SeenHead, ToldAt, Look, ring, told,
                      HasClean
  <1> QED BY <1>3, <1>4, InvStart DEF TrimTo

\* clear leaves an empty log whose head state is the scanner's.
LEMMA InvClear ==
    ASSUME IInv, Clear
    PROVE  IInv'
  <1>1. call' = [op |-> "cut", rest |-> <<>>, limit |-> 0, before |-> head_seq, settle |-> TRUE]
    BY DEF Clear, Trim
  <1>2. call' \in Call
    BY <1>1 DEF Call, Ops, IInv, Typed
  <1>3. CallInv'
    <2>1. /\ call'.op = "cut" /\ call'.limit = 0 /\ call'.before = head_seq
          /\ ~(call'.limit > Capacity)
      BY <1>1, LogAssumption
    <2> QED
      BY <2>1 DEF IInv, Typed, CallInv, Clear, Trimming, SeenHead, ToldAt, Look, ring, told
  <1> QED BY <1>2, <1>3, InvStart DEF Clear

\* A trim finds that no record at the head can be dropped at a clean place.
LEMMA InvStartCut ==
    ASSUME IInv, StartCut
    PROVE  IInv'
  <1>1. call' = [call EXCEPT !.op = "cut"] /\ call.op = "trim" /\ call \in Call
    BY DEF StartCut, IInv, Typed
  <1>2. call' \in Call /\ call'.op = "cut" /\ call'.before = call.before
        /\ call'.limit = call.limit
    BY <1>1 DEF Call, Ops
  <1>3. CallInv'
    BY <1>1, <1>2 DEF IInv, CallInv, StartCut, Trimming, SeenHead, ToldAt, Look, ring, told,
                      HasClean
  <1> QED BY <1>2, <1>3, InvStart DEF StartCut

\* What the invariant says in the terms the steps need.
LEMMA InvFacts ==
    ASSUME IInv
    PROVE  /\ written \in Seq(Past) /\ Len(written) \in Nat /\ tail_seq = Len(written)
           /\ head_seq \in 0..Len(written) /\ SeenHead \in 0..head_seq
           /\ Look(written, head_seq) \in Past /\ Look(written, tail_seq) \in Past
           /\ At(tail_seq) = Look(written, tail_seq)
           /\ scanner \in Byte
  <1>1. written \in Seq(Past) /\ Len(written) \in Nat /\ tail_seq = Len(written)
        /\ head_seq \in 0..Len(written) /\ scanner \in Byte
    BY DEF IInv, Typed, RingInv, RingOK
  <1>2. SeenHead \in 0..head_seq
    BY <1>1 DEF IInv, Typed, CallInv, SeenHead, Call
  <1>3. tail_seq \in 0..Len(written)
    BY <1>1
  <1>4. Look(written, head_seq) \in Past /\ Look(written, tail_seq) \in Past
    BY <1>1, <1>3, LookType
  <1> QED BY <1>1, <1>2, <1>4, AtLook

\* Dropping the oldest record keeps the ring and its counters right, and the
\* subtraction from `stored` never goes below zero.
LEMMA DropKeeps ==
    ASSUME IInv, DropHead, call' \in Call
    PROVE  /\ Typed' /\ RingInv'
           /\ head_seq' \in head_seq..tail_seq
           /\ stored' <= stored
           /\ Len(entries') = Len(entries) - 1
           /\ \A i \in 1..(Len(entries) - 1) : entries'[i] = entries[i + 1]
  <1> DEFINE e == entries[1]
             h == e.seq + Span(e)
  <1>1. entries # <<>> /\ entries \in Seq(Entry) /\ Len(entries) \in Nat /\ Len(entries) >= 1
        /\ RingOK(entries, written, head_seq)
    BY DEF DropHead, IInv, Typed, RingInv
  <1>2. 1 \in 1..Len(entries)
    BY <1>1
  <1>3. Sound(written, e) /\ e \in Entry /\ e.seq = head_seq
    BY <1>1, <1>2 DEF RingOK
  <1>4. Span(e) \in Nat /\ Cost(e) \in Nat /\ e.seq \in Nat
    BY <1>3, SpanType DEF Entry
  <1>5. h \in head_seq..tail_seq /\ h \in 0..Len(written) /\ h \in Nat
    <2>1. e.seq + Span(e) <= Len(written)
      BY <1>3 DEF Sound
    <2> QED BY <2>1, <1>3, <1>4, InvFacts
  <1>6. /\ entries' = Tail(entries) /\ stored' = stored - Cost(e) /\ head_seq' = h
        /\ head_size' = IF IsResize(e) THEN e.size ELSE head_size
        /\ UNCHANGED <<tail_seq, scanner, sealed, head_modes, head_torn, written>>
    BY DEF DropHead, told
  <1>7. /\ Tail(entries) \in Seq(Entry) /\ Len(Tail(entries)) = Len(entries) - 1
        /\ \A i \in 1..(Len(entries) - 1) : Tail(entries)[i] = entries[i + 1]
    BY <1>1
  <1>8. RingOK(entries', written', head_seq')
    BY <1>1, <1>6, RingDrop
  <1>9. Look(written, h) \in Past
    BY <1>5, InvFacts, LookType
  <1>10. /\ Look(written, h).upto = Look(written, head_seq).upto + Cost(e)
         /\ Look(written, h).size = IF IsResize(e) THEN e.size ELSE Look(written, head_seq).size
    BY <1>3 DEF Sound
  <1>11. Look(written, h).upto <= Look(written, tail_seq).upto
    <2>1. Look(written, h).upto \in Nat /\ Look(written, tail_seq).upto \in Nat
      BY <1>9, InvFacts DEF Past
    <2>2. CASE h = tail_seq
      BY <2>1, <2>2
    <2>3. CASE h # tail_seq
      <3>1. h \in 0..Len(written) /\ tail_seq \in 0..Len(written) /\ h < tail_seq
        BY <2>3, <1>5, InvFacts
      <3>2. Look(written, h).upto < Look(written, tail_seq).upto
        BY <3>1 DEF IInv, RingInv, Rising
      <3> QED BY <2>1, <3>2
    <2> QED BY <2>2, <2>3
  <1>12. /\ stored' = Look(written, tail_seq).upto - Look(written, h).upto
         /\ stored' \in Nat /\ stored' <= stored
    <2>1. stored = Look(written, tail_seq).upto - Look(written, head_seq).upto
      BY DEF IInv, RingInv
    <2>2. /\ Look(written, h).upto \in Nat /\ Look(written, tail_seq).upto \in Nat
          /\ Look(written, head_seq).upto \in Nat
      BY <1>9, InvFacts DEF Past
    <2> QED BY SMTT(30), <2>1, <2>2, <1>4, <1>6, <1>10, <1>11
  <1>13. head_size' = Look(written, h).size
    BY <1>6, <1>10 DEF IInv, RingInv
  <1>14. Typed'
    <2>1. head_size' \in Sizes
      BY <1>9, <1>13 DEF Past
    <2> QED BY <2>1, <1>5, <1>6, <1>7, <1>12 DEF IInv, Typed
  <1>15. RingInv'
    BY <1>6, <1>8, <1>12, <1>13 DEF IInv, RingInv, Rising
  <1> QED BY <1>5, <1>6, <1>7, <1>12, <1>14, <1>15

\* While a trim runs, what was told is of the head it started from.
LEMMA ToldKeeps ==
    ASSUME IInv, Trimming, Trimming', call'.before = call.before,
           head_modes' = head_modes, head_torn' = head_torn, written' = written
    PROVE  ToldAt(SeenHead)'
  BY DEF IInv, CallInv, SeenHead, ToldAt, Look

\* A drop leaves no new place to cut behind the head.
LEMMA CleanShrinks ==
    ASSUME IInv, Len(entries') = Len(entries) - 1,
           \A i \in 1..(Len(entries) - 1) : entries'[i] = entries[i + 1],
           HasClean'
    PROVE  HasClean
  <1>1. Len(entries) \in Nat
    BY DEF IInv, Typed
  <1>2. PICK i \in 2..(Len(entries) - 1) : entries'[i].clean
    BY DEF HasClean
  <1>3. i + 1 \in 2..Len(entries) /\ i \in 1..(Len(entries) - 1)
    BY <1>1, <1>2
  <1>4. entries[i + 1].clean
    BY <1>2, <1>3
  <1> QED BY <1>3, <1>4 DEF HasClean

\* A trim drops whole records up to a clean place (drop_head_record).
LEMMA InvDropToClean ==
    ASSUME IInv, DropToClean
    PROVE  IInv'
  <1>1. /\ call' = [call EXCEPT !.op = IF entries[2].clean THEN "trim" ELSE "drop"]
        /\ call \in Call /\ DropHead /\ Trimming
    BY DEF DropToClean, IInv, Typed, Trimming
  <1>2. call' \in Call /\ call'.before = call.before /\ call'.limit = call.limit
        /\ call'.op = IF entries[2].clean THEN "trim" ELSE "drop"
    BY <1>1 DEF Call, Ops
  <1>3. Trimming'
    BY <1>2 DEF Trimming
  <1>4. /\ Typed' /\ RingInv' /\ head_seq' \in head_seq..tail_seq
        /\ stored' <= stored
        /\ Len(entries') = Len(entries) - 1
        /\ \A i \in 1..(Len(entries) - 1) : entries'[i] = entries[i + 1]
    BY <1>1, <1>2, DropKeeps
  <1>5. head_modes' = head_modes /\ head_torn' = head_torn /\ written' = written
    BY <1>1 DEF DropHead, told
  <1>6. ToldAt(SeenHead)'
    BY <1>1, <1>2, <1>3, <1>5, ToldKeeps
  <1>7. call'.op = "drop" => HasClean'
    <2>1. SUFFICES ASSUME ~entries[2].clean PROVE HasClean'
      BY <1>2
    <2>2. HasClean
      BY DEF DropToClean, IInv, CallInv
    <2>3. PICK i \in 2..Len(entries) : entries[i].clean
      BY <2>2 DEF HasClean
    <2>4. Len(entries) \in Nat /\ i - 1 \in 2..Len(entries') /\ i - 1 \in 1..(Len(entries) - 1)
          /\ (i - 1) + 1 = i
      BY <1>4, <2>1, <2>3 DEF IInv, Typed
    <2>5. entries'[i - 1] = entries[i]
      BY <1>4, <2>4
    <2> QED BY <2>3, <2>4, <2>5 DEF HasClean
  <1>8. call'.before <= head_seq'
    BY SMTT(30), <1>1, <1>2, <1>4 DEF IInv, Typed, CallInv, Call
  <1>9. call'.limit > Capacity =>
           /\ stored' <= 2 * Capacity
           /\ stored' > Capacity => ~HasClean'
    <2>1. SUFFICES ASSUME call.limit > Capacity
                   PROVE  /\ stored' <= 2 * Capacity
                          /\ stored' > Capacity => ~HasClean'
      BY <1>2
    <2>2. stored <= 2 * Capacity /\ (stored > Capacity => ~HasClean)
      BY <1>1, <2>1 DEF IInv, CallInv
    <2>3. HasClean' => HasClean
      BY <1>4, CleanShrinks
    <2>4. stored \in Nat /\ stored' \in Nat /\ Capacity \in Nat
      BY <1>4, LogAssumption DEF IInv, Typed
    <2>5. stored' <= 2 * Capacity
      BY <1>4, <2>2, <2>4
    <2>6. stored' > Capacity => stored > Capacity
      BY <1>4, <2>4
    <2> QED BY <2>2, <2>3, <2>5, <2>6
  <1>10. CallInv'
    BY <1>2, <1>3, <1>6, <1>7, <1>8, <1>9 DEF CallInv
  <1> QED BY <1>4, <1>10 DEF IInv

\* A trim that must cut drops one record more, and the log is torn.
LEMMA InvCut ==
    ASSUME IInv, Cut
    PROVE  IInv'
  <1>1. call' = call /\ call \in Call /\ DropHead /\ call.op = "cut"
    BY DEF Cut, IInv, Typed
  <1>2. Trimming /\ Trimming'
    BY <1>1 DEF Trimming
  <1>3. /\ Typed' /\ RingInv' /\ head_seq' \in head_seq..tail_seq
        /\ stored' <= stored
        /\ Len(entries') = Len(entries) - 1
        /\ \A i \in 1..(Len(entries) - 1) : entries'[i] = entries[i + 1]
    BY <1>1, DropKeeps
  <1>4. head_modes' = head_modes /\ head_torn' = head_torn /\ written' = written
    BY <1>1 DEF DropHead, told
  <1>5. ToldAt(SeenHead)'
    BY <1>1, <1>2, <1>4, ToldKeeps
  <1>6. call'.before <= head_seq'
    BY <1>1, <1>2, <1>3 DEF IInv, Typed, CallInv, Call
  <1>7. call'.limit > Capacity =>
           /\ stored' <= 2 * Capacity
           /\ stored' > Capacity => ~HasClean'
    <2>1. SUFFICES ASSUME call.limit > Capacity
                   PROVE  /\ stored' <= 2 * Capacity
                          /\ stored' > Capacity => ~HasClean'
      BY <1>1
    <2>2. stored <= 2 * Capacity /\ (stored > Capacity => ~HasClean)
      BY <1>2, <2>1 DEF IInv, CallInv
    <2>3. HasClean' => HasClean
      BY <1>3, CleanShrinks
    <2>4. stored \in Nat /\ stored' \in Nat /\ Capacity \in Nat
      BY <1>3, LogAssumption DEF IInv, Typed
    <2>5. stored' <= 2 * Capacity
      BY <1>3, <2>2, <2>4
    <2>6. stored' > Capacity => stored > Capacity
      BY <1>3, <2>4
    <2> QED BY <2>2, <2>3, <2>5, <2>6
  <1>8. CallInv'
    BY <1>1, <1>2, <1>5, <1>6, <1>7 DEF CallInv
  <1> QED BY <1>3, <1>8 DEF IInv

\* Settling tells the new head what the stream has there.
LEMMA SettleTells ==
    ASSUME IInv, Settle, written' = written, head_seq' = head_seq
    PROVE  /\ ToldAt(head_seq)'
           /\ head_modes' \in Modes /\ head_torn' \in BOOLEAN /\ sealed' \in BOOLEAN
  <1>1. /\ head_modes' = IF entries = <<>> THEN scanner.modes ELSE entries[1].modes
        /\ head_torn' = ~(IF entries = <<>> THEN scanner.safe ELSE entries[1].clean)
        /\ sealed' = (sealed /\ entries # <<>>)
    BY DEF Settle
  <1>2. RingOK(entries, written, head_seq) /\ entries \in Seq(Entry)
    BY DEF IInv, Typed, RingInv
  <1>3. Look(written, head_seq) \in Past /\ scanner \in Byte
    BY InvFacts
  <1>4. NoModes \notin Modes
    BY LogAssumption
  <1>5. CASE entries = <<>>
    <2>1. head_seq = tail_seq
      BY <1>2, <1>5 DEF RingOK, IInv, RingInv
    <2>2. scanner.modes = Look(written, head_seq).modes
          /\ scanner.safe = Look(written, head_seq).safe
      BY <2>1 DEF IInv, RingInv
    <2>3. head_modes' = scanner.modes /\ head_torn' = ~scanner.safe
      BY <1>1, <1>5
    <2>4. head_modes' \in Modes
      BY <1>3, <2>3 DEF Byte
    <2> QED BY <1>1, <1>4, <2>2, <2>3, <2>4 DEF ToldAt, Look
  <1>6. CASE entries # <<>>
    <2>1. 1 \in 1..Len(entries)
      BY <1>2, <1>6
    <2>2. Sound(written, entries[1]) /\ entries[1].seq = head_seq
      BY <1>2, <1>6, <2>1 DEF RingOK
    <2>3. entries[1].modes = Look(written, head_seq).modes
          /\ entries[1].clean = Look(written, head_seq).safe
      BY <2>2 DEF Sound
    <2>4. head_modes' = entries[1].modes /\ head_torn' = ~entries[1].clean
      BY <1>1, <1>6
    <2>5. head_modes' \in Modes
      BY <1>3, <2>3, <2>4 DEF Past
    <2> QED BY <1>1, <1>4, <2>3, <2>4, <2>5 DEF ToldAt, Look
  <1> QED BY <1>5, <1>6

\* A trim ends: settle_head starts the log at its first record.
LEMMA InvEndTrim ==
    ASSUME IInv, EndTrim
    PROVE  IInv'
  <1>1. call' = Idle /\ Trimming /\ call \in Call
        /\ UNCHANGED <<entries, head_seq, tail_seq, stored, head_size, scanner, written>>
    BY DEF EndTrim, IInv, Typed, Trimming
  <1>2. call' \in Call /\ call'.op = "idle" /\ ~Trimming' /\ SeenHead' = head_seq
    BY <1>1 DEF Idle, Call, Ops, Trimming, SeenHead
  <1>3. ToldAt(head_seq)' /\ head_modes' \in Modes \cup {NoModes}
        /\ head_torn' \in BOOLEAN /\ sealed' \in BOOLEAN
    <2>1. CASE call.settle \/ head_seq # call.before
      BY <1>1, <2>1, SettleTells DEF EndTrim
    <2>2. CASE ~(call.settle \/ head_seq # call.before)
      <3>1. UNCHANGED <<sealed, told>> /\ SeenHead = head_seq
        BY <1>1, <2>2 DEF EndTrim, SeenHead
      <3>2. ToldAt(head_seq)
        BY <3>1 DEF IInv, CallInv
      <3> QED BY <1>1, <3>1, <3>2 DEF ToldAt, Look, told, IInv, Typed
    <2> QED BY <2>1, <2>2
  <1>4. ToldAt(SeenHead)'
    BY <1>1, <1>2, <1>3 DEF ToldAt
  <1>5. stored <= 2 * Capacity /\ (stored > Capacity => ~HasClean)
    <2>1. stored \in Nat /\ Capacity \in Nat /\ call.limit \in Nat
      BY <1>1, LogAssumption DEF IInv, Typed, Call
    <2>2. CASE call.limit > Capacity
      BY <1>1, <2>2 DEF IInv, CallInv
    <2>3. CASE call.limit <= Capacity /\ stored <= call.limit
      BY <2>1, <2>3
    <2>4. CASE entries = <<>>
      <3>1. head_seq = tail_seq
        BY <2>4 DEF IInv, RingInv, RingOK
      <3>2. stored = 0
        BY <3>1, InvFacts DEF IInv, RingInv, Past
      <3> QED BY <2>1, <3>2
    <2>5. CASE ~HasClean /\ ~Overgrown
      BY <2>1, <2>5 DEF Overgrown
    <2> QED BY <2>1, <2>2, <2>3, <2>4, <2>5 DEF EndTrim
  <1>6. stored' <= 2 * Capacity /\ (stored' > Capacity => ~HasClean')
    BY <1>1, <1>5 DEF HasClean
  <1>7. Typed'
    BY <1>1, <1>2, <1>3 DEF IInv, Typed
  <1>8. RingInv'
    BY <1>1 DEF IInv, RingInv
  <1>9. CallInv'
    BY <1>2, <1>4, <1>6 DEF CallInv
  <1> QED BY <1>7, <1>8, <1>9 DEF IInv

\* append_output opens a record at the tail, at the scanner's state.
LEMMA InvOpenRecord ==
    ASSUME IInv, OpenRecord
    PROVE  IInv'
  <1> DEFINE e == [seq |-> tail_seq, bytes |-> <<>>, size |-> NoSize,
                   modes |-> scanner.modes, clean |-> scanner.safe]
  <1>1. /\ entries' = Append(entries, e) /\ sealed' = FALSE /\ call.op = "append"
        /\ UNCHANGED <<head_seq, tail_seq, stored, head_size, scanner, told, call, written>>
    BY DEF OpenRecord
  <1>2. e \in Entry
    BY InvFacts DEF Entry, Byte
  <1>3. Sound(written, e) /\ e.seq + Span(e) = Len(written) /\ e.seq = Len(written)
    <2>1. /\ e.seq = Len(written) /\ e.bytes = <<>> /\ e.size = NoSize
          /\ e.modes = Look(written, Len(written)).modes
          /\ e.clean = Look(written, Len(written)).safe
      BY InvFacts DEF IInv, RingInv
    <2> HIDE DEF e
    <2> QED BY <1>2, <2>1, InvFacts, EmptySound
  <1> HIDE DEF e
  <1>4. Extends(written, written)
    BY InvFacts DEF Extends
  <1>5. RingOK(entries', written', head_seq')
    <2>1. RingOK(Append(entries, e), written, head_seq)
      BY <1>3, <1>4, RingPush DEF IInv, RingInv
    <2> QED BY <1>1, <2>1
  <1>6. Typed'
    <2>1. entries' \in Seq(Entry)
      BY <1>1, <1>2 DEF IInv, Typed
    <2> QED BY <1>1, <2>1 DEF IInv, Typed, told
  <1>7. RingInv'
    BY <1>1, <1>5 DEF IInv, RingInv
  <1>8. CallInv'
    BY <1>1 DEF IInv, CallInv, Trimming, SeenHead, ToldAt, Look, told
  <1> QED BY <1>6, <1>7, <1>8 DEF IInv

\* append_resize adds a resize, charges it and trims.
LEMMA InvAppendResize ==
    ASSUME IInv, NEW size \in Sizes, AppendResize(size)
    PROVE  IInv'
  <1> DEFINE e == [seq |-> tail_seq, bytes |-> <<>>, size |-> size,
                   modes |-> scanner.modes, clean |-> scanner.safe]
             x == AfterResize(size)
             n == Len(written)
  <1>1. /\ entries' = Append(entries, e) /\ sealed' = FALSE
        /\ tail_seq' = tail_seq + 1 /\ stored' = stored + ResizeCost
        /\ written' = Append(written, x) /\ call' = Trim(Capacity)
        /\ UNCHANGED <<head_seq, head_size, scanner, told>> /\ call.op = "idle"
    BY DEF AppendResize
  <1>2. e \in Entry /\ e.seq = tail_seq /\ e.bytes = <<>> /\ e.size = size
        /\ e.modes = scanner.modes /\ e.clean = scanner.safe
    BY InvFacts DEF Entry, Byte
  <1>3. /\ x \in Past /\ x.resize /\ x.size = size /\ x.safe = scanner.safe
        /\ x.modes = scanner.modes /\ x.upto = Look(written, n).upto + ResizeCost
    BY InvFacts, LogAssumption DEF AfterResize, Past, Byte
  <1>4. IsResize(e) /\ Span(e) = 1 /\ Cost(e) = ResizeCost
    BY <1>2, LogAssumption DEF IsResize, Span, Cost
  <1> HIDE DEF e, x
  <1>5. /\ written' \in Seq(Past) /\ Len(written') = n + 1 /\ written'[n + 1] = x
        /\ \A p \in 1..n : written'[p] = written[p]
        /\ n \in Nat /\ tail_seq = n
    BY <1>1, <1>3, InvFacts
  <1>6. /\ Extends(written', written)
        /\ \A p \in 0..n : Look(written', p) = Look(written, p)
        /\ Look(written', n + 1) = x
    BY <1>5 DEF Extends, Look
  <1>7. Sound(written', e) /\ e.seq = n /\ e.seq + Span(e) = Len(written')
    <2>1. n \in 0..n /\ ChunkCap \in Nat /\ Len(e.bytes) = 0
      BY <1>2, <1>5, LogAssumption DEF ChunkCap, Most, Least
    <2>2. e.modes = Look(written', e.seq).modes /\ e.clean = Look(written', e.seq).safe
      BY <1>2, <1>5, <1>6, <2>1 DEF IInv, RingInv
    <2>3. /\ Look(written', e.seq + Span(e)).upto = Look(written', e.seq).upto + Cost(e)
          /\ Look(written', e.seq + Span(e)).size = e.size
      BY <1>2, <1>3, <1>4, <1>5, <1>6, <2>1
    <2>4. written'[e.seq + 1] = x
      BY <1>2, <1>5
    <2>5. Len(e.bytes) <= ChunkCap /\ e.seq + Span(e) <= Len(written')
      BY <1>2, <1>4, <1>5, <2>1
    <2> QED BY <1>2, <1>3, <1>4, <1>5, <2>2, <2>3, <2>4, <2>5 DEF Sound
  <1>8. RingOK(entries', written', head_seq')
    <2>1. RingOK(Append(entries, e), written', head_seq)
      BY <1>6, <1>7, <1>5, RingPush DEF IInv, RingInv
    <2> QED BY <1>1, <2>1
  <1>9. Rising(written')
    <2>1. SUFFICES ASSUME NEW p \in 0..(n + 1), NEW q \in 0..(n + 1), p < q
                   PROVE  Look(written', p).upto < Look(written', q).upto
      BY <1>5 DEF Rising
    <2>2. Look(written, n) \in Past /\ Look(written, n).upto \in Nat
          /\ x.upto > Look(written, n).upto
      BY <1>3, <1>5, InvFacts, LogAssumption DEF Past
    <2>3. CASE q <= n
      BY <2>1, <2>3, <1>5, <1>6 DEF IInv, RingInv, Rising
    <2>4. CASE q > n
      <3>1. q = n + 1 /\ p \in 0..n
        BY <2>1, <2>4, <1>5
      <3>2. Look(written', q).upto = x.upto /\ Look(written', p) = Look(written, p)
        BY <3>1, <1>6
      <3>3. CASE p = n
        BY <3>2, <3>3, <2>2
      <3>4. CASE p # n
        <4>1. p < n /\ n \in 0..n
          BY <3>1, <3>4, <1>5
        <4>2. Look(written, p).upto < Look(written, n).upto
          BY <3>1, <4>1 DEF IInv, RingInv, Rising
        <4>3. Look(written, p) \in Past
          BY <3>1, LookType, InvFacts
        <4>4. Look(written, p).upto \in Nat
          BY <4>3 DEF Past
        <4>5. x.upto \in Nat
          BY <1>3 DEF Past
        <4> QED BY <3>2, <4>2, <4>4, <4>5, <2>2
      <3> QED BY <3>3, <3>4
    <2> QED BY <2>1, <2>3, <2>4, <1>5
  <1>10. /\ head_seq \in 0..n
         /\ Look(written', tail_seq') = x
         /\ Look(written', head_seq') = Look(written, head_seq)
    BY <1>1, <1>5, <1>6, InvFacts
  <1>11. RingInv'
    <2>1. stored' = Look(written', tail_seq').upto - Look(written', head_seq').upto
      <3>1. stored = Look(written, n).upto - Look(written, head_seq).upto
        BY <1>5 DEF IInv, RingInv
      <3>2. Look(written, n).upto \in Nat /\ Look(written, head_seq).upto \in Nat
        BY <1>5, InvFacts DEF Past
      <3>3. ResizeCost \in Nat
        BY LogAssumption
      <3> QED BY <3>1, <3>2, <3>3, <1>1, <1>3, <1>10
    <2> QED BY <2>1, <1>1, <1>3, <1>5, <1>8, <1>9, <1>10 DEF IInv, RingInv
  <1>12. call' = [op |-> "trim", rest |-> <<>>, limit |-> Capacity, before |-> head_seq,
                  settle |-> FALSE]
    BY <1>1 DEF Trim
  <1>13. call' \in Call /\ call'.op = "trim" /\ call'.before = head_seq
         /\ call'.limit = Capacity
    BY <1>12, LogAssumption DEF Call, Ops, IInv, Typed
  <1>14. Typed'
    <2>1. entries' \in Seq(Entry)
      BY <1>1, <1>2 DEF IInv, Typed
    <2>2. stored' \in Nat /\ tail_seq' \in Nat
      BY <1>1, LogAssumption DEF IInv, Typed
    <2> QED BY <1>1, <1>5, <1>13, <2>1, <2>2 DEF IInv, Typed, told
  <1>15. CallInv'
    <2>1. ToldAt(head_seq)
      BY <1>1 DEF IInv, CallInv, SeenHead, Trimming
    <2>2. Trimming' /\ SeenHead' = head_seq
      BY <1>13 DEF Trimming, SeenHead
    <2>3. ToldAt(SeenHead)'
      BY <1>1, <1>10, <2>1, <2>2 DEF ToldAt, told
    <2>4. head_seq \in Nat /\ head_seq' = head_seq /\ ~(Capacity > Capacity)
      BY <1>1, LogAssumption DEF IInv, Typed
    <2> QED BY <1>13, <2>2, <2>3, <2>4 DEF CallInv
  <1> QED BY <1>11, <1>14, <1>15 DEF IInv

\* A history that grew by a piece extends the one that grew by its start.
LEMMA GrowsInSteps ==
    ASSUME NEW w \in Seq(Past), NEW bs \in Seq(Byte), NEW o \in 1..(Len(bs) - 1),
           NEW w1, Grows(w1, w, SubSeq(bs, 1, o)), NEW w2, Grows(w2, w, bs)
    PROVE  Extends(w2, w1)
  <1> DEFINE n == Len(w)
             b1 == SubSeq(bs, 1, o)
  <1>1. /\ n \in Nat /\ Len(bs) \in Nat /\ o \in Nat /\ o < Len(bs)
        /\ Len(b1) = o /\ \A i \in 1..o : b1[i] = bs[i]
    OBVIOUS
  <1> HIDE DEF b1
  <1>2. /\ w2 \in Seq(Past) /\ Len(w1) = n + o /\ Len(w2) = n + Len(bs)
        /\ \A p \in 1..n : w2[p] = w[p] /\ w1[p] = w[p]
    BY <1>1 DEF Grows, Extends, b1
  <1>3. ASSUME NEW p \in 1..(n + o) PROVE w2[p] = w1[p]
    <2>1. CASE p <= n
      BY <2>1, <1>1, <1>2
    <2>2. CASE p > n
      <3>1. PICK i \in 1..o : p = n + i
        <4>1. p - n \in 1..o /\ p = n + (p - n)
          BY <2>2, <1>1
        <4> QED BY <4>1
      <3>2. i \in 1..Len(bs) /\ i \in 1..Len(b1)
        BY <1>1
      <3>3. w2[n + i] = [resize |-> FALSE, safe |-> bs[i].safe, modes |-> bs[i].modes,
                         size |-> Look(w, Len(w)).size, upto |-> Look(w, Len(w)).upto + i]
        BY <3>2 DEF Grows
      <3>4. w1[n + i] = [resize |-> FALSE, safe |-> b1[i].safe, modes |-> b1[i].modes,
                         size |-> Look(w, Len(w)).size, upto |-> Look(w, Len(w)).upto + i]
        BY <3>2 DEF Grows, b1
      <3> QED BY <3>1, <3>3, <3>4, <1>1
    <2> QED BY <2>1, <2>2, <1>1
  <1> QED BY <1>1, <1>2, <1>3 DEF Extends

\* What a piece is, and that the last record has room for it.
LEMMA PieceFits ==
    ASSUME IInv, call.op = "append", call.rest # <<>>, Room > 0
    PROVE  /\ entries # <<>> /\ Len(entries) \in 1..Len(entries)
           /\ Take \in 1..Len(call.rest)
           /\ Piece \in Seq(Byte) /\ Len(Piece) = Take
           /\ ~IsResize(entries[Len(entries)])
           /\ entries[Len(entries)].seq + Len(entries[Len(entries)].bytes) = Len(written)
           /\ Sound(written, entries[Len(entries)])
           /\ Len(entries[Len(entries)].bytes) + Take <= ChunkCap
  <1> DEFINE last == entries[Len(entries)]
  <1>1. entries \in Seq(Entry) /\ Len(entries) \in Nat /\ call.rest \in Seq(Byte)
        /\ Len(call.rest) \in Nat /\ Len(call.rest) >= 1
    BY DEF IInv, Typed, Call
  <1>2. entries # <<>> /\ ~IsResize(last) /\ Room = Most(0, ChunkCap - Len(last.bytes))
    BY DEF Room
  <1>3. Len(entries) \in 1..Len(entries)
    BY <1>1, <1>2
  <1>4. Sound(written, last) /\ last \in Entry /\ last.seq + Span(last) = Len(written)
    BY <1>2, <1>3 DEF IInv, RingInv, RingOK, Sound
  <1>5. Span(last) = Len(last.bytes) /\ Len(last.bytes) \in Nat /\ ChunkCap \in Nat
    BY <1>2, <1>4, LogAssumption DEF Span, Entry, ChunkCap, Most, Least
  <1>6. Room \in Nat /\ Room + Len(last.bytes) = ChunkCap
    <2>1. \A a, b \in Nat : Most(0, a - b) > 0 => Most(0, a - b) = a - b /\ (a - b) + b = a
      BY DEF Most
    <2>2. \A a, b \in Nat : Most(0, a - b) \in Nat
      BY DEF Most
    <2> HIDE DEF last
    <2> QED BY <2>1, <2>2, <1>2, <1>5
  <1>7. Take \in 1..Len(call.rest) /\ Take <= Room
    BY <1>1, <1>6 DEF Take, Least
  <1>8. Piece \in Seq(Byte) /\ Len(Piece) = Take
    BY <1>1, <1>7 DEF Piece
  <1>9. Len(last.bytes) + Take <= ChunkCap
    BY <1>1, <1>5, <1>6, <1>7
  <1> QED BY <1>2, <1>3, <1>4, <1>5, <1>7, <1>8, <1>9

\* However the piece is split over records, the ring holds it.
LEMMA FillRing ==
    ASSUME IInv, FillRecord
    PROVE  /\ RingOK(entries', written', head_seq)
           /\ Grows(written', written, Piece)
           /\ sealed' \in BOOLEAN
  <1> DEFINE last == entries[Len(entries)]
             f == Longer(last, Piece)
             grown == [entries EXCEPT ![Len(entries)] = f]
  <1>1. /\ call.op = "append" /\ call.rest # <<>> /\ Room > 0
        /\ GrowRecord \/ \E o \in 1..Take : CloseRecord(o)
        /\ written' = written \o AfterBytes(Piece)
    BY DEF FillRecord
  <1>2. RingOK(entries, written, head_seq) /\ written \in Seq(Past)
        /\ Len(written) = tail_seq /\ sealed \in BOOLEAN
    BY DEF IInv, Typed, RingInv
  <1>3. Grows(written', written, Piece)
    BY <1>1, <1>2, PieceFits, HistoryGrows
  <1>4. Extends(written', written)
    BY <1>3 DEF Grows
  <1>5. Sound(written', f) /\ f.seq = last.seq /\ f.seq + Span(f) = Len(written')
    <2>1. /\ Piece \in Seq(Byte) /\ Sound(written, last) /\ ~IsResize(last)
          /\ last.seq + Len(last.bytes) = Len(written)
          /\ Len(last.bytes) + Len(Piece) <= ChunkCap
      BY <1>1, PieceFits
    <2> HIDE DEF last
    <2> QED BY <2>1, <1>2, <1>3, FillSound
  <1>6. RingOK(grown, written', head_seq)
    <2> HIDE DEF f
    <2> QED BY <1>1, <1>2, <1>4, <1>5, PieceFits, RingFill
  <1>7. CASE GrowRecord
    BY <1>3, <1>6, <1>2, <1>7 DEF GrowRecord, Filled, Longer
  <1>8. ASSUME NEW o \in 1..Take, CloseRecord(o)
        PROVE  RingOK(entries', written', head_seq) /\ sealed' \in BOOLEAN
    <2>1. CASE ~(o < Take)
      BY <1>6, <1>8, <2>1 DEF CloseRecord, Filled, Longer
    <2>2. CASE o < Take
      <3> DEFINE b1 == SubSeq(Piece, 1, o)
                 w1 == written \o AfterBytes(b1)
                 f1 == Longer(last, b1)
                 es1 == [entries EXCEPT ![Len(entries)] = f1]
                 r == RestOf(written, Piece, o)
      <3>1. o \in 1..(Len(Piece) - 1) /\ o <= Take /\ Take \in Nat /\ o \in Nat
            /\ Len(Piece) = Take /\ Piece \in Seq(Byte)
        BY <1>1, <2>2, PieceFits
      <3>2. b1 \in Seq(Byte) /\ Len(b1) = o
        BY <3>1
      <3>3. Grows(w1, written, b1)
        BY <1>2, <3>2, HistoryGrows
      <3>4. Extends(w1, written)
        BY <3>3 DEF Grows
      <3>5. Extends(written', w1)
        BY <1>2, <1>3, <3>1, <3>3, GrowsInSteps
      <3>6. Len(last.bytes) + Len(b1) <= ChunkCap
        <4>1. Len(last.bytes) \in Nat /\ ChunkCap \in Nat
          BY <1>1, PieceFits, LogAssumption DEF Sound, Entry, ChunkCap, Most, Least
        <4> QED BY <4>1, <1>1, <3>1, <3>2, PieceFits
      <3>7. Sound(w1, f1) /\ f1.seq = last.seq /\ f1.seq + Span(f1) = Len(w1)
        <4>1. /\ Sound(written, last) /\ ~IsResize(last)
              /\ last.seq + Len(last.bytes) = Len(written)
          BY <1>1, PieceFits
        <4>2. b1 \in Seq(Byte) /\ written \in Seq(Past) /\ Grows(w1, written, b1)
              /\ Len(last.bytes) + Len(b1) <= ChunkCap
          BY <1>2, <3>2, <3>3, <3>6
        <4> HIDE DEF last, b1, w1
        <4> QED BY <4>1, <4>2, FillSound
      <3>8. RingOK(es1, w1, head_seq)
        <4> HIDE DEF f1, w1
        <4> QED BY <1>1, <1>2, <3>4, <3>7, PieceFits, RingFill
      <3>9. Sound(written', r) /\ r.seq = Len(w1) /\ r.seq + Span(r) = Len(written')
        <4>1. Piece[o].safe /\ Len(Piece) <= ChunkCap
          <5>1. Len(last.bytes) \in Nat /\ ChunkCap \in Nat
            BY <1>1, PieceFits, LogAssumption DEF Sound, Entry, ChunkCap, Most, Least
          <5> QED BY <5>1, <1>1, <1>8, <3>1, PieceFits DEF CloseRecord, Closes, LastSafe
        <4>2. Grows(w1, written, SubSeq(Piece, 1, o))
          BY <3>3
        <4> HIDE DEF w1
        <4> QED BY <4>1, <4>2, <1>2, <1>3, <3>1, RestSound
      <3>10. RingOK(Append(es1, r), written', head_seq)
        <4> HIDE DEF r, w1, es1
        <4> QED BY <3>5, <3>8, <3>9, RingPush
      <3>11. entries' = Append(es1, r)
        BY <1>2, <1>8, <2>2, <3>1 DEF CloseRecord, Filled, Longer, RestOf
      <3>12. sealed' = sealed
        BY <1>8, <2>2 DEF CloseRecord
      <3> HIDE DEF es1, r
      <3> QED BY <1>2, <3>10, <3>11, <3>12
    <2> QED BY <2>1, <2>2
  <1> QED BY <1>1, <1>3, <1>7, <1>8

\* append_output fills the open record, and closes it when it is full.
LEMMA InvFillRecord ==
    ASSUME IInv, FillRecord
    PROVE  IInv'
  <1> DEFINE n == Len(written)
  <1>1. /\ call.op = "append" /\ call.rest # <<>> /\ Room > 0
        /\ scanner' = Piece[Take] /\ tail_seq' = tail_seq + Take /\ stored' = stored + Take
        /\ call' = IF Take = Len(call.rest) THEN Trim(Capacity)
                   ELSE [call EXCEPT !.rest = SubSeq(@, Take + 1, Len(@))]
        /\ UNCHANGED <<head_seq, head_size, head_modes, head_torn>>
    BY DEF FillRecord, told
  <1>2. /\ Take \in 1..Len(call.rest) /\ Take \in Nat /\ Piece \in Seq(Byte)
        /\ Len(Piece) = Take /\ Take \in 1..Len(Piece) /\ call.rest \in Seq(Byte)
        /\ Len(call.rest) \in Nat
    BY SMTT(30), <1>1, PieceFits DEF IInv, Typed, Call
  <1>3. RingOK(entries', written', head_seq') /\ Grows(written', written, Piece)
        /\ sealed' \in BOOLEAN
    BY <1>1, FillRing
  <1>4. n \in Nat /\ tail_seq = n /\ Len(written') = n + Take /\ written' \in Seq(Past)
        /\ \A p \in 1..n : written'[p] = written[p]
    BY <1>2, <1>3, InvFacts DEF Grows, Extends
  <1>5. \A p \in 0..n : Look(written', p) = Look(written, p)
    BY <1>4 DEF Look
  <1>6. Look(written', n + Take) =
          [resize |-> FALSE, safe |-> Piece[Take].safe, modes |-> Piece[Take].modes,
           size |-> Look(written, n).size, upto |-> Look(written, n).upto + Take]
    <2>1. n + Take # 0
      BY <1>2, <1>4
    <2>2. written'[n + Take] =
            [resize |-> FALSE, safe |-> Piece[Take].safe, modes |-> Piece[Take].modes,
             size |-> Look(written, n).size, upto |-> Look(written, n).upto + Take]
      BY <1>2, <1>3 DEF Grows
    <2> QED BY <2>1, <2>2 DEF Look
  <1>7. /\ head_seq \in 0..n
        /\ Look(written', head_seq') = Look(written, head_seq)
        /\ Look(written', tail_seq') = Look(written', n + Take)
    BY <1>1, <1>4, <1>5, InvFacts
  <1>8. Rising(written')
    BY <1>2, <1>3, <1>4, InvFacts, RisingGrows DEF IInv, RingInv
  <1>9. RingInv'
    <2>1. stored' = Look(written', tail_seq').upto - Look(written', head_seq').upto
      <3>1. stored = Look(written, n).upto - Look(written, head_seq).upto
        BY <1>4 DEF IInv, RingInv
      <3>2. Look(written, n).upto \in Nat /\ Look(written, head_seq).upto \in Nat
        BY <1>4, InvFacts DEF Past
      <3>3. Look(written', tail_seq').upto = Look(written, n).upto + Take
        BY <1>6, <1>7
      <3> QED BY <3>1, <3>2, <3>3, <1>1, <1>2, <1>7
    <2>2. scanner'.safe = Look(written', tail_seq').safe
          /\ scanner'.modes = Look(written', tail_seq').modes
      BY <1>1, <1>6, <1>7
    <2>3. head_size' = Look(written', head_seq').size
      BY <1>1, <1>7 DEF IInv, RingInv
    <2> QED BY <2>1, <2>2, <2>3, <1>1, <1>3, <1>4, <1>8 DEF RingInv
  <1>10. ToldAt(head_seq)
    BY <1>1 DEF IInv, CallInv, SeenHead, Trimming
  <1>11. call' \in Call /\ CallInv'
    <2>1. CASE Take = Len(call.rest)
      <3>1. call' = [op |-> "trim", rest |-> <<>>, limit |-> Capacity, before |-> head_seq,
                     settle |-> FALSE]
        BY <1>1, <2>1 DEF Trim
      <3>2. call' \in Call /\ call'.op = "trim" /\ call'.before = head_seq
            /\ call'.limit = Capacity
        BY <3>1, LogAssumption DEF Call, Ops, IInv, Typed
      <3>3. Trimming' /\ SeenHead' = head_seq
        BY <3>2 DEF Trimming, SeenHead
      <3>4. ToldAt(SeenHead)'
        BY <1>1, <1>7, <1>10, <3>3 DEF ToldAt
      <3>5. head_seq \in Nat /\ head_seq' = head_seq /\ ~(Capacity > Capacity)
        BY <1>1, LogAssumption DEF IInv, Typed
      <3> QED BY <3>2, <3>3, <3>4, <3>5 DEF CallInv
    <2>2. CASE Take # Len(call.rest)
      <3>1. call' = [call EXCEPT !.rest = SubSeq(call.rest, Take + 1, Len(call.rest))]
            /\ call \in Call
        BY <1>1, <2>2 DEF IInv, Typed
      <3>2. SubSeq(call.rest, Take + 1, Len(call.rest)) \in Seq(Byte)
            /\ SubSeq(call.rest, Take + 1, Len(call.rest)) # <<>>
        <4>1. Take + 1 \in 1..Len(call.rest)
          BY <1>2, <2>2
        <4>2. \A s \in Seq(Byte) : \A t \in 1..Len(s) :
                 SubSeq(s, t, Len(s)) \in Seq(Byte) /\ SubSeq(s, t, Len(s)) # <<>>
          <5> TAKE s \in Seq(Byte)
          <5> TAKE t \in 1..Len(s)
          <5>1. SubSeq(s, t, Len(s)) \in Seq(Byte)
                /\ Len(SubSeq(s, t, Len(s))) = Len(s) - t + 1
            OBVIOUS
          <5>2. Len(s) - t + 1 # 0
            OBVIOUS
          <5> QED BY <5>1, <5>2
        <4> QED BY <1>2, <4>1, <4>2
      <3>3. call' \in Call /\ call'.op = "append" /\ call'.rest # <<>>
        BY <1>1, <3>1, <3>2 DEF Call
      <3>4. ~Trimming' /\ SeenHead' = head_seq
        BY <1>1, <3>3 DEF Trimming, SeenHead
      <3>5. ToldAt(SeenHead)'
        BY <1>1, <1>7, <1>10, <3>4 DEF ToldAt
      <3> QED BY <3>3, <3>4, <3>5 DEF CallInv
    <2> QED BY <2>1, <2>2
  <1>12. Typed'
    <2>1. stored' \in Nat /\ tail_seq' \in Nat
      BY <1>1, <1>2 DEF IInv, Typed
    <2>2. scanner' \in Byte
      BY <1>1, <1>2
    <2>3. entries' \in Seq(Entry)
      BY <1>3 DEF RingOK
    <2> QED BY <2>1, <2>2, <2>3, <1>1, <1>3, <1>4, <1>11 DEF IInv, Typed
  <1> QED BY <1>9, <1>11, <1>12 DEF IInv

\* Every step keeps the invariant.
LEMMA InvNext == IInv /\ [Next]_vars => IInv'
  <1> SUFFICES ASSUME IInv, [Next]_vars PROVE IInv'
    OBVIOUS
  <1>1. CASE \E bytes \in Pieces : AppendOutput(bytes)
    BY <1>1, InvAppendOutput
  <1>2. CASE \E size \in Sizes : AppendResize(size)
    BY <1>2, InvAppendResize
  <1>3. CASE \E limit \in Limits : TrimTo(limit)
    BY <1>3, InvTrimTo
  <1>4. CASE Clear
    BY <1>4, InvClear
  <1>5. CASE OpenRecord
    BY <1>5, InvOpenRecord
  <1>6. CASE FillRecord
    BY <1>6, InvFillRecord
  <1>7. CASE DropToClean
    BY <1>7, InvDropToClean
  <1>8. CASE StartCut
    BY <1>8, InvStartCut
  <1>9. CASE Cut
    BY <1>9, InvCut
  <1>10. CASE EndTrim
    BY <1>10, InvEndTrim
  <1>11. CASE UNCHANGED vars
    BY <1>11 DEF vars, ring, told, IInv, Typed, RingInv, CallInv, Trimming, SeenHead, ToldAt,
                 HasClean, Look
  <1> QED
    BY <1>1, <1>2, <1>3, <1>4, <1>5, <1>6, <1>7, <1>8, <1>9, <1>10, <1>11 DEF Next, Running

\* The invariant holds throughout, for every capacity, chunk size, seal
\* length and sequence of calls to append_output, append_resize, trim_to and
\* clear.
THEOREM RingInvariant == Spec => []IInv
  <1> QED BY InvInit, InvNext, PTL DEF Spec

(***************************************************************************)
(* The properties.                                                         *)
(***************************************************************************)
\* The fields keep their types; in particular no subtraction from `stored`
\* (drop_head_record) goes below zero.
THEOREM TypeCorrect == Spec => []TypeOK
  <1>1. IInv => TypeOK
    BY DEF IInv, Typed, TypeOK
  <1> QED BY <1>1, RingInvariant, PTL

\* The records hold exactly what was written from the head to the tail, in
\* chunks of at most ChunkCap bytes.
THEOREM RetainedAlways == Spec => []Retained
  <1>1. IInv => Retained
    <2> SUFFICES ASSUME IInv PROVE Retained
      OBVIOUS
    <2>1. RingOK(entries, written, head_seq) /\ tail_seq = Len(written)
          /\ Len(entries) \in Nat
      BY DEF IInv, Typed, RingInv
    <2>2. Abut
      <3>1. entries = <<>> => head_seq = tail_seq
        BY <2>1 DEF RingOK
      <3>2. entries # <<>> => head_seq = entries[1].seq
        BY <2>1 DEF RingOK
      <3>3. ASSUME NEW i \in 1..Len(entries)
            PROVE  entries[i].seq + Span(entries[i]) =
                     IF i = Len(entries) THEN tail_seq ELSE entries[i + 1].seq
        <4>1. CASE i = Len(entries)
          BY <2>1, <4>1 DEF RingOK
        <4>2. CASE i # Len(entries)
          <5>1. i \in 1..(Len(entries) - 1)
            BY <2>1, <4>2
          <5> QED BY <2>1, <4>2, <5>1 DEF RingOK
        <4> QED BY <4>1, <4>2
      <3> QED BY <2>1, <3>1, <3>2, <3>3 DEF Abut
    <2>3. ASSUME NEW i \in 1..Len(entries)
          PROVE  Faithful(entries[i]) /\ Len(entries[i].bytes) <= ChunkCap
      <3>1. Sound(written, entries[i])
        BY <2>1 DEF RingOK
      <3> QED BY <3>1 DEF Sound, Faithful
    <2> QED BY <2>2, <2>3 DEF Retained
  <1> QED BY <1>1, RingInvariant, PTL

\* `stored` is what the held positions are charged.
THEOREM ChargedAlways == Spec => []Charged
  <1>1. IInv => Charged
    BY AtLook DEF IInv, RingInv, Charged
  <1> QED BY <1>1, RingInvariant, PTL

\* Between calls, what a replay from the head is told of it is true.
THEOREM HeadKnownAlways == Spec => []HeadKnown
  <1>1. IInv => HeadKnown
    <2> SUFFICES ASSUME IInv, call.op = "idle" PROVE HeadKnown
      BY DEF HeadKnown
    <2>1. SeenHead = head_seq
      BY DEF SeenHead, Trimming
    <2>2. ToldAt(head_seq)
      BY <2>1 DEF IInv, CallInv
    <2> QED BY <2>2, AtLook DEF IInv, RingInv, ToldAt, HeadKnown
  <1> QED BY <1>1, RingInvariant, PTL

\* Between calls the log is not above twice its capacity, nor above its
\* capacity while a record after the first starts where it may be cut.
THEOREM BoundedAlways == Spec => []Bounded
  <1>1. IInv => Bounded
    BY DEF IInv, CallInv, Bounded
  <1> QED BY <1>1, RingInvariant, PTL

\* What the log holds and what it charges for it, together: after every step
\* of append_output, append_resize and trim_to the records are the stream and
\* `stored` is their cost.
THEOREM HeldExactAlways == Spec => []HeldExact
  <1> QED BY RetainedAlways, ChargedAlways, PTL DEF HeldExact

\* What a reader that takes the lock is told of the head, and how much the
\* log holds then.
THEOREM HeadSettledAlways == Spec => []HeadSettled
  <1> QED BY HeadKnownAlways, BoundedAlways, PTL DEF HeadSettled

(***************************************************************************)
(* The proof that the ring of SessionLog implements LogPromise: whatever   *)
(* trims, closes and drops do to the records, a reader sees a log whose    *)
(* head only moves forward, and only where the promise lets it.            *)
(*                                                                         *)
(* A trim moves the head record by record, and LogPromise in one step, as  *)
(* the call returns.  MoveInv says, while it is under way, why its result  *)
(* will be allowed: the head is where it was or at a place to cut, or the  *)
(* log had outgrown twice its capacity when the call began, or nothing is  *)
(* to be kept.                                                             *)
(***************************************************************************)
HeldFrom(p) == Look(written, tail_seq).upto - Look(written, p).upto

\* Why the head may be where it is, for the call that moves it
MoveInv ==
    /\ call.op = "trim" =>
          ~call.settle /\ (head_seq = call.before \/ Look(written, head_seq).safe)
    /\ call.op = "drop" => ~call.settle
    /\ call.op = "cut" => call.limit = 0 \/ HeldFrom(call.before) > 2 * Capacity

RInv == IInv /\ MoveInv

(***************************************************************************)
(* MoveInv is kept.                                                        *)
(***************************************************************************)
\* trim_to and clear begin with the head where it is.
LEMMA MoveBegins ==
    ASSUME IInv,
           \/ \E limit \in Nat : call' = Trim(limit)
           \/ call' = [Trim(0) EXCEPT !.op = "cut", !.settle = TRUE],
           head_seq' = head_seq
    PROVE  MoveInv'
  <1>1. CASE \E limit \in Nat : call' = Trim(limit)
    BY <1>1 DEF MoveInv, Trim
  <1>2. CASE call' = [Trim(0) EXCEPT !.op = "cut", !.settle = TRUE]
    BY <1>2 DEF MoveInv, Trim
  <1> QED BY <1>1, <1>2

\* A drop that makes a record the head that starts where the stream may be
\* cut goes on as a trim (droppable_head_records).
LEMMA MoveDropToClean ==
    ASSUME RInv, DropToClean
    PROVE  MoveInv'
  <1>1. /\ call' = [call EXCEPT !.op = IF entries[2].clean THEN "trim" ELSE "drop"]
        /\ call \in Call /\ DropHead
        /\ call.op \in {"trim", "drop"} /\ HasClean
    BY DEF DropToClean, RInv, IInv, Typed, CallInv
  <1>2. /\ call' \in Call /\ call'.settle = call.settle
        /\ call'.op = IF entries[2].clean THEN "trim" ELSE "drop"
    BY <1>1 DEF Call, Ops
  <1>3. ~call.settle
    BY <1>1 DEF RInv, MoveInv
  <1>4. ASSUME entries[2].clean PROVE Look(written, head_seq)'.safe
    <2>1. /\ RingInv' /\ Len(entries') = Len(entries) - 1
          /\ \A i \in 1..(Len(entries) - 1) : entries'[i] = entries[i + 1]
      BY <1>1, <1>2, DropKeeps DEF RInv
    <2>2. Len(entries) \in Nat /\ Len(entries) >= 2
      <3>1. Len(entries) \in Nat
        BY DEF RInv, IInv, Typed
      <3> QED BY <1>1, <3>1 DEF HasClean
    <2>3. 1 \in 1..(Len(entries) - 1) /\ 1 \in 1..Len(entries')
      BY <2>1, <2>2
    <2>4. entries'[1] = entries[2] /\ entries' # <<>>
      BY <2>1, <2>3
    <2>5. Sound(written', entries'[1]) /\ entries'[1].seq = head_seq'
      BY <2>1, <2>3, <2>4 DEF RingInv, RingOK
    <2> QED BY <1>4, <2>4, <2>5 DEF Sound
  <1> QED BY <1>2, <1>3, <1>4 DEF MoveInv

\* A log that is over twice its capacity now was so when the trim began.
LEMMA MoveStartCut ==
    ASSUME RInv, StartCut
    PROVE  MoveInv'
  <1>1. /\ call' = [call EXCEPT !.op = "cut"] /\ call \in Call /\ Trimming
        /\ CutToNothing \/ Overgrown
        /\ written' = written /\ tail_seq' = tail_seq
    BY DEF StartCut, RInv, IInv, Typed, Trimming, ring
  <1>2. call'.op = "cut" /\ call'.before = call.before /\ call'.limit = call.limit
    BY <1>1 DEF Call, Ops
  <1>3. CASE CutToNothing
    BY <1>2, <1>3 DEF MoveInv, CutToNothing
  <1>4. CASE Overgrown
    <2>1. /\ call.before \in 0..Len(written) /\ head_seq \in 0..Len(written)
          /\ tail_seq \in 0..Len(written) /\ call.before <= head_seq
      <3>1. SeenHead = call.before
        BY <1>1 DEF SeenHead
      <3> QED BY <3>1, <1>1, InvFacts DEF RInv, IInv, CallInv
    <2>2. /\ Look(written, call.before).upto \in Nat /\ Look(written, head_seq).upto \in Nat
          /\ Look(written, tail_seq).upto \in Nat
      BY <2>1, InvFacts, LookType DEF Past, RInv
    <2>3. Look(written, call.before).upto <= Look(written, head_seq).upto
      <3>1. CASE call.before = head_seq
        BY <3>1, <2>2
      <3>2. CASE call.before # head_seq
        <4>1. call.before < head_seq
          BY <3>2, <2>1
        <4>2. Look(written, call.before).upto < Look(written, head_seq).upto
          BY <4>1, <2>1 DEF RInv, IInv, RingInv, Rising
        <4> QED BY <4>2, <2>2
      <3> QED BY <3>1, <3>2
    <2>4. stored = Look(written, tail_seq).upto - Look(written, head_seq).upto
          /\ stored > 2 * Capacity
      BY <1>4 DEF RInv, IInv, RingInv, Overgrown
    <2>5. HeldFrom(call.before) > 2 * Capacity
      BY <2>2, <2>3, <2>4, LogAssumption DEF HeldFrom
    <2> QED BY <1>1, <1>2, <2>5 DEF MoveInv, HeldFrom, Look
  <1> QED BY <1>1, <1>3, <1>4

\* Nothing in a cut changes why it may be made.
LEMMA MoveCut ==
    ASSUME RInv, Cut
    PROVE  MoveInv'
  BY DEF RInv, MoveInv, Cut, DropHead, told, HeldFrom, Look

\* Every step keeps it.
LEMMA RInvNext == RInv /\ [Next]_vars => RInv'
  <1> SUFFICES ASSUME RInv, [Next]_vars PROVE MoveInv'
    BY InvNext DEF RInv
  <1>0. IInv /\ call \in Call
    BY DEF RInv, IInv, Typed
  <1>1. ASSUME NEW bytes \in Pieces, AppendOutput(bytes) PROVE MoveInv'
    BY <1>1 DEF AppendOutput, Idle, MoveInv
  <1>2. ASSUME NEW size \in Sizes, AppendResize(size) PROVE MoveInv'
    BY <1>0, <1>2, MoveBegins, LogAssumption DEF AppendResize
  <1>3. ASSUME NEW limit \in Limits, TrimTo(limit) PROVE MoveInv'
    BY <1>0, <1>3, MoveBegins, LogAssumption DEF TrimTo, ring
  <1>4. CASE Clear
    BY <1>0, <1>4, MoveBegins DEF Clear, ring
  <1>5. CASE OpenRecord
    BY <1>5 DEF OpenRecord, MoveInv
  <1>6. CASE FillRecord
    <2>1. CASE Take = Len(call.rest)
      BY <1>0, <1>6, <2>1, MoveBegins, LogAssumption DEF FillRecord
    <2>2. CASE Take # Len(call.rest)
      <3>1. call'.op = "append"
        BY <1>0, <1>6, <2>2 DEF FillRecord, Call
      <3> QED BY <3>1 DEF MoveInv
    <2> QED BY <2>1, <2>2
  <1>7. CASE DropToClean
    BY <1>7, MoveDropToClean
  <1>8. CASE StartCut
    BY <1>8, MoveStartCut
  <1>9. CASE Cut
    BY <1>9, MoveCut
  <1>10. CASE EndTrim
    BY <1>10 DEF EndTrim, Idle, MoveInv
  <1>11. CASE UNCHANGED vars
    BY <1>11 DEF vars, ring, RInv, MoveInv, HeldFrom, Look
  <1> QED
    BY <1>1, <1>2, <1>3, <1>4, <1>5, <1>6, <1>7, <1>8, <1>9, <1>10, <1>11 DEF Next, Running

\* The strengthened invariant holds throughout.
THEOREM MoveAllowed == Spec => []RInv
  <1>1. Init => RInv
    BY InvInit DEF Init, Idle, RInv, MoveInv
  <1> QED BY <1>1, RInvNext, PTL DEF Spec

(***************************************************************************)
(* The refinement.                                                         *)
(***************************************************************************)
\* The log of the promise, and the ring's, at a position.
LEMMA PromiseAt == \A p : Promise!At(p) = Look(written, p)
  BY DEF Promise!At, Look

\* A step that changes neither the history nor what is told, and that does not
\* end a trim, is none of the promise.
LEMMA Stutters ==
    ASSUME UNCHANGED <<written, head_modes, head_torn>>, SeenHead' = SeenHead
    PROVE  UNCHANGED Promise!vars
  BY DEF Promise!vars, At

\* What is added to the history leaves what was there.
LEMMA GrowsWrites ==
    ASSUME RInv, Extends(written', written), Len(written') > Len(written),
           UNCHANGED <<head_modes, head_torn>>, SeenHead' = SeenHead
    PROVE  Promise!Write
  <1>1. /\ written \in Seq(Past) /\ Len(written) \in Nat /\ SeenHead \in 0..Len(written)
    BY InvFacts DEF RInv
  <1>2. /\ written' \in Seq(Past) /\ \A p \in 1..Len(written) : written'[p] = written[p]
        /\ Len(written) <= Len(written')
    BY DEF Extends
  <1>3. SubSeq(written', 1, Len(written)) = written
    BY <1>1, <1>2
  <1>4. At(SeenHead)' = At(SeenHead)
    <2>1. SeenHead = 0 \/ SeenHead \in 1..Len(written)
      BY <1>1
    <2> QED BY <2>1, <1>2 DEF At
  <1> QED BY <1>3, <1>4 DEF Promise!Write

\* The calls that write.
LEMMA FillWrites ==
    ASSUME RInv, FillRecord
    PROVE  Promise!Write
  <1>1. /\ call.op = "append" /\ call.rest # <<>> /\ Room > 0
        /\ call' = IF Take = Len(call.rest) THEN Trim(Capacity)
                   ELSE [call EXCEPT !.rest = SubSeq(@, Take + 1, Len(@))]
        /\ UNCHANGED <<head_seq, head_modes, head_torn>> /\ call \in Call
    BY DEF FillRecord, told, RInv, IInv, Typed
  <1>2. Take \in 1..Len(call.rest) /\ Len(Piece) = Take
    BY <1>1, PieceFits DEF RInv
  <1>3. Grows(written', written, Piece)
    BY FillRing DEF RInv
  <1>4. Extends(written', written) /\ Len(written') > Len(written)
    BY <1>2, <1>3, InvFacts DEF Grows, RInv
  <1>5. SeenHead' = SeenHead
    <2>1. CASE Take = Len(call.rest)
      BY <1>1, <2>1 DEF SeenHead, Trimming, Trim
    <2>2. CASE Take # Len(call.rest)
      <3>1. call'.op = "append"
        BY <1>1, <2>2 DEF Call
      <3> QED BY <1>1, <3>1 DEF SeenHead, Trimming
    <2> QED BY <2>1, <2>2
  <1> QED BY <1>1, <1>4, <1>5, GrowsWrites

\* So does a resize (append_resize).
LEMMA ResizeWrites ==
    ASSUME RInv, NEW size \in Sizes, AppendResize(size)
    PROVE  Promise!Write
  <1>1. /\ written' = Append(written, AfterResize(size))
        /\ call.op = "idle" /\ call' = Trim(Capacity)
        /\ UNCHANGED <<head_seq, head_modes, head_torn>>
    BY DEF AppendResize, told
  <1>2. written \in Seq(Past) /\ scanner \in Byte /\ At(tail_seq) \in Past
    BY InvFacts DEF RInv
  <1>3. AfterResize(size) \in Past
    BY <1>2, LogAssumption DEF AfterResize, Past, Byte
  <1>4. Extends(written', written) /\ Len(written') > Len(written)
    BY <1>1, <1>2, <1>3 DEF Extends
  <1>5. SeenHead' = SeenHead
    BY <1>1 DEF SeenHead, Trimming, Trim
  <1> QED BY <1>1, <1>4, <1>5, GrowsWrites

\* A trim returns: the head has moved, to where the promise lets it, and what
\* is told of it is what holds there; or it has not, and nothing is told anew.
LEMMA EndTrimMoves ==
    ASSUME RInv, EndTrim
    PROVE  [Promise!Next]_(Promise!vars)
  <1>1. /\ Trimming /\ call' = Idle /\ call \in Call
        /\ UNCHANGED <<entries, head_seq, tail_seq, stored, written>>
    BY DEF EndTrim, Trimming, RInv, IInv, Typed
  <1>2. SeenHead = call.before /\ SeenHead' = head_seq
    BY <1>1 DEF SeenHead, Trimming, Idle
  <1>3. CASE call.settle \/ head_seq # call.before
    <2>1. Settle
      BY <1>3 DEF EndTrim
    <2>2. ToldAt(head_seq)' /\ head_modes' \in Modes
      BY <1>1, <2>1, SettleTells DEF RInv
    <2>3. /\ head_modes' = Look(written, head_seq).modes
          /\ head_torn' = ~Look(written, head_seq).safe
      BY <1>1, <2>2, LogAssumption DEF ToldAt, Look
    <2>4. At(SeenHead)'.size = Look(written, head_seq).size
      BY <1>1, <1>2 DEF At, Look
    <2>5. head_seq \in SeenHead..Len(written) /\ head_seq \in Nat
      BY InvFacts DEF RInv
    <2>6. \/ Look(written, head_seq).safe
          \/ HeldFrom(call.before) > 2 * Capacity
          \/ head_seq = Len(written)
      <3>1. CASE call.op = "trim"
        BY <1>3, <3>1 DEF RInv, MoveInv
      <3>2. CASE call.op = "cut" /\ call.limit = 0
        <4>1. stored <= 0 \/ entries = <<>>
          BY <3>2 DEF EndTrim
        <4>2. CASE entries = <<>>
          BY <4>2 DEF RInv, IInv, RingInv, RingOK
        <4>3. CASE stored <= 0 /\ head_seq # Len(written)
          <5>1. /\ head_seq \in 0..Len(written) /\ tail_seq \in 0..Len(written)
                /\ head_seq < tail_seq
            BY <4>3, InvFacts DEF RInv
          <5>2. Look(written, head_seq).upto < Look(written, tail_seq).upto
            BY <5>1 DEF RInv, IInv, RingInv, Rising
          <5>3. Look(written, head_seq).upto \in Nat /\ Look(written, tail_seq).upto \in Nat
            BY InvFacts DEF RInv, Past
          <5> QED BY <4>3, <5>2, <5>3 DEF RInv, IInv, RingInv
        <4> QED BY <4>1, <4>2, <4>3
      <3>3. CASE call.op = "cut" /\ call.limit # 0
        BY <3>3 DEF RInv, MoveInv
      <3> QED BY <3>1, <3>2, <3>3 DEF EndTrim
    <2>7. Promise!MoveHead(head_seq)
      <3>1. Promise!Held = HeldFrom(call.before)
        BY <1>2, PromiseAt, InvFacts DEF Promise!Held, HeldFrom, RInv
      <3>2. Promise!At(head_seq) = Look(written, head_seq)
        BY PromiseAt
      <3> QED BY <1>1, <1>2, <2>3, <2>4, <2>5, <2>6, <3>1, <3>2 DEF Promise!MoveHead
    <2> QED BY <2>5, <2>7 DEF Promise!Next
  <1>4. CASE ~(call.settle \/ head_seq # call.before)
    BY <1>1, <1>2, <1>4, Stutters DEF EndTrim, told
  <1> QED BY <1>3, <1>4

\* Every step of the ring is one of the promise, or none.
LEMMA StepPromised == RInv /\ [Next]_vars => [Promise!Next]_(Promise!vars)
  <1> SUFFICES ASSUME RInv, [Next]_vars PROVE [Promise!Next]_(Promise!vars)
    OBVIOUS
  <1>0. call \in Call
    BY DEF RInv, IInv, Typed
  <1>1. ASSUME NEW bytes \in Pieces, AppendOutput(bytes) PROVE UNCHANGED Promise!vars
    BY <1>1, Stutters DEF AppendOutput, Idle, SeenHead, Trimming, ring, told
  <1>2. ASSUME NEW size \in Sizes, AppendResize(size) PROVE Promise!Write
    BY <1>2, ResizeWrites
  <1>3. ASSUME NEW limit \in Limits, TrimTo(limit) PROVE UNCHANGED Promise!vars
    BY <1>3, Stutters DEF TrimTo, Trim, SeenHead, Trimming, ring, told
  <1>4. CASE Clear
    BY <1>4, Stutters DEF Clear, Trim, SeenHead, Trimming, ring, told
  <1>5. CASE OpenRecord
    BY <1>5, Stutters DEF OpenRecord, SeenHead, Trimming, told
  <1>6. CASE FillRecord
    BY <1>6, FillWrites DEF Promise!Next
  <1>7. CASE DropToClean
    <2>1. call' \in Call /\ call'.op \in {"trim", "drop"} /\ call'.before = call.before
      BY <1>0, <1>7 DEF DropToClean, Call, Ops
    <2> QED BY <1>7, <2>1, Stutters DEF DropToClean, DropHead, SeenHead, Trimming, told
  <1>8. CASE StartCut
    <2>1. call'.op = "cut" /\ call'.before = call.before
      BY <1>0, <1>8 DEF StartCut, Call
    <2> QED BY <1>8, <2>1, Stutters DEF StartCut, SeenHead, Trimming, told
  <1>9. CASE Cut
    BY <1>9, Stutters DEF Cut, DropHead, SeenHead, Trimming, told
  <1>10. CASE EndTrim
    BY <1>10, EndTrimMoves
  <1>11. CASE UNCHANGED vars
    BY <1>11, Stutters DEF vars, ring, told, SeenHead, Trimming
  <1> QED
    BY <1>1, <1>2, <1>3, <1>4, <1>5, <1>6, <1>7, <1>8, <1>9, <1>10, <1>11
       DEF Next, Running, Promise!Next

\* The ring implements the log it promises to whoever attaches, for every
\* capacity, chunk size, scanner and sequence of calls.
THEOREM LogPromisedHolds == Spec => LogPromised
  <1>1. Init => Promise!Init
    BY DEF Init, Idle, Promise!Init, SeenHead, Trimming, At, Origin
  <1> QED BY <1>1, StepPromised, MoveAllowed, PTL DEF Spec, LogPromised, Promise!Spec

(***************************************************************************)
(* What a reader of the log is given.  An item is copied from a record, so *)
(* it is right because the record is (RingOK); that the items abut and     *)
(* that a batch ends for a reason only is shown at the first record of the *)
(* loop where it would go wrong.                                           *)
(***************************************************************************)
\* A set of natural numbers has a least element.
LEMMA LeastExists ==
  ASSUME NEW T \in SUBSET Nat, T # {}
  PROVE  \E x \in T : \A y \in T : x <= y
  <1> DEFINE R == OpToRel(<, Nat)
  <1>1. IsWellFoundedOn(R, Nat)
    BY NatLessThanWellFounded
  <1>2. \A x, y \in Nat : x < y => <<x, y>> \in R
    BY DEF OpToRel
  <1> HIDE DEF R
  <1>3. PICK x \in T : \A y \in T : ~(<<y, x>> \in R)
    BY <1>1, WFMin
  <1>4. ASSUME NEW y \in T PROVE x <= y
    <2>1. x \in Nat /\ y \in Nat
      OBVIOUS
    <2>2. ~(y < x)
      BY <1>2, <1>3, <2>1, Zenon
    <2> QED BY <2>1, <2>2
  <1> QED BY <1>4

\* Places in a sequence have a last one.
LEMMA LastExists ==
  ASSUME NEW n \in Nat, NEW S \in SUBSET (1..n), S # {}
  PROVE  \E i \in S : \A j \in S : j <= i
  <1> DEFINE T == {n - i : i \in S}
  <1>1. T \in SUBSET Nat /\ T # {}
    <2>1. \A i \in S : n - i \in Nat
      OBVIOUS
    <2> QED BY <2>1
  <1>2. PICK x \in T : \A y \in T : x <= y
    <2> HIDE DEF T
    <2> QED BY <1>1, LeastExists
  <1>3. PICK i \in S : x = n - i
    BY <1>2
  <1>4. ASSUME NEW j \in S PROVE j <= i
    <2>1. n - j \in T
      OBVIOUS
    <2>2. n - i <= n - j
      BY <1>2, <1>3, <2>1
    <2> QED BY <2>2
  <1> QED BY <1>4

\* The records are in the order of their positions.
LEMMA Ordered ==
  ASSUME NEW es, NEW w, NEW h, RingOK(es, w, h),
         NEW i \in 1..Len(es), NEW j \in 1..Len(es), i < j
  PROVE  es[i].seq + Span(es[i]) <= es[j].seq
  <1> DEFINE end == es[i].seq + Span(es[i])
             T == {k \in i + 1..Len(es) : ~(end <= es[k].seq)}
  <1>1. /\ es \in Seq(Entry) /\ Len(es) \in Nat
        /\ \A k \in 1..Len(es) : es[k].seq \in Nat /\ Span(es[k]) \in Nat
    <2>1. es \in Seq(Entry)
      BY DEF RingOK
    <2>2. ASSUME NEW k \in 1..Len(es) PROVE es[k].seq \in Nat /\ Span(es[k]) \in Nat
      <3>1. es[k] \in Entry
        BY <2>1
      <3> QED BY <3>1, SpanType DEF Entry
    <2> QED BY <2>1, <2>2
  <1>2. T = {}
    <2> SUFFICES ASSUME T # {} PROVE FALSE
      OBVIOUS
    <2>1. T \in SUBSET Nat
      BY <1>1
    <2>2. PICK k \in T : \A y \in T : k <= y
      <3> HIDE DEF T
      <3> QED BY <2>1, LeastExists
    <2>3. k \in i + 1..Len(es) /\ ~(end <= es[k].seq) /\ end \in Nat
      BY SMTT(30), <1>1
    <2>4. k - 1 \in 1..Len(es) - 1 /\ k - 1 \in 1..Len(es)
      BY <1>1, <2>3
    <2>5. es[k - 1].seq + Span(es[k - 1]) = es[k].seq
      <3>1. es[k - 1].seq + Span(es[k - 1]) = es[(k - 1) + 1].seq
        BY <2>4 DEF RingOK
      <3> QED BY <3>1, <2>3
    <2>6. CASE k = i + 1
      BY <2>3, <2>5, <2>6
    <2>7. CASE k # i + 1
      <3>1. k - 1 \in i + 1..Len(es) /\ ~(k <= k - 1)
        BY <1>1, <2>3, <2>7
      <3>2. end <= es[k - 1].seq
        BY <2>2, <3>1
      <3>3. es[k - 1].seq \in Nat /\ Span(es[k - 1]) \in Nat /\ es[k].seq \in Nat
        BY SMTT(30), <1>1, <2>3, <2>4
      <3> HIDE DEF end
      <3> QED BY <2>3, <2>5, <3>2, <3>3
    <2> QED BY <2>6, <2>7
  <1>3. j \in i + 1..Len(es)
    BY <1>1
  <1> QED BY <1>2, <1>3

\* Every position of the log is in a record.
LEMMA Covered ==
  ASSUME NEW es, NEW w, NEW h, RingOK(es, w, h), NEW k \in h + 1..Len(w)
  PROVE  \E i \in 1..Len(es) : es[i].seq < k /\ k <= es[i].seq + Span(es[i])
  <1> DEFINE T == {i \in 1..Len(es) : k <= es[i].seq + Span(es[i])}
  <1>1. /\ es \in Seq(Entry) /\ Len(es) \in Nat /\ h \in Nat /\ Len(w) \in Nat
        /\ \A i \in 1..Len(es) : es[i].seq \in Nat /\ Span(es[i]) \in Nat
    <2>1. es \in Seq(Entry) /\ w \in Seq(Past) /\ h \in 0..Len(w)
      BY DEF RingOK
    <2>2. ASSUME NEW i \in 1..Len(es) PROVE es[i].seq \in Nat /\ Span(es[i]) \in Nat
      <3>1. es[i] \in Entry
        BY <2>1
      <3> QED BY <3>1, SpanType DEF Entry
    <2> QED BY <2>1, <2>2
  <1>2. es # <<>>
    BY <1>1 DEF RingOK
  <1>3. Len(es) \in T
    <2>1. es[Len(es)].seq + Span(es[Len(es)]) = Len(w) /\ Len(es) \in 1..Len(es)
      BY <1>1, <1>2 DEF RingOK
    <2> QED BY <1>1, <2>1
  <1>4. PICK i \in T : \A y \in T : i <= y
    <2>1. T \in SUBSET Nat /\ T # {}
      BY <1>1, <1>3
    <2> HIDE DEF T
    <2> QED BY <2>1, LeastExists
  <1>5. es[i].seq < k
    <2>1. CASE i = 1
      BY <1>1, <1>2, <2>1 DEF RingOK
    <2>2. CASE i # 1
      <3>1. i - 1 \in 1..Len(es) - 1 /\ i - 1 \in 1..Len(es) /\ ~(i <= i - 1) /\ (i - 1) + 1 = i
        BY <1>1, <2>2
      <3>2. ~(k <= es[i - 1].seq + Span(es[i - 1]))
        BY <1>4, <3>1
      <3>3. es[i - 1].seq + Span(es[i - 1]) = es[(i - 1) + 1].seq
        BY <3>1 DEF RingOK
      <3>4. es[i - 1].seq \in Nat /\ Span(es[i - 1]) \in Nat /\ k \in Nat
        BY <1>1, <3>1
      <3> QED BY <3>1, <3>2, <3>3, <3>4
    <2> QED BY <2>1, <2>2
  <1> QED BY <1>5

(***************************************************************************)
(* The size at a position (size_at).                                       *)
(***************************************************************************)
\* The terminal's size changes at resizes only
Steady(w) == \A p \in 1..Len(w) : ~w[p].resize => w[p].size = Look(w, p - 1).size
SizeInv == IInv /\ Steady(written)

\* Bytes leave it.
LEMMA SteadyGrows ==
  ASSUME NEW w \in Seq(Past), Steady(w), NEW bs \in Seq(Byte), NEW w2, Grows(w2, w, bs)
  PROVE  Steady(w2)
  <1> DEFINE n == Len(w)
  <1> SUFFICES ASSUME NEW p \in 1..Len(w2), ~w2[p].resize
               PROVE  w2[p].size = Look(w2, p - 1).size
    BY DEF Steady
  <1>1. /\ n \in Nat /\ Len(bs) \in Nat /\ Len(w2) = n + Len(bs)
        /\ \A q \in 1..n : w2[q] = w[q]
        /\ \A q \in 0..n : Look(w2, q) = Look(w, q)
        /\ \A i \in 1..Len(bs) : w2[n + i].size = Look(w, n).size
    <2>1. /\ n \in Nat /\ Len(bs) \in Nat /\ Len(w2) = n + Len(bs)
          /\ \A q \in 1..n : w2[q] = w[q]
      BY DEF Grows, Extends
    <2>2. ASSUME NEW i \in 1..Len(bs) PROVE w2[n + i].size = Look(w, n).size
      <3>1. w2[n + i] = [resize |-> FALSE, safe |-> bs[i].safe, modes |-> bs[i].modes,
                         size |-> Look(w, n).size, upto |-> Look(w, n).upto + i]
        BY DEF Grows
      <3> HIDE DEF n
      <3> QED BY <3>1
    <2>3. \A q \in 0..n : Look(w2, q) = Look(w, q)
      BY <2>1 DEF Look
    <2> HIDE DEF n
    <2> QED BY <2>1, <2>2, <2>3
  <1> HIDE DEF n
  <1>2. CASE p <= n
    <2>1. p \in 1..n /\ p - 1 \in 0..n
      BY <1>1, <1>2
    <2>2. w2[p] = w[p] /\ Look(w2, p - 1) = Look(w, p - 1)
      BY <1>1, <2>1
    <2> QED BY <2>1, <2>2 DEF Steady, n
  <1>3. CASE p > n
    <2>1. p - n \in 1..Len(bs) /\ n + (p - n) = p
      BY <1>1, <1>3
    <2>2. w2[p].size = Look(w, n).size
      BY <1>1, <2>1
    <2>3. CASE p = n + 1
      <3>1. p - 1 = n /\ n \in 0..n
        BY <1>1, <2>3
      <3> QED BY <1>1, <2>2, <3>1
    <2>4. CASE p # n + 1
      <3>1. (p - 1) - n \in 1..Len(bs) /\ n + ((p - 1) - n) = p - 1 /\ p - 1 # 0
        BY <1>1, <1>3, <2>4
      <3>2. w2[p - 1].size = Look(w, n).size
        BY <1>1, <3>1
      <3> QED BY <2>2, <3>1, <3>2 DEF Look
    <2> QED BY <2>3, <2>4
  <1> QED BY <1>1, <1>2, <1>3

\* It is the same wherever no resize lies between.
LEMMA SizeStays ==
  ASSUME NEW w \in Seq(Past), Steady(w), NEW x \in Nat, NEW p \in x..Len(w),
         \A k \in x + 1..p : ~w[k].resize
  PROVE  Look(w, p).size = Look(w, x).size
  <1> DEFINE T == {k \in x..p : Look(w, k).size # Look(w, x).size}
  <1>1. T = {}
    <2> SUFFICES ASSUME T # {} PROVE FALSE
      OBVIOUS
    <2>1. T \in SUBSET Nat
      OBVIOUS
    <2>2. PICK k \in T : \A y \in T : k <= y
      <3> HIDE DEF T
      <3> QED BY <2>1, LeastExists
    <2>3. k \in x..p /\ k # x /\ Look(w, k).size # Look(w, x).size
      OBVIOUS
    <2>4. k - 1 \in x..p /\ ~(k <= k - 1) /\ k \in x + 1..p /\ k \in 1..Len(w) /\ k # 0
      BY <2>3
    <2>5. Look(w, k - 1).size = Look(w, x).size
      BY <2>2, <2>4
    <2>6. w[k].size = Look(w, k - 1).size
      BY <2>4 DEF Steady
    <2> QED BY <2>3, <2>4, <2>5, <2>6 DEF Look
  <1>2. p \in x..p
    OBVIOUS
  <1> QED BY <1>1, <1>2

\* It stays so, whatever is written.
LEMMA SteadyKept ==
  ASSUME SizeInv, [Next]_vars
  PROVE  Steady(written)'
  <1>1. IInv /\ Steady(written) /\ written \in Seq(Past)
    BY DEF SizeInv, IInv, Typed
  <1>2. CASE UNCHANGED written
    BY <1>1, <1>2 DEF Steady, Look
  <1>3. CASE FillRecord
    <2>1. Grows(written', written, Piece) /\ Piece \in Seq(Byte)
      <3>1. call.op = "append" /\ call.rest # <<>> /\ Room > 0
        BY <1>3 DEF FillRecord
      <3> QED BY <1>1, <1>3, <3>1, FillRing, PieceFits
    <2>2. Steady(written')
      BY <1>1, <2>1, SteadyGrows
    <2> QED BY <2>2 DEF Steady, Look
  <1>4. CASE \E size \in Sizes : AppendResize(size)
    <2>1. PICK size \in Sizes : AppendResize(size)
      BY <1>4
    <2> DEFINE x == AfterResize(size)
               n == Len(written)
    <2>2. written' = Append(written, x) /\ x.resize
      BY <2>1 DEF AppendResize, AfterResize
    <2>3. x \in Past
      BY <1>1, InvFacts, LogAssumption DEF AfterResize, Past, Byte
    <2> HIDE DEF x
    <2>4. /\ n \in Nat /\ Len(written') = n + 1 /\ written'[n + 1] = x
          /\ \A p \in 1..n : written'[p] = written[p]
      BY <1>1, <2>2, <2>3
    <2>5. ASSUME NEW p \in 1..Len(written'), ~written'[p].resize
          PROVE  written'[p].size = Look(written', p - 1).size
      <3>1. p \in 1..n /\ (p - 1 = 0 \/ p - 1 \in 1..n)
        BY <2>2, <2>4, <2>5
      <3>2. written'[p] = written[p] /\ Look(written', p - 1) = Look(written, p - 1)
        BY <2>4, <3>1 DEF Look
      <3> QED BY <1>1, <2>5, <3>1, <3>2 DEF Steady
    <2>6. Steady(written')
      BY <2>5 DEF Steady
    <2> QED BY <2>6 DEF Steady, Look
  <1>5. UNCHANGED written \/ FillRecord \/ \E size \in Sizes : AppendResize(size)
    BY DEF Next, Running, AppendOutput, TrimTo, Clear, OpenRecord, DropToClean, DropHead, StartCut,
           Cut, EndTrim, vars, ring, told
  <1> QED BY <1>2, <1>3, <1>4, <1>5

\* Within the log, what was written at a position of a record is a resize just
\* if the record is.
LEMMA ResizeWithin ==
  ASSUME NEW w \in Seq(Past), NEW e, Sound(w, e), NEW k \in Nat, e.seq < k, k <= e.seq + Span(e),
         w[k].resize
  PROVE  IsResize(e) /\ k = e.seq + 1
  <1>1. e \in Entry /\ e.seq \in Nat /\ Len(e.bytes) \in Nat
    BY DEF Sound, Entry
  <1>2. CASE IsResize(e)
    BY <1>1, <1>2 DEF Span
  <1>3. CASE ~IsResize(e)
    <2>1. k - e.seq \in 1..Len(e.bytes) /\ e.seq + (k - e.seq) = k
      BY <1>1, <1>3 DEF Span
    <2>2. ~w[e.seq + (k - e.seq)].resize
      BY <1>3, <2>1 DEF Sound
    <2> QED BY <2>1, <2>2
  <1> QED BY <1>2, <1>3

\* The size at a position of the log is the one the terminal had there.
LEMMA SizeIsRight ==
  ASSUME SizeInv, NEW p \in head_seq..tail_seq
  PROVE  SizeAt(p) = Look(written, p).size
  <1> DEFINE Before == {i \in 1..Len(entries) : IsResize(entries[i]) /\ entries[i].seq < p}
  <1>1. /\ RingOK(entries, written, head_seq) /\ written \in Seq(Past) /\ Steady(written)
        /\ head_size = Look(written, head_seq).size /\ tail_seq = Len(written)
        /\ Len(entries) \in Nat /\ head_seq \in Nat /\ Len(written) \in Nat
    BY DEF SizeInv, IInv, Typed, RingInv
  <1>2. \A i \in 1..Len(entries) : Sound(written, entries[i]) /\ entries[i].seq \in Nat
    <2>1. ASSUME NEW i \in 1..Len(entries) PROVE Sound(written, entries[i]) /\ entries[i].seq \in Nat
      <3>1. Sound(written, entries[i])
        BY <1>1 DEF RingOK
      <3> QED BY <3>1 DEF Sound, Entry
    <2> QED BY <2>1
  \* a resize on the way to p is one of those records
  <1>3. ASSUME NEW k \in head_seq + 1..p, written[k].resize
        PROVE  \E i \in Before : k = entries[i].seq + 1
    <2>1. k \in head_seq + 1..Len(written)
      BY <1>1
    <2>2. PICK i \in 1..Len(entries) : entries[i].seq < k /\ k <= entries[i].seq + Span(entries[i])
      BY <1>1, <2>1, Covered
    <2>3. k \in Nat
      BY <1>1
    <2>4. IsResize(entries[i]) /\ k = entries[i].seq + 1
      BY <1>1, <1>2, <1>3, <2>2, <2>3, ResizeWithin
    <2>5. entries[i].seq < p
      BY <1>1, <1>2, <2>2
    <2> QED BY <2>4, <2>5
  <1>4. CASE Before = {}
    <2>1. \A k \in head_seq + 1..p : ~written[k].resize
      BY <1>3, <1>4
    <2>2. Look(written, p).size = Look(written, head_seq).size
      BY <1>1, <2>1, SizeStays
    <2>3. SizeAt(p) = head_size
      BY <1>4 DEF SizeAt
    <2> QED BY <1>1, <2>2, <2>3
  <1>5. CASE Before # {}
    <2> DEFINE last == CHOOSE i \in Before : \A j \in Before : j <= i
    <2>1. \E i \in Before : \A j \in Before : j <= i
      <3>1. Before \in SUBSET (1..Len(entries))
        OBVIOUS
      <3> HIDE DEF Before
      <3> QED BY <1>1, <1>5, <3>1, LastExists
    <2>2. last \in Before /\ \A j \in Before : j <= last
      <3> HIDE DEF Before
      <3> QED BY <2>1
    <2>3. SizeAt(p) = entries[last].size
      BY <1>5 DEF SizeAt
    <2> HIDE DEF last
    <2> DEFINE x == entries[last].seq + 1
    <2>4. last \in 1..Len(entries) /\ IsResize(entries[last]) /\ entries[last].seq < p
          /\ entries[last].seq \in Nat /\ Sound(written, entries[last])
      BY <1>2, <2>2
    <2>5. x \in Nat /\ p \in x..Len(written) /\ x # 0 /\ x >= head_seq
      <3>1. entries[last].seq >= head_seq
        <4>1. entries # <<>> /\ 1 \in 1..Len(entries) /\ entries[1].seq = head_seq
              /\ Span(entries[1]) \in Nat
          <5>1. entries # <<>> /\ 1 \in 1..Len(entries)
            BY <1>1, <2>4
          <5>2. entries[1] \in Entry
            BY <1>2, <5>1 DEF Sound
          <5> QED BY <1>1, <5>1, <5>2, SpanType DEF RingOK
        <4>2. CASE last = 1
          BY <1>1, <4>1, <4>2
        <4>3. CASE last # 1
          <5>1. 1 < last
            BY <2>4, <4>3
          <5>2. entries[1].seq + Span(entries[1]) <= entries[last].seq
            BY <1>1, <2>4, <4>1, <5>1, Ordered
          <5> QED BY <1>1, <2>4, <4>1, <5>2
        <4> QED BY <4>2, <4>3
      <3> QED BY <1>1, <2>4, <3>1
    <2>6. Look(written, x).size = entries[last].size
      BY <2>4, <2>5 DEF Sound, Look
    <2>7. ASSUME NEW k \in x + 1..p, written[k].resize PROVE FALSE
      <3>1. k \in head_seq + 1..p
        BY <1>1, <2>5
      <3>2. PICK j \in Before : k = entries[j].seq + 1
        BY <1>3, <2>7, <3>1
      <3>3. j <= last /\ j \in 1..Len(entries) /\ entries[j].seq \in Nat /\ IsResize(entries[j])
        BY <1>2, <2>2, <3>2
      <3>4. entries[j].seq > entries[last].seq
        BY SMTT(30), <2>4, <2>5, <3>2, <3>3
      <3>5. CASE j = last
        BY <3>3, <3>4, <3>5
      <3>6. CASE j # last
        <4>1. j < last
          BY <2>4, <3>3, <3>6
        <4>2. entries[j].seq + Span(entries[j]) <= entries[last].seq
          BY <1>1, <2>4, <3>3, <4>1, Ordered
        <4>3. Span(entries[j]) = 1
          BY <3>3 DEF Span
        <4> QED BY <2>4, <3>3, <3>4, <4>2, <4>3
      <3> QED BY <3>5, <3>6
    <2>8. Look(written, p).size = Look(written, x).size
      <3>1. \A k \in x + 1..p : ~written[k].resize
        BY <2>7
      <3> HIDE DEF x
      <3> QED BY <1>1, <2>5, <3>1, SizeStays
    <2> QED BY <2>3, <2>6, <2>8
  <1> QED BY <1>4, <1>5

\* The size never changes at a byte.
THEOREM SizeInvariant == Spec => []SizeInv
  <1>1. Init => SizeInv
    <2> SUFFICES ASSUME Init PROVE SizeInv
      OBVIOUS
    <2>1. Len(written) = 0
      BY DEF Init
    <2> QED BY <2>1, InvInit DEF SizeInv, Steady
  <1>2. SizeInv /\ [Next]_vars => SizeInv'
    BY InvNext, SteadyKept DEF SizeInv
  <1> QED BY <1>1, <1>2, PTL DEF Spec

\* A follower that attaches anywhere is told the size the terminal had there.
THEOREM SizesKnownAlways == Spec => []SizesKnown
  <1>1. SizeInv => SizesKnown
    BY SizeIsRight, AtLook DEF SizesKnown
  <1> QED BY <1>1, SizeInvariant, PTL

(***************************************************************************)
(* Reads (read_from).                                                      *)
(***************************************************************************)
\* The batches of a read are what the loop makes of them, record by record.
LEMMA BatchesAre ==
  ASSUME Len(entries) \in Nat, NEW seq, NEW max
  PROVE  /\ Batches(seq, max)[0] = Empty(seq, max)
         /\ \A i \in 1..Len(entries) :
               Batches(seq, max)[i] =
                  IF entries[i].seq + Span(entries[i]) <= Start(seq) THEN Batches(seq, max)[i - 1]
                  ELSE Copy(Batches(seq, max)[i - 1], entries[i])
  <1> DEFINE n == Len(entries)
             Turn(b, i) == IF entries[i].seq + Span(entries[i]) <= Start(seq) THEN b
                           ELSE Copy(b, entries[i])
             Body(f, m) == [i \in 0..m |-> IF i = 0 THEN Empty(seq, max) ELSE Turn(f[i - 1], i)]
             T == {m \in 0..n : ~(\E f : f = Body(f, m))}
  <1> HIDE DEF Turn
  <1>1. T = {}
    <2> SUFFICES ASSUME T # {} PROVE FALSE
      OBVIOUS
    <2>1. T \in SUBSET Nat
      OBVIOUS
    <2>2. PICK m \in T : \A y \in T : m <= y
      <3> HIDE DEF T
      <3> QED BY <2>1, LeastExists
    <2>3. m \in 0..n /\ ~(\E f : f = Body(f, m))
      BY <2>2
    <2>4. m # 0
      <3> SUFFICES ASSUME m = 0 PROVE FALSE
        OBVIOUS
      <3> DEFINE f == [i \in 0..0 |-> Empty(seq, max)]
      <3>1. f = Body(f, 0)
        OBVIOUS
      <3> HIDE DEF f, Body
      <3> QED BY <2>3, <3>1
    <2>5. m - 1 \in 0..n /\ ~(m <= m - 1)
      BY <2>3, <2>4
    <2>6. PICK g : g = Body(g, m - 1)
      <3> HIDE DEF Body
      <3> QED BY <2>2, <2>5
    <2> DEFINE f == [i \in 0..m |-> IF i = m THEN Turn(g[m - 1], m) ELSE g[i]]
    <2>7. ASSUME NEW i \in 0..m
          PROVE  f[i] = IF i = 0 THEN Empty(seq, max) ELSE Turn(f[i - 1], i)
      <3>1. CASE i = m
        <4>1. m - 1 \in 0..m /\ m - 1 # m /\ m \in 0..m
          BY <2>3, <2>4
        <4>2. f[m] = Turn(g[m - 1], m) /\ f[m - 1] = g[m - 1]
          BY <4>1
        <4> HIDE DEF f
        <4> QED BY <2>4, <3>1, <4>2
      <3>2. CASE i # m
        <4>1. i \in 0..m - 1 /\ f[i] = g[i]
          BY <2>3, <3>2
        <4>2. g[i] = IF i = 0 THEN Empty(seq, max) ELSE Turn(g[i - 1], i)
          BY <2>6, <4>1
        <4>3. i # 0 => f[i - 1] = g[i - 1]
          <5> SUFFICES ASSUME i # 0 PROVE f[i - 1] = g[i - 1]
            OBVIOUS
          <5>1. i - 1 \in 0..m /\ i - 1 # m
            BY <2>3, <4>1
          <5> QED BY <5>1
        <4> HIDE DEF f
        <4> QED BY <4>1, <4>2, <4>3
      <3> QED BY <3>1, <3>2
    <2>8. f = Body(f, m)
      <3>1. f = [i \in 0..m |-> f[i]]
        OBVIOUS
      <3> HIDE DEF f
      <3> QED BY <2>7, <3>1
    <2> HIDE DEF f, Body
    <2> QED BY <2>3, <2>8
  <1>2. \E f : f = Body(f, n)
    <2>1. n \in 0..n
      OBVIOUS
    <2> HIDE DEF Body
    <2> QED BY <1>1, <2>1
  <1>3. Batches(seq, max) = CHOOSE f : f = Body(f, n)
    BY DEF Batches, Turn
  <1>4. Batches(seq, max) = Body(Batches(seq, max), n)
    <2> HIDE DEF Body
    <2> QED BY <1>2, <1>3
  <1> DEFINE f == Batches(seq, max)
  <1>5. f = [i \in 0..n |-> IF i = 0 THEN Empty(seq, max) ELSE Turn(f[i - 1], i)]
    BY <1>4
  <1> HIDE DEF f
  <1>6. f[0] = Empty(seq, max) /\ \A i \in 1..n : f[i] = Turn(f[i - 1], i)
    <2>1. 0 \in 0..n
      OBVIOUS
    <2>2. f[0] = Empty(seq, max)
      BY <1>5, <2>1
    <2>3. ASSUME NEW i \in 1..n PROVE f[i] = Turn(f[i - 1], i)
      <3>1. i \in 0..n /\ i # 0
        OBVIOUS
      <3> QED BY <1>5, <3>1
    <2> QED BY <2>2, <2>3
  <1> QED BY <1>6 DEF f, Turn

Items == [seq : Nat, bytes : Seq(Byte), size : Sizes \cup {NoSize}]

\* Items that abut from s to end, each what was written there
Follows(items, s, end) ==
    /\ items \in Seq(Items)
    /\ items = <<>> => end = s
    /\ items # <<>> => items[1].seq = s /\ items[Len(items)].seq + Span(items[Len(items)]) = end
    /\ \A j \in 1..Len(items) : Faithful(items[j]) /\ Span(items[j]) > 0
    /\ \A j \in 1..(Len(items) - 1) : items[j].seq + Span(items[j]) = items[j + 1].seq

\* Where the first i records end
End(i) == IF i = 0 THEN head_seq ELSE entries[i].seq + Span(entries[i])

\* What a batch that starts at s is once the loop has seen i records
BatchOK(s, b, i) ==
    /\ b \in [items : Seq(Items), next : Nat, budget : Nat, done : BOOLEAN]
    /\ Follows(b.items, s, b.next)
    /\ Len(b.items) <= MaxBatchItems
    /\ b.done => b.budget = 0 \/ Len(b.items) = MaxBatchItems
    /\ ~b.done => b.next = Most(s, End(i))

\* One item more.
LEMMA FollowsOn ==
  ASSUME NEW items, NEW s, NEW end, Follows(items, s, end),
         NEW x \in Items, x.seq = end, Faithful(x), Span(x) > 0
  PROVE  Follows(Append(items, x), s, end + Span(x))
  <1> DEFINE fs == Append(items, x)
             n == Len(items)
  <1>1. /\ items \in Seq(Items) /\ n \in Nat
        /\ fs \in Seq(Items) /\ Len(fs) = n + 1 /\ fs[n + 1] = x /\ fs # <<>>
        /\ \A j \in 1..n : fs[j] = items[j]
    <2>1. items \in Seq(Items)
      BY DEF Follows
    <2>2. n \in Nat
      BY <2>1
    <2>3. /\ fs \in Seq(Items) /\ fs # <<>> /\ Len(fs) = n + 1 /\ fs[n + 1] = x
          /\ \A j \in 1..n : fs[j] = items[j]
      <3> HIDE DEF Items
      <3> QED BY <2>1, AppendProperties
    <2> QED BY <2>1, <2>2, <2>3
  <1> HIDE DEF fs
  <1>2. fs[1].seq = s
    <2>1. CASE items = <<>>
      BY <1>1, <2>1 DEF Follows
    <2>2. CASE items # <<>>
      BY <1>1, <2>2 DEF Follows
    <2> QED BY <2>1, <2>2
  <1>3. ASSUME NEW j \in 1..Len(fs) PROVE Faithful(fs[j]) /\ Span(fs[j]) > 0
    BY <1>1 DEF Follows
  <1>4. ASSUME NEW j \in 1..(Len(fs) - 1) PROVE fs[j].seq + Span(fs[j]) = fs[j + 1].seq
    <2>1. CASE j = n
      <3>1. items # <<>> /\ fs[j] = items[n] /\ fs[j + 1] = x
        BY <1>1, <2>1
      <3> QED BY <3>1 DEF Follows
    <2>2. CASE j # n
      <3>1. j \in 1..(n - 1) /\ fs[j] = items[j] /\ fs[j + 1] = items[j + 1]
        BY <1>1, <2>2
      <3> QED BY <3>1 DEF Follows
    <2> QED BY <2>1, <2>2
  <1>5. fs[Len(fs)].seq + Span(fs[Len(fs)]) = end + Span(x)
    BY <1>1
  <1> QED BY <1>1, <1>2, <1>3, <1>4, <1>5 DEF Follows, fs

\* The part of a record that is copied.
LEMMA PartOf ==
  ASSUME NEW q \in Seq(Byte), NEW k \in 0..Len(q), NEW t \in Nat, k + t <= Len(q)
  PROVE  /\ SubSeq(q, k + 1, k + t) \in Seq(Byte) /\ Len(SubSeq(q, k + 1, k + t)) = t
         /\ \A j \in 1..t : SubSeq(q, k + 1, k + t)[j] = q[k + j]
  <1>1. k \in Nat /\ Len(q) \in Nat /\ k + 1 \in Int /\ k + t \in Int
    OBVIOUS
  <1>2. \A i \in k + 1..k + t : q[i] \in Byte
    <2>1. \A i \in k + 1..k + t : i \in 1..Len(q)
      BY <1>1
    <2> HIDE DEF Byte
    <2> QED BY <2>1
  <1>3. /\ SubSeq(q, k + 1, k + t) \in Seq(Byte)
        /\ Len(SubSeq(q, k + 1, k + t)) = IF k + 1 <= k + t THEN (k + t) - (k + 1) + 1 ELSE 0
        /\ \A j \in 1..(k + t) - (k + 1) + 1 : SubSeq(q, k + 1, k + t)[j] = q[(k + 1) + j - 1]
    <2> DEFINE m == k + 1
               o == k + t
    <2>1. m \in Int /\ o \in Int /\ \A i \in m..o : q[i] \in Byte
      BY <1>1, <1>2
    <2> HIDE DEF Byte, m, o
    <2>2. /\ SubSeq(q, m, o) \in Seq(Byte)
          /\ Len(SubSeq(q, m, o)) = IF m <= o THEN o - m + 1 ELSE 0
          /\ \A j \in 1..o - m + 1 : SubSeq(q, m, o)[j] = q[m + j - 1]
      BY <2>1, SubSeqProperties
    <2> QED BY <2>2 DEF m, o
  <1>4. /\ (IF k + 1 <= k + t THEN (k + t) - (k + 1) + 1 ELSE 0) = t
        /\ (k + t) - (k + 1) + 1 = t
        /\ \A j \in 1..t : (k + 1) + j - 1 = k + j
    BY <1>1
  <1>5. ASSUME NEW j \in 1..t PROVE SubSeq(q, k + 1, k + t)[j] = q[k + j]
    BY <1>3, <1>4
  <1> QED BY <1>3, <1>4, <1>5

\* What the loop does with a record.
LEMMA CopyKeeps ==
  ASSUME IInv, NEW i \in 1..Len(entries), NEW s \in Nat, NEW b, BatchOK(s, b, i - 1),
         s < End(i)
  PROVE  BatchOK(s, Copy(b, entries[i]), i)
  <1> DEFINE e == entries[i]
  <1>1. /\ e \in Entry /\ Sound(written, e) /\ e.seq \in Nat /\ Span(e) \in Nat
        /\ e.bytes \in Seq(Byte) /\ Len(e.bytes) \in Nat /\ e.size \in Sizes \cup {NoSize}
    <2>1. Sound(written, e)
      BY DEF IInv, RingInv, RingOK
    <2>2. e \in Entry
      BY <2>1 DEF Sound
    <2> HIDE DEF e
    <2> QED BY <2>1, <2>2, SpanType DEF Entry
  <1>2. End(i) = e.seq + Span(e) /\ End(i - 1) = e.seq
    <2>1. i # 0
      OBVIOUS
    <2>2. CASE i = 1
      <3>1. entries # <<>>
        BY DEF IInv, Typed
      <3> QED BY <2>2, <3>1 DEF End, IInv, RingInv, RingOK
    <2>3. CASE i # 1
      <3>1. i - 1 \in 1..(Len(entries) - 1) /\ (i - 1) + 1 = i /\ i - 1 # 0
        BY <2>3 DEF IInv, Typed
      <3>2. entries[i - 1].seq + Span(entries[i - 1]) = entries[(i - 1) + 1].seq
        BY <3>1 DEF IInv, RingInv, RingOK
      <3> QED BY <2>1, <3>1, <3>2 DEF End
    <2> QED BY <2>2, <2>3
  <1> HIDE DEF e
  <1>3. /\ b \in [items : Seq(Items), next : Nat, budget : Nat, done : BOOLEAN]
        /\ b.items \in Seq(Items) /\ b.next \in Nat /\ b.budget \in Nat /\ b.done \in BOOLEAN
        /\ Len(b.items) \in Nat /\ Len(b.items) <= MaxBatchItems /\ MaxBatchItems \in Nat
        /\ Follows(b.items, s, b.next)
    BY ReadsAssumption DEF BatchOK
  <1>4. CASE Breaks(b, e)
    <2> DEFINE c == [b EXCEPT !.done = TRUE]
    <2>1. /\ c \in [items : Seq(Items), next : Nat, budget : Nat, done : BOOLEAN]
          /\ c.items = b.items /\ c.next = b.next /\ c.budget = b.budget /\ c.done
      BY <1>3
    <2>2. b.budget = 0 \/ Len(b.items) = MaxBatchItems
      BY <1>3, <1>4 DEF Breaks, BatchOK
    <2>3. Copy(b, e) = c
      BY <1>4 DEF Copy
    <2> HIDE DEF c
    <2> QED BY <1>3, <2>1, <2>2, <2>3 DEF BatchOK, e
  <1>5. ASSUME ~Breaks(b, e)
        PROVE  /\ ~b.done /\ Len(b.items) + 1 <= MaxBatchItems
               /\ b.next = Most(s, e.seq) /\ s < e.seq + Span(e)
               /\ ~IsResize(e) => b.budget # 0
    <2>1. ~b.done /\ ~(Len(b.items) >= MaxBatchItems) /\ (~IsResize(e) => b.budget # 0)
      BY <1>5 DEF Breaks
    <2> QED BY <1>2, <1>3, <2>1 DEF BatchOK
  <1>6. CASE ~Breaks(b, e) /\ IsResize(e)
    <2> DEFINE x == Item(e.seq, <<>>, e.size)
               c == CopyResize(b, e)
    <2>1. Span(e) = 1 /\ e.bytes = <<>> /\ written[e.seq + 1].resize /\ written[e.seq + 1].size = e.size
      BY <1>1, <1>6 DEF Span, Sound
    <2>2. b.next = e.seq
      <3>1. b.next = Most(s, e.seq) /\ s < e.seq + 1
        BY <1>5, <1>6, <2>1
      <3> QED BY <1>1, <3>1 DEF Most
    <2>3. x \in Items /\ x.seq = b.next /\ x.size = e.size /\ x.bytes = <<>>
      BY <1>1, <2>2 DEF Item, Items
    <2> HIDE DEF x
    <2>4. IsResize(x) /\ Span(x) = 1 /\ Faithful(x)
      BY <1>6, <2>1, <2>2, <2>3 DEF IsResize, Span, Faithful
    <2>5. Follows(Append(b.items, x), s, b.next + Span(x))
      <3>1. Span(x) > 0
        BY <2>4
      <3> QED BY <1>3, <2>3, <2>4, <3>1, FollowsOn
    <2>6. /\ c.items = Append(b.items, x) /\ c.next = e.seq + 1
          /\ c.budget = b.budget /\ c.done = FALSE
          /\ c = [items |-> Append(b.items, x), next |-> e.seq + 1, budget |-> b.budget, done |-> FALSE]
      BY DEF CopyResize, x
    <2> HIDE DEF c
    <2>7. Append(b.items, x) \in Seq(Items) /\ Len(Append(b.items, x)) = Len(b.items) + 1
      BY <1>3, <2>3
    <2>8. c \in [items : Seq(Items), next : Nat, budget : Nat, done : BOOLEAN]
      BY <1>1, <1>3, <2>6, <2>7
    <2>9. e.seq + 1 = Most(s, End(i))
      <3>1. End(i) = e.seq + 1 /\ s < e.seq + 1
        BY <1>2, <1>5, <1>6, <2>1
      <3> QED BY <1>1, <3>1 DEF Most
    <2>10. Copy(b, e) = c
      BY <1>6 DEF Copy, c
    <2>11. Follows(c.items, s, c.next) /\ Len(c.items) <= MaxBatchItems
      BY <1>5, <1>6, <2>2, <2>4, <2>5, <2>6, <2>7
    <2> QED BY <2>6, <2>8, <2>9, <2>10, <2>11 DEF BatchOK, e
  <1>7. CASE ~Breaks(b, e) /\ ~IsResize(e)
    <2> DEFINE skip == b.next - e.seq
               take == Least(Len(e.bytes) - skip, b.budget)
               x == Item(b.next, SubSeq(e.bytes, skip + 1, skip + take), NoSize)
               c == CopyBytes(b, e, skip, take)
    <2>1. Span(e) = Len(e.bytes) /\ b.budget # 0 /\ b.next = Most(s, e.seq) /\ s < e.seq + Len(e.bytes)
      BY <1>5, <1>7 DEF Span
    <2>2. /\ skip \in 0..Len(e.bytes) /\ e.seq + skip = b.next
          /\ Most(s, End(i)) = e.seq + Len(e.bytes)
      <3>1. \A p, m, t \in Nat :
               t < p + m => /\ Most(t, p) - p \in 0..m /\ p + (Most(t, p) - p) = Most(t, p)
                            /\ Most(t, p + m) = p + m
        BY DEF Most
      <3>2. End(i) = e.seq + Len(e.bytes)
        BY <1>2, <2>1
      <3>3. e.seq \in Nat /\ Len(e.bytes) \in Nat /\ s < e.seq + Len(e.bytes)
        BY <1>1, <2>1
      <3> DEFINE m == Len(e.bytes)
      <3> HIDE DEF m
      <3>4. /\ Most(s, e.seq) - e.seq \in 0..m /\ e.seq + (Most(s, e.seq) - e.seq) = Most(s, e.seq)
            /\ Most(s, e.seq + m) = e.seq + m
        BY <3>1, <3>3 DEF m
      <3> QED BY <2>1, <3>2, <3>4 DEF m
    <2>3. /\ take \in Nat /\ take <= Len(e.bytes) - skip /\ take <= b.budget
          /\ take = Len(e.bytes) - skip \/ take = b.budget
      <3> HIDE DEF skip
      <3> QED BY <1>1, <1>3, <2>2 DEF Least
    <2>4. Copy(b, e) = c
      BY <1>7 DEF Copy
    <2> HIDE DEF skip, take
    <2>5. CASE take = 0
      <3>1. c = b
        BY <2>5 DEF CopyBytes
      <3>2. b.next = e.seq + Len(e.bytes)
        BY <1>1, <1>3, <2>1, <2>2, <2>3, <2>5
      <3> HIDE DEF c
      <3> QED BY <1>5, <1>7, <2>2, <2>4, <3>1, <3>2 DEF BatchOK, e
    <2>6. CASE take # 0
      <3>1. /\ SubSeq(e.bytes, skip + 1, skip + take) \in Seq(Byte)
            /\ Len(SubSeq(e.bytes, skip + 1, skip + take)) = take
            /\ \A j \in 1..take : SubSeq(e.bytes, skip + 1, skip + take)[j] = e.bytes[skip + j]
        <4>1. skip + take <= Len(e.bytes)
          BY <1>1, <2>2, <2>3
        <4> QED BY <1>1, <2>2, <2>3, <4>1, PartOf
      <3>2. x \in Items /\ x.seq = b.next /\ x.size = NoSize
            /\ x.bytes = SubSeq(e.bytes, skip + 1, skip + take)
        BY <1>3, <3>1 DEF Item, Items
      <3>3. /\ c.items = Append(b.items, x) /\ c.next = b.next + take
            /\ c.budget = b.budget - take /\ c.done = (skip + take < Len(e.bytes))
            /\ c = [items |-> Append(b.items, x), next |-> b.next + take,
                    budget |-> b.budget - take, done |-> skip + take < Len(e.bytes)]
        BY <2>6 DEF CopyBytes, x
      <3> HIDE DEF x, c
      <3>4. ~IsResize(x) /\ Span(x) = take
        BY <3>1, <3>2 DEF IsResize, Span
      <3>5. Faithful(x)
        <4>1. ASSUME NEW j \in 1..Len(x.bytes)
              PROVE  /\ ~written[x.seq + j].resize
                     /\ x.bytes[j].safe = written[x.seq + j].safe
                     /\ x.bytes[j].modes = written[x.seq + j].modes
          <5>1. j \in 1..take /\ skip + j \in 1..Len(e.bytes) /\ x.bytes[j] = e.bytes[skip + j]
            <6>1. j \in 1..take
              BY <3>1, <3>2
            <6>2. skip + j \in 1..Len(e.bytes)
              BY <1>1, <2>2, <2>3, <6>1
            <6> QED BY <3>1, <3>2, <6>1, <6>2
          <5>2. x.seq + j = e.seq + (skip + j)
            BY <1>1, <2>2, <3>2, <5>1
          <5>3. /\ ~written[e.seq + (skip + j)].resize
                /\ e.bytes[skip + j].safe = written[e.seq + (skip + j)].safe
                /\ e.bytes[skip + j].modes = written[e.seq + (skip + j)].modes
            BY <1>1, <1>7, <5>1 DEF Sound
          <5> QED BY <5>1, <5>2, <5>3
        <4> QED BY <3>4, <4>1 DEF Faithful
      <3>6. Follows(c.items, s, c.next)
        <4>1. Span(x) > 0
          BY <2>3, <2>6, <3>4
        <4>2. Follows(Append(b.items, x), s, b.next + Span(x))
          BY <1>3, <3>2, <3>5, <4>1, FollowsOn
        <4> QED BY <3>3, <3>4, <4>2
      <3>7. c.items \in Seq(Items) /\ Len(c.items) = Len(b.items) + 1
        BY <1>3, <3>2, <3>3
      <3>8. b.next + take \in Nat /\ b.budget - take \in Nat
        BY <1>3, <2>3
      <3>9. c \in [items : Seq(Items), next : Nat, budget : Nat, done : BOOLEAN]
        BY <3>3, <3>7, <3>8
      <3>10. c.done => c.budget = 0
        <4>1. c.done => skip + take < Len(e.bytes)
          BY <3>3
        <4>2. skip \in Nat
          BY <1>1, <2>2
        <4> QED BY <1>1, <1>3, <2>3, <3>3, <4>1, <4>2
      <3>11. ~c.done => c.next = e.seq + Len(e.bytes)
        <4>1. ~c.done => ~(skip + take < Len(e.bytes))
          BY <3>3
        <4>2. skip \in Nat /\ e.seq + skip = b.next
          BY <1>1, <2>2
        <4>3. ~c.done => skip + take = Len(e.bytes)
          BY <1>1, <2>3, <4>1, <4>2
        <4>4. c.next = b.next + take
          BY <3>3
        <4>5. \A p, k, t, m, x0 \in Nat : p + k = x0 /\ k + t = m => x0 + t = p + m
          OBVIOUS
        <4>6. e.seq \in Nat /\ Len(e.bytes) \in Nat /\ b.next \in Nat /\ take \in Nat
          BY <1>1, <1>3, <2>3
        <4> QED BY <4>2, <4>3, <4>4, <4>5, <4>6
      <3>12. Len(c.items) <= MaxBatchItems
        BY <1>5, <1>7, <3>7
      <3> QED BY <2>2, <2>4, <3>6, <3>9, <3>10, <3>11, <3>12 DEF BatchOK, e
    <2> QED BY <2>5, <2>6
  <1> QED BY <1>4, <1>6, <1>7

\* A read is right, wherever it starts and whatever it may copy.
LEMMA ReadIsRight ==
  ASSUME IInv, NEW seq \in Nat, NEW max \in Nat
  PROVE  ReadRight(seq, ReadFrom(seq, max))
  <1> DEFINE n == Len(entries)
             s == Start(seq)
             f == Batches(seq, max)
             T == {i \in 0..n : ~BatchOK(s, f[i], i)}
  <1>1. /\ n \in Nat /\ head_seq \in Nat /\ tail_seq \in Nat /\ head_seq <= tail_seq
        /\ entries \in Seq(Entry)
    BY InvFacts DEF IInv, Typed
  <1>2. s \in Nat /\ head_seq <= s /\ s <= tail_seq
    BY <1>1 DEF Start, Most, Least
  <1>3. /\ f[0] = Empty(seq, max)
        /\ \A i \in 1..n : f[i] = IF End(i) <= s THEN f[i - 1] ELSE Copy(f[i - 1], entries[i])
    <2>1. \A i \in 1..n : End(i) = entries[i].seq + Span(entries[i])
      BY DEF End
    <2> QED BY <1>1, <2>1, BatchesAre
  <1> HIDE DEF f, s
  <1>4. BatchOK(s, f[0], 0)
    <2>1. f[0] = [items |-> <<>>, next |-> s, budget |-> Most(1, max), done |-> FALSE]
      BY <1>3 DEF Empty, s
    <2>2. Most(1, max) \in Nat /\ Most(s, End(0)) = s
      BY <1>1, <1>2 DEF Most, End
    <2>3. Follows(<<>>, s, s) /\ Len(<<>>) <= MaxBatchItems
      BY ReadsAssumption DEF Follows
    <2>4. f[0] \in [items : Seq(Items), next : Nat, budget : Nat, done : BOOLEAN]
      BY <1>2, <2>1, <2>2
    <2> QED BY <2>1, <2>2, <2>3, <2>4 DEF BatchOK
  <1>5. ASSUME NEW i \in 1..n, BatchOK(s, f[i - 1], i - 1) PROVE BatchOK(s, f[i], i)
    <2>1. CASE s < End(i)
      <3>1. ~(End(i) <= s)
        <4>1. entries[i] \in Entry
          BY <1>1
        <4>2. End(i) \in Nat
          BY <4>1, SpanType DEF End, Entry
        <4> QED BY <1>2, <2>1, <4>2
      <3>2. f[i] = Copy(f[i - 1], entries[i])
        BY <1>3, <3>1
      <3>3. BatchOK(s, Copy(f[i - 1], entries[i]), i)
        BY <1>2, <1>5, <2>1, CopyKeeps
      <3> QED BY <3>2, <3>3
    <2>2. CASE ~(s < End(i))
      <3>1. End(i) \in Nat /\ End(i - 1) \in Nat /\ End(i - 1) <= End(i)
        <4>1. entries[i] \in Entry /\ entries[i].seq \in Nat /\ Span(entries[i]) \in Nat
          <5>1. entries[i] \in Entry
            BY <1>1
          <5> QED BY <5>1, SpanType DEF Entry
        <4>2. CASE i = 1
          <5>1. entries # <<>>
            BY <1>1
          <5>2. entries[1].seq = head_seq
            BY <5>1 DEF IInv, RingInv, RingOK
          <5> QED BY <4>1, <4>2, <5>2 DEF End
        <4>3. CASE i # 1
          <5>1. i - 1 \in 1..(n - 1) /\ (i - 1) + 1 = i /\ i - 1 # 0 /\ i # 0
            BY <1>1, <4>3
          <5>2. entries[i - 1].seq + Span(entries[i - 1]) = entries[(i - 1) + 1].seq
            BY <5>1 DEF IInv, RingInv, RingOK
          <5> QED BY <4>1, <5>1, <5>2 DEF End
        <4> QED BY <4>2, <4>3
      <3>2. f[i] = f[i - 1] /\ Most(s, End(i)) = s /\ Most(s, End(i - 1)) = s
        BY <1>2, <1>3, <2>2, <3>1 DEF Most
      <3> QED BY <1>5, <3>2 DEF BatchOK
    <2> QED BY <2>1, <2>2
  <1>6. T = {}
    <2> SUFFICES ASSUME T # {} PROVE FALSE
      OBVIOUS
    <2>1. T \in SUBSET Nat
      OBVIOUS
    <2>2. PICK i \in T : \A y \in T : i <= y
      <3> HIDE DEF T
      <3> QED BY <2>1, LeastExists
    <2>3. i \in 1..n /\ i - 1 \in 0..n /\ ~(i <= i - 1) /\ ~BatchOK(s, f[i], i)
      BY <1>1, <1>4, <2>2
    <2>4. BatchOK(s, f[i - 1], i - 1)
      BY <2>2, <2>3
    <2> QED BY <1>5, <2>3, <2>4
  <1> DEFINE b == f[n]
             starts == [i \in 1..(Len(b.items) + 1) |->
                           IF i <= Len(b.items) THEN b.items[i].seq ELSE b.next]
  <1>7. BatchOK(s, b, n)
    <2>1. n \in 0..n
      BY <1>1
    <2> QED BY <1>6, <2>1
  <1>8. End(n) = tail_seq
    <2>1. CASE n = 0
      <3>1. entries = <<>>
        BY <1>1, <2>1
      <3> QED BY <2>1, <3>1 DEF End, IInv, RingInv, RingOK
    <2>2. CASE n # 0
      <3>1. entries # <<>>
        BY <1>1, <2>2
      <3> QED BY <2>2, <3>1 DEF End, IInv, RingInv, RingOK
    <2> QED BY <2>1, <2>2
  <1> HIDE DEF b, n
  <1>9. /\ b.items \in Seq(Items) /\ Len(b.items) \in Nat /\ b.next \in Nat /\ b.budget \in Nat
        /\ Follows(b.items, s, b.next)
    BY <1>7 DEF BatchOK
  <1>10. starts[1] = s
    <2>1. 1 \in 1..(Len(b.items) + 1)
      BY <1>9
    <2>2. CASE b.items = <<>>
      BY <1>9, <2>1, <2>2 DEF Follows
    <2>3. CASE b.items # <<>>
      <3>1. 1 <= Len(b.items)
        BY <1>9, <2>3
      <3> QED BY <1>9, <2>1, <2>3, <3>1 DEF Follows
    <2> QED BY <2>2, <2>3
  <1>11. ASSUME NEW i \in 1..Len(b.items)
         PROVE  /\ Faithful(b.items[i])
                /\ starts[i + 1] = starts[i] + Span(b.items[i])
                /\ starts[i + 1] > starts[i]
    <2>1. /\ i \in 1..(Len(b.items) + 1) /\ i + 1 \in 1..(Len(b.items) + 1) /\ i <= Len(b.items)
          /\ b.items[i] \in Items /\ b.items # <<>>
      BY <1>9
    <2>2. /\ Faithful(b.items[i]) /\ Span(b.items[i]) > 0 /\ b.items[i].seq \in Nat
          /\ Span(b.items[i]) \in Nat
      <3>1. Faithful(b.items[i]) /\ Span(b.items[i]) > 0
        BY <1>9 DEF Follows
      <3>2. b.items[i].seq \in Nat /\ b.items[i].bytes \in Seq(Byte)
        BY <2>1 DEF Items
      <3> QED BY <3>1, <3>2 DEF Span
    <2>3. starts[i] = b.items[i].seq
      BY <2>1
    <2>4. starts[i + 1] = b.items[i].seq + Span(b.items[i])
      <3>1. CASE i = Len(b.items)
        <4>1. ~(i + 1 <= Len(b.items))
          BY <1>9, <3>1
        <4>2. starts[i + 1] = b.next
          BY <2>1, <4>1
        <4> QED BY <1>9, <2>1, <3>1, <4>2 DEF Follows
      <3>2. CASE i # Len(b.items)
        <4>1. i + 1 <= Len(b.items) /\ i \in 1..(Len(b.items) - 1)
          BY <1>9, <3>2
        <4>2. starts[i + 1] = b.items[i + 1].seq
          BY <2>1, <4>1
        <4> QED BY <1>9, <4>1, <4>2 DEF Follows
      <3> QED BY <3>1, <3>2
    <2> HIDE DEF starts
    <2> QED BY <2>2, <2>3, <2>4
  <1>12. b.next < tail_seq => b.budget = 0 \/ Len(b.items) = MaxBatchItems
    <2>1. CASE b.done
      BY <1>7, <2>1 DEF BatchOK
    <2>2. CASE ~b.done
      <3>1. b.next = Most(s, tail_seq)
        BY <1>7, <1>8, <2>2 DEF BatchOK
      <3> QED BY <1>1, <1>2, <3>1 DEF Most
    <2> QED BY <2>1, <2>2
  <1>13. b = ReadFrom(seq, max)
    BY DEF ReadFrom, b, f, n
  <1>14. ReadRight(seq, b)
    <2>1. b.budget >= 0
      BY <1>9
    <2> QED BY <1>10, <1>11, <1>12, <2>1 DEF ReadRight, s
  <1> QED BY <1>13, <1>14

\* A follower gets the stream from where it asks, exactly, whatever it asks
\* for, and is told the size there.
THEOREM ReadsExactAlways == Spec => []ReadsExact
  <1>1. SizeInv => ReadsExact
    <2> SUFFICES ASSUME SizeInv PROVE ReadsExact
      OBVIOUS
    <2>1. SizesKnown
      BY SizeIsRight, AtLook DEF SizesKnown
    <2>2. ASSUME NEW seq \in 0..(tail_seq + 1), NEW max \in MaxBytes
          PROVE  ReadRight(seq, ReadFrom(seq, max))
      <3>1. IInv /\ seq \in Nat /\ max \in Nat
        BY ReadsAssumption DEF SizeInv
      <3> QED BY <3>1, ReadIsRight
    <2> QED BY <2>1, <2>2 DEF ReadsExact
  <1> QED BY <1>1, SizeInvariant, PTL

(***************************************************************************)
(* The budget of all logs (LogBudget), for every number of sessions, cap,  *)
(* capacity and number of passes.  A byte is its log and its place in it,  *)
(* so that the total is the size of a set; the readers, the one that       *)
(* enforces and the thread that forgets logs interleave freely.            *)
(***************************************************************************)
Enforcing == {"pass", "scan", "cut", "settle", "leave"}
Busy == {"account", "settle", "release"}
\* Who has a log's lock, and who is in enforce
LocksRight ==
    /\ \A s \in Sessions : holder[s] \in Sessions =>
        \/ at[holder[s]] = "account" /\ s = holder[s]
        \/ at[holder[s]] = "settle" /\ s = victim
    /\ \A s \in Sessions : holder[s] = Forgetter => at[Forgetter] = "release"
    /\ \A s, r \in Sessions : holder[s] = Forgetter /\ holder[r] = Forgetter => s = r
    /\ at[Forgetter] = "release" => \E s \in Sessions : holder[s] = Forgetter
    /\ \A t \in Sessions : at[t] = "account" => holder[t] = t
    /\ \A t \in Sessions : at[t] = "settle" => holder[victim] = t
EnforcerKnown ==
    /\ \A t \in Sessions : at[t] # "release" /\ (at[t] \in Enforcing => members = t)
    /\ at[Forgetter] \in {"read", "release"}
    /\ \A t \in Sessions : at[t] = "scan" => excess >= 1
DeltaKnown ==
    /\ \A t \in Threads : at[t] \notin Busy => delta[t] = 0
    /\ \A t \in Sessions : at[t] = "account" => delta[t] >= 0
BudgetTyped == BudgetTypeOK /\ scan \in [DOMAIN scan -> 0..LogCap] /\ \A s \in Sessions : held[s] <= writes[s]
\* A pass is about all logs, finds one above its share, and cuts such a one
AboutAll == \A t \in Sessions : at[t] \in {"pass", "scan", "cut", "settle"} => left = Sessions
FindsOne ==
    \A t \in Sessions : at[t] = "scan" =>
        /\ \A x \in DOMAIN scan : scan[x] <= held[x]
        /\ \E s \in Sessions : held[s] > Share /\ (s \in DOMAIN scan => scan[s] > Share)
CutsOne == \A t \in Sessions : at[t] = "cut" => target < held[victim] /\ writes[victim] > Share
Spared ==
    enrolled = Sessions /\ ~whole =>
        at[Forgetter] = "read" /\ QuietKeeps /\ AboutAll /\ FindsOne /\ CutsOne
BudgetInv ==
    BudgetTyped /\ LocksRight /\ EnforcerKnown /\ DeltaKnown /\ TotalExact /\ Spared

(***************************************************************************)
(* Counting bytes.                                                         *)
(***************************************************************************)
Columns == [Sessions -> 0..LogCap]

\* A log's bytes are as many as it holds.
LEMMA ColumnCounts ==
  ASSUME NEW s \in Sessions, NEW n \in 0..LogCap
  PROVE  IsFiniteSet({s} \X (1..n)) /\ Cardinality({s} \X (1..n)) = n
  <1>1. n \in Nat /\ 1 \in Int /\ n \in Int
    BY LogBudgetAssumption
  <1>2. IsFiniteSet(1..n) /\ Cardinality(1..n) = n
    BY <1>1, FS_Interval
  <1>3. IsFiniteSet({s}) /\ Cardinality({s}) = 1
    BY FS_Singleton
  <1>4. IsFiniteSet({s} \X (1..n)) /\ Cardinality({s} \X (1..n)) = 1 * n
    BY ZenonT(40), <1>2, <1>3, FS_Product
  <1> QED BY <1>1, <1>4

\* All logs hold finitely many bytes.
LEMMA BytesFinite ==
  ASSUME NEW c \in Columns
  PROVE  IsFiniteSet(Bytes(c)) /\ Cardinality(Bytes(c)) \in Nat
  <1>1. LogCap \in Nat /\ LogCap \in Int /\ 1 \in Int
    BY LogBudgetAssumption
  <1>2. IsFiniteSet(1..LogCap)
    BY <1>1, FS_Interval
  <1>3. IsFiniteSet(Sessions \X (1..LogCap))
    BY <1>2, LogBudgetAssumption, FS_Product
  <1>4. Bytes(c) \in SUBSET (Sessions \X (1..LogCap))
    BY DEF Bytes
  <1>5. IsFiniteSet(Bytes(c))
    BY <1>3, <1>4, FS_Subset
  <1> QED BY <1>5, FS_CardinalityType

\* One log changes, and the bytes of all by as much.
LEMMA ColumnChanges ==
  ASSUME NEW c \in Columns, NEW d \in Columns, NEW s \in Sessions,
         \A r \in Sessions \ {s} : d[r] = c[r]
  PROVE  Cardinality(Bytes(d)) = Cardinality(Bytes(c)) + d[s] - c[s]
  <1> DEFINE rest == {b \in Bytes(c) : b[1] # s}
  <1>1. Bytes(c) = rest \cup ({s} \X (1..c[s])) /\ rest \cap ({s} \X (1..c[s])) = {}
    <2>1. c[s] \in 0..LogCap
      BY DEF Columns
    <2>2. 1..c[s] \subseteq 1..LogCap
      BY <2>1, LogBudgetAssumption
    <2>3. \A k \in 1..LogCap : k <= c[s] <=> k \in 1..c[s]
      BY <2>1
    <2> QED BY <2>2, <2>3 DEF Bytes
  <1>2. Bytes(d) = rest \cup ({s} \X (1..d[s])) /\ rest \cap ({s} \X (1..d[s])) = {}
    <2>1. d[s] \in 0..LogCap
      BY DEF Columns
    <2>2. 1..d[s] \subseteq 1..LogCap
      BY <2>1, LogBudgetAssumption
    <2>3. \A k \in 1..LogCap : k <= d[s] <=> k \in 1..d[s]
      BY <2>1
    <2>4. rest = {b \in Bytes(d) : b[1] # s}
      BY DEF Bytes
    <2> HIDE DEF rest
    <2> QED BY <2>2, <2>3, <2>4 DEF Bytes
  <1>3. IsFiniteSet(rest) /\ Cardinality(rest) \in Nat
    <2>1. rest \in SUBSET Bytes(c)
      OBVIOUS
    <2>2. IsFiniteSet(rest)
      BY <2>1, BytesFinite, FS_Subset
    <2> QED BY <2>2, FS_CardinalityType
  <1> HIDE DEF rest
  <1>4. c[s] \in 0..LogCap /\ d[s] \in 0..LogCap
    BY DEF Columns
  <1> DEFINE old == {s} \X (1..c[s])
             new == {s} \X (1..d[s])
  <1>5. IsFiniteSet(old) /\ Cardinality(old) = c[s] /\ IsFiniteSet(new) /\ Cardinality(new) = d[s]
    BY <1>4, ColumnCounts
  <1> HIDE DEF old, new
  <1>6. Cardinality({}) = 0
    BY FS_EmptySet
  <1>7. Cardinality(rest \cup old) = Cardinality(rest) + c[s] - 0
    BY <1>1, <1>3, <1>5, <1>6, FS_Union DEF old
  <1>8. Cardinality(rest \cup new) = Cardinality(rest) + d[s] - 0
    BY <1>2, <1>3, <1>5, <1>6, FS_Union DEF new
  <1>9. Cardinality(Bytes(c)) = Cardinality(rest) + c[s]
    BY <1>1, <1>3, <1>4, <1>7 DEF old
  <1>10. Cardinality(Bytes(d)) = Cardinality(rest) + d[s]
    BY <1>2, <1>3, <1>4, <1>8 DEF new
  <1> QED BY <1>3, <1>4, <1>9, <1>10

\* An equal share of the cap each is no more than the cap.
LEMMA SharesFit ==
  ASSUME NEW c \in Columns, \A s \in Sessions : c[s] <= Share, Sessions # {}
  PROVE  Cardinality(Bytes(c)) <= Cap
  <1> DEFINE n == Cardinality(Sessions)
  <1>1. n \in Nat /\ n # 0 /\ Cap \in Nat
    BY LogBudgetAssumption, FS_CardinalityType, FS_EmptySet
  <1>2. Share \in Nat /\ n * Share <= Cap
    <2>1. \A a, b \in Nat : b # 0 => a \div b \in Nat /\ b * (a \div b) <= a
      OBVIOUS
    <2> HIDE DEF n
    <2>2. Share = Cap \div n
      BY DEF Share, n
    <2> QED BY <1>1, <2>1, <2>2
  <1>3. 1 \in Int /\ Share \in Int
    BY <1>2
  <1>4. IsFiniteSet(1..Share) /\ Cardinality(1..Share) = Share
    BY <1>2, <1>3, FS_Interval
  <1>5. /\ IsFiniteSet(Sessions \X (1..Share))
        /\ Cardinality(Sessions \X (1..Share)) = n * Share
    BY <1>4, LogBudgetAssumption, FS_Product
  <1>6. Bytes(c) \in SUBSET (Sessions \X (1..Share))
    <2> SUFFICES ASSUME NEW s \in Sessions, NEW k \in 1..LogCap, k <= c[s]
                 PROVE  k \in 1..Share
      BY DEF Bytes
    <2>1. c[s] \in 0..LogCap /\ c[s] <= Share
      BY DEF Columns
    <2> QED BY <1>2, <2>1
  <1>7. Cardinality(Bytes(c)) <= n * Share
    <2> HIDE DEF n
    <2> QED BY <1>5, <1>6, FS_Subset
  <1>8. Cardinality(Bytes(c)) \in Nat /\ n * Share \in Nat
    BY <1>1, <1>2, BytesFinite
  <1> QED BY <1>1, <1>2, <1>7, <1>8

Locations == {"read", "account", "check", "try", "pass", "scan", "cut", "settle", "leave", "release"}

\* Before anything is printed.
LEMMA BudgetStarts == BudgetInit => BudgetInv
  <1> SUFFICES ASSUME BudgetInit PROVE BudgetInv
    OBVIOUS
  <1>1. LogCap \in Nat /\ Passes \in Nat /\ MaxWrites \in Nat /\ Forgetter \notin Sessions
        /\ Nobody \notin Sessions \cup {Forgetter}
    BY LogBudgetAssumption
  <1>2. Counted \in Columns /\ \A s \in Sessions : Counted[s] = 0
    BY <1>1 DEF BudgetInit, Counted, Columns
  <1>3. Bytes(Counted) = {}
    BY <1>2 DEF Bytes
  <1>4. total = Cardinality(Bytes(Counted))
    BY <1>3, FS_EmptySet DEF BudgetInit
  <1>5. victim \in Sessions
    BY LogBudgetAssumption DEF BudgetInit
  <1>6. BudgetTypeOK
    BY <1>1, <1>5 DEF BudgetInit, BudgetTypeOK, Threads
  <1>7. BudgetTyped
    BY <1>6 DEF BudgetTyped, BudgetInit
  <1>8. LocksRight /\ EnforcerKnown /\ DeltaKnown
    BY <1>1 DEF LocksRight, EnforcerKnown, DeltaKnown, BudgetInit, Threads, Enforcing, Busy
  <1>9. Spared
    BY DEF Spared, QuietKeeps, AboutAll, FindsOne, CutsOne, BudgetInit, Threads
  <1> QED BY <1>2, <1>4, <1>6, <1>7, <1>8, <1>9 DEF BudgetInv, TotalExact, Columns

\* A log is changed under its lock: nothing is accounted yet.
LEMMA ChangeCounts ==
  ASSUME BudgetInv, NEW t \in Threads, NEW s \in Sessions, NEW size \in 0..LogCap,
         Change(t, s, size), at[t] \notin Busy
  PROVE  /\ Counted' = Counted
         /\ held' \in [Sessions -> 0..LogCap] /\ delta' \in [Threads -> Int]
         /\ holder' \in [Sessions -> Threads \cup {Nobody}]
  <1>1. /\ held \in [Sessions -> 0..LogCap] /\ delta \in [Threads -> Int]
        /\ holder \in [Sessions -> Threads \cup {Nobody}] /\ LogCap \in Nat
    BY LogBudgetAssumption DEF BudgetInv, BudgetTyped, BudgetTypeOK
  <1>2. /\ holder[s] = Nobody /\ holder' = [holder EXCEPT ![s] = t]
        /\ held' = [held EXCEPT ![s] = size] /\ delta' = [delta EXCEPT ![t] = size - held[s]]
    BY DEF Change
  <1>3. held[s] \in Int /\ size \in Int
    BY <1>1
  <1>4. \A r \in Sessions : holder[r] # t
    BY <1>1 DEF BudgetInv, LocksRight, Busy, Threads
  <1>5. t # Nobody
    BY LogBudgetAssumption DEF Threads
  <1>6. ASSUME NEW r \in Sessions
        PROVE  held'[r] - (IF holder'[r] = Nobody THEN 0 ELSE delta'[holder'[r]])
                 = held[r] - (IF holder[r] = Nobody THEN 0 ELSE delta[holder[r]])
    <2>1. CASE r = s
      <3>1. held'[r] = size /\ holder'[r] = t /\ delta'[t] = size - held[s]
        BY <1>1, <1>2, <2>1
      <3>2. size - (size - held[s]) = held[s] - 0
        BY <1>3
      <3> QED BY <1>2, <1>5, <2>1, <3>1, <3>2
    <2>2. CASE r # s
      <3>1. held'[r] = held[r] /\ holder'[r] = holder[r]
        BY <1>1, <1>2, <2>2
      <3>2. holder[r] # Nobody => delta'[holder[r]] = delta[holder[r]]
        BY <1>1, <1>2, <1>4
      <3> QED BY <3>1, <3>2
    <2> QED BY <2>1, <2>2
  <1>7. Counted' = Counted
    BY <1>6 DEF Counted
  <1>8. size - held[s] \in Int
    BY <1>3
  <1> QED BY <1>1, <1>2, <1>7, <1>8

\* The thread that holds a log's lock accounts for what it changed.
LEMMA AccountCounts ==
  ASSUME BudgetInv, NEW t \in Threads, NEW s \in Sessions, holder[s] = t,
         \A r \in Sessions : holder[r] = t => r = s,
         Accounts(t), holder' = [holder EXCEPT ![s] = Nobody], held' = held
  PROVE  /\ Counted' \in [Sessions -> 0..LogCap] /\ total' = Cardinality(Bytes(Counted'))
         /\ total' \in Nat /\ delta' \in [Threads -> Int]
         /\ holder' \in [Sessions -> Threads \cup {Nobody}]
  <1>1. /\ held \in [Sessions -> 0..LogCap] /\ delta \in [Threads -> Int]
        /\ holder \in [Sessions -> Threads \cup {Nobody}] /\ LogCap \in Nat
        /\ Counted \in Columns /\ total = Cardinality(Bytes(Counted)) /\ total \in Nat
    BY LogBudgetAssumption DEF BudgetInv, BudgetTyped, BudgetTypeOK, TotalExact, Columns
  <1>2. total' = total + delta[t] /\ delta' = [delta EXCEPT ![t] = 0]
    BY DEF Accounts
  <1>3. t # Nobody
    BY LogBudgetAssumption DEF Threads
  <1>4. held[s] \in Int /\ delta[t] \in Int /\ held[s] \in 0..LogCap
    BY <1>1
  <1>5. Counted[s] = held[s] - delta[t]
    BY <1>3 DEF Counted
  <1> DEFINE now == [r \in Sessions |-> held'[r] - (IF holder'[r] = Nobody THEN 0 ELSE delta'[holder'[r]])]
  <1>6. now[s] = held[s]
    <2>1. holder'[s] = Nobody /\ held'[s] = held[s]
      BY <1>1
    <2> QED BY <1>4, <2>1
  <1>7. ASSUME NEW r \in Sessions \ {s} PROVE now[r] = Counted[r]
    <2>1. holder'[r] = holder[r] /\ held'[r] = held[r] /\ holder[r] # t
      BY <1>1
    <2>2. holder[r] # Nobody => delta'[holder[r]] = delta[holder[r]]
      BY <1>1, <1>2, <2>1
    <2> QED BY <2>1, <2>2 DEF Counted
  <1>8. now = [r \in Sessions |-> now[r]]
    OBVIOUS
  <1>9. Counted' = now
    BY DEF Counted
  <1> HIDE DEF now
  <1>10. now \in Columns
    <2>1. \A r \in Sessions : now[r] \in 0..LogCap
      BY <1>1, <1>4, <1>6, <1>7 DEF Columns
    <2> QED BY <1>8, <2>1 DEF Columns
  <1>11. Cardinality(Bytes(now)) = Cardinality(Bytes(Counted)) + now[s] - Counted[s]
    BY <1>1, <1>7, <1>10, ColumnChanges
  <1>12. total' = Cardinality(Bytes(now))
    BY <1>1, <1>2, <1>4, <1>5, <1>6, <1>11
  <1>13. total' \in Nat
    BY <1>10, <1>12, BytesFinite
  <1>14. now \in [Sessions -> 0..LogCap]
    BY <1>10 DEF Columns
  <1> QED BY <1>1, <1>2, <1>9, <1>12, <1>13, <1>14

Still == UNCHANGED <<held, holder, total, delta>>
CountsTyped ==
    /\ held \in [Sessions -> 0..LogCap] /\ delta \in [Threads -> Int]
    /\ holder \in [Sessions -> Threads \cup {Nobody}]

\* What is held, accounted and locked fits after every step.
LEMMA CountsKept ==
  ASSUME BudgetInv, [BudgetNext]_budgetVars
  PROVE  /\ Counted' \in [Sessions -> 0..LogCap] /\ total' = Cardinality(Bytes(Counted'))
         /\ total' \in Nat /\ held' \in [Sessions -> 0..LogCap] /\ delta' \in [Threads -> Int]
         /\ holder' \in [Sessions -> Threads \cup {Nobody}]
  <1>1. /\ held \in [Sessions -> 0..LogCap] /\ delta \in [Threads -> Int]
        /\ holder \in [Sessions -> Threads \cup {Nobody}] /\ target \in 0..LogCap /\ victim \in Sessions
        /\ Counted \in [Sessions -> 0..LogCap] /\ total = Cardinality(Bytes(Counted)) /\ total \in Nat
        /\ at \in [Threads -> Locations]
    BY DEF BudgetInv, BudgetTyped, BudgetTypeOK, TotalExact, Locations
  <1>2. Sessions \subseteq Threads /\ Forgetter \in Threads /\ LogCap \in Nat
    BY LogBudgetAssumption DEF Threads
  <1>3. CASE Still
    BY <1>1, <1>3 DEF Still, Counted
  <1>4. ASSUME NEW s \in Sessions, Prints(s) PROVE Counted' = Counted /\ total' = total /\ CountsTyped'
    <2> DEFINE size == IF held[s] < LogCap THEN held[s] + 1 ELSE LogCap
    <2>1. size \in 0..LogCap
      <3>1. held[s] \in 0..LogCap
        BY <1>1
      <3> QED BY <1>2, <3>1
    <2>2. Change(s, s, size) /\ at[s] \notin Busy /\ total' = total
      BY <1>4 DEF Prints, Busy
    <2> HIDE DEF size
    <2> QED BY <1>2, <2>1, <2>2, ChangeCounts DEF CountsTyped
  <1>5. ASSUME NEW s \in Sessions, Cuts(s) PROVE Counted' = Counted /\ total' = total /\ CountsTyped'
    <2>1. at[s] \notin Busy /\ total' = total /\ held[victim] \in 0..LogCap
      BY <1>1, <1>5 DEF Cuts, Busy
    <2>2. \/ Change(s, victim, target) \/ Change(s, victim, held[victim])
      BY <1>5 DEF Cuts, CutTo
    <2> QED BY <1>1, <1>2, <2>1, <2>2, ChangeCounts DEF CountsTyped
  <1>6. ASSUME NEW s \in Sessions, Forgets(s) PROVE Counted' = Counted /\ total' = total /\ CountsTyped'
    <2>1. at[Forgetter] \notin Busy /\ total' = total /\ Change(Forgetter, s, 0) /\ 0 \in 0..LogCap
      BY <1>2, <1>6 DEF Forgets, Busy
    <2> QED BY <1>2, <2>1, ChangeCounts DEF CountsTyped
  <1>7. ASSUME NEW s \in Sessions, Accounted(s)
        PROVE  /\ Counted' \in [Sessions -> 0..LogCap] /\ total' = Cardinality(Bytes(Counted'))
               /\ total' \in Nat /\ CountsTyped'
    <2>1. /\ at[s] = "account" /\ Accounts(s) /\ holder' = [holder EXCEPT ![s] = Nobody] /\ held' = held
      BY <1>7 DEF Accounted, Unlock
    <2>2. holder[s] = s /\ s \in Threads
      BY <1>2, <2>1 DEF BudgetInv, LocksRight
    <2>3. \A r \in Sessions : holder[r] = s => r = s
      BY <2>1 DEF BudgetInv, LocksRight
    <2> QED BY <1>1, <2>1, <2>2, <2>3, AccountCounts DEF CountsTyped
  <1>8. ASSUME NEW s \in Sessions, Settles(s)
        PROVE  /\ Counted' \in [Sessions -> 0..LogCap] /\ total' = Cardinality(Bytes(Counted'))
               /\ total' \in Nat /\ CountsTyped'
    <2>1. /\ at[s] = "settle" /\ Accounts(s) /\ holder' = [holder EXCEPT ![victim] = Nobody] /\ held' = held
      BY <1>8 DEF Settles, Unlock
    <2>2. holder[victim] = s /\ s \in Threads
      BY <1>2, <2>1 DEF BudgetInv, LocksRight
    <2>3. \A r \in Sessions : holder[r] = s => r = victim
      BY <2>1 DEF BudgetInv, LocksRight
    <2> QED BY <1>1, <2>1, <2>2, <2>3, AccountCounts DEF CountsTyped
  <1>9. ASSUME Released
        PROVE  /\ Counted' \in [Sessions -> 0..LogCap] /\ total' = Cardinality(Bytes(Counted'))
               /\ total' \in Nat /\ CountsTyped'
    <2>1. PICK s \in Sessions : holder[s] = Forgetter
      BY <1>9 DEF Released, BudgetInv, LocksRight
    <2>2. \A r \in Sessions : holder[r] = Forgetter => r = s
      BY <2>1 DEF BudgetInv, LocksRight
    <2>3. holder' = [holder EXCEPT ![s] = Nobody]
      BY <1>1, <1>9, <2>1, <2>2 DEF Released
    <2>4. Accounts(Forgetter) /\ held' = held
      BY <1>9 DEF Released
    <2> QED BY <1>1, <1>2, <2>1, <2>2, <2>3, <2>4, AccountCounts DEF CountsTyped
  <1>10. \/ Still \/ Released
         \/ \E s \in Sessions : Prints(s) \/ Cuts(s) \/ Forgets(s) \/ Accounted(s) \/ Settles(s)
    BY DEF BudgetNext, Enforces, Still, budgetVars, log, Checks, Tries, PassBegins, Looks, Picks, Leaves, Ends
  <1> QED BY <1>1, <1>3, <1>4, <1>5, <1>6, <1>7, <1>8, <1>9, <1>10 DEF CountsTyped

\* A cut leaves less than the log has, and half of it at least.
LEMMA TargetBelow ==
  ASSUME NEW size \in 0..LogCap, size > 0, excess \in Int, excess >= 1
  PROVE  Target(size) \in 0..LogCap /\ Target(size) < size
  <1>1. LogCap \in Nat
    BY LogBudgetAssumption
  <1> DEFINE a == size - excess
             b == size \div 2
  <1>2. a \in Int /\ b \in Int /\ a < size /\ 0 <= b /\ b < size
    BY <1>1
  <1>3. Target(size) = Greatest({a, b})
    BY DEF Target
  <1> HIDE DEF a, b
  <1>4. \E x \in {a, b} : \A y \in {a, b} : x >= y
    BY <1>2
  <1>5. Greatest({a, b}) \in {a, b} /\ \A y \in {a, b} : Greatest({a, b}) >= y
    BY <1>4 DEF Greatest
  <1> QED BY <1>1, <1>2, <1>3, <1>5

\* Types.
LEMMA BudgetTypesKept ==
  ASSUME BudgetInv, [BudgetNext]_budgetVars
  PROVE  BudgetTyped'
  <1>1. /\ whole \in BOOLEAN /\ members \in Sessions \cup {Nobody}
        /\ enrolled \subseteq Sessions /\ ended \subseteq Sessions
        /\ at \in [Threads -> Locations] /\ writes \in [Sessions -> 0..MaxWrites]
        /\ excess \in Int /\ left \subseteq Sessions /\ DOMAIN scan \subseteq Sessions
        /\ victim \in Sessions /\ target \in 0..LogCap /\ passes \in 0..Passes
        /\ scan \in [DOMAIN scan -> 0..LogCap] /\ held \in [Sessions -> 0..LogCap] /\ total \in Nat
        /\ \A s \in Sessions : held[s] <= writes[s]
    BY DEF BudgetInv, BudgetTyped, BudgetTypeOK, Locations
  <1>2. /\ LogCap \in Nat /\ MaxWrites \in Nat /\ Passes \in Nat /\ Cap \in Nat
        /\ Sessions \subseteq Threads /\ Forgetter \in Threads
    BY LogBudgetAssumption DEF Threads
  <1>3. /\ total' \in Nat /\ held' \in [Sessions -> 0..LogCap] /\ delta' \in [Threads -> Int]
        /\ holder' \in [Sessions -> Threads \cup {Nobody}]
    BY CountsKept
  <1>4. /\ whole' = whole /\ enrolled' \subseteq Sessions /\ ended' \subseteq Sessions
        /\ members' \in Sessions \cup {Nobody} /\ victim' \in Sessions /\ left' \subseteq Sessions
    BY <1>1 DEF BudgetNext, Enforces, budgetVars, log, locals, Prints, Accounted, Checks, Tries, PassBegins,
       Looks, Picks, Cuts, Settles, Leaves, Ends, Forgets, Released
  <1>5. at' \in [Threads -> Locations]
    BY ZenonT(40), <1>1, <1>2 DEF BudgetNext, Enforces, budgetVars, Prints, Accounted, Checks, Tries, PassBegins,
       Looks, Picks, Cuts, Settles, Leaves, Ends, Forgets, Released, Goes, Locations
  <1>6. writes' \in [Sessions -> 0..MaxWrites] /\ \A s \in Sessions : held'[s] <= writes'[s]
    <2>1. CASE UNCHANGED <<held, writes>>
      BY <1>1, <2>1
    <2>2. ASSUME NEW s \in Sessions, Prints(s)
          PROVE writes' \in [Sessions -> 0..MaxWrites] /\ \A r \in Sessions : held'[r] <= writes'[r]
      <3>1. /\ writes[s] < MaxWrites /\ writes' = [writes EXCEPT ![s] = @ + 1]
            /\ held' = [held EXCEPT ![s] = IF held[s] < LogCap THEN held[s] + 1 ELSE LogCap]
        BY <2>2 DEF Prints, Change
      <3>2. writes[s] + 1 \in 0..MaxWrites
        BY <1>1, <1>2, <3>1
      <3>3. (IF held[s] < LogCap THEN held[s] + 1 ELSE LogCap) <= writes[s] + 1
        <4>1. held[s] \in 0..LogCap /\ writes[s] \in 0..MaxWrites /\ held[s] <= writes[s]
          BY <1>1
        <4> QED BY <1>2, <4>1
      <3> QED BY <1>1, <3>1, <3>2, <3>3
    <2>3. ASSUME NEW s \in Sessions, Cuts(s)
          PROVE writes' \in [Sessions -> 0..MaxWrites] /\ \A r \in Sessions : held'[r] <= writes'[r]
      <3>1. writes' = writes
        BY <2>3 DEF Cuts
      <3>2. \/ held' = [held EXCEPT ![victim] = target] /\ held[victim] > target
            \/ held' = [held EXCEPT ![victim] = held[victim]]
        BY <2>3 DEF Cuts, CutTo, Change
      <3>3. held[victim] > target => target <= writes[victim]
        <4>1. held[victim] \in 0..LogCap /\ writes[victim] \in 0..MaxWrites /\ held[victim] <= writes[victim]
          BY <1>1
        <4> QED BY <1>1, <1>2, <4>1
      <3> QED BY <1>1, <3>1, <3>2, <3>3
    <2>4. ASSUME NEW s \in Sessions, Forgets(s)
          PROVE writes' \in [Sessions -> 0..MaxWrites] /\ \A r \in Sessions : held'[r] <= writes'[r]
      <3>1. writes' = writes /\ held' = [held EXCEPT ![s] = 0]
        BY <2>4 DEF Forgets, Change
      <3>2. 0 <= writes[s]
        <4>1. writes[s] \in 0..MaxWrites
          BY <1>1
        <4> QED BY <1>2, <4>1
      <3> QED BY <1>1, <3>1, <3>2
    <2>5. \/ UNCHANGED <<held, writes>> \/ \E s \in Sessions : Prints(s) \/ Cuts(s) \/ Forgets(s)
      BY DEF BudgetNext, Enforces, budgetVars, log, Accounted, Checks, Tries, PassBegins,
         Looks, Picks, Settles, Leaves, Ends, Released
    <2> QED BY <2>1, <2>2, <2>3, <2>4, <2>5
  <1>7. /\ scan' \in [DOMAIN scan' -> 0..LogCap] /\ DOMAIN scan' \subseteq Sessions
        /\ excess' \in Int /\ target' \in 0..LogCap /\ passes' \in 0..Passes
    <2>1. CASE UNCHANGED <<scan, excess, target, passes>>
      BY <1>1, <2>1
    <2>2. ASSUME NEW s \in Sessions, Tries(s)
          PROVE scan' = scan /\ excess' = excess /\ target' = target /\ passes' \in 0..Passes
      BY <1>1, <1>2, <2>2 DEF Tries
    <2>3. ASSUME NEW s \in Sessions, PassBegins(s)
          PROVE scan' = [x \in {} |-> 0] /\ excess' \in Int /\ target' = target /\ passes' \in 0..Passes
      <3>1. /\ excess' = total - Cap /\ scan' = [x \in {} |-> 0] /\ target' = target
            /\ passes' = IF Enough THEN passes ELSE passes - 1
        BY <2>3 DEF PassBegins
      <3>2. ~Enough => passes # 0
        BY DEF Enough
      <3>3. total - Cap \in Int
        BY <1>1, <1>2
      <3>4. passes \in 0..Passes /\ passes # 0 => passes - 1 \in 0..Passes
        BY <1>2
      <3> QED BY <1>1, <3>1, <3>2, <3>3, <3>4
    <2>4. ASSUME NEW s \in Sessions, Looks(s)
          PROVE /\ excess' = excess /\ target' = target /\ passes' = passes
                /\ scan' \in [DOMAIN scan' -> 0..LogCap] /\ DOMAIN scan' \subseteq Sessions
      BY <1>1, <2>4 DEF Looks
    <2>5. ASSUME NEW s \in Sessions, Picks(s)
          PROVE scan' = scan /\ excess' = excess /\ target' \in 0..LogCap /\ passes' = passes
      <3>1. scan' = scan /\ excess' = excess /\ passes' = passes
        BY <2>5 DEF Picks
      <3>2. CASE target' = target
        BY <1>1, <3>1, <3>2
      <3>3. ASSUME NEW x \in left, scan[x] > 0, target' = Target(scan[x]), at[s] = "scan", DOMAIN scan = left
            PROVE target' \in 0..LogCap
        <4>1. scan[x] \in 0..LogCap /\ excess \in Int /\ excess >= 1
          BY <1>1, <3>3 DEF BudgetInv, EnforcerKnown
        <4>2. target' \in 0..LogCap
          BY <1>2, <3>3, <4>1, TargetBelow
        <4> QED BY <4>2
      <3>4. \/ target' = target
            \/ /\ at[s] = "scan" /\ DOMAIN scan = left
               /\ \E x \in left : scan[x] > 0 /\ target' = Target(scan[x])
        BY <2>5 DEF Picks
      <3> QED BY <3>1, <3>2, <3>3, <3>4
    <2>6. \/ UNCHANGED <<scan, excess, target, passes>>
          \/ \E s \in Sessions : Tries(s) \/ PassBegins(s) \/ Looks(s) \/ Picks(s)
      BY DEF BudgetNext, Enforces, budgetVars, locals, Prints, Accounted, Checks, Cuts, Settles, Leaves,
         Ends, Forgets, Released
    <2> QED BY <1>1, <1>2, <2>1, <2>2, <2>3, <2>4, <2>5, <2>6
  <1> QED BY <1>1, <1>3, <1>4, <1>5, <1>6, <1>7 DEF BudgetTyped, BudgetTypeOK, Locations

\* A thread goes on, takes a log's lock, or lets go of it.
GoesOn(t, to) ==
    /\ at[t] \notin Busy /\ to \notin Busy /\ at' = [at EXCEPT ![t] = to] /\ holder' = holder
    /\ victim' = victim \/ at[t] = "scan"
Takes(t, s, to) ==
    /\ at[t] \notin Busy /\ at' = [at EXCEPT ![t] = to]
    /\ holder[s] = Nobody /\ holder' = [holder EXCEPT ![s] = t] /\ victim' = victim
    /\ \/ t \in Sessions /\ to = "account" /\ s = t
       \/ t \in Sessions /\ to = "settle" /\ s = victim
       \/ t = Forgetter /\ to = "release"
LetsGo(t, s, to) ==
    /\ at[t] \in Busy /\ to \notin Busy /\ at' = [at EXCEPT ![t] = to]
    /\ holder[s] = t /\ holder' = [holder EXCEPT ![s] = Nobody] /\ victim' = victim

\* A lock is held by the thread that changed the log.
LEMMA LocksKept ==
  ASSUME BudgetInv, [BudgetNext]_budgetVars
  PROVE  LocksRight'
  <1>1. /\ LocksRight /\ EnforcerKnown /\ victim \in Sessions
        /\ at \in [Threads -> Locations] /\ holder \in [Sessions -> Threads \cup {Nobody}]
    BY DEF BudgetInv, BudgetTyped, BudgetTypeOK, Locations
  <1>2. /\ Sessions \subseteq Threads /\ Forgetter \in Threads /\ Forgetter \notin Sessions
        /\ Nobody \notin Sessions /\ Nobody # Forgetter
        /\ \A t \in Threads : t \in Sessions \/ t = Forgetter
    BY LogBudgetAssumption DEF Threads
  <1>3. ASSUME NEW t \in Threads, NEW to, GoesOn(t, to) PROVE LocksRight'
    <2>1. /\ \A u \in Threads : at'[u] = IF u = t THEN to ELSE at[u]
          /\ holder' = holder /\ at[t] \notin Busy /\ to \notin Busy
      BY <1>1, <1>3 DEF GoesOn
    <2>2. (\E u \in Sessions : at[u] = "settle") => victim' = victim
      BY <1>1, <1>2, <1>3 DEF GoesOn, EnforcerKnown, Enforcing, Busy, LocksRight
    <2>3. \A u \in Threads, b \in Busy : at'[u] = b <=> at[u] = b
      BY <2>1
    <2> QED BY <1>1, <1>2, <2>1, <2>2, <2>3 DEF LocksRight, Busy
  <1>4. ASSUME NEW t \in Threads, NEW s \in Sessions, NEW to, Takes(t, s, to) PROVE LocksRight'
    <2>1. /\ \A u \in Threads : at'[u] = IF u = t THEN to ELSE at[u]
          /\ \A r \in Sessions : holder'[r] = IF r = s THEN t ELSE holder[r]
          /\ at[t] \notin Busy /\ holder[s] = Nobody /\ victim' = victim
      BY <1>1, <1>4 DEF Takes
    <2>2. \A r \in Sessions : holder[r] # t
      BY <1>1, <1>2, <2>1 DEF LocksRight, Busy
    <2>3. CASE t \in Sessions /\ to = "account" /\ s = t
      BY <1>1, <1>2, <2>1, <2>2, <2>3 DEF LocksRight, Busy
    <2>4. CASE t \in Sessions /\ to = "settle" /\ s = victim
      BY <1>1, <1>2, <2>1, <2>2, <2>4 DEF LocksRight, Busy
    <2>5. CASE t = Forgetter /\ to = "release"
      BY <1>1, <1>2, <2>1, <2>2, <2>5 DEF LocksRight, Busy
    <2> QED BY <1>4, <2>3, <2>4, <2>5 DEF Takes
  <1>5. ASSUME NEW t \in Threads, NEW s \in Sessions, NEW to, LetsGo(t, s, to) PROVE LocksRight'
    <2>1. /\ \A u \in Threads : at'[u] = IF u = t THEN to ELSE at[u]
          /\ \A r \in Sessions : holder'[r] = IF r = s THEN Nobody ELSE holder[r]
          /\ at[t] \in Busy /\ to \notin Busy /\ holder[s] = t /\ victim' = victim
      BY <1>1, <1>5 DEF LetsGo
    <2>2. \A r \in Sessions : holder[r] = t => r = s
      BY <1>1, <1>2, <2>1 DEF LocksRight, Busy
    <2> QED BY <1>1, <1>2, <2>1, <2>2 DEF LocksRight, Busy
  <1>6. ASSUME NEW s \in Sessions, Prints(s) PROVE Takes(s, s, "account")
    BY <1>1, <1>2, <1>6 DEF Prints, Change, Goes, Takes, Busy, locals
  <1>7. ASSUME NEW s \in Sessions, Cuts(s) PROVE Takes(s, victim, "settle")
    BY <1>1, <1>2, <1>7 DEF Cuts, CutTo, Change, Goes, Takes, Busy
  <1>8. ASSUME NEW s \in Sessions, Forgets(s) PROVE Takes(Forgetter, s, "release")
    BY <1>1, <1>2, <1>8 DEF Forgets, Change, Goes, Takes, Busy, locals
  <1>9. ASSUME NEW s \in Sessions, Accounted(s) PROVE LetsGo(s, s, "check")
    BY <1>1, <1>2, <1>9 DEF Accounted, Unlock, Goes, LetsGo, Busy, locals, LocksRight
  <1>10. ASSUME NEW s \in Sessions, Settles(s) PROVE LetsGo(s, victim, "pass")
    BY <1>1, <1>2, <1>10 DEF Settles, Unlock, Goes, LetsGo, Busy, locals, LocksRight
  <1>11. ASSUME Released PROVE \E s \in Sessions : LetsGo(Forgetter, s, "read")
    <2>1. PICK s \in Sessions : holder[s] = Forgetter
      BY <1>1, <1>11 DEF Released, LocksRight
    <2>2. \A r \in Sessions : holder[r] = Forgetter => r = s
      BY <1>1, <2>1 DEF LocksRight
    <2>3. holder' = [holder EXCEPT ![s] = Nobody]
      BY <1>1, <1>11, <2>1, <2>2 DEF Released
    <2> QED BY <1>11, <2>1, <2>3 DEF Released, LetsGo, Goes, Busy, locals
  <1>12. ASSUME NEW s \in Sessions,
                Checks(s) \/ Tries(s) \/ PassBegins(s) \/ Looks(s) \/ Picks(s) \/ Leaves(s)
         PROVE  \E to : GoesOn(s, to)
    <2>1. CASE Looks(s)
      <3>1. at' = [at EXCEPT ![s] = "scan"]
        BY <1>1, <1>2, <2>1 DEF Looks
      <3> QED BY <2>1, <3>1 DEF Looks, GoesOn, Busy, log
    <2>2. CASE Checks(s)
      BY <2>2 DEF Checks, GoesOn, Busy, log, locals, Goes
    <2>3. CASE Tries(s)
      BY <2>3 DEF Tries, GoesOn, Busy, log, Goes
    <2>4. CASE PassBegins(s)
      BY <2>4 DEF PassBegins, GoesOn, Busy, log, Goes
    <2>5. CASE Picks(s)
      BY <2>5 DEF Picks, GoesOn, Busy, log, Goes
    <2>6. CASE Leaves(s)
      BY <2>6 DEF Leaves, GoesOn, Busy, log, locals, Goes
    <2> QED BY <1>12, <2>1, <2>2, <2>3, <2>4, <2>5, <2>6
  <1>13. CASE UNCHANGED <<at, holder, victim>>
    BY <1>1, <1>13 DEF LocksRight
  <1>14. \/ Released \/ UNCHANGED <<at, holder, victim>>
         \/ \E s \in Sessions :
              \/ Prints(s) \/ Cuts(s) \/ Forgets(s) \/ Accounted(s) \/ Settles(s)
              \/ Checks(s) \/ Tries(s) \/ PassBegins(s) \/ Looks(s) \/ Picks(s) \/ Leaves(s)
    BY DEF BudgetNext, Enforces, budgetVars, log, locals, Ends
  <1> QED BY <1>1, <1>2, <1>3, <1>4, <1>5, <1>6, <1>7, <1>8, <1>9, <1>10, <1>11, <1>12, <1>13, <1>14

\* One thread enforces.
LEMMA EnforcersKept ==
  ASSUME BudgetInv, [BudgetNext]_budgetVars
  PROVE  EnforcerKnown'
  <1>1. /\ EnforcerKnown /\ at \in [Threads -> Locations] /\ total \in Nat /\ Cap \in Nat
    BY LogBudgetAssumption DEF BudgetInv, BudgetTyped, BudgetTypeOK, Locations
  <1>2. /\ Sessions \subseteq Threads /\ Forgetter \in Threads /\ Forgetter \notin Sessions
        /\ Nobody \notin Sessions
    BY LogBudgetAssumption DEF Threads
  <1>3. /\ \A t \in Sessions : at[t] # "release" /\ (at[t] \in Enforcing => members = t)
        /\ at[Forgetter] \in {"read", "release"}
        /\ \A t \in Sessions : at[t] = "scan" => excess >= 1
    BY <1>1 DEF EnforcerKnown
  <1>4. ASSUME NEW s \in Sessions, NEW to \in Locations \ {"release", "scan"}, members' = members, excess' = excess,
               at' = [at EXCEPT ![s] = to], to \in Enforcing => at[s] \in Enforcing
        PROVE  EnforcerKnown'
    <2>1. \A u \in Threads : at'[u] = IF u = s THEN to ELSE at[u]
      BY <1>1, <1>4
    <2> QED BY <1>2, <1>3, <1>4, <2>1 DEF EnforcerKnown
  <1>5. ASSUME NEW s \in Sessions, Tries(s) PROVE EnforcerKnown'
    <2>1. CASE members = Nobody
      <3>1. \A u \in Sessions : at[u] \notin Enforcing
        BY <1>2, <1>3, <2>1
      <3>2. \A u \in Threads : at'[u] = IF u = s THEN "pass" ELSE at[u]
        BY <1>1, <1>5, <2>1 DEF Tries, Goes
      <3>3. members' = s /\ excess' = excess
        BY <1>5, <2>1 DEF Tries
      <3> QED BY <1>2, <1>3, <3>1, <3>2, <3>3 DEF EnforcerKnown, Enforcing
    <2>2. CASE members # Nobody
      BY <1>4, <1>5, <2>2 DEF Tries, Goes, Enforcing, Locations
    <2> QED BY <2>1, <2>2
  <1>6. ASSUME NEW s \in Sessions, PassBegins(s) PROVE EnforcerKnown'
    <2>1. /\ excess' = total - Cap /\ members' = members /\ at[s] = "pass"
          /\ \A u \in Threads : at'[u] = IF u = s THEN (IF Enough THEN "leave" ELSE "scan") ELSE at[u]
      BY <1>1, <1>6 DEF PassBegins, Goes
    <2>2. ~Enough => excess' >= 1
      BY <1>1, <2>1 DEF Enough
    <2>3. \A u \in Sessions \ {s} : at[u] \notin Enforcing
      BY <1>3, <2>1 DEF Enforcing
    <2>4. CASE Enough
      BY <1>2, <1>3, <2>1, <2>3, <2>4 DEF EnforcerKnown, Enforcing
    <2>5. CASE ~Enough
      BY <1>2, <1>3, <2>1, <2>2, <2>3, <2>5 DEF EnforcerKnown, Enforcing
    <2> QED BY <2>4, <2>5
  <1>7. ASSUME NEW s \in Sessions, Looks(s) PROVE EnforcerKnown'
    BY <1>3, <1>7 DEF Looks, EnforcerKnown
  <1>8. ASSUME NEW s \in Sessions, Leaves(s) PROVE EnforcerKnown'
    <2>1. /\ at[s] = "leave" /\ excess' = excess
          /\ \A u \in Threads : at'[u] = IF u = s THEN "read" ELSE at[u]
      BY <1>1, <1>8 DEF Leaves, Goes, locals
    <2>2. \A u \in Sessions \ {s} : at[u] \notin Enforcing
      BY <1>3, <2>1 DEF Enforcing
    <2> QED BY <1>2, <1>3, <2>1, <2>2 DEF EnforcerKnown, Enforcing
  <1>9. ASSUME NEW s \in Sessions, Forgets(s) \/ Released PROVE EnforcerKnown'
    <2>1. /\ members' = members /\ excess' = excess
          /\ at' = [at EXCEPT ![Forgetter] = "release"] \/ at' = [at EXCEPT ![Forgetter] = "read"]
      BY <1>9 DEF Forgets, Released, Goes, locals
    <2>2. at'[Forgetter] \in {"read", "release"} /\ \A u \in Sessions : at'[u] = at[u]
      BY <1>1, <1>2, <2>1
    <2> QED BY <1>2, <1>3, <2>1, <2>2 DEF EnforcerKnown
  <1>10. ASSUME NEW s \in Sessions, Prints(s) \/ Accounted(s) \/ Checks(s) \/ Picks(s) \/ Cuts(s) \/ Settles(s)
         PROVE  EnforcerKnown'
    <2>1. CASE Prints(s)
      BY <1>4, <2>1 DEF Prints, Goes, locals, Enforcing, Locations
    <2>2. CASE Accounted(s)
      BY <1>4, <2>2 DEF Accounted, Goes, locals, Enforcing, Locations
    <2>3. CASE Checks(s)
      BY <1>4, <2>3 DEF Checks, Goes, locals, Enforcing, Locations
    <2>4. CASE Picks(s)
      BY <1>4, <2>4 DEF Picks, Goes, Enforcing, Locations
    <2>5. CASE Cuts(s)
      BY <1>4, <2>5 DEF Cuts, Goes, Enforcing, Locations
    <2>6. CASE Settles(s)
      BY <1>4, <2>6 DEF Settles, Goes, locals, Enforcing, Locations
    <2> QED BY <1>10, <2>1, <2>2, <2>3, <2>4, <2>5, <2>6
  <1>11. CASE UNCHANGED <<at, members, excess>>
    BY <1>3, <1>11 DEF EnforcerKnown
  <1>12. \/ Released \/ UNCHANGED <<at, members, excess>>
         \/ \E s \in Sessions :
              \/ Prints(s) \/ Cuts(s) \/ Forgets(s) \/ Accounted(s) \/ Settles(s)
              \/ Checks(s) \/ Tries(s) \/ PassBegins(s) \/ Looks(s) \/ Picks(s) \/ Leaves(s)
    BY DEF BudgetNext, Enforces, budgetVars, locals, Ends
  <1> QED BY <1>5, <1>6, <1>7, <1>8, <1>9, <1>10, <1>11, <1>12, LogBudgetAssumption

\* A reader only ever adds.
LEMMA DeltasKept ==
  ASSUME BudgetInv, [BudgetNext]_budgetVars
  PROVE  DeltaKnown'
  <1>1. /\ at \in [Threads -> Locations] /\ delta \in [Threads -> Int] /\ held \in [Sessions -> 0..LogCap]
        /\ EnforcerKnown
    BY DEF BudgetInv, BudgetTyped, BudgetTypeOK, Locations
  <1>2. /\ Sessions \subseteq Threads /\ Forgetter \in Threads /\ Forgetter \notin Sessions
    BY LogBudgetAssumption DEF Threads
  <1>3. /\ \A t \in Threads : at[t] \notin Busy => delta[t] = 0
        /\ \A t \in Sessions : at[t] = "account" => delta[t] >= 0
    BY DEF BudgetInv, DeltaKnown
  <1>4. ASSUME NEW t \in Threads, NEW to, at' = [at EXCEPT ![t] = to], to # "account",
               \/ to \in Busy /\ \E d \in Int : delta' = [delta EXCEPT ![t] = d]
               \/ delta' = [delta EXCEPT ![t] = 0]
               \/ delta' = delta /\ at[t] \notin Busy
        PROVE  DeltaKnown'
    <2>1. \A u \in Threads : at'[u] = IF u = t THEN to ELSE at[u]
      BY <1>1, <1>4
    <2>2. \A u \in Threads \ {t} : delta'[u] = delta[u]
      BY <1>1, <1>4
    <2>3. to \notin Busy => delta'[t] = 0
      BY <1>1, <1>3, <1>4
    <2> QED BY <1>2, <1>3, <1>4, <2>1, <2>2, <2>3 DEF DeltaKnown
  <1>5. ASSUME NEW s \in Sessions, Prints(s) PROVE DeltaKnown'
    <2> DEFINE size == IF held[s] < LogCap THEN held[s] + 1 ELSE LogCap
    <2>1. size - held[s] >= 0 /\ size - held[s] \in Int
      <3>1. held[s] \in 0..LogCap /\ LogCap \in Nat
        BY <1>1, LogBudgetAssumption
      <3> QED BY <3>1
    <2>2. /\ delta' = [delta EXCEPT ![s] = size - held[s]] /\ at' = [at EXCEPT ![s] = "account"]
      BY <1>5 DEF Prints, Change, Goes
    <2> HIDE DEF size
    <2>3. \A u \in Threads : at'[u] = IF u = s THEN "account" ELSE at[u]
      BY <1>1, <2>2
    <2>4. \A u \in Threads \ {s} : delta'[u] = delta[u]
      BY <1>1, <2>2
    <2>5. delta'[s] >= 0
      BY <1>1, <1>2, <2>1, <2>2
    <2> QED BY <1>2, <1>3, <2>3, <2>4, <2>5 DEF DeltaKnown, Busy
  <1>6. ASSUME NEW s \in Sessions, Cuts(s) PROVE DeltaKnown'
    <2>1. \E size \in {target, held[victim]} : delta' = [delta EXCEPT ![s] = size - held[victim]]
      BY <1>6 DEF Cuts, CutTo, Change
    <2>2. target \in Int /\ held[victim] \in Int
      BY LogBudgetAssumption DEF BudgetInv, BudgetTyped, BudgetTypeOK
    <2>3. \A size \in {target, held[victim]} : size - held[victim] \in Int
      BY <2>2
    <2>4. \E d \in Int : delta' = [delta EXCEPT ![s] = d]
      BY <2>1, <2>3
    <2>5. at' = [at EXCEPT ![s] = "settle"]
      BY <1>6 DEF Cuts, Goes
    <2> QED BY <1>2, <1>4, <2>4, <2>5 DEF Busy
  <1>7. ASSUME NEW s \in Sessions, Forgets(s) PROVE DeltaKnown'
    <2>1. delta' = [delta EXCEPT ![Forgetter] = 0 - held[s]] /\ at' = [at EXCEPT ![Forgetter] = "release"]
      BY <1>7 DEF Forgets, Change, Goes
    <2>2. 0 - held[s] \in Int
      BY <1>1, LogBudgetAssumption
    <2> QED BY <1>2, <1>4, <2>1, <2>2 DEF Busy
  <1>8. ASSUME NEW s \in Sessions, Accounted(s) PROVE DeltaKnown'
    BY <1>2, <1>4, <1>8 DEF Accounted, Accounts, Goes
  <1>9. ASSUME NEW s \in Sessions, Settles(s) PROVE DeltaKnown'
    BY <1>2, <1>4, <1>9 DEF Settles, Accounts, Goes
  <1>10. ASSUME Released PROVE DeltaKnown'
    BY <1>2, <1>4, <1>10 DEF Released, Accounts, Goes
  <1>11. ASSUME NEW s \in Sessions, Checks(s) PROVE DeltaKnown'
    BY <1>2, <1>4, <1>11 DEF Checks, Goes, Busy
  <1>12. ASSUME NEW s \in Sessions, Tries(s) PROVE DeltaKnown'
    BY <1>2, <1>4, <1>12 DEF Tries, Goes, Busy
  <1>13. ASSUME NEW s \in Sessions, PassBegins(s) PROVE DeltaKnown'
    BY <1>2, <1>4, <1>13 DEF PassBegins, Goes, Busy
  <1>14. ASSUME NEW s \in Sessions, Picks(s) PROVE DeltaKnown'
    BY <1>2, <1>4, <1>14 DEF Picks, Goes, Busy
  <1>15. ASSUME NEW s \in Sessions, Leaves(s) PROVE DeltaKnown'
    BY <1>2, <1>4, <1>15 DEF Leaves, Goes, Busy
  <1>16. CASE UNCHANGED <<at, delta>>
    BY <1>3, <1>16 DEF DeltaKnown
  <1>17. \/ Released \/ UNCHANGED <<at, delta>>
         \/ \E s \in Sessions :
              \/ Prints(s) \/ Cuts(s) \/ Forgets(s) \/ Accounted(s) \/ Settles(s)
              \/ Checks(s) \/ Tries(s) \/ PassBegins(s) \/ Picks(s) \/ Leaves(s)
    BY DEF BudgetNext, Enforces, budgetVars, Ends, Looks
  <1> QED BY <1>5, <1>6, <1>7, <1>8, <1>9, <1>10, <1>11, <1>12, <1>13, <1>14, <1>15, <1>16, <1>17

\* A share is a number of bytes.
LEMMA ShareCounts == Share \in Nat
  <1>1. Cardinality(Sessions) \in Nat /\ Cardinality(Sessions) # 0 /\ Cap \in Nat
    BY LogBudgetAssumption, FS_CardinalityType, FS_EmptySet
  <1>2. \A a, b \in Nat : b # 0 => a \div b \in Nat
    OBVIOUS
  <1> QED BY <1>1, <1>2 DEF Share

\* If the total is over the cap, a log is over its share.
LEMMA OneIsOver ==
  ASSUME BudgetInv, total > Cap, at[Forgetter] = "read",
         \A t \in Sessions : at[t] # "settle"
  PROVE  \E s \in Sessions : held[s] > Share
  <1>1. /\ Counted \in Columns /\ total = Cardinality(Bytes(Counted)) /\ total \in Nat /\ Cap \in Nat
        /\ held \in [Sessions -> 0..LogCap] /\ delta \in [Threads -> Int] /\ LogCap \in Nat
        /\ holder \in [Sessions -> Threads \cup {Nobody}] /\ LocksRight /\ DeltaKnown
    BY LogBudgetAssumption DEF BudgetInv, BudgetTyped, BudgetTypeOK, TotalExact, Columns
  <1>2. PICK s \in Sessions : ~(Counted[s] <= Share)
    <2>1. ~(Cardinality(Bytes(Counted)) <= Cap)
      BY <1>1
    <2> QED BY <1>1, <2>1, SharesFit, LogBudgetAssumption
  <1>3. Counted[s] <= held[s]
    <2>1. held[s] \in Int /\ held[s] <= held[s] /\ held[s] = held[s] - 0
      BY <1>1
    <2>2. CASE holder[s] = Nobody
      BY <2>1, <2>2 DEF Counted
    <2>3. CASE holder[s] # Nobody
      <3>1. holder[s] \in Sessions /\ at[holder[s]] = "account" /\ holder[s] \in Threads
        BY <1>1, <2>3 DEF LocksRight, Threads
      <3>2. delta[holder[s]] >= 0 /\ delta[holder[s]] \in Int
        BY <1>1, <3>1 DEF DeltaKnown
      <3>3. Counted[s] = held[s] - delta[holder[s]]
        BY <2>3 DEF Counted
      <3> QED BY <2>1, <3>2, <3>3
    <2> QED BY <2>2, <2>3
  <1>4. Counted[s] \in Int /\ held[s] \in Int /\ Share \in Int
    BY <1>1, ShareCounts DEF Columns
  <1>5. held[s] > Share
    BY <1>2, <1>3, <1>4
  <1> QED BY <1>5

\* A quiet session keeps its history.
LEMMA SparedKept ==
  ASSUME BudgetInv, [BudgetNext]_budgetVars
  PROVE  Spared'
  <1> DEFINE Now == at[Forgetter] = "read" /\ QuietKeeps /\ AboutAll /\ FindsOne /\ CutsOne
  <1>1. /\ at \in [Threads -> Locations] /\ held \in [Sessions -> 0..LogCap]
        /\ writes \in [Sessions -> 0..MaxWrites] /\ victim \in Sessions /\ target \in 0..LogCap
        /\ LogCap \in Nat /\ MaxWrites \in Nat /\ Cap \in Nat /\ total \in Nat /\ excess \in Int
        /\ DOMAIN scan \subseteq Sessions /\ scan \in [DOMAIN scan -> 0..LogCap]
        /\ EnforcerKnown /\ LocksRight /\ enrolled \subseteq Sessions
    BY LogBudgetAssumption DEF BudgetInv, BudgetTyped, BudgetTypeOK, Locations
  <1>2. /\ Sessions \subseteq Threads /\ Forgetter \in Threads /\ Forgetter \notin Sessions
        /\ Nobody \notin Sessions
    BY LogBudgetAssumption DEF Threads
  <1>3. SUFFICES ASSUME enrolled' = Sessions, ~whole' PROVE Now'
    BY DEF Spared
  <1>4. whole' = whole /\ ~whole /\ enrolled = Sessions
    BY <1>1, <1>3 DEF BudgetNext, Enforces, budgetVars, log, locals, Prints, Accounted, Checks, Tries, PassBegins,
       Looks, Picks, Cuts, Settles, Leaves, Ends, Forgets, Released
  <1>5. at[Forgetter] = "read" /\ QuietKeeps /\ AboutAll /\ FindsOne /\ CutsOne
    BY <1>4 DEF BudgetInv, Spared
  <1>6. Share \in Nat
    BY ShareCounts
  <1>7. \A s \in Sessions : held[s] \in Nat /\ writes[s] \in Nat /\ held[s] <= writes[s]
    <2>1. \A s \in Sessions : held[s] \in 0..LogCap /\ writes[s] \in 0..MaxWrites
      BY <1>1
    <2> QED BY <1>1, <2>1 DEF BudgetInv, BudgetTyped
  \* A thread goes on, and what the pass knows stays
  <1>8. ASSUME NEW s \in Sessions, NEW to, at' = [at EXCEPT ![s] = to], held' = held, writes' = writes,
               UNCHANGED <<left, scan, victim, target>>,
               to \notin {"scan", "cut"},
               to \in {"pass", "settle"} => at[s] \in {"pass", "scan", "cut", "settle"}
        PROVE  Now'
    <2>1. \A u \in Threads : at'[u] = IF u = s THEN to ELSE at[u]
      BY <1>1, <1>8
    <2>2. at'[Forgetter] = "read" /\ QuietKeeps'
      BY <1>2, <1>3, <1>4, <1>5, <1>8, <2>1 DEF QuietKeeps
    <2>3. AboutAll'
      BY <1>2, <1>5, <1>8, <2>1 DEF AboutAll
    <2>4. FindsOne' /\ CutsOne'
      BY <1>2, <1>5, <1>8, <2>1 DEF FindsOne, CutsOne
    <2> QED BY <2>2, <2>3, <2>4
  <1>9. ASSUME NEW s \in Sessions, Prints(s) PROVE Now'
    <2> DEFINE size == IF held[s] < LogCap THEN held[s] + 1 ELSE LogCap
    <2>1. held' = [held EXCEPT ![s] = size] /\ writes' = [writes EXCEPT ![s] = @ + 1]
      BY <1>9 DEF Prints, Change
    <2>2. size >= held[s] /\ size \in Nat /\ (held[s] = writes[s] /\ writes[s] + 1 <= LogCap => size = writes[s] + 1)
      <3>1. held[s] \in 0..LogCap /\ writes[s] \in Nat
        BY <1>1, <1>7
      <3> QED BY <1>1, <3>1
    <2> HIDE DEF size
    <2>3. \A r \in Sessions : held'[r] = (IF r = s THEN size ELSE held[r])
                              /\ writes'[r] = (IF r = s THEN writes[r] + 1 ELSE writes[r])
      BY <1>1, <2>1
    <2>4. \A u \in Threads : at'[u] = IF u = s THEN "account" ELSE at[u]
      BY <1>1, <1>9 DEF Prints, Goes
    <2>5. UNCHANGED <<left, scan, victim, target>>
      BY <1>9 DEF Prints, locals
    <2>6. \A r \in Sessions : held'[r] >= held[r] /\ held'[r] \in Nat /\ writes'[r] \in Nat /\ writes'[r] >= writes[r]
      BY <1>7, <2>2, <2>3
    <2>7. QuietKeeps'
      <3> SUFFICES ASSUME NEW r \in Sessions, writes'[r] <= Share, writes'[r] <= LogCap
                   PROVE  held'[r] = writes'[r]
        BY <1>3, <1>6 DEF QuietKeeps, Share
      <3>1. writes[r] <= Share /\ writes[r] <= LogCap
        BY <1>1, <1>6, <1>7, <2>3
      <3>2. held[r] = writes[r]
        BY <1>4, <1>5, <3>1 DEF QuietKeeps
      <3> QED BY <1>7, <2>2, <2>3, <3>2
    <2>8. at'[Forgetter] = "read" /\ AboutAll'
      BY <1>2, <1>5, <2>4, <2>5 DEF AboutAll
    <2>9. FindsOne'
      <3> SUFFICES ASSUME NEW t \in Sessions, at'[t] = "scan"
                   PROVE  /\ \A x \in DOMAIN scan : scan[x] <= held'[x]
                          /\ \E r \in Sessions : held'[r] > Share /\ (r \in DOMAIN scan => scan[r] > Share)
        BY <2>5 DEF FindsOne, Share
      <3>1. at[t] = "scan"
        BY <1>2, <2>4
      <3>2. \A x \in DOMAIN scan : scan[x] <= held'[x]
        <4>1. \A x \in DOMAIN scan : x \in Sessions /\ scan[x] \in 0..LogCap /\ scan[x] <= held[x]
          BY <1>1, <1>5, <3>1 DEF FindsOne
        <4> QED BY <1>1, <1>7, <2>6, <4>1
      <3>3. PICK r \in Sessions : held[r] > Share /\ (r \in DOMAIN scan => scan[r] > Share)
        BY <1>5, <3>1 DEF FindsOne
      <3>4. held'[r] > Share
        BY <1>6, <1>7, <2>6, <3>3
      <3> QED BY <3>2, <3>3, <3>4
    <2>10. CutsOne'
      <3> SUFFICES ASSUME NEW t \in Sessions, at'[t] = "cut"
                   PROVE  target < held'[victim] /\ writes'[victim] > Share
        BY <2>5 DEF CutsOne, Share
      <3>1. target < held[victim] /\ writes[victim] > Share
        BY <1>2, <1>5, <2>4 DEF CutsOne
      <3> QED BY <1>1, <1>6, <1>7, <2>6, <3>1
    <2> QED BY <2>7, <2>8, <2>9, <2>10
  <1>10. ASSUME NEW s \in Sessions, Cuts(s) PROVE Now'
    <2>1. at[s] = "cut" /\ target < held[victim] /\ writes[victim] > Share /\ left = Sessions
      BY <1>5, <1>10 DEF Cuts, CutsOne, AboutAll
    <2>2. held' = [held EXCEPT ![victim] = target] /\ left' = left /\ UNCHANGED <<scan, victim, target, writes>>
      BY <1>1, <1>4, <1>7, <1>10, <2>1 DEF Cuts, CutTo, Change
    <2>3. \A u \in Threads : at'[u] = IF u = s THEN "settle" ELSE at[u]
      BY <1>1, <1>10 DEF Cuts, Goes
    <2>4. \A u \in Sessions : at[u] \in Enforcing => u = s
      BY <1>1, <2>1 DEF EnforcerKnown, Enforcing
    <2>5. QuietKeeps'
      <3> SUFFICES ASSUME NEW r \in Sessions, writes[r] <= Share, writes[r] <= LogCap
                   PROVE  held'[r] = writes[r]
        BY <1>3, <2>2 DEF QuietKeeps, Share
      <3>1. r # victim
        BY <1>6, <1>7, <2>1
      <3> QED BY <1>1, <1>4, <1>5, <2>2, <3>1 DEF QuietKeeps
    <2>6. at'[Forgetter] = "read" /\ AboutAll'
      BY <1>2, <1>5, <2>1, <2>2, <2>3 DEF AboutAll
    <2>7. FindsOne' /\ CutsOne'
      BY <1>2, <2>3, <2>4 DEF FindsOne, CutsOne, Enforcing
    <2> QED BY <2>5, <2>6, <2>7
  <1>11. ASSUME NEW s \in Sessions, Tries(s) PROVE Now'
    <2>1. CASE members = Nobody
      <3>1. \A u \in Sessions : at[u] \notin Enforcing
        BY <1>1, <1>2, <2>1 DEF EnforcerKnown
      <3>2. \A u \in Threads : at'[u] = IF u = s THEN "pass" ELSE at[u]
        BY <1>1, <1>11, <2>1 DEF Tries, Goes
      <3>3. left' = Sessions /\ held' = held /\ writes' = writes
        BY <1>4, <1>11, <2>1 DEF Tries, log
      <3>4. at'[Forgetter] = "read" /\ QuietKeeps'
        BY <1>2, <1>3, <1>4, <1>5, <3>2, <3>3 DEF QuietKeeps
      <3>5. AboutAll'
        BY <3>3 DEF AboutAll
      <3>6. FindsOne' /\ CutsOne'
        BY <1>2, <3>1, <3>2 DEF FindsOne, CutsOne, Enforcing
      <3> QED BY <3>4, <3>5, <3>6
    <2>2. CASE members # Nobody
      BY <1>8, <1>11, <2>2 DEF Tries, Goes, log
    <2> QED BY <2>1, <2>2
  <1>12. ASSUME NEW s \in Sessions, PassBegins(s) PROVE Now'
    <2>1. /\ at[s] = "pass" /\ scan' = [x \in {} |-> 0] /\ held' = held /\ writes' = writes /\ left' = left
          /\ \A u \in Threads : at'[u] = IF u = s THEN (IF Enough THEN "leave" ELSE "scan") ELSE at[u]
      BY <1>1, <1>12 DEF PassBegins, Goes, log
    <2>2. \A u \in Sessions : at[u] \in Enforcing => u = s
      BY <1>1, <2>1 DEF EnforcerKnown, Enforcing
    <2>3. at'[Forgetter] = "read" /\ QuietKeeps'
      BY <1>2, <1>3, <1>4, <1>5, <2>1 DEF QuietKeeps
    <2>4. AboutAll'
      BY <1>2, <1>5, <2>1, <2>2 DEF AboutAll, Enforcing
    <2>5. CutsOne'
      BY <1>2, <2>1, <2>2 DEF CutsOne, Enforcing
    <2>6. FindsOne'
      <3>1. CASE Enough
        BY <1>2, <2>1, <2>2, <3>1 DEF FindsOne, Enforcing
      <3>2. CASE ~Enough
        <4>1. total > Cap
          BY <1>1, <3>2 DEF Enough
        <4>2. \A u \in Sessions : at[u] # "settle"
          BY <2>1, <2>2 DEF Enforcing
        <4>3. PICK r \in Sessions : held[r] > Share
          BY <1>5, <4>1, <4>2, OneIsOver
        <4>4. DOMAIN scan' = {}
          BY <2>1
        <4>5. /\ \A x \in DOMAIN scan' : scan'[x] <= held'[x]
              /\ held'[r] > Share /\ (r \in DOMAIN scan' => scan'[r] > Share)
          BY <2>1, <4>3, <4>4
        <4> QED BY <4>5 DEF FindsOne, Share
      <3> QED BY <3>1, <3>2
    <2> QED BY <2>3, <2>4, <2>5, <2>6
  <1>13. ASSUME NEW s \in Sessions, Looks(s) PROVE Now'
    <2>1. at[s] = "scan" /\ UNCHANGED <<at, held, writes, left, victim, target>>
      BY <1>13 DEF Looks, log
    <2>2. PICK x \in left \ DOMAIN scan :
            scan' = [y \in DOMAIN scan \cup {x} |-> IF y = x THEN held[x] ELSE scan[y]]
      BY <1>13 DEF Looks
    <2>3. left = Sessions
      BY <1>5, <2>1 DEF AboutAll
    <2>4. PICK r \in Sessions : held[r] > Share /\ (r \in DOMAIN scan => scan[r] > Share)
      BY <1>5, <2>1 DEF FindsOne
    <2>5. \A y \in DOMAIN scan : scan[y] <= held[y]
      BY <1>5, <2>1 DEF FindsOne
    <2>6. DOMAIN scan' = DOMAIN scan \cup {x}
      BY <2>2
    <2>7. \A y \in DOMAIN scan' : scan'[y] <= held[y]
      <3>1. held[x] <= held[x]
        BY <1>7, <2>3
      <3> QED BY <2>2, <2>5, <2>6, <3>1
    <2>8. r \in DOMAIN scan' => scan'[r] > Share
      BY <2>2, <2>4, <2>6
    <2>9. FindsOne'
      BY <2>1, <2>4, <2>7, <2>8 DEF FindsOne, Share
    <2>10. at'[Forgetter] = "read" /\ QuietKeeps' /\ AboutAll' /\ CutsOne'
      BY <1>3, <1>4, <1>5, <2>1 DEF QuietKeeps, AboutAll, CutsOne, Share
    <2> QED BY <2>9, <2>10
  <1>14. ASSUME NEW s \in Sessions, Picks(s) PROVE Now'
    <2>1. at[s] = "scan" /\ DOMAIN scan = left /\ left = Sessions /\ excess >= 1
      BY <1>1, <1>5, <1>14 DEF Picks, AboutAll, EnforcerKnown
    <2>2. CASE at' = [at EXCEPT ![s] = "leave"] /\ UNCHANGED <<victim, target>>
      <3>1. UNCHANGED <<held, writes, left, scan>>
        BY <1>14 DEF Picks, log
      <3> QED BY <1>8, <2>2, <3>1
    <2>3. ASSUME NEW x \in left, Largest(x), scan[x] > 0, victim' = x, target' = Target(scan[x]),
                 at' = [at EXCEPT ![s] = "cut"]
          PROVE  Now'
      <3>1. PICK r \in Sessions : held[r] > Share /\ scan[r] > Share
        BY <1>5, <2>1 DEF FindsOne
      <3>2. scan[r] \in 0..LogCap /\ scan[x] \in 0..LogCap /\ scan[r] <= scan[x] /\ scan[x] <= held[x]
        BY <1>1, <1>5, <2>1, <2>3 DEF FindsOne, Largest
      <3>3. Target(scan[x]) < scan[x] /\ Target(scan[x]) \in 0..LogCap
        BY <1>1, <2>1, <2>3, <3>2, TargetBelow
      <3>4. held[x] \in Nat /\ writes[x] \in Nat /\ held[x] <= writes[x]
        BY <1>7, <2>1
      <3>5. Target(scan[x]) < held[x] /\ writes[x] > Share
        BY <1>1, <1>6, <3>1, <3>2, <3>3, <3>4
      <3>6. UNCHANGED <<held, writes, left, scan>> /\ \A u \in Threads : at'[u] = IF u = s THEN "cut" ELSE at[u]
        BY <1>1, <1>14, <2>3 DEF Picks, log
      <3>7. \A u \in Sessions : at[u] \in Enforcing => u = s
        BY <1>1, <2>1 DEF EnforcerKnown, Enforcing
      <3>8. CutsOne'
        BY <2>3, <3>5, <3>6 DEF CutsOne, Share
      <3>9. at'[Forgetter] = "read" /\ QuietKeeps'
        BY <1>2, <1>3, <1>4, <1>5, <3>6 DEF QuietKeeps
      <3>10. AboutAll'
        BY <2>1, <3>6 DEF AboutAll
      <3>11. FindsOne'
        BY <1>2, <3>6, <3>7 DEF FindsOne, Enforcing
      <3> QED BY <3>8, <3>9, <3>10, <3>11
    <2> QED BY <1>14, <2>2, <2>3 DEF Picks, Goes
  <1>15. ASSUME NEW s \in Sessions, Accounted(s) \/ Checks(s) \/ Settles(s) \/ Leaves(s) PROVE Now'
    <2>1. CASE Accounted(s)
      BY <1>8, <2>1 DEF Accounted, Goes, locals
    <2>2. CASE Checks(s)
      BY ZenonT(40), <1>8, <2>2 DEF Checks, Goes, log, locals
    <2>3. CASE Settles(s)
      BY <1>8, <2>3 DEF Settles, Goes, locals
    <2>4. CASE Leaves(s)
      BY <1>8, <2>4 DEF Leaves, Goes, log, locals
    <2> QED BY <1>15, <2>1, <2>2, <2>3, <2>4
  <1>16. ASSUME NEW s \in Sessions, Forgets(s) PROVE FALSE
    BY <1>3, <1>16 DEF Forgets
  <1>17. ASSUME Released PROVE FALSE
    BY <1>5, <1>17 DEF Released
  <1>18. CASE UNCHANGED <<at, held, writes, left, scan, victim, target>>
    BY <1>3, <1>4, <1>5, <1>18 DEF QuietKeeps, AboutAll, FindsOne, CutsOne, Share
  <1>19. \/ Released \/ UNCHANGED <<at, held, writes, left, scan, victim, target>>
         \/ \E s \in Sessions :
              \/ Prints(s) \/ Cuts(s) \/ Forgets(s) \/ Accounted(s) \/ Settles(s)
              \/ Checks(s) \/ Tries(s) \/ PassBegins(s) \/ Looks(s) \/ Picks(s) \/ Leaves(s)
    BY DEF BudgetNext, Enforces, budgetVars, log, locals, Ends
  <1> QED BY <1>9, <1>10, <1>11, <1>12, <1>13, <1>14, <1>15, <1>16, <1>17, <1>18, <1>19

\* The budget of all logs: its total, its locks, its enforcer and who it spares.
THEOREM BudgetInvariant == BudgetSpec => []BudgetInv
  <1>1. BudgetInit => BudgetInv
    BY BudgetStarts
  <1>2. BudgetInv /\ [BudgetNext]_budgetVars => BudgetInv'
    <2> SUFFICES ASSUME BudgetInv, [BudgetNext]_budgetVars PROVE BudgetInv'
      OBVIOUS
    <2>1. BudgetTyped'
      BY BudgetTypesKept
    <2>2. Counted' \in [Sessions -> 0..LogCap] /\ total' = Cardinality(Bytes(Counted'))
      BY CountsKept
    <2>3. BudgetTypeOK'
      BY <2>1 DEF BudgetTyped
    <2>4. TotalExact'
      BY <2>2, <2>3 DEF TotalExact, Bytes
    <2> QED BY <2>1, <2>4, LocksKept, EnforcersKept, DeltasKept, SparedKept DEF BudgetInv
  <1> QED BY <1>1, <1>2, PTL DEF BudgetSpec

\* The total is exact, and as long as no log is forgotten or cannot be cut a
\* session that printed no more than its share keeps all of it.
THEOREM FairlyCountedAlways == BudgetSpec => []FairlyCounted
  <1>1. BudgetInv => FairlyCounted
    BY DEF BudgetInv, FairlyCounted, Spared, QuietSpared
  <1> QED BY <1>1, BudgetInvariant, PTL
=============================================================================
