--------------------------- MODULE HostStreamProofs ---------------------------
(***************************************************************************)
(* Proofs of what must hold of every stream of a session, for any number   *)
(* of clients, any log and sockets of any size.                            *)
(*                                                                         *)
(* What a client is fed next says nothing of what it will be fed after, so *)
(* the properties are not inductive.  The invariant is about all that a    *)
(* connection has yet to hand to its client: what lies in the socket, what *)
(* its own thread is about to write and what the stream's thread is.  Read *)
(* one after the other these frames lead the client from where it stands   *)
(* to where the stream's thread will read the log next.                    *)
(***************************************************************************)
EXTENDS HostStreamProperties, FiniteSetTheorems, SequenceTheorems, TLAPS

View == [on: BOOLEAN, asked: BOOLEAN, at: Nat, modes: Modes \cup {NoModes},
         size: Sizes \cup {FirstSize}]

Asking(f) == f.kind \in {"attached", "refused"}
Ending(f) == f.kind \in {"exited", "detached"}
Feeding(f) == f.kind \in {"item", "gap", "preamble", "exited"}

(***************************************************************************)
(* Where frames lead a client.                                             *)
(***************************************************************************)
StateAt(w, p) == IF p = 0 THEN Origin ELSE w[p]

\* See, for a history w
After(w, v, f) ==
    IF f.kind = "attached" THEN Opened(v, f)
    ELSE IF f.kind = "refused" THEN [v EXCEPT !.asked = FALSE]
    ELSE IF ~v.on THEN v
    ELSE IF f.kind = "preamble" THEN [v EXCEPT !.modes = f.modes]
    ELSE IF f.kind = "item"
      THEN [v EXCEPT !.at = f.seq + 1, !.modes = w[f.seq + 1].modes, !.size = w[f.seq + 1].size]
    ELSE IF f.kind = "gap" THEN [v EXCEPT !.at = f.to, !.modes = NoModes]
    ELSE [v EXCEPT !.on = FALSE]

\* The client stands somewhere in the log, and if its emulator is in the modes
\* of a place it is in the modes of that one.
Known(w, v) ==
    v.at \in 0..Len(w) /\ (v.modes # NoModes => v.modes = StateAt(w, v.at).modes)

\* What frame f must be for a client that has made v of the stream so far
Fits(w, v, f) ==
    /\ Known(w, v)
    /\ f.kind = "attached" =>
          /\ f.seq \in 0..Len(w)
          /\ ~f.gap => IF f.from = 0 THEN f.seq = 0 ELSE f.seq = v.at /\ v.modes # NoModes
    /\ v.on =>
          /\ f.kind = "item" =>
                f.seq = v.at /\ f.seq < Len(w) /\ v.modes = StateAt(w, v.at).modes
          /\ f.kind = "gap" => f.seq = v.at /\ f.to > v.at /\ f.to <= Len(w)
          /\ f.kind = "exited" => v.at = Len(w)
          /\ f.kind = "preamble" => f.modes = StateAt(w, v.at).modes

\* The frames fr, each as it must be, lead from u to v
Leads(w, u, fr, v) ==
    /\ Known(w, v)
    /\ \E r \in Seq(View) :
          /\ Len(r) = Len(fr) + 1 /\ r[1] = u /\ r[Len(fr) + 1] = v
          /\ \A i \in 1..Len(fr) : Fits(w, r[i], fr[i]) /\ r[i + 1] = After(w, r[i], fr[i])

\* Whoever listens stands at p, in the modes of p
Stands(w, v, p) ==
    p \in 0..Len(w) /\ (v.on => v.at = p /\ v.modes = StateAt(w, p).modes)

Continues(w2, w) ==
    /\ w2 \in Seq(Past) /\ Len(w) <= Len(w2)
    /\ \A p \in 1..Len(w) : w2[p] = w[p]

\* The fields a frame has, by its kind.
LEMMA FrameFields ==
    ASSUME NEW f \in Frame
    PROVE  /\ f.kind \in {"attached", "preamble", "item", "gap", "exited", "detached", "refused"}
           /\ f.kind = "attached" =>
                 /\ f.from \in Nat /\ f.seq \in Nat /\ f.gap \in BOOLEAN
                 /\ f.size \in Sizes \cup {FirstSize}
           /\ f.kind = "preamble" => f.modes \in Modes
           /\ f.kind = "item" => f.seq \in Nat
           /\ f.kind = "gap" => f.seq \in Nat /\ f.to \in Nat
  BY DEF Frame

\* What is known of a position is a state of the terminal.
LEMMA StateType ==
    ASSUME NEW w \in Seq(Past), NEW p \in 0..Len(w)
    PROVE  StateAt(w, p) \in Past
  <1>1. Origin \in Past
    BY DEF Origin, Past, Modes
  <1>2. p # 0 => p \in 1..Len(w)
    OBVIOUS
  <1> QED BY <1>1, <1>2 DEF StateAt

\* The client's own code, and After.
LEMMA SeeIsAfter ==
    ASSUME NEW v, NEW f \in Frame
    PROVE  See(v, f) = After(written, v, f)
  BY FrameFields DEF See, Fed, After

\* A frame that fits leaves a client that is as sound as it was.
LEMMA AfterKnown ==
    ASSUME NEW w \in Seq(Past), NEW v \in View, NEW f \in Frame, Fits(w, v, f)
    PROVE  After(w, v, f) \in View /\ Known(w, After(w, v, f))
  <1> DEFINE a == After(w, v, f)
  <1>1. /\ v.at \in 0..Len(w) /\ v.on \in BOOLEAN /\ v.asked \in BOOLEAN
        /\ v.modes \in Modes \cup {NoModes} /\ v.size \in Sizes \cup {FirstSize}
    BY DEF View, Fits, Known
  <1>2. StateAt(w, v.at) \in Past /\ FirstModes \in Modes /\ StateAt(w, 0).modes = FirstModes
    BY <1>1, StateType DEF Modes, StateAt, Origin
  <1>3. CASE f.kind = "attached"
    <2>1. a = Opened(v, f)
      BY <1>3 DEF After
    <2>2. /\ f.from \in Nat /\ f.seq \in Nat /\ f.gap \in BOOLEAN /\ f.seq \in 0..Len(w)
          /\ f.size \in Sizes \cup {FirstSize}
      BY <1>3, FrameFields DEF Fits
    <2>3. a \in View /\ a.at = f.seq
      BY <2>1, <2>2, <1>1, <1>2 DEF Opened, View
    <2>4. a.modes = IF f.gap THEN NoModes ELSE IF f.from = 0 THEN FirstModes ELSE v.modes
      BY <2>1 DEF Opened
    <2>5. a.modes # NoModes => a.modes = StateAt(w, a.at).modes
      BY <2>2, <2>3, <2>4, <1>2, <1>3 DEF Fits, Known
    <2> QED BY <2>2, <2>3, <2>5 DEF Known
  <1>4. CASE f.kind = "refused"
    <2>1. a = [v EXCEPT !.asked = FALSE]
      BY <1>4 DEF After
    <2> QED BY <2>1 DEF Known, Fits, View
  <1>5. CASE f.kind \notin {"attached", "refused"} /\ ~v.on
    BY <1>5 DEF After, Fits
  <1>6. CASE f.kind = "preamble" /\ v.on
    <2>1. a = [v EXCEPT !.modes = f.modes] /\ f.modes \in Modes
      BY <1>6, FrameFields DEF After
    <2>2. a \in View /\ a.at = v.at /\ a.modes = f.modes
      BY <2>1 DEF View
    <2> QED BY <2>2, <1>1, <1>6 DEF Known, Fits
  <1>7. CASE f.kind = "item" /\ v.on
    <2>1. /\ a = [v EXCEPT !.at = f.seq + 1, !.modes = w[f.seq + 1].modes,
                           !.size = w[f.seq + 1].size]
          /\ f.seq \in Nat /\ f.seq < Len(w)
      BY <1>7, FrameFields DEF After, Fits
    <2>2. f.seq + 1 \in 1..Len(w)
      BY <2>1
    <2>3. w[f.seq + 1] \in Past
      BY <2>2
    <2>4. w[f.seq + 1].modes \in Modes /\ w[f.seq + 1].size \in Sizes \cup {FirstSize}
      BY <2>3 DEF Past
    <2>5. a \in View /\ a.at = f.seq + 1 /\ a.modes = w[f.seq + 1].modes
      <3>1. f.seq + 1 \in Nat
        BY <2>1
      <3> QED BY <2>1, <2>4, <3>1 DEF View
    <2>6. StateAt(w, f.seq + 1) = w[f.seq + 1]
      BY <2>2 DEF StateAt
    <2> QED BY <2>2, <2>5, <2>6 DEF Known
  <1>8. CASE f.kind = "gap" /\ v.on
    <2>1. /\ a = [v EXCEPT !.at = f.to, !.modes = NoModes]
          /\ f.to \in Nat /\ f.to <= Len(w)
      BY <1>8, FrameFields DEF After, Fits
    <2>2. a \in View /\ a.at = f.to /\ a.modes = NoModes
      BY <2>1 DEF View
    <2> QED BY <2>1, <2>2 DEF Known
  <1>9. CASE f.kind \in {"exited", "detached"} /\ v.on
    <2>1. a = [v EXCEPT !.on = FALSE]
      BY <1>9 DEF After
    <2> QED BY <2>1 DEF Known, Fits, View
  <1> QED BY <1>1, <1>3, <1>4, <1>5, <1>6, <1>7, <1>8, <1>9, FrameFields

\* No frames lead nowhere.
LEMMA LeadsNothing ==
    ASSUME NEW w, NEW u \in View, Known(w, u)
    PROVE  Leads(w, u, <<>>, u)
  <1> DEFINE r == <<u>>
  <1>1. r \in Seq(View) /\ Len(r) = 1 /\ r[1] = u /\ Len(<<>>) = 0
    OBVIOUS
  <1> HIDE DEF r
  <1> QED BY <1>1 DEF Leads

\* One frame that fits leads to what the client makes of it.
LEMMA LeadsOne ==
    ASSUME NEW w \in Seq(Past), NEW u \in View, NEW f \in Frame, Fits(w, u, f)
    PROVE  After(w, u, f) \in View /\ Leads(w, u, <<f>>, After(w, u, f))
  <1> DEFINE r == <<u, After(w, u, f)>>
  <1>0. After(w, u, f) \in View /\ Known(w, After(w, u, f))
    BY AfterKnown
  <1>1. r \in Seq(View) /\ Len(r) = 2 /\ r[1] = u /\ r[2] = After(w, u, f)
    BY <1>0
  <1>2. Len(<<f>>) = 1 /\ <<f>>[1] = f
    OBVIOUS
  <1> HIDE DEF r
  <1>3. \A i \in 1..1 : i = 1
    OBVIOUS
  <1> QED BY <1>0, <1>1, <1>2, <1>3 DEF Leads

\* Frames that lead from u to v and on from v to x lead from u to x.
LEMMA LeadsOn ==
    ASSUME NEW w, NEW u, NEW v, NEW x, NEW a \in Seq(Frame), NEW b \in Seq(Frame),
           Leads(w, u, a, v), Leads(w, v, b, x)
    PROVE  Leads(w, u, a \o b, x)
  <1>1. PICK r \in Seq(View) :
           /\ Len(r) = Len(a) + 1 /\ r[1] = u /\ r[Len(a) + 1] = v
           /\ \A i \in 1..Len(a) : Fits(w, r[i], a[i]) /\ r[i + 1] = After(w, r[i], a[i])
    BY DEF Leads
  <1>2. PICK q \in Seq(View) :
           /\ Len(q) = Len(b) + 1 /\ q[1] = v /\ q[Len(b) + 1] = x
           /\ \A i \in 1..Len(b) : Fits(w, q[i], b[i]) /\ q[i + 1] = After(w, q[i], b[i])
    BY DEF Leads
  <1> DEFINE m == Len(a)
             n == Len(b)
             s == [i \in 1..(m + n + 1) |-> IF i <= m + 1 THEN r[i] ELSE q[i - m]]
  <1>3. m \in Nat /\ n \in Nat
    OBVIOUS
  <1>4. /\ Len(a \o b) = m + n
        /\ \A i \in 1..(m + n) : (a \o b)[i] = IF i <= m THEN a[i] ELSE b[i - m]
    BY ConcatProperties
  <1>5. \A i \in 1..(m + 1) : r[i] \in View
    BY <1>1
  <1>6. \A i \in 1..(n + 1) : q[i] \in View
    BY <1>2
  <1> HIDE DEF m, n
  <1>7. \A i \in 1..(m + n + 1) : (IF i <= m + 1 THEN r[i] ELSE q[i - m]) \in View
    BY <1>3, <1>5, <1>6
  <1>8. s \in Seq(View) /\ Len(s) = m + n + 1
    BY <1>3, <1>7
  <1>9. /\ \A i \in 1..(m + 1) : s[i] = r[i]
        /\ \A i \in (m + 1)..(m + n + 1) : s[i] = q[i - m]
    BY <1>1, <1>2, <1>3 DEF m, n
  <1> HIDE DEF s
  <1>10. s[1] = u /\ s[m + n + 1] = x
    <2>1. 1 \in 1..(m + 1) /\ m + n + 1 \in (m + 1)..(m + n + 1) /\ (m + n + 1) - m = n + 1
      BY <1>3
    <2> QED BY <2>1, <1>1, <1>2, <1>9 DEF n
  <1>11. ASSUME NEW i \in 1..(m + n)
         PROVE  Fits(w, s[i], (a \o b)[i]) /\ s[i + 1] = After(w, s[i], (a \o b)[i])
    <2>1. CASE i <= m
      <3>1. i \in 1..m /\ i \in 1..(m + 1) /\ i + 1 \in 1..(m + 1)
        BY <2>1, <1>3
      <3> QED BY <3>1, <2>1, <1>1, <1>4, <1>9 DEF m
    <2>2. CASE ~(i <= m)
      <3>1. /\ i - m \in 1..n /\ (i + 1) - m = (i - m) + 1 /\ ~(i <= m)
            /\ i \in (m + 1)..(m + n + 1) /\ i + 1 \in (m + 1)..(m + n + 1)
        BY <2>2, <1>3
      <3> QED BY <3>1, <1>2, <1>4, <1>9 DEF n
    <2> QED BY <2>1, <2>2
  <1> QED BY <1>4, <1>8, <1>10, <1>11 DEF Leads

\* What is fed first fits, and the rest leads on from what is made of it.
LEMMA LeadsFirst ==
    ASSUME NEW w, NEW u, NEW v, NEW a \in Seq(Frame), a # <<>>, Leads(w, u, a, v)
    PROVE  /\ Fits(w, u, Head(a))
           /\ Leads(w, After(w, u, Head(a)), Tail(a), v)
  <1>1. PICK r \in Seq(View) :
           /\ Len(r) = Len(a) + 1 /\ r[1] = u /\ r[Len(a) + 1] = v
           /\ \A i \in 1..Len(a) : Fits(w, r[i], a[i]) /\ r[i + 1] = After(w, r[i], a[i])
    BY DEF Leads
  <1> DEFINE n == Len(a)
             s == Tail(r)
             b == Tail(a)
  <1>2. n \in Nat /\ n >= 1 /\ Head(a) = a[1]
    OBVIOUS
  <1>3. Len(b) = n - 1 /\ \A i \in 1..(n - 1) : b[i] = a[i + 1]
    BY HeadTailProperties
  <1>4. /\ s \in Seq(View) /\ Len(s) = n /\ \A i \in 1..n : s[i] = r[i + 1]
    <2>1. r # <<>>
      BY <1>1, <1>2
    <2> QED BY <1>1, <2>1, HeadTailProperties
  <1> HIDE DEF n, s, b
  <1>5. Fits(w, u, Head(a)) /\ s[1] = After(w, u, Head(a))
    <2>1. 1 \in 1..n
      BY <1>2
    <2> QED BY <2>1, <1>1, <1>2, <1>4 DEF n
  <1>6. s[(n - 1) + 1] = v
    BY <1>1, <1>2, <1>4 DEF n
  <1>7. ASSUME NEW i \in 1..(n - 1)
        PROVE  Fits(w, s[i], b[i]) /\ s[i + 1] = After(w, s[i], b[i])
    <2>1. i \in 1..n /\ i + 1 \in 1..n
      BY <1>2
    <2> QED BY <2>1, <1>1, <1>3, <1>4 DEF n
  <1>8. Len(s) = Len(b) + 1
    BY <1>2, <1>3, <1>4
  <1>9. Leads(w, s[1], b, v)
    BY <1>3, <1>4, <1>6, <1>7, <1>8 DEF Leads
  <1> QED BY <1>5, <1>9 DEF b

\* A client that does not listen, and is not told that it does, stays as it is.
LEMMA LeadsQuiet ==
    ASSUME NEW w, NEW u \in View, NEW a \in Seq(Frame), Known(w, u), ~u.on,
           \A i \in 1..Len(a) : ~Asking(a[i])
    PROVE  Leads(w, u, a, u)
  <1> DEFINE r == [i \in 1..(Len(a) + 1) |-> u]
  <1>1. Len(a) \in Nat
    OBVIOUS
  <1>2. r \in Seq(View) /\ Len(r) = Len(a) + 1 /\ \A i \in 1..(Len(a) + 1) : r[i] = u
    BY <1>1
  <1>3. ASSUME NEW i \in 1..Len(a)
        PROVE  Fits(w, u, a[i]) /\ u = After(w, u, a[i])
    BY <1>3 DEF Fits, After, Asking
  <1> HIDE DEF r
  <1>4. 1 \in 1..(Len(a) + 1) /\ Len(a) + 1 \in 1..(Len(a) + 1)
    BY <1>1
  <1>5. \A i \in 1..Len(a) : i \in 1..(Len(a) + 1) /\ i + 1 \in 1..(Len(a) + 1)
    BY <1>1
  <1> QED BY <1>2, <1>3, <1>4, <1>5 DEF Leads

\* A piece of the log leads whoever listens from its start to its end.
LEMMA LeadsItems ==
    ASSUME NEW w \in Seq(Past), NEW u \in View, Known(w, u),
           NEW from \in Nat, NEW to \in Nat, from <= to, to <= Len(w), Stands(w, u, from)
    PROVE  \E v \in View : Leads(w, u, Items(from, to), v) /\ Stands(w, v, to)
  <1> DEFINE n == to - from
             a == Items(from, to)
             at(i) == [u EXCEPT !.at = from + i, !.modes = w[from + i].modes,
                                !.size = w[from + i].size]
             r == [i \in 1..(n + 1) |-> IF u.on /\ i # 1 THEN at(i - 1) ELSE u]
  <1>1. n \in Nat /\ Len(w) \in Nat
    OBVIOUS
  <1>2. Len(a) = n /\ \A i \in 1..n : a[i] = Item(from + i - 1)
    BY <1>1 DEF Items
  <1>3. ASSUME NEW i \in 1..n
        PROVE  /\ at(i) \in View /\ at(i).at = from + i /\ at(i).on = u.on
               /\ at(i).modes = w[from + i].modes /\ from + i \in 1..Len(w)
               /\ StateAt(w, from + i) = w[from + i]
    <2>1. from + i \in 1..Len(w) /\ from + i \in Nat
      BY <1>1
    <2>2. w[from + i].modes \in Modes /\ w[from + i].size \in Sizes \cup {FirstSize}
      <3>1. w[from + i] \in Past
        BY <2>1
      <3> QED BY <3>1 DEF Past
    <2>3. at(i) \in View /\ at(i).at = from + i /\ at(i).on = u.on
          /\ at(i).modes = w[from + i].modes
      BY <2>1, <2>2 DEF View
    <2> QED BY <2>1, <2>3 DEF StateAt
  <1> HIDE DEF at, n, a
  <1>4. \A i \in 1..(n + 1) : i = 1 \/ i - 1 \in 1..n
    BY <1>1
  <1>5. \A i \in 1..(n + 1) : (IF u.on /\ i # 1 THEN at(i - 1) ELSE u) \in View
    BY <1>3, <1>4
  <1>6. /\ r \in Seq(View) /\ Len(r) = n + 1
        /\ \A i \in 1..(n + 1) : r[i] = IF u.on /\ i # 1 THEN at(i - 1) ELSE u
    BY <1>1, <1>5
  <1> HIDE DEF r
  <1>7. /\ 1 \in 1..(n + 1) /\ n + 1 \in 1..(n + 1) /\ (n + 1) - 1 = n
        /\ \A i \in 1..n : i \in 1..(n + 1) /\ i + 1 \in 1..(n + 1) /\ i + 1 # 1 /\ (i + 1) - 1 = i
    BY <1>1
  <1>8. r[1] = u /\ \A i \in 1..n : r[i + 1] = IF u.on THEN at(i) ELSE u
    BY <1>6, <1>7
  <1>9. ASSUME NEW i \in 1..n, u.on
        PROVE  /\ r[i].on /\ r[i].at = from + i - 1 /\ r[i] \in View
               /\ r[i].modes = StateAt(w, from + i - 1).modes /\ Known(w, r[i])
    <2>1. from + i - 1 \in 0..Len(w)
      BY <1>1 DEF n
    <2>2. CASE i = 1
      <3>1. from + i - 1 = from /\ r[i] = u
        BY <2>2, <1>6, <1>7
      <3> QED BY <3>1, <1>9 DEF Stands
    <2>3. CASE i # 1
      <3>1. i - 1 \in 1..n /\ (i - 1) + 1 = i /\ from + (i - 1) = from + i - 1
        BY <2>3, <1>1
      <3>2. r[i] = at(i - 1)
        BY <3>1, <1>8, <1>9
      <3>3. /\ at(i - 1) \in View /\ at(i - 1).at = from + (i - 1) /\ at(i - 1).on = u.on
            /\ at(i - 1).modes = w[from + (i - 1)].modes
            /\ StateAt(w, from + (i - 1)) = w[from + (i - 1)]
        BY <1>3, <3>1
      <3> QED BY <3>1, <3>2, <3>3, <2>1, <1>9 DEF Known
    <2> QED BY <2>2, <2>3
  <1>10. ASSUME NEW i \in 1..n
         PROVE  Fits(w, r[i], a[i]) /\ r[i + 1] = After(w, r[i], a[i])
    <2>1. /\ a[i] = Item(from + i - 1) /\ a[i].kind = "item" /\ a[i].seq = from + i - 1
      BY <1>2 DEF Item
    <2>2. CASE ~u.on
      <3>1. r[i] = u /\ r[i + 1] = u
        BY <2>2, <1>6, <1>7, <1>8
      <3> QED BY <3>1, <2>1, <2>2 DEF Fits, After
    <2>3. CASE u.on
      <3>1. from + i - 1 < Len(w) /\ (from + i - 1) + 1 = from + i
        BY <1>1 DEF n
      <3>2. Fits(w, r[i], a[i])
        BY <3>1, <2>1, <2>3, <1>9 DEF Fits
      <3>3. After(w, r[i], a[i]) =
               [r[i] EXCEPT !.at = from + i, !.modes = w[from + i].modes, !.size = w[from + i].size]
        BY <3>1, <2>1, <2>3, <1>9 DEF After
      <3>4. r[i + 1] = at(i)
        BY <2>3, <1>8
      <3>5. r[i] = u \/ \E j \in 1..n : r[i] = at(j)
        BY <1>6, <1>7, <1>4
      <3>6. at(i) = [r[i] EXCEPT !.at = from + i, !.modes = w[from + i].modes,
                                 !.size = w[from + i].size]
        <4>1. CASE r[i] = u
          BY <4>1 DEF at
        <4>2. ASSUME NEW j \in 1..n, r[i] = at(j)
              PROVE  at(i) = [r[i] EXCEPT !.at = from + i, !.modes = w[from + i].modes,
                                          !.size = w[from + i].size]
          BY <4>2 DEF at, View
        <4> QED BY <4>1, <4>2, <3>5
      <3> QED BY <3>2, <3>3, <3>4, <3>6
    <2> QED BY <2>2, <2>3
  <1>11. r[n + 1] \in View /\ Stands(w, r[n + 1], to) /\ Known(w, r[n + 1])
    <2>1. from + n = to /\ to \in 0..Len(w) /\ n + 1 \in 1..(n + 1)
      BY <1>1 DEF n
    <2>2. r[n + 1] \in View
      BY <2>1, <1>6
    <2>3. CASE n = 0
      <3>1. r[n + 1] = u /\ to = from
        BY <2>3, <2>1, <1>8
      <3> QED BY <3>1
    <2>4. CASE n # 0
      <3>1. n \in 1..n
        BY <2>4, <1>1
      <3>2. r[n + 1] = IF u.on THEN at(n) ELSE u
        BY <3>1, <1>8
      <3>3. at(n).at = to /\ at(n).modes = StateAt(w, to).modes
        BY <3>1, <2>1, <1>3
      <3> QED BY <2>1, <2>2, <3>2, <3>3 DEF Stands, Known
    <2> QED BY <2>2, <2>3, <2>4
  <1>12. Leads(w, u, a, r[n + 1])
    BY <1>2, <1>6, <1>8, <1>10, <1>11 DEF Leads
  <1> QED BY <1>11, <1>12 DEF a

\* What is yet to be handed over stays right while the log is written.
LEMMA LeadsGrows ==
    ASSUME NEW w \in Seq(Past), NEW w2, Continues(w2, w), NEW u, NEW v, NEW a \in Seq(Frame),
           \A i \in 1..Len(a) : a[i].kind # "exited",
           Leads(w, u, a, v)
    PROVE  Leads(w2, u, a, v)
  <1>1. \A p \in 0..Len(w) : StateAt(w2, p) = StateAt(w, p) /\ p \in 0..Len(w2)
    BY DEF Continues, StateAt
  <1>2. ASSUME NEW x \in View, NEW i \in 1..Len(a), Fits(w, x, a[i])
        PROVE  Fits(w2, x, a[i]) /\ After(w2, x, a[i]) = After(w, x, a[i])
    <2>1. a[i] \in Frame /\ a[i].kind # "exited"
      OBVIOUS
    <2>2. Known(w2, x) /\ StateAt(w2, x.at) = StateAt(w, x.at)
      BY <1>1, <1>2 DEF Known, Fits
    <2>3. Len(w) \in Nat /\ Len(w2) \in Nat /\ Len(w) <= Len(w2)
      BY DEF Continues
    <2>4. Fits(w2, x, a[i])
      <3>1. a[i].kind = "attached" => a[i].seq \in 0..Len(w2)
        BY <1>1, <1>2 DEF Fits
      <3>2. a[i].kind = "item" /\ x.on => a[i].seq < Len(w2)
        BY <1>2, <2>1, <2>3, FrameFields DEF Fits
      <3>3. a[i].kind = "gap" /\ x.on => a[i].to <= Len(w2)
        BY <1>2, <2>1, <2>3, FrameFields DEF Fits
      <3> QED BY <1>2, <2>1, <2>2, <3>1, <3>2, <3>3 DEF Fits
    <2>5. a[i].kind = "item" /\ x.on => w2[a[i].seq + 1] = w[a[i].seq + 1]
      <3>1. ASSUME a[i].kind = "item", x.on PROVE a[i].seq + 1 \in 1..Len(w)
        BY <3>1, <1>2, <2>1, <2>3, FrameFields DEF Fits
      <3> QED BY <3>1 DEF Continues
    <2> QED BY <2>4, <2>5 DEF After
  <1>3. PICK r \in Seq(View) :
           /\ Len(r) = Len(a) + 1 /\ r[1] = u /\ r[Len(a) + 1] = v
           /\ \A i \in 1..Len(a) : Fits(w, r[i], a[i]) /\ r[i + 1] = After(w, r[i], a[i])
    BY DEF Leads
  <1>4. \A i \in 1..Len(a) : r[i] \in View
    BY <1>3
  <1>5. \A i \in 1..Len(a) : Fits(w2, r[i], a[i]) /\ r[i + 1] = After(w2, r[i], a[i])
    BY <1>2, <1>3, <1>4
  <1>6. Known(w2, v)
    BY <1>1 DEF Leads, Known
  <1> QED BY <1>3, <1>5, <1>6 DEF Leads

(***************************************************************************)
(* The frames in flight: what ends a stream and what opens the next.       *)
(***************************************************************************)
Silent(fr) == \A i \in 1..Len(fr) : ~Asking(fr[i])
OneAnswer(fr) == \A i, j \in 1..Len(fr) : Asking(fr[i]) /\ Asking(fr[j]) => i = j
NoRefusal(fr) == \A i \in 1..Len(fr) : fr[i].kind # "refused"

\* After the end of a stream nothing is fed before the next is opened,
Apart(fr) ==
    \A i, j \in 1..Len(fr) :
        i < j /\ Ending(fr[i]) /\ Feeding(fr[j]) => \E k \in i + 1..j - 1 : fr[k].kind = "attached"
\* and it has been opened.
Reopened(fr) ==
    \A i \in 1..Len(fr) : Ending(fr[i]) => \E k \in i + 1..Len(fr) : fr[k].kind = "attached"

\* Writing the first of what is to be written changes nothing in flight.
LEMMA MoveOne ==
    ASSUME NEW a \in Seq(Frame), NEW b \in Seq(Frame), b # <<>>
    PROVE  Append(a, Head(b)) \o Tail(b) = a \o b
  <1>1. Head(b) \in Frame /\ Tail(b) \in Seq(Frame) /\ Len(Tail(b)) = Len(b) - 1
        /\ \A i \in 1..Len(Tail(b)) : Tail(b)[i] = b[i + 1]
    BY HeadTailProperties
  <1>2. Head(b) = b[1] /\ Len(a) \in Nat /\ Len(b) \in Nat /\ Len(b) >= 1
    OBVIOUS
  <1> DEFINE c == Append(a, Head(b))
             t == Tail(b)
             m == Len(a)
             n == Len(b)
  <1>3. c \in Seq(Frame) /\ Len(c) = m + 1 /\ c[m + 1] = b[1] /\ \A i \in 1..m : c[i] = a[i]
    BY <1>1, <1>2, AppendProperties
  <1>4. /\ c \o t \in Seq(Frame) /\ Len(c \o t) = Len(c) + Len(t)
        /\ \A i \in 1..Len(c) + Len(t) : (c \o t)[i] = IF i <= Len(c) THEN c[i] ELSE t[i - Len(c)]
    BY <1>1, <1>3, ConcatProperties
  <1>5. /\ a \o b \in Seq(Frame) /\ Len(a \o b) = m + n
        /\ \A i \in 1..m + n : (a \o b)[i] = IF i <= m THEN a[i] ELSE b[i - m]
    BY ConcatProperties
  <1>6. Len(t) = n - 1 /\ \A i \in 1..n - 1 : t[i] = b[i + 1]
    BY <1>1
  <1>7. m \in Nat /\ n \in Nat /\ n >= 1
    BY <1>2
  <1> HIDE DEF c, t, m, n
  <1>8. Len(c) + Len(t) = m + n
    BY <1>3, <1>6, <1>7
  <1>9. ASSUME NEW i \in 1..m + n PROVE (c \o t)[i] = (a \o b)[i]
    <2>1. CASE i <= m
      <3>1. i \in 1..m /\ i <= m + 1
        BY <2>1, <1>7
      <3> QED BY <3>1, <2>1, <1>3, <1>4, <1>5, <1>8
    <2>2. CASE ~(i <= m) /\ i = m + 1
      <3>1. i <= Len(c) /\ i - m = 1
        BY <2>2, <1>3, <1>7
      <3> QED BY <3>1, <2>2, <1>3, <1>4, <1>5, <1>8
    <2>3. CASE ~(i <= m) /\ i # m + 1
      <3>1. ~(i <= m + 1) /\ i - (m + 1) \in 1..n - 1 /\ (i - (m + 1)) + 1 = i - m
        BY <2>3, <1>7
      <3>2. (c \o t)[i] = t[i - (m + 1)]
        BY <3>1, <1>3, <1>4, <1>8
      <3>3. t[i - (m + 1)] = b[i - m]
        BY <3>1, <1>6
      <3> QED BY <2>3, <3>2, <3>3, <1>5
    <2> QED BY <2>1, <2>2, <2>3
  <1>10. c \o t = a \o b
    BY <1>4, <1>5, <1>8, <1>9, SeqEqual
  <1> QED BY <1>10 DEF c, t

\* Two frames are one and another.
LEMMA TwoFrames ==
    ASSUME NEW x \in Frame, NEW y \in Frame
    PROVE  <<x>> \o <<y>> = <<x, y>>
  <1> DEFINE a == <<x>>
             b == <<y>>
             c == <<x, y>>
  <1>1. /\ a \in Seq(Frame) /\ Len(a) = 1 /\ a[1] = x
        /\ b \in Seq(Frame) /\ Len(b) = 1 /\ b[1] = y
        /\ c \in Seq(Frame) /\ Len(c) = 2 /\ c[1] = x /\ c[2] = y
    OBVIOUS
  <1> HIDE DEF a, b, c
  <1>2. /\ a \o b \in Seq(Frame) /\ Len(a \o b) = 2
        /\ \A i \in 1..2 : (a \o b)[i] = IF i <= 1 THEN a[i] ELSE b[i - 1]
    BY <1>1, ConcatProperties
  <1>3. \A i \in 1..2 : (a \o b)[i] = c[i]
    BY <1>1, <1>2
  <1>4. a \o b = c
    BY <1>1, <1>2, <1>3, SeqEqual
  <1> QED BY <1>4 DEF a, b, c

\* Reading the first of what is in the socket takes it from what is in flight.
LEMMA TakeOne ==
    ASSUME NEW a \in Seq(Frame), NEW b \in Seq(Frame), a # <<>>
    PROVE  /\ a \o b # <<>> /\ Head(a \o b) = Head(a) /\ Tail(a \o b) = Tail(a) \o b
  <1> DEFINE m == Len(a)
             n == Len(b)
             c == a \o b
  <1>1. m \in Nat /\ m >= 1 /\ n \in Nat /\ Head(a) = a[1]
    OBVIOUS
  <1>2. /\ c \in Seq(Frame) /\ Len(c) = m + n
        /\ \A i \in 1..m + n : c[i] = IF i <= m THEN a[i] ELSE b[i - m]
    BY ConcatProperties
  <1>3. /\ Tail(a) \in Seq(Frame) /\ Len(Tail(a)) = m - 1
        /\ \A i \in 1..m - 1 : Tail(a)[i] = a[i + 1]
    BY HeadTailProperties
  <1> HIDE DEF m, n, c
  <1>4. c # <<>> /\ Head(c) = a[1]
    <2>1. Len(c) >= 1 /\ 1 \in 1..m + n /\ 1 <= m
      BY <1>1, <1>2
    <2>2. c # <<>>
      BY <2>1, <1>2
    <2>3. Head(c) = c[1]
      BY <2>2, <1>2
    <2> QED BY <2>1, <2>2, <2>3, <1>2
  <1>5. /\ Tail(c) \in Seq(Frame) /\ Len(Tail(c)) = (m + n) - 1
        /\ \A i \in 1..(m + n) - 1 : Tail(c)[i] = c[i + 1]
    BY <1>2, <1>4, HeadTailProperties
  <1>6. /\ Tail(a) \o b \in Seq(Frame) /\ Len(Tail(a) \o b) = (m - 1) + n
        /\ \A i \in 1..(m - 1) + n : (Tail(a) \o b)[i] =
              IF i <= m - 1 THEN Tail(a)[i] ELSE b[i - (m - 1)]
    BY <1>3, ConcatProperties DEF n
  <1>7. ASSUME NEW i \in 1..(m + n) - 1 PROVE Tail(c)[i] = (Tail(a) \o b)[i]
    <2>1. i + 1 \in 1..m + n /\ i \in 1..(m - 1) + n
      BY <1>1
    <2>2. CASE i <= m - 1
      <3>1. i + 1 <= m /\ i \in 1..m - 1
        BY <2>2, <1>1
      <3> QED BY <3>1, <2>1, <2>2, <1>2, <1>3, <1>5, <1>6
    <2>3. CASE ~(i <= m - 1)
      <3>1. ~(i + 1 <= m) /\ (i + 1) - m = i - (m - 1)
        BY <2>3, <1>1
      <3> QED BY <3>1, <2>1, <2>3, <1>2, <1>5, <1>6
    <2> QED BY <2>2, <2>3
  <1>8. (m + n) - 1 = (m - 1) + n
    BY <1>1
  <1>9. Tail(c) = Tail(a) \o b
    BY <1>5, <1>6, <1>7, <1>8, SeqEqual
  <1> QED BY <1>1, <1>4, <1>9 DEF c

\* Frames read are no longer there to be wrong.
LEMMA RestOfFlight ==
    ASSUME NEW fr \in Seq(Frame), fr # <<>>
    PROVE  /\ Silent(fr) => Silent(Tail(fr))
           /\ OneAnswer(fr) => OneAnswer(Tail(fr))
           /\ OneAnswer(fr) /\ Asking(Head(fr)) => Silent(Tail(fr))
           /\ NoRefusal(fr) => NoRefusal(Tail(fr))
           /\ Apart(fr) => Apart(Tail(fr))
           /\ Reopened(fr) => Reopened(Tail(fr))
  <1> DEFINE n == Len(fr)
             t == Tail(fr)
  <1>1. n \in Nat /\ n >= 1 /\ Head(fr) = fr[1]
    OBVIOUS
  <1>2. Len(t) = n - 1 /\ \A i \in 1..n - 1 : t[i] = fr[i + 1]
    BY HeadTailProperties
  <1> HIDE DEF n, t
  <1>3. \A i \in 1..n - 1 : i \in Int /\ i + 1 \in 1..n /\ i + 1 # 1
    BY <1>1
  <1>4. 1 \in 1..n
    BY <1>1
  <1>5. Silent(fr) => Silent(t)
    BY <1>2, <1>3 DEF Silent, n
  <1>6. OneAnswer(fr) => OneAnswer(t)
    <2>1. ASSUME OneAnswer(fr), NEW i \in 1..n - 1, NEW j \in 1..n - 1, Asking(t[i]), Asking(t[j])
          PROVE  i = j
      <3>1. i + 1 = j + 1
        BY <2>1, <1>2, <1>3 DEF OneAnswer, n
      <3> QED BY <3>1, <1>1
    <2> QED BY <2>1, <1>2 DEF OneAnswer
  <1>7. OneAnswer(fr) /\ Asking(Head(fr)) => Silent(t)
    BY <1>1, <1>2, <1>3, <1>4 DEF OneAnswer, Silent, n
  <1>8. NoRefusal(fr) => NoRefusal(t)
    BY <1>2, <1>3 DEF NoRefusal, n
  <1>9. Apart(fr) => Apart(t)
    <2>1. ASSUME Apart(fr), NEW i \in 1..n - 1, NEW j \in 1..n - 1,
                 i < j, Ending(t[i]), Feeding(t[j])
          PROVE  \E k \in i + 1..j - 1 : t[k].kind = "attached"
      <3>1. i + 1 < j + 1 /\ i + 1 \in 1..n /\ j + 1 \in 1..n
        BY <2>1, <1>1
      <3>2. Ending(fr[i + 1]) /\ Feeding(fr[j + 1])
        BY <2>1, <1>2
      <3>3. PICK k \in (i + 1) + 1..(j + 1) - 1 : fr[k].kind = "attached"
        BY <2>1, <3>1, <3>2 DEF Apart, n
      <3>4. k - 1 \in i + 1..j - 1 /\ k - 1 \in 1..n - 1 /\ (k - 1) + 1 = k
        BY <1>1
      <3>5. t[k - 1].kind = "attached"
        BY <3>3, <3>4, <1>2
      <3> QED BY <3>4, <3>5
    <2> QED BY <2>1, <1>2 DEF Apart
  <1>10. Reopened(fr) => Reopened(t)
    <2>1. ASSUME Reopened(fr), NEW i \in 1..n - 1, Ending(t[i])
          PROVE  \E k \in i + 1..n - 1 : t[k].kind = "attached"
      <3>1. i + 1 \in 1..n /\ Ending(fr[i + 1])
        BY <2>1, <1>1, <1>2
      <3>2. PICK k \in (i + 1) + 1..n : fr[k].kind = "attached"
        BY <2>1, <3>1 DEF Reopened, n
      <3>3. k - 1 \in i + 1..n - 1 /\ k - 1 \in 1..n - 1 /\ (k - 1) + 1 = k
        BY <1>1
      <3>4. t[k - 1].kind = "attached"
        BY <3>2, <3>3, <1>2
      <3> QED BY <3>3, <3>4
    <2> QED BY <2>1, <1>2 DEF Reopened
  <1> QED BY <1>5, <1>6, <1>7, <1>8, <1>9, <1>10 DEF t

\* A stream that is open may be fed further, to its end.
LEMMA FeedFlight ==
    ASSUME NEW fr \in Seq(Frame), NEW b \in Seq(Frame), Apart(fr), Reopened(fr),
           \A i \in 1..Len(b) - 1 : ~Ending(b[i])
    PROVE  /\ Apart(fr \o b)
           /\ (b # <<>> => ~Ending(b[Len(b)])) => Reopened(fr \o b)
  <1> DEFINE m == Len(fr)
             n == Len(b)
             c == fr \o b
  <1>1. m \in Nat /\ n \in Nat /\ (n # 0 => b # <<>>)
    OBVIOUS
  <1>2. /\ Len(c) = m + n
        /\ \A i \in 1..m + n : c[i] = IF i <= m THEN fr[i] ELSE b[i - m]
    BY ConcatProperties
  <1> HIDE DEF m, n, c
  <1>3. ASSUME NEW i \in 1..m + n, i <= m, Ending(c[i])
        PROVE  \E k \in i + 1..m : c[k].kind = "attached"
    <2>1. i \in 1..m /\ Ending(fr[i])
      BY <1>1, <1>2, <1>3
    <2>2. PICK k \in i + 1..m : fr[k].kind = "attached"
      BY <2>1 DEF Reopened, m
    <2>3. k \in 1..m + n /\ k <= m
      BY <1>1
    <2> QED BY <2>2, <2>3, <1>2
  <1>4. ASSUME NEW i \in 1..m + n, ~(i <= m), Ending(c[i])
        PROVE  i = m + n
    <2>1. i - m \in 1..n /\ Ending(b[i - m])
      BY <1>1, <1>2, <1>4
    <2>2. ~(i - m \in 1..n - 1)
      BY <2>1 DEF n
    <2> QED BY <2>1, <2>2, <1>1
  <1>5. ASSUME NEW i \in 1..m + n, NEW j \in 1..m + n, i < j, Ending(c[i]), Feeding(c[j])
        PROVE  \E k \in i + 1..j - 1 : c[k].kind = "attached"
    <2>1. CASE ~(i <= m)
      <3>1. i = m + n
        BY <2>1, <1>4, <1>5
      <3> QED BY <3>1, <1>1, <1>5
    <2>2. CASE i <= m /\ ~(j <= m)
      <3>1. PICK k \in i + 1..m : c[k].kind = "attached"
        BY <2>2, <1>3, <1>5
      <3>2. k \in i + 1..j - 1
        BY <2>2, <1>1
      <3> QED BY <3>1, <3>2
    <2>3. CASE i <= m /\ j <= m
      <3>1. i \in 1..m /\ j \in 1..m /\ Ending(fr[i]) /\ Feeding(fr[j])
        BY <2>3, <1>1, <1>2, <1>5
      <3>2. PICK k \in i + 1..j - 1 : fr[k].kind = "attached"
        BY <3>1, <1>5 DEF Apart, m
      <3>3. k \in 1..m + n /\ k <= m
        BY <2>3, <1>1
      <3> QED BY <3>2, <3>3, <1>2
    <2> QED BY <2>1, <2>2, <2>3
  <1>6. Apart(c)
    BY <1>2, <1>5 DEF Apart
  <1>7. ASSUME b # <<>> => ~Ending(b[n]) PROVE Reopened(c)
    <2>1. ASSUME NEW i \in 1..m + n, Ending(c[i])
          PROVE  \E k \in i + 1..m + n : c[k].kind = "attached"
      <3>1. CASE ~(i <= m)
        <4>1. i = m + n /\ ~(m + n <= m)
          BY <2>1, <3>1, <1>4
        <4>2. n # 0 /\ (m + n) - m = n
          BY <4>1, <1>1
        <4> QED BY <2>1, <4>1, <4>2, <1>1, <1>2, <1>7
      <3>2. CASE i <= m
        <4>1. PICK k \in i + 1..m : c[k].kind = "attached"
          BY <2>1, <3>2, <1>3
        <4>2. k \in i + 1..m + n
          BY <1>1
        <4> QED BY <4>1, <4>2
      <3> QED BY <3>1, <3>2
    <2> QED BY <2>1, <1>2 DEF Reopened
  <1> QED BY <1>6, <1>7 DEF c, n

\* An answer may follow anything, and one that opens a stream makes good
\* whatever ended before it.
LEMMA AnswerFlight ==
    ASSUME NEW fr \in Seq(Frame), NEW x \in Frame, Apart(fr), ~Feeding(x)
    PROVE  /\ Apart(fr \o <<x>>)
           /\ x.kind = "attached" => Reopened(fr \o <<x>>)
           /\ Silent(fr) => OneAnswer(fr \o <<x>>)
           /\ Silent(fr) /\ x.kind = "attached" => NoRefusal(fr \o <<x>>)
  <1> DEFINE m == Len(fr)
             c == fr \o <<x>>
  <1>1. m \in Nat
    OBVIOUS
  <1>2. Len(c) = m + 1 /\ c[m + 1] = x /\ \A i \in 1..m : c[i] = fr[i]
    <2>1. <<x>> \in Seq(Frame) /\ Len(<<x>>) = 1 /\ <<x>>[1] = x
      OBVIOUS
    <2>2. /\ Len(c) = m + 1
          /\ \A i \in 1..m + 1 : c[i] = IF i <= m THEN fr[i] ELSE <<x>>[i - m]
      BY <2>1, ConcatProperties
    <2> HIDE DEF m, c
    <2>3. m + 1 \in 1..m + 1 /\ ~(m + 1 <= m) /\ (m + 1) - m = 1
      BY <1>1
    <2>4. \A i \in 1..m : i \in 1..m + 1 /\ i <= m
      BY <1>1
    <2> QED BY <2>1, <2>2, <2>3, <2>4
  <1> HIDE DEF m, c
  <1>3. \A i \in 1..m + 1 : i = m + 1 \/ i \in 1..m
    BY <1>1
  <1>4. Apart(c)
    <2>1. ASSUME NEW i \in 1..m + 1, NEW j \in 1..m + 1, i < j, Ending(c[i]), Feeding(c[j])
          PROVE  \E k \in i + 1..j - 1 : c[k].kind = "attached"
      <3>1. j # m + 1
        BY <2>1, <1>2
      <3>2. j \in 1..m /\ i \in 1..m
        BY <2>1, <3>1, <1>1
      <3>3. PICK k \in i + 1..j - 1 : fr[k].kind = "attached"
        BY <2>1, <3>2, <1>2 DEF Apart, m
      <3>4. k \in 1..m
        BY <3>2, <1>1
      <3> QED BY <3>3, <3>4, <1>2
    <2> QED BY <2>1, <1>2 DEF Apart
  <1>5. ASSUME x.kind = "attached" PROVE Reopened(c)
    <2>1. ASSUME NEW i \in 1..m + 1, Ending(c[i])
          PROVE  \E k \in i + 1..m + 1 : c[k].kind = "attached"
      <3>1. i # m + 1
        BY <2>1, <1>2, <1>5 DEF Ending
      <3>2. m + 1 \in i + 1..m + 1
        BY <3>1, <1>1
      <3> QED BY <3>2, <1>2, <1>5
    <2> QED BY <2>1, <1>2 DEF Reopened
  <1>6. Silent(fr) => OneAnswer(c)
    BY <1>2, <1>3 DEF Silent, OneAnswer, m
  <1>7. Silent(fr) /\ x.kind = "attached" => NoRefusal(c)
    BY <1>2, <1>3 DEF Silent, NoRefusal, Asking, m
  <1> QED BY <1>4, <1>5, <1>6, <1>7 DEF c

\* What is fed answers nothing.
LEMMA FeedAnswers ==
    ASSUME NEW fr \in Seq(Frame), NEW b \in Seq(Frame), Silent(b)
    PROVE  /\ Silent(fr) => Silent(fr \o b)
           /\ OneAnswer(fr) => OneAnswer(fr \o b)
           /\ NoRefusal(fr) => NoRefusal(fr \o b)
           /\ ~Silent(fr \o b) => ~Silent(fr)
           /\ \A i \in 1..Len(fr \o b) :
                  \/ i \in 1..Len(fr) /\ (fr \o b)[i] = fr[i]
                  \/ i - Len(fr) \in 1..Len(b) /\ (fr \o b)[i] = b[i - Len(fr)]
  <1> DEFINE m == Len(fr)
             n == Len(b)
             c == fr \o b
  <1>1. m \in Nat /\ n \in Nat
    OBVIOUS
  <1>2. /\ Len(c) = m + n
        /\ \A i \in 1..m + n : c[i] = IF i <= m THEN fr[i] ELSE b[i - m]
    BY ConcatProperties
  <1> HIDE DEF m, n, c
  <1>3. \A i \in 1..m + n : IF i <= m THEN i \in 1..m ELSE i - m \in 1..n
    BY <1>1
  <1>4. \A i \in 1..Len(c) :
           \/ i \in 1..m /\ c[i] = fr[i]
           \/ i - m \in 1..n /\ c[i] = b[i - m]
    BY <1>2, <1>3
  <1>5. \A i \in 1..n : ~Asking(b[i])
    BY DEF Silent, n
  <1>6. \A i \in 1..Len(c) : Asking(c[i]) => i \in 1..m /\ c[i] = fr[i]
    BY <1>4, <1>5
  <1>7. Silent(fr) => Silent(c)
    BY <1>6 DEF Silent, m
  <1>8. OneAnswer(fr) => OneAnswer(c)
    BY <1>6 DEF OneAnswer, m
  <1>9. NoRefusal(fr) => NoRefusal(c)
    BY <1>6 DEF NoRefusal, Asking, m
  <1>10. ~Silent(c) => ~Silent(fr)
    BY <1>6 DEF Silent, m
  <1> QED BY <1>4, <1>7, <1>8, <1>9, <1>10 DEF m, n, c

(***************************************************************************)
(* The invariant, of one connection: cn its thread, f its stream's, u its  *)
(* client's view and fr the frames in flight; w is what has been written   *)
(* and ex whether the session ended.                                       *)
(***************************************************************************)
Conn == [phase: Phases, from: Nat, out: Seq(Frame)]
Stream == [state: {"none", "run", "send", "ending", "left", "done"},
           cursor: Nat, out: Seq(Frame), next: Nat, stop: BOOLEAN]
Final(f) == f.out[Len(f.out)]

\* A stream that is being opened, or that reads and sends
Running(cn, f) == cn.phase = "answering" \/ f.state \in {"run", "send"}
\* and one that has not said its last word
Live(cn, f) ==
    cn.phase = "answering" \/ f.state = "run" \/ (f.state = "send" /\ ~Ending(Final(f)))
\* Where it goes on
Place(cn, f) ==
    IF cn.phase = "answering" THEN cn.from ELSE IF f.state = "run" THEN f.cursor ELSE f.next

Shape(cn, f) ==
    /\ cn.phase # "answering" => cn.out = <<>>
    /\ cn.phase \in {"found", "answering"} => f.state = "none"
    /\ f.state = "send" <=> f.out # <<>>
    /\ f.state = "send" => Feeding(Final(f))
    /\ cn.phase \notin {"leaving", "gone"}

\* There is an answer in flight only to a client that asked, and one; nobody
\* is refused while a stream of it runs; and nobody asks while one does.
Answers(cn, f, u, fr) ==
    /\ OneAnswer(fr)
    /\ ~Silent(fr) => u.asked /\ ~u.on
    /\ cn.phase = "found" => u.asked /\ ~u.on /\ Silent(fr)
    /\ u.on => ~u.asked
    /\ Running(cn, f) => NoRefusal(fr) /\ (cn.phase # "joining" => u.on \/ u.asked)

\* Streams do not run into each other, and the exit is told once it happened.
Parted(ex, cn, f, fr) ==
    /\ Apart(fr)
    /\ Live(cn, f) => Reopened(fr)
    /\ \A i \in 1..Len(fr) : fr[i].kind = "exited" => ex

\* What is in flight leads the client to where its stream goes on.
Led(w, cn, f, u, fr) ==
    /\ Known(w, u)
    /\ cn.phase = "found" => cn.from = 0 \/ (cn.from = u.at /\ u.modes # NoModes)
    /\ \E v \in View : Leads(w, u, fr, v) /\ (Live(cn, f) => Stands(w, v, Place(cn, f)))

Good(w, ex, cn, f, u, fr) ==
    Shape(cn, f) /\ Answers(cn, f, u, fr) /\ Parted(ex, cn, f, fr) /\ Led(w, cn, f, u, fr)

\* The client reads.
LEMMA GoodReads ==
    ASSUME NEW w \in Seq(Past), NEW ex, NEW cn \in Conn, NEW f \in Stream, NEW u \in View,
           NEW fr \in Seq(Frame), fr # <<>>, Good(w, ex, cn, f, u, fr),
           f.state = "send" => Len(fr) > 1 /\ fr[Len(fr)] = Final(f)
    PROVE  After(w, u, Head(fr)) \in View
           /\ Good(w, ex, cn, f, After(w, u, Head(fr)), Tail(fr))
  <1> DEFINE x == Head(fr)
             t == Tail(fr)
             a == After(w, u, x)
  <1>1. PICK v \in View : Leads(w, u, fr, v) /\ (Live(cn, f) => Stands(w, v, Place(cn, f)))
    BY DEF Good, Led
  <1>2. /\ x \in Frame /\ t \in Seq(Frame) /\ Len(t) = Len(fr) - 1 /\ x = fr[1]
        /\ \A i \in 1..Len(t) : t[i] = fr[i + 1]
    BY HeadTailProperties
  <1>3. Fits(w, u, x) /\ Leads(w, a, t, v)
    BY <1>1, LeadsFirst
  <1>4. a \in View /\ Known(w, a)
    BY <1>2, <1>3, AfterKnown
  <1>5. Len(fr) \in Nat /\ Len(fr) >= 1 /\ 1 \in 1..Len(fr)
    OBVIOUS
  <1> HIDE DEF x, t, a
  <1>6. /\ Silent(fr) => Silent(t)
        /\ OneAnswer(t)
        /\ Asking(x) => Silent(t)
        /\ NoRefusal(fr) => NoRefusal(t)
        /\ Apart(t)
        /\ Live(cn, f) => Reopened(t)
    BY RestOfFlight DEF Good, Answers, Parted, x, t
  <1>7. Asking(x) => ~Silent(fr)
    BY <1>2, <1>5 DEF Silent
  <1>p. Parted(ex, cn, f, t)
    <2>1. ASSUME NEW i \in 1..Len(t), t[i].kind = "exited" PROVE ex
      <3>1. i + 1 \in 1..Len(fr) /\ fr[i + 1].kind = "exited"
        BY <1>2, <1>5, <2>1
      <3> QED BY <3>1 DEF Good, Parted
    <2> QED BY <1>6, <2>1 DEF Parted
  <1>8. CASE x.kind = "attached"
    <2>1. a = Opened(u, x)
      BY <1>8 DEF a, After
    <2>2. a.on /\ ~a.asked
      BY <2>1 DEF Opened
    <2>3. Silent(t) /\ cn.phase # "found"
      BY <1>6, <1>7, <1>8 DEF Asking, Good, Answers
    <2>4. Answers(cn, f, a, t)
      BY <1>6, <2>2, <2>3 DEF Good, Answers
    <2>5. Led(w, cn, f, a, t)
      BY <1>1, <1>3, <1>4, <2>3 DEF Led
    <2>6. Parted(ex, cn, f, t)
      BY <1>p
    <2> QED BY <1>4, <2>4, <2>5, <2>6 DEF Good, x, t, a
  <1>9. CASE x.kind = "refused"
    <2>1. a = [u EXCEPT !.asked = FALSE]
      BY <1>9 DEF a, After
    <2>2. a.on = u.on /\ ~a.asked
      BY <2>1 DEF View
    <2>3. Silent(t) /\ cn.phase # "found" /\ ~u.on
      BY <1>6, <1>7, <1>9 DEF Asking, Good, Answers
    <2>4. ~NoRefusal(fr)
      BY <1>2, <1>5, <1>9 DEF NoRefusal
    <2>5. Answers(cn, f, a, t)
      BY <1>6, <2>2, <2>3, <2>4 DEF Good, Answers
    <2>6. Led(w, cn, f, a, t)
      BY <1>1, <1>3, <1>4, <2>3 DEF Led
    <2>7. Parted(ex, cn, f, t)
      BY <1>p
    <2> QED BY <1>4, <2>5, <2>6, <2>7 DEF Good, x, t, a
  <1>10. CASE ~Asking(x)
    <2>1. ~u.on => a = u
      BY <1>10 DEF a, After, Asking
    <2>2. a.asked = u.asked /\ (a.on => u.on) /\ (u.on => a.on \/ Ending(x))
      <3>1. x.kind \in {"preamble", "item", "gap", "exited", "detached"}
        BY <1>2, <1>10, FrameFields DEF Asking
      <3> QED BY <3>1 DEF a, After, View, Ending
    <2>3. cn.phase = "found" => a = u
      BY <2>1 DEF Good, Answers
    <2>4. Silent(t) => Silent(fr)
      <3>1. ASSUME Silent(t), NEW i \in 1..Len(fr) PROVE ~Asking(fr[i])
        <4>1. CASE i = 1
          BY <4>1, <1>2, <1>10
        <4>2. CASE i # 1
          <5>1. i - 1 \in 1..Len(t) /\ (i - 1) + 1 = i
            BY <4>2, <1>2, <1>5
          <5> QED BY <5>1, <3>1, <1>2 DEF Silent
        <4> QED BY <4>1, <4>2
      <3> QED BY <3>1 DEF Silent
    \* The end of a stream is read while it runs: then it was opened again.
    <2>5. ASSUME Running(cn, f), Ending(x), u.on, ~a.on PROVE FALSE
      <3>1. Silent(fr)
        BY <2>5 DEF Good, Answers
      <3>2. ASSUME NEW k \in 1..Len(fr), fr[k].kind = "attached" PROVE FALSE
        BY <3>1, <3>2 DEF Silent, Asking
      <3>3. ~Live(cn, f)
        <4>1. ASSUME Reopened(fr) PROVE FALSE
          <5>1. PICK k \in 1 + 1..Len(fr) : fr[k].kind = "attached"
            BY <4>1, <2>5, <1>2, <1>5 DEF Reopened
          <5>2. k \in 1..Len(fr)
            BY <1>5
          <5> QED BY <5>1, <5>2, <3>2
        <4> QED BY <4>1 DEF Good, Parted
      <3>4. f.state = "send" /\ Feeding(Final(f))
        BY <2>5, <3>3 DEF Running, Live, Good, Shape
      <3>5. Len(fr) \in 1..Len(fr) /\ 1 < Len(fr) /\ Feeding(fr[Len(fr)])
        BY <3>4, <1>5
      <3>6. PICK k \in 1 + 1..Len(fr) - 1 : fr[k].kind = "attached"
        BY <2>5, <3>5, <1>2, <1>5 DEF Good, Parted, Apart
      <3>7. k \in 1..Len(fr)
        BY <1>5
      <3> QED BY <3>2, <3>6, <3>7
    <2>6. Running(cn, f) /\ cn.phase # "joining" => a.on \/ a.asked
      <3>1. CASE u.on
        BY <3>1, <2>2, <2>5 DEF Good, Answers
      <3>2. CASE ~u.on
        BY <3>2, <2>1 DEF Good, Answers
      <3> QED BY <3>1, <3>2
    <2>7. Answers(cn, f, a, t)
      <3>1. ~Silent(t) => a.asked /\ ~a.on
        BY <1>6, <2>2 DEF Good, Answers
      <3>2. cn.phase = "found" => a.asked /\ ~a.on /\ Silent(t)
        BY <1>6, <2>3 DEF Good, Answers
      <3>3. a.on => ~a.asked
        BY <2>2 DEF Good, Answers
      <3> QED BY <3>1, <3>2, <3>3, <1>6, <2>6 DEF Good, Answers
    <2>8. Led(w, cn, f, a, t)
      BY <1>1, <1>3, <1>4, <2>3 DEF Good, Led
    <2>9. Parted(ex, cn, f, t)
      BY <1>p
    <2> QED BY <1>4, <2>7, <2>8, <2>9 DEF Good, x, t, a
  <1> QED BY <1>8, <1>9, <1>10 DEF Asking

\* The log is written, or the session ends; before it did, no exit was told.
LEMMA GoodGrows ==
    ASSUME NEW w \in Seq(Past), NEW ex, NEW w2, NEW ex2, NEW cn, NEW f, NEW u \in View,
           NEW fr \in Seq(Frame), Good(w, ex, cn, f, u, fr),
           (Continues(w2, w) /\ ~ex /\ ex2 = ex) \/ (w2 = w /\ ex2)
    PROVE  Good(w2, ex2, cn, f, u, fr)
  <1>1. CASE w2 = w /\ ex2
    BY <1>1 DEF Good, Parted
  <1>2. CASE Continues(w2, w) /\ ~ex /\ ex2 = ex
    <2>1. \A i \in 1..Len(fr) : fr[i].kind # "exited"
      BY <1>2 DEF Good, Parted
    <2>2. PICK v \in View : Leads(w, u, fr, v) /\ (Live(cn, f) => Stands(w, v, Place(cn, f)))
      BY DEF Good, Led
    <2>3. Leads(w2, u, fr, v)
      BY <1>2, <2>1, <2>2, LeadsGrows
    <2>4. \A p \in 0..Len(w) : StateAt(w2, p) = StateAt(w, p) /\ p \in 0..Len(w2)
      BY <1>2 DEF Continues, StateAt
    <2>5. Stands(w, v, Place(cn, f)) => Stands(w2, v, Place(cn, f))
      BY <2>4 DEF Stands
    <2>6. Known(w2, u)
      BY <2>4 DEF Good, Led, Known
    <2>7. Led(w2, cn, f, u, fr)
      BY <2>2, <2>3, <2>5, <2>6 DEF Good, Led
    <2> QED BY <1>2, <2>7 DEF Good
  <1> QED BY <1>1, <1>2

\* A thread goes on, and what is in flight stays.
LEMMA GoodMoves ==
    ASSUME NEW w, NEW ex, NEW cn, NEW f, NEW cn2, NEW f2, NEW u, NEW fr,
           Good(w, ex, cn, f, u, fr), Shape(cn2, f2), cn2.phase = "found" => cn2 = cn,
           Running(cn2, f2) => Running(cn, f) /\ (cn2.phase # "joining" => cn.phase # "joining"),
           Live(cn2, f2) => Live(cn, f) /\ Place(cn2, f2) = Place(cn, f)
    PROVE  Good(w, ex, cn2, f2, u, fr)
  <1>1. Answers(cn2, f2, u, fr)
    BY DEF Good, Answers
  <1>2. Parted(ex, cn2, f2, fr)
    BY DEF Good, Parted
  <1>3. Led(w, cn2, f2, u, fr)
    BY DEF Good, Led
  <1> QED BY <1>1, <1>2, <1>3 DEF Good

\* A client that does not listen asks for a stream, or one that listens stops.
LEMMA GoodAsks ==
    ASSUME NEW w, NEW ex, NEW cn, NEW f, NEW cn2, NEW f2, NEW u \in View, NEW u2 \in View,
           NEW fr \in Seq(Frame), Good(w, ex, cn, f, u, fr), Shape(cn2, f2),
           Silent(fr), ~u2.on, u2.at = u.at, u2.modes = u.modes,
           Live(cn2, f2) => Live(cn, f) /\ Place(cn2, f2) = Place(cn, f),
           Running(cn2, f2) => cn2.phase = "joining",
           cn2.phase = "found" =>
              u2.asked /\ (cn2.from = 0 \/ (cn2.from = u2.at /\ u2.modes # NoModes))
    PROVE  Good(w, ex, cn2, f2, u2, fr)
  <1>1. Known(w, u2)
    BY DEF Good, Led, Known
  <1>2. Leads(w, u2, fr, u2)
    BY <1>1, LeadsQuiet DEF Silent
  <1>3. Live(cn2, f2) => Stands(w, u2, Place(cn2, f2))
    BY DEF Good, Led, Stands
  <1>4. Led(w, cn2, f2, u2, fr)
    BY <1>1, <1>2, <1>3 DEF Led
  <1>5. Answers(cn2, f2, u2, fr)
    <2>1. OneAnswer(fr) /\ NoRefusal(fr)
      BY DEF Good, Answers, NoRefusal, Silent, Asking
    <2> QED BY <2>1 DEF Answers
  <1>6. Parted(ex, cn2, f2, fr)
    BY DEF Good, Parted
  <1> QED BY <1>4, <1>5, <1>6 DEF Good

\* A client is refused while no stream of it runs.
LEMMA GoodRefused ==
    ASSUME NEW w \in Seq(Past), NEW ex, NEW cn, NEW f, NEW u \in View, NEW fr \in Seq(Frame),
           Good(w, ex, cn, f, u, fr), ~u.on, ~u.asked, ~Running(cn, f), cn.phase # "found"
    PROVE  Good(w, ex, cn, f, [u EXCEPT !.asked = TRUE], fr \o <<Refused>>)
  <1> DEFINE u2 == [u EXCEPT !.asked = TRUE]
             fr2 == fr \o <<Refused>>
  <1>1. u2 \in View /\ ~u2.on /\ u2.asked /\ u2.at = u.at /\ u2.modes = u.modes
    BY DEF View
  <1>2. Silent(fr) /\ Known(w, u)
    BY DEF Good, Answers, Led
  <1>3. Refused \in Frame /\ Refused.kind = "refused" /\ <<Refused>> \in Seq(Frame)
    BY DEF Refused, Frame
  <1> HIDE DEF u2
  <1>4. Known(w, u2)
    BY <1>1, <1>2 DEF Known
  <1>5. Leads(w, u2, fr, u2)
    BY <1>1, <1>2, <1>4, LeadsQuiet DEF Silent
  <1>6. Fits(w, u2, Refused)
    BY <1>1, <1>3, <1>4 DEF Fits
  <1>7. PICK v \in View : Leads(w, u2, fr2, v)
    BY <1>1, <1>3, <1>5, <1>6, LeadsOne, LeadsOn
  <1>8. ~Live(cn, f)
    BY DEF Live, Running
  <1>9. Led(w, cn, f, u2, fr2)
    BY <1>4, <1>7, <1>8 DEF Led
  <1>10. Apart(fr2) /\ OneAnswer(fr2)
    BY <1>2, <1>3, AnswerFlight DEF Good, Parted, Feeding
  <1>11. Answers(cn, f, u2, fr2)
    BY <1>1, <1>10 DEF Answers
  <1>12. \A i \in 1..Len(fr2) : fr2[i].kind = "exited" => ex
    <2>1. /\ Len(fr2) = Len(fr) + 1
          /\ \A i \in 1..Len(fr) + 1 : fr2[i] = IF i <= Len(fr) THEN fr[i] ELSE <<Refused>>[i - Len(fr)]
      BY <1>3, ConcatProperties
    <2>2. \A i \in 1..Len(fr) + 1 : i \in 1..Len(fr) \/ (~(i <= Len(fr)) /\ i - Len(fr) = 1)
      OBVIOUS
    <2>3. <<Refused>>[1] = Refused
      OBVIOUS
    <2> QED BY <1>3, <2>1, <2>2, <2>3 DEF Good, Parted
  <1>13. Parted(ex, cn, f, fr2)
    BY <1>8, <1>10, <1>12 DEF Parted
  <1> QED BY <1>9, <1>11, <1>13 DEF Good, u2

\* A stream that is over is detached from.
LEMMA GoodDetached ==
    ASSUME NEW w \in Seq(Past), NEW ex, NEW cn, NEW f, NEW cn2, NEW f2, NEW u \in View,
           NEW fr \in Seq(Frame), Good(w, ex, cn, f, u, fr), Shape(cn2, f2),
           ~Running(cn2, f2), cn2.phase # "found"
    PROVE  Good(w, ex, cn2, f2, u, fr \o <<Detached>>)
  <1> DEFINE fr2 == fr \o <<Detached>>
  <1>1. /\ Detached \in Frame /\ Detached.kind = "detached" /\ <<Detached>> \in Seq(Frame)
        /\ Len(<<Detached>>) = 1 /\ <<Detached>>[1] = Detached
    BY DEF Detached, Frame
  <1>2. PICK v \in View : Leads(w, u, fr, v)
    BY DEF Good, Led
  <1>3. Fits(w, v, Detached)
    BY <1>1, <1>2 DEF Fits, Leads
  <1>4. PICK x \in View : Leads(w, u, fr2, x)
    BY <1>1, <1>2, <1>3, LeadsOne, LeadsOn
  <1>5. Silent(<<Detached>>)
    BY <1>1 DEF Silent, Asking
  <1>6. /\ OneAnswer(fr) => OneAnswer(fr2)
        /\ ~Silent(fr2) => ~Silent(fr)
        /\ \A i \in 1..Len(fr2) : (i \in 1..Len(fr) /\ fr2[i] = fr[i]) \/ fr2[i] = Detached
    <2> DEFINE b == <<Detached>>
    <2>1. b \in Seq(Frame) /\ Silent(b) /\ Len(b) = 1 /\ b[1] = Detached
      BY <1>1, <1>5
    <2>2. fr2 = fr \o b
      OBVIOUS
    <2> HIDE DEF b, fr2
    <2> QED BY <2>1, <2>2, FeedAnswers
  <1>7. Apart(fr2)
    BY <1>1, AnswerFlight DEF Good, Parted, Feeding
  <1> HIDE DEF fr2
  <1>8. Answers(cn2, f2, u, fr2)
    BY <1>6 DEF Good, Answers
  <1>9. ~Live(cn2, f2)
    BY DEF Live, Running
  <1>10. \A i \in 1..Len(fr2) : fr2[i].kind = "exited" => ex
    BY <1>1, <1>6 DEF Good, Parted
  <1>11. Parted(ex, cn2, f2, fr2)
    BY <1>7, <1>9, <1>10 DEF Parted
  <1>12. Led(w, cn2, f2, u, fr2)
    BY <1>4, <1>9 DEF Good, Led
  <1> QED BY <1>8, <1>11, <1>12 DEF Good, fr2

\* A stream goes on with frames that lead from where it stood to where it will.
LEMMA GoodFeeds ==
    ASSUME NEW w \in Seq(Past), NEW ex, NEW cn, NEW f, NEW f2, NEW u \in View, NEW v \in View,
           NEW x \in View, NEW fr \in Seq(Frame), NEW b \in Seq(Frame),
           Good(w, ex, cn, f, u, fr), Shape(cn, f2), f.state = "run", f2.state = "send",
           Silent(b), \A i \in 1..Len(b) - 1 : ~Ending(b[i]),
           b # <<>>, Final(f2) = b[Len(b)],
           \A i \in 1..Len(b) : b[i].kind = "exited" => ex,
           Leads(w, u, fr, v), Leads(w, v, b, x),
           ~Ending(Final(f2)) => Stands(w, x, f2.next)
    PROVE  Good(w, ex, cn, f2, u, fr \o b)
  <1> DEFINE fr2 == fr \o b
  <1>1. cn.phase \notin {"found", "answering"}
    BY DEF Good, Shape
  <1>2. /\ OneAnswer(fr) => OneAnswer(fr2)
        /\ NoRefusal(fr) => NoRefusal(fr2)
        /\ ~Silent(fr2) => ~Silent(fr)
        /\ \A i \in 1..Len(fr2) :
              \/ i \in 1..Len(fr) /\ fr2[i] = fr[i]
              \/ i - Len(fr) \in 1..Len(b) /\ fr2[i] = b[i - Len(fr)]
    BY FeedAnswers
  <1>3. Reopened(fr)
    BY DEF Good, Parted, Live
  <1>4. Apart(fr2) /\ (~Ending(Final(f2)) => Reopened(fr2))
    BY <1>3, FeedFlight DEF Good, Parted
  <1>5. Leads(w, u, fr2, x)
    BY LeadsOn
  <1> HIDE DEF fr2
  <1>6. Live(cn, f2) => ~Ending(Final(f2)) /\ Place(cn, f2) = f2.next
    BY <1>1 DEF Live, Place
  <1>7. Answers(cn, f2, u, fr2)
    BY <1>1, <1>2 DEF Good, Answers, Running
  <1>8. \A i \in 1..Len(fr2) : fr2[i].kind = "exited" => ex
    BY <1>2 DEF Good, Parted
  <1>9. Parted(ex, cn, f2, fr2)
    BY <1>4, <1>6, <1>8 DEF Parted
  <1>10. Led(w, cn, f2, u, fr2)
    BY <1>5, <1>6 DEF Good, Led
  <1> QED BY <1>7, <1>9, <1>10 DEF Good, fr2

\* A loss leads whoever listens over it, into the modes of where it ends.
LEMMA LeadsLoss ==
    ASSUME NEW w \in Seq(Past), NEW v \in View, NEW p \in Nat, NEW h \in Nat, NEW m \in Modes,
           Known(w, v), Stands(w, v, p), p < h, h <= Len(w), m = StateAt(w, h).modes
    PROVE  \E x \in View :
              /\ Leads(w, v, <<Gap(p, h), [kind |-> "preamble", modes |-> m]>>, x)
              /\ Stands(w, x, h)
  <1> DEFINE g == Gap(p, h)
             e == [kind |-> "preamble", modes |-> m]
             y == After(w, v, g)
             x == After(w, y, e)
  <1>1. /\ g \in Frame /\ g.kind = "gap" /\ g.seq = p /\ g.to = h
        /\ e \in Frame /\ e.kind = "preamble" /\ e.modes = m
    BY DEF Gap, Frame
  <1>2. h \in 0..Len(w)
    OBVIOUS
  <1> HIDE DEF g, e, y
  <1>3. Fits(w, v, g)
    BY <1>1 DEF Fits, Stands
  <1>4. y \in View /\ Leads(w, v, <<g>>, y) /\ Known(w, y)
    BY <1>1, <1>3, LeadsOne, AfterKnown DEF y
  <1>5. y.on => v.on /\ y.at = h
    BY <1>1 DEF y, After, View
  <1>6. Fits(w, y, e)
    BY <1>1, <1>4, <1>5 DEF Fits
  <1>7. x \in View /\ Leads(w, y, <<e>>, x)
    BY <1>1, <1>4, <1>6, LeadsOne
  <1>8. Stands(w, x, h)
    <2>1. x = IF y.on THEN [y EXCEPT !.modes = e.modes] ELSE y
      BY <1>1 DEF After
    <2>2. x.on = y.on /\ (y.on => x.at = y.at /\ x.modes = m)
      BY <2>1, <1>1, <1>4 DEF View
    <2> QED BY <2>2, <1>2, <1>5 DEF Stands
  <1>9. <<g>> \o <<e>> = <<g, e>> /\ <<g>> \in Seq(Frame) /\ <<e>> \in Seq(Frame)
    BY <1>1, TwoFrames
  <1>10. Leads(w, v, <<g, e>>, x)
    BY <1>4, <1>7, <1>9, LeadsOn
  <1> QED BY <1>7, <1>8, <1>10 DEF g, e

(***************************************************************************)
(* The inductive invariant.                                                *)
(***************************************************************************)
\* All that is yet to reach the client
Pending(c) == (wire[c] \o conn[c].out) \o fol[c].out

\* Where the head is, the modes are known.
LogInv == head \in 0..Tip /\ (head > 0 => modes = StateAt(written, head).modes)

Streamers == {c \in Connections : Streaming(c)}

\* A connection's thread is not at the start of a stream and in one, and
\* gives up only on a client that is gone.
CountInv ==
    /\ attached = Cardinality(Streamers)
    /\ \A c \in Connections :
          /\ conn[c].phase \in {"leaving", "gone"} => closed[c]
          /\ conn[c].phase \in {"found", "answering"} => fol[c].state = "none"

Flight(c) ==
    IF closed[c] THEN wire[c] = <<>>
    ELSE Good(written, exit, conn[c], fol[c], view[c], Pending(c))
FlightInv == \A c \in Connections : Flight(c)

IInv == TypeOK /\ LogInv /\ CountInv /\ FlightInv

(***************************************************************************)
(* The count of streams.                                                   *)
(***************************************************************************)
\* Streams are finitely many.
LEMMA FewStreams ==
    ASSUME NEW T, T \subseteq Connections
    PROVE  IsFiniteSet(T) /\ Cardinality(T) \in Nat
  <1>1. IsFiniteSet(T)
    BY HostStreamAssumption, FS_Subset
  <1> QED BY <1>1, FS_CardinalityType

\* What connection c has, in a typed state.
LEMMA Fields ==
    ASSUME TypeOK, NEW c \in Connections
    PROVE  /\ conn[c] \in Conn /\ fol[c] \in Stream /\ closed[c] \in BOOLEAN
           /\ wire[c] \in Seq(Frame) /\ view[c] \in View
           /\ written \in Seq(Past) /\ Tip \in Nat
           /\ conn[c].out \in Seq(Frame) /\ fol[c].out \in Seq(Frame)
           /\ conn[c].from \in Nat /\ fol[c].cursor \in Nat /\ fol[c].next \in Nat
           /\ Pending(c) \in Seq(Frame)
  <1>1. conn[c] \in Conn /\ fol[c] \in Stream /\ view[c] \in View
    BY DEF TypeOK, Conn, Stream, View
  <1>2. conn[c].out \in Seq(Frame) /\ fol[c].out \in Seq(Frame)
        /\ conn[c].from \in Nat /\ fol[c].cursor \in Nat /\ fol[c].next \in Nat
    BY <1>1 DEF Conn, Stream
  <1>3. wire[c] \in Seq(Frame) /\ closed[c] \in BOOLEAN /\ written \in Seq(Past) /\ Tip \in Nat
    BY DEF TypeOK, Tip
  <1>4. wire[c] \o conn[c].out \in Seq(Frame)
    BY <1>2, <1>3, ConcatProperties
  <1>5. Pending(c) \in Seq(Frame)
    BY <1>2, <1>4, ConcatProperties DEF Pending
  <1> QED BY <1>1, <1>2, <1>3, <1>5

\* A step of connection c that leaves the others, and whether c streams.
LEMMA CountSame ==
    ASSUME CountInv, NEW c \in Connections, attached' = attached,
           \A d \in Connections \ {c} : conn'[d] = conn[d] /\ fol'[d] = fol[d],
           Streaming(c)' = Streaming(c)
    PROVE  attached' = Cardinality(Streamers')
  <1>1. \A d \in Connections : Streaming(d)' = Streaming(d)
    BY DEF Streaming
  <1>2. Streamers' = Streamers
    BY <1>1 DEF Streamers
  <1> QED BY <1>2 DEF CountInv

\* A stream begins,
LEMMA CountUp ==
    ASSUME CountInv, NEW c \in Connections, attached' = attached + 1,
           \A d \in Connections \ {c} : conn'[d] = conn[d] /\ fol'[d] = fol[d],
           ~Streaming(c), Streaming(c)'
    PROVE  attached' = Cardinality(Streamers')
  <1>1. \A d \in Connections \ {c} : Streaming(d)' = Streaming(d)
    BY DEF Streaming
  <1>2. Streamers' = Streamers \cup {c} /\ c \notin Streamers
    BY <1>1 DEF Streamers
  <1>3. Cardinality(Streamers \cup {c}) = Cardinality(Streamers) + 1
    BY <1>2, FewStreams, FS_AddElement DEF Streamers
  <1> QED BY <1>2, <1>3 DEF CountInv

\* and one ends.
LEMMA CountLess ==
    ASSUME CountInv, NEW c \in Connections, attached' = attached - 1,
           \A d \in Connections \ {c} : conn'[d] = conn[d] /\ fol'[d] = fol[d],
           Streaming(c), ~Streaming(c)'
    PROVE  attached' = Cardinality(Streamers')
  <1>1. \A d \in Connections \ {c} : Streaming(d)' = Streaming(d)
    BY DEF Streaming
  <1>2. Streamers' = Streamers \ {c} /\ c \in Streamers
    BY <1>1 DEF Streamers
  <1>3. Cardinality(Streamers \ {c}) = Cardinality(Streamers) - 1
    BY <1>2, FewStreams, FS_RemoveElement DEF Streamers
  <1> QED BY <1>2, <1>3 DEF CountInv

\* A step of a connection, its stream or its client keeps the count.
LEMMA CountStep ==
    ASSUME TypeOK, CountInv, NEW c \in Connections,
           \/ Attach(c) \/ DetachAsk(c) \/ Close(c)
           \/ Forget(c) \/ Serve(c) \/ Follow(c) \/ Receive(c)
    PROVE  CountInv'
  <1> DEFINE Kept ==
                /\ \A d \in Connections \ {c} :
                      conn'[d] = conn[d] /\ fol'[d] = fol[d] /\ closed'[d] = closed[d]
                /\ conn'[c].phase \in {"leaving", "gone"} => closed'[c]
                /\ conn'[c].phase \in {"found", "answering"} => fol'[c].state = "none"
                /\ attached' = Cardinality(Streamers')
  <1> SUFFICES Kept
    BY DEF CountInv
  <1>1. /\ conn \in [Connections -> Conn] /\ fol \in [Connections -> Stream]
        /\ closed \in [Connections -> BOOLEAN]
        /\ conn[c] \in Conn /\ fol[c] \in Stream /\ closed[c] \in BOOLEAN
    BY DEF TypeOK, Conn, Stream
  <1>2. /\ conn[c].phase \in {"leaving", "gone"} => closed[c]
        /\ conn[c].phase \in {"found", "answering"} => fol[c].state = "none"
    BY DEF CountInv
  <1>3. CASE AttachRefuse(c) \/ Receive(c)
    <2>1. conn' = conn /\ fol' = fol /\ closed' = closed /\ attached' = attached
      BY <1>3 DEF AttachRefuse, Receive
    <2> QED BY <1>2, <2>1, CountSame DEF Streaming
  <1>4. CASE Close(c)
    <2>1. conn' = conn /\ fol' = fol /\ closed' = [closed EXCEPT ![c] = TRUE] /\ attached' = attached
      BY <1>4 DEF Close
    <2> QED BY <1>1, <1>2, <2>1, CountSame DEF Streaming
  <1>5. ASSUME NEW from, AttachFind(c, from) PROVE Kept
    <2>1. /\ conn[c].phase = "idle" /\ fol[c].state \in {"none", "done"}
          /\ conn' = [conn EXCEPT ![c] = [phase |-> "found", from |-> from, out |-> <<>>]]
          /\ fol' = [fol EXCEPT ![c] = NoStream] /\ closed' = closed /\ attached' = attached
      BY <1>5 DEF AttachFind, Follows
    <2>2. conn'[c].phase = "found" /\ fol'[c].state = "none"
      BY <1>1, <2>1 DEF NoStream
    <2> QED BY <1>1, <2>1, <2>2, CountSame DEF Streaming
  <1>6. CASE AttachPrepare(c)
    <2>1. conn[c].phase = "found" /\ fol' = fol /\ closed' = closed /\ attached' = attached + 1
      BY <1>6 DEF AttachPrepare
    <2>2. conn'[c].phase = "answering" /\ \A d \in Connections \ {c} : conn'[d] = conn[d]
      BY <1>1, <1>6 DEF AttachPrepare
    <2> QED BY <1>2, <2>1, <2>2, CountUp DEF Streaming
  <1>7. CASE AttachAnswer(c) /\ AnswerSent(c)
    <2>1. /\ conn[c].phase = "answering" /\ fol' = fol /\ closed' = closed /\ attached' = attached
          /\ conn' = [conn EXCEPT ![c].out = Tail(@)]
      BY <1>7 DEF AttachAnswer, AnswerSent
    <2>2. conn'[c].phase = "answering"
      BY <1>1, <2>1 DEF Conn
    <2> QED BY <1>1, <1>2, <2>1, <2>2, CountSame DEF Streaming
  <1>8. CASE AttachAnswer(c) /\ AnswerFailed(c)
    <2>1. /\ conn[c].phase = "answering" /\ fol' = fol /\ closed' = closed /\ attached' = attached - 1
          /\ conn' = [conn EXCEPT ![c].phase = "leaving"] /\ closed[c]
      BY <1>8 DEF AttachAnswer, AnswerFailed
    <2>2. conn'[c].phase = "leaving"
      BY <1>1, <2>1 DEF Conn
    <2> QED BY <1>1, <1>2, <2>1, <2>2, CountLess DEF Streaming
  <1>9. CASE AttachStart(c)
    <2>1. /\ conn[c].phase = "answering" /\ closed' = closed /\ attached' = attached
          /\ conn' = [conn EXCEPT ![c] = Idle]
          /\ fol' = [fol EXCEPT ![c] = [NoStream EXCEPT !.state = "run", !.cursor = conn[c].from]]
      BY <1>9 DEF AttachStart
    <2>2. conn'[c].phase = "idle" /\ fol'[c].state = "run"
      BY <1>1, <2>1 DEF Idle, NoStream
    <2> QED BY <1>1, <2>1, <2>2, CountSame DEF Streaming
  <1>10. CASE DetachAsk(c)
    <2>1. /\ conn[c].phase = "idle" /\ closed' = closed /\ attached' = attached
          /\ conn' = [conn EXCEPT ![c].phase = "joining"] /\ fol' = [fol EXCEPT ![c].stop = TRUE]
      BY <1>10 DEF DetachAsk
    <2>2. conn'[c].phase = "joining" /\ fol'[c].state = fol[c].state
      BY <1>1, <2>1 DEF Conn, Stream
    <2> QED BY <1>1, <2>1, <2>2, CountSame DEF Streaming
  <1>11. CASE DetachReply(c)
    <2>1. /\ conn[c].phase = "joining" /\ fol[c].state = "done"
          /\ closed' = closed /\ attached' = attached /\ fol' = [fol EXCEPT ![c] = NoStream]
          /\ \/ conn' = [conn EXCEPT ![c] = Idle]
             \/ closed[c] /\ conn' = [conn EXCEPT ![c].phase = "leaving"]
      BY <1>11 DEF DetachReply
    <2>2. /\ conn'[c].phase = "idle" \/ (closed[c] /\ conn'[c].phase = "leaving")
          /\ fol'[c].state = "none"
      BY <1>1, <2>1 DEF Conn, Idle, NoStream
    <2>3. \A d \in Connections \ {c} : conn'[d] = conn[d] /\ fol'[d] = fol[d]
      BY <1>1, <2>1
    <2> QED BY <1>1, <2>1, <2>2, <2>3, CountSame DEF Streaming
  <1>12. CASE Forget(c)
    <2>1. /\ conn[c].phase = "idle" /\ closed' = closed /\ attached' = attached /\ fol' = fol
          /\ conn' = [conn EXCEPT ![c].phase = "clearing"]
      BY <1>12 DEF Forget
    <2>2. conn'[c].phase = "clearing"
      BY <1>1, <2>1 DEF Conn
    <2> QED BY <1>1, <2>1, <2>2, CountSame DEF Streaming
  <1>13. CASE ReleaseLog(c)
    <2>1. /\ conn[c].phase = "clearing" /\ closed' = closed /\ attached' = attached /\ fol' = fol
          /\ conn' = [conn EXCEPT ![c] = Idle]
      BY <1>13 DEF ReleaseLog
    <2>2. conn'[c].phase = "idle"
      BY <1>1, <2>1 DEF Idle
    <2> QED BY <1>1, <2>1, <2>2, CountSame DEF Streaming
  <1>14. CASE Leave(c)
    <2>1. /\ conn[c].phase = "leaving" \/ (conn[c].phase = "idle" /\ closed[c])
          /\ closed' = closed /\ attached' = attached
          /\ conn' = [conn EXCEPT ![c].phase = "gone"] /\ fol' = [fol EXCEPT ![c].stop = TRUE]
      BY <1>14 DEF Leave
    <2>2. conn'[c].phase = "gone" /\ fol'[c].state = fol[c].state
      BY <1>1, <2>1 DEF Conn, Stream
    <2> QED BY <1>1, <1>2, <2>1, <2>2, CountSame DEF Streaming
  <1>15. CASE Read(c)
    <2>1. /\ fol[c].state = "run" /\ closed' = closed /\ attached' = attached /\ conn' = conn
          /\ ReadStop(c) \/ ReadBatch(c) \/ ReadExit(c)
      BY <1>15 DEF Read
    <2>2. fol'[c].state \in {"send", "ending"} /\ \A d \in Connections \ {c} : fol'[d] = fol[d]
      <3>1. CASE ReadStop(c)
        BY <3>1, <1>1 DEF ReadStop, Stream
      <3>2. CASE ReadBatch(c)
        <4>1. PICK to : fol' = [fol EXCEPT ![c].state = "send", ![c].out = Batch(c, to), ![c].next = to]
          BY <3>2 DEF ReadBatch
        <4> QED BY <4>1, <1>1 DEF Stream
      <3>3. CASE ReadExit(c)
        BY <3>3, <1>1 DEF ReadExit, Stream
      <3> QED BY <2>1, <3>1, <3>2, <3>3
    <2> QED BY <1>2, <2>1, <2>2, CountSame DEF Streaming
  <1>16. CASE SendFrame(c)
    <2>1. /\ fol[c].state = "send" /\ closed' = closed /\ attached' = attached /\ conn' = conn
          /\ \/ fol' = [fol EXCEPT ![c] = Sent(@)]
             \/ fol' = [fol EXCEPT ![c].state = "ending", ![c].out = <<>>]
      BY <1>16 DEF SendFrame
    <2>2. fol'[c].state \in {"run", "send", "ending"} /\ \A d \in Connections \ {c} : fol'[d] = fol[d]
      <3>1. Sent(fol[c]).state \in {"run", "send", "ending"}
        BY <1>1, <2>1 DEF Sent, Stream
      <3>2. CASE fol' = [fol EXCEPT ![c] = Sent(@)]
        BY <1>1, <3>1, <3>2
      <3>3. CASE fol' = [fol EXCEPT ![c].state = "ending", ![c].out = <<>>]
        BY <1>1, <3>3 DEF Stream
      <3> QED BY <2>1, <3>2, <3>3
    <2> QED BY <1>2, <2>1, <2>2, CountSame DEF Streaming
  <1>17. CASE CountDown(c)
    <2>1. /\ fol[c].state = "ending" /\ closed' = closed /\ attached' = attached - 1 /\ conn' = conn
          /\ fol' = [fol EXCEPT ![c].state = "left"]
      BY <1>17 DEF CountDown
    <2>2. fol'[c].state = "left" /\ \A d \in Connections \ {c} : fol'[d] = fol[d]
      BY <1>1, <2>1 DEF Stream
    <2> QED BY <1>2, <2>1, <2>2, CountLess DEF Streaming
  <1>18. CASE Done(c)
    <2>1. /\ fol[c].state = "left" /\ closed' = closed /\ attached' = attached /\ conn' = conn
          /\ fol' = [fol EXCEPT ![c].state = "done"]
      BY <1>18 DEF Done
    <2>2. fol'[c].state = "done" /\ \A d \in Connections \ {c} : fol'[d] = fol[d]
      BY <1>1, <2>1 DEF Stream
    <2> QED BY <1>2, <2>1, <2>2, CountSame DEF Streaming
  <1> HIDE DEF Kept
  <1>19. CASE Serve(c)
    BY <1>6, <1>7, <1>8, <1>9, <1>11, <1>13, <1>14, <1>19 DEF Serve, AttachAnswer
  <1>20. CASE Follow(c)
    BY <1>15, <1>16, <1>17, <1>18, <1>20 DEF Follow
  <1>21. CASE Attach(c)
    BY <1>3, <1>5, <1>21 DEF Attach
  <1> QED BY <1>3, <1>4, <1>10, <1>12, <1>19, <1>20, <1>21

\* Every step keeps the count.
LEMMA CountNext ==
    ASSUME TypeOK, CountInv, [Next]_vars
    PROVE  CountInv'
  <1>1. CASE WriteByte \/ WriteResize \/ Trim \/ BudgetTrim \/ Finish \/ UNCHANGED vars
    <2>1. conn' = conn /\ fol' = fol /\ closed' = closed /\ attached' = attached
      BY <1>1 DEF WriteByte, WriteResize, Append1, Trim, BudgetTrim, Finish, vars
    <2>2. Streamers' = Streamers
      BY <2>1 DEF Streamers, Streaming
    <2> QED BY <2>1, <2>2 DEF CountInv
  <1>2. CASE \E c \in Connections \ Others : Attach(c) \/ DetachAsk(c) \/ Close(c)
    BY <1>2, CountStep
  <1>3. CASE \E c \in Connections : Forget(c) \/ Serve(c) \/ Follow(c) \/ Receive(c)
    BY <1>3, CountStep
  <1> QED BY <1>1, <1>2, <1>3 DEF Next

\* A piece of the log is a sequence of frames that answer nothing and end nothing.
LEMMA ItemsType ==
    ASSUME NEW from \in Nat, NEW to \in Nat, from <= to
    PROVE  /\ Items(from, to) \in Seq(Frame) /\ Len(Items(from, to)) = to - from
           /\ \A i \in 1..to - from : Items(from, to)[i].kind = "item"
  <1>1. to - from \in Nat
    OBVIOUS
  <1>2. \A i \in 1..to - from : Item(from + i - 1) \in Frame /\ Item(from + i - 1).kind = "item"
    BY DEF Item, Frame
  <1> DEFINE n == to - from
             it(i) == Item(from + i - 1)
             a == Items(from, to)
  <1>3. a = [i \in 1..n |-> it(i)]
    BY DEF Items
  <1>4. n \in Nat /\ \A i \in 1..n : it(i) \in Frame /\ it(i).kind = "item"
    BY <1>1, <1>2
  <1> HIDE DEF n, it, a
  <1>5. a \in Seq(Frame) /\ Len(a) = n /\ \A i \in 1..n : a[i].kind = "item"
    BY <1>3, <1>4
  <1> QED BY <1>5 DEF n, a

\* What the client makes of what it reads is a view.
LEMMA ReadsView ==
    ASSUME TypeOK, FlightInv, NEW c \in Connections, ~closed[c], wire[c] # <<>>
    PROVE  /\ See(view[c], Head(wire[c])) = After(written, view[c], Head(wire[c]))
           /\ See(view[c], Head(wire[c])) \in View
           /\ Fits(written, view[c], Head(wire[c]))
           /\ Pending(c) # <<>> /\ Head(Pending(c)) = Head(wire[c])
           /\ Tail(Pending(c)) = (Tail(wire[c]) \o conn[c].out) \o fol[c].out
  <1>1. /\ wire[c] \in Seq(Frame) /\ conn[c].out \in Seq(Frame) /\ fol[c].out \in Seq(Frame)
        /\ Pending(c) \in Seq(Frame) /\ view[c] \in View /\ written \in Seq(Past)
    BY Fields
  <1>2. /\ wire[c] \o conn[c].out # <<>> /\ Head(wire[c] \o conn[c].out) = Head(wire[c])
        /\ Tail(wire[c] \o conn[c].out) = Tail(wire[c]) \o conn[c].out
        /\ wire[c] \o conn[c].out \in Seq(Frame)
    BY <1>1, TakeOne, ConcatProperties
  <1>3. /\ Pending(c) # <<>> /\ Head(Pending(c)) = Head(wire[c])
        /\ Tail(Pending(c)) = (Tail(wire[c]) \o conn[c].out) \o fol[c].out
    <2> DEFINE a == wire[c] \o conn[c].out
               b == fol[c].out
    <2>1. a # <<>> /\ a \in Seq(Frame) /\ b \in Seq(Frame)
      BY <1>1, <1>2
    <2>2. a \o b # <<>> /\ Head(a \o b) = Head(a) /\ Tail(a \o b) = Tail(a) \o b
      <3> HIDE DEF a, b
      <3> QED BY <2>1, TakeOne
    <2> QED BY <1>2, <2>2 DEF Pending
  <1>4. \E v : Leads(written, view[c], Pending(c), v)
    BY DEF FlightInv, Flight, Good, Led
  <1>5. Fits(written, view[c], Head(wire[c]))
    BY <1>1, <1>3, <1>4, LeadsFirst
  <1>6. Head(wire[c]) \in Frame
    BY <1>1, HeadTailProperties
  <1> QED BY <1>1, <1>3, <1>5, <1>6, AfterKnown, SeeIsAfter

(***************************************************************************)
(* Types, and the log.                                                     *)
(***************************************************************************)
\* What LogPromise says of a place.
LEMMA LogAt ==
    ASSUME TypeOK, LogInv
    PROVE  /\ \A p : Log!At(p) = StateAt(written, p)
           /\ \A p \in 0..Tip : /\ StateAt(written, p) \in Past
                                /\ StateAt(written, p).modes \in Modes
                                /\ StateAt(written, p).size \in Sizes \cup {FirstSize}
                                /\ StateAt(written, p).safe \in BOOLEAN
           /\ Tip \in Nat /\ head \in Nat /\ head <= Tip
           /\ head > 0 => modes \in Modes
  <1>1. \A p : Log!At(p) = StateAt(written, p)
    BY DEF Log!At, StateAt
  <1>2. written \in Seq(Past) /\ Tip = Len(written) /\ Tip \in Nat
    BY DEF TypeOK, Tip
  <1>3. \A p \in 0..Tip : StateAt(written, p) \in Past
    BY <1>2, StateType
  <1>4. head \in 0..Tip
    BY DEF LogInv
  <1>5. \A x \in Past : x.modes \in Modes /\ x.size \in Sizes \cup {FirstSize} /\ x.safe \in BOOLEAN
    BY DEF Past
  <1> QED BY <1>1, <1>2, <1>3, <1>4, <1>5 DEF LogInv

\* The log moves its head or stays.
LEMMA HeadMoves ==
    ASSUME TypeOK, LogInv, NEW h, Log!MoveHead(h)
    PROVE  /\ written' = written /\ LogInv'
           /\ head' \in Nat /\ modes' \in Modes \cup {NoModes} /\ torn' \in BOOLEAN
  <1>1. /\ h \in head..Tip /\ head' = h /\ written' = written
        /\ modes' = StateAt(written, h).modes /\ torn' = ~StateAt(written, h).safe
    BY LogAt DEF Log!MoveHead, Tip
  <1>2. h \in 0..Tip /\ h \in Nat
    BY <1>1, LogAt
  <1>3. modes' \in Modes /\ torn' \in BOOLEAN
    BY <1>1, <1>2, LogAt
  <1>4. Tip' = Tip /\ StateAt(written', head') = StateAt(written, h)
    BY <1>1 DEF Tip, StateAt
  <1> QED BY <1>1, <1>2, <1>3, <1>4 DEF LogInv

\* The log is added to.
LEMMA LogGrows ==
    ASSUME TypeOK, LogInv, WriteByte \/ WriteResize
    PROVE  /\ written' \in Seq(Past) /\ Continues(written', written) /\ LogInv' /\ ~exit
           /\ trimming' = TRUE
           /\ UNCHANGED <<head, modes, torn, exit, forgotten, attached, conn, fol, closed, wire, view>>
  <1>1. PICK p : Append1(p) /\ p \in Past
    <2>1. Now \in Past
      BY LogAt DEF Now
    <2>2. \A b \in Bytes : ByteAfter(b) \in Past
      BY <2>1, LogAt, HostStreamAssumption DEF ByteAfter, Past, Modes
    <2>3. \A z \in Sizes : ResizeTo(z) \in Past
      BY <2>1, LogAt DEF ResizeTo, Past
    <2> QED BY <2>2, <2>3 DEF WriteByte, WriteResize
  <1>2. /\ written' = Append(written, p) /\ ~exit /\ trimming' = TRUE /\ head' = head /\ modes' = modes
        /\ UNCHANGED <<head, modes, torn, exit, forgotten, attached, conn, fol, closed, wire, view>>
    BY <1>1 DEF Append1
  <1>3. written \in Seq(Past)
    BY DEF TypeOK
  <1>4. /\ written' \in Seq(Past) /\ Len(written') = Len(written) + 1
        /\ \A i \in 1..Len(written) : written'[i] = written[i]
    BY <1>1, <1>2, <1>3, AppendProperties
  <1>5. Continues(written', written)
    BY <1>3, <1>4 DEF Continues
  <1>6. head \in 0..Tip /\ Tip = Len(written) /\ Tip \in Nat
    BY <1>3 DEF LogInv, Tip
  <1>7. head \in 0..Tip' /\ StateAt(written', head) = StateAt(written, head)
    BY <1>4, <1>6 DEF Tip, StateAt
  <1>8. LogInv'
    BY <1>2, <1>7 DEF LogInv
  <1> QED BY <1>2, <1>4, <1>5, <1>8

\* A step of a connection, its stream or its client keeps the types.
LEMMA TypeStep ==
    ASSUME TypeOK, LogInv, CountInv, FlightInv, NEW c \in Connections, attached' \in Nat,
           \/ Attach(c) \/ DetachAsk(c) \/ Close(c)
           \/ Forget(c) \/ Serve(c) \/ Follow(c) \/ Receive(c)
    PROVE  TypeOK' /\ LogInv'
  <1> DEFINE LogKept == UNCHANGED <<written, head, modes, torn, trimming, exit>>
             Typed == /\ conn' \in [Connections -> Conn] /\ fol' \in [Connections -> Stream]
                      /\ closed' \in [Connections -> BOOLEAN]
                      /\ wire' \in [Connections -> Seq(Frame)]
                      /\ view' \in [Connections -> View] /\ forgotten' \in BOOLEAN
  <1>1. /\ conn \in [Connections -> Conn] /\ fol \in [Connections -> Stream]
        /\ closed \in [Connections -> BOOLEAN] /\ wire \in [Connections -> Seq(Frame)]
        /\ view \in [Connections -> View] /\ forgotten \in BOOLEAN
        /\ conn[c] \in Conn /\ fol[c] \in Stream /\ closed[c] \in BOOLEAN
        /\ wire[c] \in Seq(Frame) /\ view[c] \in View
    BY DEF TypeOK, Conn, Stream, View
  <1>0. <<>> \in Seq(Frame)
    OBVIOUS
  <1>2. ASSUME LogKept, Typed PROVE TypeOK' /\ LogInv'
    BY <1>2 DEF TypeOK, LogInv, Conn, Stream, View, Tip, StateAt
  <1>3. \A x \in Frame : Append(wire[c], x) \in Seq(Frame)
    BY <1>1
  <1>4. Refused \in Frame /\ Detached \in Frame /\ Exited \in Frame
    BY DEF Refused, Detached, Exited, Frame
  <1>5. Idle \in Conn /\ NoStream \in Stream
    BY DEF Idle, NoStream, Conn, Stream, Phases
  <1>6. CASE AttachRefuse(c)
    <2>1. [view[c] EXCEPT !.asked = TRUE] \in View
      BY <1>1 DEF View
    <2>2. /\ wire' = [wire EXCEPT ![c] = Append(wire[c], Refused)]
          /\ view' = [view EXCEPT ![c] = [view[c] EXCEPT !.asked = TRUE]]
          /\ LogKept /\ UNCHANGED <<conn, fol, closed, forgotten>>
      BY <1>1, <1>6 DEF AttachRefuse, Send, log
    <2> QED BY <1>1, <1>2, <1>3, <1>4, <2>1, <2>2
  <1>7. ASSUME NEW from \in Nat, AttachFind(c, from) PROVE TypeOK' /\ LogInv'
    <2>1. [view[c] EXCEPT !.asked = TRUE] \in View
      BY <1>1 DEF View
    <2>2. [phase |-> "found", from |-> from, out |-> <<>>] \in Conn
      BY DEF Conn, Phases
    <2>3. /\ view' = [view EXCEPT ![c] = [view[c] EXCEPT !.asked = TRUE]]
          /\ fol' = [fol EXCEPT ![c] = NoStream]
          /\ conn' = [conn EXCEPT ![c] = [phase |-> "found", from |-> from, out |-> <<>>]]
          /\ LogKept /\ UNCHANGED <<wire, closed, forgotten>>
      BY <1>1, <1>7 DEF AttachFind, log
    <2> QED BY <1>1, <1>2, <1>5, <2>1, <2>2, <2>3
  <1>8. CASE AttachPrepare(c)
    <2> DEFINE from == conn[c].from
               start == IF from < head THEN head ELSE IF from > Tip THEN Tip ELSE from
               r == [phase |-> "answering", from |-> start, out |-> Opening(from, start)]
    <2>1. from \in Nat /\ start \in 0..Tip /\ start \in Nat
      BY LogAt, <1>1 DEF Conn
    <2>2. Reply(from, start) \in Frame
      <3>1. Log!At(start).size \in Sizes \cup {FirstSize}
        BY <2>1, LogAt
      <3> QED BY <2>1, <3>1, LogAt DEF Reply, Frame
    <2>3. from < head => Preamble \in Frame
      BY <2>1, LogAt DEF Preamble, Frame
    <2>4. Opening(from, start) \in Seq(Frame)
      BY <2>2, <2>3 DEF Opening
    <2>5. r \in Conn
      BY <2>1, <2>4 DEF Conn, Phases
    <2>6. /\ conn' = [conn EXCEPT ![c] = r]
          /\ LogKept /\ UNCHANGED <<fol, closed, wire, view, forgotten>>
      BY <1>8 DEF AttachPrepare, log
    <2> QED BY <1>1, <1>2, <2>5, <2>6
  <1>9. CASE AttachAnswer(c) /\ AnswerSent(c)
    <2>1. conn[c].out \in Seq(Frame) /\ conn[c].out # <<>>
      BY <1>1, <1>9 DEF AttachAnswer, Conn
    <2>2. Head(conn[c].out) \in Frame /\ Tail(conn[c].out) \in Seq(Frame)
      BY <2>1, HeadTailProperties
    <2>3. [conn[c] EXCEPT !.out = Tail(conn[c].out)] \in Conn
      BY <1>1, <2>2 DEF Conn
    <2>4. /\ wire' = [wire EXCEPT ![c] = Append(wire[c], Head(conn[c].out))]
          /\ conn' = [conn EXCEPT ![c] = [conn[c] EXCEPT !.out = Tail(conn[c].out)]]
          /\ LogKept /\ UNCHANGED <<fol, closed, view, forgotten>>
      BY <1>1, <1>9 DEF AttachAnswer, AnswerSent, Send, log
    <2> QED BY <1>1, <1>2, <1>3, <2>2, <2>3, <2>4
  <1>10. CASE AttachAnswer(c) /\ AnswerFailed(c)
    <2>1. [conn[c] EXCEPT !.phase = "leaving"] \in Conn
      BY <1>1 DEF Conn, Phases
    <2>2. /\ conn' = [conn EXCEPT ![c] = [conn[c] EXCEPT !.phase = "leaving"]]
          /\ LogKept /\ UNCHANGED <<wire, fol, closed, view, forgotten>>
      BY <1>1, <1>10 DEF AttachAnswer, AnswerFailed, log
    <2> QED BY <1>1, <1>2, <2>1, <2>2
  <1>11. CASE AttachStart(c)
    <2>1. [NoStream EXCEPT !.state = "run", !.cursor = conn[c].from] \in Stream
      <3>1. conn[c].from \in Nat
        BY <1>1 DEF Conn
      <3> QED BY <1>5, <3>1 DEF Stream
    <2>2. /\ conn' = [conn EXCEPT ![c] = Idle]
          /\ fol' = [fol EXCEPT ![c] = [NoStream EXCEPT !.state = "run", !.cursor = conn[c].from]]
          /\ LogKept /\ UNCHANGED <<wire, closed, view, forgotten>>
      BY <1>11 DEF AttachStart, log
    <2> QED BY <1>1, <1>2, <1>5, <2>1, <2>2
  <1>12. CASE DetachAsk(c)
    <2>1. /\ [conn[c] EXCEPT !.phase = "joining"] \in Conn
          /\ [fol[c] EXCEPT !.stop = TRUE] \in Stream /\ [view[c] EXCEPT !.on = FALSE] \in View
      BY <1>1 DEF Conn, Stream, View, Phases
    <2>2. /\ conn' = [conn EXCEPT ![c] = [conn[c] EXCEPT !.phase = "joining"]]
          /\ fol' = [fol EXCEPT ![c] = [fol[c] EXCEPT !.stop = TRUE]]
          /\ view' = [view EXCEPT ![c] = [view[c] EXCEPT !.on = FALSE]]
          /\ LogKept /\ UNCHANGED <<wire, closed, forgotten>>
      BY <1>1, <1>12 DEF DetachAsk, log
    <2> QED BY <1>1, <1>2, <2>1, <2>2
  <1>13. CASE DetachReply(c)
    <2>1. [conn[c] EXCEPT !.phase = "leaving"] \in Conn
      BY <1>1 DEF Conn, Phases
    <2>2. /\ conn' = [conn EXCEPT ![c] = Idle] \/ conn' = [conn EXCEPT ![c] = [conn[c] EXCEPT !.phase = "leaving"]]
          /\ wire' = wire \/ wire' = [wire EXCEPT ![c] = Append(wire[c], Detached)]
          /\ fol' = [fol EXCEPT ![c] = NoStream]
          /\ LogKept /\ UNCHANGED <<closed, view, forgotten>>
      BY <1>1, <1>13 DEF DetachReply, Send, log
    <2>3. conn' \in [Connections -> Conn] /\ wire' \in [Connections -> Seq(Frame)]
      BY <1>1, <1>3, <1>4, <1>5, <2>1, <2>2
    <2> QED BY <1>1, <1>2, <1>5, <2>2, <2>3
  <1>14. CASE Forget(c)
    <2>1. [conn[c] EXCEPT !.phase = "clearing"] \in Conn
      BY <1>1 DEF Conn, Phases
    <2>2. /\ conn' = [conn EXCEPT ![c] = [conn[c] EXCEPT !.phase = "clearing"]]
          /\ forgotten' = TRUE /\ LogKept /\ UNCHANGED <<wire, fol, closed, view>>
      BY <1>1, <1>14 DEF Forget, log
    <2> QED BY <1>1, <1>2, <2>1, <2>2
  <1>15. CASE ReleaseLog(c)
    <2>1. Log!MoveHead(Tip) /\ conn' = [conn EXCEPT ![c] = Idle]
          /\ UNCHANGED <<trimming, exit, forgotten, fol, closed, wire, view>>
      BY <1>15 DEF ReleaseLog
    <2>2. conn' \in [Connections -> Conn]
      BY <1>1, <1>5, <2>1
    <2> QED BY <1>1, <2>1, <2>2, HeadMoves DEF TypeOK, Conn, Stream, View
  <1>16. CASE Leave(c)
    <2>1. /\ [conn[c] EXCEPT !.phase = "gone"] \in Conn
          /\ [fol[c] EXCEPT !.stop = TRUE] \in Stream
      BY <1>1 DEF Conn, Stream, Phases
    <2>2. /\ conn' = [conn EXCEPT ![c] = [conn[c] EXCEPT !.phase = "gone"]]
          /\ fol' = [fol EXCEPT ![c] = [fol[c] EXCEPT !.stop = TRUE]]
          /\ LogKept /\ UNCHANGED <<wire, closed, view, forgotten>>
      BY <1>1, <1>16 DEF Leave, log
    <2> QED BY <1>1, <1>2, <2>1, <2>2
  <1>17. CASE Read(c)
    <2>1. LogKept /\ UNCHANGED <<conn, wire, closed, view, forgotten>>
          /\ (ReadStop(c) \/ ReadBatch(c) \/ ReadExit(c))
      BY <1>17 DEF Read, log
    <2>2. CASE ReadStop(c)
      <3>1. [fol[c] EXCEPT !.state = "ending"] \in Stream
        BY <1>1 DEF Stream
      <3>2. fol' = [fol EXCEPT ![c] = [fol[c] EXCEPT !.state = "ending"]]
        BY <1>1, <2>2 DEF ReadStop
      <3> QED BY <1>1, <1>2, <2>1, <3>1, <3>2
    <2>3. CASE ReadBatch(c)
      <3>1. PICK to \in Start(c)..Tip :
               fol' = [fol EXCEPT ![c].state = "send", ![c].out = Batch(c, to), ![c].next = to]
        BY <2>3 DEF ReadBatch
      <3>2. fol[c].cursor \in Nat
        BY <1>1 DEF Stream
      <3>3. Start(c) \in Nat /\ to \in Nat /\ Start(c) <= to
        BY <3>2, LogAt DEF Start
      <3>4. Items(Start(c), to) \in Seq(Frame)
        BY <3>3, ItemsType
      <3>5. Lost(c) => <<Gap(fol[c].cursor, head), Preamble>> \in Seq(Frame)
        <4>1. Lost(c) => Gap(fol[c].cursor, head) \in Frame /\ Preamble \in Frame
          BY <3>2, LogAt DEF Lost, Gap, Preamble, Frame
        <4> QED BY <4>1
      <3>6. Batch(c, to) \in Seq(Frame)
        BY <3>4, <3>5, ConcatProperties DEF Batch
      <3>7. [fol[c] EXCEPT !.state = "send", !.out = Batch(c, to), !.next = to] \in Stream
        BY <1>1, <3>3, <3>6 DEF Stream
      <3>8. fol' = [fol EXCEPT ![c] = [fol[c] EXCEPT !.state = "send", !.out = Batch(c, to), !.next = to]]
        BY <1>1, <3>1
      <3> QED BY <1>1, <1>2, <2>1, <3>7, <3>8
    <2>4. CASE ReadExit(c)
      <3>1. [fol[c] EXCEPT !.state = "send", !.out = <<Exited>>, !.next = fol[c].cursor] \in Stream
        <4>1. <<Exited>> \in Seq(Frame)
          BY <1>4
        <4> QED BY <1>1, <4>1 DEF Stream
      <3>2. fol' = [fol EXCEPT ![c] = [fol[c] EXCEPT !.state = "send", !.out = <<Exited>>,
                                                     !.next = fol[c].cursor]]
        BY <1>1, <2>4 DEF ReadExit
      <3> QED BY <1>1, <1>2, <2>1, <3>1, <3>2
    <2> QED BY <2>1, <2>2, <2>3, <2>4
  <1>18. CASE SendFrame(c)
    <2>1. fol[c].state = "send" /\ LogKept /\ UNCHANGED <<conn, closed, view, forgotten>>
      BY <1>18 DEF SendFrame, log
    <2>2. CASE ~closed[c] /\ Send(c, Head(fol[c].out)) /\ fol' = [fol EXCEPT ![c] = Sent(fol[c])]
      <3>1. fol[c].out \in Seq(Frame) /\ fol[c].out # <<>>
        BY <1>1, <2>1, <2>2 DEF Stream, FlightInv, Flight, Good, Shape
      <3>2. Head(fol[c].out) \in Frame /\ Tail(fol[c].out) \in Seq(Frame)
        BY <3>1, HeadTailProperties
      <3>3. Sent(fol[c]) \in Stream
        <4>1. CASE Tail(fol[c].out) # <<>>
          BY <1>1, <3>2, <4>1 DEF Sent, Stream
        <4>2. CASE Tail(fol[c].out) = <<>>
          BY <1>1, <1>0, <4>2 DEF Sent, Stream
        <4> QED BY <4>1, <4>2
      <3>4. wire' = [wire EXCEPT ![c] = Append(wire[c], Head(fol[c].out))]
        BY <2>2 DEF Send
      <3> QED BY <1>1, <1>2, <1>3, <2>1, <2>2, <3>2, <3>3, <3>4
    <2>3. CASE fol' = [fol EXCEPT ![c].state = "ending", ![c].out = <<>>] /\ wire' = wire
      <3>1. [fol[c] EXCEPT !.state = "ending", !.out = <<>>] \in Stream
        BY <1>0, <1>1 DEF Stream
      <3>2. fol' = [fol EXCEPT ![c] = [fol[c] EXCEPT !.state = "ending", !.out = <<>>]]
        BY <1>1, <2>3
      <3> QED BY <1>1, <1>2, <2>1, <2>3, <3>1, <3>2
    <2> QED BY <1>18, <2>2, <2>3 DEF SendFrame, CanSend
  <1>19. CASE CountDown(c) \/ Done(c)
    <2>1. /\ [fol[c] EXCEPT !.state = "left"] \in Stream
          /\ [fol[c] EXCEPT !.state = "done"] \in Stream
      BY <1>1 DEF Stream
    <2>2. /\ \/ fol' = [fol EXCEPT ![c] = [fol[c] EXCEPT !.state = "left"]]
             \/ fol' = [fol EXCEPT ![c] = [fol[c] EXCEPT !.state = "done"]]
          /\ LogKept /\ UNCHANGED <<conn, wire, closed, view, forgotten>>
      BY <1>1, <1>19 DEF CountDown, Done, log
    <2>3. fol' \in [Connections -> Stream]
      BY <1>1, <2>1, <2>2
    <2> QED BY <1>1, <1>2, <2>2, <2>3
  <1>20. CASE Close(c)
    <2>1. NoView \in View
      BY DEF NoView, View, Modes
    <2>2. /\ closed' = [closed EXCEPT ![c] = TRUE] /\ wire' = [wire EXCEPT ![c] = <<>>]
          /\ view' = [view EXCEPT ![c] = NoView] /\ LogKept /\ UNCHANGED <<conn, fol, forgotten>>
      BY <1>20 DEF Close, log
    <2>3. wire' \in [Connections -> Seq(Frame)]
      BY <1>1, <2>2
    <2> QED BY <1>1, <1>2, <2>1, <2>2, <2>3
  <1>21. CASE Receive(c)
    <2>1. ~closed[c] /\ wire[c] # <<>>
      BY <1>21 DEF Receive
    <2>2. Head(wire[c]) \in Frame /\ Tail(wire[c]) \in Seq(Frame)
      BY <1>1, <2>1, HeadTailProperties
    <2>3. See(view[c], Head(wire[c])) \in View
      BY <1>1, <2>1, <2>2, ReadsView
    <2>4. /\ view' = [view EXCEPT ![c] = See(view[c], Head(wire[c]))]
          /\ wire' = [wire EXCEPT ![c] = Tail(wire[c])]
          /\ LogKept /\ UNCHANGED <<conn, fol, closed, forgotten>>
      BY <1>21 DEF Receive, log
    <2> QED BY <1>1, <1>2, <2>2, <2>3, <2>4
  <1> HIDE DEF LogKept, Typed
  <1>22. CASE Serve(c)
    BY <1>8, <1>9, <1>10, <1>11, <1>13, <1>15, <1>16, <1>22 DEF Serve, AttachAnswer
  <1>23. CASE Follow(c)
    BY <1>17, <1>18, <1>19, <1>23 DEF Follow
  <1>24. CASE Attach(c)
    <2>1. view[c].at \in Nat /\ 0 \in Nat
      BY <1>1 DEF View
    <2> QED BY <1>6, <1>7, <1>24, <2>1 DEF Attach
  <1> QED BY <1>12, <1>14, <1>20, <1>21, <1>22, <1>23, <1>24

\* Every step keeps the types and what is known of the log.
LEMMA TypeNext ==
    ASSUME IInv, [Next]_vars
    PROVE  TypeOK' /\ LogInv' /\ CountInv'
  <1>1. CountInv'
    BY CountNext DEF IInv
  <1>2. attached' \in Nat
    <2>1. Streamers' \subseteq Connections
      BY DEF Streamers
    <2> QED BY <1>1, <2>1, FewStreams DEF CountInv
  <1>3. CASE WriteByte \/ WriteResize
    BY <1>1, <1>2, <1>3, LogGrows DEF IInv, TypeOK
  <1>4. CASE Trim \/ BudgetTrim
    <2>1. /\ trimming' \in BOOLEAN
          /\ UNCHANGED <<exit, forgotten, conn, fol, closed, wire, view>>
          /\ (\E h : Log!MoveHead(h)) \/ UNCHANGED log
      BY <1>4 DEF Trim, BudgetTrim, IInv, TypeOK
    <2>2. CASE \E h : Log!MoveHead(h)
      BY <1>1, <1>2, <2>1, <2>2, HeadMoves DEF IInv, TypeOK
    <2>3. CASE UNCHANGED log
      BY <1>1, <1>2, <2>1, <2>3 DEF IInv, TypeOK, LogInv, log, Tip, StateAt
    <2> QED BY <2>1, <2>2, <2>3
  <1>5. CASE Finish \/ UNCHANGED vars
    BY <1>1, <1>2, <1>5 DEF Finish, vars, log, IInv, TypeOK, LogInv, Tip, StateAt
  <1>6. CASE \E c \in Connections \ Others : Attach(c) \/ DetachAsk(c) \/ Close(c)
    BY <1>1, <1>2, <1>6, TypeStep DEF IInv
  <1>7. CASE \E c \in Connections : Forget(c) \/ Serve(c) \/ Follow(c) \/ Receive(c)
    BY <1>1, <1>2, <1>7, TypeStep DEF IInv
  <1> QED BY <1>3, <1>4, <1>5, <1>6, <1>7 DEF Next

(***************************************************************************)
(* What is in flight, step by step.                                        *)
(***************************************************************************)
\* What a step leaves alone stays right.
LEMMA Untouched ==
    ASSUME NEW d \in Connections, Flight(d), written' = written, exit' = exit,
           conn'[d] = conn[d], fol'[d] = fol[d], closed'[d] = closed[d],
           wire'[d] = wire[d], view'[d] = view[d]
    PROVE  Flight(d)'
  <1>1. Pending(d)' = Pending(d)
    BY DEF Pending
  <1> QED BY <1>1 DEF Flight

\* A step of a connection, its stream or its client is of no other connection.
LEMMA Elsewhere ==
    ASSUME TypeOK, LogInv, NEW c \in Connections, NEW d \in Connections, d # c,
           \/ Attach(c) \/ DetachAsk(c) \/ Close(c)
           \/ Forget(c) \/ Serve(c) \/ Follow(c) \/ Receive(c)
    PROVE  /\ written' = written /\ exit' = exit
           /\ conn'[d] = conn[d] /\ fol'[d] = fol[d] /\ closed'[d] = closed[d]
           /\ wire'[d] = wire[d] /\ view'[d] = view[d]
  <1> DEFINE Same == /\ written' = written /\ exit' = exit
                     /\ conn'[d] = conn[d] /\ fol'[d] = fol[d] /\ closed'[d] = closed[d]
                     /\ wire'[d] = wire[d] /\ view'[d] = view[d]
  <1>1. /\ conn \in [Connections -> Conn] /\ fol \in [Connections -> Stream]
        /\ closed \in [Connections -> BOOLEAN] /\ wire \in [Connections -> Seq(Frame)]
        /\ view \in [Connections -> View]
    BY DEF TypeOK, Conn, Stream, View
  <1>2. CASE Attach(c)
    BY <1>1, <1>2 DEF Attach, AttachRefuse, AttachFind, Send, log
  <1>3. CASE DetachAsk(c) \/ Close(c) \/ Forget(c) \/ Receive(c)
    BY <1>1, <1>3 DEF DetachAsk, Close, Forget, Receive, log
  <1>4. CASE AttachPrepare(c) \/ AttachAnswer(c) \/ AttachStart(c)
    BY <1>1, <1>4 DEF AttachPrepare, AttachAnswer, AnswerSent, AnswerFailed, AttachStart, Send, log
  <1>5. CASE DetachReply(c) \/ Leave(c)
    BY <1>1, <1>5 DEF DetachReply, Leave, Send, log
  <1>6. CASE ReleaseLog(c)
    <2>1. /\ Log!MoveHead(Tip) /\ exit' = exit /\ conn' = [conn EXCEPT ![c] = Idle]
          /\ UNCHANGED <<fol, closed, wire, view>>
      BY <1>6 DEF ReleaseLog
    <2> QED BY <1>1, <2>1, HeadMoves
  <1>7. CASE Read(c)
    <2>1. UNCHANGED <<written, exit, conn, closed, wire, view>>
      BY <1>7 DEF Read, log
    <2>2. fol'[d] = fol[d]
      BY <1>1, <1>7 DEF Read, ReadStop, ReadBatch, ReadExit
    <2> QED BY <2>1, <2>2
  <1>8. CASE SendFrame(c)
    BY <1>1, <1>8 DEF SendFrame, Send, log
  <1>9. CASE CountDown(c) \/ Done(c)
    BY <1>1, <1>9 DEF CountDown, Done, log
  <1> HIDE DEF Same
  <1> QED BY <1>2, <1>3, <1>4, <1>5, <1>6, <1>7, <1>8, <1>9 DEF Serve, Follow, Same

\* The session goes on under its streams.
LEMMA FlightLog ==
    ASSUME IInv, WriteByte \/ WriteResize \/ Trim \/ BudgetTrim \/ Finish \/ UNCHANGED vars
    PROVE  FlightInv'
  <1> SUFFICES ASSUME NEW d \in Connections PROVE Flight(d)'
    BY DEF FlightInv
  <1>1. /\ TypeOK /\ LogInv /\ Flight(d) /\ written \in Seq(Past)
        /\ view[d] \in View /\ Pending(d) \in Seq(Frame)
    BY Fields DEF IInv, FlightInv
  <1>2. CASE WriteByte \/ WriteResize
    <2>1. /\ Continues(written', written) /\ ~exit
          /\ UNCHANGED <<exit, conn, fol, closed, wire, view>>
      BY <1>1, <1>2, LogGrows
    <2>2. Pending(d)' = Pending(d)
      BY <2>1 DEF Pending
    <2> QED BY <1>1, <2>1, <2>2, GoodGrows DEF Flight
  <1>3. CASE Finish
    <2>1. written' = written /\ exit' = TRUE /\ UNCHANGED <<conn, fol, closed, wire, view>>
      BY <1>3 DEF Finish, log
    <2>2. Pending(d)' = Pending(d)
      BY <2>1 DEF Pending
    <2> QED BY <1>1, <2>1, <2>2, GoodGrows DEF Flight
  <1>4. CASE Trim \/ BudgetTrim
    <2>1. /\ UNCHANGED <<exit, conn, fol, closed, wire, view>>
          /\ (\E h : Log!MoveHead(h)) \/ UNCHANGED log
      BY <1>4 DEF Trim, BudgetTrim
    <2>2. written' = written
      BY <1>1, <2>1, HeadMoves DEF log
    <2> QED BY <1>1, <2>1, <2>2, Untouched
  <1>5. CASE UNCHANGED vars
    BY <1>1, <1>5, Untouched DEF vars, log
  <1> QED BY <1>2, <1>3, <1>4, <1>5

\* A client asks for a stream.
LEMMA FlightAttach ==
    ASSUME IInv, NEW c \in Connections, Attach(c)
    PROVE  Flight(c)'
  <1>1. /\ conn[c] \in Conn /\ fol[c] \in Stream /\ wire[c] \in Seq(Frame) /\ view[c] \in View
        /\ conn \in [Connections -> Conn] /\ fol \in [Connections -> Stream]
        /\ wire \in [Connections -> Seq(Frame)] /\ view \in [Connections -> View]
        /\ written \in Seq(Past) /\ Pending(c) \in Seq(Frame)
    BY Fields DEF IInv, TypeOK, Conn, Stream, View
  <1> DEFINE u2 == [view[c] EXCEPT !.asked = TRUE]
  <1>2. ~closed[c] /\ conn[c].phase = "idle" /\ written' = written /\ exit' = exit /\ closed' = closed
    BY DEF Attach, AttachRefuse, AttachFind, CanSend, log
  <1>3. Good(written, exit, conn[c], fol[c], view[c], Pending(c)) /\ ~view[c].on /\ ~view[c].asked
    BY <1>2 DEF IInv, FlightInv, Flight, Attach
  <1>4. Silent(Pending(c)) /\ conn[c].out = <<>> /\ ~Running(conn[c], fol[c]) /\ fol[c].out = <<>>
    BY <1>2, <1>3 DEF Good, Answers, Shape, Running
  <1>5. u2 \in View /\ u2.asked /\ ~u2.on /\ u2.at = view[c].at /\ u2.modes = view[c].modes
    BY <1>1, <1>3 DEF View
  <1>6. CASE AttachRefuse(c)
    <2>1. /\ wire'[c] = Append(wire[c], Refused) /\ view'[c] = u2
          /\ conn' = conn /\ fol' = fol
      BY <1>1, <1>6 DEF AttachRefuse, Send
    <2>2. Pending(c) = wire[c]
      BY <1>1, <1>4 DEF Pending
    <2>3. Pending(c)' = wire[c] \o <<Refused>>
      <3>1. Refused \in Frame
        BY DEF Refused, Frame
      <3>2. Pending(c)' = (Append(wire[c], Refused) \o <<>>) \o <<>>
        BY <1>4, <2>1 DEF Pending
      <3> QED BY <1>1, <3>1, <3>2
    <2>4. Good(written, exit, conn[c], fol[c], u2, wire[c] \o <<Refused>>)
      <3>1. Good(written, exit, conn[c], fol[c], view[c], wire[c]) /\ conn[c].phase # "found"
        BY <1>2, <1>3, <2>2
      <3> QED BY <1>1, <1>3, <1>4, <3>1, GoodRefused
    <2> HIDE DEF u2
    <2> QED BY <1>2, <2>1, <2>3, <2>4 DEF Flight
  <1>7. ASSUME NEW from \in {0, view[c].at}, from # 0 => view[c].modes # NoModes,
               AttachFind(c, from)
        PROVE  Flight(c)'
    <2> DEFINE cn2 == [phase |-> "found", from |-> from, out |-> <<>>]
    <2>1. /\ wire' = wire /\ view'[c] = u2 /\ conn'[c] = cn2 /\ fol'[c] = NoStream
      BY <1>1, <1>7 DEF AttachFind
    <2>2. Pending(c)' = Pending(c)
      BY <1>4, <2>1 DEF Pending, NoStream
    <2>3. Shape(cn2, NoStream) /\ ~Running(cn2, NoStream) /\ ~Live(cn2, NoStream)
      BY DEF Shape, NoStream, Running, Live
    <2>4. cn2.phase = "found" /\ (cn2.from = 0 \/ (cn2.from = u2.at /\ u2.modes # NoModes))
      BY <1>5, <1>7
    <2> HIDE DEF cn2, u2
    <2>5. Good(written, exit, cn2, NoStream, u2, Pending(c))
      BY <1>1, <1>3, <1>4, <1>5, <2>3, <2>4, GoodAsks
    <2> QED BY <1>2, <2>1, <2>2, <2>5 DEF Flight
  <1> QED BY <1>6, <1>7 DEF Attach

\* The reply that opens a stream, with the modes if output is missing, brings
\* the client to where its stream will read first.
LEMMA OpeningLeads ==
    ASSUME TypeOK, LogInv, NEW u \in View, Known(written, u), NEW from \in Nat,
           from = 0 \/ (from = u.at /\ u.modes # NoModes), NEW start,
           start = IF from < head THEN head ELSE IF from > Tip THEN Tip ELSE from
    PROVE  /\ start \in Nat /\ Reply(from, start) \in Frame
           /\ from < head => Preamble \in Frame
           /\ \E x \in View : /\ Leads(written, u, Opening(from, start), x)
                              /\ Stands(written, x, start)
  <1> DEFINE r == Reply(from, start)
             e == Preamble
             v == After(written, u, r)
  <1>1. /\ start \in 0..Tip /\ start \in Nat /\ head \in Nat /\ head <= Tip
        /\ Tip = Len(written) /\ Tip \in Nat /\ written \in Seq(Past)
    BY LogAt DEF Tip, TypeOK
  <1>2. /\ r \in Frame /\ r.kind = "attached" /\ r.from = from /\ r.seq = start
        /\ (from < head) => r.gap
        /\ ~(from < head) => ~r.gap
    <2>1. Log!At(start).size \in Sizes \cup {FirstSize}
      BY <1>1, LogAt
    <2>2. /\ r \in Frame /\ r.kind = "attached" /\ r.from = from /\ r.seq = start
          /\ r.gap = (from < head)
      BY <1>1, <2>1 DEF Reply, Frame
    <2> HIDE DEF r
    <2> QED BY <2>2
  <1>3. from < head => /\ e \in Frame /\ e.kind = "preamble" /\ start = head
                       /\ e.modes = StateAt(written, start).modes
    BY <1>1, LogAt DEF Preamble, Frame, LogInv
  <1> HIDE DEF r, e
  <1>4. Fits(written, u, r)
    <2>1. ASSUME ~(from < head) PROVE IF from = 0 THEN start = 0 ELSE start = u.at /\ u.modes # NoModes
      BY <1>1, <2>1 DEF Known
    <2>2. r.kind # "item" /\ r.kind # "gap" /\ r.kind # "exited" /\ r.kind # "preamble"
      BY <1>2
    <2> QED BY <1>1, <1>2, <2>1, <2>2 DEF Fits
  <1>5. v \in View /\ Leads(written, u, <<r>>, v) /\ Known(written, v)
    BY <1>1, <1>2, <1>4, LeadsOne, AfterKnown
  <1>6. v = Opened(u, r)
    BY <1>2 DEF After
  <1>7. v.on /\ v.at = start
    BY <1>2, <1>6 DEF Opened
  <1>8. ~(from < head) => v.modes = StateAt(written, start).modes
    <2>1. ASSUME ~(from < head) PROVE v.modes = IF from = 0 THEN FirstModes ELSE u.modes
      <3>1. v.modes = IF r.gap THEN NoModes ELSE IF r.from = 0 THEN FirstModes ELSE u.modes
        BY <1>6 DEF Opened
      <3> QED BY <1>2, <2>1, <3>1
    <2>2. FirstModes = StateAt(written, 0).modes
      BY DEF StateAt, Origin
    <2>3. from = 0 => start = 0 \/ from < head
      BY <1>1
    <2>4. from # 0 /\ ~(from < head) => start = u.at
      BY <1>1 DEF Known
    <2> QED BY <2>1, <2>2, <2>3, <2>4 DEF Known
  <1> HIDE DEF v
  <1>9. CASE ~(from < head)
    <2>1. Opening(from, start) = <<r>>
      BY <1>9 DEF Opening, r
    <2>2. Stands(written, v, start)
      BY <1>1, <1>7, <1>8, <1>9 DEF Stands
    <2> QED BY <1>1, <1>2, <1>5, <1>9, <2>1, <2>2 DEF r
  <1>10. CASE from < head
    <2> DEFINE x == After(written, v, e)
    <2>1. Opening(from, start) = <<r, e>>
      BY <1>10 DEF Opening, r, e
    <2>2. Fits(written, v, e)
      BY <1>3, <1>5, <1>7, <1>10 DEF Fits
    <2>3. x \in View /\ Leads(written, v, <<e>>, x)
      BY <1>1, <1>3, <1>5, <1>10, <2>2, LeadsOne
    <2>4. x = [v EXCEPT !.modes = e.modes]
      BY <1>3, <1>7, <1>10 DEF After
    <2>5. x.at = start /\ x.modes = StateAt(written, start).modes
      BY <1>3, <1>5, <1>7, <1>10, <2>4 DEF View
    <2>6. Stands(written, x, start)
      BY <1>1, <2>5 DEF Stands
    <2> HIDE DEF x
    <2>7. <<r>> \o <<e>> = <<r, e>> /\ <<r>> \in Seq(Frame) /\ <<e>> \in Seq(Frame)
      BY <1>2, <1>3, <1>10, TwoFrames
    <2>8. Leads(written, u, <<r, e>>, x)
      BY <1>5, <2>3, <2>7, LeadsOn
    <2> QED BY <1>1, <1>2, <1>3, <1>10, <2>1, <2>3, <2>6, <2>8 DEF r, e
  <1> QED BY <1>9, <1>10

\* A stream is opened for a client that asked.
LEMMA GoodOpens ==
    ASSUME NEW w \in Seq(Past), NEW ex, NEW cn, NEW f, NEW cn2, NEW u \in View, NEW x \in View,
           NEW fr \in Seq(Frame), NEW b, NEW r \in Frame, NEW e,
           Good(w, ex, cn, f, u, fr), cn.phase = "found", cn2.phase = "answering", Shape(cn2, f),
           r.kind = "attached",
           \/ b = <<r>>
           \/ b = <<r, e>> /\ e \in Frame /\ e.kind = "preamble",
           Leads(w, u, b, x), Stands(w, x, cn2.from)
    PROVE  Good(w, ex, cn2, f, u, fr \o b)
  <1> DEFINE fr2 == fr \o b
             a == fr \o <<r>>
  <1>1. u.asked /\ ~u.on /\ Silent(fr) /\ Known(w, u) /\ Apart(fr)
        /\ \A i \in 1..Len(fr) : fr[i].kind = "exited" => ex
    BY DEF Good, Answers, Led, Parted
  <1>2. <<r>> \in Seq(Frame) /\ Len(<<r>>) = 1 /\ <<r>>[1] = r
    OBVIOUS
  <1>3. /\ a \in Seq(Frame) /\ Apart(a) /\ Reopened(a) /\ OneAnswer(a) /\ NoRefusal(a)
    BY <1>1, <1>2, AnswerFlight, ConcatProperties DEF Feeding
  <1>4. \A i \in 1..Len(a) : a[i].kind = "exited" => ex
    <2> DEFINE o == <<r>>
    <2>1. o \in Seq(Frame) /\ Len(o) = 1 /\ o[1] = r /\ a = fr \o o
      BY <1>2
    <2> HIDE DEF o, a
    <2>2. /\ Len(a) = Len(fr) + 1
          /\ \A i \in 1..Len(fr) + 1 : a[i] = IF i <= Len(fr) THEN fr[i] ELSE o[i - Len(fr)]
      <3>1. /\ Len(fr \o o) = Len(fr) + Len(o)
            /\ \A i \in 1..Len(fr) + Len(o) :
                  (fr \o o)[i] = IF i <= Len(fr) THEN fr[i] ELSE o[i - Len(fr)]
        BY <2>1, ConcatProperties
      <3> QED BY <2>1, <3>1
    <2>3. \A i \in 1..Len(fr) + 1 : i \in 1..Len(fr) \/ (~(i <= Len(fr)) /\ i - Len(fr) = 1)
      OBVIOUS
    <2> QED BY <1>1, <2>1, <2>2, <2>3
  <1>5. /\ b \in Seq(Frame) /\ Apart(fr2) /\ Reopened(fr2) /\ OneAnswer(fr2) /\ NoRefusal(fr2)
        /\ \A i \in 1..Len(fr2) : fr2[i].kind = "exited" => ex
    <2>1. CASE b = <<r>>
      BY <1>2, <1>3, <1>4, <2>1
    <2>2. CASE b = <<r, e>> /\ e \in Frame /\ e.kind = "preamble"
      <3> DEFINE p == <<e>>
      <3>1. p \in Seq(Frame) /\ Len(p) = 1 /\ p[1] = e /\ e.kind = "preamble" /\ p # <<>>
        BY <2>2
      <3>2. fr2 = a \o p
        <4>1. b = <<r>> \o <<e>>
          BY <2>2, TwoFrames
        <4>2. <<r>> \in Seq(Frame) /\ <<e>> \in Seq(Frame)
          BY <2>2
        <4> DEFINE o == <<r>>
        <4> HIDE DEF o, p
        <4>3. b = o \o p /\ o \in Seq(Frame) /\ p \in Seq(Frame)
          BY <4>1, <4>2 DEF o, p
        <4>4. fr \o (o \o p) = (fr \o o) \o p
          BY <4>3, ConcatAssociative, SMTT(30)
        <4> QED BY <4>3, <4>4 DEF o
      <3>3. b \in Seq(Frame)
        BY <2>2
      <3> HIDE DEF p, a, fr2
      <3>4. Silent(p) /\ \A i \in 1..Len(p) - 1 : ~Ending(p[i])
        BY <3>1 DEF Silent, Asking
      <3>5. Apart(a \o p) /\ Reopened(a \o p)
        <4>1. ~Ending(p[Len(p)])
          BY <3>1 DEF Ending
        <4> QED BY <1>3, <3>1, <3>4, <4>1, FeedFlight
      <3>6. /\ OneAnswer(a \o p) /\ NoRefusal(a \o p)
            /\ \A i \in 1..Len(a \o p) :
                  \/ i \in 1..Len(a) /\ (a \o p)[i] = a[i]
                  \/ i - Len(a) \in 1..Len(p) /\ (a \o p)[i] = p[i - Len(a)]
        BY <1>3, <3>1, <3>4, FeedAnswers
      <3>7. \A i \in 1..Len(a \o p) : (a \o p)[i].kind = "exited" => ex
        <4>1. \A j \in 1..Len(p) : p[j].kind # "exited"
          BY <3>1
        <4> QED BY <1>4, <3>6, <4>1
      <3> QED BY <3>2, <3>3, <3>5, <3>6, <3>7
    <2> QED BY <2>1, <2>2
  <1>6. Leads(w, u, fr, u)
    BY <1>1, LeadsQuiet DEF Silent
  <1>7. Leads(w, u, fr2, x)
    BY <1>5, <1>6, LeadsOn
  <1> HIDE DEF fr2
  <1>8. Led(w, cn2, f, u, fr2)
    BY <1>1, <1>7 DEF Led, Place
  <1>9. Answers(cn2, f, u, fr2)
    BY <1>1, <1>5 DEF Answers
  <1>10. Parted(ex, cn2, f, fr2)
    BY <1>5 DEF Parted
  <1> QED BY <1>8, <1>9, <1>10 DEF Good, fr2

\* The session is looked up, and its stream opened.
LEMMA FlightPrepare ==
    ASSUME IInv, NEW c \in Connections, AttachPrepare(c)
    PROVE  Flight(c)'
  <1> DEFINE from == conn[c].from
             start == IF from < head THEN head ELSE IF from > Tip THEN Tip ELSE from
             b == Opening(from, start)
             cn2 == [phase |-> "answering", from |-> start, out |-> b]
  <1>1. /\ conn[c] \in Conn /\ fol[c] \in Stream /\ wire[c] \in Seq(Frame) /\ view[c] \in View
        /\ conn \in [Connections -> Conn] /\ from \in Nat
        /\ written \in Seq(Past) /\ Pending(c) \in Seq(Frame)
    BY Fields DEF IInv, TypeOK, Conn, Stream, View
  <1>2. /\ conn[c].phase = "found" /\ conn'[c] = cn2
        /\ UNCHANGED <<written, exit, fol, closed, wire, view>>
    BY <1>1 DEF AttachPrepare, log
  <1>3. CASE closed[c]
    BY <1>2, <1>3 DEF IInv, FlightInv, Flight
  <1>4. CASE ~closed[c]
    <2>1. Good(written, exit, conn[c], fol[c], view[c], Pending(c))
      BY <1>4 DEF IInv, FlightInv, Flight
    <2>2. /\ conn[c].out = <<>> /\ fol[c].out = <<>> /\ fol[c].state = "none"
          /\ Known(written, view[c])
          /\ from = 0 \/ (from = view[c].at /\ view[c].modes # NoModes)
      BY <1>2, <2>1 DEF Good, Shape, Led
    <2>3. PICK x \in View : Leads(written, view[c], b, x) /\ Stands(written, x, start)
      BY <1>1, <2>2, OpeningLeads DEF IInv
    <2>4. /\ Reply(from, start) \in Frame /\ Reply(from, start).kind = "attached"
          /\ from < head => Preamble \in Frame /\ Preamble.kind = "preamble"
      BY <1>1, <2>2, OpeningLeads DEF IInv, Reply, Preamble
    <2>5. b = IF from < head THEN <<Reply(from, start), Preamble>> ELSE <<Reply(from, start)>>
      BY DEF Opening
    <2>6. b \in Seq(Frame)
      <3> DEFINE r == Reply(from, start)
                 e == Preamble
      <3>1. r \in Frame /\ (from < head => e \in Frame)
            /\ b = IF from < head THEN <<r, e>> ELSE <<r>>
        BY <2>4, <2>5
      <3> HIDE DEF r, e, b, from
      <3>2. CASE from < head
        BY <3>1, <3>2
      <3>3. CASE ~(from < head)
        BY <3>1, <3>3
      <3> QED BY <3>2, <3>3
    <2>7. Pending(c) = wire[c]
      BY <1>1, <2>2 DEF Pending
    <2>8. cn2.phase = "answering" /\ cn2.from = start /\ cn2.out = b
      OBVIOUS
    <2> HIDE DEF cn2, b, start, from
    <2>9. Pending(c)' = wire[c] \o b
      <3>1. Pending(c)' = (wire[c] \o b) \o <<>>
        BY <1>2, <2>2, <2>8 DEF Pending
      <3>2. wire[c] \o b \in Seq(Frame)
        BY <1>1, <2>6, ConcatProperties
      <3> QED BY <3>1, <3>2
    <2>10. Shape(cn2, fol[c])
      BY <2>1, <2>2, <2>8 DEF Good, Shape
    <2>11. Good(written, exit, cn2, fol[c], view[c], wire[c] \o b)
      <3>1. CASE from < head
        <4> DEFINE r == Reply(from, start)
                   e == Preamble
        <4>1. b = <<r, e>> /\ r \in Frame /\ r.kind = "attached" /\ e \in Frame /\ e.kind = "preamble"
          BY <2>4, <2>5, <3>1
        <4> HIDE DEF r, e
        <4> QED BY <1>1, <1>2, <2>1, <2>3, <2>7, <2>8, <2>10, <4>1, GoodOpens
      <3>2. CASE ~(from < head)
        <4> DEFINE r == Reply(from, start)
        <4>1. b = <<r>> /\ r \in Frame /\ r.kind = "attached"
          BY <2>4, <2>5, <3>2
        <4> HIDE DEF r
        <4> QED BY <1>1, <1>2, <2>1, <2>3, <2>7, <2>8, <2>10, <4>1, GoodOpens
      <3> QED BY <3>1, <3>2
    <2> QED BY <1>2, <1>4, <2>9, <2>11 DEF Flight
  <1> QED BY <1>1, <1>3, <1>4 DEF Conn

\* The reply is written, and the stream's thread started.
LEMMA FlightAnswer ==
    ASSUME IInv, NEW c \in Connections, AttachAnswer(c) \/ AttachStart(c)
    PROVE  Flight(c)'
  <1>1. /\ conn[c] \in Conn /\ fol[c] \in Stream /\ wire[c] \in Seq(Frame) /\ view[c] \in View
        /\ conn \in [Connections -> Conn] /\ fol \in [Connections -> Stream]
        /\ wire \in [Connections -> Seq(Frame)]
        /\ conn[c].out \in Seq(Frame) /\ fol[c].out \in Seq(Frame)
        /\ conn[c].from \in Nat /\ Flight(c)
        /\ written \in Seq(Past) /\ Pending(c) \in Seq(Frame)
    BY Fields DEF IInv, TypeOK, Conn, Stream, View, FlightInv
  <1>2. conn[c].phase = "answering" /\ UNCHANGED <<written, exit, closed, view>>
    BY DEF AttachAnswer, AttachStart, log
  <1>3. CASE AttachAnswer(c) /\ AnswerFailed(c)
    <2>1. closed[c] /\ wire' = wire
      BY <1>3 DEF AnswerFailed
    <2> QED BY <1>1, <1>2, <2>1 DEF Flight
  <1>4. CASE AttachAnswer(c) /\ AnswerSent(c)
    <2> DEFINE cn2 == [conn[c] EXCEPT !.out = Tail(conn[c].out)]
    <2>1. /\ ~closed[c] /\ conn[c].out # <<>> /\ fol' = fol
          /\ wire'[c] = Append(wire[c], Head(conn[c].out)) /\ conn'[c] = cn2
      BY <1>1, <1>4 DEF AttachAnswer, AnswerSent, CanSend, Send
    <2>2. cn2.phase = "answering" /\ cn2.out = Tail(conn[c].out) /\ cn2.from = conn[c].from
      BY <1>1, <1>2 DEF Conn
    <2>3. Good(written, exit, conn[c], fol[c], view[c], Pending(c))
      BY <1>1, <2>1 DEF Flight
    <2> HIDE DEF cn2
    <2>4. Pending(c)' = Pending(c)
      <3>1. Append(wire[c], Head(conn[c].out)) \o Tail(conn[c].out) = wire[c] \o conn[c].out
        BY <1>1, <2>1, MoveOne
      <3> QED BY <2>1, <2>2, <3>1 DEF Pending
    <2>5. Shape(cn2, fol[c])
      BY <1>2, <2>2, <2>3 DEF Good, Shape
    <2>6. /\ Running(cn2, fol[c]) => Running(conn[c], fol[c]) /\ conn[c].phase # "joining"
          /\ Live(cn2, fol[c]) => Live(conn[c], fol[c]) /\ Place(cn2, fol[c]) = Place(conn[c], fol[c])
      BY <1>2, <2>2 DEF Running, Live, Place
    <2>7. Good(written, exit, cn2, fol[c], view[c], Pending(c))
      BY <2>2, <2>3, <2>5, <2>6, GoodMoves
    <2> QED BY <1>2, <2>1, <2>4, <2>7 DEF Flight
  <1>5. CASE AttachStart(c)
    <2> DEFINE f2 == [NoStream EXCEPT !.state = "run", !.cursor = conn[c].from]
    <2>1. conn[c].out = <<>> /\ wire' = wire /\ fol'[c] = f2 /\ conn'[c] = Idle
      BY <1>1, <1>5 DEF AttachStart
    <2>2. f2.state = "run" /\ f2.cursor = conn[c].from /\ f2.out = <<>>
      BY DEF NoStream
    <2> HIDE DEF f2
    <2>3. CASE closed[c]
      BY <1>1, <1>2, <2>1, <2>3 DEF Flight
    <2>4. CASE ~closed[c]
      <3>1. Good(written, exit, conn[c], fol[c], view[c], Pending(c))
        BY <1>1, <2>4 DEF Flight
      <3>2. fol[c].out = <<>>
        BY <1>2, <3>1 DEF Good, Shape
      <3>3. Pending(c)' = Pending(c)
        BY <2>1, <2>2, <3>2 DEF Pending, Idle
      <3>4. Shape(Idle, f2) /\ Idle.phase = "idle"
        BY <2>2 DEF Shape, Idle
      <3>5. /\ Running(conn[c], fol[c]) /\ conn[c].phase # "joining"
            /\ Live(conn[c], fol[c]) /\ Place(Idle, f2) = Place(conn[c], fol[c])
        BY <1>2, <2>2, <3>4 DEF Running, Live, Place
      <3>6. Good(written, exit, Idle, f2, view[c], Pending(c))
        BY <3>1, <3>4, <3>5, GoodMoves
      <3> QED BY <1>2, <2>1, <2>4, <3>3, <3>6 DEF Flight
    <2> QED BY <1>1, <2>3, <2>4 DEF Conn
  <1> QED BY <1>3, <1>4, <1>5 DEF AttachAnswer

\* A client detaches and is answered.
LEMMA FlightDetach ==
    ASSUME IInv, NEW c \in Connections, DetachAsk(c) \/ DetachReply(c)
    PROVE  Flight(c)'
  <1>1. /\ conn[c] \in Conn /\ fol[c] \in Stream /\ wire[c] \in Seq(Frame) /\ view[c] \in View
        /\ conn \in [Connections -> Conn] /\ fol \in [Connections -> Stream]
        /\ wire \in [Connections -> Seq(Frame)] /\ view \in [Connections -> View]
        /\ Flight(c) /\ written \in Seq(Past) /\ Pending(c) \in Seq(Frame)
    BY Fields DEF IInv, TypeOK, Conn, Stream, View, FlightInv
  <1>2. CASE DetachAsk(c)
    <2> DEFINE cn2 == [conn[c] EXCEPT !.phase = "joining"]
               f2 == [fol[c] EXCEPT !.stop = TRUE]
               u2 == [view[c] EXCEPT !.on = FALSE]
    <2>1. /\ conn[c].phase = "idle" /\ ~closed[c] /\ wire' = wire
          /\ conn'[c] = cn2 /\ fol'[c] = f2 /\ view'[c] = u2
          /\ UNCHANGED <<written, exit, closed>>
      BY <1>1, <1>2 DEF DetachAsk, log
    <2>2. /\ cn2.phase = "joining" /\ cn2.out = conn[c].out /\ cn2.from = conn[c].from
          /\ f2.state = fol[c].state /\ f2.out = fol[c].out /\ f2.cursor = fol[c].cursor
          /\ f2.next = fol[c].next
          /\ u2 \in View /\ ~u2.on /\ u2.at = view[c].at /\ u2.modes = view[c].modes
          /\ ~view[c].on => u2 = view[c]
      <3>1. cn2.phase = "joining" /\ cn2.out = conn[c].out /\ cn2.from = conn[c].from
        BY <1>1 DEF Conn
      <3>2. /\ f2.state = fol[c].state /\ f2.out = fol[c].out /\ f2.cursor = fol[c].cursor
            /\ f2.next = fol[c].next
        BY <1>1 DEF Stream
      <3>3. u2 \in View /\ ~u2.on /\ u2.at = view[c].at /\ u2.modes = view[c].modes
        BY <1>1 DEF View
      <3>4. ~view[c].on => u2 = view[c]
        BY <1>1 DEF View
      <3> QED BY <3>1, <3>2, <3>3, <3>4
    <2> HIDE DEF cn2, f2, u2
    <2>3. Good(written, exit, conn[c], fol[c], view[c], Pending(c))
      BY <1>1, <2>1 DEF Flight
    <2>4. Pending(c)' = Pending(c)
      BY <2>1, <2>2 DEF Pending
    <2>5. Shape(cn2, f2)
      BY <2>1, <2>2, <2>3 DEF Good, Shape, Final
    <2>6. /\ Running(cn2, f2) => Running(conn[c], fol[c])
          /\ Live(cn2, f2) => Live(conn[c], fol[c]) /\ Place(cn2, f2) = Place(conn[c], fol[c])
      BY <2>1, <2>2 DEF Running, Live, Place, Final
    <2>7. CASE ~view[c].on
      <3>1. Good(written, exit, cn2, f2, view[c], Pending(c))
        BY <2>2, <2>3, <2>5, <2>6, GoodMoves
      <3> QED BY <2>1, <2>2, <2>4, <2>7, <3>1 DEF Flight
    <2>8. CASE view[c].on
      <3>1. Silent(Pending(c))
        BY <2>3, <2>8 DEF Good, Answers
      <3>2. Good(written, exit, cn2, f2, u2, Pending(c))
        BY <1>1, <2>2, <2>3, <2>5, <2>6, <3>1, GoodAsks
      <3> QED BY <2>1, <2>4, <3>2 DEF Flight
    <2> QED BY <1>1, <2>7, <2>8 DEF View
  <1>3. CASE DetachReply(c)
    <2>1. /\ conn[c].phase = "joining" /\ fol[c].state = "done" /\ fol'[c] = NoStream
          /\ UNCHANGED <<written, exit, closed, view>>
      BY <1>1, <1>3 DEF DetachReply, log
    <2>2. CASE closed[c]
      <3>1. wire' = wire
        BY <1>3, <2>2 DEF DetachReply, CanSend
      <3> QED BY <1>1, <2>1, <2>2, <3>1 DEF Flight
    <2>3. CASE ~closed[c]
      <3>1. wire'[c] = Append(wire[c], Detached) /\ conn'[c] = Idle
        BY <1>1, <1>3, <2>3 DEF DetachReply, CanSend, Send
      <3>2. Good(written, exit, conn[c], fol[c], view[c], Pending(c))
        BY <1>1, <2>3 DEF Flight
      <3>3. conn[c].out = <<>> /\ fol[c].out = <<>>
        BY <2>1, <3>2 DEF Good, Shape
      <3>4. Pending(c) = wire[c]
        BY <1>1, <3>3 DEF Pending
      <3>5. Pending(c)' = wire[c] \o <<Detached>>
        <4>1. Detached \in Frame
          BY DEF Detached, Frame
        <4>2. Pending(c)' = (Append(wire[c], Detached) \o <<>>) \o <<>>
          BY <2>1, <3>1 DEF Pending, Idle, NoStream
        <4> QED BY <1>1, <4>1, <4>2
      <3>6. Shape(Idle, NoStream) /\ ~Running(Idle, NoStream) /\ Idle.phase # "found"
        BY DEF Shape, Idle, NoStream, Running
      <3>7. Good(written, exit, Idle, NoStream, view[c], wire[c] \o <<Detached>>)
        BY <1>1, <3>2, <3>4, <3>6, GoodDetached
      <3> QED BY <2>1, <2>3, <3>1, <3>5, <3>7 DEF Flight
    <2> QED BY <1>1, <2>2, <2>3 DEF TypeOK, IInv
  <1> QED BY <1>2, <1>3

\* A thread goes on that says nothing, or the client is gone.
LEMMA FlightQuiet ==
    ASSUME IInv, NEW c \in Connections,
           Forget(c) \/ ReleaseLog(c) \/ Leave(c) \/ CountDown(c) \/ Done(c) \/ Close(c)
    PROVE  Flight(c)'
  <1>1. /\ conn[c] \in Conn /\ fol[c] \in Stream /\ wire[c] \in Seq(Frame) /\ view[c] \in View
        /\ conn \in [Connections -> Conn] /\ fol \in [Connections -> Stream]
        /\ wire \in [Connections -> Seq(Frame)] /\ closed \in [Connections -> BOOLEAN]
        /\ Flight(c) /\ written \in Seq(Past) /\ closed[c] \in BOOLEAN
    BY Fields DEF IInv, TypeOK, Conn, Stream, View, FlightInv
  <1>2. CASE Close(c)
    BY <1>1, <1>2 DEF Close, Flight
  <1>3. CASE Leave(c)
    <2>1. closed[c] /\ closed' = closed /\ wire' = wire
      BY <1>3 DEF Leave, IInv, CountInv
    <2> QED BY <1>1, <2>1 DEF Flight
  <1> DEFINE Quietly ==
                /\ UNCHANGED <<written, exit, closed, wire, view>>
                /\ conn'[c].out = conn[c].out /\ fol'[c].out = fol[c].out
                /\ ~closed[c] => Shape(conn'[c], fol'[c])
                /\ conn'[c].phase # "found"
                /\ Running(conn'[c], fol'[c]) =>
                      /\ fol'[c] = fol[c] /\ conn[c].phase \in {"idle", "clearing"}
                      /\ conn'[c].phase \in {"idle", "clearing"}
  <1>4. ASSUME Quietly PROVE Flight(c)'
    <2>1. CASE closed[c]
      BY <1>1, <1>4, <2>1 DEF Flight
    <2>2. CASE ~closed[c]
      <3>1. Good(written, exit, conn[c], fol[c], view[c], Pending(c))
        BY <1>1, <2>2 DEF Flight
      <3>2. /\ Running(conn'[c], fol'[c]) => Running(conn[c], fol[c]) /\ conn[c].phase # "joining"
            /\ Live(conn'[c], fol'[c]) =>
                  Live(conn[c], fol[c]) /\ Place(conn'[c], fol'[c]) = Place(conn[c], fol[c])
        BY <1>4 DEF Running, Live, Place
      <3>3. Good(written, exit, conn'[c], fol'[c], view[c], Pending(c))
        BY <1>4, <2>2, <3>1, <3>2, GoodMoves
      <3>4. Pending(c)' = Pending(c)
        BY <1>4 DEF Pending
      <3> QED BY <1>4, <2>2, <3>3, <3>4 DEF Flight
    <2> QED BY <1>1, <2>1, <2>2
  <1>5. ~closed[c] => Shape(conn[c], fol[c])
    BY <1>1 DEF Flight, Good
  <1>6. CASE Forget(c)
    <2>1. /\ conn[c].phase = "idle" /\ UNCHANGED <<written, exit, closed, wire, view, fol>>
          /\ conn'[c] = [conn[c] EXCEPT !.phase = "clearing"]
      BY <1>1, <1>6 DEF Forget, log
    <2>2. conn'[c].phase = "clearing" /\ conn'[c].out = conn[c].out
      BY <1>1, <2>1 DEF Conn
    <2>3. ~closed[c] => Shape(conn'[c], fol'[c])
      BY <1>5, <2>1, <2>2 DEF Shape
    <2>4. Quietly
      BY <2>1, <2>2, <2>3
    <2> QED BY <1>4, <2>4
  <1>7. CASE ReleaseLog(c)
    <2>1. /\ conn[c].phase = "clearing" /\ Log!MoveHead(Tip)
          /\ UNCHANGED <<exit, closed, wire, view, fol>> /\ conn'[c] = Idle
      BY <1>1, <1>7 DEF ReleaseLog
    <2>2. written' = written
      BY <2>1, HeadMoves DEF IInv
    <2>3. CASE closed[c]
      BY <1>1, <2>1, <2>3 DEF Flight
    <2>4. CASE ~closed[c]
      <3>1. Idle.phase = "idle" /\ Idle.out = <<>> /\ conn[c].out = <<>>
        BY <1>5, <2>1, <2>4 DEF Idle, Shape
      <3>2. Shape(conn'[c], fol'[c])
        BY <1>5, <2>1, <2>4, <3>1 DEF Shape
      <3>3. Quietly
        BY <2>1, <2>2, <3>1, <3>2
      <3> QED BY <1>4, <3>3
    <2> QED BY <1>1, <2>3, <2>4
  <1>8. CASE CountDown(c) \/ Done(c)
    <2>1. /\ fol[c].state \in {"ending", "left"} /\ UNCHANGED <<written, exit, closed, wire, view, conn>>
          /\ \/ fol'[c] = [fol[c] EXCEPT !.state = "left"]
             \/ fol'[c] = [fol[c] EXCEPT !.state = "done"]
      BY <1>1, <1>8 DEF CountDown, Done, log
    <2>2. fol'[c].state \in {"left", "done"} /\ fol'[c].out = fol[c].out
      BY <1>1, <2>1 DEF Stream
    <2>3. conn[c].phase \notin {"found", "answering"}
      BY <2>1 DEF IInv, CountInv
    <2>4. ~closed[c] => Shape(conn'[c], fol'[c])
      BY <1>5, <2>1, <2>2, <2>3 DEF Shape
    <2>5. ~Running(conn'[c], fol'[c])
      BY <2>1, <2>2, <2>3 DEF Running
    <2>6. Quietly
      BY <2>1, <2>2, <2>3, <2>4, <2>5
    <2> QED BY <1>4, <2>6
  <1> QED BY <1>2, <1>3, <1>6, <1>7, <1>8

\* A client reads.
LEMMA FlightReceive ==
    ASSUME IInv, NEW c \in Connections, Receive(c)
    PROVE  Flight(c)'
  <1>1. /\ conn[c] \in Conn /\ fol[c] \in Stream /\ wire[c] \in Seq(Frame) /\ view[c] \in View
        /\ wire \in [Connections -> Seq(Frame)] /\ view \in [Connections -> View]
        /\ conn[c].out \in Seq(Frame) /\ fol[c].out \in Seq(Frame)
        /\ Flight(c) /\ written \in Seq(Past) /\ Pending(c) \in Seq(Frame)
    BY Fields DEF IInv, TypeOK, Conn, Stream, View, FlightInv
  <1>2. /\ wire[c] # <<>> /\ ~closed[c] /\ view'[c] = See(view[c], Head(wire[c]))
        /\ wire'[c] = Tail(wire[c]) /\ UNCHANGED <<written, exit, conn, fol, closed>>
    BY <1>1 DEF Receive, log
  <1>3. Good(written, exit, conn[c], fol[c], view[c], Pending(c))
    BY <1>1, <1>2 DEF Flight
  <1>4. /\ view'[c] = After(written, view[c], Head(Pending(c)))
        /\ Pending(c) # <<>> /\ Pending(c)' = Tail(Pending(c))
    <2>1. /\ view'[c] = After(written, view[c], Head(Pending(c)))
          /\ Pending(c) # <<>>
          /\ Tail(Pending(c)) = (Tail(wire[c]) \o conn[c].out) \o fol[c].out
      BY <1>2, ReadsView DEF IInv
    <2>2. Pending(c)' = (Tail(wire[c]) \o conn[c].out) \o fol[c].out
      BY <1>2 DEF Pending
    <2> QED BY <2>1, <2>2
  <1>5. fol[c].state = "send" => Len(Pending(c)) > 1 /\ Pending(c)[Len(Pending(c))] = Final(fol[c])
    <2> DEFINE a == wire[c] \o conn[c].out
               b == fol[c].out
               m == Len(a)
               n == Len(b)
    <2>1. a \in Seq(Frame) /\ b \in Seq(Frame) /\ Pending(c) = a \o b
      BY <1>1, ConcatProperties DEF Pending
    <2>2. Len(wire[c]) >= 1 /\ Len(conn[c].out) \in Nat /\ m = Len(wire[c]) + Len(conn[c].out)
          /\ Len(wire[c]) \in Nat
      BY <1>1, <1>2, ConcatProperties
    <2>0. m >= 1
      <3> DEFINE k == Len(wire[c])
                 l == Len(conn[c].out)
      <3>1. k >= 1 /\ l \in Nat /\ m = k + l /\ k \in Nat
        BY <2>2
      <3> HIDE DEF k, l, m
      <3> QED BY <3>1
    <2>3. fol[c].state = "send" => b # <<>>
      BY <1>3 DEF Good, Shape
    <2>4. b # <<>> => n >= 1
      BY <2>1
    <2> HIDE DEF a
    <2>5. m \in Nat /\ n \in Nat
      BY <2>1
    <2>6. /\ Len(a \o b) = m + n
          /\ \A i \in 1..m + n : (a \o b)[i] = IF i <= m THEN a[i] ELSE b[i - m]
      BY <2>1, ConcatProperties
    <2>7. Final(fol[c]) = b[n]
      BY DEF Final
    <2> HIDE DEF b, m, n
    <2>8. ASSUME n >= 1 PROVE m + n > 1 /\ (a \o b)[m + n] = b[n]
      <3>1. m + n \in 1..m + n /\ ~(m + n <= m) /\ (m + n) - m = n /\ m + n > 1
        BY <2>0, <2>5, <2>8
      <3> QED BY <3>1, <2>6
    <2> QED BY <2>1, <2>3, <2>4, <2>6, <2>7, <2>8
  <1>6. Good(written, exit, conn[c], fol[c], view'[c], Pending(c)')
    BY <1>1, <1>3, <1>4, <1>5, GoodReads
  <1> QED BY <1>2, <1>6 DEF Flight

\* A stream writes a frame of what it read, or finds the client gone.
LEMMA FlightSend ==
    ASSUME IInv, NEW c \in Connections, SendFrame(c)
    PROVE  Flight(c)'
  <1> DEFINE f == fol[c]
             f2 == Sent(f)
  <1>1. /\ conn[c] \in Conn /\ f \in Stream /\ wire[c] \in Seq(Frame)
        /\ fol \in [Connections -> Stream] /\ wire \in [Connections -> Seq(Frame)]
        /\ f.out \in Seq(Frame) /\ f.next \in Nat
        /\ Flight(c) /\ written \in Seq(Past)
    BY Fields DEF IInv, TypeOK, Conn, Stream, View, FlightInv
  <1>2. /\ f.state = "send" /\ UNCHANGED <<written, exit, conn, closed, view>>
        /\ conn[c].phase \notin {"found", "answering"}
    BY DEF SendFrame, log, IInv, CountInv
  <1>3. CASE closed[c]
    <2>1. wire' = wire
      BY <1>3 DEF SendFrame, CanSend
    <2> QED BY <1>1, <1>2, <1>3, <2>1 DEF Flight
  <1>4. CASE ~closed[c]
    <2>1. wire'[c] = Append(wire[c], Head(f.out)) /\ fol'[c] = f2
      BY <1>1, <1>4 DEF SendFrame, CanSend, Send
    <2>2. Good(written, exit, conn[c], f, view[c], Pending(c))
      BY <1>1, <1>4 DEF Flight
    <2>3. f.out # <<>> /\ conn[c].out = <<>> /\ Feeding(Final(f))
          /\ conn[c].phase \notin {"leaving", "gone"}
      BY <1>2, <2>2 DEF Good, Shape
    <2>4. /\ Tail(f.out) \in Seq(Frame) /\ Len(Tail(f.out)) = Len(f.out) - 1
          /\ \A i \in 1..Len(f.out) - 1 : Tail(f.out)[i] = f.out[i + 1]
      BY <1>1, <2>3, HeadTailProperties
    <2>5. Len(f.out) \in Nat /\ Len(f.out) >= 1 /\ Head(f.out) = f.out[1]
      BY <1>1, <2>3
    <2>6. f2.out = Tail(f.out)
      BY <1>1 DEF Sent, Stream
    <2>7. Pending(c)' = Pending(c)
      <3>1. Append(wire[c], Head(f.out)) \o Tail(f.out) = wire[c] \o f.out
        BY <1>1, <2>3, MoveOne
      <3>2. Pending(c) = wire[c] \o f.out
        BY <1>1, <2>3 DEF Pending
      <3>3. Pending(c)' = (Append(wire[c], Head(f.out)) \o <<>>) \o Tail(f.out)
        BY <1>2, <2>1, <2>3, <2>6 DEF Pending
      <3>4. Append(wire[c], Head(f.out)) \in Seq(Frame)
        BY <1>1, <2>3, HeadTailProperties
      <3>5. Append(wire[c], Head(f.out)) \o <<>> = Append(wire[c], Head(f.out))
        BY <3>4, ConcatEmptySeq
      <3> QED BY <3>1, <3>2, <3>3, <3>5
    <2>8. /\ Shape(conn[c], f2)
          /\ Live(conn[c], f2) => Live(conn[c], f) /\ Place(conn[c], f2) = Place(conn[c], f)
      <3>1. CASE Tail(f.out) # <<>>
        <4>1. f2 = [f EXCEPT !.out = Tail(f.out)]
          BY <3>1 DEF Sent
        <4>2. f2.state = "send" /\ f2.next = f.next
          BY <1>1, <1>2, <4>1 DEF Stream
        <4>3. Final(f2) = Final(f)
          <5> DEFINE t == Tail(f.out)
                     o == f.out
                     n == Len(o)
          <5>1. t # <<>> /\ t \in Seq(Frame) /\ Len(t) = n - 1 /\ n \in Nat /\ n >= 1
                /\ (\A i \in 1..n - 1 : t[i] = o[i + 1]) /\ f2.out = t
            BY <3>1, <2>4, <2>5, <2>6
          <5>2. Final(f) = o[n]
            BY DEF Final
          <5>3. Final(f2) = t[n - 1]
            BY <5>1 DEF Final
          <5> HIDE DEF t, o, n
          <5>4. n - 1 # 0
            BY <5>1
          <5>5. n - 1 \in 1..n - 1 /\ (n - 1) + 1 = n
            BY <5>1, <5>4
          <5> QED BY <5>1, <5>2, <5>3, <5>5
        <4> HIDE DEF f2, f
        <4>4. Shape(conn[c], f2)
          BY <1>2, <2>3, <2>6, <3>1, <4>2, <4>3 DEF Shape
        <4> QED BY <1>2, <4>2, <4>3, <4>4 DEF Live, Place
      <3>2. CASE Tail(f.out) = <<>>
        <4>1. f2 = [f EXCEPT !.out = <<>>, !.cursor = f.next,
                             !.state = IF Head(f.out).kind = "exited" THEN "ending" ELSE "run"]
          BY <3>2 DEF Sent
        <4>2. /\ f2.state = (IF Head(f.out).kind = "exited" THEN "ending" ELSE "run")
              /\ f2.cursor = f.next
          BY <1>1, <4>1 DEF Stream
        <4>3. Head(f.out) = Final(f)
          <5>1. Len(f.out) = 1
            <6> DEFINE n == Len(f.out)
            <6>1. n \in Nat /\ Len(<<>>) = n - 1 /\ Len(<<>>) = 0
              BY <2>4, <2>5, <3>2
            <6> HIDE DEF n
            <6>2. n = 1
              BY <6>1
            <6> QED BY <6>2 DEF n
          <5> QED BY <5>1, <2>5 DEF Final
        <4> HIDE DEF f2, f
        <4>4. Shape(conn[c], f2)
          BY <1>2, <2>3, <2>6, <3>2, <4>2 DEF Shape
        <4>5. f2.state = "run" => ~Ending(Final(f))
          BY <2>3, <4>2, <4>3 DEF Ending, Feeding
        <4> QED BY <1>2, <4>2, <4>4, <4>5 DEF Live, Place
      <3> QED BY <3>1, <3>2
    <2> HIDE DEF f2
    <2>9. Running(conn[c], f)
      BY <1>2 DEF Running
    <2>10. Good(written, exit, conn[c], f2, view[c], Pending(c))
      BY <2>2, <2>8, <2>9, GoodMoves
    <2> QED BY <1>2, <1>4, <2>1, <2>7, <2>10 DEF Flight
  <1> QED BY <1>3, <1>4, Fields DEF IInv

\* What a stream reads is some of the log, after a loss if there is one.
LEMMA BatchLeads ==
    ASSUME TypeOK, LogInv, NEW c \in Connections, NEW v \in View, Known(written, v),
           Stands(written, v, fol[c].cursor), HasBatch(c), NEW to \in Start(c)..Tip,
           to = Start(c) => to = Tip
    PROVE  /\ Batch(c, to) \in Seq(Frame) /\ Batch(c, to) # <<>>
           /\ \A i \in 1..Len(Batch(c, to)) : Batch(c, to)[i].kind \in {"gap", "preamble", "item"}
           /\ \E x \in View : Leads(written, v, Batch(c, to), x) /\ Stands(written, x, to)
  <1> DEFINE p == fol[c].cursor
             it == Items(Start(c), to)
             loss == <<Gap(p, head), Preamble>>
  <1>1. /\ p \in Nat /\ Tip \in Nat /\ Tip = Len(written) /\ written \in Seq(Past)
        /\ head \in Nat /\ head <= Tip
    BY Fields, LogAt DEF Tip
  <1>2. Start(c) \in Nat /\ to \in Nat /\ Start(c) <= to /\ to <= Tip
        /\ Start(c) = IF p < head THEN head ELSE p
    BY <1>1 DEF Start, Lost
  <1>3. /\ it \in Seq(Frame) /\ Len(it) = to - Start(c)
        /\ \A i \in 1..to - Start(c) : it[i].kind = "item"
    BY <1>2, ItemsType
  <1>4. CASE ~Lost(c)
    <2>1. Batch(c, to) = it
      BY <1>3, <1>4 DEF Batch
    <2>2. Start(c) = p /\ Start(c) < Tip
      BY <1>4 DEF Start, HasBatch
    <2>3. to # Start(c)
      BY <2>2, <1>1, <1>2
    <2>4. it # <<>>
      BY <1>1, <1>2, <1>3, <2>3
    <2>5. \E x \in View : Leads(written, v, it, x) /\ Stands(written, x, to)
      BY <1>1, <1>2, <2>2, LeadsItems
    <2> QED BY <1>3, <2>1, <2>4, <2>5
  <1>5. CASE Lost(c)
    <2>1. Batch(c, to) = loss \o it /\ p < head /\ Start(c) = head
      BY <1>5 DEF Batch, Lost, Start
    <2>2. modes \in Modes /\ modes = StateAt(written, head).modes
      BY <1>1, <2>1, LogAt DEF LogInv
    <2>3. /\ Gap(p, head) \in Frame /\ Gap(p, head).kind = "gap"
          /\ Preamble \in Frame /\ Preamble.kind = "preamble"
      BY <1>1, <2>2 DEF Gap, Preamble, Frame
    <2>4. loss \in Seq(Frame) /\ Len(loss) = 2 /\ loss[1].kind = "gap" /\ loss[2].kind = "preamble"
      BY <2>3
    <2>5. PICK y \in View : Leads(written, v, loss, y) /\ Stands(written, y, head)
      BY <1>1, <2>1, <2>2, LeadsLoss DEF Preamble
    <2>6. Known(written, y)
      BY <2>5 DEF Leads
    <2>7. PICK x \in View : Leads(written, y, it, x) /\ Stands(written, x, to)
      BY <1>1, <1>2, <2>1, <2>5, <2>6, LeadsItems
    <2> HIDE DEF loss, it
    <2>8. Leads(written, v, loss \o it, x)
      BY <1>3, <2>4, <2>5, <2>7, LeadsOn
    <2> DEFINE n == to - Start(c)
    <2>9. n \in Nat /\ Len(it) = n /\ \A i \in 1..n : it[i].kind = "item"
      BY <1>2, <1>3
    <2> HIDE DEF n
    <2>10. /\ loss \o it \in Seq(Frame) /\ Len(loss \o it) = 2 + n
           /\ \A i \in 1..2 + n : (loss \o it)[i] = IF i <= 2 THEN loss[i] ELSE it[i - 2]
      <3>1. /\ loss \o it \in Seq(Frame) /\ Len(loss \o it) = Len(loss) + Len(it)
            /\ \A i \in 1..Len(loss) + Len(it) :
                  (loss \o it)[i] = IF i <= Len(loss) THEN loss[i] ELSE it[i - Len(loss)]
        BY <1>3, <2>4, ConcatProperties
      <3> QED BY <2>4, <2>9, <3>1
    <2>11. \A i \in 1..2 + n : i = 1 \/ i = 2 \/ (~(i <= 2) /\ i - 2 \in 1..n)
      BY <2>9
    <2>12. \A i \in 1..2 + n : (loss \o it)[i].kind \in {"gap", "preamble", "item"}
      BY <2>4, <2>9, <2>10, <2>11
    <2>13. loss \o it # <<>>
      BY <2>9, <2>10
    <2> QED BY <2>1, <2>7, <2>8, <2>10, <2>12, <2>13
  <1> QED BY <1>4, <1>5

\* A stream reads the log.
LEMMA FlightRead ==
    ASSUME IInv, NEW c \in Connections, Read(c)
    PROVE  Flight(c)'
  <1> DEFINE f == fol[c]
  <1>1. /\ conn[c] \in Conn /\ f \in Stream /\ wire[c] \in Seq(Frame) /\ view[c] \in View
        /\ fol \in [Connections -> Stream] /\ f.cursor \in Nat /\ closed[c] \in BOOLEAN
        /\ Flight(c) /\ written \in Seq(Past) /\ Pending(c) \in Seq(Frame)
    BY Fields DEF IInv, TypeOK, Conn, Stream, View, FlightInv
  <1>2. /\ f.state = "run" /\ UNCHANGED <<written, exit, conn, closed, wire, view>>
        /\ conn[c].phase \notin {"found", "answering"}
        /\ ReadStop(c) \/ ReadBatch(c) \/ ReadExit(c)
    BY DEF Read, log, IInv, CountInv
  <1>3. CASE closed[c]
    BY <1>1, <1>2, <1>3 DEF Flight
  <1>4. CASE ~closed[c]
    <2>1. Good(written, exit, conn[c], f, view[c], Pending(c))
      BY <1>1, <1>4 DEF Flight
    <2>2. conn[c].out = <<>> /\ f.out = <<>> /\ conn[c].phase \notin {"leaving", "gone"}
      BY <1>2, <2>1 DEF Good, Shape
    <2>3. Pending(c) = wire[c]
      BY <1>1, <2>2 DEF Pending
    <2>4. Pending(c)' = wire[c] \o fol'[c].out
      BY <1>1, <1>2, <2>2 DEF Pending
    <2>5. PICK v \in View : Leads(written, view[c], Pending(c), v) /\ Stands(written, v, f.cursor)
      <3>1. Live(conn[c], f) /\ Place(conn[c], f) = f.cursor
        BY <1>2 DEF Live, Place
      <3> QED BY <2>1, <3>1 DEF Good, Led
    <2>6. Known(written, v)
      BY <2>5 DEF Leads
    <2>7. CASE ReadStop(c)
      <3>1. fol'[c] = [f EXCEPT !.state = "ending"]
        BY <1>1, <2>7 DEF ReadStop
      <3>2. fol'[c].state = "ending" /\ fol'[c].out = <<>>
        BY <1>1, <2>2, <3>1 DEF Stream
      <3>3. Shape(conn[c], fol'[c]) /\ ~Running(conn[c], fol'[c]) /\ ~Live(conn[c], fol'[c])
        BY <1>2, <2>2, <3>2 DEF Shape, Running, Live
      <3>4. Good(written, exit, conn[c], fol'[c], view[c], Pending(c))
        BY <2>1, <3>3, GoodMoves
      <3>5. Pending(c)' = Pending(c)
        BY <1>1, <2>3, <2>4, <3>2
      <3> QED BY <1>2, <1>4, <3>4, <3>5 DEF Flight
    <2>8. CASE ReadBatch(c)
      <3>1. PICK to \in Start(c)..Tip :
               /\ to = Start(c) => to = Tip
               /\ fol' = [fol EXCEPT ![c].state = "send", ![c].out = Batch(c, to), ![c].next = to]
        BY <2>8 DEF ReadBatch
      <3> DEFINE b == Batch(c, to)
                 f2 == [f EXCEPT !.state = "send", !.out = b, !.next = to]
      <3>2. fol'[c] = f2
        BY <1>1, <3>1
      <3>3. f2.state = "send" /\ f2.out = b /\ f2.next = to
        BY <1>1 DEF Stream
      <3>4. HasBatch(c)
        BY <2>8 DEF ReadBatch
      <3>5. /\ b \in Seq(Frame) /\ b # <<>>
            /\ \A i \in 1..Len(b) : b[i].kind \in {"gap", "preamble", "item"}
            /\ \E x \in View : Leads(written, v, b, x) /\ Stands(written, x, to)
        BY <2>5, <2>6, <3>1, <3>4, BatchLeads DEF IInv
      <3> HIDE DEF b, f2
      <3>6. PICK x \in View : Leads(written, v, b, x) /\ Stands(written, x, to)
        BY <3>5
      <3>7. \A i \in 1..Len(b) : ~Asking(b[i]) /\ ~Ending(b[i]) /\ Feeding(b[i]) /\ b[i].kind # "exited"
        BY <3>5 DEF Asking, Ending, Feeding
      <3>8. Len(b) \in 1..Len(b) /\ \A i \in 1..Len(b) - 1 : i \in 1..Len(b)
        BY <3>5
      <3>9. Silent(b) /\ Final(f2) = b[Len(b)] /\ Feeding(Final(f2))
        BY <3>3, <3>7, <3>8 DEF Silent, Final
      <3>10. Shape(conn[c], f2)
        BY <1>2, <2>2, <3>3, <3>5, <3>9 DEF Shape
      <3>11. Good(written, exit, conn[c], f2, view[c], Pending(c) \o b)
        BY <1>1, <1>2, <2>1, <2>5, <3>3, <3>5, <3>6, <3>7, <3>8, <3>9, <3>10, GoodFeeds
      <3> QED BY <1>2, <1>4, <2>3, <2>4, <3>2, <3>3, <3>11 DEF Flight
    <2>9. CASE ReadExit(c)
      <3> DEFINE b == <<Exited>>
                 f2 == [f EXCEPT !.state = "send", !.out = b, !.next = f.cursor]
                 x == After(written, v, Exited)
      <3>1. fol'[c] = f2 /\ exit /\ f.cursor = Tip
        BY <1>1, <2>9 DEF ReadExit, Start
      <3>2. f2.state = "send" /\ f2.out = b
        BY <1>1 DEF Stream
      <3>3. Exited \in Frame /\ Exited.kind = "exited"
        BY DEF Exited, Frame
      <3>4. b \in Seq(Frame) /\ b # <<>> /\ Len(b) = 1 /\ b[1] = Exited
        BY <3>3
      <3>5. Fits(written, v, Exited)
        BY <2>5, <2>6, <3>1, <3>3 DEF Fits, Stands, Tip
      <3>6. x \in View /\ Leads(written, v, b, x)
        BY <1>1, <3>3, <3>5, LeadsOne
      <3> HIDE DEF b, f2, x
      <3>7. /\ Silent(b) /\ Final(f2) = b[Len(b)] /\ Feeding(Final(f2)) /\ Ending(Final(f2))
            /\ \A i \in 1..Len(b) - 1 : ~Ending(b[i])
        BY <3>2, <3>3, <3>4 DEF Silent, Asking, Final, Feeding, Ending
      <3>8. Shape(conn[c], f2)
        BY <1>2, <2>2, <3>2, <3>4, <3>7 DEF Shape
      <3>9. Good(written, exit, conn[c], f2, view[c], Pending(c) \o b)
        BY <1>1, <1>2, <2>1, <2>5, <3>1, <3>2, <3>4, <3>6, <3>7, <3>8, GoodFeeds
      <3> QED BY <1>2, <1>4, <2>3, <2>4, <3>1, <3>2, <3>9 DEF Flight
    <2> QED BY <1>2, <2>7, <2>8, <2>9
  <1> QED BY <1>1, <1>3, <1>4

(***************************************************************************)
(* The theorems.                                                           *)
(***************************************************************************)
\* Every step keeps what is in flight right.
LEMMA FlightNext ==
    ASSUME IInv, [Next]_vars
    PROVE  FlightInv'
  <1>1. CASE WriteByte \/ WriteResize \/ Trim \/ BudgetTrim \/ Finish \/ UNCHANGED vars
    BY <1>1, FlightLog
  <1>2. ASSUME NEW c \in Connections,
               \/ Attach(c) \/ DetachAsk(c) \/ Close(c)
               \/ Forget(c) \/ Serve(c) \/ Follow(c) \/ Receive(c)
        PROVE  FlightInv'
    <2>1. Flight(c)'
      BY <1>2, FlightAttach, FlightPrepare, FlightAnswer, FlightDetach, FlightQuiet, FlightReceive,
         FlightSend, FlightRead DEF Serve, Follow
    <2>2. ASSUME NEW d \in Connections, d # c PROVE Flight(d)'
      BY <1>2, <2>2, Elsewhere, Untouched DEF IInv, FlightInv
    <2> QED BY <2>1, <2>2 DEF FlightInv
  <1> QED BY <1>1, <1>2 DEF Next

\* At the start nothing is in flight and nobody listens.
LEMMA Starts ==
    ASSUME Init
    PROVE  IInv
  <1>1. /\ written = <<>> /\ head = 0 /\ size = FirstSize /\ modes = NoModes /\ torn = FALSE
        /\ trimming = FALSE /\ exit = FALSE /\ forgotten = FALSE /\ attached = 0
        /\ conn = [c \in Connections |-> Idle] /\ fol = [c \in Connections |-> NoStream]
        /\ closed = [c \in Connections |-> FALSE] /\ wire = [c \in Connections |-> <<>>]
        /\ view = [c \in Connections |-> NoView]
    BY DEF Init, Log!Init, Origin
  <1>2. Idle \in Conn /\ NoStream \in Stream /\ NoView \in View /\ <<>> \in Seq(Frame)
    BY DEF Idle, NoStream, NoView, Conn, Stream, View, Phases, Modes
  <1>3. TypeOK
    <2>1. written \in Seq(Past)
      BY <1>1
    <2>2. /\ conn \in [Connections -> Conn] /\ fol \in [Connections -> Stream]
          /\ wire \in [Connections -> Seq(Frame)] /\ view \in [Connections -> View]
          /\ closed \in [Connections -> BOOLEAN]
      BY <1>1, <1>2
    <2> QED BY <1>1, <2>1, <2>2 DEF TypeOK, Conn, Stream, View
  <1>4. LogInv
    BY <1>1 DEF LogInv, Tip
  <1>5. CountInv
    <2>1. Streamers = {}
      BY <1>1 DEF Streamers, Streaming, Idle, NoStream
    <2> QED BY <1>1, <2>1, FS_EmptySet DEF CountInv, Idle, NoStream
  <1>6. ASSUME NEW c \in Connections PROVE Flight(c)
    <2>1. conn[c] = Idle /\ fol[c] = NoStream /\ ~closed[c] /\ view[c] = NoView /\ wire[c] = <<>>
      BY <1>1
    <2>2. Pending(c) = <<>>
      BY <2>1 DEF Pending, Idle, NoStream
    <2>3. Known(<<>>, NoView)
      BY DEF Known, NoView, StateAt, Origin
    <2>4. Shape(Idle, NoStream)
      BY DEF Shape, Idle, NoStream
    <2>5. Answers(Idle, NoStream, NoView, <<>>)
      BY DEF Answers, OneAnswer, Silent, NoRefusal, Running, Idle, NoStream, NoView
    <2>6. Parted(FALSE, Idle, NoStream, <<>>)
      BY DEF Parted, Apart, Reopened, Live, Idle, NoStream
    <2>7. Led(<<>>, Idle, NoStream, NoView, <<>>)
      <3>1. Leads(<<>>, NoView, <<>>, NoView) /\ ~Live(Idle, NoStream) /\ Idle.phase # "found"
        BY <1>2, <2>3, LeadsNothing DEF Live, Idle, NoStream
      <3> QED BY <1>2, <2>3, <3>1 DEF Led
    <2> QED BY <1>1, <2>1, <2>2, <2>4, <2>5, <2>6, <2>7 DEF Flight, Good
  <1> QED BY <1>3, <1>4, <1>5, <1>6 DEF IInv, FlightInv

\* The invariant is one: whatever is written, trimmed, attached and detached,
\* what is in flight leads every client to where its stream goes on.
THEOREM StreamInvariant == Spec => []IInv
  <1>1. Init => IInv
    BY Starts
  <1>2. IInv /\ [Next]_vars => IInv'
    BY TypeNext, FlightNext DEF IInv
  <1> QED BY <1>1, <1>2, PTL DEF Spec

\* The state has its types, no preamble is sent that is none, and
\* Shared::attached counts the streams of the session.
THEOREM AttachedCountsAlways == Spec => []AttachedCounts
  <1>1. IInv => AttachedCounts
    BY DEF IInv, CountInv, Streamers, AttachedCounts
  <1> QED BY <1>1, StreamInvariant, PTL

\* Whatever a client is fed comes in order, with every loss told, in the modes
\* of its position and from its own stream.
THEOREM FedRightAlways == Spec => []FedRight
  <1>1. ASSUME IInv PROVE InOrder /\ ModesRestored
    <2>1. ASSUME NEW c \in Connections, view[c].on, wire[c] # <<>>
          PROVE  Fits(written, view[c], Head(wire[c]))
      <3>1. ~closed[c]
        BY <1>1, <2>1 DEF IInv, FlightInv, Flight
      <3> QED BY <1>1, <2>1, <3>1, ReadsView DEF IInv
    <2>2. \A p : Log!At(p) = StateAt(written, p)
      BY DEF Log!At, StateAt
    <2>3. ModesRestored
      BY <2>1, <2>2 DEF ModesRestored, Arriving, Fits
    <2>4. InOrder
      BY <2>1 DEF InOrder, Arriving, Fits, Tip
    <2> QED BY <2>3, <2>4
  <1>2. ASSUME IInv PROVE Framed
    <2>1. ASSUME NEW c \in Connections, NEW i \in 1..Len(wire[c]) - 1, Ending(wire[c][i])
          PROVE  wire[c][i + 1].kind \in {"attached", "detached", "refused"}
      <3> DEFINE a == wire[c]
                 b == conn[c].out
                 d == fol[c].out
                 fr == Pending(c)
      <3>1. a \in Seq(Frame) /\ b \in Seq(Frame) /\ d \in Seq(Frame) /\ fr \in Seq(Frame)
            /\ fr = (a \o b) \o d
        BY <1>2, Fields DEF IInv, Pending
      <3>2. Len(a) \in Nat /\ Len(b) \in Nat /\ Len(d) \in Nat
        BY <3>1
      <3>3. i \in 1..Len(a) /\ i + 1 \in 1..Len(a) /\ (i + 1) - 1 = i
        BY <3>2
      <3>4. Apart(fr)
        <4>1. a # <<>>
          BY <3>2, <3>3
        <4> QED BY <1>2, <4>1 DEF IInv, FlightInv, Flight, Good, Parted
      <3> HIDE DEF a, b, d, fr
      <3>5. /\ a \o b \in Seq(Frame) /\ Len(a \o b) = Len(a) + Len(b)
            /\ \A k \in 1..Len(a) : (a \o b)[k] = a[k]
        <4>1. \A k \in 1..Len(a) : k \in 1..Len(a) + Len(b) /\ k <= Len(a)
          BY <3>2
        <4> QED BY <3>1, <4>1, ConcatProperties
      <3>6. /\ Len(fr) = Len(a \o b) + Len(d)
            /\ \A k \in 1..Len(a) : fr[k] = a[k] /\ k \in 1..Len(fr)
        <4>1. \A k \in 1..Len(a) : k \in 1..Len(a \o b) + Len(d) /\ k <= Len(a \o b)
          BY <3>2, <3>5
        <4> QED BY <3>1, <3>5, <4>1, ConcatProperties
      <3>7. i \in 1..Len(fr) /\ i + 1 \in 1..Len(fr) /\ fr[i] = a[i] /\ fr[i + 1] = a[i + 1]
        BY <3>3, <3>6
      <3>8. Ending(fr[i])
        BY <2>1, <3>7 DEF a
      <3>9. ~Feeding(fr[i + 1])
        <4>1. i + 1..(i + 1) - 1 = {} /\ i < i + 1
          BY <3>3
        <4> QED BY <3>4, <3>7, <3>8, <4>1 DEF Apart
      <3>10. fr[i + 1] \in Frame
        <4>1. fr \in Seq(Frame)
          BY <3>1
        <4> HIDE DEF Frame
        <4> QED BY <3>7, <4>1
      <3>11. fr[i + 1].kind \in {"attached", "detached", "refused"}
        BY <3>9, <3>10, FrameFields DEF Feeding
      <3> QED BY <3>7, <3>11 DEF a
    <2> QED BY <2>1 DEF Framed, Ending
  <1>3. IInv => FedRight
    BY <1>1, <1>2 DEF FedRight
  <1> QED BY <1>3, StreamInvariant, PTL
=============================================================================
