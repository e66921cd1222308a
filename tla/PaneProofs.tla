------------------------------- MODULE PaneProofs -------------------------------
(***************************************************************************)
(* Proofs about a pane's place in its session's stream, for any log,       *)
(* chunks cut anywhere and a log that is trimmed at any moment.            *)
(*                                                                         *)
(* One event may have the terminal do several things (feed, go live, feed  *)
(* again), so a step is taken apart: Judged says of the actions given so   *)
(* far, and of how far the stream has come, what the properties need, and  *)
(* there is a lemma for each kind of action that may be added.             *)
(* The pane's sizes follow, of which the invariant says where a size is on *)
(* its way to the PTY.                                                     *)
(***************************************************************************)
EXTENDS StreamReplayProperties, PaneSizesProperties, FiniteSetTheorems, SequenceTheorems,
        WellFoundedInduction, TLAPS

(***************************************************************************)
(* Least and greatest elements.                                            *)
(***************************************************************************)
\* A set of natural numbers has a least element.
LEMMA LeastExists ==
  ASSUME NEW T \in SUBSET Nat, T # {}
  PROVE  \E x \in T : \A y \in T : x <= y
  <1> DEFINE R == OpToRel(<, Nat)
  <1>1. IsWellFoundedOn(R, Nat)
    BY NatLessThanWellFounded
  <1>2. \A x, y \in Nat : x < y => <<x, y>> \in R
    BY DEF OpToRel
  <1> HIDE DEF R
  <1>3. PICK x \in T : \A y \in T : ~(<<y, x>> \in R)
    BY <1>1, WFMin
  <1>4. ASSUME NEW y \in T PROVE x <= y
    <2>1. x \in Nat /\ y \in Nat
      OBVIOUS
    <2>2. ~(y < x)
      BY <1>2, <1>3, <2>1, Zenon
    <2> QED BY <2>1, <2>2
  <1> QED BY <1>4

\* Positions up to p have a last one.
LEMMA GreatestIn ==
  ASSUME NEW p \in Nat, NEW S \in SUBSET (1..p), S # {}
  PROVE  Greatest(S) \in S /\ \A y \in S : Greatest(S) >= y
  <1> DEFINE T == {p - q : q \in S}
  <1>1. T \in SUBSET Nat /\ T # {}
    <2>1. \A q \in S : p - q \in Nat
      OBVIOUS
    <2> QED BY <2>1
  <1>2. PICK x \in T : \A y \in T : x <= y
    <2> HIDE DEF T
    <2> QED BY <1>1, LeastExists
  <1>3. PICK q \in S : x = p - q
    BY <1>2
  <1>4. ASSUME NEW r \in S PROVE q >= r
    <2>1. p - r \in T
      OBVIOUS
    <2>2. p - q <= p - r
      BY <1>2, <1>3, <2>1
    <2> QED BY <2>2
  <1>5. \E z \in S : \A y \in S : z >= y
    BY <1>4
  <1> QED BY <1>5 DEF Greatest

\* A last one there is, if it is known to be one.
LEMMA GreatestIs ==
  ASSUME NEW S \in SUBSET Int, NEW x \in S, \A y \in S : x >= y
  PROVE  Greatest(S) = x
  <1>1. Greatest(S) \in S /\ \A y \in S : Greatest(S) >= y
    BY DEF Greatest
  <1>2. Greatest(S) \in Int /\ x \in Int /\ Greatest(S) >= x /\ x >= Greatest(S)
    BY <1>1
  <1> QED BY <1>2

\* The lesser of two.
LEMMA LeastOfTwo ==
  ASSUME NEW a \in Nat, NEW b \in Nat
  PROVE  Least({a, b}) = IF a <= b THEN a ELSE b
  <1>1. \E x \in {a, b} : \A y \in {a, b} : x <= y
    OBVIOUS
  <1>2. Least({a, b}) \in {a, b} /\ \A y \in {a, b} : Least({a, b}) <= y
    BY <1>1 DEF Least
  <1> QED BY <1>2

(***************************************************************************)
(* The size in effect (size_at).                                           *)
(***************************************************************************)
\* Bytes do not change the size.
LEMMA SizeOverBytes ==
  ASSUME NEW l, NEW p \in Nat, NEW q \in Nat, p <= q, \A k \in p + 1..q : l[k] = Byte
  PROVE  SizeAt(l, q) = SizeAt(l, p)
  <1>1. {k \in 1..q : l[k] \in GridSizes} = {k \in 1..p : l[k] \in GridSizes}
    BY StreamReplayAssumption
  <1> QED BY <1>1 DEF SizeAt

\* A resize does.
LEMMA SizeAfterResize ==
  ASSUME NEW l, NEW p \in Nat, l[p + 1] \in GridSizes
  PROVE  SizeAt(l, p + 1) = l[p + 1]
  <1> DEFINE before == {k \in 1..p + 1 : l[k] \in GridSizes}
  <1>1. p + 1 \in before /\ before \in SUBSET Int /\ \A y \in before : p + 1 >= y
    OBVIOUS
  <1>2. Greatest(before) = p + 1
    <2> HIDE DEF before
    <2> QED BY <1>1, GreatestIs
  <1> QED BY <1>1, <1>2 DEF SizeAt

\* The size at a position depends on what comes before it.
LEMMA SizeOfPrefix ==
  ASSUME NEW l, NEW m, NEW p \in Nat, \A k \in 1..p : l[k] = m[k]
  PROVE  SizeAt(l, p) = SizeAt(m, p)
  <1> DEFINE before == {k \in 1..p : l[k] \in GridSizes}
  <1>1. before = {k \in 1..p : m[k] \in GridSizes}
    OBVIOUS
  <1>2. CASE before = {}
    BY <1>1, <1>2 DEF SizeAt
  <1>3. CASE before # {}
    <2>1. before \in SUBSET (1..p)
      OBVIOUS
    <2>2. Greatest(before) \in before
      <3> HIDE DEF before
      <3> QED BY <1>3, <2>1, GreatestIn
    <2>3. l[Greatest(before)] = m[Greatest(before)]
      BY <2>2
    <2>4. SizeAt(l, p) = l[Greatest(before)]
      BY <1>3 DEF SizeAt
    <2>5. SizeAt(m, p) = m[Greatest(before)]
      BY <1>1, <1>3 DEF SizeAt
    <2> QED BY <2>3, <2>4, <2>5
  <1> QED BY <1>2, <1>3

\* It is a size.
LEMMA SizeTyped ==
  ASSUME NEW l, NEW p \in Nat
  PROVE  SizeAt(l, p) \in GridSizes
  <1> DEFINE before == {k \in 1..p : l[k] \in GridSizes}
  <1>1. CASE before = {}
    BY <1>1, StreamReplayAssumption DEF SizeAt, FirstSize
  <1>2. CASE before # {}
    <2>1. before \in SUBSET (1..p)
      OBVIOUS
    <2>2. Greatest(before) \in before
      <3> HIDE DEF before
      <3> QED BY <1>2, <2>1, GreatestIn
    <2>3. l[Greatest(before)] \in GridSizes
      BY <2>2
    <2>4. SizeAt(l, p) = l[Greatest(before)]
      BY <1>2 DEF SizeAt
    <2> QED BY <2>3, <2>4
  <1> QED BY <1>1, <1>2

(***************************************************************************)
(* What the stream's start, its losses, where it stands and the actions    *)
(* given so far have to do with each other: operators of values, so that   *)
(* they can be applied in the middle of a step.                            *)
(***************************************************************************)
Now(st) == IF st.mode = "fresh" THEN st.seq ELSE Until(st)

OldQuiet(st, d) ==
    \A i \in 1..Len(d) : d[i].do = "feed" =>
        \A p \in Positions(d[i]) : d[i].live <=> p >= Now(st)
FedTo(l, st, lost, at, d) ==
    /\ \A i, j \in 1..Len(d) : i < j => \A p \in Positions(d[i]), q \in Positions(d[j]) : p < q
    /\ \A p : (\E i \in 1..Len(d) : p \in Positions(d[i]))
                <=> p \in st.seq..at - 1 /\ l[p + 1] = Byte /\ p \notin lost
OnceLive(st, on, d) ==
    /\ on => st.mode = "reattach" /\ \A i \in 1..Len(d) : d[i].do # "live"
    /\ \A i, j \in 1..Len(d) : d[i].do = "live" /\ d[j].do = "live" => i = j
    /\ \A i \in 1..Len(d) : d[i].do = "live" => st.mode = "reattach"
    /\ \A i \in 1..Len(d) : d[i].do = "resize" =>
        st.mode = "reattach" /\ \A j \in 1..i : d[j].do # "live"

\* The last size among d[1..i] is d[k]'s
LastSize(d, i, k) ==
    /\ k \in 1..i /\ d[k].do = "resize"
    /\ \A j \in k + 1..i : d[j].do # "resize"
AtSize(l, d, i) ==
    \E k \in 1..i : LastSize(d, i, k) /\ \A p \in Positions(d[i]) : d[k].size = SizeAt(l, p)
AtSizes(l, lost, d) ==
    \A i \in 1..Len(d) : d[i].do = "feed" /\ ~d[i].live /\ (\A p \in lost : p > d[i].from)
        => AtSize(l, d, i)
\* The grid has the size of what comes next
GridReady(l, lost, at, on, d) ==
    on /\ lost = {} => \E k \in 1..Len(d) : LastSize(d, Len(d), k) /\ d[k].size = SizeAt(l, at)

Judged(l, st, lost, at, on, d) ==
    /\ OldQuiet(st, d) /\ FedTo(l, st, lost, at, d) /\ OnceLive(st, on, d)
    /\ AtSizes(l, lost, d) /\ GridReady(l, lost, at, on, d)

(***************************************************************************)
(* One more action.                                                        *)
(***************************************************************************)
Grows(d, e, a) ==
    /\ Len(d) \in Nat /\ Len(e) = Len(d) + 1
    /\ e[Len(e)] = a /\ \A i \in 1..Len(d) : e[i] = d[i]

\* Append lets a sequence grow.
LEMMA AppendGrows ==
  ASSUME NEW S, NEW d \in Seq(S), NEW a \in S
  PROVE  Grows(d, Append(d, a), a)
  BY AppendProperties DEF Grows

\* The places of the longer sequence.
LEMMA GrownPlaces ==
  ASSUME NEW d, NEW e, NEW a, Grows(d, e, a)
  PROVE  1..Len(e) = (1..Len(d)) \cup {Len(e)} /\ Len(e) \notin 1..Len(d)
  BY DEF Grows

\* Sizes found before are found again.
LEMMA GrownSizes ==
  ASSUME NEW d, NEW e, NEW a, Grows(d, e, a), NEW l, NEW lost, NEW i \in 1..Len(d), AtSize(l, d, i)
  PROVE  AtSize(l, e, i)
  <1>1. \A k \in 1..i : e[k] = d[k]
    BY DEF Grows
  <1>2. PICK k \in 1..i : LastSize(d, i, k) /\ \A p \in Positions(d[i]) : d[k].size = SizeAt(l, p)
    BY DEF AtSize
  <1>3. \A j \in k + 1..i : e[j] = d[j]
    BY DEF Grows
  <1>4. LastSize(e, i, k)
    BY <1>1, <1>2, <1>3 DEF LastSize
  <1>5. e[k] = d[k] /\ e[i] = d[i]
    BY <1>1
  <1> QED BY <1>2, <1>4, <1>5 DEF AtSize

\* An action that gives no size leaves the last one.
LEMMA GrownLast ==
  ASSUME NEW d, NEW e, NEW a, Grows(d, e, a), a.do # "resize", NEW k \in 1..Len(d),
         LastSize(d, Len(d), k)
  PROVE  LastSize(e, Len(e), k) /\ e[k].size = d[k].size
  <1>1. e[k] = d[k] /\ k \in 1..Len(e)
    BY DEF Grows
  <1>2. ASSUME NEW j \in k + 1..Len(e) PROVE e[j].do # "resize"
    <2>1. CASE j = Len(e)
      BY <2>1 DEF Grows
    <2>2. CASE j # Len(e)
      <3>1. j \in k + 1..Len(d) /\ j \in 1..Len(d)
        BY <2>2 DEF Grows
      <3>2. e[j] = d[j]
        BY <3>1 DEF Grows
      <3> QED BY <3>1, <3>2 DEF LastSize
    <2> QED BY <2>1, <2>2
  <1> QED BY <1>1, <1>2 DEF LastSize

\* An action that feeds nothing: what was fed stays as it was.
LEMMA QuietGrows ==
  ASSUME NEW l, NEW st, NEW lost, NEW at, NEW d, NEW e, NEW a,
         Grows(d, e, a), a.do # "feed", OldQuiet(st, d), FedTo(l, st, lost, at, d), AtSizes(l, lost, d)
  PROVE  OldQuiet(st, e) /\ FedTo(l, st, lost, at, e) /\ AtSizes(l, lost, e)
  <1>1. 1..Len(e) = (1..Len(d)) \cup {Len(e)}
    BY GrownPlaces
  <1>2. e[Len(e)] = a /\ Positions(a) = {} /\ \A i \in 1..Len(d) : e[i] = d[i]
    BY DEF Grows, Positions
  <1>3. OldQuiet(st, e)
    BY <1>1, <1>2 DEF OldQuiet
  <1>4. FedTo(l, st, lost, at, e)
    BY <1>1, <1>2 DEF FedTo
  <1>5. AtSizes(l, lost, e)
    <2> SUFFICES ASSUME NEW i \in 1..Len(e), e[i].do = "feed", ~e[i].live, \A p \in lost : p > e[i].from
                 PROVE  AtSize(l, e, i)
      BY DEF AtSizes
    <2>1. i \in 1..Len(d) /\ e[i] = d[i]
      BY <1>1, <1>2
    <2>2. AtSize(l, d, i)
      BY <2>1 DEF AtSizes
    <2> QED BY <2>1, <2>2, GrownSizes
  <1> QED BY <1>3, <1>4, <1>5

\* Modes are restored, or the exit is told.
LEMMA AsideGrows ==
  ASSUME NEW l, NEW st, NEW lost, NEW at, NEW on, NEW d, NEW e, NEW a,
         Grows(d, e, a), a.do \notin {"feed", "live", "resize"}, Judged(l, st, lost, at, on, d)
  PROVE  Judged(l, st, lost, at, on, e)
  <1>1. OldQuiet(st, e) /\ FedTo(l, st, lost, at, e) /\ AtSizes(l, lost, e)
    BY QuietGrows DEF Judged
  <1>2. 1..Len(e) = (1..Len(d)) \cup {Len(e)} /\ e[Len(e)] = a /\ \A i \in 1..Len(d) : e[i] = d[i]
    BY GrownPlaces DEF Grows
  <1>3. OnceLive(st, on, e)
    <2>1. OnceLive(st, on, d)
      BY DEF Judged
    <2>2. \A i \in 1..Len(d) : 1..i \subseteq 1..Len(d)
      BY DEF Grows
    <2>3. on => st.mode = "reattach" /\ \A i \in 1..Len(e) : e[i].do # "live"
      BY <1>2, <2>1 DEF OnceLive
    <2>4. \A i \in 1..Len(e) : e[i].do = "live" => i \in 1..Len(d) /\ d[i].do = "live"
      BY <1>2
    <2>5. /\ \A i, j \in 1..Len(e) : e[i].do = "live" /\ e[j].do = "live" => i = j
          /\ \A i \in 1..Len(e) : e[i].do = "live" => st.mode = "reattach"
      BY <2>1, <2>4 DEF OnceLive
    <2>6. ASSUME NEW i \in 1..Len(e), e[i].do = "resize"
          PROVE  st.mode = "reattach" /\ \A j \in 1..i : e[j].do # "live"
      <3>1. i \in 1..Len(d) /\ d[i].do = "resize"
        BY <1>2, <2>6
      <3> QED BY <1>2, <2>1, <2>2, <3>1 DEF OnceLive
    <2> QED BY <2>3, <2>5, <2>6 DEF OnceLive
  <1>4. GridReady(l, lost, at, on, e)
    <2> SUFFICES ASSUME on, lost = {}
                 PROVE  \E k \in 1..Len(e) : LastSize(e, Len(e), k) /\ e[k].size = SizeAt(l, at)
      BY DEF GridReady
    <2>1. PICK k \in 1..Len(d) : LastSize(d, Len(d), k) /\ d[k].size = SizeAt(l, at)
      BY DEF Judged, GridReady
    <2>2. LastSize(e, Len(e), k) /\ e[k].size = d[k].size /\ k \in 1..Len(e)
      BY <1>2, <2>1, GrownLast
    <2> QED BY <2>1, <2>2
  <1> QED BY <1>1, <1>3, <1>4 DEF Judged

\* The terminal goes live (finish).
LEMMA LiveGrows ==
  ASSUME NEW l, NEW st, NEW lost, NEW at, NEW d, NEW e,
         Grows(d, e, GoLive), Judged(l, st, lost, at, TRUE, d)
  PROVE  Judged(l, st, lost, at, FALSE, e)
  <1>1. OldQuiet(st, e) /\ FedTo(l, st, lost, at, e) /\ AtSizes(l, lost, e)
    BY QuietGrows DEF Judged, GoLive
  <1>2. 1..Len(e) = (1..Len(d)) \cup {Len(e)} /\ e[Len(e)] = GoLive /\ \A i \in 1..Len(d) : e[i] = d[i]
    BY GrownPlaces DEF Grows
  <1>3. OnceLive(st, FALSE, e)
    <2>1. OnceLive(st, TRUE, d)
      BY DEF Judged
    <2>2. \A i \in 1..Len(d) : 1..i \subseteq 1..Len(d)
      BY DEF Grows
    <2> QED BY <1>2, <2>1, <2>2 DEF OnceLive, GoLive
  <1>4. GridReady(l, lost, at, FALSE, e)
    BY DEF GridReady
  <1> QED BY <1>1, <1>3, <1>4 DEF Judged

\* Bytes are fed (output): the stream goes on by as many.
LEMMA FeedGrows ==
  ASSUME NEW l, NEW st, NEW lost, NEW at \in Nat, NEW n \in Nat \ {0}, NEW on \in BOOLEAN, NEW d, NEW e,
         Grows(d, e, FeedAt(at, n, ~on)), Judged(l, st, lost, at, on, d),
         st.seq \in Nat, st.seq <= at, lost \subseteq st.seq..at - 1, Now(st) \in Nat,
         \A k \in at + 1..at + n : l[k] = Byte,
         on => at + n <= Now(st), ~on => at >= Now(st)
  PROVE  Judged(l, st, lost, at + n, on, e)
  <1> DEFINE fed == at..at + n - 1
  <1>1. 1..Len(e) = (1..Len(d)) \cup {Len(e)} /\ Len(e) \notin 1..Len(d)
    BY GrownPlaces
  <1>2. /\ e[Len(e)].do = "feed" /\ e[Len(e)].live = ~on /\ e[Len(e)].from = at
        /\ Positions(e[Len(e)]) = fed
    BY DEF Grows, FeedAt, Positions
  <1>3. \A i \in 1..Len(d) : e[i] = d[i]
    BY DEF Grows
  <1>4. \A i \in 1..Len(d) : \A p \in Positions(d[i]) : p \in st.seq..at - 1
    BY DEF Judged, FedTo
  <1>5. OldQuiet(st, e)
    <2>1. \A p \in fed : ~on <=> p >= Now(st)
      <3>1. \A p \in fed : p \in Int /\ at <= p /\ p < at + n
        OBVIOUS
      <3> HIDE DEF fed
      <3>2. CASE on
        BY <3>1, <3>2
      <3>3. CASE ~on
        BY <3>1, <3>3
      <3> QED BY <3>2, <3>3
    <2>2. OldQuiet(st, d)
      BY DEF Judged
    <2> HIDE DEF fed
    <2> QED BY <1>1, <1>2, <1>3, <2>1, <2>2 DEF OldQuiet
  <1>6. FedTo(l, st, lost, at + n, e)
    <2>1. ASSUME NEW i \in 1..Len(e), NEW j \in 1..Len(e), i < j,
                 NEW p \in Positions(e[i]), NEW q \in Positions(e[j])
          PROVE  p < q
      <3>1. i \in 1..Len(d)
        BY <1>1, <2>1 DEF Grows
      <3>2. CASE j = Len(e)
        <4>1. p \in st.seq..at - 1
          BY <1>3, <1>4, <2>1, <3>1
        <4>2. q \in fed
          BY <1>2, <2>1, <3>2
        <4> QED BY <4>1, <4>2
      <3>3. CASE j # Len(e)
        BY <1>1, <1>3, <2>1, <3>1, <3>3 DEF Judged, FedTo
      <3> QED BY <3>2, <3>3
    <2>2. \A p : (\E i \in 1..Len(e) : p \in Positions(e[i]))
                   <=> (\E i \in 1..Len(d) : p \in Positions(d[i])) \/ p \in fed
      BY <1>1, <1>2, <1>3
    <2>3. \A p : p \in st.seq..at + n - 1 <=> p \in st.seq..at - 1 \/ p \in fed
      OBVIOUS
    <2>4. \A p \in fed : l[p + 1] = Byte /\ p \notin lost
      OBVIOUS
    <2>5. \A p : (\E i \in 1..Len(e) : p \in Positions(e[i]))
                   <=> p \in st.seq..at + n - 1 /\ l[p + 1] = Byte /\ p \notin lost
      <3> HIDE DEF fed
      <3> QED BY <2>2, <2>3, <2>4 DEF Judged, FedTo
    <2> QED BY <2>1, <2>5 DEF FedTo
  <1>7. OnceLive(st, on, e)
    <2>1. OnceLive(st, on, d)
      BY DEF Judged
    <2>2. \A i \in 1..Len(d) : 1..i \subseteq 1..Len(d)
      BY DEF Grows
    <2>3. on => st.mode = "reattach" /\ \A i \in 1..Len(e) : e[i].do # "live"
      BY <1>1, <1>2, <1>3, <2>1 DEF OnceLive
    <2>4. /\ \A i, j \in 1..Len(e) : e[i].do = "live" /\ e[j].do = "live" => i = j
          /\ \A i \in 1..Len(e) : e[i].do = "live" => st.mode = "reattach"
      BY <1>1, <1>2, <1>3, <2>1 DEF OnceLive
    <2>5. ASSUME NEW i \in 1..Len(e), e[i].do = "resize"
          PROVE  st.mode = "reattach" /\ \A j \in 1..i : e[j].do # "live"
      <3>1. i \in 1..Len(d) /\ d[i].do = "resize"
        BY <1>1, <1>2, <1>3, <2>5
      <3> QED BY <1>3, <2>1, <2>2, <3>1 DEF OnceLive
    <2> QED BY <2>3, <2>4, <2>5 DEF OnceLive
  <1>8. ASSUME on, lost = {}
        PROVE  \E k \in 1..Len(d) : LastSize(e, Len(e), k) /\ e[k].size = SizeAt(l, at)
    <2>1. PICK k \in 1..Len(d) : LastSize(d, Len(d), k) /\ d[k].size = SizeAt(l, at)
      BY <1>8 DEF Judged, GridReady
    <2>2. LastSize(e, Len(e), k) /\ e[k].size = d[k].size
      BY <2>1, GrownLast DEF FeedAt
    <2> QED BY <2>1, <2>2
  <1>9. \A p \in at..at + n : SizeAt(l, p) = SizeAt(l, at)
    <2> SUFFICES ASSUME NEW p \in at..at + n PROVE SizeAt(l, p) = SizeAt(l, at)
      OBVIOUS
    <2>1. p \in Nat /\ at <= p /\ \A k \in at + 1..p : l[k] = Byte
      OBVIOUS
    <2> QED BY <2>1, SizeOverBytes
  <1>10. AtSizes(l, lost, e)
    <2> SUFFICES ASSUME NEW i \in 1..Len(e), e[i].do = "feed", ~e[i].live, \A p \in lost : p > e[i].from
                 PROVE  AtSize(l, e, i)
      BY DEF AtSizes
    <2>1. CASE i \in 1..Len(d)
      <3>1. AtSize(l, d, i)
        BY <1>3, <2>1 DEF Judged, AtSizes
      <3> QED BY <2>1, <3>1, GrownSizes
    <2>2. CASE i = Len(e)
      <3>1. on /\ \A p \in lost : p > at
        BY <1>2, <2>2
      <3>2. lost = {}
        BY <3>1
      <3>3. PICK k \in 1..Len(d) : LastSize(e, Len(e), k) /\ e[k].size = SizeAt(l, at)
        BY <1>8, <3>1, <3>2
      <3>4. \A p \in Positions(e[i]) : e[k].size = SizeAt(l, p)
        BY <1>2, <1>9, <2>2, <3>3
      <3> QED BY <1>1, <2>2, <3>3, <3>4 DEF AtSize
    <2> QED BY <1>1, <2>1, <2>2
  <1>11. GridReady(l, lost, at + n, on, e)
    <2>1. SizeAt(l, at + n) = SizeAt(l, at)
      BY <1>9
    <2> QED BY <1>1, <1>8, <2>1 DEF GridReady
  <1> QED BY <1>5, <1>6, <1>7, <1>10, <1>11 DEF Judged

\* A position that is no byte is passed.
LEMMA PassedFed ==
  ASSUME NEW l, NEW st, NEW lost, NEW at \in Nat, NEW d, FedTo(l, st, lost, at, d),
         st.seq \in Nat, st.seq <= at, l[at + 1] \in GridSizes
  PROVE  FedTo(l, st, lost, at + 1, d)
  <1>1. l[at + 1] # Byte
    BY StreamReplayAssumption
  <1>2. \A p : p \in st.seq..at /\ l[p + 1] = Byte <=> p \in st.seq..at - 1 /\ l[p + 1] = Byte
    BY <1>1
  <1>3. (at + 1) - 1 = at
    OBVIOUS
  <1> QED BY <1>2, <1>3 DEF FedTo

\* A resize in the old output (resized).
LEMMA ResizeGrows ==
  ASSUME NEW l, NEW st, NEW lost, NEW at \in Nat, NEW d, NEW e,
         Grows(d, e, Resize(l[at + 1])), Judged(l, st, lost, at, TRUE, d),
         st.seq \in Nat, st.seq <= at, l[at + 1] \in GridSizes
  PROVE  Judged(l, st, lost, at + 1, TRUE, e)
  <1>1. OldQuiet(st, e) /\ FedTo(l, st, lost, at, e) /\ AtSizes(l, lost, e)
    BY QuietGrows DEF Judged, Resize
  <1>2. FedTo(l, st, lost, at + 1, e)
    BY <1>1, PassedFed
  <1>3. 1..Len(e) = (1..Len(d)) \cup {Len(e)} /\ e[Len(e)] = Resize(l[at + 1])
    BY GrownPlaces DEF Grows
  <1>4. \A i \in 1..Len(d) : e[i] = d[i]
    BY DEF Grows
  <1>5. OnceLive(st, TRUE, e)
    <2>1. st.mode = "reattach" /\ \A i \in 1..Len(e) : e[i].do # "live"
      BY <1>3, <1>4 DEF Judged, OnceLive, Resize
    <2>2. \A i \in 1..Len(e) : 1..i \subseteq 1..Len(e)
      BY DEF Grows
    <2> QED BY <2>1, <2>2 DEF OnceLive
  <1>6. LastSize(e, Len(e), Len(e)) /\ e[Len(e)].size = SizeAt(l, at + 1)
    BY <1>3, SizeAfterResize DEF LastSize, Resize, Grows
  <1>7. GridReady(l, lost, at + 1, TRUE, e)
    BY <1>3, <1>6 DEF GridReady
  <1> QED BY <1>1, <1>2, <1>5, <1>7 DEF Judged

\* A resize in the present, which the window decides itself.
LEMMA ResizePassed ==
  ASSUME NEW l, NEW st, NEW lost, NEW at \in Nat, NEW d, Judged(l, st, lost, at, FALSE, d),
         st.seq \in Nat, st.seq <= at, l[at + 1] \in GridSizes
  PROVE  Judged(l, st, lost, at + 1, FALSE, d)
  BY PassedFed DEF Judged, GridReady

\* A gap: what it left out is lost (gap).
LEMMA GapPassed ==
  ASSUME NEW l, NEW st, NEW lost, NEW at \in Nat, NEW to \in Nat, NEW on, NEW d,
         Judged(l, st, lost, at, on, d), at < to, st.seq \in Nat, st.seq <= at
  PROVE  Judged(l, st, lost \cup (at..to - 1), to, on, d)
  <1> DEFINE gone == lost \cup (at..to - 1)
  <1>1. FedTo(l, st, gone, to, d)
    <2>1. \A p : p \in st.seq..to - 1 /\ p \notin gone <=> p \in st.seq..at - 1 /\ p \notin lost
      OBVIOUS
    <2> HIDE DEF gone
    <2> QED BY <2>1 DEF Judged, FedTo
  <1>2. AtSizes(l, gone, d)
    BY DEF Judged, AtSizes
  <1>3. gone # {}
    <2>1. at \in gone
      OBVIOUS
    <2> QED BY <2>1
  <1> HIDE DEF gone
  <1>4. GridReady(l, gone, to, on, d)
    BY <1>3 DEF GridReady
  <1>5. Judged(l, st, gone, to, on, d)
    BY <1>1, <1>2, <1>4 DEF Judged
  <1> QED BY <1>5 DEF gone

\* The log goes on.
LEMMA LogGrows ==
  ASSUME NEW l, NEW m, NEW st, NEW lost, NEW at \in Nat, NEW on, NEW d,
         Judged(l, st, lost, at, on, d), st.seq \in Nat, \A k \in 1..at : l[k] = m[k]
  PROVE  Judged(m, st, lost, at, on, d)
  <1>1. \A p \in 0..at : SizeAt(l, p) = SizeAt(m, p)
    <2> SUFFICES ASSUME NEW p \in 0..at PROVE SizeAt(l, p) = SizeAt(m, p)
      OBVIOUS
    <2>1. p \in Nat /\ \A k \in 1..p : l[k] = m[k]
      OBVIOUS
    <2> QED BY <2>1, SizeOfPrefix
  <1>2. \A p \in st.seq..at - 1 : p + 1 \in 1..at /\ p \in 0..at
    OBVIOUS
  <1>3. FedTo(m, st, lost, at, d)
    BY <1>2 DEF Judged, FedTo
  <1>4. \A i \in 1..Len(d) : \A p \in Positions(d[i]) : SizeAt(l, p) = SizeAt(m, p)
    BY <1>1, <1>2 DEF Judged, FedTo
  <1>5. AtSizes(m, lost, d)
    <2> SUFFICES ASSUME NEW i \in 1..Len(d), d[i].do = "feed", ~d[i].live, \A p \in lost : p > d[i].from
                 PROVE  AtSize(m, d, i)
      BY DEF AtSizes
    <2>1. PICK k \in 1..i : LastSize(d, i, k) /\ \A p \in Positions(d[i]) : d[k].size = SizeAt(l, p)
      BY DEF Judged, AtSizes, AtSize
    <2>2. \A p \in Positions(d[i]) : d[k].size = SizeAt(m, p)
      BY <1>4, <2>1
    <2> QED BY <2>1, <2>2 DEF AtSize
  <1>6. SizeAt(l, at) = SizeAt(m, at)
    BY <1>1
  <1>7. GridReady(m, lost, at, on, d)
    BY <1>6 DEF Judged, GridReady
  <1> QED BY <1>3, <1>5, <1>7 DEF Judged

(***************************************************************************)
(* The terminal's state as StreamReplay's operators pass it on.            *)
(***************************************************************************)
Actions ==
    [do: {"resize"}, size: GridSizes]
        \cup [do: {"feed"}, from: Nat, count: Nat, live: BOOLEAN]
        \cup [do: {"modes"}, live: BOOLEAN] \cup [do: {"live", "exited"}]
Steps == {"continue", "redraw", "ended"}
Terminals ==
    [sink: [pending: Pending, position: 0..MaxSeq, step: Steps], done: Seq(Actions)]

NoExit(d) == \A i \in 1..Len(d) : d[i].do # "exited"
Waits(s) == s.sink.pending.on
\* In the middle of an event: the stream has come to at
Standing(l, st, lost, at, s) ==
    /\ Judged(l, st, lost, at, Waits(s), s.done) /\ NoExit(s.done)
    /\ Waits(s) => s.sink.pending.until = Now(st)

\* What is returned is noted.
LEMMA ReturnsShape ==
  ASSUME NEW s \in Terminals, NEW step \in Steps
  PROVE  /\ Returns(s, step) \in Terminals /\ Returns(s, step).done = s.done
         /\ Returns(s, step).sink.pending = s.sink.pending
         /\ Returns(s, step).sink.position = s.sink.position
         /\ Returns(s, step).sink.step = step
  BY DEF Returns, Terminals

\* An action is handed out.
LEMMA DoShape ==
  ASSUME NEW s \in Terminals, NEW a \in Actions
  PROVE  /\ Do(s, a) \in Terminals /\ Do(s, a).sink = s.sink /\ Do(s, a).done = Append(s.done, a)
         /\ Grows(s.done, Do(s, a).done, a)
  <1>1. s.done \in Seq(Actions)
    BY DEF Terminals
  <1>2. Append(s.done, a) \in Seq(Actions)
    BY <1>1
  <1>3. Do(s, a).sink = s.sink /\ Do(s, a).done = Append(s.done, a)
    BY DEF Do, Terminals
  <1>4. Do(s, a) \in Terminals
    BY <1>2 DEF Do, Terminals
  <1> QED BY <1>1, <1>3, <1>4, AppendGrows

\* The position is noted.
LEMMA PositionShape ==
  ASSUME NEW s \in Terminals, NEW p \in 0..MaxSeq
  PROVE  LET at == [s EXCEPT !.sink.position = p] IN
         /\ at \in Terminals /\ at.done = s.done /\ at.sink.pending = s.sink.pending
         /\ at.sink.position = p /\ at.sink.step = s.sink.step
  BY DEF Terminals

\* The actions are actions.
LEMMA ActionShapes ==
  /\ GoLive \in Actions /\ Exit \in Actions
  /\ \A b \in BOOLEAN : Modes(b) \in Actions
  /\ \A z \in GridSizes : Resize(z) \in Actions
  /\ \A p, n \in Nat : \A b \in BOOLEAN : FeedAt(p, n, b) \in Actions
  BY DEF GoLive, Exit, Modes, Resize, FeedAt, Actions

\* No exit yet, and none after an action that is none.
LEMMA NoExitGrows ==
  ASSUME NEW d, NEW e, NEW a, Grows(d, e, a), NoExit(d), a.do # "exited"
  PROVE  NoExit(e)
  <1>1. 1..Len(e) = (1..Len(d)) \cup {Len(e)}
    BY GrownPlaces
  <1> QED BY <1>1 DEF Grows, NoExit

\* The replay is over (finish).
LEMMA FinishStands ==
  ASSUME NEW l, NEW st, NEW lost, NEW at, NEW s \in Terminals, Standing(l, st, lost, at, s)
  PROVE  /\ Finish(s) \in Terminals /\ Standing(l, st, lost, at, Finish(s))
         /\ ~Waits(Finish(s)) /\ Finish(s).sink.position = s.sink.position
         /\ Finish(s).sink.step = IF Waits(s) /\ s.sink.pending.redraw THEN "redraw" ELSE "continue"
  <1>1. CASE ~Waits(s)
    <2>1. Finish(s) = Returns(s, "continue")
      BY <1>1 DEF Finish, Waits
    <2>2. "continue" \in Steps
      BY DEF Steps
    <2> QED BY <1>1, <2>1, <2>2, ReturnsShape DEF Standing, Waits
  <1>2. CASE Waits(s)
    <2> DEFINE step == IF s.sink.pending.redraw THEN "redraw" ELSE "continue"
               gone == Do(s, GoLive)
               told == Returns(gone, step)
               over == [told EXCEPT !.sink.pending = Live]
    <2>1. Finish(s) = over
      BY <1>2 DEF Finish, Waits
    <2>2. step \in Steps
      BY DEF Steps
    <2> HIDE DEF step
    <2>3. gone \in Terminals /\ gone.sink = s.sink /\ Grows(s.done, gone.done, GoLive)
      BY DoShape, ActionShapes
    <2> HIDE DEF gone
    <2>4. /\ told \in Terminals /\ told.done = gone.done
          /\ told.sink.position = s.sink.position /\ told.sink.step = step
      BY <2>2, <2>3, ReturnsShape
    <2> HIDE DEF told
    <2>5. Live \in Pending
      BY StreamReplayAssumption DEF Live, Pending
    <2>6. /\ over \in Terminals /\ over.done = told.done /\ over.sink.pending = Live
          /\ over.sink.position = told.sink.position /\ over.sink.step = told.sink.step
      BY <2>4, <2>5 DEF Terminals
    <2> HIDE DEF over
    <2>7. ~Waits(over)
      BY <2>6 DEF Waits, Live
    <2>8. Waits(s) = TRUE
      BY <1>2 DEF Waits, Terminals, Pending
    <2>9. Judged(l, st, lost, at, FALSE, over.done)
      BY <2>3, <2>4, <2>6, <2>8, LiveGrows DEF Standing
    <2>10. NoExit(over.done)
      BY <2>3, <2>4, <2>6, NoExitGrows DEF Standing, GoLive
    <2>11. Waits(over) = FALSE
      BY <2>6 DEF Waits, Live
    <2>12. Standing(l, st, lost, at, over)
      BY <2>9, <2>10, <2>11 DEF Standing
    <2> QED BY <1>2, <2>1, <2>4, <2>6, <2>7, <2>12 DEF step
  <1> QED BY <1>1, <1>2

\* The stream is known to have come to a position (reached).
LEMMA ReachedStands ==
  ASSUME NEW l, NEW st, NEW lost, NEW at \in 0..MaxSeq, Now(st) \in Nat,
         NEW s \in Terminals, Standing(l, st, lost, at, s)
  PROVE  LET r == Reached(s, at) IN
         /\ r \in Terminals /\ Standing(l, st, lost, at, r)
         /\ Waits(r) => /\ Waits(s) /\ at < Now(st) /\ r.sink.position = at
                        /\ r.sink.pending = s.sink.pending /\ r.sink.step = "continue"
         /\ ~Waits(r) /\ Waits(s) =>
                /\ at >= Now(st)
                /\ r.sink.step = IF s.sink.pending.redraw THEN "redraw" ELSE "continue"
         /\ ~Waits(s) => r.sink.step = "continue"
  <1> DEFINE here == [s EXCEPT !.sink.position = at]
  <1>1. /\ here \in Terminals /\ here.done = s.done /\ here.sink.pending = s.sink.pending
        /\ here.sink.position = at
    BY PositionShape
  <1>2. Reached(s, at) = IF Over(s, at) THEN Finish(here) ELSE Returns(here, "continue")
    BY DEF Reached
  <1> HIDE DEF here
  <1>3. Waits(here) = Waits(s) /\ Standing(l, st, lost, at, here)
    BY <1>1 DEF Standing, Waits
  <1>4. CASE Over(s, at)
    <2>1. Waits(s) /\ at >= Now(st)
      BY <1>4 DEF Over, Standing, Waits
    <2>2. Reached(s, at) = Finish(here)
      BY <1>2, <1>4
    <2> DEFINE r == Finish(here)
    <2>3. /\ r \in Terminals /\ Standing(l, st, lost, at, r) /\ ~Waits(r)
          /\ r.sink.step = IF Waits(here) /\ here.sink.pending.redraw THEN "redraw" ELSE "continue"
      BY <1>1, <1>3, FinishStands
    <2> HIDE DEF r
    <2>4. r.sink.step = IF s.sink.pending.redraw THEN "redraw" ELSE "continue"
      BY <1>1, <1>3, <2>1, <2>3
    <2>5. Reached(s, at) = r
      BY <2>2 DEF r
    <2> QED BY <2>1, <2>3, <2>4, <2>5
  <1>5. CASE ~Over(s, at)
    <2>1. Waits(s) => at < Now(st)
      BY <1>5 DEF Over, Standing, Waits
    <2>2. Reached(s, at) = Returns(here, "continue")
      BY <1>2, <1>5
    <2>3. "continue" \in Steps
      BY DEF Steps
    <2> DEFINE r == Returns(here, "continue")
    <2>4. /\ r \in Terminals /\ r.done = here.done /\ r.sink.pending = here.sink.pending
          /\ r.sink.position = here.sink.position /\ r.sink.step = "continue"
      BY <1>1, <2>3, ReturnsShape
    <2> HIDE DEF r
    <2>5. Waits(r) = Waits(s)
      BY <1>1, <2>4 DEF Waits
    <2>6. Standing(l, st, lost, at, r)
      BY <1>3, <2>4, <2>5 DEF Standing
    <2> QED BY <1>1, <2>1, <2>2, <2>4, <2>5, <2>6 DEF r
  <1> QED BY <1>4, <1>5

\* Bytes are fed, or none.
LEMMA FeedStands ==
  ASSUME NEW l, NEW st, NEW lost, NEW at \in Nat, NEW n \in Nat,
         NEW s \in Terminals, Standing(l, st, lost, at, s),
         st.seq \in Nat, st.seq <= at, lost \subseteq st.seq..at - 1, Now(st) \in Nat,
         \A k \in at + 1..at + n : l[k] = Byte,
         Waits(s) => at + n <= Now(st), n = 0 \/ Waits(s) \/ at >= Now(st)
  PROVE  /\ Feed(s, at, n) \in Terminals /\ Feed(s, at, n).sink = s.sink
         /\ Standing(l, st, lost, at + n, Feed(s, at, n))
  <1>1. CASE n = 0
    <2>1. Feed(s, at, n) = s /\ at + n = at
      BY <1>1 DEF Feed
    <2> QED BY <2>1
  <1>2. CASE n # 0
    <2> DEFINE on == Waits(s)
               a == FeedAt(at, n, ~on)
               fed == Do(s, a)
    <2>1. Feed(s, at, n) = fed
      BY <1>2 DEF Feed, Waits
    <2>2. on \in BOOLEAN
      BY DEF Waits, Terminals, Pending
    <2>3. a \in Actions /\ a.do = "feed"
      BY <2>2, ActionShapes DEF FeedAt
    <2>4. Judged(l, st, lost, at, on, s.done) /\ NoExit(s.done) /\ (on => s.sink.pending.until = Now(st))
      BY DEF Standing
    <2>5. (on => at + n <= Now(st)) /\ (~on => at >= Now(st))
      BY <1>2
    <2>6. Waits(fed) = on /\ fed \in Terminals /\ fed.sink = s.sink /\ Grows(s.done, fed.done, a)
      <3> HIDE DEF a
      <3>1. fed \in Terminals /\ fed.sink = s.sink /\ Grows(s.done, fed.done, a)
        BY <2>3, DoShape
      <3> QED BY <3>1 DEF Waits
    <2> HIDE DEF fed
    <2>7. Judged(l, st, lost, at + n, on, fed.done)
      <3> HIDE DEF on
      <3> QED BY <1>2, <2>2, <2>4, <2>5, <2>6, FeedGrows
    <2>8. NoExit(fed.done)
      <3> HIDE DEF a
      <3> QED BY <2>3, <2>4, <2>6, NoExitGrows
    <2> HIDE DEF a
    <2>9. Standing(l, st, lost, at + n, fed)
      BY <2>4, <2>6, <2>7, <2>8 DEF Standing
    <2> QED BY <2>1, <2>6, <2>9
  <1> QED BY <1>1, <1>2

(***************************************************************************)
(* Between events: the terminal's state, a preamble that is read and not   *)
(* followed by a repaint (ow) and one that comes next (du).                *)
(***************************************************************************)
Placed(st, lost, at) ==
    /\ st.seq \in Nat /\ st.seq <= at /\ at \in 0..MaxSeq
    /\ lost \subseteq st.seq..at - 1 /\ Now(st) \in Nat
Kept(l, st, lost, at, s, ow, du) ==
    /\ s \in Terminals /\ Judged(l, st, lost, at, Waits(s), s.done)
    /\ Waits(s) => /\ s.sink.pending.until = Now(st) /\ s.sink.position = at
                   /\ ~du => at < Now(st)
    /\ ~Waits(s) /\ s.sink.step # "ended" => at >= Now(st)
    /\ ow /\ s.sink.step # "ended" => Waits(s) /\ s.sink.pending.redraw
    /\ s.sink.step \in {"ended", "redraw"} => ~Waits(s)
    /\ s.sink.step # "ended" => NoExit(s.done)
    /\ \A i \in 1..Len(s.done) : s.done[i].do = "exited" => i = Len(s.done)

\* Before an event the terminal stands where the stream does.
LEMMA KeptStands ==
  ASSUME NEW l, NEW st, NEW lost, NEW at, NEW s, NEW ow, NEW du,
         Kept(l, st, lost, at, s, ow, du), s.sink.step # "ended"
  PROVE  s \in Terminals /\ Standing(l, st, lost, at, s)
  BY DEF Kept, Standing

\* After an event that ended with reached.
LEMMA ReachedKept ==
  ASSUME NEW l, NEW st, NEW lost, NEW at, Placed(st, lost, at),
         NEW s \in Terminals, Standing(l, st, lost, at, s), ~Waits(s) => at >= Now(st),
         NEW ow \in BOOLEAN, ow => Waits(s) /\ s.sink.pending.redraw, NEW du \in BOOLEAN
  PROVE  LET r == Reached(s, at) IN
         Kept(l, st, lost, at, r, ow /\ r.sink.step # "redraw", du)
  <1> DEFINE r == Reached(s, at)
  <1>1. at \in 0..MaxSeq /\ Now(st) \in Nat
    BY DEF Placed
  <1>2. /\ r \in Terminals /\ Standing(l, st, lost, at, r)
        /\ Waits(r) => /\ Waits(s) /\ at < Now(st) /\ r.sink.position = at
                       /\ r.sink.pending = s.sink.pending /\ r.sink.step = "continue"
        /\ ~Waits(r) /\ Waits(s) =>
               /\ at >= Now(st)
               /\ r.sink.step = IF s.sink.pending.redraw THEN "redraw" ELSE "continue"
        /\ ~Waits(s) => r.sink.step = "continue"
    BY <1>1, ReachedStands
  <1> HIDE DEF r
  <1>3. NoExit(r.done) /\ Judged(l, st, lost, at, Waits(r), r.done)
    BY <1>2 DEF Standing
  <1>4. Waits(r) => r.sink.pending.until = Now(st)
    BY <1>2 DEF Standing
  <1>5. ~Waits(r) => at >= Now(st)
    BY <1>2
  <1>6. ow /\ r.sink.step # "redraw" => Waits(r) /\ r.sink.pending.redraw
    BY <1>2
  <1>7. r.sink.step \in {"ended", "redraw"} => ~Waits(r)
    BY <1>2
  <1>8. \A i \in 1..Len(r.done) : r.done[i].do = "exited" => i = Len(r.done)
    BY <1>3 DEF NoExit
  <1>9. Kept(l, st, lost, at, r, ow /\ r.sink.step # "redraw", du)
    BY <1>2, <1>3, <1>4, <1>5, <1>6, <1>7, <1>8 DEF Kept
  <1> QED BY <1>9 DEF r

\* After an event of a terminal that is live.
LEMMA LiveKept ==
  ASSUME NEW l, NEW st, NEW lost, NEW at, at >= Now(st),
         NEW s \in Terminals, Standing(l, st, lost, at, s), ~Waits(s),
         NEW step \in {"continue", "redraw"}, NEW du
  PROVE  Kept(l, st, lost, at, Returns(s, step), FALSE, du)
  <1> DEFINE r == Returns(s, step)
  <1>1. step \in Steps
    BY DEF Steps
  <1>2. r \in Terminals /\ r.done = s.done /\ r.sink.pending = s.sink.pending /\ r.sink.step = step
    BY <1>1, ReturnsShape
  <1> HIDE DEF r
  <1>3. Waits(r) = Waits(s) /\ ~Waits(r)
    BY <1>2 DEF Waits
  <1>4. NoExit(r.done) /\ Judged(l, st, lost, at, Waits(r), r.done)
    BY <1>2, <1>3 DEF Standing
  <1>5. \A i \in 1..Len(r.done) : r.done[i].do = "exited" => i = Len(r.done)
    BY <1>4 DEF NoExit
  <1>6. Kept(l, st, lost, at, r, FALSE, du)
    BY <1>2, <1>3, <1>4, <1>5 DEF Kept
  <1> QED BY <1>6 DEF r

\* The stream has no more to tell: the last event (exited, abandon).
LEMMA EndKept ==
  ASSUME NEW l, NEW st, NEW lost, NEW at, NEW s \in Terminals, ~Waits(s),
         Judged(l, st, lost, at, Waits(s), s.done),
         \A i \in 1..Len(s.done) : s.done[i].do = "exited" => i = Len(s.done), NEW ow, NEW du
  PROVE  Kept(l, st, lost, at, Returns(s, "ended"), ow, du)
  <1> DEFINE r == Returns(s, "ended")
  <1>1. "ended" \in Steps
    BY DEF Steps
  <1>2. r \in Terminals /\ r.done = s.done /\ r.sink.pending = s.sink.pending /\ r.sink.step = "ended"
    BY <1>1, ReturnsShape
  <1> HIDE DEF r
  <1>3. Waits(r) = Waits(s) /\ ~Waits(r)
    BY <1>2 DEF Waits
  <1>4. Kept(l, st, lost, at, r, ow, du)
    BY <1>2, <1>3 DEF Kept
  <1> QED BY <1>4 DEF r

(***************************************************************************)
(* One event each.                                                         *)
(***************************************************************************)
\* Bytes, of which the first may be old and the rest new (output).
LEMMA OutputKept ==
  ASSUME NEW l, NEW st, NEW lost, NEW at, Placed(st, lost, at), NEW n \in Nat \ {0},
         at + n \in 0..MaxSeq, \A k \in at + 1..at + n : l[k] = Byte,
         NEW s, NEW ow \in BOOLEAN, Kept(l, st, lost, at, s, ow, FALSE), s.sink.step # "ended"
  PROVE  LET r == Output(s, at, n) IN
         Kept(l, st, lost, at + n, r, ow /\ r.sink.step # "redraw", FALSE)
  <1>1. s \in Terminals /\ Standing(l, st, lost, at, s)
    BY KeptStands
  <1>2. /\ at \in Nat /\ st.seq \in Nat /\ st.seq <= at /\ lost \subseteq st.seq..at - 1
        /\ Now(st) \in Nat
    BY DEF Placed
  <1>3. CASE ~Waits(s)
    <2> DEFINE fed == Feed(s, at, n)
    <2>1. Output(s, at, n) = Returns(fed, "continue")
      BY <1>3 DEF Output, Waits
    <2>2. at >= Now(st) /\ ~ow
      BY <1>3 DEF Kept
    <2>3. fed \in Terminals /\ fed.sink = s.sink /\ Standing(l, st, lost, at + n, fed)
      BY <1>1, <1>2, <1>3, <2>2, FeedStands
    <2> HIDE DEF fed
    <2>4. ~Waits(fed) /\ at + n >= Now(st)
      BY <1>2, <1>3, <2>2, <2>3 DEF Waits
    <2>5. Kept(l, st, lost, at + n, Returns(fed, "continue"), FALSE, FALSE)
      BY <2>3, <2>4, LiveKept
    <2>6. (ow /\ Returns(fed, "continue").sink.step # "redraw") = FALSE
      BY <2>2
    <2> QED BY <2>1, <2>5, <2>6
  <1>4. CASE Waits(s)
    <2> DEFINE old == Old(s, at, n)
               fed == Feed(s, at, old)
               crossed == Reached(fed, at + old)
    <2>1. s.sink.pending.until = Now(st) /\ at < Now(st)
      BY <1>4 DEF Kept
    <2>2. old = IF n <= Now(st) - at THEN n ELSE Now(st) - at
      <3>1. old = Least({n, Now(st) - at})
        BY <2>1 DEF Old
      <3>2. Now(st) - at \in Nat
        BY <1>2, <2>1
      <3> HIDE DEF old
      <3> QED BY <3>1, <3>2, LeastOfTwo
    <2>3. Output(s, at, n) = Feed(crossed, at + old, n - old)
      BY <1>4 DEF Output, Waits
    <2> HIDE DEF old
    <2>4. /\ old \in Nat /\ n - old \in Nat /\ at + old \in 0..MaxSeq /\ at + old <= Now(st)
          /\ at <= at + old /\ at + old + (n - old) = at + n
          /\ n - old = 0 \/ at + old >= Now(st)
      <3>1. n \in Nat /\ at \in Nat /\ Now(st) \in Nat /\ at < Now(st) /\ at + n \in 0..MaxSeq
        BY <1>2, <2>1
      <3> QED BY <2>2, <3>1, StreamReplayAssumption
    <2>5. \A k \in at + 1..at + old : l[k] = Byte
      <3>1. at + 1..at + old \subseteq at + 1..at + n
        BY <1>2, <2>4
      <3> QED BY <3>1
    <2>6. fed \in Terminals /\ fed.sink = s.sink /\ Standing(l, st, lost, at + old, fed)
      BY <1>1, <1>2, <1>4, <2>4, <2>5, FeedStands
    <2> HIDE DEF fed
    <2>7. Waits(fed) /\ (ow => fed.sink.pending.redraw)
      BY <1>4, <2>6 DEF Waits, Kept
    <2>8. Placed(st, lost, at + old)
      BY <1>2, <2>4 DEF Placed
    <2>9. Kept(l, st, lost, at + old, crossed, ow /\ crossed.sink.step # "redraw", FALSE)
      BY <2>6, <2>7, <2>8, ReachedKept
    <2>10. crossed \in Terminals /\ crossed.sink.step # "ended"
      <3>1. /\ crossed \in Terminals
            /\ Waits(crossed) => crossed.sink.step = "continue"
            /\ ~Waits(crossed) => crossed.sink.step \in {"continue", "redraw"}
        BY <1>2, <2>4, <2>6, <2>7, ReachedStands
      <3> HIDE DEF crossed
      <3> QED BY <3>1
    <2> HIDE DEF crossed
    <2>11. CASE n - old = 0
      <3>1. Feed(crossed, at + old, n - old) = crossed /\ at + old = at + n
        BY <2>4, <2>11 DEF Feed
      <3> QED BY <2>3, <2>9, <3>1
    <2>12. CASE n - old # 0
      <3> DEFINE r == Feed(crossed, at + old, n - old)
      <3>1. at + old >= Now(st) /\ ~Waits(crossed)
        <4>1. at + old \in Nat /\ Now(st) \in Nat /\ at + old >= Now(st)
          BY <1>2, <2>4, <2>12
        <4>2. Waits(crossed) => at + old < Now(st)
          BY <2>9 DEF Kept
        <4> QED BY <4>1, <4>2
      <3>2. Standing(l, st, lost, at + old, crossed)
        BY <2>9, <2>10, KeptStands
      <3>3. \A k \in (at + old) + 1..(at + old) + (n - old) : l[k] = Byte
        <4>1. (at + old) + 1..(at + old) + (n - old) \subseteq at + 1..at + n
          BY <1>2, <2>4
        <4> QED BY <4>1
      <3>4. /\ r \in Terminals /\ r.sink = crossed.sink
            /\ Standing(l, st, lost, (at + old) + (n - old), r)
        <4>1. at + old \in Nat /\ st.seq <= at + old /\ lost \subseteq st.seq..(at + old) - 1
          BY <2>4, <2>8 DEF Placed
        <4> QED BY <1>2, <2>4, <2>10, <3>1, <3>2, <3>3, <4>1, FeedStands
      <3> HIDE DEF r
      <3>5. Standing(l, st, lost, at + n, r) /\ ~Waits(r)
        BY <2>4, <3>1, <3>4 DEF Waits
      <3>6. at + n >= Now(st)
        BY <1>2, <2>4, <3>1
      <3>7. (ow /\ r.sink.step # "redraw") = FALSE
        BY <2>9, <2>10, <3>1, <3>4 DEF Kept
      <3>8. Kept(l, st, lost, at + n, r, FALSE, FALSE)
        BY <3>4, <3>5, <3>6 DEF Kept, Standing, NoExit
      <3> QED BY <2>3, <3>7, <3>8 DEF r
    <2> QED BY <2>11, <2>12
  <1> QED BY <1>3, <1>4

\* A resize of the log (resized).
LEMMA ResizedKept ==
  ASSUME NEW l, NEW st, NEW lost, NEW at, Placed(st, lost, at), at + 1 \in 0..MaxSeq,
         l[at + 1] \in GridSizes,
         NEW s, NEW ow \in BOOLEAN, Kept(l, st, lost, at, s, ow, FALSE), s.sink.step # "ended"
  PROVE  LET r == Resized(s, at, l[at + 1]) IN
         Kept(l, st, lost, at + 1, r, ow /\ r.sink.step # "redraw", FALSE)
  <1>1. s \in Terminals /\ Standing(l, st, lost, at, s)
    BY KeptStands
  <1>2. at \in Nat /\ st.seq \in Nat /\ st.seq <= at /\ Now(st) \in Nat
    BY DEF Placed
  <1>3. Placed(st, lost, at + 1)
    BY <1>2 DEF Placed
  <1> DEFINE sized == IF Waits(s) /\ at < s.sink.pending.until THEN Do(s, Resize(l[at + 1])) ELSE s
  <1>4. Resized(s, at, l[at + 1]) = Reached(sized, at + 1)
    BY DEF Resized, Waits
  <1>5. /\ sized \in Terminals /\ sized.sink = s.sink /\ Standing(l, st, lost, at + 1, sized)
        /\ (Waits(sized) <=> Waits(s)) /\ (~Waits(s) => at + 1 >= Now(st))
    <2>1. CASE Waits(s)
      <3> DEFINE e == Do(s, Resize(l[at + 1]))
      <3>1. sized = e
        BY <2>1 DEF Kept
      <3>2. Resize(l[at + 1]) \in Actions
        BY ActionShapes
      <3>3. e \in Terminals /\ e.sink = s.sink /\ Grows(s.done, e.done, Resize(l[at + 1]))
        BY <1>1, <3>2, DoShape
      <3> HIDE DEF e, sized
      <3>4. Waits(s) = TRUE /\ Waits(e) = TRUE
        BY <1>1, <2>1, <3>3 DEF Waits, Terminals, Pending
      <3>5. Judged(l, st, lost, at, TRUE, s.done)
        BY <1>1, <3>4 DEF Standing
      <3>6. Judged(l, st, lost, at + 1, TRUE, e.done)
        BY <1>2, <3>3, <3>5, ResizeGrows
      <3>7. NoExit(e.done)
        BY <1>1, <3>3, NoExitGrows DEF Standing, Resize
      <3>8. Standing(l, st, lost, at + 1, e)
        BY <1>1, <3>3, <3>4, <3>6, <3>7 DEF Standing
      <3> QED BY <2>1, <3>1, <3>3, <3>4, <3>8
    <2>2. CASE ~Waits(s)
      <3>1. sized = s
        BY <2>2
      <3> HIDE DEF sized
      <3>2. Waits(s) = FALSE
        BY <1>1, <2>2 DEF Waits, Terminals, Pending
      <3>3. Judged(l, st, lost, at, FALSE, s.done)
        BY <1>1, <3>2 DEF Standing
      <3>4. Judged(l, st, lost, at + 1, FALSE, s.done)
        BY <1>2, <3>3, ResizePassed
      <3>5. Standing(l, st, lost, at + 1, s)
        BY <1>1, <3>2, <3>4 DEF Standing
      <3>6. at + 1 >= Now(st)
        BY <1>2, <2>2 DEF Kept
      <3> QED BY <1>1, <2>2, <3>1, <3>5, <3>6
    <2> QED BY <2>1, <2>2
  <1> HIDE DEF sized
  <1>6. ow => Waits(sized) /\ sized.sink.pending.redraw
    BY <1>5 DEF Kept
  <1> QED BY <1>3, <1>4, <1>5, <1>6, ReachedKept

\* The log was trimmed past the stream (gap).
LEMMA GapKept ==
  ASSUME NEW l, NEW st, NEW lost, NEW at, Placed(st, lost, at), NEW to \in 0..MaxSeq, at < to,
         NEW s, NEW ow \in BOOLEAN, Kept(l, st, lost, at, s, ow, FALSE), s.sink.step # "ended"
  PROVE  LET r == Reached(s, to) IN
         Kept(l, st, lost \cup (at..to - 1), to, r, ow /\ r.sink.step # "redraw", TRUE)
  <1> DEFINE gone == lost \cup (at..to - 1)
  <1>1. s \in Terminals /\ Standing(l, st, lost, at, s)
    BY KeptStands
  <1>2. /\ at \in Nat /\ to \in Nat /\ st.seq \in Nat /\ st.seq <= at /\ Now(st) \in Nat
        /\ lost \subseteq st.seq..at - 1
    BY DEF Placed
  <1>3. Placed(st, gone, to)
    <2>1. gone \subseteq st.seq..to - 1
      <3>1. \A p \in lost : p \in st.seq..at - 1
        BY <1>2
      <3>2. \A p \in lost : p \in st.seq..to - 1
        BY <1>2, <3>1
      <3>3. at..to - 1 \subseteq st.seq..to - 1
        BY <1>2
      <3> QED BY <3>2, <3>3
    <2> HIDE DEF gone
    <2> QED BY <1>2, <2>1 DEF Placed
  <1>4. Judged(l, st, gone, to, Waits(s), s.done)
    BY <1>1, <1>2, GapPassed DEF Standing
  <1> HIDE DEF gone
  <1>5. Standing(l, st, gone, to, s)
    BY <1>1, <1>4 DEF Standing
  <1>6. ~Waits(s) => to >= Now(st)
    BY <1>2 DEF Kept
  <1>7. ow => Waits(s) /\ s.sink.pending.redraw
    BY DEF Kept
  <1>8. Kept(l, st, gone, to, Reached(s, to), ow /\ Reached(s, to).sink.step # "redraw", TRUE)
    BY <1>1, <1>3, <1>5, <1>6, <1>7, ReachedKept
  <1> QED BY <1>8 DEF gone

\* What the gap left out is summed up (preamble).
LEMMA PreambleKept ==
  ASSUME NEW l, NEW st, NEW lost, NEW at, Placed(st, lost, at),
         NEW s, NEW ow \in BOOLEAN, Kept(l, st, lost, at, s, ow, TRUE), s.sink.step # "ended"
  PROVE  LET r == Preamble(s) IN
         Kept(l, st, lost, at, r, (ow \/ TRUE) /\ r.sink.step # "redraw", FALSE)
  <1> DEFINE on == Waits(s)
             fed == Do(s, Modes(~on))
  <1>1. s \in Terminals /\ Standing(l, st, lost, at, s)
    BY KeptStands
  <1>2. on \in BOOLEAN
    BY <1>1 DEF Waits, Terminals, Pending
  <1>3. Modes(~on) \in Actions /\ Modes(~on).do = "modes"
    BY <1>2, ActionShapes DEF Modes
  <1>4. /\ fed \in Terminals /\ fed.sink = s.sink /\ Grows(s.done, fed.done, Modes(~on))
    BY <1>1, <1>3, DoShape
  <1>5. Preamble(s) = IF on THEN Reached([fed EXCEPT !.sink.pending.redraw = TRUE], s.sink.position)
                      ELSE Returns(fed, "redraw")
    BY DEF Preamble, Waits
  <1> HIDE DEF fed
  <1>6. Judged(l, st, lost, at, on, fed.done) /\ NoExit(fed.done)
    <2>1. Judged(l, st, lost, at, on, s.done) /\ NoExit(s.done)
      BY <1>1 DEF Standing
    <2> HIDE DEF on
    <2>2. Judged(l, st, lost, at, on, fed.done)
      BY <1>3, <1>4, <2>1, AsideGrows
    <2>3. NoExit(fed.done)
      BY <1>3, <1>4, <2>1, NoExitGrows
    <2> QED BY <2>2, <2>3
  <1>7. CASE on
    <2> DEFINE noted == [fed EXCEPT !.sink.pending.redraw = TRUE]
    <2>1. /\ noted \in Terminals /\ noted.done = fed.done /\ noted.sink.pending.redraw
          /\ noted.sink.pending.on = fed.sink.pending.on
          /\ noted.sink.pending.until = fed.sink.pending.until
      BY <1>4 DEF Terminals, Pending
    <2>2. s.sink.position = at
      BY <1>7 DEF Kept
    <2>3. Preamble(s) = Reached(noted, at)
      BY <1>5, <1>7, <2>2
    <2> HIDE DEF noted
    <2>4. Waits(noted) = on /\ Waits(noted)
      BY <1>4, <1>7, <2>1 DEF Waits
    <2>5. noted.sink.pending.until = Now(st)
      BY <1>4, <1>7, <2>1 DEF Kept
    <2>6. Standing(l, st, lost, at, noted)
      BY <1>6, <2>1, <2>4, <2>5 DEF Standing
    <2>7. Kept(l, st, lost, at, Reached(noted, at), TRUE /\ Reached(noted, at).sink.step # "redraw", FALSE)
      BY <2>1, <2>4, <2>6, ReachedKept
    <2> QED BY <2>3, <2>7
  <1>8. CASE ~on
    <2>1. Preamble(s) = Returns(fed, "redraw")
      BY <1>5, <1>8
    <2>2. at >= Now(st) /\ Waits(fed) = on /\ ~Waits(fed)
      BY <1>4, <1>8 DEF Kept, Waits
    <2>3. Standing(l, st, lost, at, fed)
      BY <1>6, <2>2 DEF Standing
    <2>4. Kept(l, st, lost, at, Returns(fed, "redraw"), FALSE, FALSE)
      BY <1>4, <2>2, <2>3, LiveKept
    <2>5. Returns(fed, "redraw").sink.step = "redraw"
      BY <1>4, ReturnsShape DEF Steps
    <2>6. ((ow \/ TRUE) /\ Returns(fed, "redraw").sink.step # "redraw") = FALSE
      BY <2>5
    <2> QED BY <2>1, <2>4, <2>6
  <1> QED BY <1>7, <1>8

\* The session ended (exited).
LEMMA ExitedKept ==
  ASSUME NEW l, NEW st, NEW lost, NEW at, NEW s, NEW ow, NEW ow2, NEW du,
         Kept(l, st, lost, at, s, ow, FALSE), s.sink.step # "ended"
  PROVE  Kept(l, st, lost, at, Exited(s), ow2, du)
  <1> DEFINE over == Finish(s)
             told == Do(over, Exit)
  <1>1. s \in Terminals /\ Standing(l, st, lost, at, s)
    BY KeptStands
  <1>2. over \in Terminals /\ Standing(l, st, lost, at, over) /\ ~Waits(over)
    BY <1>1, FinishStands
  <1>3. Exited(s) = Returns(told, "ended")
    BY DEF Exited
  <1> HIDE DEF over
  <1>4. told \in Terminals /\ told.sink = over.sink /\ Grows(over.done, told.done, Exit)
    BY <1>2, ActionShapes, DoShape
  <1> HIDE DEF told
  <1>5. Waits(told) = Waits(over) /\ ~Waits(told)
    BY <1>2, <1>4 DEF Waits
  <1>6. Judged(l, st, lost, at, Waits(told), told.done)
    <2>1. Judged(l, st, lost, at, Waits(over), told.done)
      BY <1>2, <1>4, AsideGrows DEF Standing, Exit
    <2> QED BY <1>5, <2>1
  <1>7. \A i \in 1..Len(told.done) : told.done[i].do = "exited" => i = Len(told.done)
    <2>1. 1..Len(told.done) = (1..Len(over.done)) \cup {Len(told.done)}
      BY <1>4, GrownPlaces
    <2> QED BY <1>2, <1>4, <2>1 DEF Standing, NoExit, Grows
  <1> QED BY <1>3, <1>4, <1>5, <1>6, <1>7, EndKept

\* The connection is lost (abandon).
LEMMA LostKept ==
  ASSUME NEW l, NEW st, NEW lost, NEW at, NEW s, NEW ow, NEW ow2, NEW du, NEW du2,
         Kept(l, st, lost, at, s, ow, du), s.sink.step # "ended"
  PROVE  Kept(l, st, lost, at, Returns(Finish(s), "ended"), ow2, du2)
  <1> DEFINE over == Finish(s)
  <1>1. s \in Terminals /\ Standing(l, st, lost, at, s)
    BY KeptStands
  <1>2. over \in Terminals /\ Standing(l, st, lost, at, over) /\ ~Waits(over)
    BY <1>1, FinishStands
  <1> HIDE DEF over
  <1>3. \A i \in 1..Len(over.done) : over.done[i].do = "exited" => i = Len(over.done)
    BY <1>2 DEF Standing, NoExit
  <1>4. Kept(l, st, lost, at, Returns(over, "ended"), ow2, du2)
    BY <1>2, <1>3, EndKept DEF Standing
  <1> QED BY <1>4 DEF over

\* The log goes on, whether the stream has ended or not.
LEMMA WrittenKept ==
  ASSUME NEW l, NEW m, NEW st, NEW lost, NEW at, Placed(st, lost, at),
         \A k \in 1..at : l[k] = m[k], NEW s, NEW ow, NEW du, Kept(l, st, lost, at, s, ow, du)
  PROVE  Kept(m, st, lost, at, s, ow, du)
  <1>1. at \in Nat /\ st.seq \in Nat
    BY DEF Placed
  <1>2. Judged(m, st, lost, at, Waits(s), s.done)
    BY <1>1, LogGrows DEF Kept
  <1> QED BY <1>2 DEF Kept

(***************************************************************************)
(* The inductive invariant: a terminal is judged between events, and its   *)
(* old output ends within the log.                                         *)
(***************************************************************************)
ReplayInv ==
    /\ ReplayTypeOK /\ Placed(start, losses, cursor) /\ Now(start) <= Len(log)
    /\ Kept(log, start, losses, cursor, This, owed, due)

\* The log is a sequence.
LEMMA LogShape ==
  \A l : l \in Logs <=> l \in Seq(Entry) /\ Len(l) <= MaxSeq
  <1>1. ASSUME NEW l \in Logs PROVE l \in Seq(Entry) /\ Len(l) <= MaxSeq
    <2>1. PICK n \in 0..MaxSeq : l \in [1..n -> Entry]
      BY DEF Logs
    <2>2. n \in Nat /\ l \in Seq(Entry) /\ Len(l) = n
      BY <2>1, StreamReplayAssumption
    <2> QED BY <2>1, <2>2, StreamReplayAssumption
  <1>2. ASSUME NEW l \in Seq(Entry), Len(l) <= MaxSeq PROVE l \in Logs
    <2>1. Len(l) \in 0..MaxSeq /\ l \in [1..Len(l) -> Entry]
      BY <1>2, StreamReplayAssumption
    <2> QED BY <2>1 DEF Logs
  <1> QED BY <1>1, <1>2

\* What the terminal returns is its state.
LEMMA ThisIs ==
  ASSUME NEW r \in Terminals
  PROVE  [sink |-> r.sink, done |-> r.done] = r
  BY DEF Terminals

\* An event of the stream.
LEMMA Taken ==
  ASSUME ReplayInv, NEW r, NEW preamble \in BOOLEAN, Takes(r, preamble),
         log' = log, head' = head, cursor' \in 0..Len(log), due' \in BOOLEAN,
         Placed(start, losses', cursor'),
         Kept(log, start, losses', cursor', r, (owed \/ preamble) /\ r.sink.step # "redraw", due')
  PROVE  ReplayInv'
  <1>1. sink' = r.sink /\ done' = r.done /\ start' = start
        /\ owed' = ((owed \/ preamble) /\ r.sink.step # "redraw")
    BY DEF Takes
  <1>2. r \in Terminals
    BY DEF Kept
  <1>3. [sink |-> sink', done |-> done'] = r
    BY <1>1, <1>2, ThisIs
  <1>4. Kept(log', start', losses', cursor', [sink |-> sink', done |-> done'], owed', due')
    BY <1>1, <1>3
  <1>5. owed' \in BOOLEAN
    BY <1>1
  <1>6. sink' \in [pending: Pending, position: 0..MaxSeq, step: {"continue", "redraw", "ended"}]
    BY <1>1, <1>2 DEF Terminals, Steps
  <1>7. losses' \subseteq 0..MaxSeq - 1
    <2>1. \A p \in losses' : p \in start.seq..cursor' - 1
      BY DEF Placed
    <2>2. start.seq \in Nat /\ cursor' \in 0..MaxSeq
      BY DEF Placed
    <2>3. \A a \in Nat : \A b \in 0..MaxSeq : a..b - 1 \subseteq 0..MaxSeq - 1
      BY StreamReplayAssumption
    <2> QED BY <2>1, <2>2, <2>3
  <1>8. ReplayTypeOK'
    BY <1>5, <1>6, <1>7 DEF ReplayInv, ReplayTypeOK
  <1>9. Placed(start', losses', cursor') /\ Now(start') <= Len(log')
    BY <1>1 DEF ReplayInv
  <1> QED BY <1>4, <1>8, <1>9 DEF ReplayInv, This

\* A terminal is opened (new).
LEMMA NewKept ==
  ASSUME NEW l, NEW st, Placed(st, {}, st.seq), st.mode \in {"fresh", "reattach"},
         Now(st) \in 0..MaxSeq, st.seq <= Now(st),
         st.size \in GridSizes, st.size = SizeAt(l, st.seq), st.gap \in BOOLEAN
  PROVE  Kept(l, st, {}, st.seq, New(st), FALSE, st.gap)
  <1> DEFINE pending == IF st.mode = "fresh" THEN Live
                        ELSE [on |-> TRUE, until |-> Until(st), redraw |-> FALSE]
             bare == [sink |-> [pending |-> pending, position |-> st.seq, step |-> "continue"],
                      done |-> <<>>]
             sized == IF pending.on THEN Do(bare, Resize(st.size)) ELSE bare
  <1>1. New(st) = IF st.gap THEN sized ELSE Returns(Reached(sized, st.seq), "continue")
    BY DEF New
  <1>2. st.seq \in Nat /\ st.seq \in 0..MaxSeq /\ Now(st) \in Nat
    BY DEF Placed
  <1>3. /\ pending \in Pending /\ pending.on = (st.mode # "fresh")
        /\ (pending.on => pending.until = Now(st)) /\ ~pending.redraw
    <2>1. CASE st.mode = "fresh"
      <3>1. pending = Live
        BY <2>1
      <3>2. Live \in Pending /\ Live.on = FALSE /\ Live.redraw = FALSE
        BY StreamReplayAssumption DEF Pending, Live
      <3> HIDE DEF pending
      <3> QED BY <2>1, <3>1, <3>2
    <2>2. CASE st.mode # "fresh"
      <3>1. pending = [on |-> TRUE, until |-> Until(st), redraw |-> FALSE] /\ Now(st) = Until(st)
        BY <2>2 DEF Now
      <3>2. Until(st) \in 0..MaxSeq
        BY <3>1
      <3> HIDE DEF pending
      <3>3. pending \in Pending
        BY <3>1, <3>2 DEF Pending
      <3> QED BY <2>2, <3>1, <3>3
    <2> QED BY <2>1, <2>2
  <1> HIDE DEF pending
  <1>4. /\ bare \in Terminals /\ bare.sink.pending = pending /\ bare.sink.position = st.seq
        /\ bare.sink.step = "continue" /\ bare.done = <<>>
    <2>1. <<>> \in Seq(Actions)
      OBVIOUS
    <2> QED BY <1>2, <1>3, <2>1 DEF Terminals, Steps
  <1> HIDE DEF bare
  <1>5. OldQuiet(st, <<>>) /\ FedTo(l, st, {}, st.seq, <<>>) /\ AtSizes(l, {}, <<>>) /\ NoExit(<<>>)
    BY <1>2 DEF OldQuiet, FedTo, AtSizes, NoExit
  <1>6. /\ sized \in Terminals /\ sized.sink = bare.sink /\ Standing(l, st, {}, st.seq, sized)
        /\ Waits(sized) = pending.on
    <2>1. CASE ~pending.on
      <3>1. sized = bare /\ Waits(bare) = FALSE
        BY <1>3, <1>4, <2>1 DEF Waits, Pending
      <3>2. OnceLive(st, FALSE, <<>>) /\ GridReady(l, {}, st.seq, FALSE, <<>>)
        BY DEF OnceLive, GridReady
      <3>3. Standing(l, st, {}, st.seq, bare)
        BY <1>4, <1>5, <3>1, <3>2 DEF Standing, Judged
      <3> QED BY <1>3, <1>4, <2>1, <3>1, <3>3 DEF Waits
    <2>2. CASE pending.on
      <3> DEFINE e == Do(bare, Resize(st.size))
      <3>1. sized = e
        BY <2>2
      <3>2. e \in Terminals /\ e.sink = bare.sink /\ Grows(<<>>, e.done, Resize(st.size))
        BY <1>4, ActionShapes, DoShape
      <3> HIDE DEF e, sized
      <3>3. Len(e.done) = 1 /\ e.done[1] = Resize(st.size)
        BY <3>2 DEF Grows
      <3>4. OldQuiet(st, e.done) /\ FedTo(l, st, {}, st.seq, e.done) /\ AtSizes(l, {}, e.done)
        BY <1>5, <3>2, QuietGrows DEF Resize
      <3>5. NoExit(e.done)
        BY <1>5, <3>2, NoExitGrows DEF Resize
      <3>6. OnceLive(st, TRUE, e.done)
        <4>1. st.mode = "reattach"
          BY <1>3, <2>2
        <4>2. \A i \in 1..Len(e.done) : e.done[i].do = "resize"
          BY <3>3 DEF Resize
        <4>3. \A i \in 1..Len(e.done) : 1..i \subseteq 1..Len(e.done)
          BY <3>3
        <4> QED BY <4>1, <4>2, <4>3 DEF OnceLive
      <3>7. GridReady(l, {}, st.seq, TRUE, e.done)
        BY <3>3 DEF GridReady, LastSize, Resize
      <3>8. Waits(e) = TRUE /\ e.sink.pending.until = Now(st)
        BY <1>3, <1>4, <2>2, <3>2 DEF Waits
      <3>9. Standing(l, st, {}, st.seq, e)
        BY <3>4, <3>5, <3>6, <3>7, <3>8 DEF Standing, Judged
      <3> QED BY <1>3, <2>2, <3>1, <3>2, <3>8, <3>9
    <2> QED BY <2>1, <2>2
  <1> HIDE DEF sized
  <1>7. ~Waits(sized) => st.seq >= Now(st)
    BY <1>2, <1>3, <1>6 DEF Now
  <1>8. CASE st.gap
    BY <1>1, <1>3, <1>4, <1>6, <1>7, <1>8 DEF Kept, Standing, NoExit
  <1>9. CASE ~st.gap
    <2> DEFINE r == Reached(sized, st.seq)
    <2>1. /\ r \in Terminals /\ Standing(l, st, {}, st.seq, r)
          /\ Waits(r) => st.seq < Now(st) /\ r.sink.position = st.seq
          /\ ~Waits(r) /\ Waits(sized) => st.seq >= Now(st)
      BY <1>2, <1>6, ReachedStands
    <2> HIDE DEF r
    <2> DEFINE opened == Returns(r, "continue")
    <2>2. /\ opened \in Terminals /\ opened.done = r.done /\ opened.sink.pending = r.sink.pending
          /\ opened.sink.position = r.sink.position /\ opened.sink.step = "continue"
      BY <2>1, ReturnsShape DEF Steps
    <2> HIDE DEF opened
    <2>3. Waits(opened) = Waits(r)
      BY <2>2 DEF Waits
    <2>4. Judged(l, st, {}, st.seq, Waits(opened), opened.done) /\ NoExit(opened.done)
      BY <2>1, <2>2, <2>3 DEF Standing
    <2>5. Waits(opened) => opened.sink.pending.until = Now(st)
      BY <2>1, <2>2, <2>3 DEF Standing
    <2>6. ~Waits(opened) => st.seq >= Now(st)
      BY <1>7, <2>1, <2>3
    <2>7. Kept(l, st, {}, st.seq, opened, FALSE, st.gap)
      BY <2>1, <2>2, <2>3, <2>4, <2>5, <2>6 DEF Kept, NoExit
    <2>8. New(st) = opened
      BY <1>1, <1>9 DEF opened, r
    <2> QED BY <2>7, <2>8
  <1> QED BY <1>8, <1>9

\* A window attaches.
LEMMA ReplayStarts == ReplayInit => ReplayInv
  <1> SUFFICES ASSUME ReplayInit PROVE ReplayInv
    OBVIOUS
  <1>1. /\ log \in Logs /\ head \in 0..Len(log) /\ cursor = head /\ due = (head > 0) /\ losses = {}
        /\ sink = New(start).sink /\ done = New(start).done /\ owed = FALSE
    BY DEF ReplayInit
  <1>2. PICK mode \in {"fresh", "reattach"}, tail \in {Len(log), -1} :
           start = [mode |-> mode, seq |-> head, gap |-> head > 0, tail |-> tail,
                    size |-> StartSize(log, head)]
    BY DEF ReplayInit
  <1>3. Len(log) \in Nat /\ Len(log) <= MaxSeq /\ log \in Seq(Entry)
    BY <1>1, LogShape
  <1>4. /\ start.mode \in {"fresh", "reattach"} /\ start.seq = head /\ start.gap = due
        /\ due \in BOOLEAN /\ start.size = SizeAt(log, head) /\ start.size \in GridSizes
        /\ start.tail \in {Len(log), -1}
    BY <1>1, <1>2, SizeTyped DEF StartSize
  <1>5. head \in Nat /\ head <= Len(log) /\ head \in 0..MaxSeq
    BY <1>1, <1>3, StreamReplayAssumption
  <1>6. Now(start) \in {head, Len(log)}
    BY <1>4 DEF Now, Until
  <1>7. Now(start) \in 0..MaxSeq /\ head <= Now(start) /\ Now(start) <= Len(log)
    BY <1>3, <1>5, <1>6, StreamReplayAssumption
  <1>8. Placed(start, losses, cursor)
    BY <1>1, <1>4, <1>5, <1>7 DEF Placed
  <1>9. Kept(log, start, losses, cursor, New(start), owed, due)
    BY <1>1, <1>4, <1>7, <1>8, NewKept
  <1>10. This = New(start) /\ New(start) \in Terminals
    <2>1. New(start) \in Terminals
      BY <1>9 DEF Kept
    <2> QED BY <1>1, <2>1, ThisIs DEF This
  <1>11. ReplayTypeOK
    BY <1>1, <1>4, <1>10 DEF ReplayTypeOK, Terminals, Steps
  <1> QED BY <1>7, <1>8, <1>9, <1>10, <1>11 DEF ReplayInv

\* The host writes on.
LEMMA WriteReplays == ReplayInv /\ Write => ReplayInv'
  <1> SUFFICES ASSUME ReplayInv, Write PROVE ReplayInv'
    OBVIOUS
  <1>1. PICK b \in Entry : log' = Append(log, b)
    BY DEF Write
  <1>2. /\ log \in Seq(Entry) /\ Len(log) \in Nat /\ Len(log) < MaxSeq
        /\ head \in 0..Len(log) /\ cursor \in 0..Len(log)
    BY LogShape DEF ReplayInv, ReplayTypeOK, Write
  <1>3. UNCHANGED <<head, cursor, due, losses, start, sink, done, owed>>
    BY DEF Write, terminal
  <1>4. /\ log' \in Seq(Entry) /\ Len(log') = Len(log) + 1
        /\ \A k \in 1..Len(log) : log[k] = log'[k]
    BY <1>1, <1>2, AppendProperties
  <1>5. log' \in Logs
    <2>1. Len(log') <= MaxSeq
      BY <1>2, <1>4, StreamReplayAssumption
    <2> QED BY <1>4, <2>1, LogShape
  <1>6. head \in 0..Len(log') /\ cursor \in 0..Len(log')
    BY <1>2, <1>4
  <1>7. ReplayTypeOK'
    BY <1>3, <1>5, <1>6 DEF ReplayInv, ReplayTypeOK
  <1>8. \A k \in 1..cursor : log[k] = log'[k]
    BY <1>2, <1>4
  <1>9. Placed(start, losses, cursor) /\ Kept(log, start, losses, cursor, This, owed, due)
    BY DEF ReplayInv
  <1>10. Kept(log', start, losses, cursor, This, owed, due)
    BY <1>8, <1>9, WrittenKept
  <1>11. Kept(log', start', losses', cursor', [sink |-> sink', done |-> done'], owed', due')
    BY <1>3, <1>10 DEF This
  <1>12. Placed(start', losses', cursor') /\ Now(start') <= Len(log')
    <2>1. Now(start) \in Nat /\ Now(start) <= Len(log)
      BY DEF ReplayInv, Placed
    <2>2. Now(start) <= Len(log')
      BY <1>2, <1>4, <2>1
    <2> QED BY <1>3, <1>9, <2>2
  <1> QED BY <1>7, <1>11, <1>12 DEF ReplayInv, This

\* The host trims its log.
LEMMA TrimReplays == ReplayInv /\ Trim => ReplayInv'
  <1> SUFFICES ASSUME ReplayInv, Trim PROVE ReplayInv'
    OBVIOUS
  <1>1. UNCHANGED <<log, cursor, due, losses, start, sink, done, owed>>
    BY DEF Trim, terminal
  <1>2. head' \in 0..Len(log)
    <2>1. head \in 0..Len(log) /\ Len(log) \in Nat
      BY LogShape DEF ReplayInv, ReplayTypeOK
    <2> QED BY <2>1 DEF Trim
  <1>3. ReplayTypeOK'
    BY <1>1, <1>2 DEF ReplayInv, ReplayTypeOK
  <1>4. Kept(log', start', losses', cursor', [sink |-> sink', done |-> done'], owed', due')
    BY <1>1 DEF ReplayInv, This
  <1>5. Placed(start', losses', cursor') /\ Now(start') <= Len(log')
    BY <1>1 DEF ReplayInv
  <1> QED BY <1>3, <1>4, <1>5 DEF ReplayInv, This

\* Bytes are sent.
LEMMA OutputReplays == ReplayInv /\ SendOutput => ReplayInv'
  <1> SUFFICES ASSUME ReplayInv, SendOutput PROVE ReplayInv'
    OBVIOUS
  <1>1. PICK n \in 1..Len(log) - cursor :
           /\ \A k \in cursor + 1..cursor + n : log[k] = Byte
           /\ Takes(Output(This, cursor, n), FALSE) /\ cursor' = cursor + n
    BY DEF SendOutput
  <1>2. UNCHANGED <<log, head, due, losses>> /\ sink.step # "ended" /\ due = FALSE
    BY DEF SendOutput, NextIsHeld, Ended, ReplayInv, ReplayTypeOK
  <1>3. cursor \in 0..Len(log) /\ Len(log) \in Nat /\ Len(log) <= MaxSeq
    BY LogShape DEF ReplayInv, ReplayTypeOK
  <1>4. /\ n \in Nat \ {0} /\ cursor + n \in 0..MaxSeq /\ cursor' \in 0..Len(log)
        /\ cursor < cursor + n
    BY <1>1, <1>3, StreamReplayAssumption
  <1>5. /\ Placed(start, losses, cursor) /\ Kept(log, start, losses, cursor, This, owed, FALSE)
        /\ This.sink.step # "ended" /\ owed \in BOOLEAN
    BY <1>2 DEF ReplayInv, ReplayTypeOK, This
  <1> DEFINE r == Output(This, cursor, n)
  <1>6. Kept(log, start, losses, cursor + n, r, owed /\ r.sink.step # "redraw", FALSE)
    BY <1>1, <1>4, <1>5, OutputKept
  <1>7. Placed(start, losses, cursor + n)
    <2>1. \A p \in start.seq..cursor - 1 : p \in start.seq..(cursor + n) - 1
      BY <1>4, <1>3 DEF Placed
    <2>2. start.seq <= cursor + n
      BY <1>3, <1>4, <1>5 DEF Placed
    <2> QED BY <1>4, <1>5, <2>1, <2>2 DEF Placed
  <1> HIDE DEF r
  <1>8. (owed \/ FALSE) = owed
    BY <1>5
  <1>9. Takes(r, FALSE) /\ cursor' = cursor + n
    BY <1>1 DEF r
  <1>10. Kept(log, start, losses', cursor', r, (owed \/ FALSE) /\ r.sink.step # "redraw", due')
    BY <1>2, <1>6, <1>8, <1>9
  <1>11. Placed(start, losses', cursor') /\ due' \in BOOLEAN
    BY <1>2, <1>7, <1>9
  <1> QED BY <1>2, <1>4, <1>9, <1>10, <1>11, Taken

\* A resize is sent.
LEMMA ResizedReplays == ReplayInv /\ SendResized => ReplayInv'
  <1> SUFFICES ASSUME ReplayInv, SendResized PROVE ReplayInv'
    OBVIOUS
  <1>1. /\ Takes(Resized(This, cursor, log[cursor + 1]), FALSE) /\ cursor' = cursor + 1
        /\ log[cursor + 1] \in GridSizes /\ cursor < Len(log)
        /\ UNCHANGED <<log, head, due, losses>> /\ sink.step # "ended" /\ due = FALSE
    BY DEF SendResized, NextIsHeld, Ended, ReplayInv, ReplayTypeOK
  <1>2. cursor \in 0..Len(log) /\ Len(log) \in Nat /\ Len(log) <= MaxSeq
    BY LogShape DEF ReplayInv, ReplayTypeOK
  <1>3. cursor + 1 \in 0..MaxSeq /\ cursor' \in 0..Len(log)
    BY <1>1, <1>2, StreamReplayAssumption
  <1>4. /\ Placed(start, losses, cursor) /\ Kept(log, start, losses, cursor, This, owed, FALSE)
        /\ This.sink.step # "ended" /\ owed \in BOOLEAN
    BY <1>1 DEF ReplayInv, ReplayTypeOK, This
  <1> DEFINE r == Resized(This, cursor, log[cursor + 1])
  <1>5. Kept(log, start, losses, cursor + 1, r, owed /\ r.sink.step # "redraw", FALSE)
    BY <1>1, <1>3, <1>4, ResizedKept
  <1>6. Placed(start, losses, cursor + 1)
    <2>1. \A p \in start.seq..cursor - 1 : p \in start.seq..(cursor + 1) - 1
      BY <1>2, <1>4 DEF Placed
    <2>2. start.seq <= cursor + 1
      BY <1>2, <1>4 DEF Placed
    <2> QED BY <1>3, <1>4, <2>1, <2>2 DEF Placed
  <1> HIDE DEF r
  <1>7. (owed \/ FALSE) = owed
    BY <1>4
  <1>8. Takes(r, FALSE)
    BY <1>1 DEF r
  <1>9. Kept(log, start, losses', cursor', r, (owed \/ FALSE) /\ r.sink.step # "redraw", due')
    BY <1>1, <1>5, <1>7
  <1>10. Placed(start, losses', cursor') /\ due' \in BOOLEAN
    BY <1>1, <1>6
  <1> QED BY <1>1, <1>3, <1>8, <1>9, <1>10, Taken

\* A gap is sent.
LEMMA GapReplays == ReplayInv /\ SendGap => ReplayInv'
  <1> SUFFICES ASSUME ReplayInv, SendGap PROVE ReplayInv'
    OBVIOUS
  <1>1. /\ Takes(Reached(This, head), FALSE) /\ cursor' = head /\ cursor < head
        /\ losses' = losses \cup (cursor..head - 1) /\ due' = TRUE
        /\ UNCHANGED <<log, head>> /\ sink.step # "ended" /\ due = FALSE
    BY DEF SendGap, ResumesAt, Ended, ReplayInv, ReplayTypeOK
  <1>2. cursor \in 0..Len(log) /\ head \in 0..Len(log) /\ Len(log) \in Nat /\ Len(log) <= MaxSeq
    BY LogShape DEF ReplayInv, ReplayTypeOK
  <1>3. head \in 0..MaxSeq /\ cursor' \in 0..Len(log)
    BY <1>1, <1>2, StreamReplayAssumption
  <1>4. /\ Placed(start, losses, cursor) /\ Kept(log, start, losses, cursor, This, owed, FALSE)
        /\ This.sink.step # "ended" /\ owed \in BOOLEAN
    BY <1>1 DEF ReplayInv, ReplayTypeOK, This
  <1> DEFINE r == Reached(This, head)
  <1>5. Kept(log, start, losses \cup (cursor..head - 1), head, r, owed /\ r.sink.step # "redraw", TRUE)
    BY <1>1, <1>3, <1>4, GapKept
  <1>6. Placed(start, losses \cup (cursor..head - 1), head)
    <2>1. start.seq \in Nat /\ start.seq <= cursor /\ losses \subseteq start.seq..cursor - 1
      BY <1>4 DEF Placed
    <2>2. start.seq..cursor - 1 \subseteq start.seq..head - 1
      BY <1>1, <1>2, <2>1
    <2>3. cursor..head - 1 \subseteq start.seq..head - 1
      BY <1>1, <1>2, <2>1
    <2>4. start.seq <= head
      BY <1>1, <1>2, <2>1
    <2> QED BY <1>3, <1>4, <2>1, <2>2, <2>3, <2>4 DEF Placed
  <1> HIDE DEF r
  <1>7. (owed \/ FALSE) = owed
    BY <1>4
  <1>8. Takes(r, FALSE)
    BY <1>1 DEF r
  <1>9. Kept(log, start, losses', cursor', r, (owed \/ FALSE) /\ r.sink.step # "redraw", due')
    BY <1>1, <1>5, <1>7
  <1>10. Placed(start, losses', cursor') /\ due' \in BOOLEAN
    BY <1>1, <1>6
  <1> QED BY <1>1, <1>3, <1>8, <1>9, <1>10, Taken

\* A preamble is sent.
LEMMA PreambleReplays == ReplayInv /\ SendPreamble => ReplayInv'
  <1> SUFFICES ASSUME ReplayInv, SendPreamble PROVE ReplayInv'
    OBVIOUS
  <1>1. /\ Takes(Preamble(This), TRUE) /\ due' = FALSE
        /\ UNCHANGED <<log, head, cursor, losses>> /\ sink.step # "ended" /\ due = TRUE
    BY DEF SendPreamble, Ended, ReplayInv, ReplayTypeOK
  <1>2. cursor' \in 0..Len(log) /\ due' \in BOOLEAN
    BY <1>1 DEF ReplayInv, ReplayTypeOK
  <1>3. /\ Placed(start, losses, cursor) /\ Kept(log, start, losses, cursor, This, owed, TRUE)
        /\ This.sink.step # "ended" /\ owed \in BOOLEAN
    BY <1>1 DEF ReplayInv, ReplayTypeOK, This
  <1> DEFINE r == Preamble(This)
  <1>4. Kept(log, start, losses, cursor, r, (owed \/ TRUE) /\ r.sink.step # "redraw", FALSE)
    BY <1>3, PreambleKept
  <1> HIDE DEF r
  <1>5. Takes(r, TRUE)
    BY <1>1 DEF r
  <1>6. Kept(log, start, losses', cursor', r, (owed \/ TRUE) /\ r.sink.step # "redraw", due')
    BY <1>1, <1>4
  <1>7. Placed(start, losses', cursor')
    BY <1>1, <1>3
  <1> QED BY <1>1, <1>2, <1>5, <1>6, <1>7, Taken

\* The stream ends with the session or with its connection.
LEMMA EndReplays == ReplayInv /\ (SendExited \/ ConnectionLost) => ReplayInv'
  <1> SUFFICES ASSUME ReplayInv, SendExited \/ ConnectionLost PROVE ReplayInv'
    OBVIOUS
  <1>1. UNCHANGED <<log, head, cursor, due, losses>> /\ sink.step # "ended"
    BY DEF SendExited, ConnectionLost, Ended, stream
  <1>2. cursor' \in 0..Len(log) /\ due' \in BOOLEAN /\ owed \in BOOLEAN
    BY <1>1 DEF ReplayInv, ReplayTypeOK
  <1>3. /\ Placed(start, losses, cursor) /\ Kept(log, start, losses, cursor, This, owed, due)
        /\ This.sink.step # "ended"
    BY <1>1 DEF ReplayInv, This
  <1>4. Placed(start, losses', cursor')
    BY <1>1, <1>3
  <1>5. CASE SendExited
    <2> DEFINE r == Exited(This)
               ow == (owed \/ FALSE) /\ r.sink.step # "redraw"
    <2>1. Takes(r, FALSE) /\ due = FALSE
      BY <1>2, <1>5 DEF SendExited, ReplayInv, ReplayTypeOK
    <2>2. Kept(log, start, losses, cursor, r, ow, due)
      <3>1. Kept(log, start, losses, cursor, This, owed, FALSE)
        BY <1>3, <2>1
      <3> HIDE DEF ow
      <3> QED BY <1>3, <3>1, ExitedKept
    <2> HIDE DEF r
    <2>3. Kept(log, start, losses', cursor', r, (owed \/ FALSE) /\ r.sink.step # "redraw", due')
      BY <1>1, <2>2
    <2> QED BY <1>1, <1>2, <1>4, <2>1, <2>3, Taken
  <1>6. CASE ConnectionLost
    <2> DEFINE r == Returns(Finish(This), "ended")
               ow == (owed \/ FALSE) /\ r.sink.step # "redraw"
    <2>1. Takes(r, FALSE)
      BY <1>6 DEF ConnectionLost
    <2>2. Kept(log, start, losses, cursor, r, ow, due)
      <3> HIDE DEF ow
      <3> QED BY <1>3, LostKept
    <2> HIDE DEF r
    <2>3. Kept(log, start, losses', cursor', r, (owed \/ FALSE) /\ r.sink.step # "redraw", due')
      BY <1>1, <2>2
    <2> QED BY <1>1, <1>2, <1>4, <2>1, <2>3, Taken
  <1> QED BY <1>5, <1>6

\* Every step keeps the invariant.
LEMMA ReplaySteps == ReplayInv /\ [ReplayNext]_replayVars => ReplayInv'
  <1> SUFFICES ASSUME ReplayInv, [ReplayNext]_replayVars PROVE ReplayInv'
    OBVIOUS
  <1>1. CASE UNCHANGED replayVars
    BY <1>1 DEF replayVars, stream, terminal, ReplayInv, ReplayTypeOK, This
  <1>2. CASE ReplayNext
    BY <1>2, WriteReplays, TrimReplays, OutputReplays, ResizedReplays, GapReplays,
       PreambleReplays, EndReplays DEF ReplayNext
  <1> QED BY <1>1, <1>2

(***************************************************************************)
(* What follows.                                                           *)
(***************************************************************************)
\* The grid's size when something was fed at the right size.
LEMMA RightThen ==
  ASSUME NEW i \in Index, AtSize(log, done, i)
  PROVE  RightSize(i)
  <1>1. PICK k \in 1..i : LastSize(done, i, k) /\ \A p \in Positions(done[i]) : done[k].size = SizeAt(log, p)
    BY DEF AtSize
  <1> DEFINE resizes == {j \in 1..i : done[j].do = "resize"}
  <1>2. resizes \in SUBSET Int /\ k \in resizes
    BY <1>1 DEF LastSize
  <1>3. \A j \in resizes : k >= j
    <2> SUFFICES ASSUME NEW j \in resizes, ~(k >= j) PROVE FALSE
      OBVIOUS
    <2>1. j \in k + 1..i
      <3>1. j \in 1..i /\ k \in 1..i /\ ~(k >= j)
        OBVIOUS
      <3> QED BY <3>1
    <2> QED BY <1>1, <2>1 DEF LastSize
  <1>4. Greatest(resizes) = k
    <2> HIDE DEF resizes
    <2> QED BY <1>2, <1>3, GreatestIs
  <1>5. GridAt(i) = done[k].size
    BY <1>4 DEF GridAt
  <1> QED BY <1>1, <1>5 DEF RightSize

\* The terminal was fed what it should be.
LEMMA FedThen == ReplayInv => FedAsPrinted
  <1> SUFFICES ASSUME ReplayInv PROVE FedAsPrinted
    OBVIOUS
  <1>1. Judged(log, start, losses, cursor, Waits(This), done)
    BY DEF ReplayInv, Kept, This
  <1>2. OldIsQuiet
    BY <1>1 DEF Judged, OldQuiet, OldIsQuiet, Index, Present, Now
  <1>3. FedOnce
    <2>1. FedTo(log, start, losses, cursor, done)
      BY <1>1 DEF Judged
    <2>2. UNION {Positions(done[i]) : i \in Index}
            = {p \in start.seq..cursor - 1 : log[p + 1] = Byte /\ p \notin losses}
      <3>1. \A p : p \in UNION {Positions(done[i]) : i \in Index}
                     <=> \E i \in 1..Len(done) : p \in Positions(done[i])
        BY DEF Index
      <3>2. \A p : (\E i \in 1..Len(done) : p \in Positions(done[i]))
                     <=> p \in start.seq..cursor - 1 /\ log[p + 1] = Byte /\ p \notin losses
        BY <2>1 DEF FedTo
      <3> QED BY <3>1, <3>2
    <2> QED BY <2>1, <2>2 DEF FedTo, FedOnce, Index, ReplayInv
  <1>4. SizesUntilLoss
    <2> SUFFICES ASSUME NEW i \in Quiet, \A p \in losses : p > done[i].from
                 PROVE  RightSize(i)
      BY DEF SizesUntilLoss
    <2>1. i \in Index /\ done[i].do = "feed" /\ ~done[i].live
      BY DEF Quiet
    <2>2. AtSize(log, done, i)
      BY <1>1, <2>1 DEF Judged, AtSizes, Index
    <2> QED BY <2>1, <2>2, RightThen
  <1> QED BY <1>2, <1>3, <1>4 DEF FedAsPrinted

\* It went live when it should.
LEMMA LiveThen == ReplayInv => GoesLive
  <1> SUFFICES ASSUME ReplayInv PROVE GoesLive
    OBVIOUS
  <1>1. /\ Judged(log, start, losses, cursor, Waits(This), done)
        /\ This = [sink |-> sink, done |-> done]
    BY DEF ReplayInv, Kept, This
  <1>2. OnceLive(start, sink.pending.on, done)
    BY <1>1 DEF Judged, Waits
  <1>3. cursor >= Present /\ ~due => ~sink.pending.on
    <2>1. Waits(This) /\ ~due => cursor < Now(start)
      BY DEF ReplayInv, Kept
    <2>2. cursor \in Int /\ Now(start) \in Int
      BY DEF ReplayInv, Placed
    <2>3. Now(start) = Present /\ (Waits(This) <=> sink.pending.on)
      BY <1>1 DEF Now, Present, Waits
    <2> QED BY <2>1, <2>2, <2>3
  <1>4. Cardinality({i \in Index : done[i].do = "live"}) <= (IF start.mode = "fresh" THEN 0 ELSE 1)
    <2> DEFINE lives == {i \in Index : done[i].do = "live"}
    <2>1. CASE lives = {}
      <3>1. Cardinality(lives) = 0
        <4> HIDE DEF lives
        <4> QED BY <2>1, FS_EmptySet
      <3> QED BY <3>1
    <2>2. CASE lives # {}
      <3>1. PICK i \in lives : TRUE
        BY <2>2
      <3>2. lives = {i} /\ start.mode = "reattach"
        BY <1>2, <3>1 DEF OnceLive, Index
      <3>3. Cardinality(lives) = 1
        <4> HIDE DEF lives
        <4> QED BY <3>2, FS_Singleton
      <3> HIDE DEF lives
      <3>4. start.mode # "fresh"
        BY <3>2
      <3> QED BY <3>3, <3>4 DEF lives
    <2> QED BY <2>1, <2>2
  <1>5. \A i \in Index : done[i].do = "resize" =>
          start.mode = "reattach" /\ \A j \in 1..i : done[j].do # "live"
    BY <1>2 DEF OnceLive, Index
  <1>6. \A i \in Index : done[i].do = "exited" => i = Len(done)
    BY DEF ReplayInv, Kept, This, Index
  <1>7. RepaintAsked
    BY DEF ReplayInv, Kept, This, Waits, RepaintAsked, Ended
  <1> QED BY <1>3, <1>4, <1>5, <1>6, <1>7 DEF GoesLive, LiveOnTime

\* What a terminal was told always fits the stream's start, its losses and how
\* far it has come, whatever the log, its trimming and the cut of its chunks.
THEOREM ReplayInvariant == ReplaySpec => []ReplayInv
  BY ReplayStarts, ReplaySteps, PTL DEF ReplaySpec

\* Old bytes are fed as old, every byte once and in order, and old ones at the
\* size they were printed for until something was lost (output, resized, gap).
THEOREM FedAsPrintedAlways == ReplaySpec => []FedAsPrinted
  BY ReplayInvariant, FedThen, PTL

\* A terminal goes live once, as soon as the stream has passed the old output,
\* and a repaint is asked for then and not before (reached, finish, preamble).
THEOREM GoesLiveAlways == ReplaySpec => []GoesLive
  BY ReplayInvariant, LiveThen, PTL

(***************************************************************************)
(* The sizes of a pane (PaneSizes): for any sizes, a mailbox of any room   *)
(* and any faults.                                                         *)
(***************************************************************************)
Commands == [kind : {"resize"}, size : WindowSizes, clear : BOOLEAN]
Messages ==
    Commands \cup [kind : {"attached", "resend", "other", "live"}]
    \cup [kind : {"grid"}, size : Sizes] \cup [kind : {"output"}, at : Sizes]
Sayings == [kind : {"resize"}, size : Grids] \cup [kind : {"other"}]

Resizes == [requested : WindowSizes, submitted : Commands \cup {None}, applied : WindowSizes,
            clear : BOOLEAN]
Signals == [backpressure : BOOLEAN, wakeup : BOOLEAN]
Views == [bounds : Grids, recorded : Grids \cup {None}, clear : BOOLEAN, apart : Grids \cup {None}]
Runtimes == [replaying : BOOLEAN, window : WindowSizes \cup {None}, told : WindowSizes \cup {None},
             sender : BOOLEAN, grid : Grids, promoted : BOOLEAN]
Calls == [waiting : BOOLEAN, sent : Seq(Grids)]
Spendings == [layouts : Nat, other : Nat, faults : Nat, refused : BOOLEAN]
SizesTyped ==
    /\ view \in Views /\ resize \in Resizes /\ signal \in Signals /\ mail \in Seq(Messages)
    /\ rt \in Runtimes /\ out \in Seq(Sayings) /\ call \in Calls
    /\ host \in [pty : Grids, acked : Grids \cup {None}] /\ spent \in Spendings

\* Of a request: whether a command is in the mailbox, and that what is asked
\* for is applied, in the mailbox, or going to be submitted again
Has(q, kind) == \E i \in 1..Len(q) : q[i].kind = kind
Lies(r) == r.resize.submitted # None => Has(r.mail, "resize")
Heard(r) ==
    \/ r.resize.applied = r.resize.requested /\ ~r.resize.clear
    \/ Has(r.mail, "resize") \/ r.signal.backpressure \/ r.signal.wakeup
RequestTyped(r) == r.resize \in Resizes /\ r.signal \in Signals /\ r.mail \in Seq(Messages)
Asked == view.recorded # None => resize.requested = view.recorded

\* Of the runtime
AppliedIs == (resize.applied = Bootstrap /\ rt.window = None) \/ rt.window = resize.applied
ToldIs == rt.sender /\ ~rt.replaying /\ rt.window # None => rt.told = rt.window
GridIs == ~rt.replaying /\ rt.window # None => rt.grid = Cells(rt.window)
SenderIs == rt.promoted => rt.sender \/ Has(mail, "attached")

\* Of the stream: what comes before old output has it read at its size
Fits(q, n, at, replaying, grid) ==
    /\ replaying
    /\ \A j \in 1..n : q[j].kind # "live" /\ (q[j].kind = "grid" => q[j].size = at)
    /\ grid = at \/ \E j \in 1..n : q[j].kind = "grid"
LiveMessage == [kind |-> "live"]
OldMessage(size) == [kind |-> "output", at |-> size]
Outputs(q, replaying, grid) ==
    \A i \in 1..Len(q) : q[i].kind = "output" => Fits(q, i - 1, q[i].at, replaying, grid)
Comes(q, scr, replaying, grid) ==
    \/ scr = <<>> \/ scr = <<LiveMessage>>
    \/ \E s \in Sizes : scr = <<OldMessage(s), LiveMessage>> /\ Fits(q, Len(q), s, replaying, grid)
    \/ \E s \in Sizes : scr = Replay(s) /\ \A j \in 1..Len(q) : q[j].kind \notin {"grid", "output", "live"}
Ends(q, scr, replaying) ==
    /\ scr # <<>> => replaying /\ ~Has(q, "live")
    /\ replaying => scr # <<>> \/ Has(q, "live")
StreamRight(q, scr, replaying, grid) ==
    Outputs(q, replaying, grid) /\ Comes(q, scr, replaying, grid) /\ Ends(q, scr, replaying)

\* Of the host: the last size on its way is the one told last
LastIs(o, sent, pty, size) ==
    /\ \A i \in 1..Len(o) :
        o[i].kind = "resize" /\ (\A j \in i+1..Len(o) : o[j].kind # "resize") => o[i].size = size
    /\ ~Has(o, "resize") => IF sent = <<>> THEN pty = size ELSE sent[Len(sent)] = size
HostIs == rt.told # None /\ spent.faults = 0 => LastIs(out, call.sent, host.pty, Cells(rt.told))

SizesInv ==
    /\ SizesTyped /\ Lies(Request) /\ Heard(Request) /\ Asked
    /\ AppliedIs /\ ToldIs /\ GridIs /\ SenderIs
    /\ StreamRight(mail, script, rt.replaying, rt.grid)
    /\ HostIs

\* A message is added at the end of a queue.
LEMMA HasAppended ==
  ASSUME NEW S, NEW q \in Seq(S), NEW m \in S, NEW kind
  PROVE  Has(Append(q, m), kind) <=> Has(q, kind) \/ m.kind = kind
  <1>1. /\ Len(Append(q, m)) = Len(q) + 1 /\ Len(q) \in Nat /\ Append(q, m)[Len(q) + 1] = m
        /\ \A i \in 1..Len(q) : Append(q, m)[i] = q[i]
    OBVIOUS
  <1>2. ASSUME Has(Append(q, m), kind) PROVE Has(q, kind) \/ m.kind = kind
    <2>1. PICK i \in 1..Len(q) + 1 : Append(q, m)[i].kind = kind
      BY <1>1, <1>2 DEF Has
    <2>2. CASE i = Len(q) + 1
      BY <1>1, <2>1, <2>2
    <2>3. CASE i # Len(q) + 1
      <3>1. i \in 1..Len(q)
        BY <1>1, <2>3
      <3> QED BY <1>1, <2>1, <3>1 DEF Has
    <2> QED BY <2>2, <2>3
  <1>3. ASSUME Has(q, kind) PROVE Has(Append(q, m), kind)
    <2>1. PICK i \in 1..Len(q) : q[i].kind = kind
      BY <1>3 DEF Has
    <2>2. i \in 1..Len(q) + 1 /\ Append(q, m)[i].kind = kind
      BY <1>1, <2>1
    <2> QED BY <1>1, <2>2 DEF Has
  <1>4. ASSUME m.kind = kind PROVE Has(Append(q, m), kind)
    <2>1. Len(q) + 1 \in 1..Len(q) + 1
      BY <1>1
    <2> QED BY <1>1, <1>4, <2>1 DEF Has
  <1> QED BY <1>2, <1>3, <1>4

\* Nothing is in an empty queue.
LEMMA HasNothing == ASSUME NEW kind PROVE ~Has(<<>>, kind)
  BY DEF Has

\* The first message of a queue is taken.
LEMMA HasTaken ==
  ASSUME NEW S, NEW q \in Seq(S), q # <<>>, NEW kind
  PROVE  Has(q, kind) <=> Head(q).kind = kind \/ Has(Tail(q), kind)
  <1>1. /\ Len(Tail(q)) = Len(q) - 1 /\ Len(q) \in Nat /\ Len(q) >= 1 /\ Head(q) = q[1]
        /\ \A i \in 1..Len(q) - 1 : Tail(q)[i] = q[i + 1]
    OBVIOUS
  <1>2. ASSUME Has(q, kind) PROVE Head(q).kind = kind \/ Has(Tail(q), kind)
    <2>1. PICK i \in 1..Len(q) : q[i].kind = kind
      BY <1>2 DEF Has
    <2>2. CASE i = 1
      BY <1>1, <2>1, <2>2
    <2>3. CASE i # 1
      <3>1. i - 1 \in 1..Len(q) - 1 /\ (i - 1) + 1 = i
        BY <1>1, <2>3
      <3>2. Tail(q)[i - 1].kind = kind
        BY <1>1, <2>1, <3>1
      <3> QED BY <1>1, <3>1, <3>2 DEF Has
    <2> QED BY <2>2, <2>3
  <1>3. ASSUME Has(Tail(q), kind) PROVE Has(q, kind)
    <2>1. PICK i \in 1..Len(q) - 1 : Tail(q)[i].kind = kind
      BY <1>1, <1>3 DEF Has
    <2>2. i + 1 \in 1..Len(q) /\ q[i + 1].kind = kind
      BY <1>1, <2>1
    <2> QED BY <2>2 DEF Has
  <1>4. ASSUME Head(q).kind = kind PROVE Has(q, kind)
    <2>1. 1 \in 1..Len(q)
      BY <1>1
    <2> QED BY <1>1, <1>4, <2>1 DEF Has
  <1> QED BY <1>2, <1>3, <1>4

\* The window's side submits at most one command, and forgets no request.
LEMMA SubmitHears ==
  ASSUME NEW r, r \in [resize : Resizes, signal : Signals, mail : Seq(Messages)], Lies(r)
  PROVE  LET n == Submit(r) IN
         /\ n \in [resize : Resizes, signal : Signals, mail : Seq(Messages)]
         /\ Lies(n) /\ Heard(n)
         /\ n.resize.requested = r.resize.requested /\ n.resize.applied = r.resize.applied
         /\ n.mail = r.mail \/ \E c \in Commands : n.mail = Append(r.mail, c)
  <1>1. r.resize \in Resizes /\ r.signal \in Signals /\ r.mail \in Seq(Messages)
    OBVIOUS
  <1>2. CASE \/ r.resize.submitted # None
             \/ r.resize.applied = r.resize.requested /\ ~r.resize.clear
    <2>1. Submit(r) = r
      BY <1>2 DEF Submit
    <2> QED BY <1>2, <2>1 DEF Lies, Heard
  <1>3. CASE /\ ~(\/ r.resize.submitted # None
                  \/ r.resize.applied = r.resize.requested /\ ~r.resize.clear)
             /\ ControlCount(r.mail) >= Capacity
    <2>1. Submit(r) = [r EXCEPT !.signal.backpressure = TRUE]
      BY <1>3 DEF Submit, Refused
    <2>2. /\ Submit(r).resize = r.resize /\ Submit(r).mail = r.mail
          /\ Submit(r).signal = [r.signal EXCEPT !.backpressure = TRUE]
          /\ Submit(r) \in [resize : Resizes, signal : Signals, mail : Seq(Messages)]
      BY <1>1, <2>1 DEF Signals
    <2>3. Submit(r).signal.backpressure
      BY <1>1, <2>2 DEF Signals
    <2> QED BY <2>2, <2>3 DEF Lies, Heard
  <1>4. CASE /\ ~(\/ r.resize.submitted # None
                  \/ r.resize.applied = r.resize.requested /\ ~r.resize.clear)
             /\ ~(ControlCount(r.mail) >= Capacity)
    <2> DEFINE c == [kind |-> "resize", size |-> r.resize.requested, clear |-> r.resize.clear]
    <2>1. c \in Commands /\ c.kind = "resize" /\ c \in Messages
      BY <1>1 DEF Resizes, Commands, Messages
    <2>2. Submit(r) = [r EXCEPT !.resize.submitted = c, !.resize.clear = FALSE, !.mail = Append(@, c)]
      BY <1>4 DEF Submit
    <2> HIDE DEF c
    <2>3. Submit(r).mail = Append(r.mail, c) /\ Submit(r).signal = r.signal
      BY <2>2
    <2>4. Submit(r).resize = [r.resize EXCEPT !.submitted = c, !.clear = FALSE]
      BY <2>2
    <2>5. /\ Submit(r).resize \in Resizes /\ Submit(r).resize.requested = r.resize.requested
          /\ Submit(r).resize.applied = r.resize.applied
      BY <1>1, <2>1, <2>4 DEF Resizes
    <2>6. Append(r.mail, c) \in Seq(Messages)
      BY <1>1, <2>1
    <2>7. Submit(r) \in [resize : Resizes, signal : Signals, mail : Seq(Messages)]
      BY <1>1, <2>2, <2>3, <2>5, <2>6
    <2>8. Has(Submit(r).mail, "resize")
      BY <1>1, <2>1, <2>3, HasAppended
    <2> QED BY <2>1, <2>3, <2>5, <2>7, <2>8 DEF Lies, Heard
  <1> QED BY <1>2, <1>3, <1>4

\* What comes before old output, when a message of the window is added.
LEMMA StreamWaits ==
  ASSUME NEW q \in Seq(Messages), NEW m \in Messages, m.kind \notin {"grid", "output", "live"},
         NEW scr, NEW replaying, NEW grid, StreamRight(q, scr, replaying, grid)
  PROVE  StreamRight(Append(q, m), scr, replaying, grid)
  <1> DEFINE p == Append(q, m)
  <1>1. /\ Len(p) = Len(q) + 1 /\ Len(q) \in Nat /\ p[Len(q) + 1] = m
        /\ \A i \in 1..Len(q) : p[i] = q[i]
    OBVIOUS
  <1>2. Has(p, "live") <=> Has(q, "live")
    BY HasAppended
  <1> HIDE DEF p
  <1>3. ASSUME NEW i \in 0..Len(q), NEW s, Fits(q, i, s, replaying, grid)
        PROVE  Fits(p, i, s, replaying, grid)
    <2>1. \A j \in 1..i : j \in 1..Len(q) /\ p[j] = q[j]
      BY <1>1
    <2> QED BY <1>3, <2>1 DEF Fits
  <1>4. Outputs(p, replaying, grid)
    <2> SUFFICES ASSUME NEW i \in 1..Len(p), p[i].kind = "output"
                 PROVE  Fits(p, i - 1, p[i].at, replaying, grid)
      BY DEF Outputs
    <2>1. i \in 1..Len(q) /\ i - 1 \in 0..Len(q)
      BY <1>1
    <2>2. p[i] = q[i]
      BY <1>1, <2>1
    <2>3. Fits(q, i - 1, q[i].at, replaying, grid)
      BY <2>1, <2>2 DEF StreamRight, Outputs
    <2> QED BY <1>3, <2>1, <2>2, <2>3
  <1>5. Comes(p, scr, replaying, grid)
    <2>1. ASSUME NEW s \in Sizes, scr = <<OldMessage(s), LiveMessage>>, Fits(q, Len(q), s, replaying, grid)
          PROVE  Fits(p, Len(p), s, replaying, grid)
      <3>1. \A j \in 1..Len(p) : j = Len(p) \/ (j \in 1..Len(q) /\ p[j] = q[j])
        BY <1>1
      <3>2. \A j \in 1..Len(q) : j \in 1..Len(p) /\ p[j] = q[j]
        BY <1>1
      <3> QED BY <1>1, <2>1, <3>1, <3>2 DEF Fits
    <2>2. ASSUME \A j \in 1..Len(q) : q[j].kind \notin {"grid", "output", "live"}
          PROVE  \A j \in 1..Len(p) : p[j].kind \notin {"grid", "output", "live"}
      <3>1. \A j \in 1..Len(p) : j = Len(p) \/ (j \in 1..Len(q) /\ p[j] = q[j])
        BY <1>1
      <3> QED BY <1>1, <2>2, <3>1
    <2> QED BY <2>1, <2>2 DEF StreamRight, Comes
  <1> QED BY <1>2, <1>4, <1>5 DEF StreamRight, Ends, p

\* Live, nothing old is to come, and the grid may change.
LEMMA StreamGone ==
  ASSUME NEW q, NEW scr, NEW grid, NEW other, StreamRight(q, scr, FALSE, grid)
  PROVE  StreamRight(q, scr, FALSE, other)
  BY DEF StreamRight, Outputs, Comes, Ends, Fits

\* What comes before old output, when a message is taken.
LEMMA FitsTaken ==
  ASSUME NEW q \in Seq(Messages), q # <<>>, NEW n \in 1..Len(q), NEW s, NEW replaying, NEW grid, NEW other,
         Fits(q, n, s, replaying, grid),
         Head(q).kind # "grid" => other = grid,
         Head(q).kind = "grid" => other = Head(q).size
  PROVE  Fits(Tail(q), n - 1, s, replaying, other)
  <1>1. /\ Len(Tail(q)) = Len(q) - 1 /\ Len(q) \in Nat /\ Len(q) >= 1 /\ Head(q) = q[1]
        /\ \A i \in 1..Len(q) - 1 : Tail(q)[i] = q[i + 1]
    OBVIOUS
  <1>2. \A j \in 1..n - 1 : j + 1 \in 1..n /\ Tail(q)[j] = q[j + 1]
    BY <1>1
  <1>3. 1 \in 1..n
    OBVIOUS
  <1>4. replaying /\ \A j \in 1..n - 1 : Tail(q)[j].kind # "live" /\ (Tail(q)[j].kind = "grid" => Tail(q)[j].size = s)
    BY <1>2 DEF Fits
  <1>5. CASE Head(q).kind = "grid"
    <2>1. other = s
      BY <1>1, <1>3, <1>5 DEF Fits
    <2> QED BY <1>4, <2>1 DEF Fits
  <1>6. CASE Head(q).kind # "grid"
    <2>1. CASE grid = s
      BY <1>4, <1>6, <2>1 DEF Fits
    <2>2. ASSUME NEW j \in 1..n, q[j].kind = "grid" PROVE \E k \in 1..n - 1 : Tail(q)[k].kind = "grid"
      <3>1. j # 1
        BY <1>1, <1>6, <2>2
      <3>2. j - 1 \in 1..n - 1 /\ (j - 1) + 1 = j
        BY <3>1
      <3>3. Tail(q)[j - 1].kind = "grid"
        BY <1>2, <2>2, <3>2
      <3> QED BY <3>2, <3>3
    <2> QED BY <1>4, <2>1, <2>2 DEF Fits
  <1> QED BY <1>5, <1>6

\* Anything but the going live is taken.
LEMMA StreamTaken ==
  ASSUME NEW q \in Seq(Messages), q # <<>>, NEW scr, NEW replaying, NEW grid, NEW other,
         StreamRight(q, scr, replaying, grid), Head(q).kind # "live",
         Head(q).kind # "grid" => other = grid,
         Head(q).kind = "grid" => other = Head(q).size
  PROVE  StreamRight(Tail(q), scr, replaying, other)
  <1> DEFINE p == Tail(q)
  <1>1. /\ Len(p) = Len(q) - 1 /\ Len(q) \in Nat /\ Len(q) >= 1 /\ Head(q) = q[1]
        /\ \A i \in 1..Len(q) - 1 : p[i] = q[i + 1]
    OBVIOUS
  <1>2. Has(p, "live") <=> Has(q, "live")
    BY HasTaken
  <1>3. ASSUME NEW n \in 1..Len(q), NEW s, Fits(q, n, s, replaying, grid) PROVE Fits(p, n - 1, s, replaying, other)
    BY <1>3, FitsTaken
  <1> HIDE DEF p
  <1>4. Outputs(p, replaying, other)
    <2> SUFFICES ASSUME NEW i \in 1..Len(p), p[i].kind = "output"
                 PROVE  Fits(p, i - 1, p[i].at, replaying, other)
      BY DEF Outputs
    <2>1. i + 1 \in 1..Len(q) /\ (i + 1) - 1 = i /\ i \in 1..Len(q)
      BY <1>1
    <2>2. p[i] = q[i + 1]
      BY <1>1
    <2>3. Fits(q, i, q[i + 1].at, replaying, grid)
      BY <2>1, <2>2 DEF StreamRight, Outputs
    <2> QED BY <1>3, <2>1, <2>2, <2>3
  <1>5. Comes(p, scr, replaying, other)
    <2>1. ASSUME NEW s \in Sizes, Fits(q, Len(q), s, replaying, grid)
          PROVE  Fits(p, Len(p), s, replaying, other)
      <3>1. Len(q) \in 1..Len(q)
        BY <1>1
      <3> QED BY <1>1, <1>3, <2>1, <3>1
    <2>2. ASSUME \A j \in 1..Len(q) : q[j].kind \notin {"grid", "output", "live"}
          PROVE  \A j \in 1..Len(p) : p[j].kind \notin {"grid", "output", "live"}
      <3>1. \A j \in 1..Len(p) : j + 1 \in 1..Len(q) /\ p[j] = q[j + 1]
        BY <1>1
      <3> QED BY <2>2, <3>1
    <2> QED BY <2>1, <2>2 DEF StreamRight, Comes
  <1> QED BY <1>2, <1>4, <1>5 DEF StreamRight, Ends, p

\* The going live is taken: nothing old is left.
LEMMA StreamLive ==
  ASSUME NEW q \in Seq(Messages), q # <<>>, NEW scr, NEW replaying, NEW grid, NEW other,
         StreamRight(q, scr, replaying, grid), Head(q).kind = "live"
  PROVE  StreamRight(Tail(q), scr, FALSE, other)
  <1>1. /\ Len(Tail(q)) = Len(q) - 1 /\ Len(q) \in Nat /\ Len(q) >= 1 /\ Head(q) = q[1]
        /\ \A i \in 1..Len(q) - 1 : Tail(q)[i] = q[i + 1]
    OBVIOUS
  <1>2. scr = <<>>
    BY HasTaken DEF StreamRight, Ends
  <1>3. ASSUME NEW i \in 1..Len(q) - 1, Tail(q)[i].kind = "output" PROVE FALSE
    <2>1. i + 1 \in 1..Len(q) /\ (i + 1) - 1 = i /\ 1 \in 1..i
      BY <1>1
    <2>2. Fits(q, i, q[i + 1].at, replaying, grid)
      BY <1>1, <1>3, <2>1 DEF StreamRight, Outputs
    <2> QED BY <1>1, <2>1, <2>2 DEF Fits
  <1> QED BY <1>1, <1>2, <1>3 DEF StreamRight, Outputs, Comes, Ends

\* The reader posts what is next.
LEMMA StreamPosted ==
  ASSUME NEW q \in Seq(Messages), NEW scr, scr # <<>>, NEW replaying, NEW grid,
         StreamRight(q, scr, replaying, grid)
  PROVE  /\ Head(scr) \in Messages
         /\ StreamRight(Append(q, Head(scr)), Tail(scr), replaying, grid)
  <1> DEFINE m == Head(scr)
             p == Append(q, m)
  <1>1. /\ Len(p) = Len(q) + 1 /\ Len(q) \in Nat /\ p[Len(q) + 1] = m
        /\ \A i \in 1..Len(q) : p[i] = q[i]
    OBVIOUS
  <1>2. replaying /\ ~Has(q, "live")
    BY DEF StreamRight, Ends
  <1>3. \/ scr = <<LiveMessage>>
        \/ \E s \in Sizes : scr = <<OldMessage(s), LiveMessage>> /\ Fits(q, Len(q), s, replaying, grid)
        \/ \E s \in Sizes : scr = Replay(s) /\ \A j \in 1..Len(q) : q[j].kind \notin {"grid", "output", "live"}
    BY DEF StreamRight, Comes
  <1>4. ASSUME NEW i \in 0..Len(q), NEW s, Fits(q, i, s, replaying, grid)
        PROVE  Fits(p, i, s, replaying, grid)
    <2>1. \A j \in 1..i : j \in 1..Len(q) /\ p[j] = q[j]
      BY <1>1
    <2> HIDE DEF p
    <2> QED BY <1>4, <2>1 DEF Fits
  <1>5. Has(p, "live") <=> m.kind = "live" \/ Has(q, "live")
    <2>1. CASE m \in Messages
      BY <2>1, HasAppended
    <2>2. CASE scr = <<LiveMessage>>
      BY <2>1, <2>2 DEF LiveMessage, Messages
    <2>3. ASSUME NEW s \in Sizes, scr = <<OldMessage(s), LiveMessage>> PROVE m \in Messages
      BY <2>3 DEF OldMessage, Messages
    <2>4. ASSUME NEW s \in Sizes, scr = Replay(s) PROVE m \in Messages
      BY <2>4 DEF Replay, Messages
    <2> QED BY <1>3, <2>1, <2>2, <2>3, <2>4
  <1> HIDE DEF p
  <1>6. CASE scr = <<LiveMessage>>
    <2>1. m = LiveMessage /\ Tail(scr) = <<>> /\ m \in Messages /\ m.kind = "live"
      BY <1>6 DEF LiveMessage, Messages
    <2>2. Outputs(p, replaying, grid)
      <3> SUFFICES ASSUME NEW i \in 1..Len(p), p[i].kind = "output"
                   PROVE  Fits(p, i - 1, p[i].at, replaying, grid)
        BY DEF Outputs
      <3>1. i \in 1..Len(q) /\ p[i] = q[i] /\ i - 1 \in 0..Len(q)
        BY <1>1, <2>1
      <3> QED BY <1>4, <3>1 DEF StreamRight, Outputs
    <2>3. Comes(p, Tail(scr), replaying, grid) /\ Ends(p, Tail(scr), replaying)
      BY <1>5, <2>1 DEF Comes, Ends
    <2> QED BY <2>1, <2>2, <2>3 DEF StreamRight, p
  <1>7. ASSUME NEW s \in Sizes, scr = <<OldMessage(s), LiveMessage>>, Fits(q, Len(q), s, replaying, grid)
        PROVE  m \in Messages /\ StreamRight(p, Tail(scr), replaying, grid)
    <2>1. /\ m = OldMessage(s) /\ Tail(scr) = <<LiveMessage>> /\ m \in Messages /\ m.kind = "output" /\ m.at = s
          /\ Tail(scr) # <<>>
      BY <1>7 DEF OldMessage, Messages
    <2>2. Outputs(p, replaying, grid)
      <3> SUFFICES ASSUME NEW i \in 1..Len(p), p[i].kind = "output"
                   PROVE  Fits(p, i - 1, p[i].at, replaying, grid)
        BY DEF Outputs
      <3>1. CASE i \in 1..Len(q)
        <4>1. p[i] = q[i] /\ i - 1 \in 0..Len(q)
          BY <1>1, <3>1
        <4> QED BY <1>4, <3>1, <4>1 DEF StreamRight, Outputs
      <3>2. CASE i \notin 1..Len(q)
        <4>1. i - 1 = Len(q) /\ p[i] = m /\ Len(q) \in 0..Len(q)
          BY <1>1, <3>2
        <4> QED BY <1>4, <1>7, <2>1, <4>1
      <3> QED BY <3>1, <3>2
    <2>3. Comes(p, Tail(scr), replaying, grid) /\ Ends(p, Tail(scr), replaying)
      BY <1>2, <1>5, <2>1 DEF Comes, Ends
    <2> QED BY <2>1, <2>2, <2>3 DEF StreamRight
  <1>8. ASSUME NEW s \in Sizes, scr = Replay(s), \A j \in 1..Len(q) : q[j].kind \notin {"grid", "output", "live"}
        PROVE  m \in Messages /\ StreamRight(p, Tail(scr), replaying, grid)
    <2>1. /\ m \in Messages /\ m.kind = "grid" /\ m.size = s
          /\ Tail(scr) = <<OldMessage(s), LiveMessage>> /\ Tail(scr) # <<>>
      BY <1>8 DEF OldMessage, LiveMessage, Replay, Messages
    <2>2. \A i \in 1..Len(p) : \/ p[i].kind \notin {"grid", "output", "live"}
                               \/ p[i].kind = "grid" /\ p[i].size = s
      BY <1>1, <1>8, <2>1
    <2>3. Outputs(p, replaying, grid)
      BY <2>2 DEF Outputs
    <2>4. Fits(p, Len(p), s, replaying, grid)
      <3>1. Len(p) \in 1..Len(p) /\ p[Len(p)].kind = "grid"
        BY <1>1, <2>1
      <3> QED BY <1>2, <2>2, <3>1 DEF Fits
    <2>5. Comes(p, Tail(scr), replaying, grid) /\ Ends(p, Tail(scr), replaying)
      BY <1>2, <1>5, <2>1, <2>4 DEF Comes, Ends
    <2> QED BY <2>1, <2>3, <2>5 DEF StreamRight
  <1> QED BY <1>3, <1>6, <1>7, <1>8 DEF p

(***************************************************************************)
(* The sizes on their way to the host.                                     *)
(***************************************************************************)
\* A size is put behind what is queued: it is the last.
LEMMA QueuedLast ==
  ASSUME NEW size \in Grids, out \in Seq(Sayings), NEW sent, NEW pty
  PROVE  Queued(size) \in Seq(Sayings) /\ LastIs(Queued(size), sent, pty, size)
  <1> DEFINE o == Queued(size)
             m == [kind |-> "resize", size |-> size]
  <1>1. m \in Sayings
    BY DEF Sayings
  <1>2. CASE out # <<>> /\ out[Len(out)].kind = "resize"
    <2>1. o = [out EXCEPT ![Len(out)].size = size]
      BY <1>2 DEF Queued
    <2>2. Len(out) \in 1..Len(out) /\ out[Len(out)] \in Sayings /\ Len(out) \in Nat
      BY <1>2
    <2>3. [out[Len(out)] EXCEPT !.size = size] = m
      BY <1>2, <2>2 DEF Sayings
    <2>4. o = [out EXCEPT ![Len(out)] = m]
      BY <2>1, <2>3
    <2>5. o \in Seq(Sayings) /\ Len(o) = Len(out) /\ o[Len(out)] = m
      BY <1>1, <2>2, <2>4
    <2> HIDE DEF o
    <2>6. \A i \in 1..Len(o) : i # Len(o) => Len(o) \in i + 1..Len(o)
      BY <2>2, <2>5
    <2> QED BY <2>2, <2>5, <2>6 DEF LastIs, Has, o
  <1>3. CASE ~(out # <<>> /\ out[Len(out)].kind = "resize")
    <2>1. o = Append(out, m)
      BY <1>3 DEF Queued
    <2>2. o \in Seq(Sayings) /\ Len(o) = Len(out) + 1 /\ o[Len(o)] = m /\ Len(out) \in Nat
      BY <1>1, <2>1
    <2> HIDE DEF o
    <2>3. \A i \in 1..Len(o) : i # Len(o) => Len(o) \in i + 1..Len(o)
      BY <2>2
    <2>4. Len(o) \in 1..Len(o)
      BY <2>2
    <2> QED BY <2>2, <2>3, <2>4 DEF LastIs, Has, o
  <1> QED BY <1>2, <1>3

\* Something else is queued.
LEMMA LastWaits ==
  ASSUME NEW o \in Seq(Sayings), NEW m \in Sayings, m.kind # "resize",
         NEW sent, NEW pty, NEW size, LastIs(o, sent, pty, size)
  PROVE  LastIs(Append(o, m), sent, pty, size)
  <1> DEFINE p == Append(o, m)
  <1>1. /\ Len(p) = Len(o) + 1 /\ Len(o) \in Nat /\ p[Len(o) + 1] = m
        /\ \A i \in 1..Len(o) : p[i] = o[i]
    OBVIOUS
  <1>2. Has(p, "resize") <=> Has(o, "resize")
    BY HasAppended
  <1> HIDE DEF p
  <1>3. ASSUME NEW i \in 1..Len(p), p[i].kind = "resize", \A j \in i + 1..Len(p) : p[j].kind # "resize"
        PROVE  p[i].size = size
    <2>1. i \in 1..Len(o) /\ p[i] = o[i]
      BY <1>1, <1>3
    <2>2. \A j \in i + 1..Len(o) : j \in i + 1..Len(p) /\ p[j] = o[j]
      BY <1>1
    <2>3. \A j \in i + 1..Len(o) : o[j].kind # "resize"
      BY <1>3, <2>2
    <2> QED BY <1>3, <2>1, <2>3 DEF LastIs
  <1> QED BY <1>2, <1>3 DEF LastIs, p

\* What is queued is sent: the last size stays the last.
LEMMA LastSent ==
  ASSUME NEW o \in Seq(Sayings), o # <<>>, NEW sent \in Seq(Grids), NEW pty, NEW size,
         LastIs(o, sent, pty, size)
  PROVE  /\ Head(o).kind = "resize" => LastIs(Tail(o), Append(sent, Head(o).size), pty, size)
         /\ Head(o).kind # "resize" => LastIs(Tail(o), sent, pty, size)
  <1> DEFINE p == Tail(o)
  <1>1. /\ Len(p) = Len(o) - 1 /\ Len(o) \in Nat /\ Len(o) >= 1 /\ Head(o) = o[1] /\ 1 \in 1..Len(o)
        /\ \A i \in 1..Len(o) - 1 : p[i] = o[i + 1]
    OBVIOUS
  <1>2. Has(o, "resize") <=> Head(o).kind = "resize" \/ Has(p, "resize")
    BY HasTaken
  <1> HIDE DEF p
  <1>3. ASSUME NEW i \in 1..Len(p), p[i].kind = "resize", \A j \in i + 1..Len(p) : p[j].kind # "resize"
        PROVE  p[i].size = size
    <2>1. i + 1 \in 1..Len(o) /\ p[i] = o[i + 1]
      BY <1>1
    <2>2. \A j \in (i + 1) + 1..Len(o) : j - 1 \in i + 1..Len(p) /\ p[j - 1] = o[j]
      BY <1>1
    <2>3. \A j \in (i + 1) + 1..Len(o) : o[j].kind # "resize"
      BY <1>3, <2>2
    <2> QED BY <1>3, <2>1, <2>3 DEF LastIs
  <1>4. ASSUME Head(o).kind # "resize" PROVE LastIs(p, sent, pty, size)
    BY <1>2, <1>3, <1>4 DEF LastIs
  <1>5. ASSUME Head(o).kind = "resize" PROVE LastIs(p, Append(sent, Head(o).size), pty, size)
    <2>1. Head(o) \in Sayings /\ Head(o).size \in Grids
      BY <1>1, <1>5 DEF Sayings
    <2> DEFINE more == Append(sent, Head(o).size)
    <2>2. more # <<>> /\ more[Len(more)] = Head(o).size
      BY <2>1
    <2> HIDE DEF more
    <2>3. ASSUME ~Has(p, "resize") PROVE Head(o).size = size
      <3>1. \A j \in 2..Len(o) : j - 1 \in 1..Len(p) /\ p[j - 1] = o[j]
        BY <1>1
      <3>2. \A j \in 1 + 1..Len(o) : o[j].kind # "resize"
        BY <2>3, <3>1 DEF Has
      <3> QED BY <1>1, <1>5, <3>2 DEF LastIs
    <2> QED BY <1>3, <2>2, <2>3 DEF LastIs, more
  <1> QED BY <1>4, <1>5 DEF p

\* The host takes a size: the last size stays the last.
LEMMA LastReached ==
  ASSUME NEW o, NEW sent \in Seq(Grids), sent # <<>>, NEW pty, NEW size, LastIs(o, sent, pty, size)
  PROVE  LastIs(o, Tail(sent), Head(sent), size)
  <1>1. /\ Len(Tail(sent)) = Len(sent) - 1 /\ Len(sent) \in Nat /\ Len(sent) >= 1 /\ Head(sent) = sent[1]
        /\ \A i \in 1..Len(sent) - 1 : Tail(sent)[i] = sent[i + 1]
    OBVIOUS
  <1>2. CASE Len(sent) = 1
    <2>1. Tail(sent) \in Seq(Grids) /\ Len(Tail(sent)) = 0
      BY <1>1, <1>2
    <2>2. Tail(sent) = <<>>
      BY <2>1, EmptySeq
    <2> QED BY <1>1, <1>2, <2>2 DEF LastIs
  <1>3. CASE Len(sent) # 1
    <2>1. Tail(sent) # <<>>
      <3>1. Len(Tail(sent)) # 0 /\ Len(<<>>) = 0
        BY <1>1, <1>3
      <3> QED BY <3>1
    <2>2. Len(sent) - 1 \in 1..Len(sent) - 1
      BY <1>1, <1>3
    <2>3. Tail(sent)[Len(Tail(sent))] = sent[Len(sent)]
      BY <1>1, <2>2
    <2> QED BY <2>1, <2>3 DEF LastIs
  <1> QED BY <1>2, <1>3

(***************************************************************************)
(* The steps.                                                              *)
(***************************************************************************)
\* A size is one of cells.
LEMMA CellsAreGrids == ASSUME NEW size \in WindowSizes PROVE Cells(size) \in Grids
  BY PaneSizesAssumption DEF Cells, WindowSizes, Grids

\* A pane before anything is drawn.
LEMMA SizesStart == Init => SizesInv
  <1> SUFFICES ASSUME Init PROVE SizesInv
    OBVIOUS
  <1>1. PICK fresh \in BOOLEAN, old \in Sizes, b \in Grids :
        /\ view = [bounds |-> b, recorded |-> None, clear |-> fresh, apart |-> None]
        /\ rt = [replaying |-> ~fresh, window |-> None, told |-> None, sender |-> FALSE,
                 grid |-> Cells(Bootstrap), promoted |-> FALSE]
        /\ script = IF fresh THEN <<>> ELSE Replay(old)
        /\ host = IF fresh THEN [pty |-> Cells(Bootstrap), acked |-> Cells(Bootstrap)]
                  ELSE [pty |-> old, acked |-> None]
    BY DEF Init
  <1>2. /\ resize = [requested |-> Bootstrap, submitted |-> None, applied |-> Bootstrap, clear |-> FALSE]
        /\ signal = [backpressure |-> FALSE, wakeup |-> FALSE]
        /\ mail = <<>> /\ out = <<>> /\ call = [waiting |-> FALSE, sent |-> <<>>]
        /\ spent = [layouts |-> 0, other |-> 0, faults |-> 0, refused |-> FALSE]
    BY DEF Init
  <1>3. Bootstrap \in WindowSizes /\ Cells(Bootstrap) \in Grids /\ Sizes \subseteq Grids
    BY CellsAreGrids DEF WindowSizes, Grids
  <1>4. view \in Views
    BY <1>1 DEF Views
  <1>5. resize \in Resizes /\ signal \in Signals /\ spent \in Spendings
    BY <1>2, <1>3 DEF Resizes, Signals, Spendings
  <1>6. mail \in Seq(Messages) /\ out \in Seq(Sayings) /\ call \in Calls
    BY <1>2 DEF Calls
  <1>7. rt \in Runtimes
    BY <1>1, <1>3 DEF Runtimes
  <1>8. host \in [pty : Grids, acked : Grids \cup {None}]
    BY <1>1, <1>3
  <1>9. Lies(Request) /\ Heard(Request)
    BY <1>2 DEF Lies, Heard, Request
  <1>10. Asked /\ AppliedIs /\ ToldIs /\ SenderIs /\ HostIs
    BY <1>1, <1>2 DEF Asked, AppliedIs, ToldIs, SenderIs, HostIs
  <1>11. GridIs
    BY <1>1 DEF GridIs
  <1>12. StreamRight(mail, script, rt.replaying, rt.grid)
    <2>1. ~Has(mail, "live") /\ Len(mail) = 0
      BY <1>2, HasNothing
    <2>2. Outputs(mail, rt.replaying, rt.grid)
      BY <2>1 DEF Outputs
    <2>3. Comes(mail, script, rt.replaying, rt.grid)
      BY <1>1, <2>1 DEF Comes
    <2>4. script # <<>> <=> rt.replaying
      BY <1>1 DEF Replay
    <2> QED BY <2>1, <2>2, <2>3, <2>4 DEF StreamRight, Ends
  <1> QED BY <1>4, <1>5, <1>6, <1>7, <1>8, <1>9, <1>10, <1>11, <1>12 DEF SizesInv, SizesTyped

\* The window's thread asks, and the mailbox may grow.
LEMMA WindowAsks ==
  ASSUME SizesInv, view' \in Views, resize' \in Resizes, signal' \in Signals, mail' \in Seq(Messages),
         Lies(Request'), Heard(Request'), Asked', resize'.applied = resize.applied,
         StreamRight(mail', script, rt.replaying, rt.grid),
         rt' = rt \/ rt' = [rt EXCEPT !.promoted = TRUE], SenderIs',
         UNCHANGED <<script, out, call, host>>, spent' \in Spendings, spent'.faults = spent.faults
  PROVE  SizesInv'
  <1>1. /\ rt \in Runtimes /\ out \in Seq(Sayings) /\ call \in Calls
        /\ host \in [pty : Grids, acked : Grids \cup {None}]
        /\ AppliedIs /\ ToldIs /\ GridIs /\ HostIs
    BY DEF SizesInv, SizesTyped
  <1>2. /\ rt' \in Runtimes /\ rt'.replaying = rt.replaying /\ rt'.window = rt.window /\ rt'.told = rt.told
        /\ rt'.sender = rt.sender /\ rt'.grid = rt.grid
    BY <1>1 DEF Runtimes
  <1>3. SizesTyped'
    BY <1>1, <1>2 DEF SizesTyped
  <1>4. AppliedIs' /\ ToldIs' /\ GridIs'
    BY <1>1, <1>2 DEF AppliedIs, ToldIs, GridIs
  <1>5. HostIs'
    BY <1>1, <1>2 DEF HostIs
  <1>6. StreamRight(mail, script, rt.replaying, rt.grid)'
    BY <1>2
  <1> QED BY <1>3, <1>4, <1>5, <1>6 DEF SizesInv

\* A message of the window in the mailbox disturbs nothing.
LEMMA MailWaits ==
  ASSUME NEW q \in Seq(Messages), NEW p,
         p = q \/ \E m \in Messages : m.kind \notin {"grid", "output", "live"} /\ p = Append(q, m),
         NEW scr, NEW replaying, NEW grid, StreamRight(q, scr, replaying, grid)
  PROVE  /\ p \in Seq(Messages) /\ StreamRight(p, scr, replaying, grid)
         /\ \A kind : Has(q, kind) => Has(p, kind)
  <1>1. CASE p = q
    BY <1>1
  <1>2. ASSUME NEW m \in Messages, m.kind \notin {"grid", "output", "live"}, p = Append(q, m)
        PROVE  /\ p \in Seq(Messages) /\ StreamRight(p, scr, replaying, grid)
               /\ \A kind : Has(q, kind) => Has(p, kind)
    <2>1. p \in Seq(Messages)
      BY <1>2
    <2>2. StreamRight(p, scr, replaying, grid)
      BY <1>2, StreamWaits
    <2>3. \A kind : Has(q, kind) => Has(p, kind)
      BY <1>2, HasAppended
    <2> QED BY <2>1, <2>2, <2>3
  <1> QED BY <1>1, <1>2

\* A layout.
LEMMA LayoutKeeps == SizesInv /\ Layout => SizesInv'
  <1> SUFFICES ASSUME SizesInv, Layout PROVE SizesInv'
    OBVIOUS
  <1>1. view \in Views /\ spent \in Spendings
    BY DEF SizesInv, SizesTyped
  <1>2. /\ UNCHANGED <<resize, signal, mail, rt, script, out, call, host>>
        /\ \E b \in Grids : view' = [view EXCEPT !.bounds = b]
        /\ spent' = [spent EXCEPT !.layouts = @ + 1]
    BY DEF Layout
  <1>3. view' \in Views /\ view'.recorded = view.recorded
    BY <1>1, <1>2 DEF Views
  <1>4. spent' \in Spendings /\ spent'.faults = spent.faults
    BY <1>1, <1>2 DEF Spendings
  <1>5. Request' = Request
    BY <1>2 DEF Request
  <1>6. Asked' /\ SenderIs'
    BY <1>2, <1>3 DEF SizesInv, Asked, SenderIs
  <1> QED BY <1>2, <1>3, <1>4, <1>5, <1>6, WindowAsks DEF SizesInv, SizesTyped

RequestsAll == [resize : Resizes, signal : Signals, mail : Seq(Messages)]

\* What the window is asked for next.
LEMMA ClearHears ==
  ASSUME NEW r \in RequestsAll, Lies(r), NEW size \in WindowSizes, NEW clear \in BOOLEAN
  PROVE  LET n == Submit([r EXCEPT !.resize.requested = size, !.resize.clear = clear]) IN
         /\ n \in RequestsAll /\ Lies(n) /\ Heard(n)
         /\ n.resize.requested = size /\ n.resize.applied = r.resize.applied
         /\ n.mail = r.mail \/ \E c \in Commands : n.mail = Append(r.mail, c)
  <1> DEFINE a == [r EXCEPT !.resize.requested = size, !.resize.clear = clear]
  <1>1. /\ a.resize = [r.resize EXCEPT !.requested = size, !.clear = clear]
        /\ a.signal = r.signal /\ a.mail = r.mail /\ a \in RequestsAll
    BY DEF RequestsAll, Resizes
  <1>2. a.resize.requested = size /\ a.resize.applied = r.resize.applied /\ a.resize.submitted = r.resize.submitted
    BY <1>1 DEF RequestsAll, Resizes
  <1> HIDE DEF a
  <1>3. Lies(a)
    BY <1>1, <1>2 DEF Lies
  <1>4. /\ Submit(a) \in RequestsAll /\ Lies(Submit(a)) /\ Heard(Submit(a))
        /\ Submit(a).resize.requested = a.resize.requested /\ Submit(a).resize.applied = a.resize.applied
        /\ Submit(a).mail = a.mail \/ \E c \in Commands : Submit(a).mail = Append(a.mail, c)
    BY <1>1, <1>3, SubmitHears DEF RequestsAll
  <1> QED BY <1>1, <1>2, <1>4 DEF a

\* The same where the clear stays as it was.
LEMMA NotifyHears ==
  ASSUME NEW r \in RequestsAll, Lies(r), NEW size \in WindowSizes
  PROVE  LET n == NotifyWindowSize(r, size) IN
         /\ n \in RequestsAll /\ Lies(n) /\ Heard(n)
         /\ n.resize.requested = size /\ n.resize.applied = r.resize.applied
         /\ n.mail = r.mail \/ \E c \in Commands : n.mail = Append(r.mail, c)
  <1> DEFINE a == [r EXCEPT !.resize.requested = size]
  <1>1. /\ a.resize = [r.resize EXCEPT !.requested = size]
        /\ a.signal = r.signal /\ a.mail = r.mail /\ a \in RequestsAll
    BY DEF RequestsAll, Resizes
  <1>2. a.resize.requested = size /\ a.resize.applied = r.resize.applied /\ a.resize.submitted = r.resize.submitted
    BY <1>1 DEF RequestsAll, Resizes
  <1>3. NotifyWindowSize(r, size) = Submit(a)
    BY DEF NotifyWindowSize
  <1> HIDE DEF a
  <1>4. Lies(a)
    BY <1>1, <1>2 DEF Lies
  <1>5. /\ Submit(a) \in RequestsAll /\ Lies(Submit(a)) /\ Heard(Submit(a))
        /\ Submit(a).resize.requested = a.resize.requested /\ Submit(a).resize.applied = a.resize.applied
        /\ Submit(a).mail = a.mail \/ \E c \in Commands : Submit(a).mail = Append(a.mail, c)
    BY <1>1, <1>4, SubmitHears DEF RequestsAll
  <1> QED BY <1>1, <1>2, <1>3, <1>5

\* A frame.
LEMMA PrepaintKeeps == SizesInv /\ Prepaint => SizesInv'
  <1> SUFFICES ASSUME SizesInv, Prepaint PROVE SizesInv'
    OBVIOUS
  <1> DEFINE rendered == RenderContent(Request, WindowSize)
             tells == ~(Collapsed /\ view.recorded = None) /\ view.recorded # WindowSize
             n == IF tells THEN NotifyWindowSize(rendered, WindowSize) ELSE rendered
  <1>1. /\ view \in Views /\ resize \in Resizes /\ signal \in Signals /\ mail \in Seq(Messages)
        /\ spent \in Spendings /\ Lies(Request) /\ Heard(Request) /\ Asked /\ SenderIs
        /\ StreamRight(mail, script, rt.replaying, rt.grid)
    BY DEF SizesInv, SizesTyped
  <1>2. WindowSize \in Grids /\ WindowSize \in WindowSizes /\ tells \in BOOLEAN
    <2>1. view.bounds \in Grids /\ view.recorded \in Grids \cup {None}
      BY <1>1 DEF Views
    <2> QED BY <2>1 DEF WindowSize, WindowSizes
  <1>3. /\ resize' = n.resize /\ signal' = n.signal /\ mail' = n.mail
        /\ view' = [view EXCEPT !.clear = @ /\ ~Clears(WindowSize),
                                !.recorded = IF tells THEN WindowSize ELSE @]
        /\ UNCHANGED <<rt, script, out, call, host, spent>>
    BY DEF Prepaint, Requests
  <1>4. Request \in RequestsAll /\ Request.resize = resize /\ Request.signal = signal /\ Request.mail = mail
    BY <1>1 DEF Request, RequestsAll
  <1>5. /\ rendered \in RequestsAll /\ Lies(rendered) /\ Heard(rendered)
        /\ rendered.resize.requested \in {resize.requested, WindowSize}
        /\ rendered.resize.applied = resize.applied
        /\ rendered.mail = mail \/ \E c \in Commands : rendered.mail = Append(mail, c)
    <2>1. CASE Clears(WindowSize)
      <3> DEFINE m == Submit([Request EXCEPT !.resize.requested = WindowSize, !.resize.clear = TRUE])
      <3>1. rendered = m
        BY <2>1 DEF RenderContent
      <3>2. /\ m \in RequestsAll /\ Lies(m) /\ Heard(m)
            /\ m.resize.requested = WindowSize /\ m.resize.applied = Request.resize.applied
            /\ m.mail = Request.mail \/ \E c \in Commands : m.mail = Append(Request.mail, c)
        <4>1. TRUE \in BOOLEAN
          OBVIOUS
        <4> QED BY <1>1, <1>2, <1>4, <4>1, ClearHears
      <3> HIDE DEF rendered, m
      <3> QED BY <1>4, <3>1, <3>2
    <2>2. CASE ~Clears(WindowSize)
      BY <1>1, <1>4, <2>2 DEF RenderContent
    <2> QED BY <2>1, <2>2
  <1> HIDE DEF rendered, tells
  <1>6. /\ n \in RequestsAll /\ Lies(n) /\ Heard(n)
        /\ n.resize.requested = (IF tells THEN WindowSize ELSE rendered.resize.requested)
        /\ n.resize.applied = resize.applied
        /\ n.mail = rendered.mail \/ \E c \in Commands : n.mail = Append(rendered.mail, c)
    BY <1>1, <1>2, <1>5, NotifyHears
  <1> HIDE DEF n
  <1>7. \A c \in Commands : c \in Messages /\ c.kind = "resize"
    BY DEF Commands, Messages
  <1>8. /\ rendered.mail \in Seq(Messages) /\ StreamRight(rendered.mail, script, rt.replaying, rt.grid)
        /\ \A kind : Has(mail, kind) => Has(rendered.mail, kind)
    <2>1. \/ rendered.mail = mail
          \/ \E x \in Messages : x.kind \notin {"grid", "output", "live"} /\ rendered.mail = Append(mail, x)
      BY <1>5, <1>7
    <2> QED BY <1>1, <2>1, MailWaits
  <1>9. /\ n.mail \in Seq(Messages) /\ StreamRight(n.mail, script, rt.replaying, rt.grid)
        /\ \A kind : Has(rendered.mail, kind) => Has(n.mail, kind)
    BY <1>6, <1>7, <1>8, MailWaits
  <1>10. Request' = n
    <2>1. Request' = [resize |-> n.resize, signal |-> n.signal, mail |-> n.mail]
      BY <1>3 DEF Request
    <2> QED BY <1>6, <2>1 DEF RequestsAll
  <1>11. view' \in Views /\ view'.recorded = (IF tells THEN WindowSize ELSE view.recorded)
    BY <1>1, <1>2, <1>3 DEF Views
  <1>12. Asked'
    <2>1. ~tells => view.recorded = None \/ view.recorded = WindowSize
      BY DEF tells
    <2> QED BY <1>1, <1>3, <1>5, <1>6, <1>11, <2>1 DEF Asked
  <1>13. SenderIs'
    BY <1>1, <1>3, <1>8, <1>9 DEF SenderIs
  <1>14. resize' \in Resizes /\ signal' \in Signals /\ mail' \in Seq(Messages) /\ resize'.applied = resize.applied
    BY <1>3, <1>6 DEF RequestsAll
  <1>15. StreamRight(mail', script, rt.replaying, rt.grid)
    BY <1>3, <1>9
  <1> QED BY <1>1, <1>3, <1>6, <1>10, <1>11, <1>12, <1>13, <1>14, <1>15, WindowAsks

\* A comparison of the size recorded with the size acknowledged.
LEMMA ReconcileKeeps == SizesInv /\ ReconcilePtySize => SizesInv'
  <1> SUFFICES ASSUME SizesInv, ReconcilePtySize PROVE SizesInv'
    OBVIOUS
  <1>1. /\ view \in Views /\ resize \in Resizes /\ signal \in Signals /\ mail \in Seq(Messages)
        /\ spent \in Spendings /\ Lies(Request) /\ Heard(Request) /\ Asked /\ SenderIs
        /\ StreamRight(mail, script, rt.replaying, rt.grid)
    BY DEF SizesInv, SizesTyped
  <1>2. /\ view' = [view EXCEPT !.apart = IF Apart THEN view.recorded ELSE None]
        /\ mail' = mail \/ mail' = Append(mail, [kind |-> "resend"])
        /\ UNCHANGED <<resize, signal, rt, script, out, call, host, spent>>
    BY DEF ReconcilePtySize
  <1>3. view' \in Views /\ view'.recorded = view.recorded
    BY <1>1, <1>2 DEF Views
  <1>4. [kind |-> "resend"] \in Messages
    BY DEF Messages
  <1>5. /\ mail' \in Seq(Messages) /\ StreamRight(mail', script, rt.replaying, rt.grid)
        /\ \A kind : Has(mail, kind) => Has(mail', kind)
    BY <1>1, <1>2, <1>4, MailWaits
  <1>6. Lies(Request') /\ Heard(Request')
    BY <1>1, <1>2, <1>5 DEF Lies, Heard, Request
  <1>7. Asked' /\ SenderIs'
    BY <1>1, <1>2, <1>3, <1>5 DEF Asked, SenderIs
  <1> QED BY <1>1, <1>2, <1>3, <1>5, <1>6, <1>7, WindowAsks

\* The window is woken: what was refused is submitted again.
LEMMA WakeupKeeps == SizesInv /\ Wakeup => SizesInv'
  <1> SUFFICES ASSUME SizesInv, Wakeup PROVE SizesInv'
    OBVIOUS
  <1> DEFINE a == [Request EXCEPT !.signal.wakeup = FALSE]
             n == Submit(a)
  <1>1. /\ view \in Views /\ resize \in Resizes /\ signal \in Signals /\ mail \in Seq(Messages)
        /\ spent \in Spendings /\ Lies(Request) /\ Asked /\ SenderIs
        /\ StreamRight(mail, script, rt.replaying, rt.grid)
    BY DEF SizesInv, SizesTyped
  <1>2. /\ resize' = n.resize /\ signal' = n.signal /\ mail' = n.mail
        /\ UNCHANGED <<view, rt, script, out, call, host, spent>>
    BY DEF Wakeup, Requests
  <1>3. a \in RequestsAll /\ a.resize = resize /\ a.mail = mail
    BY <1>1 DEF Request, RequestsAll, Signals
  <1> HIDE DEF a
  <1>4. Lies(a)
    BY <1>1, <1>3 DEF Lies, Request
  <1>5. /\ n \in RequestsAll /\ Lies(n) /\ Heard(n)
        /\ n.resize.requested = resize.requested /\ n.resize.applied = resize.applied
        /\ n.mail = mail \/ \E c \in Commands : n.mail = Append(mail, c)
    BY <1>3, <1>4, SubmitHears DEF RequestsAll
  <1> HIDE DEF n
  <1>6. \A c \in Commands : c \in Messages /\ c.kind = "resize"
    BY DEF Commands, Messages
  <1>7. /\ n.mail \in Seq(Messages) /\ StreamRight(n.mail, script, rt.replaying, rt.grid)
        /\ \A kind : Has(mail, kind) => Has(n.mail, kind)
    BY <1>1, <1>5, <1>6, MailWaits
  <1>8. Request' = n
    <2>1. Request' = [resize |-> n.resize, signal |-> n.signal, mail |-> n.mail]
      BY <1>2 DEF Request
    <2> QED BY <1>5, <2>1 DEF RequestsAll
  <1>9. Asked' /\ SenderIs'
    BY <1>1, <1>2, <1>5, <1>7 DEF Asked, SenderIs
  <1>10. resize' \in Resizes /\ signal' \in Signals /\ mail' \in Seq(Messages) /\ resize'.applied = resize.applied
    BY <1>2, <1>5 DEF RequestsAll
  <1>11. StreamRight(mail', script, rt.replaying, rt.grid)
    BY <1>2, <1>7
  <1> QED BY <1>1, <1>2, <1>5, <1>8, <1>9, <1>10, <1>11, WindowAsks

\* A key, a scroll, a selection.
LEMMA OtherKeeps == SizesInv /\ OtherCommand => SizesInv'
  <1> SUFFICES ASSUME SizesInv, OtherCommand PROVE SizesInv'
    OBVIOUS
  <1>1. /\ view \in Views /\ resize \in Resizes /\ signal \in Signals /\ mail \in Seq(Messages)
        /\ spent \in Spendings /\ Lies(Request) /\ Heard(Request) /\ Asked /\ SenderIs
        /\ StreamRight(mail, script, rt.replaying, rt.grid)
    BY DEF SizesInv, SizesTyped
  <1>2. /\ mail' = Append(mail, [kind |-> "other"])
        /\ spent' = [spent EXCEPT !.other = @ + 1]
        /\ UNCHANGED <<view, resize, signal, rt, script, out, call, host>>
    BY DEF OtherCommand, ofView
  <1>3. [kind |-> "other"] \in Messages
    BY DEF Messages
  <1>4. /\ mail' \in Seq(Messages) /\ StreamRight(mail', script, rt.replaying, rt.grid)
        /\ \A kind : Has(mail, kind) => Has(mail', kind)
    BY <1>1, <1>2, <1>3, MailWaits
  <1>5. Lies(Request') /\ Heard(Request')
    BY <1>1, <1>2, <1>4 DEF Lies, Heard, Request
  <1>6. Asked' /\ SenderIs'
    BY <1>1, <1>2, <1>4 DEF Asked, SenderIs
  <1>7. spent' \in Spendings /\ spent'.faults = spent.faults
    BY <1>1, <1>2 DEF Spendings
  <1> QED BY <1>1, <1>2, <1>4, <1>5, <1>6, <1>7, WindowAsks

\* The session is opened: the runtime is given a queue, and the size recorded.
LEMMA PromoteKeeps == SizesInv /\ Promote => SizesInv'
  <1> SUFFICES ASSUME SizesInv, Promote PROVE SizesInv'
    OBVIOUS
  <1> DEFINE m == [kind |-> "attached"]
             a == [Request EXCEPT !.mail = Append(@, m)]
             n == IF view.recorded = None THEN a ELSE NotifyWindowSize(a, view.recorded)
  <1>1. /\ view \in Views /\ resize \in Resizes /\ signal \in Signals /\ mail \in Seq(Messages)
        /\ spent \in Spendings /\ rt \in Runtimes /\ Lies(Request) /\ Heard(Request) /\ Asked
        /\ StreamRight(mail, script, rt.replaying, rt.grid)
    BY DEF SizesInv, SizesTyped
  <1>2. /\ resize' = n.resize /\ signal' = n.signal /\ mail' = n.mail
        /\ rt' = [rt EXCEPT !.promoted = TRUE]
        /\ UNCHANGED <<view, script, out, call, host, spent>>
    BY DEF Promote, Requests
  <1>3. m \in Messages /\ m.kind = "attached"
    BY DEF Messages
  <1>4. a.mail = Append(mail, m) /\ a.resize = resize /\ a.signal = signal
    BY DEF Request
  <1>5. a \in RequestsAll
    <2>1. Append(mail, m) \in Seq(Messages)
      BY <1>1, <1>3
    <2> QED BY <1>1, <2>1 DEF Request, RequestsAll
  <1> HIDE DEF a, m
  <1>6. /\ a.mail \in Seq(Messages) /\ StreamRight(a.mail, script, rt.replaying, rt.grid)
        /\ \A kind : Has(mail, kind) => Has(a.mail, kind)
    <2>1. \E x \in Messages : x.kind \notin {"grid", "output", "live"} /\ a.mail = Append(mail, x)
      BY <1>3, <1>4
    <2> QED BY <1>1, <2>1, MailWaits
  <1>7. Has(a.mail, "attached")
    BY <1>1, <1>3, <1>4, HasAppended
  <1>8. Lies(a) /\ Heard(a)
    BY <1>1, <1>4, <1>6 DEF Lies, Heard, Request
  <1>9. view.recorded # None => view.recorded \in WindowSizes
    BY <1>1 DEF Views, WindowSizes
  <1>10. /\ n \in RequestsAll /\ Lies(n) /\ Heard(n)
         /\ n.resize.requested = (IF view.recorded = None THEN resize.requested ELSE view.recorded)
         /\ n.resize.applied = resize.applied
         /\ n.mail = a.mail \/ \E c \in Commands : n.mail = Append(a.mail, c)
    <2>1. CASE view.recorded = None
      BY <1>4, <1>5, <1>8, <2>1
    <2>2. CASE view.recorded # None
      <3>1. n = NotifyWindowSize(a, view.recorded)
        BY <2>2
      <3> HIDE DEF n
      <3> QED BY <1>4, <1>5, <1>8, <1>9, <2>2, <3>1, NotifyHears
    <2> QED BY <2>1, <2>2
  <1> HIDE DEF n
  <1>11. \A c \in Commands : c \in Messages /\ c.kind = "resize"
    BY DEF Commands, Messages
  <1>12. /\ n.mail \in Seq(Messages) /\ StreamRight(n.mail, script, rt.replaying, rt.grid)
         /\ \A kind : Has(a.mail, kind) => Has(n.mail, kind)
    BY <1>6, <1>10, <1>11, MailWaits
  <1>13. Request' = n
    <2>1. Request' = [resize |-> n.resize, signal |-> n.signal, mail |-> n.mail]
      BY <1>2 DEF Request
    <2> QED BY <1>10, <2>1 DEF RequestsAll
  <1>14. Asked'
    BY <1>1, <1>2, <1>10 DEF Asked
  <1>15. SenderIs'
    BY <1>2, <1>7, <1>12 DEF SenderIs
  <1>16. resize' \in Resizes /\ signal' \in Signals /\ mail' \in Seq(Messages) /\ resize'.applied = resize.applied
    BY <1>2, <1>10 DEF RequestsAll
  <1>17. StreamRight(mail', script, rt.replaying, rt.grid)
    BY <1>2, <1>12
  <1> QED BY <1>1, <1>2, <1>10, <1>13, <1>14, <1>15, <1>16, <1>17, WindowAsks

\* The stream's reader posts a message.
LEMMA PostKeeps == SizesInv /\ Post => SizesInv'
  <1> SUFFICES ASSUME SizesInv, Post PROVE SizesInv'
    OBVIOUS
  <1>1. /\ script # <<>> /\ mail' = Append(mail, Head(script)) /\ script' = Tail(script)
        /\ UNCHANGED <<view, resize, signal, rt, out, call, host, spent>>
    BY DEF Post, ofView
  <1>2. mail \in Seq(Messages) /\ StreamRight(mail, script, rt.replaying, rt.grid)
    BY DEF SizesInv, SizesTyped
  <1>3. Head(script) \in Messages /\ StreamRight(mail', script', rt.replaying, rt.grid)
    BY <1>1, <1>2, StreamPosted
  <1>4. mail' \in Seq(Messages) /\ \A kind : Has(mail, kind) => Has(mail', kind)
    BY <1>1, <1>2, <1>3, HasAppended
  <1>5. Lies(Request)' /\ Heard(Request)' /\ SenderIs'
    BY <1>1, <1>4 DEF SizesInv, Lies, Heard, Request, SenderIs
  <1>6. Asked' /\ AppliedIs' /\ ToldIs' /\ GridIs' /\ HostIs'
    BY <1>1 DEF SizesInv, Asked, AppliedIs, ToldIs, GridIs, HostIs
  <1>7. SizesTyped'
    BY <1>1, <1>4 DEF SizesInv, SizesTyped
  <1>8. StreamRight(mail, script, rt.replaying, rt.grid)'
    BY <1>1, <1>3
  <1> QED BY <1>5, <1>6, <1>7, <1>8 DEF SizesInv

\* What is not submitted yet is tried again: the window is woken.
LEMMA Woken ==
  ASSUME NEW s \in Signals
  PROVE  Notified(s) \in Signals /\ (s.backpressure \/ s.wakeup => Notified(s).wakeup)
  BY DEF Notified, Signals

\* The runtime takes a message that is no resize: no request is forgotten.
LEMMA TakenHears ==
  ASSUME SizesInv, mail # <<>>, mail' = Tail(mail), Head(mail).kind # "resize", IdleThen,
         UNCHANGED <<view, resize>>
  PROVE  /\ signal' \in Signals /\ mail' \in Seq(Messages)
         /\ Lies(Request)' /\ Heard(Request)' /\ Asked'
  <1>1. /\ signal \in Signals /\ mail \in Seq(Messages) /\ Lies(Request) /\ Heard(Request) /\ Asked
    BY DEF SizesInv, SizesTyped
  <1>2. Has(mail, "resize") => Has(mail', "resize")
    BY <1>1, HasTaken
  <1>3. signal' \in Signals /\ (signal.backpressure \/ signal.wakeup => signal'.wakeup)
    BY <1>1, Woken DEF IdleThen
  <1>4. mail' \in Seq(Messages)
    BY <1>1
  <1>5. Lies(Request)' /\ Heard(Request)' /\ Asked'
    BY <1>1, <1>2, <1>3 DEF Lies, Heard, Request, Asked
  <1> QED BY <1>3, <1>4, <1>5

\* The runtime tells the host its size, if it is to.
LEMMA TellsKept ==
  ASSUME SizesInv, NEW r \in Runtimes, NEW again \in BOOLEAN, r.told = rt.told, Tells(r, again),
         UNCHANGED <<call, host, spent>>
  PROVE  /\ rt' \in Runtimes /\ out' \in Seq(Sayings) /\ HostIs'
         /\ rt'.replaying = r.replaying /\ rt'.window = r.window /\ rt'.sender = r.sender
         /\ rt'.grid = r.grid /\ rt'.promoted = r.promoted
         /\ r.sender /\ r.window # None => rt'.told = r.window
  <1>1. out \in Seq(Sayings) /\ HostIs
    BY DEF SizesInv, SizesTyped
  <1>2. CASE Told(r, again)
    <2>1. rt' = [r EXCEPT !.told = r.window] /\ out' = Queued(Cells(r.window)) /\ r.window # None
      BY <1>2 DEF Tells, Told
    <2>2. r.window \in WindowSizes
      BY <2>1 DEF Runtimes
    <2>3. Cells(r.window) \in Grids
      BY <2>2, CellsAreGrids
    <2>4. rt' \in Runtimes /\ rt'.told = r.window
      BY <2>1, <2>2 DEF Runtimes
    <2>5. out' \in Seq(Sayings) /\ LastIs(out', call.sent, host.pty, Cells(r.window))
      BY <1>1, <2>1, <2>3, QueuedLast
    <2>6. HostIs'
      BY <2>4, <2>5 DEF HostIs
    <2> QED BY <2>1, <2>4, <2>5, <2>6 DEF Runtimes
  <1>3. CASE ~Told(r, again)
    <2>1. rt' = r /\ out' = out
      BY <1>3 DEF Tells
    <2>2. r.sender /\ r.window # None => r.told = r.window
      BY <1>3 DEF Told
    <2>3. HostIs'
      BY <1>1, <2>1 DEF HostIs
    <2> QED BY <1>1, <2>1, <2>2, <2>3
  <1> QED BY <1>2, <1>3

\* The runtime is given a queue to the host.
LEMMA AttachedKeeps == SizesInv /\ TakeAttached => SizesInv'
  <1> SUFFICES ASSUME SizesInv, TakeAttached PROVE SizesInv'
    OBVIOUS
  <1> DEFINE r == [rt EXCEPT !.sender = TRUE]
  <1>1. /\ mail # <<>> /\ Head(mail).kind = "attached" /\ mail' = Tail(mail) /\ IdleThen
        /\ UNCHANGED <<view, resize, script, call, host, spent>>
        /\ IF rt.replaying THEN rt' = r /\ out' = out ELSE Tells(r, FALSE)
    BY DEF TakeAttached, Take
  <1>2. /\ signal' \in Signals /\ mail' \in Seq(Messages)
        /\ Lies(Request)' /\ Heard(Request)' /\ Asked'
    BY <1>1, TakenHears
  <1>3. /\ SizesTyped /\ AppliedIs /\ ToldIs /\ GridIs /\ HostIs /\ rt \in Runtimes /\ mail \in Seq(Messages)
        /\ StreamRight(mail, script, rt.replaying, rt.grid)
    BY DEF SizesInv, SizesTyped
  <1>4. /\ r \in Runtimes /\ r.told = rt.told /\ r.sender /\ r.window = rt.window /\ r.grid = rt.grid
        /\ r.replaying = rt.replaying
    BY <1>3 DEF Runtimes
  <1> HIDE DEF r
  <1>5. /\ rt' \in Runtimes /\ out' \in Seq(Sayings) /\ HostIs' /\ rt'.sender
        /\ rt'.replaying = rt.replaying /\ rt'.window = rt.window /\ rt'.grid = rt.grid
        /\ ~rt.replaying /\ rt.window # None => rt'.told = rt.window
    <2>1. CASE rt.replaying
      BY <1>1, <1>3, <1>4, <2>1 DEF SizesTyped, HostIs
    <2>2. CASE ~rt.replaying
      <3>1. FALSE \in BOOLEAN /\ Tells(r, FALSE)
        BY <1>1, <2>2
      <3> QED BY <1>1, <1>4, <3>1, TellsKept
    <2> QED BY <2>1, <2>2
  <1>6. SizesTyped'
    BY <1>1, <1>2, <1>3, <1>5 DEF SizesTyped
  <1>7. AppliedIs' /\ ToldIs' /\ GridIs' /\ SenderIs'
    BY <1>1, <1>3, <1>5 DEF AppliedIs, ToldIs, GridIs, SenderIs
  <1>8. StreamRight(mail, script, rt.replaying, rt.grid)'
    BY <1>1, <1>3, <1>5, StreamTaken
  <1> QED BY <1>2, <1>5, <1>6, <1>7, <1>8 DEF SizesInv

\* The size is to be sent once more.
LEMMA ResendKeeps == SizesInv /\ TakeResend => SizesInv'
  <1> SUFFICES ASSUME SizesInv, TakeResend PROVE SizesInv'
    OBVIOUS
  <1>1. /\ mail # <<>> /\ Head(mail).kind = "resend" /\ mail' = Tail(mail) /\ IdleThen
        /\ UNCHANGED <<view, resize, script, call, host, spent>>
        /\ IF rt.replaying THEN rt' = rt /\ out' = out ELSE Tells(rt, TRUE)
    BY DEF TakeResend, Take
  <1>2. /\ signal' \in Signals /\ mail' \in Seq(Messages)
        /\ Lies(Request)' /\ Heard(Request)' /\ Asked'
    BY <1>1, TakenHears
  <1>3. /\ SizesTyped /\ AppliedIs /\ ToldIs /\ GridIs /\ HostIs /\ SenderIs
        /\ rt \in Runtimes /\ mail \in Seq(Messages)
        /\ StreamRight(mail, script, rt.replaying, rt.grid)
    BY DEF SizesInv, SizesTyped
  <1>4. /\ rt' \in Runtimes /\ out' \in Seq(Sayings) /\ HostIs' /\ rt'.sender = rt.sender
        /\ rt'.replaying = rt.replaying /\ rt'.window = rt.window /\ rt'.grid = rt.grid
        /\ rt'.promoted = rt.promoted
        /\ ~rt.replaying /\ rt.sender /\ rt.window # None => rt'.told = rt.window
    <2>1. CASE rt.replaying
      BY <1>1, <1>3, <2>1 DEF SizesTyped, HostIs
    <2>2. CASE ~rt.replaying
      <3>1. TRUE \in BOOLEAN /\ Tells(rt, TRUE)
        BY <1>1, <2>2
      <3> QED BY <1>1, <1>3, <3>1, TellsKept
    <2> QED BY <2>1, <2>2
  <1>5. SizesTyped'
    BY <1>1, <1>2, <1>3, <1>4 DEF SizesTyped
  <1>6. Has(mail, "attached") => Has(mail', "attached")
    BY <1>1, <1>3, HasTaken
  <1>7. AppliedIs' /\ ToldIs' /\ GridIs' /\ SenderIs'
    BY <1>1, <1>3, <1>4, <1>6 DEF AppliedIs, ToldIs, GridIs, SenderIs
  <1>8. StreamRight(mail, script, rt.replaying, rt.grid)'
    BY <1>1, <1>3, <1>4, StreamTaken
  <1> QED BY <1>2, <1>4, <1>5, <1>7, <1>8 DEF SizesInv

\* Another command, or output of the program.
LEMMA TakeOtherKeeps == SizesInv /\ TakeOther => SizesInv'
  <1> SUFFICES ASSUME SizesInv, TakeOther PROVE SizesInv'
    OBVIOUS
  <1>1. /\ mail # <<>> /\ Head(mail).kind \in {"other", "output"} /\ mail' = Tail(mail) /\ IdleThen
        /\ UNCHANGED <<view, resize, rt, script, out, call, host, spent>>
    BY DEF TakeOther, Take
  <1>2. /\ signal' \in Signals /\ mail' \in Seq(Messages)
        /\ Lies(Request)' /\ Heard(Request)' /\ Asked'
    BY <1>1, TakenHears
  <1>3. /\ SizesTyped /\ AppliedIs /\ ToldIs /\ GridIs /\ HostIs /\ SenderIs /\ mail \in Seq(Messages)
        /\ StreamRight(mail, script, rt.replaying, rt.grid)
    BY DEF SizesInv, SizesTyped
  <1>4. Has(mail, "attached") => Has(mail', "attached")
    BY <1>1, <1>3, HasTaken
  <1>5. SizesTyped' /\ AppliedIs' /\ ToldIs' /\ GridIs' /\ SenderIs' /\ HostIs'
    BY <1>1, <1>2, <1>3, <1>4 DEF SizesTyped, AppliedIs, ToldIs, GridIs, SenderIs, HostIs
  <1>6. StreamRight(mail, script, rt.replaying, rt.grid)'
    BY <1>1, <1>3, StreamTaken
  <1> QED BY <1>2, <1>5, <1>6 DEF SizesInv

\* A size the log recorded.
LEMMA TakeGridKeeps == SizesInv /\ TakeGrid => SizesInv'
  <1> SUFFICES ASSUME SizesInv, TakeGrid PROVE SizesInv'
    OBVIOUS
  <1>1. /\ mail # <<>> /\ Head(mail).kind = "grid" /\ mail' = Tail(mail) /\ IdleThen
        /\ UNCHANGED <<view, resize, script, out, call, host, spent>>
        /\ rt' = IF rt.replaying THEN [rt EXCEPT !.grid = Head(mail).size] ELSE rt
    BY DEF TakeGrid, Take
  <1>2. /\ signal' \in Signals /\ mail' \in Seq(Messages)
        /\ Lies(Request)' /\ Heard(Request)' /\ Asked'
    BY <1>1, TakenHears
  <1>3. /\ SizesTyped /\ AppliedIs /\ ToldIs /\ GridIs /\ HostIs /\ SenderIs
        /\ rt \in Runtimes /\ mail \in Seq(Messages)
        /\ StreamRight(mail, script, rt.replaying, rt.grid)
    BY DEF SizesInv, SizesTyped
  <1>4. Has(mail, "attached") => Has(mail', "attached")
    BY <1>1, <1>3, HasTaken
  <1>5. Head(mail).size \in Grids
    <2>1. Head(mail) \in Messages
      BY <1>1, <1>3
    <2> QED BY <1>1, <2>1 DEF Messages, Commands, Grids
  <1>6. /\ rt' \in Runtimes /\ rt'.sender = rt.sender /\ rt'.replaying = rt.replaying
        /\ rt'.window = rt.window /\ rt'.told = rt.told /\ rt'.promoted = rt.promoted
        /\ ~rt.replaying => rt'.grid = rt.grid
        /\ rt.replaying => rt'.grid = Head(mail).size
    BY <1>1, <1>3, <1>5 DEF Runtimes
  <1>7. SizesTyped' /\ AppliedIs' /\ ToldIs' /\ GridIs' /\ SenderIs'
    BY <1>1, <1>2, <1>3, <1>4, <1>6 DEF SizesTyped, AppliedIs, ToldIs, GridIs, SenderIs
  <1>8. HostIs'
    BY <1>1, <1>3, <1>6 DEF HostIs
  <1>9. StreamRight(mail', script, rt.replaying, Head(mail).size)
    BY <1>1, <1>3, StreamTaken
  <1>10. StreamRight(mail, script, rt.replaying, rt.grid)'
    <2>1. CASE rt.replaying
      BY <1>1, <1>6, <1>9, <2>1
    <2>2. CASE ~rt.replaying
      <3>1. rt.replaying = FALSE
        BY <1>3, <2>2 DEF Runtimes
      <3> QED BY <1>1, <1>6, <1>9, <3>1, StreamGone
    <2> QED BY <2>1, <2>2
  <1> QED BY <1>2, <1>7, <1>8, <1>10 DEF SizesInv

\* The replay is over: the grid takes the window's size, and the host is told.
LEMMA GoLiveKeeps == SizesInv /\ TakeGoLive => SizesInv'
  <1> SUFFICES ASSUME SizesInv, TakeGoLive PROVE SizesInv'
    OBVIOUS
  <1> DEFINE r == [rt EXCEPT !.replaying = FALSE,
                             !.grid = IF rt.window = None THEN @ ELSE Cells(rt.window)]
  <1>1. /\ mail # <<>> /\ Head(mail).kind = "live" /\ mail' = Tail(mail) /\ IdleThen
        /\ UNCHANGED <<view, resize, script, call, host, spent>> /\ Tells(r, FALSE)
    BY DEF TakeGoLive, Take
  <1>2. /\ signal' \in Signals /\ mail' \in Seq(Messages)
        /\ Lies(Request)' /\ Heard(Request)' /\ Asked'
    BY <1>1, TakenHears
  <1>3. /\ SizesTyped /\ AppliedIs /\ SenderIs /\ rt \in Runtimes /\ mail \in Seq(Messages)
        /\ StreamRight(mail, script, rt.replaying, rt.grid)
    BY DEF SizesInv, SizesTyped
  <1>4. rt.window # None => Cells(rt.window) \in Grids
    <2>1. rt.window # None => rt.window \in WindowSizes
      BY <1>3 DEF Runtimes
    <2> QED BY <2>1, CellsAreGrids
  <1>5. /\ r \in Runtimes /\ r.told = rt.told /\ r.sender = rt.sender /\ r.window = rt.window
        /\ r.promoted = rt.promoted /\ r.replaying = FALSE
        /\ rt.window # None => r.grid = Cells(rt.window)
    BY <1>3, <1>4 DEF Runtimes
  <1> HIDE DEF r
  <1>6. FALSE \in BOOLEAN
    OBVIOUS
  <1>7. /\ rt' \in Runtimes /\ out' \in Seq(Sayings) /\ HostIs'
        /\ rt'.replaying = r.replaying /\ rt'.window = r.window /\ rt'.sender = r.sender
        /\ rt'.grid = r.grid /\ rt'.promoted = r.promoted
        /\ r.sender /\ r.window # None => rt'.told = r.window
    BY <1>1, <1>5, <1>6, TellsKept
  <1>8. Has(mail, "attached") => Has(mail', "attached")
    BY <1>1, <1>3, HasTaken
  <1>9. SizesTyped' /\ AppliedIs' /\ ToldIs' /\ GridIs' /\ SenderIs'
    BY <1>1, <1>2, <1>3, <1>5, <1>7, <1>8 DEF SizesTyped, AppliedIs, ToldIs, GridIs, SenderIs
  <1>10. StreamRight(mail', script, FALSE, rt'.grid)
    BY <1>1, <1>3, StreamLive
  <1>11. StreamRight(mail, script, rt.replaying, rt.grid)'
    BY <1>1, <1>5, <1>7, <1>10
  <1> QED BY <1>2, <1>7, <1>9, <1>11 DEF SizesInv

\* A size is applied, at once or when the replay is over.
LEMMA ResizeKeeps == SizesInv /\ TakeResize => SizesInv'
  <1> SUFFICES ASSUME SizesInv, TakeResize PROVE SizesInv'
    OBVIOUS
  <1> DEFINE size == Head(mail).size
             r == [rt EXCEPT !.window = size, !.grid = Cells(size)]
  <1>1. /\ mail # <<>> /\ Head(mail).kind = "resize" /\ mail' = Tail(mail)
        /\ UNCHANGED <<view, script, call, host, spent>>
        /\ resize' = [resize EXCEPT !.submitted = None, !.applied = size]
        /\ rt.replaying =>
             /\ signal' = Notified([signal EXCEPT
                             !.backpressure = @ \/ resize.requested # size \/ resize.clear])
             /\ rt' = [rt EXCEPT !.window = size] /\ out' = out
        /\ ~rt.replaying =>
             signal' = [backpressure |-> FALSE, wakeup |-> TRUE] /\ Tells(r, FALSE)
    BY DEF TakeResize, Take, Complete, GridIsTheLogs
  <1>2. /\ SizesTyped /\ AppliedIs /\ ToldIs /\ GridIs /\ HostIs /\ SenderIs /\ Asked
        /\ rt \in Runtimes /\ mail \in Seq(Messages) /\ signal \in Signals /\ resize \in Resizes
        /\ StreamRight(mail, script, rt.replaying, rt.grid)
    BY DEF SizesInv, SizesTyped
  <1>3. size \in WindowSizes
    <2>1. Head(mail) \in Messages
      BY <1>1, <1>2
    <2> QED BY <1>1, <2>1 DEF Messages, Commands
  <1>4. Cells(size) \in Grids
    BY <1>3, CellsAreGrids
  <1> HIDE DEF size
  <1>5. /\ resize' \in Resizes /\ resize'.submitted = None /\ resize'.applied = size
        /\ resize'.requested = resize.requested /\ resize'.clear = resize.clear
    BY <1>1, <1>2, <1>3 DEF Resizes
  <1>6. /\ signal' \in Signals
        /\ signal'.wakeup \/ (resize.requested = size /\ ~resize.clear)
    <2>1. CASE rt.replaying
      <3> DEFINE s == [signal EXCEPT !.backpressure = @ \/ resize.requested # size \/ resize.clear]
      <3>1. s \in Signals /\ (s.backpressure \/ (resize.requested = size /\ ~resize.clear))
        BY <1>2 DEF Signals, Resizes
      <3>2. signal' = Notified(s)
        BY <1>1, <2>1
      <3> HIDE DEF s
      <3> QED BY <3>1, <3>2, Woken
    <2>2. CASE ~rt.replaying
      <3>1. signal' = [backpressure |-> FALSE, wakeup |-> TRUE]
        BY <1>1, <2>2
      <3>2. signal' \in Signals /\ signal'.wakeup
        BY <3>1 DEF Signals
      <3> QED BY <3>2
    <2> QED BY <2>1, <2>2
  <1>7. mail' \in Seq(Messages) /\ (Has(mail, "attached") => Has(mail', "attached"))
    BY <1>1, <1>2, HasTaken
  <1>8. Lies(Request)' /\ Heard(Request)' /\ Asked'
    BY <1>1, <1>2, <1>5, <1>6 DEF Lies, Heard, Request, Asked
  <1>9. StreamRight(mail', script, rt.replaying, rt.grid)
    BY <1>1, <1>2, StreamTaken
  <1>10. CASE rt.replaying
    <2>1. /\ rt' \in Runtimes /\ rt'.replaying = rt.replaying /\ rt'.window = size /\ rt'.told = rt.told
          /\ rt'.sender = rt.sender /\ rt'.grid = rt.grid /\ rt'.promoted = rt.promoted
      BY <1>1, <1>2, <1>3, <1>10 DEF Runtimes
    <2>2. SizesTyped'
      BY <1>1, <1>2, <1>5, <1>6, <1>7, <1>10, <2>1 DEF SizesTyped
    <2>3. AppliedIs' /\ ToldIs' /\ GridIs' /\ SenderIs'
      BY <1>2, <1>5, <1>7, <1>10, <2>1 DEF AppliedIs, ToldIs, GridIs, SenderIs
    <2>4. HostIs'
      BY <1>1, <1>2, <1>10, <2>1 DEF HostIs
    <2>5. StreamRight(mail, script, rt.replaying, rt.grid)'
      BY <1>1, <1>9, <2>1
    <2> QED BY <1>8, <2>2, <2>3, <2>4, <2>5 DEF SizesInv
  <1>11. CASE ~rt.replaying
    <2>1. /\ r \in Runtimes /\ r.replaying = rt.replaying /\ r.window = size /\ r.told = rt.told
          /\ r.sender = rt.sender /\ r.grid = Cells(size) /\ r.promoted = rt.promoted
      BY <1>2, <1>3, <1>4 DEF Runtimes
    <2> HIDE DEF r
    <2>2. FALSE \in BOOLEAN /\ Tells(r, FALSE)
      BY <1>1, <1>11
    <2>3. /\ rt' \in Runtimes /\ out' \in Seq(Sayings) /\ HostIs'
          /\ rt'.replaying = r.replaying /\ rt'.window = r.window /\ rt'.sender = r.sender
          /\ rt'.grid = r.grid /\ rt'.promoted = r.promoted
          /\ r.sender /\ r.window # None => rt'.told = r.window
      BY <1>1, <2>1, <2>2, TellsKept
    <2>4. SizesTyped'
      BY <1>1, <1>2, <1>5, <1>6, <1>7, <2>3 DEF SizesTyped
    <2>5. AppliedIs' /\ ToldIs' /\ GridIs' /\ SenderIs'
      BY <1>2, <1>5, <1>7, <2>1, <2>3 DEF AppliedIs, ToldIs, GridIs, SenderIs
    <2>6. rt.replaying = FALSE
      BY <1>2, <1>11 DEF Runtimes
    <2>7. StreamRight(mail, script, rt.replaying, rt.grid)'
      BY <1>1, <1>9, <2>1, <2>3, <2>6, StreamGone
    <2> QED BY <1>8, <2>3, <2>4, <2>5, <2>7 DEF SizesInv
  <1> QED BY <1>10, <1>11

\* No message for a while.
LEMMA IdleKeeps == SizesInv /\ Idle => SizesInv'
  <1> SUFFICES ASSUME SizesInv, Idle PROVE SizesInv'
    OBVIOUS
  <1>1. IdleThen /\ UNCHANGED <<view, resize, mail, rt, script, out, call, host, spent>>
    BY DEF Idle
  <1>2. signal \in Signals
    BY DEF SizesInv, SizesTyped
  <1>3. signal' \in Signals /\ (signal.backpressure \/ signal.wakeup => signal'.wakeup)
    BY <1>1, <1>2, Woken DEF IdleThen
  <1>4. Lies(Request)' /\ Heard(Request)'
    BY <1>1, <1>3 DEF SizesInv, Lies, Heard, Request
  <1>5. SizesTyped'
    BY <1>1, <1>3 DEF SizesInv, SizesTyped
  <1>6. Asked' /\ AppliedIs' /\ ToldIs' /\ GridIs' /\ SenderIs' /\ HostIs'
    BY <1>1 DEF SizesInv, Asked, AppliedIs, ToldIs, GridIs, SenderIs, HostIs
  <1>7. StreamRight(mail, script, rt.replaying, rt.grid)'
    BY <1>1 DEF SizesInv
  <1> QED BY <1>4, <1>5, <1>6, <1>7 DEF SizesInv

\* What is between the pane and the host: nothing of the pane changes.
LEMMA HostSide ==
  ASSUME SizesInv, UNCHANGED <<view, resize, signal, mail, rt, script>>,
         out' \in Seq(Sayings), call' \in Calls, host' \in [pty : Grids, acked : Grids \cup {None}],
         spent' \in Spendings,
         spent'.faults = 0 => spent.faults = 0,
         \A size : LastIs(out, call.sent, host.pty, size) /\ spent'.faults = 0
                     => LastIs(out', call'.sent, host'.pty, size)
  PROVE  SizesInv'
  <1>1. SizesTyped'
    BY DEF SizesInv, SizesTyped
  <1>2. Lies(Request)' /\ Heard(Request)'
    BY DEF SizesInv, Lies, Heard, Request
  <1>3. Asked' /\ AppliedIs' /\ ToldIs' /\ GridIs' /\ SenderIs'
    BY DEF SizesInv, Asked, AppliedIs, ToldIs, GridIs, SenderIs
  <1>4. HostIs'
    BY DEF SizesInv, HostIs
  <1>5. StreamRight(mail, script, rt.replaying, rt.grid)'
    BY DEF SizesInv
  <1> QED BY <1>1, <1>2, <1>3, <1>4, <1>5 DEF SizesInv

\* The writer, and the host.
LEMMA WriterKeeps ==
  ASSUME SizesInv, SayOther \/ WriteResize \/ WriteOther \/ HostResizes \/ HostRefuses \/ TimesOut
  PROVE  SizesInv'
  <1>1. /\ out \in Seq(Sayings) /\ call \in Calls /\ spent \in Spendings
        /\ host \in [pty : Grids, acked : Grids \cup {None}]
    BY DEF SizesInv, SizesTyped
  <1>2. call.sent \in Seq(Grids) /\ call.waiting \in BOOLEAN /\ spent.faults \in Nat /\ spent.other \in Nat
    BY <1>1 DEF Calls, Spendings
  <1>3. CASE SayOther
    <2>1. /\ out' = Append(out, [kind |-> "other"]) /\ spent' = [spent EXCEPT !.other = @ + 1]
          /\ UNCHANGED <<view, resize, signal, mail, rt, script, call, host>>
      BY <1>3 DEF SayOther, ofView
    <2>2. [kind |-> "other"] \in Sayings
      BY DEF Sayings
    <2>3. out' \in Seq(Sayings)
      BY <1>1, <2>1, <2>2
    <2>4. spent' \in Spendings /\ spent'.faults = spent.faults
      BY <1>1, <2>1 DEF Spendings
    <2>5. \A size : LastIs(out, call.sent, host.pty, size) => LastIs(out', call'.sent, host'.pty, size)
      BY <1>1, <2>1, <2>2, LastWaits
    <2> QED BY <1>1, <2>1, <2>3, <2>4, <2>5, HostSide
  <1>4. CASE WriteResize
    <2>1. /\ out # <<>> /\ Head(out).kind = "resize" /\ out' = Tail(out)
          /\ call' = [waiting |-> TRUE, sent |-> Append(call.sent, Head(out).size)]
          /\ UNCHANGED <<view, resize, signal, mail, rt, script, host, spent>>
      BY <1>4 DEF WriteResize, ofView
    <2>2. Head(out) \in Sayings /\ Tail(out) \in Seq(Sayings)
      BY <1>1, <2>1
    <2>3. Head(out).size \in Grids
      BY <2>1, <2>2 DEF Sayings
    <2>4. call' \in Calls /\ call'.sent = Append(call.sent, Head(out).size)
      BY <1>2, <2>1, <2>3 DEF Calls
    <2>5. \A size : LastIs(out, call.sent, host.pty, size) => LastIs(out', call'.sent, host'.pty, size)
      BY <1>1, <1>2, <2>1, <2>4, LastSent
    <2> QED BY <1>1, <2>1, <2>2, <2>4, <2>5, HostSide
  <1>5. CASE WriteOther
    <2>1. /\ out # <<>> /\ Head(out).kind = "other" /\ out' = Tail(out)
          /\ UNCHANGED <<view, resize, signal, mail, rt, script, call, host, spent>>
      BY <1>5 DEF WriteOther, ofView
    <2>2. Tail(out) \in Seq(Sayings)
      BY <1>1, <2>1
    <2>3. \A size : LastIs(out, call.sent, host.pty, size) => LastIs(out', call'.sent, host'.pty, size)
      BY <1>1, <1>2, <2>1, LastSent
    <2> QED BY <1>1, <2>1, <2>2, <2>3, HostSide
  <1>6. CASE HostResizes
    <2>1. /\ call.sent # <<>>
          /\ call' = [waiting |-> call.waiting /\ ~Answered, sent |-> Tail(call.sent)]
          /\ host' = [pty |-> Head(call.sent),
                      acked |-> IF Answered THEN Head(call.sent) ELSE host.acked]
          /\ UNCHANGED <<view, resize, signal, mail, rt, script, out, spent>>
      BY <1>6 DEF HostResizes, Replies, ofView
    <2>2. Head(call.sent) \in Grids /\ Tail(call.sent) \in Seq(Grids)
      BY <1>2, <2>1
    <2>3. call' \in Calls /\ call'.sent = Tail(call.sent)
      BY <2>1, <2>2 DEF Calls
    <2>4. host' \in [pty : Grids, acked : Grids \cup {None}] /\ host'.pty = Head(call.sent)
      BY <1>1, <2>1, <2>2
    <2>5. \A size : LastIs(out, call.sent, host.pty, size) => LastIs(out', call'.sent, host'.pty, size)
      BY <1>2, <2>1, <2>3, <2>4, LastReached
    <2> QED BY <1>1, <2>1, <2>3, <2>4, <2>5, HostSide
  <1>7. CASE HostRefuses
    <2>1. /\ call.sent # <<>>
          /\ call' = [waiting |-> call.waiting /\ ~Answered, sent |-> Tail(call.sent)]
          /\ spent' = [spent EXCEPT !.faults = @ + 1, !.refused = TRUE]
          /\ UNCHANGED <<view, resize, signal, mail, rt, script, out, host>>
      BY <1>7 DEF HostRefuses, Replies, ofView
    <2>2. Tail(call.sent) \in Seq(Grids)
      BY <1>2, <2>1
    <2>3. call' \in Calls
      BY <2>1, <2>2 DEF Calls
    <2>4. /\ spent' \in Spendings /\ spent'.faults = spent.faults + 1
      <3>1. spent' = [layouts |-> spent.layouts, other |-> spent.other, faults |-> spent.faults + 1,
                      refused |-> TRUE]
        BY <1>1, <2>1 DEF Spendings
      <3>2. spent.layouts \in Nat /\ spent.faults + 1 \in Nat
        BY <1>1, <1>2 DEF Spendings
      <3> QED BY <1>2, <3>1, <3>2 DEF Spendings
    <2>5. spent'.faults # 0
      BY <1>2, <2>4
    <2> QED BY <1>1, <2>1, <2>3, <2>4, <2>5, HostSide
  <1>8. CASE TimesOut
    <2>1. /\ call' = [call EXCEPT !.waiting = FALSE] /\ spent' = [spent EXCEPT !.faults = @ + 1]
          /\ UNCHANGED <<view, resize, signal, mail, rt, script, out, host>>
      BY <1>8 DEF TimesOut, ofView
    <2>2. call' \in Calls
      BY <1>1, <2>1 DEF Calls
    <2>3. spent' \in Spendings /\ spent'.faults # 0
      BY <1>1, <1>2, <2>1 DEF Spendings
    <2> QED BY <1>1, <2>1, <2>2, <2>3, HostSide
  <1> QED BY <1>3, <1>4, <1>5, <1>6, <1>7, <1>8

\* Where a size is on its way from the window to the PTY.
THEOREM SizesInvariant == Spec => []SizesInv
  <1>1. SizesInv /\ [Next]_vars => SizesInv'
    <2> SUFFICES ASSUME SizesInv, [Next]_vars PROVE SizesInv'
      OBVIOUS
    <2>1. CASE UNCHANGED vars
      <3>1. UNCHANGED <<view, resize, signal, mail, rt, script, out, call, host, spent>>
        BY <2>1 DEF vars
      <3>2. /\ out \in Seq(Sayings) /\ call \in Calls /\ spent \in Spendings
            /\ host \in [pty : Grids, acked : Grids \cup {None}]
        BY DEF SizesInv, SizesTyped
      <3> QED BY <3>1, <3>2, HostSide
    <2> QED BY <2>1, LayoutKeeps, PrepaintKeeps, ReconcileKeeps, WakeupKeeps, OtherKeeps, PromoteKeeps,
            PostKeeps, AttachedKeeps, ResendKeeps, TakeOtherKeeps, TakeGridKeeps, GoLiveKeeps, ResizeKeeps,
            IdleKeeps, WriterKeeps DEF Next, Runtime, Writer
  <1> QED BY <1>1, SizesStart, PTL DEF Spec

\* Old output is read into a grid of its size, and when nothing is under way
\* every place has the window's size, the PTY too if no request failed.
THEOREM SizesAgreeAlways == Spec => []SizesAgree
  <1>1. SizesInv => SizesAgree
    <2> SUFFICES ASSUME SizesInv PROVE SizesAgree
      OBVIOUS
    <2>1. ReadAsPrinted
      <3> SUFFICES ASSUME mail # <<>>, Head(mail).kind = "output"
                   PROVE  rt.replaying /\ rt.grid = Head(mail).at
        BY DEF ReadAsPrinted
      <3>1. Len(mail) \in Nat /\ 1 \in 1..Len(mail) /\ Head(mail) = mail[1]
        BY DEF SizesInv, SizesTyped
      <3>2. Fits(mail, 1 - 1, mail[1].at, rt.replaying, rt.grid)
        BY <3>1 DEF SizesInv, StreamRight, Outputs
      <3> QED BY <3>1, <3>2 DEF Fits
    <2>2. SettledAgrees
      <3> SUFFICES ASSUME Settled
                   PROVE  /\ resize.requested = view.recorded /\ resize.applied = view.recorded
                          /\ resize.submitted = None /\ ~resize.clear
                          /\ rt.window = view.recorded /\ rt.told = view.recorded
                          /\ rt.grid = Cells(view.recorded)
                          /\ spent.faults = 0 => host.pty = Cells(view.recorded)
        BY DEF SettledAgrees
      <3>1. /\ mail = <<>> /\ script = <<>> /\ out = <<>> /\ call.sent = <<>>
            /\ ~signal.backpressure /\ ~signal.wakeup /\ rt.promoted /\ view.recorded # None
        BY DEF Settled
      <3>2. \A kind : ~Has(mail, kind) /\ ~Has(out, kind)
        BY <3>1, HasNothing
      <3>3. view.recorded \in Grids /\ view.recorded # Bootstrap
        BY <3>1, PaneSizesAssumption DEF SizesInv, SizesTyped, Views, Grids
      <3>4. resize.requested = view.recorded
        BY <3>1 DEF SizesInv, Asked
      <3>5. resize.submitted = None /\ resize.applied = view.recorded /\ ~resize.clear
        BY <3>1, <3>2, <3>4 DEF SizesInv, Lies, Heard, Request
      <3>6. rt.window = view.recorded
        BY <3>3, <3>5 DEF SizesInv, AppliedIs
      <3>7. ~rt.replaying /\ rt.sender
        BY <3>1, <3>2 DEF SizesInv, StreamRight, Ends, SenderIs
      <3>8. rt.told = view.recorded /\ rt.grid = Cells(view.recorded)
        BY <3>1, <3>6, <3>7 DEF SizesInv, ToldIs, GridIs
      <3>9. spent.faults = 0 => host.pty = Cells(view.recorded)
        BY <3>1, <3>2, <3>8 DEF SizesInv, HostIs, LastIs
      <3> QED BY <3>4, <3>5, <3>6, <3>8, <3>9
    <2> QED BY <2>1, <2>2 DEF SizesAgree
  <1> QED BY <1>1, SizesInvariant, PTL
=============================================================================
