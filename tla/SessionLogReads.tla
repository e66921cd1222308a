---------------------------- MODULE SessionLogReads ----------------------------
(***************************************************************************)
(* SessionLog::read_from: what a follower copies out of the log.           *)
(***************************************************************************)
EXTENDS SessionLogProperties

CONSTANTS
    MaxBatchItems,    \* MAX_BATCH_ITEMS
    MaxBytes          \* what a reader may give as max_bytes

ASSUME ReadsAssumption ==
    /\ MaxBatchItems \in Nat
    /\ MaxBytes \subseteq Nat

\* The batch stops before record e
Breaks(b, e) ==
    b.done \/ Len(b.items) >= MaxBatchItems \/ (~IsResize(e) /\ b.budget = 0)

Item(seq, bytes, size) == [seq |-> seq, bytes |-> bytes, size |-> size]

CopyResize(b, e) ==
    [items |-> Append(b.items, Item(e.seq, <<>>, e.size)),
     next |-> e.seq + 1, budget |-> b.budget, done |-> FALSE]

\* Faulty: a record is read from its own start
CopyBytesFaulty(b, e, skip, take) ==
    IF take = 0 THEN b
    ELSE [items |-> Append(b.items, Item(b.next, SubSeq(e.bytes, 1, take), NoSize)),
          next |-> b.next + take, budget |-> b.budget - take,
          done |-> skip + take < Len(e.bytes)]

CopyBytes(b, e, skip, take) ==
    IF take = 0 THEN b
    ELSE [items |-> Append(b.items, Item(b.next, SubSeq(e.bytes, skip + 1, skip + take), NoSize)),
          next |-> b.next + take, budget |-> b.budget - take,
          done |-> skip + take < Len(e.bytes)]

\* One record of the loop; b is the batch so far, b.done that the loop broke
Copy(b, e) ==
    IF Breaks(b, e) THEN [b EXCEPT !.done = TRUE]
    ELSE IF IsResize(e) THEN CopyResize(b, e)
    ELSE LET skip == b.next - e.seq
         IN  CopyBytes(b, e, skip, Least(Len(e.bytes) - skip, b.budget))

\* Nothing is copied yet
Empty(seq, max) == [items |-> <<>>, next |-> Start(seq), budget |-> Most(1, max), done |-> FALSE]

\* The batch after each of the records, of which the loop skips those that end
\* at or before its start
Batches(seq, max) ==
    LET batch[i \in 0..Len(entries)] ==
          IF i = 0 THEN Empty(seq, max)
          ELSE IF entries[i].seq + Span(entries[i]) <= Start(seq) THEN batch[i - 1]
          ELSE Copy(batch[i - 1], entries[i])
    IN  batch

ReadFrom(seq, max) == Batches(seq, max)[Len(entries)]

\* Items that abut from where the read starts to where it is to go on, each
\* exactly what was written there, within the budget; short of the tail only
\* for the budget or the item limit
ReadRight(seq, b) ==
    LET starts == [i \in 1..(Len(b.items) + 1) |->
                      IF i <= Len(b.items) THEN b.items[i].seq ELSE b.next]
    IN  /\ starts[1] = Start(seq)
        /\ \A i \in 1..Len(b.items) :
              /\ Faithful(b.items[i])
              /\ starts[i + 1] = starts[i] + Span(b.items[i])
              /\ starts[i + 1] > starts[i]
        /\ b.budget >= 0
        /\ b.next < tail_seq => b.budget = 0 \/ Len(b.items) = MaxBatchItems

\* Wherever a follower reads from and however little it asks for, it gets the
\* stream from there on: items that abut, hold what was written, are within
\* its budget, and stop short of the tail only for the budget or the item
\* limit.  So a follower that goes on at `next` misses and repeats nothing,
\* and never stops getting output while there is some.  The size it starts
\* with is the one the terminal had there (SizesKnown).
ReadsExact ==
    /\ SizesKnown
    /\ call.op = "idle" =>
        \A seq \in 0..(tail_seq + 1), max \in MaxBytes : ReadRight(seq, ReadFrom(seq, max))
=============================================================================
