------------------------------ MODULE SessionLog ------------------------------
(***************************************************************************)
(* The output log of one session: crates/splitlane-host/src/log.rs.        *)
(*                                                                         *)
(* A bounded ring of records.  Output bytes and resizes share one sequence *)
(* of positions.  The head of the ring moves forward when the log is too   *)
(* large, and by choice only to a record that starts where the stream may  *)
(* be cut.                                                                 *)
(*                                                                         *)
(* Data.  The log never looks at a byte itself: it asks the scanner        *)
(* (scan.rs) whether the stream may be cut after it and which terminal     *)
(* modes are in effect there.  A byte is therefore modelled by that        *)
(* answer, a record [safe, modes], and every sequence of answers is        *)
(* allowed; the scanner's own state, as far as the log sees it, is the     *)
(* answer for the last byte it read.                                       *)
(*                                                                         *)
(* Control.  The log is only touched under the session's lock.  Each call  *)
(* runs from "idle" back to "idle" and its loops are taken one iteration   *)
(* per step, so no other call can begin in between; what a reader of the   *)
(* log can observe are the states with call.op = "idle".                   *)
(***************************************************************************)
EXTENDS Integers, Sequences

CONSTANTS
    Capacity,     \* bytes the ring may hold (DEFAULT_CAPACITY)
    MaxChunk,     \* MAX_CHUNK
    ChunkShare,   \* a chunk is at most Capacity \div ChunkShare (8 in the code)
    SealCap,      \* SEAL_AT
    ResizeCost,   \* RESIZE_COST
    Modes,        \* what the scanner can say about the terminal's modes
    FirstModes,   \* Modes::default()
    NoModes,      \* head_modes is None
    Sizes,        \* terminal sizes
    FirstSize,    \* the size the session starts with
    NoSize,       \* the record is not a resize
    Pieces,       \* the byte sequences the program writes in one go
    Limits,       \* what the session's budget may ask the log to shrink to
    MaxSeq        \* bound of the model: positions a behaviour may use

Byte == [safe: BOOLEAN, modes: Modes]

ASSUME LogAssumption ==
    /\ Capacity \in Nat
    /\ MaxChunk \in Nat \ {0}
    /\ ChunkShare \in Nat \ {0}
    /\ SealCap \in Nat
    /\ ResizeCost \in Nat \ {0}
    /\ FirstModes \in Modes /\ NoModes \notin Modes
    /\ FirstSize \in Sizes /\ NoSize \notin Sizes
    /\ Pieces \subseteq Seq(Byte) /\ <<>> \notin Pieces
    /\ Limits \subseteq Nat
    /\ MaxSeq \in Nat

Least(a, b) == IF a <= b THEN a ELSE b
Most(a, b) == IF a >= b THEN a ELSE b

\* SessionLog::new: the largest record, and how full one is before it is closed
ChunkCap == Most(1, Least(Capacity \div ChunkShare, MaxChunk))
SealAt == Most(1, Least(SealCap, ChunkCap \div 2))

VARIABLES
    entries,      \* the records held, oldest first
    head_seq,     \* position of the oldest record held
    tail_seq,     \* position the next byte or resize gets
    stored,       \* what the records held are charged
    head_size,    \* terminal size in effect at head_seq
    scanner,      \* what the scanner says after everything up to tail_seq
    sealed,       \* the last record is closed
    head_modes,   \* modes in effect at head_seq, NoModes at the session's start
    head_torn,    \* the head is not a place the stream may be cut
    call,         \* the call under way, and how far it has come
    written       \* history: the state of the terminal after each position

ring == <<entries, head_seq, tail_seq, stored, head_size, scanner, sealed>>
told == <<head_modes, head_torn>>
vars == <<ring, told, call, written>>

(***************************************************************************)
(* Records.                                                                *)
(***************************************************************************)
Entry == [seq: Nat, bytes: Seq(Byte), size: Sizes \cup {NoSize},
          modes: Modes, clean: BOOLEAN]

IsResize(e) == e.size # NoSize
Span(e) == IF IsResize(e) THEN 1 ELSE Len(e.bytes)
Cost(e) == IF IsResize(e) THEN ResizeCost ELSE Len(e.bytes)

\* What has been written, by position: the terminal after it, and what
\* everything up to it was charged.
Past == [resize: BOOLEAN, safe: BOOLEAN, modes: Modes, size: Sizes, upto: Nat]
Origin == [resize |-> FALSE, safe |-> TRUE, modes |-> FirstModes,
           size |-> FirstSize, upto |-> 0]
At(p) == IF p = 0 THEN Origin ELSE written[p]

AfterBytes(piece) ==
    LET now == At(tail_seq) IN
    [i \in 1..Len(piece) |->
        [resize |-> FALSE, safe |-> piece[i].safe, modes |-> piece[i].modes,
         size |-> now.size, upto |-> now.upto + i]]
AfterResize(size) ==
    [resize |-> TRUE, safe |-> scanner.safe, modes |-> scanner.modes,
     size |-> size, upto |-> At(tail_seq).upto + ResizeCost]

(***************************************************************************)
(* Calls.                                                                  *)
(***************************************************************************)
Ops == {"idle", "append", "trim", "drop", "cut"}
Call == [op: Ops, rest: Seq(Byte), limit: Nat, before: Nat, settle: BOOLEAN]
Idle == [op |-> "idle", rest |-> <<>>, limit |-> 0, before |-> 0, settle |-> FALSE]
Trim(limit) ==
    [op |-> "trim", rest |-> <<>>, limit |-> limit, before |-> head_seq, settle |-> FALSE]

Init ==
    /\ entries = <<>> /\ head_seq = 0 /\ tail_seq = 0 /\ stored = 0
    /\ head_size = FirstSize
    /\ scanner = [safe |-> TRUE, modes |-> FirstModes]
    /\ sealed = FALSE /\ head_modes = NoModes /\ head_torn = FALSE
    /\ call = Idle
    /\ written = <<>>

(***************************************************************************)
(* append_output.                                                          *)
(***************************************************************************)
AppendOutput(bytes) ==
    /\ call.op = "idle"
    /\ tail_seq + Len(bytes) <= MaxSeq
    /\ call' = [Idle EXCEPT !.op = "append", !.rest = bytes]
    /\ UNCHANGED <<ring, told, written>>

Room ==
    IF entries = <<>> \/ sealed THEN 0
    ELSE LET last == entries[Len(entries)] IN
         IF IsResize(last) THEN 0 ELSE Most(0, ChunkCap - Len(last.bytes))

\* Faulty: a closed record is never opened again
OpenRecordFaulty ==
    /\ call.op = "append" /\ call.rest # <<>> /\ Room = 0
    /\ entries' = IF sealed THEN entries
                  ELSE Append(entries, [seq |-> tail_seq, bytes |-> <<>>, size |-> NoSize,
                                        modes |-> scanner.modes, clean |-> scanner.safe])
    /\ UNCHANGED <<head_seq, tail_seq, stored, head_size, scanner, sealed, told, call, written>>

OpenRecord ==
    /\ call.op = "append" /\ call.rest # <<>> /\ Room = 0
    /\ entries' = Append(entries, [seq |-> tail_seq, bytes |-> <<>>, size |-> NoSize,
                                   modes |-> scanner.modes, clean |-> scanner.safe])
    /\ sealed' = FALSE
    /\ UNCHANGED <<head_seq, tail_seq, stored, head_size, scanner, told, call, written>>

\* Scanner::feed: the last place in the piece where the stream may be cut
LastSafe(piece, o) ==
    /\ o \in 1..Len(piece)
    /\ piece[o].safe
    /\ \A p \in (o + 1)..Len(piece) : ~piece[p].safe

Take == Least(Room, Len(call.rest))
Piece == SubSeq(call.rest, 1, Take)
Filled(bytes) == [entries EXCEPT ![Len(entries)].bytes = @ \o bytes]
Closes(o) == LastSafe(Piece, o) /\ (ChunkCap - Room) + o >= SealAt

\* Faulty: the rest of the piece is given the position of its start
CloseRecordFaulty(o) ==
    /\ Closes(o)
    /\ entries' = Append(Filled(SubSeq(Piece, 1, o)),
                         [seq |-> tail_seq, bytes |-> SubSeq(Piece, o + 1, Take),
                          size |-> NoSize, modes |-> Piece[o].modes, clean |-> TRUE])
    /\ sealed' = sealed

\* The piece holds a place to close the record at
CloseRecord(o) ==
    /\ Closes(o)
    /\ IF o < Take
       THEN /\ entries' = Append(Filled(SubSeq(Piece, 1, o)),
                                 [seq |-> tail_seq + o, bytes |-> SubSeq(Piece, o + 1, Take),
                                  size |-> NoSize, modes |-> Piece[o].modes, clean |-> TRUE])
            /\ sealed' = sealed
       ELSE /\ entries' = Filled(Piece)
            /\ sealed' = TRUE

GrowRecord ==
    /\ \A o \in 1..Take : ~Closes(o)
    /\ entries' = Filled(Piece)
    /\ sealed' = sealed

FillRecord ==
    /\ call.op = "append" /\ call.rest # <<>> /\ Room > 0
    /\ GrowRecord \/ \E o \in 1..Take : CloseRecord(o)
    /\ scanner' = Piece[Take]
    /\ tail_seq' = tail_seq + Take
    /\ stored' = stored + Take
    /\ written' = written \o AfterBytes(Piece)
    /\ call' = IF Take = Len(call.rest) THEN Trim(Capacity)
               ELSE [call EXCEPT !.rest = SubSeq(@, Take + 1, Len(@))]
    /\ UNCHANGED <<head_seq, head_size, told>>

(***************************************************************************)
(* append_resize.                                                          *)
(***************************************************************************)
\* Faulty: a resize is charged its one position, or is not followed by a trim
AppendResizeFaulty(size, charge, next) ==
    /\ call.op = "idle"
    /\ tail_seq < MaxSeq
    /\ entries' = Append(entries, [seq |-> tail_seq, bytes |-> <<>>, size |-> size,
                                   modes |-> scanner.modes, clean |-> scanner.safe])
    /\ sealed' = FALSE
    /\ tail_seq' = tail_seq + 1
    /\ stored' = stored + charge
    /\ written' = Append(written, AfterResize(size))
    /\ call' = next
    /\ UNCHANGED <<head_seq, head_size, scanner, told>>
AppendResizeUncharged(size) == AppendResizeFaulty(size, 1, Trim(Capacity))
AppendResizeUntrimmed(size) == AppendResizeFaulty(size, ResizeCost, Idle)

AppendResize(size) ==
    /\ call.op = "idle"
    /\ tail_seq < MaxSeq
    /\ entries' = Append(entries, [seq |-> tail_seq, bytes |-> <<>>, size |-> size,
                                   modes |-> scanner.modes, clean |-> scanner.safe])
    /\ sealed' = FALSE
    /\ tail_seq' = tail_seq + 1
    /\ stored' = stored + ResizeCost
    /\ written' = Append(written, AfterResize(size))
    /\ call' = Trim(Capacity)
    /\ UNCHANGED <<head_seq, head_size, scanner, told>>

(***************************************************************************)
(* trim_to and clear.                                                      *)
(***************************************************************************)
\* The session's budget asks for less than is stored
TrimTo(limit) ==
    /\ call.op = "idle"
    /\ limit < stored
    /\ call' = Trim(limit)
    /\ UNCHANGED <<ring, told, written>>

Clear ==
    /\ call.op = "idle"
    /\ call' = [Trim(0) EXCEPT !.op = "cut", !.settle = TRUE]
    /\ UNCHANGED <<ring, told, written>>

DropHead ==
    LET e == entries[1] IN
    /\ entries # <<>>
    /\ entries' = Tail(entries)
    /\ stored' = stored - Cost(e)
    /\ head_seq' = e.seq + Span(e)
    /\ head_size' = IF IsResize(e) THEN e.size ELSE head_size
    /\ UNCHANGED <<tail_seq, scanner, sealed, told, written>>

\* droppable_head_records: a later record starts where the stream may be cut
HasClean == \E i \in 2..Len(entries) : entries[i].clean

\* Drop records until the next one that starts clean is the head
DropToClean ==
    /\ \/ call.op = "trim" /\ stored > call.limit /\ HasClean
       \/ call.op = "drop"
    /\ DropHead
    /\ call' = [call EXCEPT !.op = IF entries[2].clean THEN "trim" ELSE "drop"]

\* Nothing is to be kept, and the end of the log is a place to cut
CutToNothing == call.limit = 0 /\ scanner.safe
\* Past twice the capacity the log is cut at any record
\* Faulty: the log is torn as soon as it is full
OvergrownFaulty == stored > Capacity
Overgrown == stored > 2 * Capacity

StartCut ==
    /\ call.op = "trim" /\ stored > call.limit /\ ~HasClean
    /\ CutToNothing \/ Overgrown
    /\ call' = [call EXCEPT !.op = "cut"]
    /\ UNCHANGED <<ring, told, written>>

Cut ==
    /\ call.op = "cut" /\ stored > call.limit
    /\ DropHead
    /\ call' = call

\* Faulty: the modes at the tail are taken for those at the head
SettleFaulty ==
    /\ sealed' = (sealed /\ entries # <<>>)
    /\ head_modes' = scanner.modes
    /\ head_torn' = ~(IF entries = <<>> THEN scanner.safe ELSE entries[1].clean)

\* settle_head
Settle ==
    /\ sealed' = (sealed /\ entries # <<>>)
    /\ head_modes' = IF entries = <<>> THEN scanner.modes ELSE entries[1].modes
    /\ head_torn' = ~(IF entries = <<>> THEN scanner.safe ELSE entries[1].clean)

EndTrim ==
    /\ \/ call.op = "trim" /\ (stored <= call.limit \/ ~(HasClean \/ CutToNothing \/ Overgrown))
       \/ call.op = "cut" /\ (stored <= call.limit \/ entries = <<>>)
    /\ IF call.settle \/ head_seq # call.before
       THEN Settle
       ELSE UNCHANGED <<sealed, told>>
    /\ call' = Idle
    /\ UNCHANGED <<entries, head_seq, tail_seq, stored, head_size, scanner, written>>

Running == OpenRecord \/ FillRecord \/ DropToClean \/ StartCut \/ Cut \/ EndTrim

Next ==
    \/ \E bytes \in Pieces : AppendOutput(bytes)
    \/ \E size \in Sizes : AppendResize(size)
    \/ \E limit \in Limits : TrimTo(limit)
    \/ Clear
    \/ Running

\* A call that has the lock keeps running
Spec == Init /\ [][Next]_vars /\ WF_vars(Running)

(***************************************************************************)
(* What a reader of the log is given.                                      *)
(***************************************************************************)
\* resolve: where a read from seq starts, and whether that is a gap
Start(seq) == Most(head_seq, Least(seq, tail_seq))
Gap(seq) == seq < head_seq

\* size_at: the last resize before seq, or the size at the head
SizeAt(seq) ==
    LET Before == {i \in 1..Len(entries) : IsResize(entries[i]) /\ entries[i].seq < seq}
    IN  IF Before = {} THEN head_size
        ELSE entries[CHOOSE i \in Before : \A j \in Before : j <= i].size

=============================================================================
