------------------------------- MODULE Scanner -------------------------------
(***************************************************************************)
(* What a stretch of output leaves switched on, and where it may be cut:   *)
(* splitlane-host/src/scan.rs.                                             *)
(*                                                                         *)
(* The program prints one piece after another: a character, a sequence, a  *)
(* string, a sequence that it breaks off.  What it prints is fed to the    *)
(* scanner in chunks that end anywhere.  Two emulators that disagree about *)
(* related modes read everything as well.                                  *)
(***************************************************************************)
EXTENDS Integers, Sequences, SequencesExt, FiniteSets

CONSTANTS
    Pieces,       \* what may be printed: its bytes, what they switch, whether
                  \* they begin or end a synchronized update
    Lost,         \* states an emulator of each kind may be in that lost some output
    ScreenModes, MouseModes,   \* spellings of the alternate screen, of the mouse
    KittyDepth, SyncMax,       \* KITTY_DEPTH, and SYNC_MAX_BYTES in bytes here
    MaxPieces     \* bound of the model

ASSUME ScannerAssumption ==
    /\ \A piece \in Pieces : piece.bytes # <<>>
    /\ KittyDepth \in Nat \ {0} /\ SyncMax \in Nat /\ MaxPieces \in Nat

VARIABLES
    parser,    \* state, utf8_pending, sync, and the sequence being read
    modes,     \* the modes in effect
    shared,    \* the last snapshot handed out, and whether it is dirty
    feed,      \* the feed in progress: held and hold_wanted
    point,     \* the safe point that the last feed returned
    printing,  \* what is left of the piece; whether an update is open
    emulators, \* of each kind, one that has read everything
    mark,      \* ghost: those emulators where the feed was last safe
    pieces     \* of the bound

scanVars == <<parser, modes, shared, feed, point, printing, emulators, mark, pieces>>

(***************************************************************************)
(* What a sequence does.                                                   *)
(***************************************************************************)
Mode(n, set) == [op |-> "mode", n |-> n, set |-> set]
Push(flags) == [op |-> "push", n |-> flags]
Pop(count) == [op |-> "pop", n |-> count]
SetFlags(flags) == [op |-> "set", n |-> flags]
Title(text) == [op |-> "title", n |-> text]
Reset == [op |-> "reset", n |-> ""]

\* KittyStack: the top is in effect, and the oldest entry makes way
Pushed(stack, flags) ==
    Append(IF Len(stack) = KittyDepth THEN Tail(stack) ELSE stack, flags)
Popped(stack, count) ==
    IF count = "all" \/ stack = <<>> THEN <<>> ELSE Front(stack)
TopSet(stack, flags) ==
    IF stack = <<>> THEN <<flags>> ELSE [stack EXCEPT ![Len(stack)] = flags]
Stacked(stack, op) ==
    CASE op.op = "push" -> Pushed(stack, op.n)
      [] op.op = "pop" -> Popped(stack, op.n)
      [] op.op = "set" -> TopSet(stack, op.n)

\* Ops: the last time that each sequence of a group was seen, oldest first
SeenFaulty(list, op) == IF Contains(list, op) THEN list ELSE Append(list, op)
Seen(list, op) == Append(SelectSeq(list, LAMBDA other : other # op), op)

AtStart == [paste |-> FALSE, alt |-> FALSE, screen |-> <<>>, mouse |-> <<>>,
            kitty |-> [main |-> <<>>, alt |-> <<>>], title |-> ""]
Which(alt) == IF alt THEN "alt" ELSE "main"
Switched(m, op) ==
    CASE op.op = "reset" -> AtStart
      [] op.op = "title" -> [m EXCEPT !.title = op.n]
      [] op.op = "mode" /\ op.n = "2004" -> [m EXCEPT !.paste = op.set]
      [] op.op = "mode" /\ op.n \in ScreenModes ->
           [m EXCEPT !.screen = Seen(@, op), !.alt = op.set]
      [] op.op = "mode" /\ op.n \in MouseModes -> [m EXCEPT !.mouse = Seen(@, op)]
      [] op.op = "mode" -> m
      [] OTHER -> [m EXCEPT !.kitty[Which(m.alt)] = Stacked(@, op)]

(***************************************************************************)
(* Modes::preamble: what puts an emulator into these modes, whatever it is *)
(* in the middle of.                                                       *)
(***************************************************************************)
AllOff(ns) == SetToSeq({Mode(n, FALSE) : n \in ns})
Rebuilt(stack) == <<Pop("all")>> \o [i \in DOMAIN stack |-> Push(stack[i])]
Preamble(m) ==
    AllOff(ScreenModes) \o <<Mode("1049", TRUE)>> \o Rebuilt(m.kitty.alt)
    \o <<Mode("1049", FALSE)>> \o Rebuilt(m.kitty.main) \o m.screen
    \o <<Mode("2004", m.paste)>> \o AllOff(MouseModes) \o m.mouse
    \o (IF m.title = "" THEN <<>> ELSE <<Title(m.title)>>)

(***************************************************************************)
(* The grammar: the parser after one more byte.                            *)
(***************************************************************************)
Numbers == {"5", "2", "2004", "2026"} \cup ScreenModes \cup MouseModes
Markers == {"?", "<", "=", ">"}
Params == Numbers \cup Markers \cup {";"}
Strings == {"[", "]", "P"}
Finals == {"h", "l", "u", "c", "x", "\\"} \cup Strings

Idle == [state |-> "ground", utf8 |-> 0, sync |-> -1, marker |-> "", params |-> <<>>]
To(p, state) == [p EXCEPT !.state = state]
Into(p) == [p EXCEPT !.state = "escape", !.utf8 = 0, !.marker = "", !.params = <<>>]
Begins(b) == IF b = "lead3" THEN 2 ELSE IF b = "lead2" THEN 1 ELSE 0
Ground(p, b) ==
    IF p.utf8 > 0 /\ b = "cont" THEN [p EXCEPT !.utf8 = @ - 1]
    ELSE IF b = "esc" THEN Into(p) ELSE [p EXCEPT !.utf8 = Begins(b)]

Escape(p, b) ==
    CASE b = " " -> To(p, "escapeIntermediate")
      [] b = "[" -> To(p, "csi")
      [] b = "]" -> To(p, "oscNumber")
      [] b = "P" -> To(p, "str")
      [] b \in (Finals \ Strings) \cup Params -> To(p, "ground")
      [] b \in {"bel", "lead2", "lead3", "cont"} -> p
Digits(params, b) ==
    IF params = <<>> THEN <<b>> ELSE IF Last(params) = "" THEN Append(Front(params), b) ELSE params
Csi(p, b) ==
    CASE b \in Numbers -> [p EXCEPT !.params = Digits(@, b)]
      [] b = ";" -> [p EXCEPT !.params = Append(IF @ = <<>> THEN <<"">> ELSE @, "")]
      [] b \in Markers -> IF p.marker = "" /\ p.params = <<>> THEN [p EXCEPT !.marker = b]
                          ELSE To(p, "csiIgnore")
      [] b = " " -> To(p, "csiIntermediate")
      [] b \in Finals -> To(p, "ground")
      [] b \in {"bel", "lead2", "lead3", "cont"} -> p
Osc(p, b) ==
    CASE b = "bel" -> To(p, "ground")
      [] p.state = "oscNumber" /\ b \in Numbers -> [p EXCEPT !.params = <<b>>]
      [] p.state = "oscNumber" /\ b = ";" ->
           IF p.params \in {<<>>, <<"2">>} THEN [p EXCEPT !.state = "oscTitle", !.params = <<>>]
           ELSE To(p, "oscOther")
      [] p.state = "oscNumber" /\ b \notin Numbers \cup {"bel", ";"} -> To(p, "oscOther")
      [] p.state = "oscTitle" /\ b # "bel" -> [p EXCEPT !.params = <<b>>]
      [] p.state = "oscOther" /\ b # "bel" -> p

\* Three bytes mean the same wherever they arrive in a sequence or a string
Step(p, b) ==
    IF p.state = "ground" THEN Ground(p, b)
    ELSE IF b = "can" THEN To(p, "ground")
    ELSE IF b = "esc" THEN Into(p)
    ELSE CASE p.state = "escape" -> Escape(p, b)
           [] p.state = "csi" -> Csi(p, b)
           [] p.state \in {"oscNumber", "oscTitle", "oscOther"} -> Osc(p, b)
           [] p.state = "escapeIntermediate" -> IF b \in Finals \cup Params THEN To(p, "ground") ELSE p
           [] p.state = "csiIntermediate" ->
                IF b \in Finals THEN To(p, "ground")
                ELSE IF b \in Params THEN To(p, "csiIgnore") ELSE p
           [] p.state = "csiIgnore" -> IF b \in Finals THEN To(p, "ground") ELSE p
           [] p.state = "str" -> p

\* csi_final, escape_final and end_osc: what the byte has done
Does(p, b) ==
    CASE p.state = "csi" /\ p.marker = "?" /\ b \in {"h", "l"} ->
           [i \in DOMAIN p.params |-> Mode(p.params[i], b = "h")]
      [] p.state = "csi" /\ p.marker = ">" /\ b = "u" -> <<Push(p.params[1])>>
      [] p.state = "csi" /\ p.marker = "<" /\ b = "u" -> <<Pop("one")>>
      [] p.state = "csi" /\ p.marker = "=" /\ b = "u" -> <<SetFlags(p.params[1])>>
      [] p.state = "escape" /\ b = "c" -> <<Reset>>
      [] p.state = "oscTitle" /\ b \in {"bel", "can", "esc"} -> <<Title(p.params[1])>>
      [] OTHER -> <<>>

\* An update begins, ends, or has been open for too long
Longer(bytes) == IF bytes < SyncMax THEN bytes + 1 ELSE -1
Sync(ops, q) ==
    LET asked == SelectSeq(ops, LAMBDA op : op = Reset \/ (op.op = "mode" /\ op.n = "2026"))
    IN  [q EXCEPT !.sync =
           IF asked = <<>> THEN IF @ = -1 THEN -1 ELSE Longer(@)
           ELSE IF Last(asked) = Reset \/ ~Last(asked).set THEN -1 ELSE Longer(0)]

IsSafeFaulty(p) == p.state = "ground" /\ p.sync = -1   \* in the middle of a character
IsSafe(p) == p.state = "ground" /\ p.utf8 = 0 /\ p.sync = -1

(***************************************************************************)
(* The emulators, which the host does not know.  In one, setting a mouse   *)
(* mode clears the others and every spelling switches the screen; the      *)
(* other keeps a flag of each, knows one spelling and no keyboard stacks.  *)
(***************************************************************************)
Kinds == {"one", "many"}
Blank == [alt |-> FALSE, mouse |-> {}, paste |-> FALSE, title |-> "",
          kitty |-> [main |-> <<>>, alt |-> <<>>]]
Mouse(kind, on, op) ==
    IF kind = "many" THEN IF op.set THEN on \cup {op.n} ELSE on \ {op.n}
    ELSE IF op.set THEN {op.n} ELSE {}
Shown(kind, e, op) ==
    CASE op.op = "reset" -> Blank
      [] op.op = "title" -> [e EXCEPT !.title = op.n]
      [] op.op = "mode" /\ op.n = "2004" -> [e EXCEPT !.paste = op.set]
      [] op.op = "mode" /\ op.n \in ScreenModes ->
           IF kind = "one" \/ op.n = "1049" THEN [e EXCEPT !.alt = op.set] ELSE e
      [] op.op = "mode" /\ op.n \in MouseModes -> [e EXCEPT !.mouse = Mouse(kind, @, op)]
      [] op.op = "mode" -> e
      [] OTHER -> IF kind = "one" THEN [e EXCEPT !.kitty[Which(e.alt)] = Stacked(@, op)] ELSE e
AfterOps(kind, e, ops) == FoldLeft(LAMBDA s, op : Shown(kind, s, op), e, ops)

(***************************************************************************)
(* The program prints, and a chunk of it is fed.                           *)
(***************************************************************************)
Nothing == [bytes |-> <<>>, ops |-> <<>>, sync |-> "no"]
Between == printing.rest \in {<<>>, printing.piece.bytes}
Emit(piece) ==
    /\ feed.open /\ printing.rest = <<>> /\ pieces < MaxPieces
    /\ pieces' = pieces + 1
    /\ printing' = [printing EXCEPT !.rest = piece.bytes, !.piece = piece]
    /\ UNCHANGED <<parser, modes, shared, feed, point, emulators, mark>>

FeedBegins ==
    /\ ~feed.open
    /\ feed' = [open |-> TRUE, held |-> {}, wanted |-> FALSE]
    /\ point' = {} /\ mark' = {}
    /\ UNCHANGED <<parser, modes, shared, printing, emulators, pieces>>

Snapshot == IF shared.dirty THEN modes ELSE shared.modes
\* changing: the modes of the safe point are kept while they are current
Held(changes) == IF changes /\ feed.wanted THEN {Snapshot} ELSE feed.held
Handed(changes) ==
    IF changes THEN [modes |-> IF feed.wanted THEN Snapshot ELSE shared.modes, dirty |-> TRUE]
    ELSE shared

Emulated == [k \in Kinds |-> AfterOps(k, emulators[k], printing.piece.ops)]
Read ==
    LET b == Head(printing.rest)
        ops == Does(parser, b)
        next == Sync(ops, Step(parser, b))
        new == FoldLeft(Switched, modes, ops)
        over == Tail(printing.rest) = <<>>
    IN
    /\ feed.open /\ printing.rest # <<>>
    /\ parser' = next /\ modes' = new
    /\ feed' = IF IsSafe(next) THEN [open |-> TRUE, held |-> {}, wanted |-> TRUE]
               ELSE [open |-> TRUE, held |-> Held(new # modes),
                     wanted |-> feed.wanted /\ new = modes]
    /\ shared' = Handed(new # modes)
    /\ emulators' = IF over THEN Emulated ELSE emulators
    /\ printing' = [rest |-> Tail(printing.rest), piece |-> IF over THEN Nothing ELSE printing.piece,
                    update |-> IF over /\ printing.piece.sync # "no"
                                 THEN IF printing.piece.sync = "begins" THEN Longer(0) ELSE -1
                              ELSE IF printing.update = -1 THEN -1 ELSE Longer(printing.update)]
    /\ mark' = IF IsSafe(next) THEN {emulators'} ELSE mark
    /\ UNCHANGED <<point, pieces>>

FeedEnds ==
    /\ feed.open
    /\ point' = IF mark = {} THEN {} ELSE IF feed.held # {} THEN feed.held ELSE {Snapshot}
    /\ shared' = IF mark # {} /\ feed.held = {} THEN [modes |-> Snapshot, dirty |-> FALSE] ELSE shared
    /\ feed' = [feed EXCEPT !.open = FALSE, !.held = {}, !.wanted = FALSE]
    /\ UNCHANGED <<parser, modes, printing, emulators, mark, pieces>>

ScanInit ==
    /\ parser = Idle /\ modes = AtStart /\ shared = [modes |-> AtStart, dirty |-> FALSE]
    /\ feed = [open |-> FALSE, held |-> {}, wanted |-> FALSE] /\ point = {}
    /\ printing = [rest |-> <<>>, piece |-> Nothing, update |-> -1]
    /\ emulators = [k \in Kinds |-> Blank] /\ mark = {} /\ pieces = 0
ScanNext == FeedBegins \/ Read \/ FeedEnds \/ \E piece \in Pieces : Emit(piece)
ScanSpec == ScanInit /\ [][ScanNext]_scanVars

(***************************************************************************)
(* What must hold of the places to cut, and of the modes kept for them.    *)
(***************************************************************************)
\* The stream may be cut between two pieces that the program prints, outside
\* an update that is not given up yet, and nowhere else: neither inside a
\* sequence, a string, a broken sequence or a character, nor so seldom that
\* a long log has no place left (Scanner::is_safe).
CutExact == IsSafe(parser) <=> Between /\ printing.update = -1

\* Whatever an emulator lost, the preamble made from the safe point of a feed
\* puts it where an emulator is that read all output up to that point, not up
\* to the end of the feed: in either kind of emulator, although the scanner
\* knows neither (Modes::preamble, Ops).  Except for a title the program no
\* longer has, which the preamble cannot take back.
Same(e, f, m) == IF m.title = "" THEN [e EXCEPT !.title = ""] = [f EXCEPT !.title = ""] ELSE e = f
CutRestores ==
    \A m \in point : \A read \in mark : \A k \in Kinds : \A lost \in Lost[k] :
        Same(AfterOps(k, lost, Preamble(m)), read[k], m)

\* A log is cut where it may be and restored from there (CutExact, CutRestores).
CutClean == CutExact /\ CutRestores
=============================================================================
