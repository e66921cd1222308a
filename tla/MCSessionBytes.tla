---------------------------- MODULE MCSessionBytes ----------------------------
(***************************************************************************)
(* Scanner, SessionInput and SessionState for TLC: what goes out of a      *)
(* session, into it and is known of it.  They share no variable: a         *)
(* behaviour takes the steps of one of them, and the other two stay where  *)
(* they start.                                                             *)
(***************************************************************************)
EXTENDS Scanner, SessionInputProperties, SessionStateProperties

Piece(bytes, ops) == [bytes |-> bytes, ops |-> ops, sync |-> "no"]
Update(b, sync) == [bytes |-> <<"esc", "[", "?", "2026", b>>, ops |-> <<>>, sync |-> sync]
Switch(n, b) == Piece(<<"esc", "[", "?", n, b>>, <<Mode(n, b = "h")>>)
MCScreen == {"47", "1049"}
MCMouse == {"1000", "1002"}
MCPieces ==
    {Update("h", "begins"), Update("l", "ends"), Switch("2004", "h")}
    \cup {Switch(n, b) : n \in MCScreen \cup MCMouse, b \in {"h", "l"}}
    \cup {Piece(<<"lead3", "cont", "cont">>, <<>>),
          Piece(<<"lead2", "esc", "[", "?", "1000", ";", "1049", "l">>, <<Mode("1000", FALSE), Mode("1049", FALSE)>>),
          Piece(<<"esc", "[", ">", "5", "u">>, <<Push("5")>>),
          Piece(<<"esc", "[", "=", "2", "u">>, <<SetFlags("2")>>),
          Piece(<<"esc", "[", "<", "u">>, <<Pop("one")>>),
          Piece(<<"esc", "]", "2", ";", "x", "bel">>, <<Title("x")>>),
          Piece(<<"esc", "]", "2", ";", "h", "esc", "\\">>, <<Title("h")>>),
          Piece(<<"esc", "]", "5", ";", "x", "bel">>, <<>>),
          Piece(<<"esc", "P", "x", "bel", "[", "esc", "\\">>, <<>>),
          Piece(<<"esc", "[", "?", "1049", "can">>, <<>>),
          [Piece(<<"esc", "[", "?", "esc", "c">>, <<Reset>>) EXCEPT !.sync = "ends"],
          Piece(<<"esc", "[", "5", "?", "1049", "h">>, <<>>),
          Piece(<<"esc", "[", "5", " ", "x">>, <<>>),
          Piece(<<"esc", " ", "x">>, <<>>)}
LostOne == [alt |-> TRUE, mouse |-> {"1002"}, paste |-> TRUE, title |-> "c",
            kitty |-> [main |-> <<"2">>, alt |-> <<"5", "2">>]]
MCLost == [one |-> {Blank, LostOne, [LostOne EXCEPT !.alt = FALSE]},
           many |-> {Blank, [LostOne EXCEPT !.mouse = MCMouse, !.kitty = Blank.kitty]}]
MCSenders == {"first", "second", "window"}
MCKind == [s \in MCSenders |-> CASE s = "first" -> "line" [] s = "second" -> "keys" [] OTHER -> "raw"]
MCRails == {[runs |-> 1, status |-> "idle"]}

VARIABLE part
MCInit ==
    /\ part \in {"scanner", "input", "state"}
    /\ ScanInit /\ InputInit /\ StateInit
    /\ part # "input" => ~helper /\ ~pastes
MCNext ==
    /\ UNCHANGED part
    /\ \/ part = "scanner" /\ ScanNext /\ UNCHANGED <<inputVars, stateVars>>
       \/ part = "input" /\ InputNext /\ UNCHANGED <<scanVars, stateVars>>
       \/ part = "state" /\ StateNext /\ UNCHANGED <<scanVars, inputVars>>
MCSpec ==
    MCInit /\ [][MCNext]_<<scanVars, inputVars, stateVars, part>> /\ InputFairness
=============================================================================
