----------------------------- MODULE MCHostStream -----------------------------
(***************************************************************************)
(* HostStream for TLC: a program that changes a mode, ends an escape       *)
(* sequence and starts one.                                                *)
(***************************************************************************)
EXTENDS HostStreamProperties

MCBytes == {[safe |-> TRUE, modes |-> "m1"], [safe |-> FALSE, modes |-> "m0"]}
=============================================================================
