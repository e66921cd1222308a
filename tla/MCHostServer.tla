----------------------------- MODULE MCHostServer -----------------------------
(***************************************************************************)
(* HostServer for TLC: its properties.                                     *)
(***************************************************************************)
EXTENDS HostServerProperties
===============================================================================
