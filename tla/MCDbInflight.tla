---------------------------- MODULE MCDbInflight ----------------------------
(* DbInflight for TLC: commands on one database name. *)
EXTENDS DbInflight
=============================================================================
