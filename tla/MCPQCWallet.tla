----------------------------- MODULE MCPQCWallet -----------------------------
(***************************************************************************)
(* One key: counters of different keys do not meet.  Without symmetry,     *)
(* because a liveness property is checked.                                 *)
(***************************************************************************)
EXTENDS PQCWallet, TLC
=============================================================================
