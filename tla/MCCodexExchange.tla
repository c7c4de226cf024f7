-------------------------- MODULE MCCodexExchange --------------------------
(***************************************************************************)
(* Three threads, two of them with a canonical id and one of those not     *)
(* flushed yet, in every order and under every name, asked for by name or  *)
(* one by one.                                                             *)
(***************************************************************************)
EXTENDS CodexExchange

CONSTANTS t1, t2, t3, n, o
=============================================================================
