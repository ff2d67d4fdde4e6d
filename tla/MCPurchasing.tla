---------------------------- MODULE MCPurchasing ----------------------------
(***************************************************************************)
(* A small instance of Purchasing for TLC: one clerk and others, two       *)
(* lines, one of which may come in two parts.                              *)
(***************************************************************************)
EXTENDS Purchasing, TLC

CONSTANTS l1, l2

MCOrdered == (l1 :> 2) @@ (l2 :> 1)
=============================================================================
