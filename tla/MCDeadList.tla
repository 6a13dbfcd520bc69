----------------------------- MODULE MCDeadList -----------------------------
(***************************************************************************)
(* An instance of DeadList for TLC.                                        *)
(***************************************************************************)
EXTENDS DeadList

CONSTANTS q, w1, t1, b
=============================================================================
