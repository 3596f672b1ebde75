----------------------------- MODULE MCNetwork ------------------------------
(***************************************************************************)
(* Small instances of Network for TLC.                                     *)
(***************************************************************************)
EXTENDS Network

CONSTANTS n1, n2, k1, k2, alive, dead, unknown
=============================================================================
