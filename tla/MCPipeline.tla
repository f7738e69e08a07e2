------------------------------ MODULE MCPipeline ------------------------------
(***************************************************************************)
(* Small instances of the outbox, its relay and the ledger for TLC.         *)
(***************************************************************************)
EXTENDS EventPipeline, TLC

CONSTANTS p1, p2, r1, l1, l2

ThreeRows == 1 :> p1 @@ 2 :> p2 @@ 3 :> p1
=============================================================================
