------------------------------- MODULE MCLedger -------------------------------
(***************************************************************************)
(* Small instances of the ledger for TLC.                                   *)
(***************************************************************************)
EXTENDS LedgerProperties, TLC

CONSTANTS e1, e2, old, junk, p1, p2, i1, i2

\* Two events of the outbox, one without an event id, one that is no event.
Ids == e1 :> e1 @@ e2 :> e2 @@ old :> NoId @@ junk :> NoId
=============================================================================
