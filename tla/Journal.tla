------------------------------- MODULE Journal -------------------------------
(***************************************************************************)
(* What accounting asks of the wallet's outbox, its relay, the topic and    *)
(* the ledger together: every event that a wallet transaction commits is in *)
(* the journal once.                                                        *)
(***************************************************************************)
EXTENDS Naturals

CONSTANTS Event

VARIABLES committed, copies

vars == <<committed, copies>>

Init == committed = {} /\ copies = [e \in Event |-> 0]

Commit(e) ==
  /\ e \notin committed
  /\ committed' = committed \cup {e}
  /\ UNCHANGED copies

Record(e) ==
  /\ e \in committed
  /\ copies[e] = 0
  /\ copies' = [copies EXCEPT ![e] = 1]
  /\ UNCHANGED committed

Next == \E e \in Event : Commit(e) \/ Record(e)

ExactlyOnce == Init /\ [][Next]_vars
=============================================================================
