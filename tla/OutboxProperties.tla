--------------------------- MODULE OutboxProperties ---------------------------
(***************************************************************************)
(* What the outbox and its relay promise.                                   *)
(***************************************************************************)
EXTENDS OutboxRelay

(***************************************************************************)
(* The outbox table, the topic and the relay's loop are of their types.     *)
(***************************************************************************)
RelayTypeOK ==
  /\ status \in [Row -> Status]
  /\ due \in [Row -> BOOLEAN]
  /\ stale \in [Row -> BOOLEAN]
  /\ topic \in [Partition -> Seq(Row)]
  /\ phase \in [Relay -> Phase]
  /\ batch \in [Relay -> SUBSET Row]
  /\ sending \in [Relay -> Row]
  /\ failures \in Nat /\ crashes \in Nat

OnTopic(id) == \E p \in Partition : \E n \in DOMAIN topic[p] : topic[p][n] = id

(***************************************************************************)
(* The relay's claim is exclusive: as long as the loop has a row to deal    *)
(* with, the row is PROCESSING, and when the broker has taken the row at    *)
(* hand the row is on its topic.  It is what keeps the unguarded            *)
(* mark_outbox_published and mark_outbox_pending from undoing each other,   *)
(* and it needs the process to have one relay.                              *)
(***************************************************************************)
ClaimsHold ==
  \A r \in Relay :
    /\ \A id \in batch[r] : status[id] = "PROCESSING"
    /\ phase[r] \in {"published", "failed"} => sending[r] \in batch[r]
    /\ phase[r] = "published" => OnTopic(sending[r])
    /\ phase[r] \in {"requeue", "claim", "down"} => batch[r] = {}

(***************************************************************************)
(* The outbox with one relay delivers at least once: a row is on its topic  *)
(* before it is marked PUBLISHED and is never published again after that,   *)
(* through failed publish calls, crashes between publish_message and        *)
(* mark_outbox_published, and the requeueing of stale rows.                 *)
(***************************************************************************)
Abstract == INSTANCE AtLeastOnce
              WITH Message <- Row, sent <- Enqueued, acked <- Published

Delivery == Abstract!Delivery

(***************************************************************************)
(* A row is on its topic at most once, and once more for every crash and    *)
(* every failed publish call: requeueing stale rows alone never makes a     *)
(* single relay publish a row twice.                                        *)
(***************************************************************************)
Copies(id) ==
  UNION { {p} \X {n \in DOMAIN topic[p] : topic[p][n] = id} : p \in Partition }

FewCopies == \A id \in Row : Cardinality(Copies(id)) <= 1 + crashes + failures
=============================================================================
