----------------------------- MODULE OutboxRelay -----------------------------
(***************************************************************************)
(* The transactional outbox and its relay: wallet_outbox with the columns   *)
(* the relay uses, the statements of apps/wallet/src/repository.rs on them, *)
(* and the loop WalletOutboxRelay::run of apps/wallet/src/redpanda.rs.      *)
(*                                                                          *)
(* A row is its outbox_id.  The id is drawn before the enqueueing           *)
(* transaction commits, so rows appear in any order.  Time is abstracted to *)
(* two facts about a row that become true when time passes: a PENDING row   *)
(* is due (next_attempt_at <= NOW()), a PROCESSING row is stale (updated_at *)
(* is stale_after_seconds in the past).                                     *)
(*                                                                          *)
(* topic is the partitions of wallet.events and of engine.input; PartitionOf *)
(* is the partition that a row names or its message key hashes to.          *)
(***************************************************************************)
EXTENDS Integers, Sequences, FiniteSets

CONSTANTS
  Row,          \* outbox ids
  Partition, PartitionOf,
  Relay,        \* relay tasks, one per wallet process
  BatchLimit,
  MaxFailures,  \* bound: publish calls that return an error
  MaxCrashes    \* bound: ends of a wallet process

ASSUME RowAssumption ==
  /\ Row \subseteq Nat
  /\ PartitionOf \in [Row -> Partition]
  /\ BatchLimit \in Nat \ {0}
  /\ MaxFailures \in Nat /\ MaxCrashes \in Nat

VARIABLES
  status,    \* row -> its status, "NONE" before its transaction commits
  due,       \* row -> next_attempt_at has passed
  stale,     \* row -> updated_at is old enough to requeue the row
  topic,     \* partition -> the rows published to it
  phase,     \* relay -> where its loop is, or "down"
  batch,     \* relay -> claimed rows it has not dealt with
  sending,   \* relay -> the row whose publish call returned last
  failures, crashes

outboxTable == <<status, due, stale>>
relay == <<phase, batch, sending>>
relayVars == <<outboxTable, topic, relay, failures, crashes>>

Status == {"NONE", "PENDING", "PROCESSING", "PUBLISHED"}
Phase == {"requeue", "claim", "publish", "published", "failed", "down"}

Enqueued == {id \in Row : status[id] # "NONE"}
Published == {id \in Row : status[id] = "PUBLISHED"}
NoRow == CHOOSE id \in Row : TRUE

RelayInit ==
  /\ status = [id \in Row |-> "NONE"]
  /\ due = [id \in Row |-> TRUE]
  /\ stale = [id \in Row |-> FALSE]
  /\ topic = [p \in Partition |-> <<>>]
  /\ phase = [r \in Relay |-> "requeue"]
  /\ batch = [r \in Relay |-> {}]
  /\ sending = [r \in Relay |-> NoRow]
  /\ failures = 0
  /\ crashes = 0

\* A wallet transaction, or tools/engine-ingress, commits a new row.
EnqueueRow(id) ==
  /\ status[id] = "NONE"
  /\ status' = [status EXCEPT ![id] = "PENDING"]
  /\ UNCHANGED <<due, stale, topic, relay, failures, crashes>>

\* Time passes.
BecomeDue(id) ==
  /\ status[id] = "PENDING" /\ ~due[id]
  /\ due' = [due EXCEPT ![id] = TRUE]
  /\ UNCHANGED <<status, stale, topic, relay, failures, crashes>>

BecomeStale(id) ==
  /\ status[id] = "PROCESSING" /\ ~stale[id]
  /\ stale' = [stale EXCEPT ![id] = TRUE]
  /\ UNCHANGED <<status, due, topic, relay, failures, crashes>>

-----------------------------------------------------------------------------
(***************************************************************************)
(* The relay's loop.                                                        *)
(***************************************************************************)
\* Mutant: rows left in PROCESSING by a crash are never requeued.
RequeueableMutant(id) == FALSE

Requeueable(id) == status[id] = "PROCESSING" /\ stale[id]

RequeueStale(r) ==
  /\ phase[r] = "requeue"
  /\ status' = [id \in Row |-> IF Requeueable(id) THEN "PENDING" ELSE status[id]]
  /\ due' = [id \in Row |-> Requeueable(id) \/ due[id]]
  /\ stale' = [id \in Row |-> stale[id] /\ ~Requeueable(id)]
  /\ phase' = [phase EXCEPT ![r] = "claim"]
  /\ UNCHANGED <<topic, batch, sending, failures, crashes>>

\* ORDER BY outbox_id LIMIT $1 of the PENDING rows that are due.
Claimable == {id \in Row : status[id] = "PENDING" /\ due[id]}

Claimed ==
  {id \in Claimable : Cardinality({x \in Claimable : x < id}) < BatchLimit}

\* An empty claim sleeps and starts the loop over.
Claim(r) ==
  /\ phase[r] = "claim"
  /\ status' = [id \in Row |-> IF id \in Claimed THEN "PROCESSING" ELSE status[id]]
  /\ batch' = [batch EXCEPT ![r] = Claimed]
  /\ phase' = [phase EXCEPT ![r] = IF Claimed = {} THEN "requeue" ELSE "publish"]
  /\ UNCHANGED <<due, stale, topic, sending, failures, crashes>>

Write(id) == topic' = [topic EXCEPT ![PartitionOf[id]] = Append(@, id)]

\* The claiming UPDATE ... RETURNING gives its rows in no particular order.
Publish(r) ==
  /\ phase[r] = "publish"
  /\ \E id \in batch[r] :
       /\ Write(id)
       /\ sending' = [sending EXCEPT ![r] = id]
  /\ phase' = [phase EXCEPT ![r] = "published"]
  /\ UNCHANGED <<outboxTable, batch, failures, crashes>>

\* The publish call returns an error; the broker may have taken the record.
PublishFails(r) ==
  /\ phase[r] = "publish"
  /\ failures < MaxFailures
  /\ failures' = failures + 1
  /\ \E id \in batch[r] :
       /\ Write(id) \/ UNCHANGED topic
       /\ sending' = [sending EXCEPT ![r] = id]
  /\ phase' = [phase EXCEPT ![r] = "failed"]
  /\ UNCHANGED <<outboxTable, batch, crashes>>

\* Mutant: the row stays in the batch.
DoneMutant(r) ==
  /\ phase' = [phase EXCEPT ![r] = "publish"]
  /\ UNCHANGED <<topic, batch, sending, failures, crashes>>

Done(r) ==
  /\ batch' = [batch EXCEPT ![r] = @ \ {sending[r]}]
  /\ phase' = [phase EXCEPT ![r] = IF batch[r] = {sending[r]} THEN "requeue" ELSE "publish"]
  /\ UNCHANGED <<topic, sending, failures, crashes>>

\* Mutant of MarkPublished: the row is left to be requeued.
MarkPublishedMutant(r) ==
  /\ phase[r] = "published"
  /\ Done(r)
  /\ UNCHANGED outboxTable

\* mark_outbox_published: whatever the status of the row is by now.
MarkPublished(r) ==
  /\ phase[r] = "published"
  /\ status' = [status EXCEPT ![sending[r]] = "PUBLISHED"]
  /\ stale' = [stale EXCEPT ![sending[r]] = FALSE]
  /\ Done(r)
  /\ UNCHANGED due

\* Mutant of MarkPending: a row whose publish failed counts as published.
MarkPendingMutant(r) ==
  /\ phase[r] = "failed"
  /\ status' = [status EXCEPT ![sending[r]] = "PUBLISHED"]
  /\ stale' = [stale EXCEPT ![sending[r]] = FALSE]
  /\ Done(r)
  /\ UNCHANGED due

\* mark_outbox_pending: due again after five seconds.
MarkPending(r) ==
  /\ phase[r] = "failed"
  /\ status' = [status EXCEPT ![sending[r]] = "PENDING"]
  /\ due' = [due EXCEPT ![sending[r]] = FALSE]
  /\ stale' = [stale EXCEPT ![sending[r]] = FALSE]
  /\ Done(r)

\* The wallet process ends, by itself or by an error of any of its tasks, and
\* is started again.
CrashRelay(r) ==
  /\ phase[r] # "down"
  /\ crashes < MaxCrashes
  /\ crashes' = crashes + 1
  /\ phase' = [phase EXCEPT ![r] = "down"]
  /\ batch' = [batch EXCEPT ![r] = {}]
  /\ UNCHANGED <<outboxTable, topic, sending, failures>>

RestartRelay(r) ==
  /\ phase[r] = "down"
  /\ phase' = [phase EXCEPT ![r] = "requeue"]
  /\ UNCHANGED <<outboxTable, topic, batch, sending, failures, crashes>>

RelayStep(r) ==
  \/ RequeueStale(r) \/ Claim(r) \/ Publish(r) \/ PublishFails(r)
  \/ MarkPublished(r) \/ MarkPending(r) \/ RestartRelay(r)

RelayNext ==
  \/ \E id \in Row : EnqueueRow(id) \/ BecomeDue(id) \/ BecomeStale(id)
  \/ \E r \in Relay : RelayStep(r) \/ CrashRelay(r)

RelaySpec == RelayInit /\ [][RelayNext]_relayVars

(***************************************************************************)
(* The loop keeps going, a wallet process that ended is started again, and  *)
(* time passes.                                                             *)
(***************************************************************************)
RelayFairness ==
  /\ \A id \in Row : WF_relayVars(BecomeDue(id)) /\ WF_relayVars(BecomeStale(id))
  /\ \A r \in Relay : WF_relayVars(RelayStep(r))
=============================================================================
