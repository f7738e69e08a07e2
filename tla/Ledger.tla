-------------------------------- MODULE Ledger --------------------------------
(***************************************************************************)
(* The ledger service: one consumer task per partition of wallet.events     *)
(* (run_wallet_event_partition in apps/ledger/src/redpanda.rs) and the      *)
(* transaction record_wallet_event of apps/ledger/src/repository.rs, which  *)
(* writes the journal row, its entries and the consumed offset together.    *)
(*                                                                          *)
(* A record of the topic is a message.  LogicalId[m] is the event_id of its *)
(* payload; NoId for an event of before the outbox, which has none.  A      *)
(* message in Undecodable has no payload or one that is not a WalletEvent.  *)
(***************************************************************************)
EXTENDS Integers, Sequences

CONSTANTS Message, Partition, LogicalId, NoId, Undecodable, Instance,
          MaxStops   \* bound: ends of a ledger process

ASSUME LedgerAssumption ==
  /\ DOMAIN LogicalId = Message
  /\ Undecodable \subseteq Message
  /\ MaxStops \in Nat

VARIABLES
  topic,     \* partition -> messages
  journal,   \* ledger_events, with the entries of ledger_entries
  offsets,   \* ledger_offsets: partition -> next offset to read
  at,        \* <<instance, partition>> -> the offset the task is at, 0 when down
  stops

ledgerVars == <<journal, offsets, at, stops>>

Task == Instance \X Partition

JournalRow(p, n, m) == [partition |-> p, offset |-> n, message |-> m]

LedgerInit ==
  /\ journal = {}
  /\ offsets = [p \in Partition |-> 1]
  /\ at = [t \in Task |-> 1]
  /\ stops = 0

HasRecord(t) == at[t] \in DOMAIN topic[t[2]]
Record(t) == topic[t[2]][at[t]]

\* Mutant: only the stream position is unique.
ConflictsPositionMutant(p, n, m) ==
  \E row \in journal : row.partition = p /\ row.offset = n

\* ON CONFLICT DO NOTHING on (topic, partition, offset_value) and on the
\* logical event id, which is unique where it is not null.
Conflicts(p, n, m) ==
  \E row \in journal :
    \/ row.partition = p /\ row.offset = n
    \/ LogicalId[m] # NoId /\ LogicalId[row.message] = LogicalId[m]

\* save_queue_offset_in_tx: the stored offset only advances.
SaveQueueOffset(p, n) ==
  offsets' = [offsets EXCEPT ![p] = IF @ < n THEN n ELSE @]

Advance(t) ==
  /\ SaveQueueOffset(t[2], at[t] + 1)
  /\ at' = [at EXCEPT ![t] = @ + 1]
  /\ UNCHANGED <<topic, stops>>

\* Mutant: the offset is saved by a transaction of its own, before the row, so
\* that an event is lost when the process ends in between.
RecordLateMutant(t) ==
  /\ HasRecord(t) /\ Record(t) \notin Undecodable
  /\ \/ journal' = IF Conflicts(t[2], at[t], Record(t)) THEN journal
                   ELSE journal \cup {JournalRow(t[2], at[t], Record(t))}
     \/ UNCHANGED journal
  /\ Advance(t)

\* record_wallet_event.
RecordWalletEvent(t) ==
  /\ HasRecord(t) /\ Record(t) \notin Undecodable
  /\ journal' = IF Conflicts(t[2], at[t], Record(t)) THEN journal
                ELSE journal \cup {JournalRow(t[2], at[t], Record(t))}
  /\ Advance(t)

\* A record that cannot be decoded is skipped.
SkipRecord(t) ==
  /\ HasRecord(t) /\ Record(t) \in Undecodable
  /\ Advance(t)
  /\ UNCHANGED journal

\* A process ends with all its tasks and starts again at the stored offsets.
StopLedger(i) ==
  /\ \A p \in Partition : at[<<i, p>>] # 0
  /\ stops < MaxStops
  /\ stops' = stops + 1
  /\ at' = [t \in Task |-> IF t[1] = i THEN 0 ELSE at[t]]
  /\ UNCHANGED <<topic, journal, offsets>>

StartLedger(i) ==
  /\ \A p \in Partition : at[<<i, p>>] = 0
  /\ at' = [t \in Task |-> IF t[1] = i THEN offsets[t[2]] ELSE at[t]]
  /\ UNCHANGED <<topic, journal, offsets, stops>>

\* fetch_records returns nothing: sleep and ask again.
Idle(t) ==
  /\ at[t] # 0 /\ ~HasRecord(t)
  /\ UNCHANGED <<topic, ledgerVars>>

LedgerStep(t) == RecordWalletEvent(t) \/ SkipRecord(t)

LedgerNext ==
  \/ \E t \in Task : LedgerStep(t) \/ Idle(t)
  \/ \E i \in Instance : StopLedger(i) \/ StartLedger(i)
=============================================================================
