---------------------------- MODULE EventPipeline ----------------------------
(***************************************************************************)
(* From a wallet transaction to the journal: wallet_outbox, its relay, the  *)
(* topic wallet.events and the ledger.  The components share the topic, and *)
(* each keeps its own crashes.                                              *)
(***************************************************************************)
EXTENDS OutboxProperties

CONSTANTS LedgerInstance, NoId, MaxStops

\* Every event of the outbox carries an id.
ASSUME PipelineAssumption == NoId \notin Row /\ MaxStops \in Nat

VARIABLES journal, offsets, at, stops

Ledger == INSTANCE Ledger
  WITH Message <- Row, LogicalId <- [id \in Row |-> id], Undecodable <- {},
       Instance <- LedgerInstance

ledger == <<journal, offsets, at, stops>>
pipelineVars == <<relayVars, ledger>>

Init == RelayInit /\ Ledger!LedgerInit

Next ==
  \/ RelayNext /\ UNCHANGED ledger
  \/ /\ Ledger!LedgerNext
     /\ UNCHANGED <<status, due, stale, phase, batch, sending, failures, crashes>>

Spec == Init /\ [][Next]_pipelineVars

(***************************************************************************)
(* The tasks of the ledger keep running and a ledger that ended is started  *)
(* again, as for the relay.                                                 *)
(***************************************************************************)
FairSpec ==
  /\ Spec /\ RelayFairness
  /\ \A t \in Ledger!Task : WF_<<topic, journal, offsets, at, stops>>(Ledger!LedgerStep(t))
  /\ \A i \in LedgerInstance : WF_<<topic, journal, offsets, at, stops>>(Ledger!StartLedger(i))

-----------------------------------------------------------------------------
JournalCopies(id) == Cardinality({row \in journal : row.message = id})

(***************************************************************************)
(* The journal holds every committed event at most once, although the relay *)
(* may publish it several times and either process may crash anywhere.      *)
(***************************************************************************)
Accounting == INSTANCE Journal
  WITH Event <- Row, committed <- Enqueued, copies <- [id \in Row |-> JournalCopies(id)]

ExactlyOnce == Accounting!ExactlyOnce

(***************************************************************************)
(* Every committed event is in the journal in the end.                      *)
(***************************************************************************)
EveryEventJournaled ==
  \A id \in Row : id \in Enqueued ~> JournalCopies(id) = 1
=============================================================================
