--------------------------- MODULE LedgerProperties ---------------------------
(***************************************************************************)
(* The ledger by itself, behind a topic that may hold anything: repeated,   *)
(* undecodable and id-less records, on any partition.                       *)
(***************************************************************************)
EXTENDS Ledger, FiniteSets

CONSTANT MaxRecords   \* bound: records of a partition

Deliver(p, m) ==
  /\ Len(topic[p]) < MaxRecords
  /\ topic' = [topic EXCEPT ![p] = Append(@, m)]
  /\ UNCHANGED ledgerVars

Init == LedgerInit /\ topic = [p \in Partition |-> <<>>]

Next == LedgerNext \/ \E p \in Partition, m \in Message : Deliver(p, m)

Spec == Init /\ [][Next]_<<topic, ledgerVars>>

-----------------------------------------------------------------------------
(***************************************************************************)
(* The journal, the stored offsets and the tasks are of their types.        *)
(***************************************************************************)
LedgerTypeOK ==
  /\ topic \in [Partition -> Seq(Message)]
  /\ journal \subseteq [partition: Partition, offset: Nat \ {0}, message: Message]
  /\ offsets \in [Partition -> Nat \ {0}]
  /\ at \in [Task -> Nat]
  /\ stops \in Nat

(***************************************************************************)
(* No stream record and no logical event is journaled twice, whichever      *)
(* instance and partition it comes through and however often it was         *)
(* published.                                                               *)
(***************************************************************************)
NoDoubleEntry ==
  \A x, y \in journal :
    \/ x.partition = y.partition /\ x.offset = y.offset
    \/ LogicalId[x.message] # NoId /\ LogicalId[x.message] = LogicalId[y.message]
    => x = y

(***************************************************************************)
(* A journal row is what the topic holds at the row's position.             *)
(***************************************************************************)
JournalMatchesTopic ==
  \A row \in journal :
    /\ row.offset \in DOMAIN topic[row.partition]
    /\ topic[row.partition][row.offset] = row.message

(***************************************************************************)
(* Nothing is lost: whatever lies below a stored offset is in the journal,  *)
(* at its own position or, for a repeated logical event, at another.        *)
(***************************************************************************)
Journaled(p, n) ==
  LET m == topic[p][n]
  IN \/ m \in Undecodable
     \/ \E row \in journal :
          \/ row = JournalRow(p, n, m)
          \/ LogicalId[m] # NoId /\ LogicalId[row.message] = LogicalId[m]

NothingSkipped ==
  \A p \in Partition : \A n \in 1 .. (offsets[p] - 1) :
    n \in DOMAIN topic[p] /\ Journaled(p, n)
=============================================================================
