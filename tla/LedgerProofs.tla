---------------------------- MODULE LedgerProofs ----------------------------
(***************************************************************************)
(* The ledger journals what is published, once, for any number of messages, *)
(* partitions, instances and restarts.                                      *)
(***************************************************************************)
EXTENDS LedgerProperties, TLAPS

(***************************************************************************)
(* No task is ahead of the stored offset of its partition: an offset is     *)
(* saved by the transaction that a task advances with.                      *)
(***************************************************************************)
TasksBehindOffsets == \A t \in Task : at[t] <= offsets[t[2]]

LedgerInv ==
  /\ LedgerTypeOK /\ TasksBehindOffsets /\ JournalMatchesTopic
  /\ NoDoubleEntry /\ NothingSkipped

all == <<topic, ledgerVars>>

(***************************************************************************)
(* What the step of a task from the record at hand to the next one does to  *)
(* offsets and tasks.                                                       *)
(***************************************************************************)
LEMMA AdvanceLemma ==
  ASSUME LedgerTypeOK, TasksBehindOffsets, NEW t \in Task, HasRecord(t), Advance(t)
  PROVE  /\ t[2] \in Partition /\ at[t] \in 1 .. Len(topic[t[2]])
         /\ Record(t) \in Message
         /\ topic' = topic /\ stops' \in Nat
         /\ offsets' \in [Partition -> Nat \ {0}]
         /\ at' \in [Task -> Nat]
         /\ TasksBehindOffsets'
         /\ \A p \in Partition : \A n \in 1 .. (offsets'[p] - 1) :
              n \in 1 .. (offsets[p] - 1) \/ (p = t[2] /\ n = at[t])
  <1>1. t[2] \in Partition /\ t = <<t[1], t[2]>> /\ t[1] \in Instance
    BY DEF Task
  <1>2. topic[t[2]] \in Seq(Message) /\ at[t] \in Nat /\ offsets[t[2]] \in Nat \ {0}
    BY <1>1 DEF LedgerTypeOK
  <1>3. at[t] \in 1 .. Len(topic[t[2]]) /\ Record(t) \in Message
    BY <1>2 DEF HasRecord, Record
  <1>4. topic' = topic /\ stops' \in Nat
    BY DEF Advance, LedgerTypeOK
  <1>5. /\ at' = [at EXCEPT ![t] = @ + 1]
        /\ offsets' = [offsets EXCEPT ![t[2]] = IF @ < at[t] + 1 THEN at[t] + 1 ELSE @]
    BY DEF Advance, SaveQueueOffset
  <1>6. offsets' \in [Partition -> Nat \ {0}] /\ at' \in [Task -> Nat]
    BY <1>1, <1>2, <1>5 DEF LedgerTypeOK
  <1>7. TasksBehindOffsets'
    <2> SUFFICES ASSUME NEW u \in Task PROVE at'[u] <= offsets'[u[2]]
      BY DEF TasksBehindOffsets
    <2>1. u[2] \in Partition /\ at[u] \in Nat /\ offsets[u[2]] \in Nat \ {0}
          /\ at[u] <= offsets[u[2]]
      BY DEF Task, LedgerTypeOK, TasksBehindOffsets
    <2> QED BY <1>1, <1>2, <1>5, <2>1 DEF LedgerTypeOK
  <1>8. \A p \in Partition : \A n \in 1 .. (offsets'[p] - 1) :
          n \in 1 .. (offsets[p] - 1) \/ (p = t[2] /\ n = at[t])
    <2> SUFFICES ASSUME NEW p \in Partition, NEW n \in 1 .. (offsets'[p] - 1)
                 PROVE  n \in 1 .. (offsets[p] - 1) \/ (p = t[2] /\ n = at[t])
      OBVIOUS
    <2>1. at[t] <= offsets[t[2]]
      BY DEF TasksBehindOffsets
    <2>2. offsets[p] \in Nat \ {0}
      BY DEF LedgerTypeOK
    <2> QED BY <1>1, <1>2, <1>5, <2>1, <2>2 DEF LedgerTypeOK
  <1> QED BY <1>1, <1>3, <1>4, <1>6, <1>7, <1>8

(***************************************************************************)
(* A journal that only grows keeps what it has journaled.                   *)
(***************************************************************************)
LEMMA JournaledStays ==
  ASSUME NEW p \in Partition, NEW n \in DOMAIN topic[p], Journaled(p, n),
         topic'[p][n] = topic[p][n], journal \subseteq journal'
  PROVE  Journaled(p, n)'
  BY DEF Journaled, JournalRow

(***************************************************************************)
(* The initial state satisfies the inductive invariant.                     *)
(***************************************************************************)
LEMMA LedgerInitInv == Init => LedgerInv
  <1> SUFFICES ASSUME Init PROVE LedgerInv
    OBVIOUS
  <1> USE DEF Init, LedgerInit
  <1>1. LedgerTypeOK
    BY DEF LedgerTypeOK
  <1>2. TasksBehindOffsets
    BY DEF TasksBehindOffsets, Task
  <1>3. JournalMatchesTopic /\ NoDoubleEntry /\ NothingSkipped
    BY DEF JournalMatchesTopic, NoDoubleEntry, NothingSkipped
  <1> QED BY <1>1, <1>2, <1>3 DEF LedgerInv

(***************************************************************************)
(* Every step of the ledger and of its topic preserves it.                  *)
(***************************************************************************)
LEMMA LedgerNextInv == LedgerInv /\ [Next]_all => LedgerInv'
  <1> SUFFICES ASSUME LedgerInv, [Next]_all PROVE LedgerInv'
    OBVIOUS
  <1> USE DEF LedgerInv
  <1>1. ASSUME NEW t \in Task, RecordWalletEvent(t) PROVE LedgerInv'
    <2>1. HasRecord(t) /\ Advance(t) /\ Record(t) \notin Undecodable
      BY <1>1 DEF RecordWalletEvent
    <2> DEFINE p == t[2]
               n == at[t]
               m == Record(t)
    <2>2. /\ p \in Partition /\ n \in 1 .. Len(topic[p]) /\ m \in Message
          /\ topic' = topic /\ stops' \in Nat
          /\ offsets' \in [Partition -> Nat \ {0}] /\ at' \in [Task -> Nat]
          /\ TasksBehindOffsets'
          /\ \A q \in Partition : \A k \in 1 .. (offsets'[q] - 1) :
               k \in 1 .. (offsets[q] - 1) \/ (q = p /\ k = n)
      BY <2>1, AdvanceLemma
    <2>3. topic[p] \in Seq(Message) /\ m = topic[p][n] /\ n \in Nat \ {0}
      BY <2>2 DEF LedgerTypeOK, Record
    <2>4. journal' = IF Conflicts(p, n, m) THEN journal
                     ELSE journal \cup {JournalRow(p, n, m)}
      BY <1>1 DEF RecordWalletEvent
    <2>5. LedgerTypeOK'
      BY <2>2, <2>3, <2>4 DEF LedgerTypeOK, JournalRow
    <2>6. NoDoubleEntry'
      BY <2>4 DEF NoDoubleEntry, Conflicts, JournalRow
    <2>8. JournalMatchesTopic'
      BY <2>2, <2>3, <2>4 DEF JournalMatchesTopic, JournalRow
    <2>7. NothingSkipped'
      <3> SUFFICES ASSUME NEW q \in Partition, NEW k \in 1 .. (offsets'[q] - 1)
                   PROVE  k \in DOMAIN topic'[q] /\ Journaled(q, k)'
        BY DEF NothingSkipped
      <3>1. CASE k \in 1 .. (offsets[q] - 1)
        BY <3>1, <2>2, <2>4, JournaledStays DEF NothingSkipped
      <3>2. CASE q = p /\ k = n
        <4>1. k \in DOMAIN topic[q]
          BY <3>2, <2>2, <2>3
        <4>2. CASE Conflicts(p, n, m)
          <5>1. PICK row \in journal :
                  \/ row.partition = p /\ row.offset = n
                  \/ LogicalId[m] # NoId /\ LogicalId[row.message] = LogicalId[m]
            BY <4>2 DEF Conflicts
          <5>2. row = JournalRow(row.partition, row.offset, row.message)
            BY DEF LedgerTypeOK, JournalRow
          <5>3. topic[row.partition][row.offset] = row.message
            BY DEF JournalMatchesTopic
          <5> QED BY <5>1, <5>2, <5>3, <4>1, <4>2, <3>2, <2>2, <2>3, <2>4 DEF Journaled
        <4>3. CASE ~Conflicts(p, n, m)
          BY <4>1, <4>3, <3>2, <2>2, <2>3, <2>4 DEF Journaled
        <4> QED BY <4>2, <4>3
      <3> QED BY <3>1, <3>2, <2>2
    <2> QED BY <2>2, <2>5, <2>6, <2>7, <2>8
  <1>2. ASSUME NEW t \in Task, SkipRecord(t) PROVE LedgerInv'
    <2>1. HasRecord(t) /\ Advance(t) /\ Record(t) \in Undecodable /\ journal' = journal
      BY <1>2 DEF SkipRecord
    <2>2. /\ t[2] \in Partition /\ at[t] \in 1 .. Len(topic[t[2]])
          /\ topic' = topic /\ stops' \in Nat
          /\ offsets' \in [Partition -> Nat \ {0}] /\ at' \in [Task -> Nat]
          /\ TasksBehindOffsets'
          /\ \A q \in Partition : \A k \in 1 .. (offsets'[q] - 1) :
               k \in 1 .. (offsets[q] - 1) \/ (q = t[2] /\ k = at[t])
      BY <2>1, AdvanceLemma
    <2>3. topic[t[2]] \in Seq(Message)
      BY <2>2 DEF LedgerTypeOK
    <2>4. LedgerTypeOK' /\ NoDoubleEntry' /\ JournalMatchesTopic'
      BY <2>1, <2>2 DEF LedgerTypeOK, NoDoubleEntry, JournalMatchesTopic
    <2>5. NothingSkipped'
      BY <2>1, <2>2, <2>3, JournaledStays DEF NothingSkipped, Journaled, Record
    <2> QED BY <2>2, <2>4, <2>5
  <1>3. ASSUME NEW i \in Instance, StopLedger(i) PROVE LedgerInv'
    <2>1. LedgerTypeOK'
      BY <1>3 DEF StopLedger, LedgerTypeOK
    <2>2. TasksBehindOffsets'
      BY <1>3 DEF StopLedger, LedgerTypeOK, TasksBehindOffsets, Task
    <2>3. NoDoubleEntry' /\ NothingSkipped' /\ JournalMatchesTopic'
      BY <1>3 DEF StopLedger, NoDoubleEntry, NothingSkipped, Journaled, JournalRow,
                  JournalMatchesTopic
    <2> QED BY <2>1, <2>2, <2>3
  <1>4. ASSUME NEW i \in Instance, StartLedger(i) PROVE LedgerInv'
    <2>1. LedgerTypeOK'
      BY <1>4 DEF StartLedger, LedgerTypeOK, Task
    <2>2. TasksBehindOffsets'
      BY <1>4 DEF StartLedger, LedgerTypeOK, TasksBehindOffsets, Task
    <2>3. NoDoubleEntry' /\ NothingSkipped' /\ JournalMatchesTopic'
      BY <1>4 DEF StartLedger, NoDoubleEntry, NothingSkipped, Journaled, JournalRow,
                  JournalMatchesTopic
    <2> QED BY <2>1, <2>2, <2>3
  <1>5. ASSUME NEW p \in Partition, NEW m \in Message, Deliver(p, m) PROVE LedgerInv'
    <2> USE DEF Deliver, ledgerVars
    <2>1. LedgerTypeOK' /\ TasksBehindOffsets' /\ NoDoubleEntry'
      BY <1>5 DEF LedgerTypeOK, TasksBehindOffsets, NoDoubleEntry
    <2>2. NothingSkipped'
      <3> SUFFICES ASSUME NEW q \in Partition, NEW k \in 1 .. (offsets[q] - 1)
                   PROVE  k \in DOMAIN topic'[q] /\ Journaled(q, k)'
        BY <1>5 DEF NothingSkipped
      <3>1. k \in DOMAIN topic[q] /\ Journaled(q, k)
        BY DEF NothingSkipped
      <3>2. topic[q] \in Seq(Message)
        BY DEF LedgerTypeOK
      <3>3. k \in DOMAIN topic'[q] /\ topic'[q][k] = topic[q][k]
        BY <1>5, <3>1, <3>2 DEF LedgerTypeOK
      <3> QED BY <1>5, <3>1, <3>3, JournaledStays
    <2>3. JournalMatchesTopic'
      <3> SUFFICES ASSUME NEW row \in journal
                   PROVE  /\ row.offset \in DOMAIN topic'[row.partition]
                          /\ topic'[row.partition][row.offset] = row.message
        BY <1>5 DEF JournalMatchesTopic
      <3>1. row.partition \in Partition /\ topic[row.partition] \in Seq(Message)
        BY DEF LedgerTypeOK
      <3>2. /\ row.offset \in DOMAIN topic[row.partition]
            /\ topic[row.partition][row.offset] = row.message
        BY DEF JournalMatchesTopic
      <3> QED BY <1>5, <3>1, <3>2 DEF LedgerTypeOK
    <2> QED BY <2>1, <2>2, <2>3
  <1>6. CASE UNCHANGED all
    BY <1>6 DEF all, ledgerVars, LedgerTypeOK, TasksBehindOffsets, NoDoubleEntry,
                NothingSkipped, Journaled, JournalRow, JournalMatchesTopic
  <1>7. ASSUME NEW t \in Task, Idle(t) PROVE LedgerInv'
    BY <1>6, <1>7 DEF Idle, all
  <1> QED
    BY <1>1, <1>2, <1>3, <1>4, <1>5, <1>6, <1>7 DEF Next, LedgerNext, LedgerStep

(***************************************************************************)
(* No stream record and no logical event is journaled twice: the two unique *)
(* constraints behind ON CONFLICT DO NOTHING are enough, for any number of  *)
(* instances, partitions, publications and restarts.                        *)
(***************************************************************************)
THEOREM LedgerNoDoubleEntry == Spec => []NoDoubleEntry
  <1>1. LedgerInv => NoDoubleEntry
    BY DEF LedgerInv
  <1> QED BY <1>1, LedgerInitInv, LedgerNextInv, PTL DEF Spec, all

(***************************************************************************)
(* Nothing below a stored offset is missing from the journal: saving the    *)
(* offset in the transaction that inserts the row leaves no gap to a crash. *)
(***************************************************************************)
THEOREM LedgerNothingSkipped == Spec => []NothingSkipped
  <1>1. LedgerInv => NothingSkipped
    BY DEF LedgerInv
  <1> QED BY <1>1, LedgerInitInv, LedgerNextInv, PTL DEF Spec, all
=============================================================================
