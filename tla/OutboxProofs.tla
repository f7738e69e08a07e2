---------------------------- MODULE OutboxProofs ----------------------------
(***************************************************************************)
(* The outbox with one relay implements at-least-once delivery and leaves   *)
(* few copies of a row on its topic; the outbox with any number of relays   *)
(* and ledgers keeps the journal exactly once.  For any number of rows,     *)
(* partitions, failed publish calls and crashes.                            *)
(***************************************************************************)
EXTENDS EventPipeline, FiniteSetTheorems, TLAPS

SingleRelay == \A r, s \in Relay : r = s

RelayInv == RelayTypeOK /\ ClaimsHold

(***************************************************************************)
(* A published row is a row of the table that has a status.                 *)
(***************************************************************************)
LEMMA WriteLemma ==
  ASSUME RelayTypeOK, NEW id \in Row, Write(id)
  PROVE  /\ topic' \in [Partition -> Seq(Row)]
         /\ OnTopic(id)'
         /\ \A x \in Row : OnTopic(x) => OnTopic(x)'
  <1> DEFINE p == PartitionOf[id]
  <1>1. p \in Partition /\ topic[p] \in Seq(Row)
    BY RowAssumption DEF RelayTypeOK
  <1>2. topic' = [topic EXCEPT ![p] = Append(@, id)]
    BY DEF Write
  <1>3. topic' \in [Partition -> Seq(Row)]
    BY <1>1, <1>2 DEF RelayTypeOK
  <1>4. topic'[p] = Append(topic[p], id)
    BY <1>1, <1>2 DEF RelayTypeOK
  <1>5. OnTopic(id)'
    <2>1. Len(topic[p]) + 1 \in DOMAIN topic'[p] /\ topic'[p][Len(topic[p]) + 1] = id
      BY <1>1, <1>4
    <2> QED BY <2>1, <1>1 DEF OnTopic
  <1>6. ASSUME NEW x \in Row, OnTopic(x) PROVE OnTopic(x)'
    <2>1. PICK q \in Partition : \E n \in DOMAIN topic[q] : topic[q][n] = x
      BY <1>6 DEF OnTopic
    <2>2. PICK n \in DOMAIN topic[q] : topic[q][n] = x
      BY <2>1
    <2>3. topic[q] \in Seq(Row)
      BY DEF RelayTypeOK
    <2>4. n \in DOMAIN topic'[q] /\ topic'[q][n] = x
      BY <1>1, <1>2, <2>2, <2>3 DEF RelayTypeOK
    <2> QED BY <2>4 DEF OnTopic
  <1> QED BY <1>3, <1>5, <1>6

(***************************************************************************)
(* The claimed rows are rows.                                               *)
(***************************************************************************)
LEMMA ClaimedLemma == Claimed \subseteq {id \in Row : status[id] = "PENDING"}
  BY DEF Claimed, Claimable

(***************************************************************************)
(* The initial state satisfies the invariant.                               *)
(***************************************************************************)
LEMMA RelayInitInv == Row # {} /\ RelayInit => RelayInv
  <1> SUFFICES ASSUME Row # {}, RelayInit PROVE RelayInv
    OBVIOUS
  <1>1. NoRow \in Row
    BY DEF NoRow
  <1> QED BY <1>1 DEF RelayInit, RelayInv, RelayTypeOK, ClaimsHold, Status, Phase

(***************************************************************************)
(* Every step of the relay, of enqueueing transactions and of time keeps    *)
(* the relay's claim exclusive.                                             *)
(***************************************************************************)
LEMMA RelayNextInv == SingleRelay /\ RelayInv /\ [RelayNext]_relayVars => RelayInv'
  <1> SUFFICES ASSUME SingleRelay, RelayInv, [RelayNext]_relayVars PROVE RelayInv'
    OBVIOUS
  <1> USE DEF RelayInv
  <1>1. ASSUME NEW id \in Row, EnqueueRow(id) PROVE RelayInv'
    <2>1. RelayTypeOK'
      BY <1>1 DEF EnqueueRow, RelayTypeOK, Status, relay
    <2>2. ClaimsHold'
      BY <1>1 DEF EnqueueRow, RelayTypeOK, ClaimsHold, OnTopic, relay
    <2> QED BY <2>1, <2>2
  <1>2. ASSUME NEW id \in Row, BecomeDue(id) PROVE RelayInv'
    <2>1. RelayTypeOK'
      BY <1>2 DEF BecomeDue, RelayTypeOK, relay
    <2>2. ClaimsHold'
      BY <1>2 DEF BecomeDue, ClaimsHold, OnTopic, relay
    <2> QED BY <2>1, <2>2
  <1>3. ASSUME NEW id \in Row, BecomeStale(id) PROVE RelayInv'
    <2>1. RelayTypeOK'
      BY <1>3 DEF BecomeStale, RelayTypeOK, relay
    <2>2. ClaimsHold'
      BY <1>3 DEF BecomeStale, ClaimsHold, OnTopic, relay
    <2> QED BY <2>1, <2>2
  <1>4. ASSUME NEW r \in Relay, RequeueStale(r) PROVE RelayInv'
    <2>1. RelayTypeOK'
      BY <1>4 DEF RequeueStale, RelayTypeOK, Status, Phase
    <2>2. \A s \in Relay : s = r /\ batch[s] = {}
      BY <1>4 DEF SingleRelay, RequeueStale, ClaimsHold
    <2>3. ClaimsHold'
      BY <1>4, <2>2 DEF RequeueStale, RelayTypeOK, ClaimsHold
    <2> QED BY <2>1, <2>3
  <1>5. ASSUME NEW r \in Relay, Claim(r) PROVE RelayInv'
    <2> USE ClaimedLemma
    <2>1. RelayTypeOK'
      BY <1>5 DEF Claim, RelayTypeOK, Status, Phase
    <2>2. \A s \in Relay : s = r
      BY DEF SingleRelay
    <2>3. ClaimsHold'
      BY <1>5, <2>2 DEF Claim, RelayTypeOK, ClaimsHold
    <2> QED BY <2>1, <2>3
  <1>6. ASSUME NEW r \in Relay, Publish(r) PROVE RelayInv'
    <2>1. PICK id \in batch[r] : Write(id) /\ sending' = [sending EXCEPT ![r] = id]
      BY <1>6 DEF Publish
    <2>2. id \in Row
      BY <2>1 DEF RelayTypeOK
    <2>3. topic' \in [Partition -> Seq(Row)] /\ OnTopic(id)'
      BY <2>1, <2>2, WriteLemma
    <2>4. RelayTypeOK'
      BY <1>6, <2>1, <2>2, <2>3 DEF Publish, RelayTypeOK, Phase, outboxTable
    <2>5. \A s \in Relay : s = r
      BY DEF SingleRelay
    <2>6. ClaimsHold'
      BY <1>6, <2>1, <2>2, <2>3, <2>5 DEF Publish, RelayTypeOK, ClaimsHold, outboxTable
    <2> QED BY <2>4, <2>6
  <1>7. ASSUME NEW r \in Relay, PublishFails(r) PROVE RelayInv'
    <2>1. PICK id \in batch[r] : /\ Write(id) \/ UNCHANGED topic
                                 /\ sending' = [sending EXCEPT ![r] = id]
      BY <1>7 DEF PublishFails
    <2>2. id \in Row
      BY <2>1 DEF RelayTypeOK
    <2>3. topic' \in [Partition -> Seq(Row)]
      BY <2>1, <2>2, WriteLemma DEF RelayTypeOK
    <2>4. RelayTypeOK'
      BY <1>7, <2>1, <2>2, <2>3 DEF PublishFails, RelayTypeOK, Phase, outboxTable
    <2>5. \A s \in Relay : s = r
      BY DEF SingleRelay
    <2>6. ClaimsHold'
      BY <1>7, <2>1, <2>2, <2>5 DEF PublishFails, RelayTypeOK, ClaimsHold, outboxTable
    <2> QED BY <2>4, <2>6
  <1>8. ASSUME NEW r \in Relay, MarkPublished(r) PROVE RelayInv'
    <2>1. RelayTypeOK'
      BY <1>8 DEF MarkPublished, Done, RelayTypeOK, Status, Phase
    <2>2. \A s \in Relay : s = r
      BY DEF SingleRelay
    <2>3. ClaimsHold'
      BY <1>8, <2>2 DEF MarkPublished, Done, RelayTypeOK, ClaimsHold
    <2> QED BY <2>1, <2>3
  <1>9. ASSUME NEW r \in Relay, MarkPending(r) PROVE RelayInv'
    <2>1. RelayTypeOK'
      BY <1>9 DEF MarkPending, Done, RelayTypeOK, Status, Phase
    <2>2. \A s \in Relay : s = r
      BY DEF SingleRelay
    <2>3. ClaimsHold'
      BY <1>9, <2>2 DEF MarkPending, Done, RelayTypeOK, ClaimsHold
    <2> QED BY <2>1, <2>3
  <1>10. ASSUME NEW r \in Relay, CrashRelay(r) \/ RestartRelay(r) PROVE RelayInv'
    <2>1. RelayTypeOK'
      <3>1. CASE CrashRelay(r)
        BY <3>1 DEF CrashRelay, RelayTypeOK, Phase, outboxTable
      <3>2. CASE RestartRelay(r)
        BY <3>2 DEF RestartRelay, RelayTypeOK, Phase, outboxTable
      <3> QED BY <1>10, <3>1, <3>2
    <2>2. ClaimsHold'
      BY <1>10 DEF CrashRelay, RestartRelay, RelayTypeOK, ClaimsHold, OnTopic, outboxTable
    <2> QED BY <2>1, <2>2
  <1>11. CASE UNCHANGED relayVars
    BY <1>11 DEF relayVars, outboxTable, relay, RelayTypeOK, ClaimsHold, OnTopic
  <1> QED
    BY <1>1, <1>2, <1>3, <1>4, <1>5, <1>6, <1>7, <1>8, <1>9, <1>10, <1>11
       DEF RelayNext, RelayStep

(***************************************************************************)
(* A relay's claim stays exclusive as long as the wallet runs one relay.    *)
(***************************************************************************)
THEOREM RelayClaimsHold ==
  ASSUME SingleRelay, Row # {}
  PROVE  RelaySpec => []ClaimsHold
  <1>1. RelayInit => RelayInv
    BY RelayInitInv
  <1>2. RelayInv /\ [RelayNext]_relayVars => RelayInv'
    BY RelayNextInv
  <1>3. RelayInv => ClaimsHold
    BY DEF RelayInv
  <1> QED BY <1>1, <1>2, <1>3, PTL DEF RelaySpec

(***************************************************************************)
(* Every step of the relay is a step of at-least-once delivery or none.     *)
(***************************************************************************)
LEMMA RelayStepDelivers ==
  RelayInv /\ [RelayNext]_relayVars => [Abstract!Next]_(Abstract!vars)
  <1> SUFFICES ASSUME RelayInv, [RelayNext]_relayVars
               PROVE  Abstract!Next \/ UNCHANGED <<Enqueued, Published, topic>>
    BY DEF Abstract!vars
  <1> USE DEF RelayInv, Enqueued, Published
  <1>1. ASSUME NEW id \in Row, EnqueueRow(id) PROVE Abstract!Send(id)
    BY <1>1 DEF EnqueueRow, RelayTypeOK, Abstract!Send
  <1>2. ASSUME NEW id \in Row, BecomeDue(id) \/ BecomeStale(id)
        PROVE  UNCHANGED <<Enqueued, Published, topic>>
    BY <1>2 DEF BecomeDue, BecomeStale
  <1>3. ASSUME NEW r \in Relay, RequeueStale(r)
        PROVE  UNCHANGED <<Enqueued, Published, topic>>
    BY <1>3 DEF RequeueStale, Requeueable, RelayTypeOK
  <1>4. ASSUME NEW r \in Relay, Claim(r) PROVE UNCHANGED <<Enqueued, Published, topic>>
    BY <1>4, ClaimedLemma DEF Claim, RelayTypeOK
  <1>5. ASSUME NEW id \in Row, Write(id), status[id] = "PROCESSING", UNCHANGED status
        PROVE  Abstract!Transfer(id)
    BY <1>5, RowAssumption DEF Write, Abstract!Transfer
  <1>6. ASSUME NEW r \in Relay, Publish(r) PROVE \E id \in Row : Abstract!Transfer(id)
    <2>1. PICK id \in batch[r] : Write(id)
      BY <1>6 DEF Publish
    <2>2. id \in Row /\ status[id] = "PROCESSING"
      BY <2>1 DEF RelayTypeOK, ClaimsHold
    <2> QED BY <1>5, <1>6, <2>1, <2>2 DEF Publish, outboxTable
  <1>7. ASSUME NEW r \in Relay, PublishFails(r)
        PROVE  (\E id \in Row : Abstract!Transfer(id)) \/ UNCHANGED <<Enqueued, Published, topic>>
    <2>1. PICK id \in batch[r] : Write(id) \/ UNCHANGED topic
      BY <1>7 DEF PublishFails
    <2>2. id \in Row /\ status[id] = "PROCESSING"
      BY <2>1 DEF RelayTypeOK, ClaimsHold
    <2>3. UNCHANGED status
      BY <1>7 DEF PublishFails, outboxTable
    <2> QED BY <1>5, <2>1, <2>2, <2>3
  <1>8. ASSUME NEW r \in Relay, MarkPublished(r) PROVE Abstract!Ack(sending[r])
    <2>1. sending[r] \in Row /\ status[sending[r]] = "PROCESSING" /\ OnTopic(sending[r])
      BY <1>8 DEF MarkPublished, RelayTypeOK, ClaimsHold
    <2> QED BY <1>8, <2>1
            DEF MarkPublished, Done, RelayTypeOK, OnTopic, Abstract!Ack, Abstract!OnTopic
  <1>9. ASSUME NEW r \in Relay, MarkPending(r)
        PROVE  UNCHANGED <<Enqueued, Published, topic>>
    <2>1. sending[r] \in Row /\ status[sending[r]] = "PROCESSING"
      BY <1>9 DEF MarkPending, RelayTypeOK, ClaimsHold
    <2> QED BY <1>9, <2>1 DEF MarkPending, Done, RelayTypeOK
  <1>10. ASSUME NEW r \in Relay, CrashRelay(r) \/ RestartRelay(r)
         PROVE  UNCHANGED <<Enqueued, Published, topic>>
    BY <1>10 DEF CrashRelay, RestartRelay, outboxTable
  <1>11. CASE UNCHANGED relayVars
    BY <1>11 DEF relayVars, outboxTable
  <1>12. \A r \in Relay : sending[r] \in Row
    BY DEF RelayTypeOK
  <1> HIDE DEF Enqueued, Published, RelayInv
  <1> QED
    BY <1>1, <1>2, <1>3, <1>4, <1>6, <1>7, <1>8, <1>9, <1>10, <1>11, <1>12
       DEF RelayNext, RelayStep, Abstract!Next

(***************************************************************************)
(* The outbox with one relay implements at-least-once delivery: claims,     *)
(* failed publish calls, requeued rows and crashes never lose a row, mark a *)
(* row that is not on its topic, or send a marked row again.                *)
(***************************************************************************)
THEOREM RelayImplementsDelivery ==
  ASSUME SingleRelay, Row # {}
  PROVE  RelaySpec => Delivery
  <1>1. RelayInit => RelayInv
    BY RelayInitInv
  <1>2. RelayInv /\ [RelayNext]_relayVars => RelayInv'
    BY RelayNextInv
  <1>3. RelayInit => Abstract!Init
    BY DEF RelayInit, Enqueued, Published, Abstract!Init
  <1> QED BY <1>1, <1>2, <1>3, RelayStepDelivers, PTL
          DEF RelaySpec, Delivery, Abstract!Delivery

-----------------------------------------------------------------------------
(***************************************************************************)
(* Copies of a row.  The copy that the relay is about to mark, or has       *)
(* marked, is the only one that no crash and no failure accounts for.       *)
(***************************************************************************)
Accounted(id) ==
  status[id] = "PUBLISHED" \/ \E r \in Relay : phase[r] = "published" /\ sending[r] = id

CopiesAccounted ==
  \A id \in Row :
    /\ IsFiniteSet(Copies(id))
    /\ Cardinality(Copies(id)) <= crashes + failures + (IF Accounted(id) THEN 1 ELSE 0)

(***************************************************************************)
(* A publish call adds one copy of its row and none of another.             *)
(***************************************************************************)
LEMMA WriteCopies ==
  ASSUME RelayTypeOK, NEW id \in Row, Write(id), NEW x \in Row, IsFiniteSet(Copies(x))
  PROVE  /\ IsFiniteSet(Copies(x)')
         /\ x # id => Copies(x)' = Copies(x)
         /\ x = id => Cardinality(Copies(x)') = Cardinality(Copies(x)) + 1
  <1> DEFINE p == PartitionOf[id]
             n == Len(topic[p]) + 1
  <1>1. p \in Partition /\ topic[p] \in Seq(Row)
    BY RowAssumption DEF RelayTypeOK
  <1>2. topic' = [topic EXCEPT ![p] = Append(@, id)]
    BY DEF Write
  <1>3. /\ \A q \in Partition : q # p => topic'[q] = topic[q]
        /\ topic'[p] = Append(topic[p], id)
    BY <1>1, <1>2 DEF RelayTypeOK
  <1>4. n \in Nat \ {0} /\ DOMAIN topic[p] = 1 .. (n - 1) /\ DOMAIN topic'[p] = 1 .. n
        /\ topic'[p][n] = id /\ \A k \in 1 .. (n - 1) : topic'[p][k] = topic[p][k]
    BY <1>1, <1>3
  <1>5. \A q, k : <<q, k>> \in Copies(x) <=>
                    q \in Partition /\ k \in DOMAIN topic[q] /\ topic[q][k] = x
    BY DEF Copies
  <1>6. \A q, k : <<q, k>> \in Copies(x)' <=>
                    q \in Partition /\ k \in DOMAIN topic'[q] /\ topic'[q][k] = x
    BY DEF Copies
  <1>7. \A c \in Copies(x) : c = <<c[1], c[2]>>
    BY DEF Copies
  <1>8. \A c \in Copies(x)' : c = <<c[1], c[2]>>
    BY DEF Copies
  <1>9. <<p, n>> \notin Copies(x)
    BY <1>4, <1>5
  <1> HIDE DEF p, n
  <1>10. \A q, k : <<q, k>> \in Copies(x)' <=>
                    <<q, k>> \in Copies(x) \/ (x = id /\ q = p /\ k = n)
    <2> SUFFICES ASSUME NEW q, NEW k
                 PROVE  <<q, k>> \in Copies(x)' <=>
                          <<q, k>> \in Copies(x) \/ (x = id /\ q = p /\ k = n)
      OBVIOUS
    <2>1. CASE q = p
      <3>1. k \in DOMAIN topic'[p] /\ topic'[p][k] = x <=>
              (k \in DOMAIN topic[p] /\ topic[p][k] = x) \/ (x = id /\ k = n)
        <4>1. k \in 1 .. n <=> k \in 1 .. (n - 1) \/ k = n
          BY <1>4
        <4>2. CASE k \in 1 .. (n - 1)
          BY <4>2, <1>4
        <4>3. CASE k = n
          BY <4>3, <1>4
        <4>4. CASE k \notin 1 .. n
          BY <4>1, <4>4, <1>4
        <4> QED BY <4>1, <4>2, <4>3, <4>4
      <3>2. <<p, k>> \in Copies(x) <=> k \in DOMAIN topic[p] /\ topic[p][k] = x
        BY <1>1, <1>5
      <3>3. <<p, k>> \in Copies(x)' <=> k \in DOMAIN topic'[p] /\ topic'[p][k] = x
        BY <1>1, <1>6
      <3> QED BY <3>1, <3>2, <3>3, <2>1
    <2>2. CASE q # p
      BY <2>2, <1>3, <1>5, <1>6
    <2> QED BY <2>1, <2>2
  <1>11. CASE x # id
    <2>1. \A q, k : <<q, k>> \in Copies(x)' <=> <<q, k>> \in Copies(x)
      BY <1>10, <1>11
    <2>2. Copies(x)' = Copies(x)
      BY <2>1, <1>7, <1>8
    <2> QED BY <2>2, <1>11
  <1>12. CASE x = id
    <2>1. Copies(x)' = Copies(x) \cup {<<p, n>>}
      BY <1>7, <1>8, <1>10, <1>12
    <2>2. PICK one : one = <<p, n>>
      OBVIOUS
    <2>3. PICK cs : cs = Copies(x)
      OBVIOUS
    <2>4. IsFiniteSet(cs) /\ one \notin cs
      BY <2>2, <2>3, <1>9
    <2>5. IsFiniteSet(cs \cup {one}) /\ Cardinality(cs \cup {one}) = Cardinality(cs) + 1
      BY <2>4, FS_AddElement
    <2> QED BY <2>1, <2>2, <2>3, <2>5, <1>12
  <1> QED BY <1>11, <1>12

(***************************************************************************)
(* Every step of the relay accounts for the copies it makes.                *)
(***************************************************************************)
LEMMA CopiesNext ==
  SingleRelay /\ RelayInv /\ CopiesAccounted /\ [RelayNext]_relayVars => CopiesAccounted'
  <1> SUFFICES ASSUME SingleRelay, RelayInv, CopiesAccounted, [RelayNext]_relayVars,
                      NEW x \in Row
               PROVE  /\ IsFiniteSet(Copies(x)')
                      /\ Cardinality(Copies(x)')
                           <= crashes' + failures' + (IF Accounted(x)' THEN 1 ELSE 0)
    BY DEF CopiesAccounted
  <1> DEFINE c == Cardinality(Copies(x))
  <1>0. /\ IsFiniteSet(Copies(x)) /\ c \in Nat /\ crashes \in Nat /\ failures \in Nat
        /\ c <= crashes + failures + (IF Accounted(x) THEN 1 ELSE 0)
    BY FS_CardinalityType DEF CopiesAccounted, RelayInv, RelayTypeOK
  <1>t. ASSUME topic' = topic PROVE Copies(x)' = Copies(x)
    BY <1>t DEF Copies
  <1>k. ASSUME topic' = topic, Accounted(x) => Accounted(x)', crashes' = crashes,
               failures' = failures
        PROVE  /\ IsFiniteSet(Copies(x)')
               /\ Cardinality(Copies(x)')
                    <= crashes' + failures' + (IF Accounted(x)' THEN 1 ELSE 0)
    <2>1. Copies(x)' = Copies(x)
      BY <1>t, <1>k
    <2> QED BY <2>1, <1>0, <1>k
  <1>s. \A r, s \in Relay : r = s
    BY DEF SingleRelay
  <1> USE DEF RelayInv
  <1>1. ASSUME NEW id \in Row, EnqueueRow(id) \/ BecomeDue(id) \/ BecomeStale(id)
        PROVE  Accounted(x) => Accounted(x)'
    BY <1>1 DEF EnqueueRow, BecomeDue, BecomeStale, Accounted, RelayTypeOK, relay
  <1>2. ASSUME NEW r \in Relay, RequeueStale(r) \/ Claim(r) \/ RestartRelay(r)
        PROVE  Accounted(x) => Accounted(x)'
    <2>1. CASE RequeueStale(r)
      BY <2>1, <1>s DEF RequeueStale, Requeueable, Accounted, RelayTypeOK
    <2>2. CASE Claim(r)
      BY <2>2, <1>s, ClaimedLemma DEF Claim, Accounted, RelayTypeOK
    <2>3. CASE RestartRelay(r)
      BY <2>3, <1>s DEF RestartRelay, outboxTable, Accounted, RelayTypeOK
    <2> QED BY <1>2, <2>1, <2>2, <2>3
  <1>3. ASSUME NEW r \in Relay, MarkPublished(r) \/ MarkPending(r)
        PROVE  Accounted(x) => Accounted(x)'
    <2>1. sending[r] \in Row /\ status[sending[r]] = "PROCESSING"
      BY <1>3 DEF MarkPublished, MarkPending, RelayTypeOK, ClaimsHold
    <2>2. CASE MarkPublished(r)
      BY <2>1, <2>2, <1>s DEF MarkPublished, Accounted, RelayTypeOK
    <2>3. CASE MarkPending(r)
      BY <2>1, <2>3, <1>s DEF MarkPending, Accounted, RelayTypeOK
    <2> QED BY <1>3, <2>2, <2>3
  <1>4. ASSUME NEW r \in Relay, CrashRelay(r)
        PROVE  /\ IsFiniteSet(Copies(x)')
               /\ Cardinality(Copies(x)')
                    <= crashes' + failures' + (IF Accounted(x)' THEN 1 ELSE 0)
    <2>1. Copies(x)' = Copies(x) /\ crashes' = crashes + 1 /\ failures' = failures
      BY <1>4, <1>t DEF CrashRelay
    <2> QED BY <2>1, <1>0
  <1>5. ASSUME NEW r \in Relay, Publish(r)
        PROVE  /\ IsFiniteSet(Copies(x)')
               /\ Cardinality(Copies(x)')
                    <= crashes' + failures' + (IF Accounted(x)' THEN 1 ELSE 0)
    <2>1. PICK id \in batch[r] : Write(id) /\ sending' = [sending EXCEPT ![r] = id]
      BY <1>5 DEF Publish
    <2>2. id \in Row /\ status[id] = "PROCESSING" /\ phase[r] = "publish"
      BY <1>5, <2>1 DEF Publish, RelayTypeOK, ClaimsHold
    <2>3. /\ IsFiniteSet(Copies(x)')
          /\ x # id => Copies(x)' = Copies(x)
          /\ x = id => Cardinality(Copies(x)') = c + 1
      BY <2>1, <2>2, <1>0, WriteCopies
    <2>4. crashes' = crashes /\ failures' = failures /\ status' = status
          /\ phase' = [phase EXCEPT ![r] = "published"]
      BY <1>5 DEF Publish, outboxTable
    <2>5. CASE x = id
      <3>1. ~Accounted(x) /\ Accounted(x)'
        BY <2>1, <2>2, <2>4, <2>5, <1>s DEF Accounted, RelayTypeOK
      <3> QED BY <3>1, <2>3, <2>4, <2>5, <1>0
    <2>6. CASE x # id
      <3>1. Accounted(x) => Accounted(x)'
        BY <2>2, <2>4, <1>s DEF Accounted
      <3> QED BY <3>1, <2>3, <2>4, <2>6, <1>0
    <2> QED BY <2>5, <2>6
  <1>6. ASSUME NEW r \in Relay, PublishFails(r)
        PROVE  /\ IsFiniteSet(Copies(x)')
               /\ Cardinality(Copies(x)')
                    <= crashes' + failures' + (IF Accounted(x)' THEN 1 ELSE 0)
    <2>1. PICK id \in batch[r] : Write(id) \/ UNCHANGED topic
      BY <1>6 DEF PublishFails
    <2>2. id \in Row /\ status[id] = "PROCESSING" /\ phase[r] = "publish"
      BY <1>6, <2>1 DEF PublishFails, RelayTypeOK, ClaimsHold
    <2>3. crashes' = crashes /\ failures' = failures + 1 /\ status' = status
      BY <1>6 DEF PublishFails, outboxTable
    <2>4. Accounted(x) => Accounted(x)' /\ x # id
      BY <2>2, <2>3, <1>s DEF Accounted
    <2>5. CASE UNCHANGED topic
      BY <2>3, <2>4, <2>5, <1>t, <1>0
    <2>6. CASE Write(id)
      <3>1. /\ IsFiniteSet(Copies(x)')
            /\ x # id => Copies(x)' = Copies(x)
            /\ x = id => Cardinality(Copies(x)') = c + 1
        BY <2>6, <2>2, <1>0, WriteCopies
      <3> QED BY <3>1, <2>3, <2>4, <1>0
    <2> QED BY <2>1, <2>5, <2>6
  <1>7. CASE UNCHANGED relayVars
    <2>1. Accounted(x) => Accounted(x)'
      BY <1>7 DEF relayVars, outboxTable, relay, Accounted
    <2> QED BY <2>1, <1>7, <1>k DEF relayVars
  <1>8. ASSUME NEW id \in Row, EnqueueRow(id) \/ BecomeDue(id) \/ BecomeStale(id)
        PROVE  topic' = topic /\ crashes' = crashes /\ failures' = failures
    BY <1>8 DEF EnqueueRow, BecomeDue, BecomeStale
  <1>9. ASSUME NEW r \in Relay,
               \/ RequeueStale(r) \/ Claim(r) \/ RestartRelay(r)
               \/ MarkPublished(r) \/ MarkPending(r)
        PROVE  topic' = topic /\ crashes' = crashes /\ failures' = failures
    BY <1>9 DEF RequeueStale, Claim, RestartRelay, MarkPublished, MarkPending, Done
  <1> HIDE DEF RelayInv
  <1> QED
    BY <1>k, <1>1, <1>2, <1>3, <1>4, <1>5, <1>6, <1>7, <1>8, <1>9
       DEF RelayNext, RelayStep

(***************************************************************************)
(* With one relay a row is on its topic at most once, and once more for     *)
(* every crash of the wallet and every publish call that returned an error: *)
(* requeue_stale_outbox never makes the relay publish what it has at hand.  *)
(***************************************************************************)
THEOREM RelayFewCopies ==
  ASSUME SingleRelay, Row # {}
  PROVE  RelaySpec => []FewCopies
  <1>1. RelayInit => RelayInv
    BY RelayInitInv
  <1>2. RelayInv /\ [RelayNext]_relayVars => RelayInv'
    BY RelayNextInv
  <1>3. RelayInit => CopiesAccounted
    <2> SUFFICES ASSUME RelayInit, NEW id \in Row
                 PROVE  /\ IsFiniteSet(Copies(id))
                        /\ Cardinality(Copies(id))
                             <= crashes + failures + (IF Accounted(id) THEN 1 ELSE 0)
      BY DEF CopiesAccounted
    <2>1. Copies(id) = {}
      BY DEF Copies, RelayInit
    <2> QED BY <2>1, FS_EmptySet DEF RelayInit
  <1>4. RelayInv /\ CopiesAccounted /\ [RelayNext]_relayVars => CopiesAccounted'
    BY CopiesNext
  <1>5. RelayInv /\ CopiesAccounted => FewCopies
    <2> SUFFICES ASSUME RelayInv, CopiesAccounted, NEW id \in Row
                 PROVE  Cardinality(Copies(id)) <= 1 + crashes + failures
      BY DEF FewCopies
    <2>1. crashes \in Nat /\ failures \in Nat /\ Cardinality(Copies(id)) \in Nat
      BY FS_CardinalityType DEF RelayInv, RelayTypeOK, CopiesAccounted
    <2> QED BY <2>1 DEF CopiesAccounted
  <1> QED BY <1>1, <1>2, <1>3, <1>4, <1>5, PTL DEF RelaySpec

-----------------------------------------------------------------------------
(***************************************************************************)
(* The pipeline, with any number of relays.  What a relay has claimed or    *)
(* sent was committed, what is on the topic was committed, and the journal  *)
(* has one row for a message.                                               *)
(***************************************************************************)
HeldAreCommitted ==
  \A r \in Relay :
    /\ batch[r] \subseteq Enqueued
    /\ phase[r] \in {"published", "failed"} => sending[r] \in Enqueued

TopicIsCommitted == \A p \in Partition : \A n \in DOMAIN topic[p] : topic[p][n] \in Enqueued

OneRowPerMessage == \A x, y \in journal : x.message = y.message => x = y

PipelineInv == RelayTypeOK /\ HeldAreCommitted /\ TopicIsCommitted /\ OneRowPerMessage

(***************************************************************************)
(* No step of a relay takes a committed row back: a row enters by           *)
(* EnqueueRow and in no other way.                                          *)
(***************************************************************************)
LEMMA RelayCommits ==
  ASSUME RelayTypeOK, HeldAreCommitted, [RelayNext]_relayVars
  PROVE  /\ RelayTypeOK' /\ HeldAreCommitted'
         /\ UNCHANGED Enqueued \/ \E id \in Row : id \notin Enqueued /\ Enqueued' = Enqueued \cup {id}
  <1> DEFINE Committing ==
        UNCHANGED Enqueued \/ \E id \in Row : id \notin Enqueued /\ Enqueued' = Enqueued \cup {id}
  <1> SUFFICES RelayTypeOK' /\ HeldAreCommitted' /\ Committing
    OBVIOUS
  <1> HIDE DEF Committing
  <1>1. ASSUME NEW id \in Row, EnqueueRow(id) PROVE RelayTypeOK' /\ HeldAreCommitted' /\ Committing
    <2>1. RelayTypeOK'
      BY <1>1 DEF EnqueueRow, RelayTypeOK, Status, relay
    <2>2. id \notin Enqueued /\ Enqueued' = Enqueued \cup {id}
      BY <1>1 DEF EnqueueRow, RelayTypeOK, Enqueued
    <2>3. HeldAreCommitted'
      BY <1>1, <2>2 DEF EnqueueRow, HeldAreCommitted, relay
    <2> QED BY <2>1, <2>2, <2>3 DEF Committing
  <1>2. ASSUME NEW id \in Row, BecomeDue(id) \/ BecomeStale(id)
        PROVE  RelayTypeOK' /\ HeldAreCommitted' /\ Committing
    <2>1. RelayTypeOK'
      <3>1. CASE BecomeDue(id)
        BY <3>1 DEF BecomeDue, RelayTypeOK, relay
      <3>2. CASE BecomeStale(id)
        BY <3>2 DEF BecomeStale, RelayTypeOK, relay
      <3> QED BY <1>2, <3>1, <3>2
    <2>2. Enqueued' = Enqueued
      BY <1>2 DEF BecomeDue, BecomeStale, Enqueued
    <2>3. HeldAreCommitted'
      BY <1>2, <2>2 DEF BecomeDue, BecomeStale, HeldAreCommitted, relay
    <2> QED BY <2>1, <2>2, <2>3 DEF Committing
  <1>3. ASSUME NEW r \in Relay, RequeueStale(r) PROVE RelayTypeOK' /\ HeldAreCommitted' /\ Committing
    <2>1. RelayTypeOK'
      BY <1>3 DEF RequeueStale, RelayTypeOK, Status, Phase
    <2>2. Enqueued' = Enqueued
      BY <1>3 DEF RequeueStale, Requeueable, RelayTypeOK, Enqueued
    <2>3. HeldAreCommitted'
      BY <1>3, <2>2 DEF RequeueStale, HeldAreCommitted, RelayTypeOK
    <2> QED BY <2>1, <2>2, <2>3 DEF Committing
  <1>4. ASSUME NEW r \in Relay, Claim(r) PROVE RelayTypeOK' /\ HeldAreCommitted' /\ Committing
    <2>1. RelayTypeOK'
      BY <1>4, ClaimedLemma DEF Claim, RelayTypeOK, Status, Phase
    <2>2. Enqueued' = Enqueued /\ Claimed \subseteq Enqueued
      BY <1>4, ClaimedLemma DEF Claim, RelayTypeOK, Enqueued
    <2>3. HeldAreCommitted'
      BY <1>4, <2>2 DEF Claim, HeldAreCommitted, RelayTypeOK
    <2> QED BY <2>1, <2>2, <2>3 DEF Committing
  <1>5. ASSUME NEW r \in Relay, Publish(r) PROVE RelayTypeOK' /\ HeldAreCommitted' /\ Committing
    <2>1. PICK id \in batch[r] : Write(id) /\ sending' = [sending EXCEPT ![r] = id]
      BY <1>5 DEF Publish
    <2>2. id \in Row /\ id \in Enqueued
      BY <2>1 DEF RelayTypeOK, HeldAreCommitted
    <2>3. topic' \in [Partition -> Seq(Row)]
      BY <2>1, <2>2, WriteLemma
    <2>4. RelayTypeOK'
      BY <1>5, <2>1, <2>2, <2>3 DEF Publish, RelayTypeOK, Phase, outboxTable
    <2>5. Enqueued' = Enqueued
      BY <1>5 DEF Publish, outboxTable, Enqueued
    <2>6. HeldAreCommitted'
      BY <1>5, <2>1, <2>2, <2>5 DEF Publish, HeldAreCommitted, RelayTypeOK
    <2> QED BY <2>4, <2>5, <2>6 DEF Committing
  <1>6. ASSUME NEW r \in Relay, PublishFails(r) PROVE RelayTypeOK' /\ HeldAreCommitted' /\ Committing
    <2>1. PICK id \in batch[r] : /\ Write(id) \/ UNCHANGED topic
                                 /\ sending' = [sending EXCEPT ![r] = id]
      BY <1>6 DEF PublishFails
    <2>2. id \in Row /\ id \in Enqueued
      BY <2>1 DEF RelayTypeOK, HeldAreCommitted
    <2>3. topic' \in [Partition -> Seq(Row)]
      BY <2>1, <2>2, WriteLemma DEF RelayTypeOK
    <2>4. RelayTypeOK'
      BY <1>6, <2>1, <2>2, <2>3 DEF PublishFails, RelayTypeOK, Phase, outboxTable
    <2>5. Enqueued' = Enqueued
      BY <1>6 DEF PublishFails, outboxTable, Enqueued
    <2>6. HeldAreCommitted'
      BY <1>6, <2>1, <2>2, <2>5 DEF PublishFails, HeldAreCommitted, RelayTypeOK
    <2> QED BY <2>4, <2>5, <2>6 DEF Committing
  <1>7. ASSUME NEW r \in Relay, MarkPublished(r) PROVE RelayTypeOK' /\ HeldAreCommitted' /\ Committing
    <2>1. RelayTypeOK'
      BY <1>7 DEF MarkPublished, Done, RelayTypeOK, Status, Phase
    <2>2. sending[r] \in Enqueued
      BY <1>7 DEF MarkPublished, HeldAreCommitted
    <2>3. Enqueued' = Enqueued
      BY <1>7, <2>2 DEF MarkPublished, RelayTypeOK, Enqueued
    <2>4. HeldAreCommitted'
      BY <1>7, <2>3 DEF MarkPublished, Done, RelayTypeOK, HeldAreCommitted
    <2> QED BY <2>1, <2>3, <2>4 DEF Committing
  <1>8. ASSUME NEW r \in Relay, MarkPending(r) PROVE RelayTypeOK' /\ HeldAreCommitted' /\ Committing
    <2>1. RelayTypeOK'
      BY <1>8 DEF MarkPending, Done, RelayTypeOK, Status, Phase
    <2>2. sending[r] \in Enqueued
      BY <1>8 DEF MarkPending, HeldAreCommitted
    <2>3. Enqueued' = Enqueued
      BY <1>8, <2>2 DEF MarkPending, RelayTypeOK, Enqueued
    <2>4. HeldAreCommitted'
      BY <1>8, <2>3 DEF MarkPending, Done, RelayTypeOK, HeldAreCommitted
    <2> QED BY <2>1, <2>3, <2>4 DEF Committing
  <1>9. ASSUME NEW r \in Relay, CrashRelay(r) \/ RestartRelay(r)
        PROVE  RelayTypeOK' /\ HeldAreCommitted' /\ Committing
    <2>1. RelayTypeOK'
      <3>1. CASE CrashRelay(r)
        BY <3>1 DEF CrashRelay, RelayTypeOK, Phase, outboxTable
      <3>2. CASE RestartRelay(r)
        BY <3>2 DEF RestartRelay, RelayTypeOK, Phase, outboxTable
      <3> QED BY <1>9, <3>1, <3>2
    <2>2. Enqueued' = Enqueued
      BY <1>9 DEF CrashRelay, RestartRelay, outboxTable, Enqueued
    <2>3. HeldAreCommitted'
      BY <1>9, <2>2 DEF CrashRelay, RestartRelay, RelayTypeOK, HeldAreCommitted
    <2> QED BY <2>1, <2>2, <2>3 DEF Committing
  <1>10. CASE UNCHANGED relayVars
    BY <1>10 DEF relayVars, outboxTable, relay, RelayTypeOK, HeldAreCommitted, Enqueued,
                 Committing
  <1> QED
    BY <1>1, <1>2, <1>3, <1>4, <1>5, <1>6, <1>7, <1>8, <1>9, <1>10 DEF RelayNext, RelayStep

(***************************************************************************)
(* What a relay writes was committed.                                       *)
(***************************************************************************)
LEMMA RelayWrites ==
  ASSUME RelayTypeOK, HeldAreCommitted, [RelayNext]_relayVars
  PROVE  topic' = topic \/ \E id \in Enqueued : id \in Row /\ Write(id)
  <1>1. ASSUME NEW r \in Relay, Publish(r) \/ PublishFails(r)
        PROVE  topic' = topic \/ \E id \in Enqueued : id \in Row /\ Write(id)
    <2>1. PICK id \in batch[r] : Write(id) \/ UNCHANGED topic
      BY <1>1 DEF Publish, PublishFails
    <2>2. id \in Row /\ id \in Enqueued
      BY <2>1 DEF RelayTypeOK, HeldAreCommitted
    <2> QED BY <2>1, <2>2
  <1>2. ASSUME NEW r \in Relay,
               \/ RequeueStale(r) \/ Claim(r) \/ MarkPublished(r) \/ MarkPending(r)
               \/ RestartRelay(r) \/ CrashRelay(r)
        PROVE  topic' = topic
    BY <1>2 DEF RequeueStale, Claim, MarkPublished, MarkPending, Done, RestartRelay, CrashRelay
  <1>3. ASSUME NEW id \in Row, EnqueueRow(id) \/ BecomeDue(id) \/ BecomeStale(id)
        PROVE  topic' = topic
    BY <1>3 DEF EnqueueRow, BecomeDue, BecomeStale
  <1>4. CASE UNCHANGED relayVars
    BY <1>4 DEF relayVars
  <1> QED BY <1>1, <1>2, <1>3, <1>4 DEF RelayNext, RelayStep

(***************************************************************************)
(* A step of the ledger keeps the journal or adds the one row of a message  *)
(* that is on the topic.                                                    *)
(***************************************************************************)
LEMMA LedgerAddsOne ==
  ASSUME TopicIsCommitted, Ledger!LedgerNext
  PROVE  /\ topic' = topic
         /\ \/ journal' = journal
            \/ \E row : /\ journal' = journal \cup {row}
                        /\ row.message \in Enqueued
                        /\ \A x \in journal : x.message # row.message
  <1>1. ASSUME NEW t \in Ledger!Task, Ledger!RecordWalletEvent(t)
        PROVE  /\ topic' = topic
               /\ \/ journal' = journal
                  \/ \E row : /\ journal' = journal \cup {row}
                              /\ row.message \in Enqueued
                              /\ \A x \in journal : x.message # row.message
    <2> DEFINE p == t[2]
               m == topic[p][at[t]]
               row == [partition |-> p, offset |-> at[t], message |-> m]
    <2>1. topic' = topic
      BY <1>1 DEF Ledger!RecordWalletEvent, Ledger!Advance
    <2>2. p \in Partition /\ at[t] \in DOMAIN topic[p]
      BY <1>1 DEF Ledger!RecordWalletEvent, Ledger!HasRecord, Ledger!Task
    <2>3. m \in Enqueued /\ m \in Row
      BY <2>2 DEF TopicIsCommitted, Enqueued
    <2>4. CASE Ledger!Conflicts(p, at[t], m)
      BY <2>1, <2>4, <1>1 DEF Ledger!RecordWalletEvent, Ledger!Record
    <2>5. CASE ~Ledger!Conflicts(p, at[t], m)
      <3>1. journal' = journal \cup {row}
        BY <2>5, <1>1 DEF Ledger!RecordWalletEvent, Ledger!Record, Ledger!JournalRow
      <3>2. \A x \in journal : x.message # m
        <4> SUFFICES ASSUME NEW x \in journal, x.message = m PROVE FALSE
          OBVIOUS
        <4>1. m # NoId
          BY <2>3, PipelineAssumption
        <4> QED BY <2>3, <2>5, <4>1 DEF Ledger!Conflicts
      <3>3. row.message = m
        OBVIOUS
      <3> HIDE DEF row, m
      <3> QED BY <2>1, <2>3, <3>1, <3>2, <3>3
    <2> QED BY <2>4, <2>5
  <1>2. ASSUME NEW t \in Ledger!Task, Ledger!SkipRecord(t) \/ Ledger!Idle(t)
        PROVE  topic' = topic /\ journal' = journal
    BY <1>2 DEF Ledger!SkipRecord, Ledger!Advance, Ledger!Idle, Ledger!ledgerVars
  <1>3. ASSUME NEW i \in LedgerInstance, Ledger!StopLedger(i) \/ Ledger!StartLedger(i)
        PROVE  topic' = topic /\ journal' = journal
    BY <1>3 DEF Ledger!StopLedger, Ledger!StartLedger
  <1> QED BY <1>1, <1>2, <1>3 DEF Ledger!LedgerNext, Ledger!LedgerStep

(***************************************************************************)
(* The invariant of the pipeline.                                           *)
(***************************************************************************)
LEMMA PipelineInitInv == Row # {} /\ Init => PipelineInv
  <1> SUFFICES ASSUME Row # {}, Init PROVE PipelineInv
    OBVIOUS
  <1>1. RelayInv
    BY RelayInitInv DEF Init
  <1>2. RelayTypeOK
    BY <1>1 DEF RelayInv
  <1>3. HeldAreCommitted /\ TopicIsCommitted
    BY DEF Init, RelayInit, HeldAreCommitted, TopicIsCommitted
  <1>4. OneRowPerMessage
    BY DEF Init, Ledger!LedgerInit, OneRowPerMessage
  <1> QED BY <1>2, <1>3, <1>4 DEF PipelineInv

LEMMA PipelineNextInv == PipelineInv /\ [Next]_pipelineVars => PipelineInv'
  <1> SUFFICES ASSUME PipelineInv, [Next]_pipelineVars PROVE PipelineInv'
    OBVIOUS
  <1> USE DEF PipelineInv
  <1>1. CASE [RelayNext]_relayVars /\ UNCHANGED ledger
    <2>1. RelayTypeOK' /\ HeldAreCommitted'
          /\ (UNCHANGED Enqueued
              \/ \E id \in Row : id \notin Enqueued /\ Enqueued' = Enqueued \cup {id})
      BY <1>1, RelayCommits
    <2>2. topic' = topic \/ \E id \in Enqueued : id \in Row /\ Write(id)
      BY <1>1, RelayWrites
    <2>3. Enqueued \subseteq Enqueued'
      BY <2>1
    <2>4. TopicIsCommitted'
      <3>1. CASE topic' = topic
        BY <2>3, <3>1 DEF TopicIsCommitted
      <3>2. CASE topic' # topic
        <4>1. PICK id \in Enqueued : id \in Row /\ Write(id)
          BY <2>2, <3>2
        <4>2. PICK q : q = PartitionOf[id]
          OBVIOUS
        <4>3. q \in Partition /\ topic[q] \in Seq(Row)
          BY <4>1, <4>2, RowAssumption DEF RelayTypeOK
        <4>4. topic' = [topic EXCEPT ![q] = Append(@, id)]
          BY <4>1, <4>2 DEF Write
        <4> SUFFICES ASSUME NEW p \in Partition, NEW n \in DOMAIN topic'[p]
                     PROVE  topic'[p][n] \in Enqueued'
          BY DEF TopicIsCommitted
        <4>5. topic'[p][n] = id \/ (n \in DOMAIN topic[p] /\ topic'[p][n] = topic[p][n])
          <5>1. CASE p = q
            <6>1. topic'[p] = Append(topic[q], id)
              BY <4>3, <4>4, <5>1 DEF RelayTypeOK
            <6> QED BY <6>1, <4>3, <5>1
          <5>2. CASE p # q
            BY <4>3, <4>4, <5>2 DEF RelayTypeOK
          <5> QED BY <5>1, <5>2
        <4> QED BY <2>3, <4>1, <4>5 DEF TopicIsCommitted
      <3> QED BY <3>1, <3>2
    <2>5. OneRowPerMessage'
      BY <1>1 DEF ledger, OneRowPerMessage
    <2> QED BY <2>1, <2>4, <2>5
  <1>2. CASE Ledger!LedgerNext
             /\ UNCHANGED <<status, due, stale, phase, batch, sending, failures, crashes>>
    <2>1. topic' = topic
      BY <1>2, LedgerAddsOne
    <2>2. Enqueued' = Enqueued
      BY <1>2 DEF Enqueued
    <2>3. RelayTypeOK' /\ HeldAreCommitted' /\ TopicIsCommitted'
      BY <1>2, <2>1, <2>2 DEF RelayTypeOK, HeldAreCommitted, TopicIsCommitted
    <2>4. \/ journal' = journal
          \/ \E row : /\ journal' = journal \cup {row}
                      /\ \A x \in journal : x.message # row.message
      BY <1>2, LedgerAddsOne
    <2>5. OneRowPerMessage'
      BY <2>4 DEF OneRowPerMessage
    <2> QED BY <2>3, <2>5
  <1> QED BY <1>1, <1>2 DEF Next, pipelineVars

(***************************************************************************)
(* Every step of the pipeline commits an event, journals a committed event  *)
(* that has no row yet, or changes neither.                                 *)
(***************************************************************************)
LEMMA PipelineStepJournals ==
  PipelineInv /\ [Next]_pipelineVars => [Accounting!Next]_(Accounting!vars)
  <1> DEFINE copies == [id \in Row |-> JournalCopies(id)]
  <1> SUFFICES ASSUME PipelineInv, [Next]_pipelineVars
               PROVE  Accounting!Next \/ UNCHANGED <<Enqueued, copies>>
    BY DEF Accounting!vars
  <1> USE DEF PipelineInv
  <1>1. CASE [RelayNext]_relayVars /\ UNCHANGED ledger
    <2>1. copies' = copies
      BY <1>1 DEF ledger, JournalCopies
    <2>2. UNCHANGED Enqueued
          \/ \E id \in Row : id \notin Enqueued /\ Enqueued' = Enqueued \cup {id}
      BY <1>1, RelayCommits
    <2> QED BY <2>1, <2>2 DEF Accounting!Next, Accounting!Commit
  <1>2. CASE Ledger!LedgerNext
             /\ UNCHANGED <<status, due, stale, phase, batch, sending, failures, crashes>>
    <2>1. Enqueued' = Enqueued
      BY <1>2 DEF Enqueued
    <2>2. CASE journal' = journal
      <3>1. copies' = copies
        BY <2>2 DEF JournalCopies
      <3> QED BY <2>1, <3>1
    <2>3. CASE journal' # journal
      <3>1. PICK row : /\ journal' = journal \cup {row}
                       /\ row.message \in Enqueued
                       /\ \A x \in journal : x.message # row.message
        BY <1>2, <2>3, LedgerAddsOne
      <3>2. PICK e : e = row.message
        OBVIOUS
      <3>3. e \in Enqueued /\ e \in Row
        BY <3>1, <3>2 DEF Enqueued
      <3>4. JournalCopies(e) = 0
        <4>1. {x \in journal : x.message = e} = {}
          BY <3>1, <3>2
        <4> QED BY <4>1, FS_EmptySet DEF JournalCopies
      <3>5. JournalCopies(e)' = 1
        <4>1. {x \in journal' : x.message = e} = {row}
          BY <3>1, <3>2
        <4>2. Cardinality({row}) = 1
          BY FS_Singleton
        <4> QED BY <4>1, <4>2 DEF JournalCopies
      <3>6. ASSUME NEW id \in Row, id # e PROVE JournalCopies(id)' = JournalCopies(id)
        <4>1. {x \in journal' : x.message = id} = {x \in journal : x.message = id}
          BY <3>1, <3>2, <3>6
        <4> QED BY <4>1 DEF JournalCopies
      <3>7. copies' = [copies EXCEPT ![e] = 1]
        BY <3>3, <3>5, <3>6
      <3>8. Accounting!Record(e)
        BY <2>1, <3>3, <3>4, <3>7 DEF Accounting!Record
      <3> QED BY <3>3, <3>8 DEF Accounting!Next
    <2> QED BY <2>2, <2>3
  <1>3. CASE UNCHANGED pipelineVars
    BY <1>1, <1>3 DEF pipelineVars
  <1> QED BY <1>1, <1>2, <1>3 DEF Next

(***************************************************************************)
(* Outbox, relays, topic and ledgers together journal every committed event *)
(* at most once and nothing else, for any number of relays and ledger       *)
(* instances: the ledger's unique event id makes up for every copy that     *)
(* crashes, failed publish calls and concurrent relays leave on the topic.  *)
(***************************************************************************)
THEOREM PipelineExactlyOnce ==
  ASSUME Row # {}
  PROVE  Spec => ExactlyOnce
  <1>1. Init => PipelineInv
    BY PipelineInitInv
  <1>2. PipelineInv /\ [Next]_pipelineVars => PipelineInv'
    BY PipelineNextInv
  <1>3. Init => Accounting!Init
    <2> SUFFICES ASSUME Init PROVE Accounting!Init
      OBVIOUS
    <2>1. Enqueued = {}
      BY DEF Init, RelayInit, Enqueued
    <2>2. \A id \in Row : JournalCopies(id) = 0
      <3>1. \A id \in Row : {x \in journal : x.message = id} = {}
        BY DEF Init, Ledger!LedgerInit
      <3> QED BY <3>1, FS_EmptySet DEF JournalCopies
    <2> QED BY <2>1, <2>2 DEF Accounting!Init
  <1> QED BY <1>1, <1>2, <1>3, PipelineStepJournals, PTL
          DEF Spec, ExactlyOnce, Accounting!ExactlyOnce
=============================================================================
