----------------------------- MODULE ServerProofs -----------------------------
(***************************************************************************)
(* What a handler or a poll calls complete is the verdict, no wakeup is     *)
(* lost and failed requests stay unknown, for any number of requests, users *)
(* and faults.                                                              *)
(***************************************************************************)
EXTENDS ServerProperties, TLAPS

Active == {"registered", "removing", "waiting"}

(***************************************************************************)
(* A request that anybody knows of has a handler.                           *)
(***************************************************************************)
KnownHaveHandlers ==
  \A r \in Request :
    \/ handler[r] # "idle" \/ r \in commands \/ walletSays[r] # "none" \/ records[r].owned
    => endpoint[r] \in Endpoint

(***************************************************************************)
(* NoLostWakeup from the registration on.                                   *)
(***************************************************************************)
ActiveAreRegistered ==
  \A r \in Request :
    /\ records[r].waiter => records[r].owned
    /\ handler[r] \in Active =>
         /\ records[r].owned
         /\ records[r].result \in FinalResults(KindOf(r)) => channel[r] # "none"
         /\ channel[r] = "none" => records[r].waiter

(***************************************************************************)
(* What is on the reply topics was said.                                    *)
(***************************************************************************)
RepliesWereSaid ==
  /\ \A n \in DOMAIN replyTopic["wallet.replies"] :
       walletSays[replyTopic["wallet.replies"][n].req] = replyTopic["wallet.replies"][n].result
  /\ \A n \in DOMAIN replyTopic["engine.replies"] :
       /\ engineSays[replyTopic["engine.replies"][n].req] = replyTopic["engine.replies"][n].result
       /\ Forwarded(replyTopic["engine.replies"][n].req)

(***************************************************************************)
(* What was sent to a waiter, and what a record calls complete, is final.   *)
(***************************************************************************)
CompleteIsVerdict ==
  /\ \A r \in Request :
       /\ channel[r] # "none" => channel[r] = Verdict(r)
       /\ handler[r] = "200 completed" => channel[r] # "none"
       /\ records[r].owned /\ records[r].complete => records[r].result = Verdict(r)
  /\ \A v \in views : v.user = Owner[v.req] /\ v.result = Verdict(v.req)

ServerInv ==
  /\ ServerTypeOK /\ KnownHaveHandlers /\ ActiveAreRegistered /\ RepliesWereSaid
  /\ CompleteIsVerdict /\ FailedStaysUnknown

-----------------------------------------------------------------------------
\* The final results of a request are replies, and never those that tell that
\* the engine is asked.
LEMMA FinalResultsAreFinal ==
  \A kind \in RequestKind :
    FinalResults(kind) \subseteq ReplyResult \ {"Pending", "FundsReserved", "CommandAccepted"}
  BY DEF RequestKind, FinalResults, ReplyResult, WalletReply, EngineReply

\* Wallet and engine answer with replies.
LEMMA AnswersAreReplies ==
  \A kind \in RequestKind :
    WalletAnswers(kind) \subseteq WalletReply /\ EngineAnswers(kind) \subseteq EngineReply
  BY DEF RequestKind, WalletAnswers, EngineAnswers, WalletReply, EngineReply

\* A request with a handler has a kind.
LEMMA KindOfKnown ==
  ASSUME NEW r \in Request, endpoint[r] \in Endpoint
  PROVE  KindOf(r) \in RequestKind
  BY DEF KindOf, Endpoint, RequestKind

\* "none" is no reply.
LEMMA NoneIsNoReply == "none" \notin ReplyResult
  BY DEF ReplyResult, WalletReply, EngineReply

-----------------------------------------------------------------------------
\* Head and Tail of a sequence that is not empty.
LEMMA HeadAndTail ==
  ASSUME NEW S, NEW s \in Seq(S), s # <<>>
  PROVE  /\ Head(s) \in S /\ 1 \in DOMAIN s /\ Head(s) = s[1]
         /\ Tail(s) \in Seq(S)
         /\ \A n \in DOMAIN Tail(s) : n + 1 \in DOMAIN s /\ Tail(s)[n] = s[n + 1]
  OBVIOUS

\* In the beginning nothing is known of any request.
LEMMA ServerInitInv == Init => ServerInv
<1> SUFFICES ASSUME Init PROVE ServerInv
  OBVIOUS
<1> USE RequestAssumption DEF Init
<1>1. ServerTypeOK
  BY DEF ServerTypeOK, Phase, PendingRequest, NoRecord, ReplyResult, Topic
<1>2. KnownHaveHandlers /\ ActiveAreRegistered /\ FailedStaysUnknown
  BY DEF KnownHaveHandlers, ActiveAreRegistered, FailedStaysUnknown, NoRecord, Active
<1>3. RepliesWereSaid /\ CompleteIsVerdict
  BY DEF RepliesWereSaid, CompleteIsVerdict, NoRecord, Topic
<1> QED
  BY <1>1, <1>2, <1>3 DEF ServerInv

-----------------------------------------------------------------------------
\* A step of a handler that changes nothing else.
LEMMA HandlerMoves ==
  ASSUME ServerInv, NEW r \in Request, NEW ph \in Phase \cup Response,
         ph \notin {"idle", "500 failed"},
         handler[r] # "idle", ph \in Active => handler[r] \in Active,
         ph = "200 completed" => channel[r] # "none",
         handler' = [handler EXCEPT ![r] = ph],
         UNCHANGED <<records, channel, environment, requests, replyTopic, consuming,
                     views, faults>>
  PROVE  ServerInv'
<1> USE DEF ServerInv
<1>1. UNCHANGED <<records, channel, walletSays, engineSays, replied, repeats, endpoint,
                  commands, replyTopic, consuming, views, errors, restarts>>
  BY DEF environment, requests, faults
<1>2. \A q \in Request : KindOf(q)' = KindOf(q) /\ Verdict(q)' = Verdict(q)
  BY <1>1 DEF KindOf, Verdict, Forwarded
<1>3. ServerTypeOK'
  BY <1>1 DEF ServerTypeOK
<1>4. KnownHaveHandlers' /\ FailedStaysUnknown'
  BY <1>1 DEF KnownHaveHandlers, FailedStaysUnknown, ServerTypeOK
<1>5. ActiveAreRegistered'
  BY <1>1, <1>2 DEF ActiveAreRegistered, ServerTypeOK
<1>6. RepliesWereSaid'
  BY <1>1 DEF RepliesWereSaid, Forwarded
<1>7. CompleteIsVerdict'
  BY <1>1, <1>2 DEF CompleteIsVerdict, ServerTypeOK
<1> QED
  BY <1>3, <1>4, <1>5, <1>6, <1>7

\* A handler registers its waiter.
LEMMA RegisterKeepsInv ==
  ASSUME ServerInv, NEW r \in Request, endpoint[r] \in Endpoint, Register(r)
  PROVE  ServerInv'
<1> USE DEF ServerInv
<1>1. /\ UNCHANGED <<channel, walletSays, engineSays, replied, repeats, endpoint, commands,
                     replyTopic, consuming, views, errors, restarts>>
      /\ handler[r] = "idle"
      /\ handler' = [handler EXCEPT ![r] = "registered"]
      /\ records' = [records EXCEPT ![r] =
           [owned |-> TRUE, result |-> "Pending", waiter |-> TRUE, complete |-> FALSE]]
  BY DEF Register, Goto, RegisterWaiter, environment, requests, faults
<1>2. \A q \in Request : KindOf(q)' = KindOf(q) /\ Verdict(q)' = Verdict(q)
  BY <1>1 DEF KindOf, Verdict, Forwarded
<1>3. "Pending" \notin FinalResults(KindOf(r))
  BY FinalResultsAreFinal, KindOfKnown
<1>4. ServerTypeOK'
  BY <1>1 DEF ServerTypeOK, Phase, PendingRequest, ReplyResult
<1>5. KnownHaveHandlers' /\ FailedStaysUnknown'
  BY <1>1 DEF KnownHaveHandlers, FailedStaysUnknown, ServerTypeOK
<1>6. ActiveAreRegistered'
  BY <1>1, <1>2, <1>3 DEF ActiveAreRegistered, ServerTypeOK, Active
<1>7. RepliesWereSaid'
  BY <1>1 DEF RepliesWereSaid, Forwarded
<1>8. CompleteIsVerdict'
  BY <1>1, <1>2 DEF CompleteIsVerdict, ServerTypeOK
<1> QED
  BY <1>4, <1>5, <1>6, <1>7, <1>8

\* A handler whose publish failed removes its record.
LEMMA RemoveWaiterKeepsInv ==
  ASSUME ServerInv, NEW r \in Request, RemoveWaiter(r)
  PROVE  ServerInv'
<1> USE DEF ServerInv
<1>1. /\ UNCHANGED <<channel, walletSays, engineSays, replied, repeats, endpoint, commands,
                     replyTopic, consuming, views, errors, restarts>>
      /\ handler[r] = "removing"
      /\ handler' = [handler EXCEPT ![r] = "500 failed"]
      /\ records' = [records EXCEPT ![r] = NoRecord]
  BY DEF RemoveWaiter, Goto, Remove, environment, requests, faults
<1>2. \A q \in Request : KindOf(q)' = KindOf(q) /\ Verdict(q)' = Verdict(q)
  BY <1>1 DEF KindOf, Verdict, Forwarded
<1>3. ServerTypeOK'
  BY <1>1 DEF ServerTypeOK, Response, PendingRequest, NoRecord, ReplyResult
<1>4. KnownHaveHandlers' /\ FailedStaysUnknown'
  BY <1>1 DEF KnownHaveHandlers, FailedStaysUnknown, ServerTypeOK, NoRecord
<1>5. ActiveAreRegistered'
  BY <1>1, <1>2 DEF ActiveAreRegistered, ServerTypeOK, Active, NoRecord
<1>6. RepliesWereSaid'
  BY <1>1 DEF RepliesWereSaid, Forwarded
<1>7. CompleteIsVerdict'
  BY <1>1, <1>2 DEF CompleteIsVerdict, ServerTypeOK, NoRecord
<1> QED
  BY <1>3, <1>4, <1>5, <1>6, <1>7

\* A step that changes neither handlers, records, channels nor what was said:
\* the broker takes a command, a consumer fails.
LEMMA BrokerStepsKeepInv ==
  ASSUME ServerInv,
         \/ \E r \in Request : CommandArrives(r)
         \/ \E t \in Topic : ConsumerFails(t)
         \/ UNCHANGED vars
  PROVE  ServerInv'
<1> USE DEF ServerInv
<1>1. UNCHANGED <<handler, records, channel, walletSays, engineSays, replied, repeats,
                  endpoint, replyTopic, views, restarts>>
  BY DEF CommandArrives, ConsumerFails, vars, environment, requests, faults
<1>2. \A q \in Request : KindOf(q)' = KindOf(q) /\ Verdict(q)' = Verdict(q)
  BY <1>1 DEF KindOf, Verdict, Forwarded
<1>3. /\ commands' \subseteq Request /\ consuming' \subseteq Topic /\ errors' \in Nat
      /\ \A q \in commands' : q \in commands \/ handler[q] # "idle"
  BY DEF ServerTypeOK, CommandArrives, ConsumerFails, vars, requests, faults
<1>4. ServerTypeOK'
  BY <1>1, <1>3 DEF ServerTypeOK
<1>5. KnownHaveHandlers' /\ FailedStaysUnknown'
  BY <1>1, <1>3 DEF KnownHaveHandlers, FailedStaysUnknown
<1>6. ActiveAreRegistered'
  BY <1>1, <1>2 DEF ActiveAreRegistered
<1>7. RepliesWereSaid'
  BY <1>1 DEF RepliesWereSaid, Forwarded
<1>8. CompleteIsVerdict'
  BY <1>1, <1>2 DEF CompleteIsVerdict, ServerTypeOK
<1> QED
  BY <1>4, <1>5, <1>6, <1>7, <1>8

\* A poll shows what a complete record holds.
LEMMA PollKeepsInv ==
  ASSUME ServerInv, NEW u \in User, NEW r \in Request, Poll(u, r)
  PROVE  ServerInv'
<1> USE DEF ServerInv
<1>1. UNCHANGED <<handler, records, channel, walletSays, engineSays, replied, repeats,
                  endpoint, commands, replyTopic, consuming, errors, restarts>>
  BY DEF Poll, environment, requests, faults
<1>2. \A q \in Request : KindOf(q)' = KindOf(q) /\ Verdict(q)' = Verdict(q)
  BY <1>1 DEF KindOf, Verdict, Forwarded
<1>3. /\ views' = views \cup {[user |-> u, req |-> r, result |-> records[r].result]}
      /\ records[r].result = Verdict(r) /\ Owner[r] = u
  BY DEF Poll, CompleteIsVerdict
<1>4. ServerTypeOK'
  <2> DEFINE shown == [user |-> u, req |-> r, result |-> records[r].result]
  <2>1. records[r].result \in ReplyResult
    BY DEF ServerTypeOK, PendingRequest
  <2>2. shown \in [user: User, req: Request, result: ReplyResult]
    BY <2>1
  <2>3. views' \subseteq [user: User, req: Request, result: ReplyResult]
    BY <1>3, <2>2 DEF ServerTypeOK
  <2> QED
    BY <1>1, <2>3 DEF ServerTypeOK
<1>5. KnownHaveHandlers' /\ FailedStaysUnknown'
  BY <1>1 DEF KnownHaveHandlers, FailedStaysUnknown
<1>6. ActiveAreRegistered'
  BY <1>1, <1>2 DEF ActiveAreRegistered
<1>7. RepliesWereSaid'
  BY <1>1 DEF RepliesWereSaid, Forwarded
<1>8. CompleteIsVerdict'
  <2>1. ASSUME NEW v \in views'
        PROVE  v.req \in Request /\ v.user = Owner[v.req] /\ v.result = Verdict(v.req)
    <3>1. CASE v \in views
      BY <3>1 DEF CompleteIsVerdict, ServerTypeOK
    <3>2. CASE v = [user |-> u, req |-> r, result |-> records[r].result]
      BY <1>3, <3>2
    <3> QED
      BY <1>3, <3>1, <3>2
  <2> QED
    BY <1>1, <1>2, <2>1 DEF CompleteIsVerdict
<1> QED
  BY <1>4, <1>5, <1>6, <1>7, <1>8

\* A restarted server knows nothing.
LEMMA RestartKeepsInv ==
  ASSUME ServerInv, RestartServer
  PROVE  ServerInv'
<1> USE DEF ServerInv
<1>1. /\ UNCHANGED <<channel, walletSays, engineSays, replied, repeats, endpoint, commands,
                     views, errors>>
      /\ handler' = [r \in Request |->
           IF handler[r] \in Phase \ {"idle"} THEN "disconnected" ELSE handler[r]]
      /\ records' = [r \in Request |-> NoRecord]
      /\ replyTopic' = [t \in Topic |-> <<>>]
      /\ consuming' = Topic /\ restarts' = restarts + 1
  BY DEF RestartServer, environment, requests, faults
<1>2. \A q \in Request : KindOf(q)' = KindOf(q) /\ Verdict(q)' = Verdict(q)
  BY <1>1 DEF KindOf, Verdict, Forwarded
<1>3. ServerTypeOK'
  <2>1. handler' \in [Request -> Phase \cup Response]
    BY <1>1 DEF ServerTypeOK, Response
  <2>2. records' \in [Request -> PendingRequest]
    BY <1>1 DEF PendingRequest, NoRecord, ReplyResult
  <2>3. replyTopic' \in [Topic -> Seq([req: Request, result: ReplyResult])]
    BY <1>1
  <2> QED
    BY <1>1, <2>1, <2>2, <2>3 DEF ServerTypeOK
<1>4. KnownHaveHandlers' /\ FailedStaysUnknown'
  BY <1>1 DEF KnownHaveHandlers, FailedStaysUnknown, ServerTypeOK, NoRecord
<1>5. ActiveAreRegistered'
  BY <1>1 DEF ActiveAreRegistered, ServerTypeOK, Active, NoRecord, Phase
<1>6. RepliesWereSaid'
  BY <1>1 DEF RepliesWereSaid, Topic
<1>7. CompleteIsVerdict'
  BY <1>1, <1>2 DEF CompleteIsVerdict, ServerTypeOK, NoRecord
<1> QED
  BY <1>3, <1>4, <1>5, <1>6, <1>7

\* A reply at hand is what wallet or engine said; a final one is the verdict.
LEMMA RepliesAtHand ==
  ASSUME ServerInv, NEW t \in Topic, replyTopic[t] # <<>>
  PROVE  /\ Head(replyTopic[t]) \in [req: Request, result: ReplyResult]
         /\ \A kind \in RequestKind :
              Head(replyTopic[t]).result \in FinalResults(kind) =>
                Head(replyTopic[t]).result = Verdict(Head(replyTopic[t]).req)
<1> DEFINE reply == Head(replyTopic[t])
<1>1. replyTopic[t] \in Seq([req: Request, result: ReplyResult])
  BY DEF ServerInv, ServerTypeOK
<1>2. reply \in [req: Request, result: ReplyResult]
  BY <1>1, HeadAndTail
<1>3. 1 \in DOMAIN replyTopic[t] /\ reply = replyTopic[t][1]
  BY <1>1, HeadAndTail
<1>4. CASE t = "wallet.replies"
  <2>1. walletSays[reply.req] = reply.result
    BY <1>3, <1>4 DEF ServerInv, RepliesWereSaid
  <2> SUFFICES ASSUME NEW kind \in RequestKind, reply.result \in FinalResults(kind)
               PROVE  reply.result = Verdict(reply.req)
    BY <1>2
  <2>2. reply.result \notin {"FundsReserved", "CommandAccepted"}
    BY FinalResultsAreFinal
  <2> QED
    BY <2>1, <2>2 DEF Verdict, Forwarded
<1>5. CASE t = "engine.replies"
  <2>1. engineSays[reply.req] = reply.result /\ Forwarded(reply.req)
    BY <1>3, <1>5 DEF ServerInv, RepliesWereSaid
  <2> QED
    BY <1>2, <2>1 DEF Verdict
<1> QED
  BY <1>4, <1>5 DEF Topic

\* resolve, by either of the consumers.
LEMMA ConsumeKeepsInv ==
  ASSUME ServerInv, NEW t \in Topic, Consume(t)
  PROVE  ServerInv'
<1> USE DEF ServerInv
<1> DEFINE r == Head(replyTopic[t]).req
           result == Head(replyTopic[t]).result
           final == records[r].owned => result \in FinalResults(KindOf(r))
<1>1. /\ UNCHANGED <<handler, walletSays, engineSays, replied, repeats, endpoint, commands,
                     consuming, views, errors, restarts>>
      /\ replyTopic[t] # <<>>
      /\ replyTopic' = [replyTopic EXCEPT ![t] = Tail(@)]
      /\ records' = [records EXCEPT ![r] =
           [owned |-> records[r].owned, result |-> result,
            waiter |-> records[r].waiter /\ ~final, complete |-> final]]
      /\ channel' = [channel EXCEPT ![r] = IF final /\ records[r].waiter THEN result ELSE @]
  BY DEF Consume, Resolve, environment, requests, faults
<1>2. \A q \in Request : KindOf(q)' = KindOf(q) /\ Verdict(q)' = Verdict(q)
  BY <1>1 DEF KindOf, Verdict, Forwarded
<1>3. r \in Request /\ result \in ReplyResult /\ result # "none"
  BY <1>1, RepliesAtHand, NoneIsNoReply
<1>4. ASSUME final, records[r].owned
      PROVE  result = Verdict(r)
  <2>1. KindOf(r) \in RequestKind
    BY <1>3, <1>4, KindOfKnown DEF KnownHaveHandlers
  <2> QED
    BY <1>1, <1>4, <2>1, RepliesAtHand
<1> HIDE DEF r, result
<1>a. \A q \in Request : records[q] \in PendingRequest
  BY DEF ServerTypeOK
<1>b. \A q \in Request : q # r => records'[q] = records[q] /\ channel'[q] = channel[q]
  BY <1>1, <1>3 DEF ServerTypeOK
<1>c. channel'[r] = IF final /\ records[r].waiter THEN result ELSE channel[r]
  BY <1>1, <1>3 DEF ServerTypeOK
<1>d. records'[r] = [owned |-> records[r].owned, result |-> result,
                     waiter |-> records[r].waiter /\ ~final, complete |-> final]
  BY <1>1, <1>3 DEF ServerTypeOK
<1>5. /\ records'[r] \in PendingRequest
      /\ records'[r].owned = records[r].owned
      /\ records'[r].result = result
      /\ records'[r].waiter <=> records[r].waiter /\ ~final
      /\ records'[r].complete <=> final
  <2>1. /\ final \in BOOLEAN
        /\ records[r].waiter \in BOOLEAN /\ records[r].owned \in BOOLEAN
    BY <1>3, <1>a DEF PendingRequest
  <2> HIDE DEF final
  <2>2. (records[r].waiter /\ ~final) \in BOOLEAN
    OBVIOUS
  <2>3. records'[r] \in PendingRequest
    BY <1>3, <1>d, <2>1, <2>2 DEF PendingRequest
  <2>4. records'[r].owned = records[r].owned /\ records'[r].result = result
    BY <1>d
  <2>5. records'[r].waiter <=> records[r].waiter /\ ~final
    <3> DEFINE waits == records[r].waiter /\ ~final
    <3>1. records'[r] = [owned |-> records[r].owned, result |-> result,
                         waiter |-> waits, complete |-> final]
      BY <1>d
    <3> HIDE DEF waits
    <3>2. records'[r].waiter = waits
      BY <3>1
    <3> QED
      BY <3>2 DEF waits
  <2>6. records'[r].complete <=> final
    BY <1>d
  <2> QED
    BY <2>3, <2>4, <2>5, <2>6
<1>6. ServerTypeOK'
  <2>1. records' \in [Request -> PendingRequest]
    BY <1>1, <1>3, <1>5, <1>a, <1>b DEF ServerTypeOK
  <2>2. channel' \in [Request -> ReplyResult \cup {"none"}]
    BY <1>1, <1>3 DEF ServerTypeOK
  <2>3. replyTopic' \in [Topic -> Seq([req: Request, result: ReplyResult])]
    <3> DEFINE Replies == [req: Request, result: ReplyResult]
    <3>1. replyTopic \in [Topic -> Seq(Replies)]
      BY DEF ServerTypeOK
    <3> HIDE DEF Replies
    <3>2. Tail(replyTopic[t]) \in Seq(Replies)
      BY <1>1, <3>1, HeadAndTail
    <3>3. replyTopic' \in [Topic -> Seq(Replies)]
      BY <1>1, <3>1, <3>2
    <3> QED
      BY <3>3 DEF Replies
  <2> QED
    BY <1>1, <2>1, <2>2, <2>3 DEF ServerTypeOK
<1>7. \A q \in Request : records'[q].owned = records[q].owned
  BY <1>5, <1>b
<1>8. KnownHaveHandlers' /\ FailedStaysUnknown'
  BY <1>1, <1>7 DEF KnownHaveHandlers, FailedStaysUnknown
<1>9. ActiveAreRegistered'
  <2> SUFFICES ASSUME NEW q \in Request
               PROVE  /\ records'[q].waiter => records'[q].owned
                      /\ handler[q] \in Active =>
                           /\ records'[q].owned
                           /\ records'[q].result \in FinalResults(KindOf(q)) => channel'[q] # "none"
                           /\ channel'[q] = "none" => records'[q].waiter
    BY <1>1, <1>2 DEF ActiveAreRegistered
  <2>1. CASE q # r
    BY <1>b, <2>1 DEF ActiveAreRegistered
  <2>2. CASE q = r
    BY <1>3, <1>5, <1>c, <2>2 DEF ActiveAreRegistered
  <2> QED
    BY <2>1, <2>2
<1>10. RepliesWereSaid'
  <2>1. ASSUME NEW p \in Topic
        PROVE  \A n \in DOMAIN replyTopic'[p] :
                 \E k \in DOMAIN replyTopic[p] : replyTopic'[p][n] = replyTopic[p][k]
    BY <1>1 DEF ServerTypeOK
  <2> QED
    BY <1>1, <2>1 DEF RepliesWereSaid, Topic, Forwarded
<1>11. CompleteIsVerdict'
  <2> SUFFICES ASSUME NEW q \in Request
               PROVE  /\ channel'[q] # "none" => channel'[q] = Verdict(q)
                      /\ handler[q] = "200 completed" => channel'[q] # "none"
                      /\ records'[q].owned /\ records'[q].complete =>
                           records'[q].result = Verdict(q)
    BY <1>1, <1>2 DEF CompleteIsVerdict, ServerTypeOK
  <2>1. CASE q # r
    BY <1>b, <2>1 DEF CompleteIsVerdict
  <2>2. CASE q = r
    BY <1>3, <1>4, <1>5, <1>c, <2>2 DEF CompleteIsVerdict, ActiveAreRegistered
  <2> QED
    BY <2>1, <2>2
<1> QED
  BY <1>6, <1>8, <1>9, <1>10, <1>11

-----------------------------------------------------------------------------
\* The replies on a topic are replies.
LEMMA RepliesAreTyped ==
  ASSUME ServerInv, NEW t \in Topic, NEW n \in DOMAIN replyTopic[t]
  PROVE  replyTopic[t][n].req \in Request /\ replyTopic[t][n].result # "none"
<1> DEFINE Replies == [req: Request, result: ReplyResult]
<1>1. replyTopic[t] \in Seq(Replies)
  BY DEF ServerInv, ServerTypeOK
<1> HIDE DEF Replies
<1>2. replyTopic[t][n] \in Replies
  BY <1>1
<1> QED
  BY <1>2, NoneIsNoReply DEF Replies

\* What is appended to a topic is the only new reply.
LEMMA ProduceAppends ==
  ASSUME ServerInv, NEW t \in Topic, NEW r \in Request, NEW result \in ReplyResult,
         Produce(t, r, result)
  PROVE  /\ replyTopic' \in [Topic -> Seq([req: Request, result: ReplyResult])]
         /\ \A p \in Topic : p # t => replyTopic'[p] = replyTopic[p]
         /\ \A n \in DOMAIN replyTopic'[t] :
              \/ n \in DOMAIN replyTopic[t] /\ replyTopic'[t][n] = replyTopic[t][n]
              \/ replyTopic'[t][n] = [req |-> r, result |-> result]
<1> DEFINE Replies == [req: Request, result: ReplyResult]
           reply == [req |-> r, result |-> result]
<1>1. replyTopic \in [Topic -> Seq(Replies)] /\ reply \in Replies
  BY DEF ServerInv, ServerTypeOK
<1>2. replyTopic' = [replyTopic EXCEPT ![t] = Append(@, reply)]
  BY DEF Produce
<1> HIDE DEF Replies, reply
<1>3. /\ replyTopic' \in [Topic -> Seq(Replies)]
      /\ \A p \in Topic : p # t => replyTopic'[p] = replyTopic[p]
      /\ \A n \in DOMAIN replyTopic'[t] :
           \/ n \in DOMAIN replyTopic[t] /\ replyTopic'[t][n] = replyTopic[t][n]
           \/ replyTopic'[t][n] = reply
  BY <1>1, <1>2
<1> QED
  BY <1>3 DEF Replies, reply

\* Nothing is known of a request about which the wallet has said nothing.
LEMMA UndecidedAreIncomplete ==
  ASSUME ServerInv, NEW r \in Request, walletSays[r] = "none"
  PROVE  /\ channel[r] = "none" /\ ~(records[r].owned /\ records[r].complete)
         /\ \A v \in views : v.req # r
<1>1. Verdict(r) = "none"
  BY DEF Verdict, Forwarded
<1>2. records[r].result # "none" /\ \A v \in views : v.result # "none"
  BY NoneIsNoReply DEF ServerInv, ServerTypeOK, PendingRequest
<1> QED
  BY <1>1, <1>2 DEF ServerInv, CompleteIsVerdict

\* The wallet decides a request once.
LEMMA WalletDecidesKeepsInv ==
  ASSUME ServerInv, NEW r \in Request, WalletDecides(r)
  PROVE  ServerInv'
<1> USE DEF ServerInv
<1>1. /\ UNCHANGED <<handler, records, channel, engineSays, replied, repeats, endpoint,
                     commands, replyTopic, consuming, views, errors, restarts>>
      /\ r \in commands /\ walletSays[r] = "none"
  BY DEF WalletDecides, requests, faults
<1>2. PICK says \in WalletAnswers(KindOf(r)) : walletSays' = [walletSays EXCEPT ![r] = says]
  BY DEF WalletDecides
<1>3. endpoint[r] \in Endpoint /\ says \in WalletReply
  BY <1>1, <1>2, KindOfKnown, AnswersAreReplies DEF KnownHaveHandlers
<1>4. \A q \in Request : KindOf(q)' = KindOf(q)
  BY <1>1 DEF KindOf
<1>5. \A q \in Request : q # r => Verdict(q)' = Verdict(q)
  BY <1>1, <1>2 DEF Verdict, Forwarded, ServerTypeOK
<1>6. ServerTypeOK'
  BY <1>1, <1>2, <1>3 DEF ServerTypeOK
<1>7. KnownHaveHandlers' /\ FailedStaysUnknown'
  BY <1>1, <1>2, <1>3 DEF KnownHaveHandlers, FailedStaysUnknown, ServerTypeOK
<1>8. ActiveAreRegistered'
  BY <1>1, <1>4 DEF ActiveAreRegistered
<1>9. RepliesWereSaid'
  <2>1. \A t \in Topic : \A n \in DOMAIN replyTopic[t] :
          replyTopic[t][n].req \in Request /\ replyTopic[t][n].result # "none"
    BY RepliesAreTyped
  <2>2. \A q \in Request : q # r => walletSays'[q] = walletSays[q]
    BY <1>2 DEF ServerTypeOK
  <2>3. ~Forwarded(r)
    BY <1>1 DEF Forwarded
  <2> QED
    BY <1>1, <2>1, <2>2, <2>3 DEF RepliesWereSaid, Topic, Forwarded
<1>10. CompleteIsVerdict'
  <2>1. \A v \in views : v.req \in Request
    BY DEF ServerTypeOK
  <2>2. /\ channel[r] = "none" /\ ~(records[r].owned /\ records[r].complete)
        /\ \A v \in views : v.req # r
    BY <1>1, UndecidedAreIncomplete
  <2>3. \A v \in views : v.user = Owner[v.req] /\ v.result = Verdict(v.req)'
    BY <1>5, <2>1, <2>2 DEF CompleteIsVerdict
  <2>4. ASSUME NEW q \in Request
        PROVE  /\ channel[q] # "none" => channel[q] = Verdict(q)'
               /\ handler[q] = "200 completed" => channel[q] # "none"
               /\ records[q].owned /\ records[q].complete => records[q].result = Verdict(q)'
    BY <1>5, <2>2 DEF CompleteIsVerdict
  <2> QED
    BY <1>1, <2>3, <2>4 DEF CompleteIsVerdict
<1> QED
  BY <1>6, <1>7, <1>8, <1>9, <1>10

\* The wallet publishes its reply, perhaps again.
LEMMA WalletRepliesKeepsInv ==
  ASSUME ServerInv, NEW r \in Request, WalletReplies(r)
  PROVE  ServerInv'
<1> USE DEF ServerInv
<1>1. /\ UNCHANGED <<handler, records, channel, walletSays, engineSays, endpoint, commands,
                     consuming, views, errors, restarts>>
      /\ walletSays[r] # "none" /\ replied' = replied \cup {r}
      /\ repeats' = IF r \in replied THEN repeats + 1 ELSE repeats
      /\ Produce("wallet.replies", r, walletSays[r])
  BY DEF WalletReplies, requests, faults
<1>2. walletSays[r] \in ReplyResult /\ "wallet.replies" \in Topic
  BY <1>1 DEF ServerTypeOK, ReplyResult, Topic
<1>3. \A q \in Request : KindOf(q)' = KindOf(q) /\ Verdict(q)' = Verdict(q)
  BY <1>1 DEF KindOf, Verdict, Forwarded
<1>a. /\ replyTopic' \in [Topic -> Seq([req: Request, result: ReplyResult])]
      /\ \A p \in Topic : p # "wallet.replies" => replyTopic'[p] = replyTopic[p]
      /\ \A n \in DOMAIN replyTopic'["wallet.replies"] :
           \/ /\ n \in DOMAIN replyTopic["wallet.replies"]
              /\ replyTopic'["wallet.replies"][n] = replyTopic["wallet.replies"][n]
           \/ replyTopic'["wallet.replies"][n] = [req |-> r, result |-> walletSays[r]]
  BY <1>1, <1>2, ProduceAppends
<1>4. ServerTypeOK'
  <2>1. replied' \subseteq Request /\ repeats' \in Nat
    BY <1>1 DEF ServerTypeOK
  <2> QED
    BY <1>1, <1>a, <2>1 DEF ServerTypeOK
<1>5. KnownHaveHandlers' /\ FailedStaysUnknown'
  BY <1>1 DEF KnownHaveHandlers, FailedStaysUnknown
<1>6. ActiveAreRegistered'
  BY <1>1, <1>3 DEF ActiveAreRegistered
<1>7. RepliesWereSaid'
  <2>1. replyTopic'["engine.replies"] = replyTopic["engine.replies"]
    BY <1>a DEF Topic
  <2>2. ASSUME NEW n \in DOMAIN replyTopic'["wallet.replies"]
        PROVE  walletSays[replyTopic'["wallet.replies"][n].req]
                 = replyTopic'["wallet.replies"][n].result
    BY <1>a DEF RepliesWereSaid
  <2> QED
    BY <1>1, <2>1, <2>2 DEF RepliesWereSaid, Forwarded
<1>8. CompleteIsVerdict'
  BY <1>1, <1>3 DEF CompleteIsVerdict, ServerTypeOK
<1> QED
  BY <1>4, <1>5, <1>6, <1>7, <1>8

\* The engine answers, and always the same.
LEMMA EngineRepliesKeepsInv ==
  ASSUME ServerInv, NEW r \in Request, EngineReplies(r)
  PROVE  ServerInv'
<1> USE DEF ServerInv
<1>1. /\ UNCHANGED <<handler, records, channel, walletSays, replied, endpoint, commands,
                     consuming, views, errors, restarts>>
      /\ Forwarded(r)
      /\ repeats' \in {repeats, repeats + 1}
  BY DEF EngineReplies, requests, faults
<1>2. PICK says \in EngineAnswers(KindOf(r)) :
        /\ engineSays[r] \in {"none", says}
        /\ engineSays' = [engineSays EXCEPT ![r] = says]
        /\ Produce("engine.replies", r, says)
  BY DEF EngineReplies
<1>3. endpoint[r] \in Endpoint
  BY <1>1 DEF KnownHaveHandlers, Forwarded
<1>4. says \in EngineReply /\ says \in ReplyResult /\ "engine.replies" \in Topic
  BY <1>2, <1>3, KindOfKnown, AnswersAreReplies DEF ReplyResult, Topic
<1>5. \A q \in Request : engineSays[q] # "none" => engineSays'[q] = engineSays[q]
  BY <1>2 DEF ServerTypeOK
<1>6. \A q \in Request : KindOf(q)' = KindOf(q)
  BY <1>1 DEF KindOf
<1>7. \A q \in Request : Verdict(q) # "none" => Verdict(q)' = Verdict(q)
  BY <1>1, <1>5 DEF Verdict, Forwarded
<1>a. /\ replyTopic' \in [Topic -> Seq([req: Request, result: ReplyResult])]
      /\ \A p \in Topic : p # "engine.replies" => replyTopic'[p] = replyTopic[p]
      /\ \A n \in DOMAIN replyTopic'["engine.replies"] :
           \/ /\ n \in DOMAIN replyTopic["engine.replies"]
              /\ replyTopic'["engine.replies"][n] = replyTopic["engine.replies"][n]
           \/ replyTopic'["engine.replies"][n] = [req |-> r, result |-> says]
  BY <1>2, <1>4, ProduceAppends
<1>8. ServerTypeOK'
  <2>1. engineSays' \in [Request -> EngineReply \cup {"none"}] /\ repeats' \in Nat
    BY <1>1, <1>2, <1>4 DEF ServerTypeOK
  <2> QED
    BY <1>1, <1>a, <2>1 DEF ServerTypeOK
<1>9. KnownHaveHandlers' /\ FailedStaysUnknown'
  BY <1>1 DEF KnownHaveHandlers, FailedStaysUnknown
<1>10. ActiveAreRegistered'
  BY <1>1, <1>6 DEF ActiveAreRegistered
<1>11. RepliesWereSaid'
  <2>1. \A n \in DOMAIN replyTopic["engine.replies"] :
          /\ replyTopic["engine.replies"][n].req \in Request
          /\ replyTopic["engine.replies"][n].result # "none"
    BY <1>4, RepliesAreTyped
  <2>2. engineSays'[r] = says
    BY <1>2 DEF ServerTypeOK
  <2>3. replyTopic'["wallet.replies"] = replyTopic["wallet.replies"]
    BY <1>a DEF Topic
  <2>4. ASSUME NEW n \in DOMAIN replyTopic'["engine.replies"]
        PROVE  /\ engineSays'[replyTopic'["engine.replies"][n].req]
                    = replyTopic'["engine.replies"][n].result
               /\ Forwarded(replyTopic'["engine.replies"][n].req)
    <3>1. CASE n \in DOMAIN replyTopic["engine.replies"] /\
               replyTopic'["engine.replies"][n] = replyTopic["engine.replies"][n]
      BY <1>5, <2>1, <3>1 DEF RepliesWereSaid
    <3>2. CASE replyTopic'["engine.replies"][n] = [req |-> r, result |-> says]
      BY <1>1, <2>2, <3>2
    <3> QED
      BY <1>a, <3>1, <3>2
  <2> QED
    BY <1>1, <2>3, <2>4 DEF RepliesWereSaid, Forwarded
<1>12. CompleteIsVerdict'
  <2>1. \A v \in views : v.req \in Request /\ v.result # "none"
    BY NoneIsNoReply DEF ServerTypeOK
  <2>2. \A q \in Request : records[q].result # "none"
    BY NoneIsNoReply DEF ServerTypeOK, PendingRequest
  <2> QED
    BY <1>1, <1>7, <2>1, <2>2 DEF CompleteIsVerdict
<1> QED
  BY <1>8, <1>9, <1>10, <1>11, <1>12

-----------------------------------------------------------------------------
\* One step per action.
LEMMA ServerStepInv == ServerInv /\ [Next]_vars => ServerInv'
<1> SUFFICES ASSUME ServerInv, [Next]_vars PROVE ServerInv'
  OBVIOUS
<1>1. ASSUME NEW r \in Request,
             \/ AddBalance(r) \/ WithdrawBalance(r) \/ PlaceOrder(r) \/ CancelOrder(r)
             \/ ClosePosition(r)
      PROVE  ServerInv'
  <2>1. endpoint[r] \in Endpoint /\ Register(r)
    BY <1>1 DEF AddBalance, WithdrawBalance, PlaceOrder, CancelOrder, ClosePosition, Endpoint
  <2> QED
    BY <2>1, RegisterKeepsInv
<1>2. ASSUME NEW r \in Request, PublishSucceeds(r) PROVE ServerInv'
  <2>1. "waiting" \in Phase \cup Response
    BY DEF Phase
  <2> QED
    BY <1>2, <2>1, HandlerMoves DEF PublishSucceeds, Goto, Active
<1>3. ASSUME NEW r \in Request, PublishFails(r) PROVE ServerInv'
  <2>1. "removing" \in Phase \cup Response
    BY DEF Phase
  <2> QED
    BY <1>3, <2>1, HandlerMoves DEF PublishFails, Goto, Active
<1>4. ASSUME NEW r \in Request, ReceiveReply(r) PROVE ServerInv'
  <2>1. "200 completed" \in Phase \cup Response
    BY DEF Response
  <2> QED
    BY <1>4, <2>1, HandlerMoves DEF ReceiveReply, Goto, Active
<1>5. ASSUME NEW r \in Request, TimeOut(r) PROVE ServerInv'
  <2>1. "202 queued" \in Phase \cup Response
    BY DEF Response
  <2> QED
    BY <1>5, <2>1, HandlerMoves DEF TimeOut, Goto, Active
<1>6. ASSUME NEW r \in Request, Disconnect(r) PROVE ServerInv'
  <2>1. "disconnected" \in Phase \cup Response
    BY DEF Response
  <2> QED
    BY <1>6, <2>1, HandlerMoves DEF Disconnect, Goto, Active
<1>7. ASSUME NEW r \in Request, HandlerStep(r) PROVE ServerInv'
  BY <1>1, <1>2, <1>3, <1>4, <1>5, <1>7, RemoveWaiterKeepsInv DEF HandlerStep
<1>8. ASSUME NEW r \in Request, BackendStep(r) PROVE ServerInv'
  BY <1>8, WalletDecidesKeepsInv, WalletRepliesKeepsInv, EngineRepliesKeepsInv DEF BackendStep
<1>9. ASSUME NEW t \in Topic, FetchNothing(t) PROVE ServerInv'
  BY <1>9, BrokerStepsKeepInv DEF FetchNothing
<1> QED
  BY <1>6, <1>7, <1>8, <1>9, PollKeepsInv, ConsumeKeepsInv, RestartKeepsInv,
     BrokerStepsKeepInv DEF Next

\* What the invariant is for.
LEMMA ServerInvImplies == ServerInv => AnswersAreVerdicts /\ NoLostWakeup /\ FailedStaysUnknown
<1> SUFFICES ASSUME ServerInv PROVE AnswersAreVerdicts /\ NoLostWakeup /\ FailedStaysUnknown
  OBVIOUS
<1>1. AnswersAreVerdicts
  BY DEF ServerInv, CompleteIsVerdict, AnswersAreVerdicts
<1>2. NoLostWakeup
  BY DEF ServerInv, ActiveAreRegistered, NoLostWakeup, Active
<1> QED
  BY <1>1, <1>2 DEF ServerInv

\* The invariant holds in every behaviour.
LEMMA ServerInvariant == Spec => []ServerInv
  BY ServerInitInv, ServerStepInv, PTL DEF Spec

(***************************************************************************)
(* What final_or_queued_response answers with 200 and get_request_status    *)
(* shows as complete is what wallet and engine decided in the end, for any  *)
(* number of requests, repeated and reordered replies and faults.           *)
(***************************************************************************)
THEOREM ServerAnswersAreVerdicts == Spec => []AnswersAreVerdicts
  BY ServerInvariant, ServerInvImplies, PTL

(***************************************************************************)
(* No reply that resolve stores as final misses the handler that waits.     *)
(***************************************************************************)
THEOREM ServerNoLostWakeup == Spec => []NoLostWakeup
  BY ServerInvariant, ServerInvImplies, PTL

(***************************************************************************)
(* A request answered with 500 stays unknown whatever replies come in.      *)
(***************************************************************************)
THEOREM ServerFailedStaysUnknown == Spec => []FailedStaysUnknown
  BY ServerInvariant, ServerInvImplies, PTL
=============================================================================
