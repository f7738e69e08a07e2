---------------------------- MODULE ServerReplies ----------------------------
(***************************************************************************)
(* How the API server answers the requests it queues: the handlers of       *)
(* deposits, withdrawals, orders, cancels and closes of positions, the      *)
(* in-memory ReplyState of apps/server/src/replies.rs, and the two tasks    *)
(* that consume wallet.replies and engine.replies independently.            *)
(*                                                                          *)
(* A request is its request_id, a fresh uuid; Owner is the user who sends   *)
(* it and endpoint the handler that gets it.  A reply is its type: nothing  *)
(* else of it is looked at.  wallet and engine are the environment.         *)
(***************************************************************************)
EXTENDS Naturals, Sequences, FiniteSets

CONSTANTS
  Request, User, Owner,
  Workload,     \* which handlers the requests go to, "none" when there is none
  MaxRepeats,   \* bound: replies published again by a restarted wallet or engine
  MaxFaults     \* bound: failing reply consumers and restarts of the server

RequestKind == {"Deposit", "Withdraw", "PlaceOrder", "CancelOrder"}
Endpoint ==
  {"add_balance", "withdraw_balance", "place_order", "cancel_order", "close_position"}

ASSUME RequestAssumption ==
  /\ Owner \in [Request -> User]
  /\ Workload \subseteq [Request -> Endpoint \cup {"none"}]
  /\ MaxRepeats \in Nat /\ MaxFaults \in Nat

VARIABLES
  endpoint,      \* request -> the handler that gets it
  handler,       \* request -> where its handler is, or how it has answered
  records,       \* ReplyState.records: request -> its record or NoRecord
  channel,       \* request -> what was sent to its waiter, or "none"
  walletSays,    \* request -> the wallet's answer, "none" before it has one
  engineSays,    \* request -> the engine's answer
  commands,      \* requests whose command is on wallet.commands
  replied,       \* requests whose wallet answer was published
  replyTopic,    \* topic -> replies the server has not consumed
  consuming,     \* topics whose consumer task is alive
  views,         \* what polls of /requests/{request_id} showed as complete
  repeats, errors, restarts

environment == <<walletSays, engineSays, replied, repeats>>
faults == <<errors, restarts>>
requests == <<endpoint, commands>>
vars == <<handler, records, channel, environment, requests, replyTopic, consuming,
          views, faults>>

Topic == {"wallet.replies", "engine.replies"}
Phase == {"idle", "registered", "removing", "waiting"}
Response == {"200 completed", "202 queued", "500 failed", "disconnected"}

WalletReply ==
  {"FundsReserved", "InsufficientFunds", "BalanceUpdated", "CommandAccepted",
   "CommandRejected"}
EngineReply == {"OrderAccepted", "OrderRejected", "CancelAccepted", "CancelRejected"}
ReplyResult == {"Pending"} \cup WalletReply \cup EngineReply

\* A record without an owner has no kind either.
PendingRequest ==
  [owned: BOOLEAN, result: ReplyResult, waiter: BOOLEAN, complete: BOOLEAN]
NoRecord == [owned |-> FALSE, result |-> "Pending", waiter |-> FALSE, complete |-> FALSE]

Init ==
  /\ endpoint \in Workload
  /\ handler = [r \in Request |-> "idle"]
  /\ records = [r \in Request |-> NoRecord]
  /\ channel = [r \in Request |-> "none"]
  /\ walletSays = [r \in Request |-> "none"]
  /\ engineSays = [r \in Request |-> "none"]
  /\ commands = {}
  /\ replied = {}
  /\ replyTopic = [t \in Topic |-> <<>>]
  /\ consuming = Topic
  /\ views = {}
  /\ repeats = 0 /\ errors = 0 /\ restarts = 0

-----------------------------------------------------------------------------
(***************************************************************************)
(* ReplyState.                                                              *)
(***************************************************************************)
\* Mutant: an order is complete when its funds are reserved.
FinalResultsMutant(kind) ==
  CASE kind = "Deposit" -> {"BalanceUpdated", "CommandRejected"}
    [] kind = "Withdraw" -> {"BalanceUpdated", "InsufficientFunds", "CommandRejected"}
    [] kind = "PlaceOrder" -> WalletReply \cup {"OrderAccepted", "OrderRejected"}
    [] kind = "CancelOrder" -> {"CommandRejected", "CancelAccepted", "CancelRejected"}

\* is_final_result for a record with a kind.
FinalResults(kind) ==
  CASE kind = "Deposit" -> {"BalanceUpdated", "CommandRejected"}
    [] kind = "Withdraw" -> {"BalanceUpdated", "InsufficientFunds", "CommandRejected"}
    [] kind = "PlaceOrder" ->
         {"InsufficientFunds", "CommandRejected", "OrderAccepted", "OrderRejected"}
    [] kind = "CancelOrder" -> {"CommandRejected", "CancelAccepted", "CancelRejected"}

\* The kind that a request's handler registers.
KindOf(r) ==
  CASE endpoint[r] = "add_balance" -> "Deposit"
    [] endpoint[r] = "withdraw_balance" -> "Withdraw"
    [] endpoint[r] \in {"place_order", "close_position"} -> "PlaceOrder"
    [] endpoint[r] = "cancel_order" -> "CancelOrder"

RegisterWaiter(r) ==
  records' = [records EXCEPT ![r] =
    [owned |-> TRUE, result |-> "Pending", waiter |-> TRUE, complete |-> FALSE]]

Remove(r) == records' = [records EXCEPT ![r] = NoRecord]

\* Mutant: completeness is judged by the result that was there before.
ResolveStaleMutant(r, result) ==
  LET final == records[r].owned => records[r].result \in FinalResults(KindOf(r))
  IN /\ records' = [records EXCEPT ![r] =
          [owned |-> records[r].owned, result |-> result,
           waiter |-> records[r].waiter /\ ~final, complete |-> final]]
     /\ channel' = [channel EXCEPT ![r] = IF final /\ records[r].waiter THEN result ELSE @]

\* resolve: the last reply to arrive is the result, and alone decides whether
\* the record is complete; a waiter is taken by the first complete result.  A
\* reply without a record makes one that nobody owns.
Resolve(r, result) ==
  LET final == records[r].owned => result \in FinalResults(KindOf(r))
  IN /\ records' = [records EXCEPT ![r] =
          [owned |-> records[r].owned, result |-> result,
           waiter |-> records[r].waiter /\ ~final, complete |-> final]]
     /\ channel' = [channel EXCEPT ![r] = IF final /\ records[r].waiter THEN result ELSE @]

-----------------------------------------------------------------------------
(***************************************************************************)
(* A handler.  A request that fails its checks is answered before anything  *)
(* is registered and leaves no trace; the first step of the others is to    *)
(* register the waiter, before the command is published.                    *)
(***************************************************************************)
Goto(r, ph) == handler' = [handler EXCEPT ![r] = ph]

Register(r) ==
  /\ handler[r] = "idle"
  /\ Goto(r, "registered")
  /\ RegisterWaiter(r)
  /\ UNCHANGED <<channel, environment, requests, replyTopic, consuming, views, faults>>

AddBalance(r) == endpoint[r] = "add_balance" /\ Register(r)
WithdrawBalance(r) == endpoint[r] = "withdraw_balance" /\ Register(r)
PlaceOrder(r) == endpoint[r] = "place_order" /\ Register(r)
CancelOrder(r) == endpoint[r] = "cancel_order" /\ Register(r)
ClosePosition(r) == endpoint[r] = "close_position" /\ Register(r)

\* The broker has the command of a handler that published it: before the
\* handler knows, or although the handler was told of an error or was dropped.
CommandArrives(r) ==
  /\ handler[r] # "idle" /\ r \notin commands
  /\ commands' = commands \cup {r}
  /\ UNCHANGED <<endpoint, handler, records, channel, environment, replyTopic, consuming, views, faults>>

PublishSucceeds(r) ==
  /\ handler[r] = "registered" /\ r \in commands
  /\ Goto(r, "waiting")
  /\ UNCHANGED <<records, channel, environment, requests, replyTopic, consuming, views, faults>>

\* An error of publish_wallet_command: the broker may have taken the command.
PublishFails(r) ==
  /\ handler[r] = "registered"
  /\ Goto(r, "removing")
  /\ UNCHANGED <<records, channel, environment, requests, replyTopic, consuming, views, faults>>

\* Mutant: the record of a request that failed stays.
RemoveWaiterMutant(r) ==
  /\ handler[r] = "removing"
  /\ Goto(r, "500 failed")
  /\ UNCHANGED <<records, channel, environment, requests, replyTopic, consuming, views, faults>>

RemoveWaiter(r) ==
  /\ handler[r] = "removing"
  /\ Remove(r)
  /\ Goto(r, "500 failed")
  /\ UNCHANGED <<channel, environment, requests, replyTopic, consuming, views, faults>>

\* final_or_queued_response.
ReceiveReply(r) ==
  /\ handler[r] = "waiting" /\ channel[r] # "none"
  /\ Goto(r, "200 completed")
  /\ UNCHANGED <<records, channel, environment, requests, replyTopic, consuming, views, faults>>

\* Mutant: no timeout while the request is incomplete.
TimeOutMutant(r) ==
  /\ handler[r] = "waiting" /\ channel[r] = "none" /\ records[r].complete
  /\ Goto(r, "202 queued")
  /\ UNCHANGED <<records, channel, environment, requests, replyTopic, consuming, views, faults>>

TimeOut(r) ==
  /\ handler[r] = "waiting" /\ channel[r] = "none"
  /\ Goto(r, "202 queued")
  /\ UNCHANGED <<records, channel, environment, requests, replyTopic, consuming, views, faults>>

\* The client goes away and the handler is dropped where it waits.
Disconnect(r) ==
  /\ handler[r] \in {"registered", "removing", "waiting"}
  /\ Goto(r, "disconnected")
  /\ UNCHANGED <<records, channel, environment, requests, replyTopic, consuming, views, faults>>

\* get_request_status: what user u is shown of a complete request.
Poll(u, r) ==
  /\ records[r].owned /\ Owner[r] = u
  /\ records[r].complete
  /\ views' = views \cup {[user |-> u, req |-> r, result |-> records[r].result]}
  /\ UNCHANGED <<handler, records, channel, environment, requests, replyTopic, consuming,
                 faults>>

(***************************************************************************)
(* The reply consumers.  A consumer that fails is not started again, and    *)
(* one that starts begins at the end of its topic.                          *)
(***************************************************************************)
Consume(t) ==
  /\ t \in consuming /\ replyTopic[t] # <<>>
  /\ LET reply == Head(replyTopic[t]) IN Resolve(reply.req, reply.result)
  /\ replyTopic' = [replyTopic EXCEPT ![t] = Tail(@)]
  /\ UNCHANGED <<handler, environment, requests, consuming, views, faults>>

\* fetch_records returns nothing: sleep and ask again.
FetchNothing(t) ==
  /\ t \in consuming /\ replyTopic[t] = <<>>
  /\ UNCHANGED vars

ConsumerFails(t) ==
  /\ t \in consuming
  /\ errors + restarts < MaxFaults
  /\ errors' = errors + 1
  /\ consuming' = consuming \ {t}
  /\ UNCHANGED <<handler, records, channel, environment, requests, replyTopic, views, restarts>>

RestartServer ==
  /\ errors + restarts < MaxFaults
  /\ restarts' = restarts + 1
  /\ handler' = [r \in Request |->
       IF handler[r] \in Phase \ {"idle"} THEN "disconnected" ELSE handler[r]]
  /\ records' = [r \in Request |-> NoRecord]
  /\ replyTopic' = [t \in Topic |-> <<>>]
  /\ consuming' = Topic
  /\ UNCHANGED <<channel, environment, requests, views, errors>>

-----------------------------------------------------------------------------
(***************************************************************************)
(* The wallet decides a command and enqueues the engine's input in one      *)
(* transaction; its reply is published after that, so the engine's may be   *)
(* on its topic first.  A restarted wallet publishes its reply again.       *)
(***************************************************************************)
WalletAnswers(kind) ==
  CASE kind = "Deposit" -> {"BalanceUpdated"}
    [] kind = "Withdraw" -> {"BalanceUpdated", "InsufficientFunds"}
    [] kind = "PlaceOrder" -> {"FundsReserved", "InsufficientFunds"}
    [] kind = "CancelOrder" -> {"CommandAccepted"}

EngineAnswers(kind) ==
  CASE kind = "PlaceOrder" -> {"OrderAccepted", "OrderRejected"}
    [] kind = "CancelOrder" -> {"CancelAccepted", "CancelRejected"}
    [] OTHER -> {}

Forwarded(r) == walletSays[r] \in {"FundsReserved", "CommandAccepted"}

Produce(t, r, result) ==
  replyTopic' = [replyTopic EXCEPT ![t] = Append(@, [req |-> r, result |-> result])]

WalletDecides(r) ==
  /\ r \in commands /\ walletSays[r] = "none"
  /\ \E says \in WalletAnswers(KindOf(r)) : walletSays' = [walletSays EXCEPT ![r] = says]
  /\ UNCHANGED <<handler, records, channel, engineSays, requests, replied, replyTopic,
                 consuming, views, repeats, faults>>

WalletReplies(r) ==
  /\ walletSays[r] # "none"
  /\ r \in replied => repeats < MaxRepeats
  /\ repeats' = IF r \in replied THEN repeats + 1 ELSE repeats
  /\ replied' = replied \cup {r}
  /\ Produce("wallet.replies", r, walletSays[r])
  /\ UNCHANGED <<handler, records, channel, walletSays, engineSays, requests, consuming,
                 views, faults>>

EngineReplies(r) ==
  /\ Forwarded(r)
  /\ engineSays[r] # "none" => repeats < MaxRepeats
  /\ repeats' = IF engineSays[r] # "none" THEN repeats + 1 ELSE repeats
  /\ \E says \in EngineAnswers(KindOf(r)) :
       /\ engineSays[r] \in {"none", says}
       /\ engineSays' = [engineSays EXCEPT ![r] = says]
       /\ Produce("engine.replies", r, says)
  /\ UNCHANGED <<handler, records, channel, walletSays, requests, replied, consuming,
                 views, faults>>

-----------------------------------------------------------------------------
HandlerStep(r) ==
  \/ AddBalance(r) \/ WithdrawBalance(r)
  \/ PlaceOrder(r) \/ CancelOrder(r) \/ ClosePosition(r)
  \/ PublishSucceeds(r) \/ PublishFails(r) \/ RemoveWaiter(r)
  \/ ReceiveReply(r) \/ TimeOut(r)

BackendStep(r) == WalletDecides(r) \/ WalletReplies(r) \/ EngineReplies(r)

Next ==
  \/ \E r \in Request :
       \/ HandlerStep(r) \/ CommandArrives(r) \/ Disconnect(r) \/ BackendStep(r)
       \/ \E u \in User : Poll(u, r)
  \/ \E t \in Topic : Consume(t) \/ FetchNothing(t) \/ ConsumerFails(t)
  \/ RestartServer

Spec == Init /\ [][Next]_vars

(***************************************************************************)
(* A handler whose publish has returned keeps going, wallet and engine      *)
(* answer, consumers consume and clients poll.  Nothing is assumed of new   *)
(* requests, lost clients, errors and restarts, nor of the broker: the      *)
(* await of produce has no deadline, and a handler may be in it for ever.   *)
(***************************************************************************)
FairSpec ==
  /\ Spec
  /\ \A r \in Request :
       /\ WF_vars(RemoveWaiter(r))
       /\ WF_vars(ReceiveReply(r) \/ TimeOut(r))
       /\ WF_vars(WalletDecides(r))
       /\ WF_vars(r \notin replied /\ WalletReplies(r))
       /\ WF_vars(engineSays[r] = "none" /\ EngineReplies(r))
       /\ \A u \in User : WF_vars(Poll(u, r))
  /\ \A t \in Topic : WF_vars(Consume(t))
=============================================================================
