----------------------------- MODULE CommandFlow -----------------------------
(***************************************************************************)
(* The way of an order through the exchange and back: the API server's      *)
(* validation (OrderEntry), the wallet process (WalletService) with the     *)
(* relay of its outbox (OutboxRelay), engine.input, the matching engine and *)
(* engine.events, which the wallet reads.                                   *)
(*                                                                          *)
(* The engine is the one that is in the repository,                         *)
(* tools/exchange-bench-engine-peer, which the command flow benchmark runs  *)
(* in the place of the external engine: it opens and cancels orders and     *)
(* matches none.  engine.input has one partition here.                      *)
(*                                                                          *)
(* A request is its place in wallet.commands; the order id that the server  *)
(* allocates for it is new as well, so the request stands for it.           *)
(* Consumers, relay and transactions of a wallet process live and die       *)
(* together.  Of the outbox only the rows of engine.input are relayed here  *)
(* (those of wallet.events are in EventPipeline); a row's id is its place   *)
(* in the outbox.                                                           *)
(***************************************************************************)
EXTENDS WalletProperties, OrderEntry

CONSTANTS
  OrderRequests,      \* the orders that clients ask for, with their keys
  CancelKeys,         \* the keys of their cancels
  Funding,            \* the deposit a client starts with
  MarginAsset, BookMarket, InputPartition,
  BatchLimit,
  PeerMayFail,
  MaxRows, MaxFailures, MaxFaults     \* bounds of the model

ASSUME FlowAssumption ==
  /\ OrderRequests \subseteq [user: User, key: Key, form: Form]
  /\ CancelKeys \subseteq User \X Key
  /\ Funding \in ClientCommands /\ Funding.type = "Deposit"
  /\ MarginAsset \in Asset /\ BookMarket \in Market
  /\ Instance # {} /\ PeerMayFail \in BOOLEAN
  /\ MaxCommands > 0 /\ MaxRows \in Nat \ {0}

VARIABLES
  bodies,                    \* partition of commands -> what each request asks for
  status, due, stale,        \* the relay's columns of the engine.input rows
  input,                     \* engine.input
  relayPhase, batch, sending, failures,
  orders,                    \* EnginePeerState.orders
  peer,                      \* where the engine is with the input at hand, or "down"
  peerAt,                    \* the offset of that input
  engineReplies              \* engine.replies

Row == 1 .. MaxRows

Relay == INSTANCE OutboxRelay
  WITH Partition <- {InputPartition}, PartitionOf <- [id \in Row |-> InputPartition],
       Relay <- Instance, topic <- input, phase <- relayPhase

relayVars == <<status, due, stale, input, relayPhase, batch, sending, failures>>
peerVars == <<orders, peer, peerAt, engineReplies>>
flowVars == <<vars, bodies, relayVars, peerVars>>

NoBody == [order |-> <<>>]
NoOrder == [res |-> <<>>, amount |-> 0]
Request == CommandPartition \X (1 .. MaxCommands)

\* The release of an order's funds names the order.
ASSUME ReasonAssumption == Request \subseteq Reason

FundingReq == <<UserPartition[Funding.user], 1>>
FundedAccount == <<Funding.user, Funding.asset>>
FundingReply == [type |-> "BalanceUpdated", total |-> Funding.amount, locked |-> 0]

\* The wallet has processed a client's deposit; nothing else has happened.
FlowInit ==
  /\ total = [a \in Account |-> IF a = FundedAccount THEN Funding.amount ELSE 0]
  /\ locked = [a \in Account |-> 0]
  /\ reservation = [r \in ReservationId |-> NoReservation]
  /\ idempotency = [k \in ReplyKey |-> IF k = ReplyKeyOf(Funding) THEN FundingReply ELSE NoReply]
  /\ walletLedger =
       {LedgerRow(Funding.user, Funding.asset, "DEPOSIT", Funding.ref, Funding.amount)}
  /\ outbox = << WalletEventRow(
       <<"deposit-applied", Funding.user, Funding.key>>, Funding.user,
       [type |-> "DepositApplied", user |-> Funding.user, asset |-> Funding.asset,
        amount |-> Funding.amount, ref |-> Funding.ref, req |-> FundingReq,
        total |-> Funding.amount, locked |-> 0]) >>
  /\ log = [p \in Partition |->
              IF p = UserPartition[Funding.user] THEN <<<<Funding>>>> ELSE <<>>]
  /\ saved = [p \in Partition |-> Len(log[p]) + 1]
  /\ fault = [i \in Instance |-> NoFault]
  /\ phase = [t \in Task |-> "ready"]
  /\ next = [t \in Task |-> saved[t[2]]]
  /\ pos = [t \in Task |-> 1]
  /\ seen = [t \in Task |-> NoReservation]
  /\ answer = [t \in Task |-> NoReply]
  /\ replies = {[req |-> FundingReq, command |-> ReplyKeyOf(Funding), reply |-> FundingReply]}
  /\ taken = [r \in ReservationId |-> 0]
  /\ crashes = 0
  /\ bodies = [p \in CommandPartition |-> [n \in DOMAIN log[p] |-> NoBody]]
  /\ Relay!RelayInit
  /\ orders = [o \in Request |-> NoOrder]
  /\ peer = "input"
  /\ peerAt = 1
  /\ engineReplies = {}

-----------------------------------------------------------------------------
(***************************************************************************)
(* Clients.  Any command may be sent again under its key, with the same     *)
(* body or another one.  The id of an order is known from the engine's      *)
(* reply to it.                                                             *)
(***************************************************************************)
Ask(cmd, body) ==
  /\ Submit(cmd)
  /\ bodies' = [bodies EXCEPT ![UserPartition[cmd.user]] = Append(@, body)]
  /\ UNCHANGED <<relayVars, peerVars>>

AskForOrder ==
  \E r \in OrderRequests :
    /\ ValidOrder(r.form)
    /\ Ask([type |-> "PlaceOrderIntent", user |-> r.user, key |-> r.key, asset |-> MarginAsset,
            amount |-> OrderMargin(r.form), market |-> BookMarket], r.form)

AskForCancel ==
  \E k \in CancelKeys, x \in engineReplies :
    /\ x.type = "OrderAccepted"
    /\ Ask([type |-> "CancelOrderIntent", user |-> k[1], key |-> k[2], market |-> BookMarket],
           [order |-> x.order])

-----------------------------------------------------------------------------
(***************************************************************************)
(* The wallet process.                                                      *)
(***************************************************************************)
IsInput(row) == row.topic = "engine.input"

RelayEnds(i) ==
  /\ relayPhase' = [relayPhase EXCEPT ![i] = "down"]
  /\ batch' = [batch EXCEPT ![i] = {}]
  /\ UNCHANGED <<status, due, stale, input, sending, failures>>

\* A step of a consumer; the rows it enqueues are the relay's to publish.
ConsumerStep(t) ==
  /\ TaskStep(t) /\ fault' = fault
  /\ Len(outbox') <= MaxRows
  /\ status' = [id \in Row |->
       IF id \in DOMAIN outbox' \ DOMAIN outbox /\ IsInput(outbox'[id]) THEN "PENDING"
       ELSE status[id]]
  /\ UNCHANGED <<bodies, due, stale, input, relayPhase, batch, sending, failures, peerVars>>

WalletFails(t) ==
  /\ FailTransaction(t) /\ RelayEnds(t[1])
  /\ UNCHANGED <<bodies, peerVars>>

WalletCrashes(i) ==
  /\ Crash(i) /\ RelayEnds(i)
  /\ failures + crashes' <= MaxFaults
  /\ UNCHANGED <<bodies, peerVars>>

\* Bound: a wallet that has refused an engine event would read it and refuse it
\* again, and is left as it is.
WalletStarts(i) ==
  /\ fault[i].why = "crash"
  /\ Restart(i) /\ Relay!RestartRelay(i)
  /\ UNCHANGED <<bodies, peerVars>>

RelayWorks(i) ==
  /\ Up(i) /\ Relay!RelayStep(i)
  /\ failures' + crashes <= MaxFaults
  /\ UNCHANGED <<vars, bodies, peerVars>>

TimePasses ==
  /\ \/ \E id \in Row : Relay!BecomeDue(id)
     \/ \E id \in Row \ UNION {batch[i] : i \in Instance} : Relay!BecomeStale(id)
  /\ UNCHANGED <<vars, bodies, peerVars>>

-----------------------------------------------------------------------------
(***************************************************************************)
(* The engine: handle_input changes the orders, publishes the event and     *)
(* then the reply.                                                          *)
(***************************************************************************)
HasInput == peerAt <= Len(input[InputPartition])
InputAt(n) == outbox[input[InputPartition][n]].payload
Input == InputAt(peerAt)
BodyOf(req) == bodies[req[1]][req[2]]

PublishEvent(record) == log' = [log EXCEPT ![MarketPartition[BookMarket]] = Append(@, record)]

PeerOnly ==
  UNCHANGED <<tables, saved, fault, task, replies, taken, crashes, bodies, relayVars>>

OpenOrder ==
  /\ peer = "input" /\ HasInput /\ Input.type = "PlaceOrder"
  /\ orders' = [orders EXCEPT ![Input.req] = [res |-> Input.res, amount |-> Input.amount]]
  /\ PublishEvent(<<>>)
  /\ peer' = "reply"
  /\ UNCHANGED <<peerAt, engineReplies>> /\ PeerOnly

\* release_reservation_command of the wallet's reading of OrderCancelled.
ReleaseOf(order, row) ==
  IF row.amount = 0 THEN <<>>
  ELSE << [type |-> "ReleaseReservation", res |-> row.res, amount |-> row.amount,
           reason |-> order] >>

\* Mutant: the order stays in the map.
CloseOrderMutant ==
  /\ peer = "input" /\ HasInput /\ Input.type = "CancelOrder"
  /\ LET order == BodyOf(Input.req).order
     IN PublishEvent(ReleaseOf(order, orders[order]))
  /\ peer' = "reply"
  /\ UNCHANGED <<orders, peerAt, engineReplies>> /\ PeerOnly

\* A cancel of an order that is not there releases nothing and is accepted.
CloseOrder ==
  /\ peer = "input" /\ HasInput /\ Input.type = "CancelOrder"
  /\ LET order == BodyOf(Input.req).order
     IN /\ orders' = [orders EXCEPT ![order] = NoOrder]
        /\ PublishEvent(ReleaseOf(order, orders[order]))
  /\ peer' = "reply"
  /\ UNCHANGED <<peerAt, engineReplies>> /\ PeerOnly

ReplyTo(payload) ==
  IF payload.type = "PlaceOrder"
    THEN [type |-> "OrderAccepted", req |-> payload.req, order |-> payload.req]
    ELSE [type |-> "CancelAccepted", req |-> payload.req, order |-> BodyOf(payload.req).order]

PublishEngineReply ==
  /\ peer = "reply"
  /\ engineReplies' = engineReplies \cup {ReplyTo(Input)}
  /\ peer' = "input"
  /\ peerAt' = peerAt + 1
  /\ UNCHANGED <<log, orders>> /\ PeerOnly

\* A fetch or a publish that fails ends the engine, which nobody starts again.
PeerFails ==
  /\ PeerMayFail /\ peer # "down"
  /\ peer' = "down"
  /\ UNCHANGED <<log, orders, peerAt, engineReplies>> /\ PeerOnly

PeerStep == OpenOrder \/ CloseOrder \/ PublishEngineReply

-----------------------------------------------------------------------------
FlowNext ==
  \/ AskForOrder \/ AskForCancel
  \/ \E t \in Task : ConsumerStep(t) \/ WalletFails(t)
  \/ \E t \in Task : Poll(t) /\ UNCHANGED <<bodies, relayVars, peerVars>>
  \/ \E i \in Instance : WalletCrashes(i) \/ WalletStarts(i) \/ RelayWorks(i)
  \/ TimePasses
  \/ PeerStep \/ PeerFails

FlowSpec == FlowInit /\ [][FlowNext]_flowVars

(***************************************************************************)
(* The tasks of a running wallet and its relay keep running, a wallet that  *)
(* ended is started again, time passes, and the engine keeps running until  *)
(* it fails.                                                                *)
(***************************************************************************)
FlowFairSpec ==
  /\ FlowSpec
  /\ \A t \in Task : WF_flowVars(ConsumerStep(t) \/ WalletFails(t))
  /\ \A i \in Instance : WF_flowVars(WalletStarts(i)) /\ WF_flowVars(RelayWorks(i))
  /\ WF_flowVars(TimePasses)
  /\ WF_flowVars(PeerStep)

-----------------------------------------------------------------------------
\* The wallet has stopped at an engine event that it refuses.
EventRefused ==
  \E i \in Instance : fault[i].why \notin {"none", "crash"} /\ fault[i].at \in EventPartition

(***************************************************************************)
(* Every command, a retry under a used key too, is answered by the wallet   *)
(* under its own request id, through crashes at any point and with the      *)
(* engine's events coming in between; unless the wallet refuses one of them *)
(* (a release that is read again after a crash).                            *)
(***************************************************************************)
CommandsAnswered ==
  \A p \in CommandPartition : \A n \in 1 .. MaxCommands :
    n <= Len(log[p]) ~> EventRefused \/ \E x \in replies : x.req = <<p, n>>

\* The wallet has passed a request on to the engine.
Forwarded(req) == \E id \in Row : status[id] # "NONE" /\ outbox[id].payload.req = req

(***************************************************************************)
(* Every order whose funds were reserved, and every cancel that the wallet  *)
(* has accepted, is answered by the engine under the request id of the      *)
(* command that came first, although its row may be claimed and left by a   *)
(* relay that ends, or fail to be published and be overtaken.               *)
(***************************************************************************)
OrdersAnswered ==
  \A q \in Request :
    Forwarded(q) ~> EventRefused \/ peer = "down" \/ \E x \in engineReplies : x.req = q

Open == {o \in Request : orders[o] # NoOrder}

(***************************************************************************)
(* The margin that an open order holds in the engine is the least that      *)
(* covers its price at its leverage, is what its reservation was made for,  *)
(* and is no more than the client offered: no retry with another body gets  *)
(* its margin or its order mixed up with the first one's.                   *)
(***************************************************************************)
MarginCoversOrder ==
  \A o \in Open :
    LET form == BodyOf(o)
        margin == orders[o].amount
    IN /\ margin = reservation[orders[o].res].amount
       /\ margin <= form.margin
       /\ form.price > 0 => IsLeastMargin(form, margin)

(***************************************************************************)
(* Nothing is on its way.                                                   *)
(***************************************************************************)
Quiet ==
  /\ \A i \in Instance : Up(i)
  /\ \A t \in Task : phase[t] = "ready" /\ ~HasRecord(t)
  /\ \A id \in Row : status[id] \in {"NONE", "PUBLISHED"}
  /\ peer = "input" /\ ~HasInput

\* The order's PlaceOrder was delivered once more after a cancel of it.
Reopened(o) ==
  \E n, k \in DOMAIN input[InputPartition] :
    /\ n < k
    /\ InputAt(n).type = "CancelOrder" /\ BodyOf(InputAt(n).req).order = o
    /\ InputAt(k).type = "PlaceOrder" /\ InputAt(k).req = o

(***************************************************************************)
(* When nothing is on its way, the engine's open orders are the wallet's    *)
(* active reservations, amount for amount: inputs that overtake each other, *)
(* inputs delivered twice, retries and crashes of the wallet leave neither  *)
(* an order without funds nor funds without an order.  A PlaceOrder that is *)
(* delivered again after its cancel does: the engine opens it once more.    *)
(***************************************************************************)
FundsFollowOrders ==
  Quiet /\ (\A o \in Request : ~Reopened(o)) =>
    {<<orders[o].res, orders[o].amount>> : o \in Open} =
    {<<r, reservation[r].remaining>> :
       r \in {q \in ReservationId : reservation[q].status = "ACTIVE"}}
=============================================================================
