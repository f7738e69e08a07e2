# Formal models of the Perpex exchange

TLA+ models of the services of this repository, model-checked with TLC on small
instances, with TLAPS proofs of the results that should hold for every size of
the system.  Paths are relative to the repository.

## 1. The system

Perpex is a set of Rust services around Redpanda topics and one Postgres
database.  The matching engine is a process of its own that is not in the
repository; here it is part of the environment, except in `CommandFlow`, where
it is the engine that the repository's benchmark puts in its place.

| Component | State | Operations | Talks to |
|---|---|---|---|
| API server (`apps/server`) | `ReplyState` in memory: a record and a waiter per request id | register, publish, resolve, time out, poll | writes `wallet.commands`; consumes `wallet.replies` and `engine.replies` in two tasks |
| Wallet (`apps/wallet`) | `user_collaterals`, `wallet_reservations`, `wallet_idempotency`, `wallet_ledger`, `wallet_outbox`, `wallet_queue_offsets` | deposit, withdraw, reserve, cancel; release, settle, account delta | consumes `wallet.commands` and `engine.events`; writes `wallet.replies`; writes the outbox in the same transaction |
| Outbox relay (a task of the wallet) | status, next attempt and update time of the outbox rows | requeue stale, claim, publish, mark | writes `wallet.events` and `engine.input` |
| Ledger (`apps/ledger`) | `ledger_events`, `ledger_entries`, `ledger_offsets` | journal one wallet event | consumes `wallet.events` |
| Projector (`apps/projector`) | order contexts, orders, fills, positions and closed positions with their fill links, order book, event log, offsets | project an input, a reply, an event | consumes `engine.input`, `engine.replies`, `engine.events`, `wallet.events` |
| Timeseries (`apps/timeseries`) | trades, candles, offsets | record a trade | consumes `engine.events` |
| WebSocket gateway (`apps/ws`) | sessions with a bounded mailbox; the hub's maps of sessions, users and markets; a dedupe cache of wallet event ids | connect, subscribe, unsubscribe, route, push, stop | consumes `engine.events` and `wallet.events` from their ends; writes to sockets |
| Order book snapshot (`apps/server/src/modules/markets`, `crates/db/src/orderbook.rs`) | none beyond Postgres rows | read the sequence, the bids and the asks of a book, in three statements | reads what the projector writes; its client also listens to the gateway |
| Benchmark engine (`tools/exchange-bench-engine-peer`) | the open orders, in memory | open and cancel an order; it matches none | consumes `engine.input`; writes `engine.events`, then `engine.replies` |
| Other REST reads, users, auth, markets (`apps/server/src/modules`) | none beyond Postgres rows | single statements | Postgres |
| Shared crates, other tools, harnesses | message types, row types, drivers | | |

What is hard in it:

- **Replay.**  Every consumer saves its offset after (wallet) or together with
  (ledger, timeseries, projector) the effects of a record, and any error of any
  task ends the process.  Records are therefore processed again, against tables
  that have moved on.
- **Two effects, one commit.**  A wallet transaction has to change the balance,
  the reservation, the stored reply, the ledger and the outbox together; the
  idempotency lookup and the read of a reservation happen before it.
- **At-least-once delivery.**  The relay may publish a row and end before it marks
  it; consumers must recognise the second copy.
- **Independent consumers.**  The server reads two reply topics and the projector
  four topics, each in a task of its own, so that messages about one order come in
  any order.
- **Timeouts against late answers.**  A handler's wait may end while the reply is
  being resolved.
- **Pushes without waiting.**  The hub pushes to the mailboxes of actors that connect,
  subscribe, fall behind and stop meanwhile, and keeps three maps about them.

- **A snapshot and a stream.**  A client stitches the book that the projector has
  written, read in three statements, to deltas that the gateway read from the same
  topic at its own pace.
- **A round trip.**  An order is reserved by the wallet, forwarded by the relay, opened
  and cancelled by the engine and released by the wallet again, over topics on which
  each step may be repeated or overtaken.

`PROJECT.json` lists the single hazards at their lines, with the properties that
would catch them.

## 2. Modules

| Module | Models | Used by |
|---|---|---|
| `WalletStore` | tables and transactions of `wallet/src/repository.rs`, replies and events of `processor.rs` | `WalletService` |
| `WalletService` | partition tasks, offsets, faults, restarts (`wallet/src/redpanda.rs`); clients and engine as environment | `WalletProperties` |
| `WalletProperties` | what the wallet promises | `MCWallet`, `WalletHistory` |
| `WalletHistory` | the wallet with two history variables: which commands of `engine.events` were applied, and which reservations were taken from twice | `MCHistory`, `WalletProofs` |
| `Int64` | the range of `i64` and `BIGINT` | `WalletStore`, `OrderEntry` |
| `LedgerEntries` | the ledger's reading of a wallet event (`ledger/src/processor.rs`) | `WalletProperties` |
| `OutboxRelay`, `OutboxProperties` | the relay's columns of `wallet_outbox`, its statements and its loop | `EventPipeline`, `OutboxProofs` |
| `AtLeastOnce` | abstract: what the relay promises at the publish boundary | refinement `Delivery` |
| `Ledger`, `LedgerProperties` | journal, offsets and tasks of the ledger | `MCLedger`, `EventPipeline`, `LedgerProofs` |
| `EventPipeline` | outbox, relay, topic and ledger composed | `MCPipeline`, `OutboxProofs` |
| `Journal` | abstract: every committed event is journaled once | refinement `ExactlyOnce` |
| `ServerReplies`, `ServerProperties` | handlers, `ReplyState` and reply consumers of the API server | `MCServer`, `ServerProofs` |
| `Timeseries`, `TimeseriesProperties` | trades, candles and tasks of the timeseries service | `MCTimeseries`, `TimeseriesProofs` |
| `OrderBook` | the rows of `orderbook_levels`, as the projector writes and the server reads them | `Projector`, `BookFeed` |
| `Projector`, `ProjectorProperties` | tasks and read models of the projector | `MCProjector`, `ProjectorProofs` |
| `WsGateway`, `WsProperties` | sessions, hub, router and consumers of the WebSocket gateway | `BookFeed`, `WsProofs` |
| `BookFeed` | gateway, projector's book, REST snapshot and a client that stitches them, composed | `MCWs`, `WsProofs` |
| `OrderEntry` | validation and margin of an order (`server/src/modules/orders/handlers.rs`) | `CommandFlow`, `WalletProofs` |
| `CommandFlow` | server, wallet, relay, `engine.input` and the benchmark's engine composed | `MCFlow`, `WalletProofs` |
| `MC*` | the constants of the runs | |
| `SumTheorems` | lemmas about sums over finite sets, counted units, appended sequences and divisions | `WalletProofs`, `TimeseriesProofs`, `ProjectorProofs` |
| `*Proofs` | TLAPS proofs | |

A definition whose name ends in `Mutant` is not part of a model: it is the
definition after it with a plausible mistake, and shows that a property depends on
what the code does there.

### How state and actions correspond to the code

**Wallet.**  A transaction is one operator for its outcome (the checks in the order
of the code) and one action for its commit.  What the code does outside of it is a
step of its own: `LookupReply` (`get_idempotent_reply`), `RecordRejection`
(`record_reply` after a rolled back reservation), `PublishReply`, `SaveOffset`.
`ReadReservation` is the first statement of a release or a settlement: the row is
read without a lock, so that with two wallet processes the commit may use a stale
row.  `reservation` is indexed by user and idempotency key, which the table keeps
unique.  The `UPDATE ... WHERE locked >= $3` whose row count nobody reads changes
nothing when its condition fails, and the rest commits.  A record of
`engine.events` is the sequence of commands that
`engine_wallet_commands_from_engine_event` derives from it.  The engine is assumed
to know a reservation only after its `PlaceOrder` input has been enqueued, to take
no more of it than was reserved, and to use a fill id in one record.  A trade settles one
side or both, with a fee per side; both may be of one user, since nothing in the repository
forbids a self-trade (a test of `ws/src/router.rs` has one).  Totals are `BIGINT`: a deposit,
a credit or a delta whose sum does not fit (`TooLarge`) is an error of the statement, and
stops the wallet like every storage error.  `ReleaseReservation` and `SettleTrade` are
also variants of `WalletCommand`; the model has them on `engine.events` only, because no
program publishes them to `wallet.commands`.

**Outbox.**  Time appears as two facts about a row: it is due, it is stale.  The
loop is: requeue stale rows, claim a batch, publish and mark row by row; a publish
call may fail with or without the broker having taken the row.

**Ledger and timeseries.**  One transaction per record writes rows and offset, so it
is one action.  `ON CONFLICT DO NOTHING` is a condition on the rows that exist.

**Server.**  The mutex around `ReplyState` makes each of its methods an action.
The receiver of a waiter is `channel`; when it gets a reply after the timeout, the
reply is dropped.  A record with an unknown owner is one that a reply created before
or after its request was known to this process.  Each of the five handlers is an
action, of which only the registration is modelled: a request that fails its checks
is answered before it has changed anything.  `Workload` says which handlers the
requests of a behaviour go to.

**Projector.**  A behaviour starts with one history of the four topics, of which
nothing has been read, and the tasks read it in every interleaving.  Logging an
event is a transaction before the projection, as in the code.  A trade whose
contexts are missing waits.  `proportional_margin` is integer division rounding
down, but at least 1 when there is a margin; entry prices are weighted means.

**WebSocket gateway.**  A method of the hub runs under its lock and is one step; the
confirmation of a subscription is written in the poll of the actor in which its call
of the hub returns, hence in the same action (`Register`, `CallHub`).  `try_send` is
`Accepts`: it fails when the mailbox is full or the actor has ended.  Ids of sessions
are never used again, and a connection is therefore its session.  A record is pushed
to one user after the other and then to its market, in steps of their own.

**Order book feed.**  `BookFeed` adds to the gateway the projector's book of one market
(`ProjectDelta`, with the same `LevelAfter` as `Projector`) and a client that does what
`docs/websocket.md` says: subscribe, fetch the snapshot, drop the deltas up to the
snapshot's sequence, apply the others.  `ReadState`, `ReadBids` and `ReadAsks` are the
three statements of `get_orderbook_snapshot`, between which the projector goes on;
`readTo` records the sequence of the book when the last one ran.

**Command flow.**  `CommandFlow` takes the steps of `WalletService` and of an instance of
`OutboxRelay` as they are and gives them one process: the relay is a task of the wallet
and ends with it.  Instead of the free engine of `WalletService` it has
`tools/exchange-bench-engine-peer`: `OpenOrder` and `CloseOrder` change the map of orders
and publish the event, `PublishEngineReply` the reply, as in `handle_input`; an error of
any of its calls ends it, and nobody starts it again.  The id of an outbox row is its place
in the table, of which there are at most `MaxRows`.  A request is its place in
`wallet.commands`, and stands for its request id and for the order id that the server
allocated; `bodies` has what the request said.  An order starts in `AskForOrder` with the
server's validation; a cancel names an order whose id the client has from an engine reply.

## 3. Runs

| Run | Instance | What it shows |
|---|---|---|
| `wallet_crash` | one user, two assets, two keys, 3 commands out of 6, 2 engine events (releases, settlements and account deltas; two orders may be matched with each other), 1 crash, `I64Max` 2 | tables stay consistent; stored replies tell what was committed; from the client's side only a deposit can stop the wallet, with a reused reference or a sum out of range; a release or settlement is refused only because it, or one of its reservation, was applied before and read again, in a self-trade, or because its credit overflows; event rows add up to the balances unless a release was repeated |
| `command_flow` | one user with a deposit of 3; 2 further commands out of 3 valid orders under 2 keys (one form has too little margin) and a cancel; 1 crash of the wallet or 1 failed publish; the engine may fail | every command is answered under its own request id, every order and cancel by the engine, margins cover their orders, open orders are the active reservations |
| `wallet_replayed_release` | one crash | *violation*, see section 6 |
| `wallet_fees` | a deposit of 3, an order of 2, a trade with a fee of 1, no crash | *violation* |
| `pipeline` | 3 rows, 2 partitions, 1 relay, 1 ledger, 1 failed publish, 1 crash of each | at-least-once delivery and exactly-once journaling, and journaling in the end |
| `ledger` | 2 instances, 2 partitions, 4 messages: two events, one without id, one undecodable | deduplication by position and by logical id; nothing skipped |
| `server` | an order and a withdrawal of two users, or a deposit, a cancel or a close; 1 repeated reply, 1 fault | completed answers are final, no lost wakeup, every handler whose publish has returned answers, queued transfers complete |
| `server_overtaken` | one order, no fault | *violation* |
| `timeseries` | 2 markets, 3 intervals, 2 instances, 1 stop | candles are those of the stored trades |
| `projector` | 5 histories, 2 instances, 1 stop | read models agree with the stored fills and deltas, and tasks never all wait |
| `ws` | 2 users with a session each, 1 market, 2 client calls, mailboxes and dedupe cache of size 1, 1 fault; histories of trades, of repeated wallet events, and of deltas that set, change and delete levels, with a snapshot of depth 1 | the hub's maps agree on the sessions it knows, a session taken out is in none of them, no push overtakes its confirmation, streams have no gap and no copy, the stitched book is the engine's unless a delta fell between gateway and projector |
| `ws_stitching` | the same | *violation* |

Why the bounds are enough.  The interference in the wallet is between at most two
tasks and a replay, so one crash, two engine events (a release and a settlement of
the same reservation) and two orders competing for the funds reach every pair of
transactions, each of them replayed after each other; an amount of 2 admits a
partial and a complete release.  An order of 2 that was released in part can be matched
with one of 1, which is the self-trade; a credit of 2 overflows a total that is not 0, since
totals go up to 2, and the two deposits overflow together.  In the pipeline, three rows with a batch limit
of two and two partitions give a second batch, reordering and duplicates.  Trades of
the timeseries lie on the boundaries of the intervals 1, 2 and 4, so that they share
some buckets and not others.  The histories of the projector are the shortest ones
with a partial fill, a fill that reverses a position, a cancel after a fill, a
liquidation followed by auto-deleveraging, and a deleted price level, and each
repeats an event.  A mailbox of size 1 is full after one push, so that a session falls
behind in two records, and a dedupe cache of size 1 forgets an id with the next one.
A snapshot of depth 1 cuts a level off as soon as a side has two.

In the command flow two rows of `engine.input` are enough for an order and its cancel, or
for two orders of which the second overtakes the first; `MaxFaults` allows one fault in
all, so that a row is published twice after a crash, or fails once and is overtaken.  Two
cases are left out of it.  A row of a batch that a live relay is working on does not become
stale (the loop of one relay requeues only between batches; `pipeline` has it).  And a
wallet that has refused an engine event is not started again: it would read the event
and refuse it once more.

`ws` and `command_flow` do not check for deadlock: their clients send a bounded
number of messages, consumers of the gateway that have failed are not started again by
the code, and neither is the benchmark's engine, so that these systems really may stop.

### Fairness

- Wallet, relay, ledger: each task keeps taking steps and a process that ended is
  started again.  Tasks are tokio tasks that never wait for one another, and the
  services are meant to run under a supervisor (their `main` returns the error).
  A crash is never fair, and the bound on crashes says only that they stop in the
  end.
- Relay: time passes, so that a row becomes due and stale.
- Benchmark engine: it keeps taking steps until it fails; `OrdersAnswered` exempts the
  behaviours in which it does.
- Server: a handler whose publish has returned makes progress or times out
  (`tokio::time::timeout` around the receiver).  Nothing is assumed of the publish:
  `producer.produce(record).await` has no deadline.  Wallet and engine answer what they
  received, consumers consume as long as they are alive.  A
  consumer that failed is *not* restarted, because the code does not restart it;
  `QueuedTransfersComplete` therefore exempts behaviours with such a failure.

## 4. Properties

*Wallet.*  `LockedWithinTotal` and `LockedCoversReservations` are what the CHECK
constraints and the unchecked updates rely on.  `LedgerAddsUp`: the total of an
account is the sum of its ledger rows.  `RepliesAgree`, `RepliesMatchEffects`: a
retry gets the first answer, and the answer is true.
`ClientFaultsAreBadDeposits`, `RefusalsExplained`: what may stop the wallet, from the
client's side and by a release or a settlement of the engine.  `EngineEventsApplied`: every
engine event is dealt with in the end, which is false (section 6).
`EveryChangeIsEnqueued`: balances are the sum of the enqueued events as the ledger
reads them, which is false after a replayed release (section 6);
`EnqueuedUnlessRepeated`: it holds unless a release or settlement was applied twice or the
engine gave two releases of one reservation that have the same dedupe key.

*Command flow.*  `CommandsAnswered`: every command, a retry too, is answered by the wallet
under its own request id.  `OrdersAnswered`: what the wallet has forwarded is answered by
the engine, under the request id of the first command with the key.  `MarginCoversOrder`:
an open order holds the least margin that covers it, which is what was reserved for it and
no more than its own request offered, so that a retry with another body is never mixed up
with the first one.  `FundsFollowOrders`: when nothing is on its way, the open orders of
the engine are the active reservations of the wallet, amount for amount.

*Outbox, ledger, pipeline.*  `ClaimsHold`, `FewCopies`, `Delivery`; `NoDoubleEntry`,
`NothingSkipped`; `ExactlyOnce`, `EveryEventJournaled`.

*Server.*  `AnswersAreVerdicts`, `NoLostWakeup`, `FailedStaysUnknown`,
`PublishedRequestsAnswered` (of the time after the publish, which may hang),
`QueuedTransfersComplete`.  `ServerTypeOK` is there for the proofs.

*Timeseries.*  `CandlesMatchTrades` (open, close, high and low by sequence number
and not by arrival), `VolumesAddUp`.  `TradesKept`, no trade below a
stored offset is missing, is in no run: it is part of the inductive invariant, and proved.

*Projector.*  `FilledMatchesFills`, `PositionsAreNetOfFills`, `FillsStayLinked`,
`PnlAtLastPrice`, `BookMatchesDeltas`, `NothingUnprojected`, `FinalStatusStays`, and
`TasksNeverAllWait`, the safety form of "every record is projected in the end":
whenever records are left, some task can take a step that is not a retry.

*WebSocket gateway.*  `HubIndexesAgree` (of the sessions that the hub knows),
`HubForgets` (a session that is taken out of the hub is in no entry of its maps after that
step, and gets one again only by registering or by a `Subscribe` that comes too late: that
entry stays, see section 6), `EventsFollowConfirmation` (private events go to their user only, market
events to subscribers only, and neither before the client was told), `NoGaps` (of a
session that the hub has removed since, too), `WalletEventsOnce` (within the capacity of the cache).

*Order book feed.*  `StitchedBook`: from the sequence on at which the last level of the
snapshot was read, the client's book is the engine's, levels cut off by the depth apart.
It depends on the order of the three statements: the sequence has to be read first.  It is
claimed only when no delta fell between the two readers, above the sequence of the snapshot
and before everything that the client got of the market; `GapFreeStitching` is the same
without this condition, and is violated, see section 6.

## 5. Proofs

| Theorem | For every | Argument |
|---|---|---|
| `LedgerNoDoubleEntry`, `LedgerNothingSkipped` (`LedgerProofs`) | set of instances, partitions and messages, and bound | `LedgerInv`: types, no task is ahead of the stored offset of its partition (`TasksBehindOffsets`), each journal row is the record at its position (`JournalMatchesTopic`), and the two properties.  `NothingSkipped` alone is not inductive: a task of another instance could jump over records if it could be ahead of the offset. |
| `RelayClaimsHold`, `RelayImplementsDelivery` (`OutboxProofs`) | set of rows and partitions, batch limit and bounds, with at most one relay (`SingleRelay`) | `RelayInv` = `RelayTypeOK` and `ClaimsHold`.  Each step of the relay is then a `Send`, `Transfer` or `Ack` of `AtLeastOnce` or changes nothing in it: `Ack` needs that the row at hand is on its topic, `Transfer` that it is not published yet. |
| `RelayFewCopies` (`OutboxProofs`) | the same | `CopiesAccounted`: of a row's copies on its topic, the one that the relay is about to mark, or has marked, is the only one that no crash and no failed call accounts for. |
| `PipelineExactlyOnce` (`OutboxProofs`) | set of rows, partitions, relays and ledger instances, and bounds | The pipeline implements `Journal` whatever the number of relays.  `PipelineInv`: types, what a relay holds and what is on the topic was committed (`HeldAreCommitted`, `TopicIsCommitted`), and the journal has one row for a message.  Two relays may send a row twice or in the wrong order; the journal's unique constraint takes care of it. |
| `WalletTypeOK`, `WalletLockedWithinTotal` (`WalletProofs`) | set of users, assets, keys, partitions and wallet processes, and bound | `WalletInv`: types and `locked <= total` together, since a negative account delta is of its type only because of its condition, together with the types of every command in the logs and of what a task has read.  It does not depend on the row a task has read being fresh. |
| `WalletRepliesAgree`, `WalletRepliesMatchEffects`, `WalletClientFaults` (`WalletProofs`) | set of users, assets, keys and partitions, and bound, with one wallet process (`OneWallet`) | `AnswersInv` = `WalletInv`, `RepliesInv`.  `RepliesInv` follows a task through its steps: where it is about to execute or to record a rejection, no reply is stored; where it is about to publish, the stored reply is the one it holds (`TaskFollows`); all commands of one key are in one partition (`LogsRouted`), so that with one process no other task can come between; and the stored replies stand for the effects (`EffectsMatch`), from which the third property follows: a command without a reply meets no unique constraint but that of a deposit's reference, and no sum but a deposit's can overflow. |
| `WalletLockedCoversReservations` (`WalletProofs`) | the same | `CoverInv`: the row a task has read is still the row of the table (`SeenFresh`), there is one outbox row per dedupe key, so that an order is sent to one market and its engine commands are in one partition (`LogsOrdered`, from which `SeenFresh`), and `Covered`.  The open reservations of an account are a finite set of units, of which a release or a settlement takes as many away as it unlocks.  The conditional updates therefore never miss. |
| `WalletLedgerAddsUp` (`WalletProofs`) | the same | `LedgerInv`, a sum per account (`SumTheorems`).  A command adds a row exactly when it changes the total: `CoverInv` excludes the settlement whose conditional update changes nothing while its rows are written. |
| `WalletEveryChangeIsEnqueued` (`WalletProofs`) | the same, crashes and replays included, about `HistorySpec`; the property is `EnqueuedUnlessRepeated` | `EnqueuedInv`: the entries that the ledger reads from the outbox add up to total and locked funds, and the event of a settlement or an account delta is in the outbox only with its row in `wallet_ledger` (`EventsRecorded`).  `ON CONFLICT DO NOTHING` drops an event whose key is taken; for a client command the stored reply, for a settlement or a delta the ledger row keeps that from happening.  A release has neither, which is what the run `wallet_replayed_release` shows; for it, `ReleasesKnown` says that its event is in the outbox only when it, or one with the same key, was applied (`done`), so that a step that drops the event ends `NoRepeats`, for good (`RepeatsStay`). |
| `WalletRefusalsExplained` (`WalletProofs`) | the same, crashes and replays included, about `HistorySpec` | `EngineInv`.  The commands of `engine.events` are places (partition, offset, command); `done` has those that were committed, the others are pending.  `FundsDue`: of a reservation of which nothing was applied twice, what was reserved and what is pending is what remains in the table and what the engine has taken, a sum over a finite set of places, and the engine has taken no more than was reserved; so a pending command finds enough, in a row that is active.  `SettlementsFit`: a settlement debits the reserved asset, and the settlements of a fill are in one record and of different reservations; `TablesKnown`: the rows of settlements and releases in `wallet_ledger` and the outbox are of places that are done; so a pending settlement meets a unique key only of another settlement of the same record for the same user, a self-trade.  `TxSeen` and `CoverInv`: a transaction computes with the row of the table. |
| `ServerAnswersAreVerdicts`, `ServerNoLostWakeup`, `ServerFailedStaysUnknown` (`ServerProofs`) | set of requests and users, and bound | `ServerInv`: `ServerTypeOK`, each reply on a topic was said by wallet or engine (`RepliesWereSaid`), a complete record and a filled channel hold the verdict (`CompleteIsVerdict`), and a handler waits only for what it has registered (`KnownHaveHandlers`, `ActiveAreRegistered`).  The answers alone are not inductive: they are copied from the channel, which is filled from a topic. |
| `WsHubIndexesAgree`, `WsHubForgets` (`WsProofs`) | set of sessions, users and markets, and mailbox capacity | `HubInv`: types, the property, and that a session that has not registered is in no map (`StrangersAreClean`), without which a registration could meet entries of its own id.  A session that the hub has removed may be in a market's entry: what it subscribes to later is entered all the same. |
| `WsEventsFollowConfirmation` (`WsProofs`) | the same, and any history of the topics | `ConfirmInv`: whoever the hub knows has been welcomed and whoever is in a market's entry has been told `Subscribed` (`HubFollowsReplies`), what a router is about to push concerns whom it is pushed to (`RoutesMatch`), and every message, sent or in a mailbox, has its confirmation before it (`StreamsConfirmed`). |
| `WsNoGaps` (`WsProofs`) | the same | `AllGapFree`: what a session was pushed of a partition is in order and contiguous, reaches, while the session is live, up to the record at hand (`Current`), and is of markets that it is subscribed to unless it was told otherwise (`Listed`); `DedupeOK`: the ids in the cache are those of records that were read. |
| `WsWalletEventsOnce` (`WsProofs`) | the same, with finitely many partitions (`PartitionsFinite`) | `CacheOK`: the cache is within its capacity and holds no id twice; `OnceInv`: of a pushed event, the cache either knows its id, with only later ids behind it (`Remembered`), or has learnt as many others since as it can hold (`Far`). |
| `FeedStitchedBook` (`WsProofs`) | set of sessions, markets and prices, depth, mailbox capacity and history whose deltas are numbered in order (`FeedInSequence`; copies are allowed) | Three facts.  `BookOK`: the projector's book is the engine's after the deltas up to the stored sequence.  `SnapshotOK`: a level of the snapshot is the engine's as of one sequence per side, between that of the snapshot and `readTo`, and a level that is missing has `Depth` better ones before it at that sequence; the first rows of an ordered set are those that the definition of the snapshot cuts off (`FirstRows`).  `AllGapFree`, of `WsNoGaps`: after the first delta that the client got none is missing, and `FellBetween` says whether one was before it.  Applying the deltas then makes every level the one of its last delta, whether the snapshot had seen it or not. |
| `TimeseriesCandlesMatchTrades`, `TimeseriesTradesKept` (`TimeseriesProofs`) | set of trades, markets, intervals, partitions and instances, and bound | `TimeseriesInv`: types, `TasksBehindOffsets` as in the ledger, and the two properties.  `MergeCandleMatches` is the heart: the candle of some trades, merged with one more, earlier or later, is the candle of all of them. |
| `TimeseriesVolumesAddUp` (`TimeseriesProofs`) | the same | `SumTheorems` and `TimeseriesInv`: a trade is added to its candle in the transaction that stores it, and only then. |
| `ProjectorNothingUnprojected` (`ProjectorProofs`) | history, set of partitions, orders, users and processes | `ProgressInv`: types, `TasksBehindOffsets`, a task that has logged its event has it in the log (`LoggedEvents`), a context that is known is stored (`KnownAreStored`), and the property. |
| `ProjectorBookMatchesDeltas` (`ProjectorProofs`) | history whose deltas are numbered in order (`DeltasInSequence`) | `BookInv`: no level and no logged delta is above the stored sequence (`BookOK`), and a level shows the last delta that names it (`LevelsCurrent`).  Deltas that come again, or from a process that lags, are below the stored sequence and change nothing. |
| `ProjectorPnlAtLastPrice` (`ProjectorProofs`) | history | `PnlInv`: the types of positions and amounts, and the property, which holds because a trade and the new marks of all positions are one transaction. |
| `ProjectorFilledMatchesFills`, `ProjectorCancelledStays`, `ProjectorFinalStatusStays` (`ProjectorProofs`) | history; the last one when the engine cancels no order that is filled (`CancelsAreOfOpenOrders`) | `FilledInv`: row and context of an order follow from the stored fills (`OrderFollowsFills`).  Fills never go, so what is filled stays filled; `project_order_cancelled` looks at no status, which is why the hypothesis is needed. |
| `ProjectorPositionsAreNetOfFills`, `ProjectorFillsStayLinked` (`ProjectorProofs`) | history in which reduce-only orders, liquidations and auto-deleveraging trade only against what the account has open (`ReduceOnlyReduces`) | `PositionsInv`: an empty position has no fills, and a position together with the closed ones accounts for the account's legs (`Accounted`), by a sum over the legs.  One step per leg, the maker's first, which matters when both are the same account's. |
| `ProjectorTasksNeverAllWait` (`ProjectorProofs`) | history in which the engine answers only what it was sent (`RecordsAreCaused`) | The assumption is about the topics alone: at every cut, the next record of some partition needs only what is above the cut.  The tasks of a process make such a cut, since they start and end together (`Together`); what is above it has been projected, by this process or by another (`ProgressInv`), and is found by the lookups that the record waits for. |
| `ValidOrderTakesLeastMargin` (`WalletProofs`) | range of `i64` and valid form of an order with a price | `RoundedUp`: (n + l - 1) div l is the least m with m l >= n, from the bounds of a division; `PositiveProduct` gives that it is positive.  An order without a price reserves what the client says, so that nothing is left to prove of it. |
| `FlowMarginCoversOrder`, `FlowFundsFollowOrders` (`WalletProofs`) | set of users, keys, markets and forms of orders, deposits and bounds, and any number of wallet processes | `FlowInv` follows an order through the system: commands carry what their requests said (`CommandsFit`), the rows of the outbox and the records of `engine.input` are of commands that were read (`RowsFit`), every engine event is of an input (`EventsFit`), a reservation is what the first order of its key took (`ReservationsFit`), what a task has read fits its command (`ReadersFit`), what the relay holds fits the outbox (`RelayFits`), and the engine's orders and the events it still owes fit its inputs (`EngineFits`, `OrdersFit`).  An event releases a reservation only after a cancel of its order, and an order that is open although it was released was opened again (`Reopened`); when nothing is on its way, what is left is an order for each active reservation. |

The assumptions are the `ASSUME`s of the modules, which TLC evaluates in the runs, and
the hypotheses that the theorems name:

- `SingleRelay`.  With two relays, which no process of the repository starts, `ClaimsHold`
  and `Delivery` are false, because `mark_outbox_published` and `mark_outbox_pending`
  look at no status.
- `OneWallet`, the deployment of the repository.  With two wallet processes, which overlap
  while partitions are not assigned by a group, both look up a key before either stores
  its reply, and the reservation row that a transaction has read may be old: `RepliesAgree`
  is false of them.
- `CancelsAreOfOpenOrders` and `ReduceOnlyReduces` say what the projector relies on the
  engine for; TLC finds them to hold in the histories of `projector`, in which orders are
  cancelled and positions reduced, liquidated and reversed.
- `FeedInSequence` says that the engine numbers the deltas of the market in order, which the
  projector relies on as well; the run `ws` evaluates it.

Sums are proved with `SumTheorems`: `MapThenSumSet` over a finite set of integers is what
adding its elements one by one gives, by the well-foundedness of the subsets of a finite
set (`WFMin`), since the induction rules of the library take an operator.

Only model-checked is everything under fairness (`PublishedRequestsAnswered`,
`QueuedTransfersComplete` and the others that are temporal), which is out of the prover's
reach.  Every invariant of a passing run is stated by a theorem.

## 6. What the violations show

- `wallet_replayed_release` refutes `EveryChangeIsEnqueued` when the engine repeats
  nothing but the wallet does: `release_reservation_with_outbox` has no duplicate
  check, the wallet ends between its commit and the save of the offset, and the
  replayed partial release is applied again while its event, with the same dedupe
  key, is dropped.  `docs/wallet-events.md:33` says that every mutation enqueues its
  event.
- `wallet_fees` refutes `EngineEventsApplied`, under fairness of every task and every
  restart.  The `INSERT ... SELECT ... WHERE $3 >= 0` of `apply_account_delta` selects nothing
  for a negative delta, so that a fee is refused although the account can pay it, and the
  error ends the process.  The settlement of the same record has committed before it, and
  nothing records which commands of an engine event were applied: the wallet that is started
  next reads the record again, finds the reservation consumed, refuses the settlement and
  ends, and so does every one after it.  With a fee of 0 the property holds of the instance.
  `docs/ledger.md:26` says that the wallet applies fees and what else engine events move.  A
  settlement, or a release of all that remains, that commits just before a crash has the
  same fate; `RefusalsExplained` and its theorem list the only reasons for which a release or
  a settlement is refused.  `wallet_crash` uses fees of 0 and no negative deltas.
- `ws_stitching` refutes `GapFreeStitching`: `docs/websocket.md:112` recommends to subscribe
  before fetching the snapshot "for state that needs gap-free live stitching".  When the
  projector lags behind the gateway, a delta that the gateway was past at the subscription is
  not in the snapshot yet, and the client gets it from neither (`FellBetween`); it can tell
  only by the sequence numbers.
- `server_overtaken` refutes `QueuedRequestsComplete`: `resolve` overwrites the
  result of a record with the last reply consumed, so that `FundsReserved`, consumed
  after `OrderAccepted`, makes the request incomplete for good.

Seen in the models and claimed by no document: an `OrderOpened` read after a fill
shows a partly filled order as `OPEN` again; a trade of a liquidation makes up a
reduce-only context for a counterparty whose input lags, and the position it should
open is lost, unless an `OrderOpened` of the counterparty's order precedes the trade and
waits for the context (the properties of the projector leave the former case out, and
only it); `OrderExpired` is
logged by the projector and changes no order; many small fills add up to more margin
than their order has; a session whose mailbox was full is taken out of the hub while its
socket stays open, and a later `Subscribe` is confirmed to it although nothing will be
pushed; such a `Subscribe` also leaves its id in the market's entry of the hub.

Seen in the command flow:

- A `PlaceOrder` that is delivered again after its cancel opens the order once more in the
  benchmark's engine, which does not look at `input_id`, and the wallet has released its
  funds (`Reopened`).
- A retry under a used key is answered with the stored `FundsReserved`, which is not a
  final answer; the engine's reply carries the first request id, so that the request of the
  retry stays incomplete in the server.

## 7. Not modelled

The REST reads other than the order book's, users, authentication and markets (single
statements without state of their own); argument parsing, configuration, metrics and
logging; database row types; the smoke test and the benchmark's driver, which only send
requests and look at the answers; the engine, external to the repository, of which the
benchmark's stand-in opens and cancels but matches nothing; the server's records in the
command flow (they are in `ServerReplies`); memory
growth of `ReplyState`; the limits of `i64` in the projector and in the timeseries; two
wallet processes that overlap, in the properties about replies (section 5, `OneWallet`);
a trade of two different users in the wallet's runs, which have one user (the theorems are
about any number of them); the pings and pongs of a WebSocket, of which only the timeout is left (`Stop`).

## 8. Plan

Done, in this order: wallet; outbox, ledger and their composition; server; timeseries;
projector; WebSocket gateway; proofs of ledger, relay, wallet, server, hub and
timeseries; the command flow from the server's validation to the benchmark's engine and
back; the order book feed; the proof about margins; the wallet's replies, reservations and
sums; the pipeline's exactly-once; the projector; what the gateway sends; the margins and
funds of the command flow; the stitched book; why the wallet refuses an engine event, and
that it may refuse one for ever.

To come:

1. Two relays over one table, and what remains true of them.
2. Two wallet processes in a run (`LockedCoversReservations`, `LedgerAddsUp` with
   stale reservation rows).
3. Checks of `positions/handlers.rs`: a close that reads a position which the engine has
   changed since.
