------------------------------ MODULE WsGateway ------------------------------
(***************************************************************************)
(* The WebSocket gateway: sessions (apps/ws/src/session.rs), the hub that   *)
(* indexes them by user and by market (hub.rs), the router with its dedupe  *)
(* cache (router.rs) and one consumer task per partition of engine.events   *)
(* and wallet.events (consumer.rs).                                         *)
(*                                                                          *)
(* A session is an actor with a bounded mailbox, which the hub pushes to    *)
(* without waiting.  Each method of the hub runs under its lock and is one  *)
(* step; the reply that a session sends after its own call of the hub is    *)
(* written in the same poll of the actor, before its mailbox is looked at   *)
(* again.  The calls that a session has spawned get the lock in the order   *)
(* of its messages; the runtime may run three or more that are waiting at   *)
(* once in another order, on which no property depends.                     *)
(*                                                                          *)
(* A record of a topic is an engine event with the users and the market it  *)
(* concerns, a wallet event with its user and event id, or a record that    *)
(* cannot be decoded.  A behaviour starts with one of the histories of the  *)
(* topics; a record that has not been read may as well not have been        *)
(* written.  Nothing of the gateway outlives its process.                   *)
(***************************************************************************)
EXTENDS Integers, Sequences

CONSTANTS
  Session, User, UserOf, Market, EventId, NoId, Partition,
  History,         \* what engine and wallet write to the partitions
  Payload,         \* what an engine event says, which is forwarded unchanged
  MailboxCapacity, DedupeCapacity,
  MaxCalls,        \* bound: subscribe and unsubscribe messages of the clients
  MaxFaults        \* bound: failures of the consumers and ends of the process

Record ==
       [source: {"engine"}, users: SUBSET User, market: Market, payload: Payload]
  \cup [source: {"wallet"}, user: User, id: EventId \cup {NoId}]
  \cup [source: {"invalid"}]

ASSUME WsAssumption ==
  /\ User \subseteq Int
  /\ UserOf \in [Session -> User]
  /\ History \subseteq [Partition -> Seq(Record)]
  /\ NoId \notin EventId
  /\ MailboxCapacity \in Nat \ {0} /\ DedupeCapacity \in Nat
  /\ MaxCalls \in Nat /\ MaxFaults \in Nat

VARIABLES
  actor,      \* session -> where its actor is
  spawned,    \* session -> calls of the hub it is waiting for
  mailbox,    \* session -> pushes it has not handled
  received,   \* session -> what it has written to its socket
  calls,      \* subscribe and unsubscribe messages so far
  sessions,   \* HubState.sessions
  subs,       \* session -> SessionHandle.markets
  users,      \* HubState.users: user -> sessions
  markets,    \* HubState.markets: market -> sessions
  topic, at,  \* partition -> records, and the offset its task is at
  todo,       \* partition -> broadcasts left of the record at hand
  dedupe,     \* EventDedupe.order; seen is its range
  consuming,  \* the consumer tasks run
  faults

actors == <<actor, spawned, mailbox, received, calls>>
hub == <<sessions, subs, users, markets>>
consumers == <<topic, at, todo, dedupe, consuming>>
vars == <<actors, hub, consumers, faults>>

Seen == {dedupe[i] : i \in DOMAIN dedupe}
Nothing == [users |-> {}, markets |-> {}]

Init ==
  /\ actor = [s \in Session |-> "none"]
  /\ spawned = [s \in Session |-> <<>>]
  /\ mailbox = [s \in Session |-> <<>>]
  /\ received = [s \in Session |-> <<>>]
  /\ calls = 0
  /\ sessions = {}
  /\ subs = [s \in Session |-> {}]
  /\ users = [u \in User |-> {}]
  /\ markets = [m \in Market |-> {}]
  /\ topic \in History
  /\ at = [p \in Partition |-> 1]
  /\ todo = [p \in Partition |-> Nothing]
  /\ dedupe = <<>>
  /\ consuming = TRUE
  /\ faults = 0

-----------------------------------------------------------------------------
(***************************************************************************)
(* The hub.                                                                 *)
(***************************************************************************)
\* Mutant: the entries of the markets stay.
RemoveSessionsMutant(gone) ==
  /\ sessions' = sessions \ gone
  /\ subs' = [s \in Session |-> IF s \in gone THEN {} ELSE subs[s]]
  /\ users' = [u \in User |-> users[u] \ {s \in gone \cap sessions : UserOf[s] = u}]
  /\ UNCHANGED markets

\* remove_session_locked for every one of gone that is still in the hub.
RemoveSessions(gone) ==
  /\ sessions' = sessions \ gone
  /\ subs' = [s \in Session |-> IF s \in gone THEN {} ELSE subs[s]]
  /\ users' = [u \in User |-> users[u] \ {s \in gone \cap sessions : UserOf[s] = u}]
  /\ markets' = [m \in Market |-> markets[m] \ {s \in gone : m \in subs[s]}]

Accepts(s) == actor[s] = "ready" /\ Len(mailbox[s]) < MailboxCapacity

\* Mutant: a session that does not accept the push stays in the hub.
SendToSessionsMutant(targets, push) ==
  LET live == targets \cap sessions
  IN /\ mailbox' = [s \in Session |->
          IF s \in live /\ Accepts(s) THEN Append(mailbox[s], push) ELSE mailbox[s]]
     /\ UNCHANGED hub

\* send_to_sessions_locked: whoever does not accept the push is taken out.
SendToSessions(targets, push) ==
  LET live == targets \cap sessions
      stale == {s \in live : ~Accepts(s)}
  IN /\ mailbox' = [s \in Session |->
          IF s \in live \ stale THEN Append(mailbox[s], push) ELSE mailbox[s]]
     /\ RemoveSessions(stale)

-----------------------------------------------------------------------------
(***************************************************************************)
(* Sessions.                                                                *)
(***************************************************************************)
Write(s, message) == received' = [received EXCEPT ![s] = Append(@, message)]

\* started: the call of register is spawned.
Connect(s) ==
  /\ actor[s] = "none"
  /\ actor' = [actor EXCEPT ![s] = "starting"]
  /\ UNCHANGED <<spawned, mailbox, received, calls, hub, consumers, faults>>

Register(s) ==
  /\ actor[s] = "starting"
  /\ actor' = [actor EXCEPT ![s] = "ready"]
  /\ sessions' = sessions \cup {s}
  /\ subs' = [subs EXCEPT ![s] = {}]
  /\ users' = [users EXCEPT ![UserOf[s]] = @ \cup {s}]
  /\ Write(s, [type |-> "Welcome"])
  /\ UNCHANGED <<spawned, mailbox, calls, markets, consumers, faults>>

\* handle_text with a Subscribe or Unsubscribe of normalized markets (an empty
\* list changes nothing).
ClientMessage(s) ==
  \E op \in {"Subscribe", "Unsubscribe"}, ms \in (SUBSET Market) \ {{}} :
    /\ actor[s] \in {"starting", "ready"}
    /\ calls < MaxCalls
    /\ calls' = calls + 1
    /\ IF actor[s] = "ready"
         THEN /\ spawned' = [spawned EXCEPT ![s] = Append(@, [op |-> op, markets |-> ms])]
              /\ UNCHANGED received
         ELSE /\ Write(s, [type |-> "Error"])
              /\ UNCHANGED spawned
    /\ UNCHANGED <<actor, mailbox, hub, consumers, faults>>

\* Mutant: the index of markets is written, the session's own list is not.
SubscribeMarketsMutant(s, ms) ==
  /\ markets' = [m \in Market |-> IF m \in ms THEN markets[m] \cup {s} ELSE markets[m]]
  /\ UNCHANGED subs

\* The index gets the session even when the hub does not know it.
SubscribeMarkets(s, ms) ==
  /\ subs' = [subs EXCEPT ![s] = IF s \in sessions THEN @ \cup ms ELSE @]
  /\ markets' = [m \in Market |-> IF m \in ms THEN markets[m] \cup {s} ELSE markets[m]]

UnsubscribeMarkets(s, ms) ==
  /\ subs' = [subs EXCEPT ![s] = @ \ ms]
  /\ markets' = [m \in Market |-> IF m \in ms THEN markets[m] \ {s} ELSE markets[m]]

\* Mutant: a subscription is not confirmed.
CallHubMutant(s) ==
  /\ actor[s] = "ready" /\ spawned[s] # <<>>
  /\ LET call == Head(spawned[s])
     IN \/ /\ call.op = "Subscribe"
           /\ SubscribeMarkets(s, call.markets)
           /\ UNCHANGED received
        \/ /\ call.op = "Unsubscribe"
           /\ UnsubscribeMarkets(s, call.markets)
           /\ Write(s, [type |-> "Unsubscribed", markets |-> call.markets])
  /\ spawned' = [spawned EXCEPT ![s] = Tail(@)]
  /\ UNCHANGED <<actor, mailbox, calls, sessions, users, consumers, faults>>

\* A spawned call gets the hub's lock and its confirmation is written.
CallHub(s) ==
  /\ actor[s] = "ready" /\ spawned[s] # <<>>
  /\ LET call == Head(spawned[s])
     IN \/ /\ call.op = "Subscribe"
           /\ SubscribeMarkets(s, call.markets)
           /\ Write(s, [type |-> "Subscribed", markets |-> call.markets])
        \/ /\ call.op = "Unsubscribe"
           /\ UnsubscribeMarkets(s, call.markets)
           /\ Write(s, [type |-> "Unsubscribed", markets |-> call.markets])
  /\ spawned' = [spawned EXCEPT ![s] = Tail(@)]
  /\ UNCHANGED <<actor, mailbox, calls, sessions, users, consumers, faults>>

\* Handler<ServerPush>.
HandlePush(s) ==
  /\ actor[s] = "ready" /\ mailbox[s] # <<>>
  /\ Write(s, Head(mailbox[s]))
  /\ mailbox' = [mailbox EXCEPT ![s] = Tail(@)]
  /\ UNCHANGED <<actor, spawned, calls, hub, consumers, faults>>

\* A close, a protocol error or a heartbeat that is missing for too long ends
\* the actor with all it has spawned; stopped spawns unregister when it knows
\* its session id.
Stop(s) ==
  /\ actor[s] \in {"starting", "ready"}
  /\ actor' = [actor EXCEPT ![s] = IF @ = "ready" THEN "stopped" ELSE "gone"]
  /\ spawned' = [spawned EXCEPT ![s] = <<>>]
  /\ mailbox' = [mailbox EXCEPT ![s] = <<>>]
  /\ UNCHANGED <<received, calls, hub, consumers, faults>>

Unregister(s) ==
  /\ actor[s] = "stopped"
  /\ actor' = [actor EXCEPT ![s] = "gone"]
  /\ RemoveSessions({s})
  /\ UNCHANGED <<spawned, mailbox, received, calls, consumers, faults>>

-----------------------------------------------------------------------------
(***************************************************************************)
(* Consumers and router.                                                    *)
(***************************************************************************)
\* Mutant: one id less is remembered.
RememberMutant(id) ==
  IF DedupeCapacity = 0 THEN dedupe
  ELSE IF Len(dedupe) + 1 >= DedupeCapacity THEN Tail(Append(dedupe, id))
  ELSE Append(dedupe, id)

\* is_duplicate of an id that is not known: it is remembered, the oldest one
\* is forgotten.
Remember(id) ==
  IF DedupeCapacity = 0 THEN dedupe
  ELSE IF Len(dedupe) + 1 > DedupeCapacity THEN Tail(Append(dedupe, id))
  ELSE Append(dedupe, id)

Idle(p) == todo[p] = Nothing
HasRecord(p) == at[p] <= Len(topic[p])
RecordAt(p) == topic[p][at[p]]

Begin(p, route) ==
  /\ todo' = [todo EXCEPT ![p] = route]
  /\ at' = [at EXCEPT ![p] = @ + 1]
  /\ UNCHANGED <<actors, hub, topic, consuming, faults>>

\* process_engine_event: account_user_ids and market_id.
RouteEngineEvent(p) ==
  /\ consuming /\ Idle(p) /\ HasRecord(p) /\ RecordAt(p).source = "engine"
  /\ Begin(p, [users |-> RecordAt(p).users, markets |-> {RecordAt(p).market}])
  /\ UNCHANGED dedupe

\* process_wallet_event.
RouteWalletEvent(p) ==
  /\ consuming /\ Idle(p) /\ HasRecord(p) /\ RecordAt(p).source = "wallet"
  /\ RecordAt(p).id \notin Seen
  /\ Begin(p, [users |-> {RecordAt(p).user}, markets |-> {}])
  /\ dedupe' = IF RecordAt(p).id = NoId THEN dedupe ELSE Remember(RecordAt(p).id)

\* A duplicate, or a record that cannot be decoded.
SkipRecord(p) ==
  /\ consuming /\ Idle(p) /\ HasRecord(p)
  /\ \/ RecordAt(p).source = "wallet" /\ RecordAt(p).id \in Seen
     \/ RecordAt(p).source = "invalid"
  /\ Begin(p, Nothing)
  /\ UNCHANGED dedupe

Push(p, route) == [type |-> route, partition |-> p, offset |-> at[p] - 1]

\* broadcast_account, for one user after the other.
BroadcastAccount(p) ==
  \E first \in todo[p].users :
    /\ consuming /\ \A v \in todo[p].users : first <= v
    /\ SendToSessions(users[first], Push(p, "AccountEvent"))
    /\ todo' = [todo EXCEPT ![p].users = @ \ {first}]
    /\ UNCHANGED <<actor, spawned, received, calls, topic, at, dedupe, consuming, faults>>

\* broadcast_market, after the accounts.
BroadcastMarket(p) ==
  /\ consuming /\ todo[p].users = {}
  /\ \E m \in todo[p].markets : SendToSessions(markets[m], Push(p, "MarketEvent"))
  /\ todo' = [todo EXCEPT ![p] = Nothing]
  /\ UNCHANGED <<actor, spawned, received, calls, topic, at, dedupe, consuming, faults>>

\* fetch_records returns nothing.
FetchNothing(p) ==
  /\ consuming /\ Idle(p) /\ ~HasRecord(p)
  /\ UNCHANGED vars

\* An error of one partition ends all consumer tasks, and is only printed.
ConsumersFail ==
  /\ consuming /\ faults < MaxFaults
  /\ consuming' = FALSE
  /\ faults' = faults + 1
  /\ todo' = [p \in Partition |-> Nothing]
  /\ UNCHANGED <<actors, hub, topic, at, dedupe>>

\* A new process knows no session and starts at the end of every topic, which
\* may be anywhere beyond what was read.
RestartGateway ==
  /\ faults < MaxFaults
  /\ faults' = faults + 1
  /\ actor' = [s \in Session |-> IF actor[s] = "none" THEN "none" ELSE "gone"]
  /\ spawned' = [s \in Session |-> <<>>]
  /\ mailbox' = [s \in Session |-> <<>>]
  /\ sessions' = {}
  /\ subs' = [s \in Session |-> {}]
  /\ users' = [u \in User |-> {}]
  /\ markets' = [m \in Market |-> {}]
  /\ at' \in [Partition -> UNION {at[p] .. Len(topic[p]) + 1 : p \in Partition}]
  /\ \A p \in Partition : at[p] <= at'[p] /\ at'[p] <= Len(topic[p]) + 1
  /\ todo' = [p \in Partition |-> Nothing]
  /\ dedupe' = <<>>
  /\ consuming' = TRUE
  /\ UNCHANGED <<received, calls, topic>>

-----------------------------------------------------------------------------
SessionStep(s) == Register(s) \/ CallHub(s) \/ HandlePush(s) \/ Unregister(s)

ConsumerStep(p) ==
  \/ RouteEngineEvent(p) \/ RouteWalletEvent(p) \/ SkipRecord(p)
  \/ BroadcastAccount(p) \/ BroadcastMarket(p)

Next ==
  \/ \E s \in Session : SessionStep(s) \/ Connect(s) \/ ClientMessage(s) \/ Stop(s)
  \/ \E p \in Partition : ConsumerStep(p) \/ FetchNothing(p)
  \/ ConsumersFail \/ RestartGateway

Spec == Init /\ [][Next]_vars
=============================================================================
