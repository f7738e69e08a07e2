------------------------------- MODULE WsProofs -------------------------------
(***************************************************************************)
(* The gateway for any number of sessions, users and markets, any mailbox   *)
(* capacity and any history of the topics: the hub's maps agree, no push    *)
(* overtakes the reply that confirms it, a registered session is sent its   *)
(* markets without a hole, and a wallet event that is published again is    *)
(* pushed once.                                                             *)
(*                                                                          *)
(* Beside the projector, a client that stitches what it is pushed to a      *)
(* snapshot has the engine's order book.                                    *)
(***************************************************************************)
EXTENDS BookFeed, FiniteSetTheorems, SequenceTheorems, TLAPS

(***************************************************************************)
(* The types of actors and hub; only the domains of the maps are used.      *)
(***************************************************************************)
HubTypeOK ==
  /\ actor \in [Session -> {"none", "starting", "ready", "stopped", "gone"}]
  /\ sessions \subseteq Session
  /\ subs \in [Session -> SUBSET Market]
  /\ users \in [User -> SUBSET Session]
  /\ markets \in [Market -> SUBSET Session]

(***************************************************************************)
(* A session the hub does not know has no list, and one that has not        *)
(* registered is in no market's entry.  A session that the hub has removed  *)
(* may be: what it subscribes to later is entered all the same.             *)
(***************************************************************************)
StrangersAreClean ==
  \A s \in Session :
    /\ s \notin sessions => subs[s] = {}
    /\ actor[s] \in {"none", "starting"} =>
         s \notin sessions /\ \A m \in Market : s \notin markets[m]

(***************************************************************************)
(* What sessions have spawned are calls of subscribe and unsubscribe.       *)
(***************************************************************************)
Call == [op: {"Subscribe", "Unsubscribe"}, markets: SUBSET Market]
CallsTyped == spawned \in [Session -> Seq(Call)]

HubInv == HubTypeOK /\ StrangersAreClean /\ HubIndexesAgree

\* No map holds anything in the beginning.
LEMMA HubInitInv == Init => HubInv
  BY DEF Init, HubInv, HubTypeOK, StrangersAreClean, HubIndexesAgree

-----------------------------------------------------------------------------
\* remove_session_locked keeps the maps in agreement, whoever has ended.
LEMMA RemoveKeepsInv ==
  ASSUME HubInv, NEW gone \in SUBSET Session, RemoveSessions(gone),
         actor' \in [Session -> {"none", "starting", "ready", "stopped", "gone"}],
         \A s \in Session : s \in gone \/ actor'[s] = actor[s],
         \A s \in gone : actor'[s] \notin {"none", "starting"}
  PROVE  HubInv'
<1> USE DEF HubInv
<1>1. /\ sessions' = sessions \ gone
      /\ \A s \in Session : subs'[s] = IF s \in gone THEN {} ELSE subs[s]
      /\ \A u \in User : users'[u] = users[u] \ {s \in gone \cap sessions : UserOf[s] = u}
      /\ \A m \in Market : markets'[m] = markets[m] \ {s \in gone : m \in subs[s]}
  BY DEF RemoveSessions
<1>2. HubTypeOK'
  BY DEF HubTypeOK, RemoveSessions
<1>3. StrangersAreClean'
  BY <1>1 DEF StrangersAreClean
<1>4. \A u \in User : users'[u] = {s \in sessions' : UserOf[s] = u}
  BY <1>1 DEF HubIndexesAgree
<1>5. \A s \in sessions' :
        /\ actor'[s] \in {"ready", "stopped"}
        /\ \A m \in Market : s \in markets'[m] <=> m \in subs'[s]
  BY <1>1 DEF HubIndexesAgree, HubTypeOK
<1>6. HubIndexesAgree'
  BY <1>4, <1>5 DEF HubIndexesAgree
<1> QED
  BY <1>2, <1>3, <1>6

\* A push that a session does not accept removes the session.
LEMMA SendKeepsInv ==
  ASSUME HubInv, NEW targets, NEW push, SendToSessions(targets, push), UNCHANGED actor
  PROVE  HubInv'
<1> DEFINE stale == {s \in targets \cap sessions : ~Accepts(s)}
<1>1. RemoveSessions(stale) /\ stale \subseteq sessions
  BY DEF SendToSessions
<1>2. sessions \subseteq Session
      /\ actor' \in [Session -> {"none", "starting", "ready", "stopped", "gone"}]
      /\ \A s \in sessions : actor'[s] \in {"ready", "stopped"}
  BY DEF HubInv, HubTypeOK, HubIndexesAgree
<1> HIDE DEF stale
<1>3. stale \in SUBSET Session /\ \A s \in stale : actor'[s] \notin {"none", "starting"}
  BY <1>1, <1>2
<1> QED
  BY <1>1, <1>2, <1>3, RemoveKeepsInv

\* A step that leaves hub and actors alone.
LEMMA HubUnchanged ==
  ASSUME HubInv, UNCHANGED <<actor, sessions, subs, users, markets>>
  PROVE  HubInv'
  BY DEF HubInv, HubTypeOK, StrangersAreClean, HubIndexesAgree

\* The call at hand is one.
LEMMA HeadIsCall ==
  ASSUME CallsTyped, NEW s \in Session, spawned[s] # <<>>
  PROVE  Head(spawned[s]).markets \subseteq Market
<1>1. Head(spawned[s]) \in Call
  BY DEF CallsTyped
<1> QED
  BY <1>1 DEF Call

\* register.
LEMMA RegisterKeepsInv ==
  ASSUME HubInv, NEW s \in Session, Register(s)
  PROVE  HubInv'
<1> USE DEF HubInv
<1>1. /\ actor[s] = "starting" /\ actor' = [actor EXCEPT ![s] = "ready"]
      /\ sessions' = sessions \cup {s}
      /\ subs' = [subs EXCEPT ![s] = {}]
      /\ users' = [users EXCEPT ![UserOf[s]] = @ \cup {s}]
      /\ markets' = markets
  BY DEF Register
<1>2. s \notin sessions /\ \A m \in Market : s \notin markets[m]
  BY <1>1 DEF StrangersAreClean
<1>3. UserOf[s] \in User
  BY WsAssumption
<1>4. HubTypeOK'
  BY <1>1, <1>3 DEF HubTypeOK
<1>5. StrangersAreClean'
  BY <1>1 DEF StrangersAreClean, HubTypeOK
<1>6. \A u \in User : users'[u] = {q \in sessions' : UserOf[q] = u}
  BY <1>1, <1>3 DEF HubIndexesAgree, HubTypeOK
<1>7. \A q \in sessions' :
        /\ actor'[q] \in {"ready", "stopped"}
        /\ \A m \in Market : q \in markets'[m] <=> m \in subs'[q]
  BY <1>1, <1>2 DEF HubIndexesAgree, HubTypeOK
<1>8. HubIndexesAgree'
  BY <1>6, <1>7 DEF HubIndexesAgree
<1> QED
  BY <1>4, <1>5, <1>8

\* subscribe_markets and unsubscribe_markets.
LEMMA CallKeepsInv ==
  ASSUME HubInv, CallsTyped, NEW s \in Session, CallHub(s)
  PROVE  HubInv'
<1> USE DEF HubInv
<1>1. actor[s] = "ready" /\ UNCHANGED <<actor, sessions, users>>
  BY DEF CallHub
<1>2. Head(spawned[s]).markets \subseteq Market
  BY HeadIsCall DEF CallHub
<1>3. PICK ms \in SUBSET Market : SubscribeMarkets(s, ms) \/ UnsubscribeMarkets(s, ms)
  BY <1>2 DEF CallHub
<1>4. CASE SubscribeMarkets(s, ms)
  <2>1. /\ markets' = [m \in Market |-> IF m \in ms THEN markets[m] \cup {s} ELSE markets[m]]
        /\ subs' = [subs EXCEPT ![s] = IF s \in sessions THEN @ \cup ms ELSE @]
    BY <1>4 DEF SubscribeMarkets
  <2>2. HubTypeOK' /\ StrangersAreClean'
    BY <1>1, <2>1 DEF HubTypeOK, StrangersAreClean
  <2>3. \A q \in sessions : \A m \in Market : q \in markets'[m] <=> m \in subs'[q]
    BY <2>1 DEF HubTypeOK, HubIndexesAgree
  <2> QED
    BY <1>1, <2>2, <2>3 DEF HubIndexesAgree
<1>5. CASE UnsubscribeMarkets(s, ms)
  <2>1. /\ markets' = [m \in Market |-> IF m \in ms THEN markets[m] \ {s} ELSE markets[m]]
        /\ subs' = [subs EXCEPT ![s] = @ \ ms]
    BY <1>5 DEF UnsubscribeMarkets
  <2>2. HubTypeOK' /\ StrangersAreClean'
    BY <1>1, <2>1 DEF HubTypeOK, StrangersAreClean
  <2>3. \A q \in sessions : \A m \in Market : q \in markets'[m] <=> m \in subs'[q]
    BY <2>1 DEF HubTypeOK, HubIndexesAgree
  <2> QED
    BY <1>1, <2>2, <2>3 DEF HubIndexesAgree
<1> QED
  BY <1>3, <1>4, <1>5

\* An actor starts, or ends: one that has not registered was never in the hub.
LEMMA ActorsKeepInv ==
  ASSUME HubInv, NEW s \in Session, Connect(s) \/ Stop(s)
  PROVE  HubInv'
<1> USE DEF HubInv
<1>1. UNCHANGED <<sessions, subs, users, markets>>
  BY DEF Connect, Stop, hub
<1>2. \/ actor[s] = "none" /\ actor' = [actor EXCEPT ![s] = "starting"]
      \/ actor[s] = "starting" /\ actor' = [actor EXCEPT ![s] = "gone"]
      \/ actor[s] = "ready" /\ actor' = [actor EXCEPT ![s] = "stopped"]
  BY DEF Connect, Stop
<1>3. HubTypeOK' /\ StrangersAreClean'
  BY <1>1, <1>2 DEF HubTypeOK, StrangersAreClean
<1>4. HubIndexesAgree'
  BY <1>1, <1>2 DEF HubTypeOK, StrangersAreClean, HubIndexesAgree
<1> QED
  BY <1>3, <1>4

\* unregister.
LEMMA UnregisterKeepsInv ==
  ASSUME HubInv, NEW s \in Session, Unregister(s)
  PROVE  HubInv'
<1>1. /\ actor' = [actor EXCEPT ![s] = "gone"]
      /\ RemoveSessions({s})
  BY DEF Unregister
<1>2. /\ actor' \in [Session -> {"none", "starting", "ready", "stopped", "gone"}]
      /\ \A q \in Session : q \in {s} \/ actor'[q] = actor[q]
      /\ \A q \in {s} : actor'[q] \notin {"none", "starting"}
  BY <1>1 DEF HubInv, HubTypeOK
<1> QED
  BY <1>1, <1>2, RemoveKeepsInv

\* A new process knows nobody.
LEMMA RestartKeepsInv ==
  ASSUME HubInv, RestartGateway
  PROVE  HubInv'
  BY DEF HubInv, HubTypeOK, StrangersAreClean, HubIndexesAgree, RestartGateway

-----------------------------------------------------------------------------
\* One step per action.
LEMMA HubStepInv == HubInv /\ CallsTyped /\ [Next]_vars => HubInv'
<1> SUFFICES ASSUME HubInv, CallsTyped, [Next]_vars PROVE HubInv'
  OBVIOUS
<1>1. ASSUME NEW s \in Session, SessionStep(s) PROVE HubInv'
  <2>1. CASE HandlePush(s)
    BY <2>1, HubUnchanged DEF HandlePush, hub
  <2> QED
    BY <1>1, <2>1, RegisterKeepsInv, CallKeepsInv, UnregisterKeepsInv DEF SessionStep
<1>2. ASSUME NEW s \in Session, ClientMessage(s) PROVE HubInv'
  BY <1>2, HubUnchanged DEF ClientMessage, hub
<1>3. ASSUME NEW p \in Partition, ConsumerStep(p) PROVE HubInv'
  <2>1. CASE RouteEngineEvent(p) \/ RouteWalletEvent(p) \/ SkipRecord(p)
    BY <2>1, HubUnchanged DEF RouteEngineEvent, RouteWalletEvent, SkipRecord, Begin, hub, actors
  <2>2. CASE BroadcastAccount(p)
    <3>1. PICK u : SendToSessions(users[u], Push(p, "AccountEvent")) /\ UNCHANGED actor
      BY <2>2 DEF BroadcastAccount
    <3> QED
      BY <3>1, SendKeepsInv
  <2>3. CASE BroadcastMarket(p)
    <3>1. PICK m : SendToSessions(markets[m], Push(p, "MarketEvent")) /\ UNCHANGED actor
      BY <2>3 DEF BroadcastMarket
    <3> QED
      BY <3>1, SendKeepsInv
  <2> QED
    BY <1>3, <2>1, <2>2, <2>3 DEF ConsumerStep
<1>4. ASSUME ConsumersFail \/ UNCHANGED vars \/ \E p \in Partition : FetchNothing(p)
      PROVE  HubInv'
  BY <1>4, HubUnchanged DEF ConsumersFail, FetchNothing, vars, hub, actors
<1> QED
  BY <1>1, <1>2, <1>3, <1>4, ActorsKeepInv, RestartKeepsInv DEF Next

\* The calls that sessions have spawned stay calls.
LEMMA CallsStepInv == CallsTyped /\ [Next]_vars => CallsTyped'
<1> SUFFICES ASSUME CallsTyped, [Next]_vars PROVE CallsTyped'
  OBVIOUS
<1>1. ASSUME NEW s \in Session, CallHub(s) PROVE CallsTyped'
  <2>1. spawned' = [spawned EXCEPT ![s] = Tail(@)] /\ spawned[s] # <<>>
    BY <1>1 DEF CallHub
  <2> QED
    BY <2>1 DEF CallsTyped
<1>2. ASSUME NEW s \in Session, ClientMessage(s) PROVE CallsTyped'
  <2>1. \/ UNCHANGED spawned
        \/ \E call \in Call : spawned' = [spawned EXCEPT ![s] = Append(@, call)]
    BY <1>2 DEF ClientMessage, Call
  <2>2. CASE UNCHANGED spawned
    BY <2>2 DEF CallsTyped
  <2>3. ASSUME NEW call \in Call, spawned' = [spawned EXCEPT ![s] = Append(@, call)]
        PROVE  CallsTyped'
    <3>1. spawned \in [Session -> Seq(Call)] /\ Append(spawned[s], call) \in Seq(Call)
      BY DEF CallsTyped
    <3> QED
      BY <2>3, <3>1 DEF CallsTyped
  <2> QED
    BY <2>1, <2>2, <2>3
<1>3. ASSUME NEW s \in Session, Stop(s) PROVE CallsTyped'
  BY <1>3 DEF Stop, CallsTyped
<1>4. CASE RestartGateway
  BY <1>4 DEF RestartGateway, CallsTyped
<1>5. CASE UNCHANGED spawned
  BY <1>5 DEF CallsTyped
<1>6. ASSUME NEW s \in Session,
             Register(s) \/ HandlePush(s) \/ Unregister(s) \/ Connect(s)
      PROVE  UNCHANGED spawned
  BY <1>6 DEF Register, HandlePush, Unregister, Connect
<1>7. ASSUME NEW p \in Partition, ConsumerStep(p) \/ FetchNothing(p)
      PROVE  UNCHANGED spawned
  BY <1>7 DEF ConsumerStep, FetchNothing, RouteEngineEvent, RouteWalletEvent, SkipRecord, Begin,
              BroadcastAccount, BroadcastMarket, actors, vars
<1>8. ASSUME ConsumersFail \/ UNCHANGED vars PROVE UNCHANGED spawned
  BY <1>8 DEF ConsumersFail, vars, actors
<1> QED
  BY <1>1, <1>2, <1>3, <1>4, <1>5, <1>6, <1>7, <1>8 DEF Next, SessionStep

\* The invariants hold in every behaviour.
LEMMA HubInvariant == Spec => [](HubInv /\ CallsTyped)
<1>1. Init => CallsTyped
  BY DEF Init, CallsTyped
<1> QED
  BY <1>1, HubInitInv, HubStepInv, CallsStepInv, PTL DEF Spec

(***************************************************************************)
(* sessions, users and markets of HubState agree whatever sessions connect, *)
(* subscribe, stop and are removed by failed pushes, in any number and      *)
(* order, as far as the sessions are concerned that the hub knows.          *)
(***************************************************************************)
THEOREM WsHubIndexesAgree == Spec => []HubIndexesAgree
<1>1. HubInv /\ CallsTyped => HubIndexesAgree
  BY DEF HubInv
<1> QED
  BY <1>1, HubInvariant, PTL

\* The session's own list leads remove_session_locked to all its entries.
LEMMA RemoveForgets ==
  ASSUME HubInv, NEW gone, RemoveSessions(gone), NEW s \in Session
  PROVE  Forgets(s)
<1>1. /\ sessions' = sessions \ gone
      /\ \A u \in User : users'[u] = users[u] \ {q \in gone \cap sessions : UserOf[q] = u}
      /\ \A m \in Market : markets'[m] = markets[m] \ {q \in gone : m \in subs[q]}
  BY DEF RemoveSessions
<1>2. ASSUME s \in sessions, s \notin sessions' PROVE ~HasEntry(s)'
  <2>1. s \in gone
    BY <1>1, <1>2
  <2>2. \A u \in User : s \notin users'[u]
    BY <1>1, <1>2, <2>1 DEF HubInv, HubIndexesAgree
  <2>3. \A m \in Market : s \notin markets'[m]
    BY <1>1, <1>2, <2>1 DEF HubInv, HubIndexesAgree
  <2> QED
    BY <2>2, <2>3 DEF HasEntry
<1>3. HasEntry(s)' => HasEntry(s)
  BY <1>1 DEF HasEntry
<1> QED
  BY <1>2, <1>3 DEF Forgets

\* A step of no map.
LEMMA SameMapsForget ==
  ASSUME UNCHANGED <<sessions, users, markets>>, NEW s \in Session
  PROVE  Forgets(s)
  BY DEF Forgets, HasEntry

\* register puts one session in, and no other.
LEMMA RegisterForgets ==
  ASSUME HubInv, NEW q \in Session, Register(q), NEW s \in Session
  PROVE  Forgets(s)
<1>1. /\ sessions' = sessions \cup {q}
      /\ users' = [users EXCEPT ![UserOf[q]] = @ \cup {q}]
      /\ markets' = markets
  BY DEF Register
<1>2. s # q => (HasEntry(s)' => HasEntry(s))
  BY <1>1 DEF HasEntry, HubInv, HubTypeOK
<1> QED
  BY <1>1, <1>2 DEF Forgets

\* A call enters the session that makes it, and only by a Subscribe.
LEMMA CallForgets ==
  ASSUME HubInv, NEW q \in Session, CallHub(q), NEW s \in Session
  PROVE  Forgets(s)
<1>1. actor[q] = "ready" /\ spawned[q] # <<>> /\ UNCHANGED <<sessions, users>>
  BY DEF CallHub
<1>2. PICK ms : \/ Head(spawned[q]).op = "Subscribe" /\ SubscribeMarkets(q, ms)
                \/ UnsubscribeMarkets(q, ms)
  BY DEF CallHub
<1>3. CASE Head(spawned[q]).op = "Subscribe" /\ SubscribeMarkets(q, ms)
  <2>1. \A m \in Market : markets'[m] = IF m \in ms THEN markets[m] \cup {q} ELSE markets[m]
    BY <1>3 DEF SubscribeMarkets
  <2>2. s # q => (HasEntry(s)' => HasEntry(s))
    BY <1>1, <2>1 DEF HasEntry
  <2>3. s = q => LateSubscribe(s)
    BY <1>1, <1>3 DEF LateSubscribe
  <2> QED
    BY <1>1, <2>2, <2>3 DEF Forgets
<1>4. CASE UnsubscribeMarkets(q, ms)
  <2>1. \A m \in Market : markets'[m] = IF m \in ms THEN markets[m] \ {q} ELSE markets[m]
    BY <1>4 DEF UnsubscribeMarkets
  <2>2. HasEntry(s)' => HasEntry(s)
    BY <1>1, <2>1 DEF HasEntry
  <2> QED
    BY <1>1, <2>2 DEF Forgets
<1> QED
  BY <1>2, <1>3, <1>4

\* One step per action.
LEMMA ForgetsNext ==
  ASSUME HubInv, Next, NEW s \in Session
  PROVE  Forgets(s)
<1>1. ASSUME NEW q \in Session, HandlePush(q) \/ Connect(q) \/ ClientMessage(q) \/ Stop(q)
      PROVE  UNCHANGED <<sessions, users, markets>>
  BY <1>1 DEF HandlePush, Connect, ClientMessage, Stop, hub
<1>2. ASSUME NEW q \in Session, Unregister(q) PROVE Forgets(s)
  BY <1>2, RemoveForgets DEF Unregister
<1>3. ASSUME NEW p \in Partition, BroadcastAccount(p) \/ BroadcastMarket(p) PROVE Forgets(s)
  <2>1. PICK targets, push : SendToSessions(targets, push)
    BY <1>3 DEF BroadcastAccount, BroadcastMarket
  <2>2. PICK gone : RemoveSessions(gone)
    BY <2>1 DEF SendToSessions
  <2> QED
    BY <2>2, RemoveForgets
<1>4. ASSUME NEW p \in Partition,
             \/ RouteEngineEvent(p) \/ RouteWalletEvent(p) \/ SkipRecord(p) \/ FetchNothing(p)
      PROVE  UNCHANGED <<sessions, users, markets>>
  BY <1>4 DEF RouteEngineEvent, RouteWalletEvent, SkipRecord, FetchNothing, Begin, hub, vars
<1>5. CASE ConsumersFail
  BY <1>5, SameMapsForget DEF ConsumersFail, hub
<1>6. CASE RestartGateway
  <2>1. ~HasEntry(s)'
    BY <1>6 DEF RestartGateway, HasEntry
  <2> QED
    BY <2>1 DEF Forgets
<1> QED
  BY <1>1, <1>2, <1>3, <1>4, <1>5, <1>6, SameMapsForget, RegisterForgets, CallForgets
     DEF Next, SessionStep, ConsumerStep

(***************************************************************************)
(* remove_session_locked leaves nothing of a session in users and markets,  *)
(* and only a Subscribe that comes after it puts a session back that the    *)
(* hub has removed, for any number of sessions, users and markets.          *)
(***************************************************************************)
THEOREM WsHubForgets == Spec => HubForgets
<1>1. HubInv /\ CallsTyped /\ [Next]_vars => [\A s \in Session : Forgets(s)]_vars
  BY ForgetsNext
<1> QED
  BY <1>1, HubInvariant, PTL DEF Spec, HubForgets

-----------------------------------------------------------------------------
(***************************************************************************)
(* What a client is told.  Pushes come from the hub, the other messages     *)
(* from the session itself.                                                 *)
(***************************************************************************)
PushType == [type: {"AccountEvent", "MarketEvent"}, partition: Partition, offset: Int]

Message ==
       [type: {"Welcome", "Error"}]
  \cup [type: {"Subscribed", "Unsubscribed"}, markets: SUBSET Market]
  \cup PushType

StreamsOK ==
  /\ received \in [Session -> Seq(Message)]
  /\ mailbox \in [Session -> Seq(PushType)]

(***************************************************************************)
(* A route belongs to the record before the task's offset, and names users  *)
(* and markets which that record concerns.                                  *)
(***************************************************************************)
ConsumersOK ==
  /\ topic \in [Partition -> Seq(Record)]
  /\ at \in [Partition -> Nat \ {0}]
  /\ todo \in [Partition -> [users: SUBSET User, markets: SUBSET Market]]

RoutesMatch ==
  \A p \in Partition :
    /\ \A u \in todo[p].users : Concerns(topic[p][at[p] - 1], u)
    /\ \A m \in todo[p].markets : topic[p][at[p] - 1].market = m

(***************************************************************************)
(* Whoever the hub knows has been welcomed, and a market's entry holds only *)
(* sessions that have been told Subscribed.                                 *)
(***************************************************************************)
Told(s, type, n) == \E j \in 1 .. n : received[s][j].type = type
ToldOf(s, m, n) ==
  \E j \in 1 .. n : received[s][j].type = "Subscribed" /\ m \in received[s][j].markets

HubFollowsReplies ==
  \A s \in Session :
    /\ s \in sessions => Told(s, "Welcome", Len(received[s]))
    /\ \A m \in Market : s \in markets[m] => ToldOf(s, m, Len(received[s]))

(***************************************************************************)
(* The first n messages confirm a message that comes after them.            *)
(***************************************************************************)
IsConfirmed(s, message, n) ==
  /\ message.type = "AccountEvent" =>
       Concerns(RecordOf(message), UserOf[s]) /\ Told(s, "Welcome", n)
  /\ message.type = "MarketEvent" => ToldOf(s, RecordOf(message).market, n)

StreamsConfirmed ==
  \A s \in Session :
    /\ \A i \in DOMAIN received[s] : IsConfirmed(s, received[s][i], i - 1)
    /\ \A i \in DOMAIN mailbox[s] : IsConfirmed(s, mailbox[s][i], Len(received[s]))

ConfirmInv == StreamsOK /\ ConsumersOK /\ RoutesMatch /\ HubFollowsReplies /\ StreamsConfirmed

\* Nothing that was said is unsaid, and more messages confirm no less.
LEMMA ToldStays ==
  ASSUME StreamsOK, NEW s \in Session, NEW message \in Message,
         NEW n \in 0 .. Len(received[s]), NEW k \in Nat, n <= k, topic' = topic,
         \/ received' = received
         \/ \E q \in Session : received' = [received EXCEPT ![q] = Append(@, message)]
  PROVE  /\ \A type : Told(s, type, n) => Told(s, type, k)'
         /\ \A m : ToldOf(s, m, n) => ToldOf(s, m, k)'
         /\ \A x : IsConfirmed(s, x, n) => IsConfirmed(s, x, k)'
<1> HIDE DEF Message
<1>1. received[s] \in Seq(Message)
  BY DEF StreamsOK
<1>2. received'[s] = received[s] \/ received'[s] = Append(received[s], message)
  BY DEF StreamsOK
<1>3. \A j \in 1 .. n : j \in 1 .. k /\ received'[s][j] = received[s][j]
  BY <1>1, <1>2
<1>4. \A type : Told(s, type, n) => Told(s, type, k)'
  BY <1>3 DEF Told
<1>5. \A m : ToldOf(s, m, n) => ToldOf(s, m, k)'
  BY <1>3 DEF ToldOf
<1>6. \A x : IsConfirmed(s, x, n) => IsConfirmed(s, x, k)'
  BY <1>4, <1>5 DEF IsConfirmed, RecordOf, Concerns
<1> QED
  BY <1>4, <1>5, <1>6

\* A session writes a message that the earlier ones confirm.
LEMMA WriteKeepsStreams ==
  ASSUME StreamsOK, StreamsConfirmed, NEW s \in Session, NEW message \in Message,
         Write(s, message), topic' = topic, IsConfirmed(s, message, Len(received[s])),
         \/ mailbox' = mailbox
         \/ mailbox[s] # <<>> /\ mailbox' = [mailbox EXCEPT ![s] = Tail(@)]
  PROVE  StreamsOK' /\ StreamsConfirmed'
<1> HIDE DEF Message, PushType
<1>1. received' = [received EXCEPT ![s] = Append(@, message)]
  BY DEF Write
<1>2. \E q \in Session : received' = [received EXCEPT ![q] = Append(@, message)]
  BY <1>1
<1>3. StreamsOK'
  <2>1. Append(received[s], message) \in Seq(Message)
    BY DEF StreamsOK
  <2>2. received' \in [Session -> Seq(Message)]
    BY <1>1, <2>1 DEF StreamsOK
  <2>3. mailbox[s] # <<>> => Tail(mailbox[s]) \in Seq(PushType)
    BY DEF StreamsOK
  <2>4. mailbox' \in [Session -> Seq(PushType)]
    BY <2>3 DEF StreamsOK
  <2> QED
    BY <2>2, <2>4 DEF StreamsOK
<1>4. StreamsConfirmed'
  <2> SUFFICES ASSUME NEW q \in Session
               PROVE  /\ \A i \in DOMAIN received'[q] : IsConfirmed(q, received[q][i], i - 1)'
                      /\ \A i \in DOMAIN mailbox'[q] :
                           IsConfirmed(q, mailbox[q][i], Len(received[q]))'
    BY DEF StreamsConfirmed
  <2>1. received[q] \in Seq(Message) /\ received'[q] \in Seq(Message)
        /\ Len(received[q]) \in Nat /\ Len(received'[q]) \in Nat
    BY <1>3 DEF StreamsOK
  <2>2. received'[q] = IF q = s THEN Append(received[q], message) ELSE received[q]
    BY <1>1 DEF StreamsOK
  <2>3. ASSUME NEW i \in DOMAIN received'[q] PROVE IsConfirmed(q, received[q][i], i - 1)'
    <3>1. PICK n \in Nat : n = i - 1 /\ i \in Nat
      BY <2>1
    <3>2. CASE i \in DOMAIN received[q]
      <4>1. PICK x : x = received[q][i] /\ x = received'[q][i]
        BY <2>1, <2>2, <3>2
      <4>2. n \in 0 .. Len(received[q])
        BY <2>1, <3>1, <3>2
      <4>3. IsConfirmed(q, x, n)
        BY <3>1, <3>2, <4>1 DEF StreamsConfirmed
      <4>4. IsConfirmed(q, x, n)'
        <5>1. n <= n
          OBVIOUS
        <5> QED
          BY <1>2, <4>2, <4>3, <5>1, ToldStays
      <4> QED
        BY <3>1, <4>1, <4>4
    <3>3. CASE i \notin DOMAIN received[q]
      <4>1. q = s /\ n = Len(received[q]) /\ received'[q][i] = message
        BY <2>1, <2>2, <3>1, <3>3
      <4>2. n \in 0 .. Len(received[q]) /\ IsConfirmed(q, message, n)
        BY <4>1
      <4>3. IsConfirmed(q, message, n)'
        <5>1. n <= n
          OBVIOUS
        <5> QED
          BY <1>2, <4>2, <5>1, ToldStays
      <4> QED
        BY <3>1, <4>1, <4>3
    <3> QED
      BY <3>2, <3>3
  <2>4. ASSUME NEW i \in DOMAIN mailbox'[q]
        PROVE  IsConfirmed(q, mailbox[q][i], Len(received[q]))'
    <3>1. mailbox[q] \in Seq(PushType)
      BY DEF StreamsOK
    <3>2. \/ mailbox'[q] = mailbox[q]
          \/ mailbox'[q] = Tail(mailbox[q]) /\ mailbox[q] # <<>>
      BY DEF StreamsOK
    <3>3. PICK k \in DOMAIN mailbox[q] : mailbox'[q][i] = mailbox[q][k]
      <4>1. CASE mailbox'[q] = mailbox[q]
        BY <4>1
      <4>2. CASE mailbox'[q] = Tail(mailbox[q]) /\ mailbox[q] # <<>>
        <5>1. i + 1 \in DOMAIN mailbox[q] /\ Tail(mailbox[q])[i] = mailbox[q][i + 1]
          BY <3>1, <4>2
        <5> QED
          BY <4>2, <5>1
      <4> QED
        BY <3>2, <4>1, <4>2
    <3>4. PICK x : x = mailbox[q][k]
      OBVIOUS
    <3>5. IsConfirmed(q, x, Len(received[q]))
      BY <3>4 DEF StreamsConfirmed
    <3>6. Len(received[q]) \in 0 .. Len(received[q]) /\ Len(received[q]) <= Len(received'[q])
      BY <2>1, <2>2
    <3>7. PICK n \in Nat : n = Len(received'[q])
      BY <2>1
    <3>8. IsConfirmed(q, x, n)'
      BY <1>2, <3>5, <3>6, <3>7, ToldStays
    <3> QED
      BY <3>3, <3>4, <3>7, <3>8
  <2> QED
    BY <2>3, <2>4
<1> QED
  BY <1>3, <1>4

\* A confirmation depends on what was written to the socket and on the topics.
LEMMA SameConfirmed ==
  ASSUME UNCHANGED <<received, topic>>
  PROVE  \A s, x, n : IsConfirmed(s, x, n)' <=> IsConfirmed(s, x, n)
BY DEF IsConfirmed, Told, ToldOf, RecordOf, Concerns

\* Only the mailboxes change, and what is in them is confirmed.
LEMMA MailboxConfirmed ==
  ASSUME StreamsConfirmed, UNCHANGED <<received, topic>>,
         \A s \in Session : \A i \in DOMAIN mailbox'[s] :
           IsConfirmed(s, mailbox'[s][i], Len(received[s]))
  PROVE  StreamsConfirmed'
<1> SUFFICES ASSUME NEW s \in Session
             PROVE  /\ \A i \in DOMAIN received'[s] : IsConfirmed(s, received[s][i], i - 1)'
                    /\ \A i \in DOMAIN mailbox'[s] : IsConfirmed(s, mailbox[s][i], Len(received[s]))'
  BY DEF StreamsConfirmed
<1>1. PICK got, box : got = received[s] /\ box = mailbox'[s]
  OBVIOUS
<1>2. /\ \A i \in DOMAIN got : IsConfirmed(s, got[i], i - 1)
      /\ \A i \in DOMAIN box : IsConfirmed(s, box[i], Len(got))
  BY <1>1 DEF StreamsConfirmed
<1>3. /\ \A i \in DOMAIN got : IsConfirmed(s, got[i], i - 1)'
      /\ \A i \in DOMAIN box : IsConfirmed(s, box[i], Len(got))'
  BY <1>2, SameConfirmed
<1> QED
  BY <1>1, <1>3

\* The hub pushes to sessions that have been told what confirms the push.
LEMMA SendKeepsStreams ==
  ASSUME StreamsOK, StreamsConfirmed, NEW targets, NEW push \in PushType,
         SendToSessions(targets, push), UNCHANGED <<received, topic>>,
         \A s \in Session : s \in targets \cap sessions => IsConfirmed(s, push, Len(received[s]))
  PROVE  StreamsOK' /\ StreamsConfirmed'
<1> HIDE DEF Message, PushType
<1>1. mailbox' = [s \in Session |->
        IF s \in (targets \cap sessions) \ {q \in targets \cap sessions : ~Accepts(q)}
          THEN Append(mailbox[s], push) ELSE mailbox[s]]
  BY DEF SendToSessions
<1>2. \A s \in Session : mailbox[s] \in Seq(PushType) /\ Append(mailbox[s], push) \in Seq(PushType)
  BY DEF StreamsOK
<1>3. StreamsOK'
  BY <1>1, <1>2 DEF StreamsOK
<1>4. ASSUME NEW s \in Session, NEW i \in DOMAIN mailbox'[s]
      PROVE  IsConfirmed(s, mailbox'[s][i], Len(received[s]))
  <2>1. CASE mailbox'[s] = mailbox[s]
    BY <2>1 DEF StreamsConfirmed
  <2>2. CASE mailbox'[s] = Append(mailbox[s], push) /\ s \in targets \cap sessions
    <3>1. \/ i \in DOMAIN mailbox[s] /\ mailbox'[s][i] = mailbox[s][i]
          \/ mailbox'[s][i] = push
      BY <1>2, <2>2
    <3> QED
      BY <2>2, <3>1 DEF StreamsConfirmed
  <2> QED
    BY <1>1, <2>1, <2>2
<1>5. StreamsConfirmed'
  BY <1>4, MailboxConfirmed
<1> QED
  BY <1>3, <1>5

\* A session that ends loses its mailbox.
LEMMA StopKeepsStreams ==
  ASSUME StreamsOK, StreamsConfirmed, UNCHANGED <<received, topic>>,
         mailbox' \in [Session -> Seq(PushType)],
         \A s \in Session : mailbox'[s] \in {mailbox[s], <<>>}
  PROVE  StreamsOK' /\ StreamsConfirmed'
<1>1. StreamsOK'
  BY DEF StreamsOK
<1>2. \A s \in Session : \A i \in DOMAIN mailbox'[s] : IsConfirmed(s, mailbox'[s][i], Len(received[s]))
  BY DEF StreamsConfirmed
<1>3. StreamsConfirmed'
  BY <1>2, MailboxConfirmed
<1> QED
  BY <1>1, <1>3

\* The hub's entries are new ones, which the message written with them explains,
\* or old ones.
LEMMA RepliesKeepHub ==
  ASSUME StreamsOK, StreamsOK', HubFollowsReplies, topic' = topic, NEW message \in Message,
         \/ received' = received
         \/ \E q \in Session : received' = [received EXCEPT ![q] = Append(@, message)],
         \A s \in Session :
           s \in sessions' => s \in sessions \/ Told(s, "Welcome", Len(received[s]))',
         \A s \in Session : \A m \in Market :
           s \in markets'[m] => s \in markets[m] \/ ToldOf(s, m, Len(received[s]))'
  PROVE  HubFollowsReplies'
<1> HIDE DEF Message
<1> SUFFICES ASSUME NEW s \in Session
             PROVE  /\ s \in sessions' => Told(s, "Welcome", Len(received[s]))'
                    /\ \A m \in Market : s \in markets'[m] => ToldOf(s, m, Len(received[s]))'
  BY DEF HubFollowsReplies
<1>1. PICK n \in Nat, k \in Nat : n = Len(received[s]) /\ k = Len(received'[s])
  BY DEF StreamsOK
<1>2. n <= k /\ n \in 0 .. Len(received[s])
  <2>1. received[s] \in Seq(Message)
    BY DEF StreamsOK
  <2>2. received'[s] = received[s] \/ received'[s] = Append(received[s], message)
    BY DEF StreamsOK
  <2> QED
    BY <1>1, <2>1, <2>2
<1>3. /\ \A type : Told(s, type, n) => Told(s, type, k)'
      /\ \A m : ToldOf(s, m, n) => ToldOf(s, m, k)'
  BY <1>2, ToldStays
<1> QED
  BY <1>1, <1>3 DEF HubFollowsReplies

\* A record is routed to users and markets that it concerns.
RoutedTo(p, us, ms) ==
  /\ Begin(p, [users |-> us, markets |-> ms])
  /\ us \subseteq User /\ ms \subseteq Market
  /\ \A u \in us : Concerns(RecordAt(p), u)
  /\ \A m \in ms : RecordAt(p).market = m

\* process_engine_event, process_wallet_event and records of no interest.
LEMMA RouteKeepsRoutes ==
  ASSUME ConsumersOK, RoutesMatch, NEW p \in Partition,
         RouteEngineEvent(p) \/ RouteWalletEvent(p) \/ SkipRecord(p)
  PROVE  ConsumersOK' /\ RoutesMatch'
<1>1. RecordAt(p) \in Record /\ at[p] \in Nat \ {0}
  <2>1. topic[p] \in Seq(Record) /\ at[p] \in Nat \ {0}
    BY DEF ConsumersOK
  <2>2. at[p] \in 1 .. Len(topic[p])
    BY <2>1 DEF RouteEngineEvent, RouteWalletEvent, SkipRecord, HasRecord
  <2> HIDE DEF Record
  <2> QED
    BY <2>1, <2>2 DEF RecordAt
<1>2. PICK us, ms : RoutedTo(p, us, ms)
  <2>1. CASE RouteEngineEvent(p)
    <3>1. RecordAt(p).users \subseteq User /\ {RecordAt(p).market} \subseteq Market
      BY <1>1, <2>1 DEF RouteEngineEvent, Record
    <3>2. RoutedTo(p, RecordAt(p).users, {RecordAt(p).market})
      BY <2>1, <3>1 DEF RouteEngineEvent, Concerns, RoutedTo
    <3> QED
      BY <3>2
  <2>2. CASE RouteWalletEvent(p)
    <3>1. RecordAt(p).user \in User
      BY <1>1, <2>2 DEF RouteWalletEvent, Record
    <3>2. RoutedTo(p, {RecordAt(p).user}, {})
      BY <2>2, <3>1 DEF RouteWalletEvent, Concerns, RoutedTo
    <3> QED
      BY <3>2
  <2>3. CASE SkipRecord(p)
    <3>1. RoutedTo(p, {}, {})
      BY <2>3 DEF SkipRecord, Nothing, RoutedTo
    <3> QED
      BY <3>1
  <2> QED
    BY <2>1, <2>2, <2>3
<1>3. /\ todo' = [todo EXCEPT ![p] = [users |-> us, markets |-> ms]]
      /\ at' = [at EXCEPT ![p] = @ + 1] /\ topic' = topic
  BY <1>2 DEF Begin, RoutedTo
<1>4. ConsumersOK'
  BY <1>1, <1>2, <1>3 DEF ConsumersOK, RoutedTo
<1>5. RoutesMatch'
  <2> SUFFICES ASSUME NEW q \in Partition
               PROVE  /\ \A u \in todo'[q].users : Concerns(topic[q][at[q] - 1], u)'
                      /\ \A m \in todo'[q].markets : topic'[q][at'[q] - 1].market = m
    BY DEF RoutesMatch
  <2>1. CASE q = p
    <3>1. /\ todo'[q] = [users |-> us, markets |-> ms]
          /\ topic'[q][at'[q] - 1] = RecordAt(p)
      <4>1. todo'[q] = [users |-> us, markets |-> ms] /\ at'[q] = at[p] + 1
        BY <1>3, <2>1 DEF ConsumersOK
      <4>2. at'[q] - 1 = at[p]
        BY <1>1, <4>1
      <4> QED
        BY <1>3, <2>1, <4>1, <4>2 DEF RecordAt
    <3> QED
      BY <3>1, <1>2 DEF Concerns, RoutedTo
  <2>2. CASE q # p
    <3>1. todo'[q] = todo[q] /\ at'[q] = at[q] /\ topic' = topic
      BY <1>3, <2>2 DEF ConsumersOK
    <3> QED
      BY <3>1 DEF RoutesMatch, Concerns
  <2> QED
    BY <2>1, <2>2
<1> QED
  BY <1>4, <1>5

\* Broadcasts, failures and a new process leave less to do.
LEMMA LessToDo ==
  ASSUME ConsumersOK, RoutesMatch, topic' = topic, at' \in [Partition -> Nat \ {0}],
         todo' \in [Partition -> [users: SUBSET User, markets: SUBSET Market]],
         \A p \in Partition :
           \/ todo'[p] = Nothing
           \/ /\ todo'[p].users \subseteq todo[p].users
              /\ todo'[p].markets \subseteq todo[p].markets
              /\ at'[p] = at[p]
  PROVE  ConsumersOK' /\ RoutesMatch'
<1>1. ConsumersOK'
  BY DEF ConsumersOK
<1>2. RoutesMatch'
  BY DEF RoutesMatch, Concerns, Nothing
<1> QED
  BY <1>1, <1>2

\* broadcast_account and broadcast_market.
LEMMA BroadcastKeepsConfirm ==
  ASSUME ConfirmInv, HubInv, NEW p \in Partition, BroadcastAccount(p) \/ BroadcastMarket(p)
  PROVE  ConfirmInv'
<1> USE DEF ConfirmInv
<1>1. UNCHANGED <<received, topic, at>>
  BY DEF BroadcastAccount, BroadcastMarket
<1>2. /\ todo \in [Partition -> [users: SUBSET User, markets: SUBSET Market]]
      /\ todo[p] \in [users: SUBSET User, markets: SUBSET Market]
      /\ at[p] \in Nat \ {0}
  BY DEF ConsumersOK
<1>3. PICK targets, push :
        /\ SendToSessions(targets, push) /\ push \in PushType
        /\ \A s \in Session : s \in targets \cap sessions => IsConfirmed(s, push, Len(received[s]))
  <2>1. ASSUME NEW route \in {"AccountEvent", "MarketEvent"}
        PROVE  /\ Push(p, route) \in PushType /\ Push(p, route).type = route
               /\ RecordOf(Push(p, route)) = topic[p][at[p] - 1]
    BY <1>2, <2>1 DEF Push, PushType, RecordOf
  <2>2. CASE BroadcastAccount(p)
    <3>1. PICK u \in todo[p].users : SendToSessions(users[u], Push(p, "AccountEvent"))
      BY <2>2 DEF BroadcastAccount
    <3>2. u \in User /\ Concerns(topic[p][at[p] - 1], u)
      BY <1>2, <3>1 DEF RoutesMatch
    <3>3. \A s \in users[u] : s \in sessions /\ UserOf[s] = u
      BY <3>2 DEF HubInv, HubIndexesAgree
    <3>4. \A s \in Session : s \in users[u] \cap sessions =>
            IsConfirmed(s, Push(p, "AccountEvent"), Len(received[s]))
      BY <2>1, <3>2, <3>3 DEF IsConfirmed, HubFollowsReplies
    <3>5. Push(p, "AccountEvent") \in PushType
      BY <2>1
    <3> QED
      BY <3>1, <3>4, <3>5
  <2>3. CASE BroadcastMarket(p)
    <3>1. PICK m \in todo[p].markets : SendToSessions(markets[m], Push(p, "MarketEvent"))
      BY <2>3 DEF BroadcastMarket
    <3>2. m \in Market /\ topic[p][at[p] - 1].market = m
      BY <1>2, <3>1 DEF RoutesMatch
    <3>3. \A s \in Session : s \in markets[m] \cap sessions =>
            IsConfirmed(s, Push(p, "MarketEvent"), Len(received[s]))
      BY <2>1, <3>2 DEF IsConfirmed, HubFollowsReplies
    <3>4. Push(p, "MarketEvent") \in PushType
      BY <2>1
    <3> QED
      BY <3>1, <3>3, <3>4
  <2> QED
    BY <2>2, <2>3
<1>4. StreamsOK' /\ StreamsConfirmed'
  BY <1>1, <1>3, SendKeepsStreams
<1>5. /\ sessions' \subseteq sessions
      /\ \A m \in Market : markets'[m] \subseteq markets[m]
  BY <1>3 DEF SendToSessions, RemoveSessions
<1>6. HubFollowsReplies'
  BY <1>1, <1>5 DEF HubFollowsReplies, Told, ToldOf
<1>7. /\ todo' \in [Partition -> [users: SUBSET User, markets: SUBSET Market]]
      /\ \A q \in Partition :
           \/ todo'[q] = Nothing
           \/ /\ todo'[q].users \subseteq todo[q].users
              /\ todo'[q].markets \subseteq todo[q].markets
              /\ at'[q] = at[q]
  <2>1. \/ \E u : todo' = [todo EXCEPT ![p].users = @ \ {u}]
        \/ todo' = [todo EXCEPT ![p] = Nothing]
    BY DEF BroadcastAccount, BroadcastMarket
  <2>2. ASSUME NEW u, todo' = [todo EXCEPT ![p].users = @ \ {u}] PROVE <1>7!1 /\ <1>7!2
    <3>1. PICK route : route = [todo[p] EXCEPT !.users = todo[p].users \ {u}]
      OBVIOUS
    <3>2. todo' = [todo EXCEPT ![p] = route]
      BY <2>2, <3>1
    <3>3. /\ route \in [users: SUBSET User, markets: SUBSET Market]
          /\ route.users \subseteq todo[p].users /\ route.markets = todo[p].markets
      BY <1>2, <3>1
    <3> QED
      BY <1>1, <1>2, <3>2, <3>3
  <2>3. CASE todo' = [todo EXCEPT ![p] = Nothing]
    BY <1>1, <1>2, <2>3 DEF Nothing
  <2> QED
    BY <2>1, <2>2, <2>3
<1>8. ConsumersOK' /\ RoutesMatch'
  <2>1. at' \in [Partition -> Nat \ {0}]
    BY <1>1 DEF ConsumersOK
  <2> QED
    BY <1>1, <1>7, <2>1, LessToDo
<1> QED
  BY <1>4, <1>6, <1>8

\* A session writes a reply of its own and the hub changes with it.
LEMMA ReplyKeepsConfirm ==
  ASSUME ConfirmInv, NEW s \in Session, NEW reply \in Message,
         reply.type \notin {"AccountEvent", "MarketEvent"},
         Write(s, reply), UNCHANGED <<mailbox, topic, at, todo>>,
         \A q \in Session : q \in sessions' =>
           q \in sessions \/ (q = s /\ reply.type = "Welcome"),
         \A q \in Session : \A m \in Market : q \in markets'[m] =>
           \/ q \in markets[m]
           \/ q = s /\ reply.type = "Subscribed" /\ m \in reply.markets
  PROVE  ConfirmInv'
<1> USE DEF ConfirmInv
<1> HIDE DEF Message
<1>1. IsConfirmed(s, reply, Len(received[s]))
  BY DEF IsConfirmed
<1>2. StreamsOK' /\ StreamsConfirmed'
  BY <1>1, WriteKeepsStreams
<1>3. received' = [received EXCEPT ![s] = Append(@, reply)]
  BY DEF Write
<1>4. /\ received'[s] = Append(received[s], reply) /\ received[s] \in Seq(Message)
      /\ Len(received'[s]) \in Nat \ {0} /\ received'[s][Len(received'[s])] = reply
  BY <1>3 DEF StreamsOK
<1>5. PICK j \in Nat : j = Len(received'[s]) /\ j \in 1 .. j /\ received'[s][j] = reply
  BY <1>4
<1>6. reply.type = "Welcome" => Told(s, "Welcome", Len(received[s]))'
  BY <1>5 DEF Told
<1>7. \A m \in Market : reply.type = "Subscribed" /\ m \in reply.markets =>
        ToldOf(s, m, Len(received[s]))'
  BY <1>5 DEF ToldOf
<1>8. HubFollowsReplies'
  <2>1. \A q \in Session :
          q \in sessions' => q \in sessions \/ Told(q, "Welcome", Len(received[q]))'
    BY <1>6
  <2>2. \A q \in Session : \A m \in Market :
          q \in markets'[m] => q \in markets[m] \/ ToldOf(q, m, Len(received[q]))'
    BY <1>7
  <2> QED
    BY <1>2, <1>3, <2>1, <2>2, RepliesKeepHub
<1>9. ConsumersOK' /\ RoutesMatch'
  BY DEF ConsumersOK, RoutesMatch, Concerns
<1> QED
  BY <1>2, <1>8, <1>9

\* The hub does not grow, no message is written and nothing new is to be pushed.
LEMMA ShrinkKeepsConfirm ==
  ASSUME ConfirmInv, UNCHANGED <<received, topic>>, at' \in [Partition -> Nat \ {0}],
         mailbox' \in [Session -> Seq(PushType)],
         \A s \in Session : mailbox'[s] \in {mailbox[s], <<>>},
         sessions' \subseteq sessions, \A m \in Market : markets'[m] \subseteq markets[m],
         \/ UNCHANGED <<at, todo>>
         \/ todo' = [p \in Partition |-> Nothing]
  PROVE  ConfirmInv'
<1> USE DEF ConfirmInv
<1>1. StreamsOK' /\ StreamsConfirmed'
  BY StopKeepsStreams
<1>2. HubFollowsReplies'
  BY DEF HubFollowsReplies, Told, ToldOf
<1>3. ConsumersOK' /\ RoutesMatch'
  <2>1. todo' \in [Partition -> [users: SUBSET User, markets: SUBSET Market]]
    BY DEF ConsumersOK, Nothing
  <2>2. \A p \in Partition :
          \/ todo'[p] = Nothing
          \/ /\ todo'[p].users \subseteq todo[p].users
             /\ todo'[p].markets \subseteq todo[p].markets
             /\ at'[p] = at[p]
    OBVIOUS
  <2> QED
    BY <2>1, <2>2, LessToDo
<1> QED
  BY <1>1, <1>2, <1>3

\* register, subscribe_markets, unsubscribe_markets and the refusal of a session
\* that has not registered.
LEMMA SessionRepliesKeepConfirm ==
  ASSUME ConfirmInv, CallsTyped, HubTypeOK, NEW s \in Session,
         Register(s) \/ CallHub(s) \/ ClientMessage(s)
  PROVE  ConfirmInv'
<1>1. UNCHANGED <<mailbox, topic, at, todo>>
  BY DEF Register, CallHub, ClientMessage, consumers
<1>2. CASE Register(s)
  <2>1. PICK reply \in Message : reply = [type |-> "Welcome"]
    BY DEF Message
  <2>2. reply.type = "Welcome" /\ Write(s, reply) /\ sessions' = sessions \cup {s}
        /\ markets' = markets
    BY <1>2, <2>1 DEF Register
  <2> QED
    BY <1>1, <2>2, ReplyKeepsConfirm
<1>3. CASE CallHub(s)
  <2>1. PICK ms \in SUBSET Market : ms = Head(spawned[s]).markets
    BY <1>3, HeadIsCall DEF CallHub
  <2>2. sessions' = sessions
    BY <1>3 DEF CallHub
  <2>3. CASE SubscribeMarkets(s, ms) /\ Write(s, [type |-> "Subscribed", markets |-> ms])
    <3>1. PICK reply \in Message : reply = [type |-> "Subscribed", markets |-> ms]
      BY DEF Message
    <3>2. reply.type = "Subscribed" /\ reply.markets = ms /\ Write(s, reply)
      BY <2>3, <3>1
    <3>3. \A q \in Session : \A m \in Market : q \in markets'[m] =>
            \/ q \in markets[m]
            \/ q = s /\ reply.type = "Subscribed" /\ m \in reply.markets
      BY <2>3, <3>2 DEF SubscribeMarkets
    <3> QED
      BY <1>1, <2>2, <3>2, <3>3, ReplyKeepsConfirm
  <2>4. CASE UnsubscribeMarkets(s, ms) /\ Write(s, [type |-> "Unsubscribed", markets |-> ms])
    <3>1. PICK reply \in Message : reply = [type |-> "Unsubscribed", markets |-> ms]
      BY DEF Message
    <3>2. reply.type = "Unsubscribed" /\ Write(s, reply)
      BY <2>4, <3>1
    <3>3. \A q \in Session : \A m \in Market : q \in markets'[m] => q \in markets[m]
      BY <2>4 DEF UnsubscribeMarkets
    <3> QED
      BY <1>1, <2>2, <3>2, <3>3, ReplyKeepsConfirm
  <2> QED
    BY <1>3, <2>1, <2>3, <2>4 DEF CallHub
<1>4. CASE ClientMessage(s)
  <2>1. sessions' = sessions /\ markets' = markets
    BY <1>4 DEF ClientMessage, hub
  <2>2. CASE received' = received
    <3>1. /\ \A q \in Session : mailbox'[q] \in {mailbox[q], <<>>}
          /\ mailbox' \in [Session -> Seq(PushType)] /\ at' \in [Partition -> Nat \ {0}]
      BY <1>1 DEF ConfirmInv, StreamsOK, ConsumersOK
    <3> QED
      BY <1>1, <2>1, <2>2, <3>1, ShrinkKeepsConfirm
  <2>3. CASE Write(s, [type |-> "Error"])
    <3>1. PICK reply \in Message : reply = [type |-> "Error"]
      BY DEF Message
    <3>2. reply.type = "Error" /\ Write(s, reply)
      BY <2>3, <3>1
    <3> QED
      BY <1>1, <2>1, <3>2, ReplyKeepsConfirm
  <2> QED
    BY <1>4, <2>2, <2>3 DEF ClientMessage
<1> QED
  BY <1>2, <1>3, <1>4

\* Handler<ServerPush>.
LEMMA HandlePushKeepsConfirm ==
  ASSUME ConfirmInv, NEW s \in Session, HandlePush(s)
  PROVE  ConfirmInv'
<1> USE DEF ConfirmInv
<1> HIDE DEF Message, PushType
<1>1. /\ mailbox[s] # <<>> /\ mailbox' = [mailbox EXCEPT ![s] = Tail(@)]
      /\ Write(s, Head(mailbox[s])) /\ UNCHANGED <<sessions, markets, topic, at, todo>>
  BY DEF HandlePush, hub, consumers
<1>2. PICK push \in PushType : push = Head(mailbox[s]) /\ push = mailbox[s][1]
  BY <1>1 DEF StreamsOK
<1>3. push \in Message
  BY <1>2 DEF Message
<1>4. IsConfirmed(s, push, Len(received[s]))
  <2>1. 1 \in DOMAIN mailbox[s]
    BY <1>1 DEF StreamsOK
  <2> QED
    BY <1>2, <2>1 DEF StreamsConfirmed
<1>5. StreamsOK' /\ StreamsConfirmed'
  BY <1>1, <1>2, <1>3, <1>4, WriteKeepsStreams
<1>6. HubFollowsReplies'
  <2>1. \E q \in Session : received' = [received EXCEPT ![q] = Append(@, push)]
    BY <1>1, <1>2 DEF Write
  <2> QED
    BY <1>1, <1>3, <1>5, <2>1, RepliesKeepHub
<1>7. ConsumersOK' /\ RoutesMatch'
  BY <1>1 DEF ConsumersOK, RoutesMatch, Concerns
<1> QED
  BY <1>5, <1>6, <1>7

\* Sessions that start or end, a failure of the consumers and a new process.
LEMMA EndingsKeepConfirm ==
  ASSUME ConfirmInv, HubTypeOK,
         \/ \E s \in Session : Connect(s) \/ Stop(s) \/ Unregister(s)
         \/ ConsumersFail \/ RestartGateway \/ UNCHANGED vars
  PROVE  ConfirmInv'
<1> USE DEF ConfirmInv
<1>1. UNCHANGED <<received, topic>>
  BY DEF Connect, Stop, Unregister, ConsumersFail, RestartGateway, vars, consumers, actors
<1>2. /\ mailbox' \in [Session -> Seq(PushType)]
      /\ \A s \in Session : mailbox'[s] \in {mailbox[s], <<>>}
  <2> HIDE DEF PushType
  <2>1. \/ mailbox' = mailbox \/ mailbox' = [s \in Session |-> <<>>]
        \/ \E s \in Session : mailbox' = [mailbox EXCEPT ![s] = <<>>]
    BY DEF Connect, Stop, Unregister, ConsumersFail, RestartGateway, vars, actors
  <2>2. mailbox \in [Session -> Seq(PushType)] /\ <<>> \in Seq(PushType)
    BY DEF StreamsOK
  <2> QED
    BY <2>1, <2>2
<1>3. sessions' \subseteq sessions /\ \A m \in Market : markets'[m] \subseteq markets[m]
  BY DEF Connect, Stop, Unregister, RemoveSessions, ConsumersFail, RestartGateway, vars, hub
<1>4. CASE RestartGateway
  <2> DEFINE Offset == UNION {at[p] .. Len(topic[p]) + 1 : p \in Partition}
  <2>1. todo' = [p \in Partition |-> Nothing] /\ at' \in [Partition -> Offset]
    BY <1>4 DEF RestartGateway
  <2>2. \A p \in Partition : at[p] .. Len(topic[p]) + 1 \subseteq Nat \ {0}
    BY DEF ConsumersOK
  <2>3. Offset \subseteq Nat \ {0}
    <3>1. ASSUME NEW n \in Offset PROVE n \in Nat \ {0}
      <4>1. PICK p \in Partition : n \in at[p] .. Len(topic[p]) + 1
        OBVIOUS
      <4> QED
        BY <2>2, <4>1
    <3> QED
      BY <3>1
  <2> HIDE DEF Offset
  <2>4. at' \in [Partition -> Nat \ {0}]
    BY <2>1, <2>3
  <2> QED
    BY <1>1, <1>2, <1>3, <2>1, <2>4, ShrinkKeepsConfirm
<1>5. CASE ~RestartGateway
  <2>1. at' = at /\ (todo' = todo \/ todo' = [p \in Partition |-> Nothing])
    BY <1>5 DEF Connect, Stop, Unregister, ConsumersFail, vars, consumers
  <2>2. at' \in [Partition -> Nat \ {0}]
    BY <2>1 DEF ConsumersOK
  <2> QED
    BY <1>1, <1>2, <1>3, <2>1, <2>2, ShrinkKeepsConfirm
<1> QED
  BY <1>4, <1>5

\* One step per action.
LEMMA ConfirmStepInv == ConfirmInv /\ HubInv /\ CallsTyped /\ [Next]_vars => ConfirmInv'
<1> SUFFICES ASSUME ConfirmInv, HubInv, CallsTyped, [Next]_vars PROVE ConfirmInv'
  OBVIOUS
<1>1. HubTypeOK
  BY DEF HubInv
<1>2. ASSUME NEW s \in Session, Register(s) \/ CallHub(s) \/ ClientMessage(s) PROVE ConfirmInv'
  BY <1>1, <1>2, SessionRepliesKeepConfirm
<1>3. ASSUME NEW s \in Session, HandlePush(s) PROVE ConfirmInv'
  BY <1>3, HandlePushKeepsConfirm
<1>4. ASSUME NEW p \in Partition, RouteEngineEvent(p) \/ RouteWalletEvent(p) \/ SkipRecord(p)
      PROVE  ConfirmInv'
  <2>1. ConsumersOK' /\ RoutesMatch'
    BY <1>4, RouteKeepsRoutes DEF ConfirmInv
  <2>2. UNCHANGED <<received, mailbox, sessions, markets, topic>>
    BY <1>4 DEF RouteEngineEvent, RouteWalletEvent, SkipRecord, Begin, actors, hub
  <2>3. StreamsOK' /\ HubFollowsReplies' /\ StreamsConfirmed'
    BY <2>2 DEF ConfirmInv, StreamsOK, HubFollowsReplies, StreamsConfirmed, IsConfirmed, Told, ToldOf,
                RecordOf, Concerns
  <2> QED
    BY <2>1, <2>3 DEF ConfirmInv
<1>5. ASSUME NEW p \in Partition, BroadcastAccount(p) \/ BroadcastMarket(p) PROVE ConfirmInv'
  BY <1>5, BroadcastKeepsConfirm
<1>6. ASSUME NEW p \in Partition, FetchNothing(p) PROVE UNCHANGED vars
  BY <1>6 DEF FetchNothing
<1>7. ASSUME \/ \E s \in Session : Connect(s) \/ Stop(s) \/ Unregister(s)
             \/ ConsumersFail \/ RestartGateway \/ UNCHANGED vars
      PROVE  ConfirmInv'
  BY <1>1, <1>7, EndingsKeepConfirm
<1> QED
  BY <1>2, <1>3, <1>4, <1>5, <1>6, <1>7 DEF Next, SessionStep, ConsumerStep

\* Nothing has been said and nothing is to be pushed.
LEMMA ConfirmInit == Init => ConfirmInv
<1> SUFFICES ASSUME Init PROVE ConfirmInv
  OBVIOUS
<1>1. StreamsOK /\ StreamsConfirmed
  BY DEF Init, StreamsOK, StreamsConfirmed
<1>2. topic \in [Partition -> Seq(Record)]
  BY WsAssumption DEF Init
<1>3. ConsumersOK /\ RoutesMatch
  BY <1>2 DEF Init, ConsumersOK, RoutesMatch, Nothing
<1>4. HubFollowsReplies
  BY DEF Init, HubFollowsReplies
<1> QED
  BY <1>1, <1>3, <1>4 DEF ConfirmInv

\* The parts of a stream.
LEMMA StreamParts ==
  ASSUME NEW S, NEW a \in Seq(S), NEW b \in Seq(S)
  PROVE  /\ a \o b \in Seq(S) /\ DOMAIN (a \o b) = 1 .. Len(a) + Len(b)
         /\ \A j \in 1 .. Len(a) : (a \o b)[j] = a[j]
         /\ \A j \in 1 .. Len(b) : (a \o b)[Len(a) + j] = b[j]
  OBVIOUS

\* What the written messages confirm, the whole stream confirms.
LEMMA ConfirmImplies == ConfirmInv => EventsFollowConfirmation
<1> USE DEF ConfirmInv
<1> HIDE DEF Message, PushType
<1> SUFFICES ASSUME ConfirmInv, NEW s \in Session, NEW i \in DOMAIN Stream(s)
             PROVE  /\ Stream(s)[i].type = "AccountEvent" =>
                         /\ Concerns(RecordOf(Stream(s)[i]), UserOf[s])
                         /\ \E j \in 1 .. i - 1 : Stream(s)[j].type = "Welcome"
                    /\ Stream(s)[i].type = "MarketEvent" =>
                         \E j \in 1 .. i - 1 :
                           /\ Stream(s)[j].type = "Subscribed"
                           /\ RecordOf(Stream(s)[i]).market \in Stream(s)[j].markets
  BY DEF EventsFollowConfirmation
<1>1. received[s] \in Seq(Message) /\ mailbox[s] \in Seq(PushType)
  BY DEF StreamsOK
<1>2. PICK k \in Nat : k = Len(received[s])
  BY <1>1
<1>3. /\ i \in 1 .. k + Len(mailbox[s])
      /\ \A j \in 1 .. k : Stream(s)[j] = received[s][j]
      /\ \A j \in 1 .. Len(mailbox[s]) : Stream(s)[k + j] = mailbox[s][j]
  <2>1. PushType \subseteq Message
    BY DEF Message
  <2>2. mailbox[s] \in Seq(Message)
    BY <1>1, <2>1
  <2>3. PICK a \in Seq(Message), b \in Seq(Message) : a = received[s] /\ b = mailbox[s]
    BY <1>1, <2>2
  <2>4. /\ DOMAIN (a \o b) = 1 .. Len(a) + Len(b)
        /\ \A j \in 1 .. Len(a) : (a \o b)[j] = a[j]
        /\ \A j \in 1 .. Len(b) : (a \o b)[Len(a) + j] = b[j]
    BY StreamParts
  <2>5. Stream(s) = a \o b
    BY <2>3 DEF Stream
  <2> QED
    BY <1>2, <2>3, <2>4, <2>5
<1>4. PICK n \in 0 .. k : n <= i - 1 /\ IsConfirmed(s, Stream(s)[i], n)
  <2>1. CASE i <= k
    <3>1. i \in DOMAIN received[s] /\ i - 1 \in 0 .. k /\ Stream(s)[i] = received[s][i]
      BY <1>1, <1>2, <1>3, <2>1
    <3> QED
      BY <1>3, <3>1 DEF StreamsConfirmed
  <2>2. CASE i > k
    <3>1. /\ i - k \in DOMAIN mailbox[s] /\ Stream(s)[i] = mailbox[s][i - k]
          /\ k <= i - 1
      <4>1. PICK l \in Nat : l = Len(mailbox[s])
        BY <1>1
      <4>2. i \in 1 .. k + l
        BY <1>3, <4>1
      <4>3. PICK j \in 1 .. l : j = i - k /\ i = k + j
        BY <2>2, <4>2
      <4>4. Stream(s)[k + j] = mailbox[s][j]
        BY <1>3, <4>1
      <4>5. j \in DOMAIN mailbox[s] /\ k <= i - 1
        BY <1>1, <4>1, <4>3
      <4> QED
        BY <4>3, <4>4, <4>5
    <3>2. IsConfirmed(s, mailbox[s][i - k], Len(received[s]))
      BY <3>1 DEF StreamsConfirmed
    <3> QED
      BY <1>2, <3>1, <3>2
  <2> QED
    BY <1>2, <1>3, <2>1, <2>2
<1>5. \A j \in 1 .. n : j \in 1 .. i - 1 /\ Stream(s)[j] = received[s][j]
  BY <1>2, <1>3, <1>4
<1> QED
  BY <1>4, <1>5 DEF IsConfirmed, Told, ToldOf

(***************************************************************************)
(* No push overtakes the reply that confirms the call which made it         *)
(* possible, and an account's events reach the account's own sessions only, *)
(* for any number of sessions, any history of the topics and any capacity.  *)
(***************************************************************************)
THEOREM WsEventsFollowConfirmation == Spec => []EventsFollowConfirmation
<1>1. ConfirmInv /\ HubInv /\ CallsTyped => EventsFollowConfirmation
  BY ConfirmImplies
<1> QED
  BY <1>1, HubInvariant, ConfirmInit, ConfirmStepInv, PTL DEF Spec

-----------------------------------------------------------------------------
(***************************************************************************)
(* NoGaps.  The offsets of a partition that a sequence of messages holds.   *)
(***************************************************************************)
IsPush(message, route, p) == message.type = route /\ message.partition = p

OffsetsIn(messages, route, p) ==
  {messages[i].offset : i \in {j \in DOMAIN messages : IsPush(messages[j], route, p)}}

Sorted(messages, route, p) ==
  \A i, j \in DOMAIN messages :
    IsPush(messages[i], route, p) /\ IsPush(messages[j], route, p) /\ i < j =>
      messages[i].offset < messages[j].offset

Written(s, route, p) == OffsetsIn(received[s], route, p)
Waiting(s, route, p) == OffsetsIn(mailbox[s], route, p)
Pushed(s, route, p) == Written(s, route, p) \cup Waiting(s, route, p)

(***************************************************************************)
(* Pushes are in order, those in the mailbox after those that are written.  *)
(***************************************************************************)
Ordered(s, route, p) ==
  /\ Sorted(received[s], route, p) /\ Sorted(mailbox[s], route, p)
  /\ \A i \in Written(s, route, p), j \in Waiting(s, route, p) : i < j

(***************************************************************************)
(* The record at hand is still to be sent to the session.  A push of it has *)
(* not been made, and no later one has.                                     *)
(***************************************************************************)
Pending(s, route, p) ==
  IF route = "AccountEvent" THEN UserOf[s] \in todo[p].users ELSE todo[p].markets # {}

NotAhead(s, route, p) ==
  \A n \in Pushed(s, route, p) : n < at[p] /\ (Pending(s, route, p) => n < at[p] - 1)

(***************************************************************************)
(* Between two pushes nothing is missing; and a session that pushes reach   *)
(* has all since its first one, but for the record at hand.                 *)
(***************************************************************************)
Wanted(s, route, p, n, first) ==
  Owed(s, route, p, n) /\ (route = "MarketEvent" => SameMarket(p, n, first))

\* What a session that pushes reach is to get.
Due(s, route, p, n) ==
  Owed(s, route, p, n) /\ (route = "MarketEvent" => topic[p][n].market \in subs[s])

Live(s) == s \in sessions /\ actor[s] = "ready" /\ consuming

Contiguous(s, route, p) ==
  \A first, last \in Pushed(s, route, p) : \A n \in first .. last :
    Wanted(s, route, p, n, first) => n \in Pushed(s, route, p)

Current(s, route, p) ==
  Live(s) => \A first \in Pushed(s, route, p) : \A n \in first .. at[p] - 1 :
    Wanted(s, route, p, n, first) =>
      n \in Pushed(s, route, p) \/ (n = at[p] - 1 /\ Pending(s, route, p))

(***************************************************************************)
(* A session that got an event of a market is subscribed to it unless it    *)
(* has been told Unsubscribed; one that has not registered got nothing.     *)
(***************************************************************************)
Listed(s, p) ==
  \A n \in Pushed(s, "MarketEvent", p) :
    s \in sessions /\ ~Unsubscribed(s, topic[p][n].market) => topic[p][n].market \in subs[s]

Fresh(s, route, p) == actor[s] \in {"none", "starting"} => Pushed(s, route, p) = {}

GapFree(s, route, p) ==
  /\ Ordered(s, route, p) /\ NotAhead(s, route, p) /\ Contiguous(s, route, p)
  /\ Current(s, route, p) /\ Fresh(s, route, p)
  /\ route = "MarketEvent" => Listed(s, p)

Routes == {"AccountEvent", "MarketEvent"}
AllGapFree == \A s \in Session, route \in Routes, p \in Partition : GapFree(s, route, p)

(***************************************************************************)
(* The ids in the dedupe cache are those of records that were read.         *)
(***************************************************************************)
SeenIsRead ==
  \A id \in Seen :
    /\ id # NoId
    /\ \E q \in Partition : \E k \in DOMAIN topic[q] :
         topic[q][k].source = "wallet" /\ topic[q][k].id = id /\ k < at[q]

-----------------------------------------------------------------------------
\* A message at the end of a sequence of messages.
LEMMA AppendedOffsets ==
  ASSUME NEW S, NEW q \in Seq(S), NEW x \in S, NEW route, NEW p
  PROVE  /\ IsPush(x, route, p) =>
              OffsetsIn(Append(q, x), route, p) = OffsetsIn(q, route, p) \cup {x.offset}
         /\ ~IsPush(x, route, p) => OffsetsIn(Append(q, x), route, p) = OffsetsIn(q, route, p)
         /\ Sorted(q, route, p)
            /\ (IsPush(x, route, p) => \A n \in OffsetsIn(q, route, p) : n < x.offset)
            => Sorted(Append(q, x), route, p)
<1>1. PICK l \in Nat : l = Len(q)
  OBVIOUS
<1>2. PICK a : a = Append(q, x)
  OBVIOUS
<1>3. /\ DOMAIN q = 1 .. l /\ DOMAIN a = 1 .. l + 1
      /\ \A i \in 1 .. l : a[i] = q[i]
      /\ a[l + 1] = x
  BY <1>1, <1>2
<1>4. ASSUME NEW o PROVE o \in OffsetsIn(q, route, p) <=>
        \E i \in 1 .. l : IsPush(q[i], route, p) /\ o = q[i].offset
  BY <1>3 DEF OffsetsIn
<1>5. ASSUME NEW o PROVE o \in OffsetsIn(a, route, p) <=>
        \E i \in 1 .. l + 1 : IsPush(a[i], route, p) /\ o = a[i].offset
  BY <1>3 DEF OffsetsIn
<1>6. ASSUME NEW o PROVE o \in OffsetsIn(a, route, p) <=>
        o \in OffsetsIn(q, route, p) \/ (IsPush(x, route, p) /\ o = x.offset)
  <2>1. ASSUME o \in OffsetsIn(a, route, p)
        PROVE  o \in OffsetsIn(q, route, p) \/ (IsPush(x, route, p) /\ o = x.offset)
    <3>1. PICK i \in 1 .. l + 1 : IsPush(a[i], route, p) /\ o = a[i].offset
      BY <1>5, <2>1
    <3>2. CASE i = l + 1
      BY <1>3, <3>1, <3>2
    <3>3. CASE i \in 1 .. l
      BY <1>3, <1>4, <3>1, <3>3
    <3> QED
      BY <3>2, <3>3
  <2>2. ASSUME o \in OffsetsIn(q, route, p) PROVE o \in OffsetsIn(a, route, p)
    <3>1. PICK i \in 1 .. l : IsPush(q[i], route, p) /\ o = q[i].offset
      BY <1>4, <2>2
    <3>2. i \in 1 .. l + 1 /\ a[i] = q[i]
      BY <1>3
    <3> QED
      BY <1>5, <3>1, <3>2
  <2>3. ASSUME IsPush(x, route, p), o = x.offset PROVE o \in OffsetsIn(a, route, p)
    <3>1. l + 1 \in 1 .. l + 1
      OBVIOUS
    <3> QED
      BY <1>3, <1>5, <2>3, <3>1
  <2> QED
    BY <2>1, <2>2, <2>3
<1>7. ASSUME Sorted(q, route, p),
             IsPush(x, route, p) => \A n \in OffsetsIn(q, route, p) : n < x.offset
      PROVE  Sorted(a, route, p)
  <2> SUFFICES ASSUME NEW i \in 1 .. l + 1, NEW j \in 1 .. l + 1,
                      IsPush(a[i], route, p), IsPush(a[j], route, p), i < j
               PROVE  a[i].offset < a[j].offset
    BY <1>3 DEF Sorted
  <2>1. i \in 1 .. l /\ a[i] = q[i]
    BY <1>3
  <2>2. CASE j = l + 1
    <3>1. q[i].offset \in OffsetsIn(q, route, p)
      BY <1>4, <2>1
    <3> QED
      BY <1>3, <1>7, <2>1, <2>2, <3>1
  <2>3. CASE j \in 1 .. l
    BY <1>3, <1>7, <2>1, <2>3 DEF Sorted
  <2> QED
    BY <2>2, <2>3
<1> QED
  BY <1>2, <1>6, <1>7

\* The first message of a mailbox.
LEMMA PoppedOffsets ==
  ASSUME NEW S, NEW q \in Seq(S), q # <<>>, NEW route, NEW p, Sorted(q, route, p)
  PROVE  /\ IsPush(Head(q), route, p) =>
              /\ OffsetsIn(q, route, p) = OffsetsIn(Tail(q), route, p) \cup {Head(q).offset}
              /\ \A n \in OffsetsIn(Tail(q), route, p) : Head(q).offset < n
         /\ ~IsPush(Head(q), route, p) => OffsetsIn(q, route, p) = OffsetsIn(Tail(q), route, p)
         /\ Sorted(Tail(q), route, p)
<1>1. PICK l \in Nat : l + 1 = Len(q)
  OBVIOUS
<1>2. PICK b, x : b = Tail(q) /\ x = Head(q)
  OBVIOUS
<1>3. /\ DOMAIN q = 1 .. l + 1 /\ DOMAIN b = 1 .. l
      /\ \A i \in 1 .. l : b[i] = q[i + 1]
      /\ q[1] = x
  BY <1>1, <1>2
<1>4. ASSUME NEW o PROVE o \in OffsetsIn(q, route, p) <=>
        \E i \in 1 .. l + 1 : IsPush(q[i], route, p) /\ o = q[i].offset
  BY <1>3 DEF OffsetsIn
<1>5. ASSUME NEW o PROVE o \in OffsetsIn(b, route, p) <=>
        \E i \in 1 .. l : IsPush(b[i], route, p) /\ o = b[i].offset
  BY <1>3 DEF OffsetsIn
<1>6. ASSUME NEW o PROVE o \in OffsetsIn(q, route, p) <=>
        o \in OffsetsIn(b, route, p) \/ (IsPush(x, route, p) /\ o = x.offset)
  <2>1. ASSUME o \in OffsetsIn(q, route, p)
        PROVE  o \in OffsetsIn(b, route, p) \/ (IsPush(x, route, p) /\ o = x.offset)
    <3>1. PICK i \in 1 .. l + 1 : IsPush(q[i], route, p) /\ o = q[i].offset
      BY <1>4, <2>1
    <3>2. CASE i = 1
      BY <1>3, <3>1, <3>2
    <3>3. CASE i # 1
      <4>1. PICK j \in 1 .. l : i = j + 1
        <5>1. i - 1 \in 1 .. l /\ i = (i - 1) + 1
          BY <3>3
        <5> QED
          BY <5>1
      <4> QED
        BY <1>3, <1>5, <3>1, <4>1
    <3> QED
      BY <3>2, <3>3
  <2>2. ASSUME o \in OffsetsIn(b, route, p) PROVE o \in OffsetsIn(q, route, p)
    <3>1. PICK i \in 1 .. l : IsPush(b[i], route, p) /\ o = b[i].offset
      BY <1>5, <2>2
    <3>2. i + 1 \in 1 .. l + 1 /\ b[i] = q[i + 1]
      BY <1>3
    <3> QED
      BY <1>4, <3>1, <3>2
  <2>3. ASSUME IsPush(x, route, p), o = x.offset PROVE o \in OffsetsIn(q, route, p)
    <3>1. 1 \in 1 .. l + 1
      OBVIOUS
    <3> QED
      BY <1>3, <1>4, <2>3, <3>1
  <2> QED
    BY <2>1, <2>2, <2>3
<1>7. Sorted(b, route, p)
  <2> SUFFICES ASSUME NEW i \in 1 .. l, NEW j \in 1 .. l,
                      IsPush(b[i], route, p), IsPush(b[j], route, p), i < j
               PROVE  b[i].offset < b[j].offset
    BY <1>3 DEF Sorted
  <2>1. b[i] = q[i + 1] /\ b[j] = q[j + 1] /\ i + 1 \in 1 .. l + 1 /\ j + 1 \in 1 .. l + 1 /\ i + 1 < j + 1
    BY <1>3
  <2> QED
    BY <1>3, <2>1 DEF Sorted
<1>8. ASSUME IsPush(x, route, p), NEW n \in OffsetsIn(b, route, p) PROVE x.offset < n
  <2>1. PICK i \in 1 .. l : IsPush(b[i], route, p) /\ n = b[i].offset
    BY <1>5
  <2>2. b[i] = q[i + 1] /\ i + 1 \in 1 .. l + 1 /\ 1 \in 1 .. l + 1 /\ 1 < i + 1
    BY <1>3
  <2> QED
    BY <1>3, <1>8, <2>1, <2>2 DEF Sorted
<1> QED
  BY <1>2, <1>6, <1>7, <1>8

\* Offsets are numbers.
LEMMA OffsetsTyped ==
  ASSUME StreamsOK, NEW s \in Session, NEW route \in Routes, NEW p \in Partition
  PROVE  Written(s, route, p) \subseteq Int /\ Waiting(s, route, p) \subseteq Int
<1>1. ASSUME NEW x \in Message, IsPush(x, route, p) PROVE x.offset \in Int
  <2>1. x.type \notin {"Welcome", "Error", "Subscribed", "Unsubscribed"}
    BY <1>1 DEF IsPush, Routes
  <2>2. x \in PushType
    BY <2>1 DEF Message
  <2> QED
    BY <2>2 DEF PushType
<1>2. ASSUME NEW x \in PushType PROVE x.offset \in Int
  BY DEF PushType
<1> HIDE DEF Message, PushType
<1>3. received[s] \in Seq(Message) /\ mailbox[s] \in Seq(PushType)
  BY DEF StreamsOK
<1>4. ASSUME NEW o \in Written(s, route, p) PROVE o \in Int
  <2>1. PICK i \in DOMAIN received[s] :
          IsPush(received[s][i], route, p) /\ o = received[s][i].offset
    BY DEF Written, OffsetsIn
  <2>2. received[s][i] \in Message
    BY <1>3
  <2> QED
    BY <1>1, <2>1, <2>2
<1>5. ASSUME NEW o \in Waiting(s, route, p) PROVE o \in Int
  <2>1. PICK i \in DOMAIN mailbox[s] : o = mailbox[s][i].offset
    BY DEF Waiting, OffsetsIn
  <2>2. mailbox[s][i] \in PushType
    BY <1>3
  <2> QED
    BY <1>2, <2>1, <2>2
<1> QED
  BY <1>4, <1>5

\* The streams of a session stay as they are as far as pushes are concerned.
Kept(s, route, p) == Ordered(s, route, p)' /\ Pushed(s, route, p)' = Pushed(s, route, p)

LEMMA SameStreams ==
  ASSUME NEW s, received'[s] = received[s], mailbox'[s] = mailbox[s],
         NEW route, NEW p, Ordered(s, route, p)
  PROVE  Kept(s, route, p)
  BY DEF Kept, Ordered, Pushed, Written, Waiting

\* A session writes something of its own.
LEMMA OwnMessage ==
  ASSUME StreamsOK, NEW s \in Session, NEW x \in Message, x.type \notin Routes,
         received'[s] = Append(received[s], x), mailbox'[s] = mailbox[s],
         NEW route \in Routes, NEW p, Ordered(s, route, p)
  PROVE  Kept(s, route, p)
<1>1. ~IsPush(x, route, p)
  BY DEF IsPush
<1> HIDE DEF Message
<1>2. received[s] \in Seq(Message)
  BY DEF StreamsOK
<1>3. /\ OffsetsIn(received'[s], route, p) = OffsetsIn(received[s], route, p)
      /\ Sorted(received[s], route, p) => Sorted(received'[s], route, p)
  BY <1>1, <1>2, AppendedOffsets
<1> QED
  BY <1>3 DEF Kept, Ordered, Pushed, Written, Waiting

\* A session writes the push that its mailbox holds first.
LEMMA PushHandled ==
  ASSUME StreamsOK, NEW s \in Session, mailbox[s] # <<>>,
         received'[s] = Append(received[s], Head(mailbox[s])), mailbox'[s] = Tail(mailbox[s]),
         NEW route \in Routes, NEW p, Ordered(s, route, p)
  PROVE  Kept(s, route, p)
<1>1. PushType \subseteq Message
  BY DEF Message
<1> HIDE DEF Message, PushType
<1>2. received[s] \in Seq(Message) /\ mailbox[s] \in Seq(PushType)
  BY DEF StreamsOK
<1>3. PICK x : x = Head(mailbox[s])
  OBVIOUS
<1>4. x \in Message
  BY <1>1, <1>2, <1>3
<1>5. Sorted(received[s], route, p) /\ Sorted(mailbox[s], route, p)
  BY DEF Ordered
<1>6. /\ IsPush(x, route, p) =>
           /\ OffsetsIn(mailbox[s], route, p) = OffsetsIn(mailbox'[s], route, p) \cup {x.offset}
           /\ \A n \in OffsetsIn(mailbox'[s], route, p) : x.offset < n
      /\ ~IsPush(x, route, p) => OffsetsIn(mailbox[s], route, p) = OffsetsIn(mailbox'[s], route, p)
      /\ Sorted(mailbox'[s], route, p)
  BY <1>2, <1>3, <1>5, PoppedOffsets
<1>7. IsPush(x, route, p) => \A n \in OffsetsIn(received[s], route, p) : n < x.offset
  BY <1>6 DEF Ordered, Written, Waiting
<1>8. /\ IsPush(x, route, p) =>
           OffsetsIn(received'[s], route, p) = OffsetsIn(received[s], route, p) \cup {x.offset}
      /\ ~IsPush(x, route, p) => OffsetsIn(received'[s], route, p) = OffsetsIn(received[s], route, p)
      /\ Sorted(received'[s], route, p)
  BY <1>2, <1>3, <1>4, <1>5, <1>7, AppendedOffsets
<1>9. Pushed(s, route, p)' = Pushed(s, route, p)
  BY <1>6, <1>8 DEF Pushed, Written, Waiting
<1>10. Ordered(s, route, p)'
  BY <1>6, <1>8 DEF Ordered, Written, Waiting
<1> QED
  BY <1>9, <1>10 DEF Kept

\* A session gets a push that is later than all before.
LEMMA PushAccepted ==
  ASSUME StreamsOK, NEW s \in Session, NEW x \in PushType,
         received'[s] = received[s], mailbox'[s] = Append(mailbox[s], x),
         NEW route \in Routes, NEW p, Ordered(s, route, p),
         IsPush(x, route, p) => \A n \in Pushed(s, route, p) : n < x.offset
  PROVE  /\ Ordered(s, route, p)'
         /\ Pushed(s, route, p)' =
              IF IsPush(x, route, p) THEN Pushed(s, route, p) \cup {x.offset}
                                     ELSE Pushed(s, route, p)
<1> HIDE DEF Message, PushType
<1>1. mailbox[s] \in Seq(PushType)
  BY DEF StreamsOK
<1>2. /\ IsPush(x, route, p) =>
           OffsetsIn(mailbox'[s], route, p) = OffsetsIn(mailbox[s], route, p) \cup {x.offset}
      /\ ~IsPush(x, route, p) => OffsetsIn(mailbox'[s], route, p) = OffsetsIn(mailbox[s], route, p)
      /\ Sorted(mailbox'[s], route, p)
  BY <1>1, AppendedOffsets DEF Ordered, Pushed, Waiting
<1> QED
  BY <1>2 DEF Ordered, Pushed, Written, Waiting

\* A session loses its mailbox: what was last is missing.
LEMMA MailboxLost ==
  ASSUME NEW s, received'[s] = received[s], mailbox'[s] = <<>>,
         NEW route, NEW p, Ordered(s, route, p)
  PROVE  /\ Ordered(s, route, p)'
         /\ Pushed(s, route, p)' \subseteq Pushed(s, route, p)
         /\ \A i \in Pushed(s, route, p)' : \A j \in Pushed(s, route, p) :
              j \notin Pushed(s, route, p)' => i < j
<1>1. Waiting(s, route, p)' = {} /\ Sorted(mailbox'[s], route, p)
  BY DEF Waiting, OffsetsIn, Sorted
<1>2. Written(s, route, p)' = Written(s, route, p)
  BY DEF Written
<1> QED
  BY <1>1, <1>2 DEF Ordered, Pushed

-----------------------------------------------------------------------------
(***************************************************************************)
(* What every step but its registration leaves a session: it does not come  *)
(* back into the hub, nothing it was told is unsaid, and its list loses     *)
(* only markets of which it is told so.                                     *)
(***************************************************************************)
Calm(s) ==
  /\ topic' = topic
  /\ s \in sessions' => s \in sessions
  /\ Live(s)' => Live(s)
  /\ actor'[s] \in {"none", "starting"} => actor[s] \in {"none", "starting"}
  /\ \A m : Unsubscribed(s, m) => Unsubscribed(s, m)'
  /\ \A m : s \in sessions' /\ m \in subs[s] /\ ~Unsubscribed(s, m)' => m \in subs'[s]

\* A session never wants an event that it did not want before.
LEMMA WantedShrinks ==
  ASSUME NEW s \in Session, Calm(s), NEW route \in Routes, NEW p,
         NEW first \in Pushed(s, route, p), NEW n, Wanted(s, route, p, n, first)'
  PROVE  Wanted(s, route, p, n, first)
<1>1. topic' = topic
  BY DEF Calm
<1>2. CASE route = "AccountEvent"
  <2>1. Concerns(topic[p][n], UserOf[s]) /\ ~IsCopy(p, n)
    BY <1>1, <1>2 DEF Wanted, Owed, Concerns, IsCopy
  <2> QED
    BY <1>2, <2>1 DEF Wanted, Owed
<1>3. CASE route = "MarketEvent"
  <2>1. PICK m : m = topic[p][n].market
    OBVIOUS
  <2>2. /\ topic[p][n].source = "engine" /\ ~Unsubscribed(s, m)'
        /\ SameMarket(p, n, first)
    BY <1>1, <1>3, <2>1 DEF Wanted, Owed, SameMarket
  <2>3. ~Unsubscribed(s, m)
    BY <2>2 DEF Calm
  <2> QED
    BY <1>3, <2>1, <2>2, <2>3 DEF Wanted, Owed
<1> QED
  BY <1>2, <1>3 DEF Routes

\* The list of a session holds the markets of its events.
LEMMA ListedStays ==
  ASSUME NEW s \in Session, Calm(s), NEW p, Listed(s, p),
         Pushed(s, "MarketEvent", p)' \subseteq Pushed(s, "MarketEvent", p)
  PROVE  Listed(s, p)'
<1>1. topic' = topic
  BY DEF Calm
<1> SUFFICES ASSUME NEW n \in Pushed(s, "MarketEvent", p)', s \in sessions',
                    ~Unsubscribed(s, topic[p][n].market)'
             PROVE  topic[p][n].market \in subs'[s]
  BY <1>1 DEF Listed
<1>2. PICK m : m = topic[p][n].market
  OBVIOUS
<1>3. ~Unsubscribed(s, m)'
  BY <1>1, <1>2
<1>4. m \in subs[s]
  BY <1>2, <1>3 DEF Calm, Listed
<1> QED
  BY <1>2, <1>3, <1>4 DEF Calm

\* A step in which the session gets nothing new, and after which it is owed
\* nothing that it was not owed before.
LEMMA NothingNew ==
  ASSUME HubInv, HubInv', StreamsOK, ConsumersOK, ConsumersOK',
         NEW s \in Session, Calm(s), NEW route \in Routes, NEW p \in Partition,
         GapFree(s, route, p), Ordered(s, route, p)',
         Pushed(s, route, p)' \subseteq Pushed(s, route, p),
         \A i \in Pushed(s, route, p)' : \A j \in Pushed(s, route, p) :
           j \notin Pushed(s, route, p)' => i < j,
         at[p] <= at'[p], at'[p] # at[p] => ~Pending(s, route, p)',
         Pending(s, route, p)' => Pending(s, route, p),
         Live(s)' => /\ at'[p] = at[p]
                     /\ Pushed(s, route, p)' = Pushed(s, route, p)
                     /\ Pending(s, route, p) /\ Due(s, route, p, at[p] - 1) =>
                          Pending(s, route, p)'
  PROVE  GapFree(s, route, p)'
<1>1. /\ Ordered(s, route, p) /\ NotAhead(s, route, p) /\ Contiguous(s, route, p)
      /\ Current(s, route, p) /\ Fresh(s, route, p)
      /\ route = "MarketEvent" => Listed(s, p)
  BY DEF GapFree
<1>2. at[p] \in Nat /\ at'[p] \in Nat
  BY DEF ConsumersOK
<1>3. Pushed(s, route, p) \subseteq Int
  BY OffsetsTyped DEF Pushed
<1>4. ASSUME NEW first \in Pushed(s, route, p), NEW n, Wanted(s, route, p, n, first)'
      PROVE  Wanted(s, route, p, n, first)
  BY <1>1, <1>4, WantedShrinks
<1>5. NotAhead(s, route, p)'
  BY <1>1, <1>2, <1>3 DEF NotAhead
<1>6. Contiguous(s, route, p)'
  <2> SUFFICES ASSUME NEW first \in Pushed(s, route, p)', NEW last \in Pushed(s, route, p)',
                      NEW n \in first .. last, Wanted(s, route, p, n, first)'
               PROVE  n \in Pushed(s, route, p)'
    BY DEF Contiguous
  <2>1. n \in Pushed(s, route, p)
    BY <1>1, <1>4 DEF Contiguous
  <2> QED
    BY <1>3, <2>1
<1>7. Current(s, route, p)'
  <2> SUFFICES ASSUME Live(s)', NEW first \in Pushed(s, route, p)',
                      NEW n \in first .. at'[p] - 1, Wanted(s, route, p, n, first)'
               PROVE  n \in Pushed(s, route, p)' \/ (n = at'[p] - 1 /\ Pending(s, route, p)')
    BY DEF Current
  <2>1. Live(s) /\ Wanted(s, route, p, n, first)
    BY <1>4 DEF Calm
  <2>2. n \in Pushed(s, route, p) \/ (n = at[p] - 1 /\ Pending(s, route, p))
    BY <1>1, <2>1 DEF Current
  <2>3. Due(s, route, p, n)
    <3>1. Owed(s, route, p, n) /\ (route = "MarketEvent" => SameMarket(p, n, first))
      BY <2>1 DEF Wanted
    <3>2. ASSUME route = "MarketEvent" PROVE topic[p][n].market \in subs[s]
      <4>1. ~Unsubscribed(s, topic[p][n].market) /\ topic[p][n].market = topic[p][first].market
        BY <3>1, <3>2 DEF Owed, SameMarket
      <4> QED
        BY <1>1, <2>1, <3>2, <4>1 DEF Listed, Live
    <3> QED
      BY <3>1, <3>2 DEF Due
  <2> QED
    BY <2>2, <2>3
<1>8. Fresh(s, route, p)'
  BY <1>1 DEF Fresh, Calm
<1>9. route = "MarketEvent" => Listed(s, p)'
  BY <1>1, ListedStays
<1> QED
  BY <1>5, <1>6, <1>7, <1>8, <1>9 DEF GapFree

\* The task of a partition begins with a record, which is still to be sent to
\* the session if the session is owed it.
LEMMA RecordBegun ==
  ASSUME HubInv, HubInv', StreamsOK, ConsumersOK,
         NEW s \in Session, Calm(s), NEW route \in Routes, NEW p \in Partition,
         GapFree(s, route, p), Kept(s, route, p),
         at'[p] = at[p] + 1, ~Pending(s, route, p),
         Owed(s, route, p, at[p]) => Pending(s, route, p)'
  PROVE  GapFree(s, route, p)'
<1>1. /\ Ordered(s, route, p) /\ NotAhead(s, route, p) /\ Contiguous(s, route, p)
      /\ Current(s, route, p) /\ Fresh(s, route, p)
      /\ route = "MarketEvent" => Listed(s, p)
  BY DEF GapFree
<1>2. at[p] \in Nat
  BY DEF ConsumersOK
<1>3. Pushed(s, route, p) \subseteq Int
  BY OffsetsTyped DEF Pushed
<1>4. ASSUME NEW first \in Pushed(s, route, p), NEW n, Wanted(s, route, p, n, first)'
      PROVE  Wanted(s, route, p, n, first)
  BY <1>1, <1>4, WantedShrinks
<1>5. Pushed(s, route, p)' = Pushed(s, route, p) /\ Ordered(s, route, p)'
  BY DEF Kept
<1>6. NotAhead(s, route, p)'
  BY <1>1, <1>2, <1>3, <1>5 DEF NotAhead
<1>7. Contiguous(s, route, p)'
  BY <1>1, <1>4, <1>5 DEF Contiguous
<1>8. Current(s, route, p)'
  <2> SUFFICES ASSUME Live(s)', NEW first \in Pushed(s, route, p),
                      NEW n \in first .. at[p], Wanted(s, route, p, n, first)'
               PROVE  n \in Pushed(s, route, p) \/ (n = at[p] /\ Pending(s, route, p)')
    BY <1>2, <1>5 DEF Current
  <2>1. Live(s) /\ Wanted(s, route, p, n, first)
    BY <1>4 DEF Calm
  <2>2. CASE n = at[p]
    BY <2>1, <2>2 DEF Wanted
  <2>3. CASE n # at[p]
    <3>1. n \in first .. at[p] - 1
      BY <1>2, <1>3, <2>3
    <3> QED
      BY <1>1, <2>1, <3>1 DEF Current
  <2> QED
    BY <2>2, <2>3
<1>9. Fresh(s, route, p)'
  BY <1>1, <1>5 DEF Fresh, Calm
<1>10. route = "MarketEvent" => Listed(s, p)'
  BY <1>1, <1>5, ListedStays
<1> QED
  BY <1>5, <1>6, <1>7, <1>8, <1>9, <1>10 DEF GapFree

\* The record at hand is pushed to a session.
LEMMA RecordPushed ==
  ASSUME HubInv, HubInv', StreamsOK, ConsumersOK,
         NEW s \in Session, Calm(s), NEW route \in Routes, NEW p \in Partition,
         GapFree(s, route, p), Ordered(s, route, p)', Live(s),
         actor'[s] \notin {"none", "starting"},
         Pushed(s, route, p)' = Pushed(s, route, p) \cup {at[p] - 1},
         at'[p] = at[p], Pending(s, route, p), ~Pending(s, route, p)',
         route = "MarketEvent" => topic[p][at[p] - 1].market \in subs'[s]
  PROVE  GapFree(s, route, p)'
<1>1. /\ Ordered(s, route, p) /\ NotAhead(s, route, p) /\ Contiguous(s, route, p)
      /\ Current(s, route, p) /\ Fresh(s, route, p)
      /\ route = "MarketEvent" => Listed(s, p)
  BY DEF GapFree
<1>2. at[p] \in Nat
  BY DEF ConsumersOK
<1>3. Pushed(s, route, p) \subseteq Int
  BY OffsetsTyped DEF Pushed
<1>4. ASSUME NEW first \in Pushed(s, route, p), NEW n, Wanted(s, route, p, n, first)'
      PROVE  Wanted(s, route, p, n, first)
  BY <1>1, <1>4, WantedShrinks
<1>5. \A n \in Pushed(s, route, p) : n < at[p] - 1
  BY <1>1 DEF NotAhead
<1>6. NotAhead(s, route, p)'
  BY <1>2, <1>3, <1>5 DEF NotAhead
<1>7. ASSUME NEW first \in Pushed(s, route, p)', NEW n \in first .. at[p] - 1,
             Wanted(s, route, p, n, first)'
      PROVE  n \in Pushed(s, route, p)'
  <2>1. CASE first = at[p] - 1
    BY <1>2, <2>1
  <2>2. CASE first \in Pushed(s, route, p)
    BY <1>1, <1>4, <1>7, <2>2 DEF Current
  <2> QED
    BY <2>1, <2>2
<1>8. Contiguous(s, route, p)'
  <2> SUFFICES ASSUME NEW first \in Pushed(s, route, p)', NEW last \in Pushed(s, route, p)',
                      NEW n \in first .. last, Wanted(s, route, p, n, first)'
               PROVE  n \in Pushed(s, route, p)'
    BY DEF Contiguous
  <2>1. first \in Int /\ last \in Int /\ last <= at[p] - 1
    BY <1>2, <1>3, <1>5
  <2>2. n \in first .. at[p] - 1
    BY <1>2, <2>1
  <2> QED
    BY <1>7, <2>2
<1>9. Current(s, route, p)'
  BY <1>7 DEF Current
<1>10. Fresh(s, route, p)'
  BY DEF Fresh
<1>11. route = "MarketEvent" => Listed(s, p)'
  <2> SUFFICES ASSUME route = "MarketEvent", NEW n \in Pushed(s, route, p)', s \in sessions',
                      ~Unsubscribed(s, topic[p][n].market)'
               PROVE  topic[p][n].market \in subs'[s]
    BY DEF Listed, Calm
  <2>1. CASE n = at[p] - 1
    BY <2>1
  <2>2. CASE n \in Pushed(s, route, p)
    <3>1. PICK m : m = topic[p][n].market
      OBVIOUS
    <3>2. ~Unsubscribed(s, m)' /\ s \in sessions
      BY <3>1 DEF Calm
    <3>3. m \in subs[s]
      BY <1>1, <2>2, <3>1, <3>2 DEF Calm, Listed
    <3> QED
      BY <3>1, <3>2, <3>3 DEF Calm
  <2> QED
    BY <2>1, <2>2
<1> QED
  BY <1>6, <1>8, <1>9, <1>10, <1>11 DEF GapFree

-----------------------------------------------------------------------------
\* Nothing that was said is unsaid.
LEMMA UnsubscribedStays ==
  ASSUME StreamsOK, NEW s \in Session, NEW m, Unsubscribed(s, m),
         \/ received'[s] = received[s]
         \/ \E x \in Message : received'[s] = Append(received[s], x)
  PROVE  Unsubscribed(s, m)'
<1> HIDE DEF Message
<1>1. received[s] \in Seq(Message)
  BY DEF StreamsOK
<1>2. PICK i \in DOMAIN received[s] :
        received[s][i].type = "Unsubscribed" /\ m \in received[s][i].markets
  BY DEF Unsubscribed
<1>3. i \in DOMAIN received'[s] /\ received'[s][i] = received[s][i]
  BY <1>1
<1> QED
  BY <1>2, <1>3 DEF Unsubscribed

\* The invariants around a step.
Around == HubInv /\ HubInv' /\ ConfirmInv /\ ConfirmInv' /\ AllGapFree

\* A step of sessions that leaves the consumers alone: a session keeps its
\* pushes, or it has ended and lost its mailbox.
LEMMA SessionsKeep ==
  ASSUME Around, at' = at, todo' = todo,
         \A s \in Session : Calm(s),
         \A s \in Session :
           \/ \A route \in Routes, p \in Partition : Kept(s, route, p)
           \/ received'[s] = received[s] /\ mailbox'[s] = <<>> /\ ~Live(s)'
  PROVE  AllGapFree'
<1>1. HubInv /\ HubInv' /\ StreamsOK /\ ConsumersOK /\ ConsumersOK' /\ AllGapFree
  BY DEF Around, ConfirmInv
<1> SUFFICES ASSUME NEW s \in Session, NEW route \in Routes, NEW p \in Partition
             PROVE  GapFree(s, route, p)'
  BY DEF AllGapFree
<1>2. Pending(s, route, p)' <=> Pending(s, route, p)
  BY DEF Pending
<1>3. GapFree(s, route, p) /\ Ordered(s, route, p)
  BY <1>1 DEF AllGapFree, GapFree
<1>4. /\ Ordered(s, route, p)'
      /\ Pushed(s, route, p)' \subseteq Pushed(s, route, p)
      /\ \A i \in Pushed(s, route, p)' : \A j \in Pushed(s, route, p) :
           j \notin Pushed(s, route, p)' => i < j
      /\ Live(s)' => Pushed(s, route, p)' = Pushed(s, route, p)
  BY <1>3, MailboxLost DEF Kept
<1>5. at[p] <= at'[p] /\ at'[p] = at[p]
  BY <1>1 DEF ConsumersOK
<1> QED
  BY <1>1, <1>2, <1>3, <1>4, <1>5, NothingNew

\* A session connects, is refused or leaves the hub: no push is touched.
LEMMA ConnectKeepsGapFree ==
  ASSUME Around, NEW q \in Session, Connect(q) \/ Unregister(q)
  PROVE  AllGapFree'
<1>1. /\ received' = received /\ mailbox' = mailbox /\ topic' = topic
      /\ at' = at /\ todo' = todo /\ consuming' = consuming
  BY DEF Connect, Unregister, consumers
<1>2. HubTypeOK /\ StreamsOK
  BY DEF Around, HubInv, ConfirmInv
<1>3. ASSUME NEW s \in Session PROVE Calm(s)
  <2>1. \A m : Unsubscribed(s, m)' <=> Unsubscribed(s, m)
    BY <1>1 DEF Unsubscribed
  <2>2. CASE Connect(q)
    <3>1. /\ actor[q] = "none" /\ actor' = [actor EXCEPT ![q] = "starting"]
          /\ sessions' = sessions /\ subs' = subs
      BY <2>2 DEF Connect, hub
    <3>2. actor'[s] = IF s = q THEN "starting" ELSE actor[s]
      BY <1>2, <3>1 DEF HubTypeOK
    <3>3. Live(s)' => Live(s)
      BY <1>1, <3>1, <3>2 DEF Live
    <3> QED
      BY <1>1, <2>1, <3>1, <3>2, <3>3 DEF Calm
  <2>3. CASE Unregister(q)
    <3>1. /\ actor[q] = "stopped" /\ actor' = [actor EXCEPT ![q] = "gone"]
          /\ sessions' = sessions \ {q}
          /\ subs'[s] = IF s \in {q} THEN {} ELSE subs[s]
      BY <2>3 DEF Unregister, RemoveSessions
    <3>2. actor'[s] = IF s = q THEN "gone" ELSE actor[s]
      BY <1>2, <3>1 DEF HubTypeOK
    <3>3. Live(s)' => Live(s)
      BY <1>1, <3>1, <3>2 DEF Live
    <3> QED
      BY <1>1, <2>1, <3>1, <3>2, <3>3 DEF Calm
  <2> QED
    BY <2>2, <2>3
<1>4. ASSUME NEW s \in Session, NEW route \in Routes, NEW p \in Partition PROVE Kept(s, route, p)
  BY <1>1, SameStreams DEF Around, AllGapFree, GapFree
<1> QED
  BY <1>1, <1>3, <1>4, SessionsKeep

\* A session loses its mailbox when it ends.
LEMMA StopKeepsGapFree ==
  ASSUME Around, NEW q \in Session, Stop(q)
  PROVE  AllGapFree'
<1>1. /\ received' = received /\ topic' = topic /\ sessions' = sessions /\ subs' = subs
      /\ at' = at /\ todo' = todo /\ consuming' = consuming
      /\ actor' = [actor EXCEPT ![q] = IF @ = "ready" THEN "stopped" ELSE "gone"]
      /\ mailbox' = [mailbox EXCEPT ![q] = <<>>]
  BY DEF Stop, hub, consumers
<1>2. HubTypeOK /\ StreamsOK
  BY DEF Around, HubInv, ConfirmInv
<1>3. ASSUME NEW s \in Session PROVE Calm(s)
  <2>1. \A m : Unsubscribed(s, m)' <=> Unsubscribed(s, m)
    BY <1>1 DEF Unsubscribed
  <2>2. actor'[s] = actor[s] \/ actor'[s] \in {"stopped", "gone"}
    BY <1>1, <1>2 DEF HubTypeOK
  <2>3. Live(s)' => Live(s)
    BY <1>1, <2>2 DEF Live
  <2> QED
    BY <1>1, <2>1, <2>2, <2>3 DEF Calm
<1>4. ASSUME NEW s \in Session, s # q, NEW route \in Routes, NEW p \in Partition
      PROVE  Kept(s, route, p)
  <2>1. mailbox'[s] = mailbox[s] /\ received'[s] = received[s]
    BY <1>1, <1>2, <1>4 DEF StreamsOK
  <2> QED
    BY <2>1, SameStreams DEF Around, AllGapFree, GapFree
<1>5. mailbox'[q] = <<>> /\ received'[q] = received[q] /\ ~Live(q)'
  BY <1>1, <1>2 DEF StreamsOK, HubTypeOK, Live
<1> QED
  BY <1>1, <1>3, <1>4, <1>5, SessionsKeep

\* A session handles a push.
LEMMA HandlePushKeepsGapFree ==
  ASSUME Around, NEW q \in Session, HandlePush(q)
  PROVE  AllGapFree'
<1>1. /\ mailbox[q] # <<>> /\ topic' = topic /\ sessions' = sessions /\ subs' = subs
      /\ at' = at /\ todo' = todo /\ consuming' = consuming /\ actor' = actor
      /\ received' = [received EXCEPT ![q] = Append(@, Head(mailbox[q]))]
      /\ mailbox' = [mailbox EXCEPT ![q] = Tail(@)]
  BY DEF HandlePush, Write, hub, consumers
<1>2. StreamsOK /\ PushType \subseteq Message
  BY DEF Around, ConfirmInv, Message
<1> HIDE DEF Message, PushType
<1>3. Head(mailbox[q]) \in Message
  BY <1>1, <1>2 DEF StreamsOK
<1>4. ASSUME NEW s \in Session PROVE Calm(s)
  <2>1. received'[s] = received[s] \/ \E x \in Message : received'[s] = Append(received[s], x)
    BY <1>1, <1>2, <1>3 DEF StreamsOK
  <2>2. \A m : Unsubscribed(s, m) => Unsubscribed(s, m)'
    BY <1>2, <2>1, UnsubscribedStays
  <2> QED
    BY <1>1, <2>2 DEF Calm, Live
<1>5. ASSUME NEW s \in Session, NEW route \in Routes, NEW p \in Partition PROVE Kept(s, route, p)
  <2>1. Ordered(s, route, p)
    BY DEF Around, AllGapFree, GapFree
  <2>2. CASE s = q
    <3>1. received'[s] = Append(received[s], Head(mailbox[s])) /\ mailbox'[s] = Tail(mailbox[s])
      BY <1>1, <1>2, <2>2 DEF StreamsOK
    <3> QED
      BY <1>1, <1>2, <2>1, <2>2, <3>1, PushHandled
  <2>3. CASE s # q
    <3>1. received'[s] = received[s] /\ mailbox'[s] = mailbox[s]
      BY <1>1, <1>2, <2>3 DEF StreamsOK
    <3> QED
      BY <2>1, <3>1, SameStreams
  <2> QED
    BY <2>2, <2>3
<1> QED
  BY <1>1, <1>4, <1>5, SessionsKeep

\* The replies of a session are no pushes.
LEMMA Replies ==
  /\ [type |-> "Welcome"] \in Message /\ [type |-> "Error"] \in Message
  /\ \A ms \in SUBSET Market :
       /\ [type |-> "Subscribed", markets |-> ms] \in Message
       /\ [type |-> "Unsubscribed", markets |-> ms] \in Message
  BY DEF Message

\* A session writes a reply of its own; what its list loses is in the reply.
LEMMA ReplyKeepsGapFree ==
  ASSUME Around, NEW q \in Session, NEW x \in Message, x.type \notin Routes,
         received' = [received EXCEPT ![q] = Append(@, x)],
         UNCHANGED <<actor, mailbox, sessions, topic, at, todo, consuming>>,
         \A s \in Session : s # q => subs'[s] = subs[s],
         \A m : m \in subs[q] /\ m \notin subs'[q] => x.type = "Unsubscribed" /\ m \in x.markets
  PROVE  AllGapFree'
<1> HIDE DEF Message
<1>1. StreamsOK
  BY DEF Around, ConfirmInv
<1>2. received'[q] = Append(received[q], x) /\ received[q] \in Seq(Message)
  BY <1>1 DEF StreamsOK
<1>3. ASSUME NEW m, m \in subs[q], m \notin subs'[q] PROVE Unsubscribed(q, m)'
  <2>1. PICK l \in Nat : l = Len(received[q]) + 1
    BY <1>2
  <2>2. l \in DOMAIN received'[q] /\ received'[q][l] = x
    BY <1>2, <2>1
  <2> QED
    BY <1>3, <2>2 DEF Unsubscribed
<1>4. ASSUME NEW s \in Session PROVE Calm(s)
  <2>1. received'[s] = received[s] \/ \E y \in Message : received'[s] = Append(received[s], y)
    BY <1>1 DEF StreamsOK
  <2>2. \A m : Unsubscribed(s, m) => Unsubscribed(s, m)'
    BY <1>1, <2>1, UnsubscribedStays
  <2> QED
    BY <1>3, <2>2 DEF Calm, Live
<1>5. ASSUME NEW s \in Session, NEW route \in Routes, NEW p \in Partition PROVE Kept(s, route, p)
  <2>1. Ordered(s, route, p) /\ mailbox'[s] = mailbox[s]
    BY DEF Around, AllGapFree, GapFree
  <2>2. CASE s = q
    BY <1>1, <1>2, <2>1, <2>2, OwnMessage
  <2>3. CASE s # q
    <3>1. received'[s] = received[s]
      BY <1>1, <2>3 DEF StreamsOK
    <3> QED
      BY <2>1, <3>1, SameStreams
  <2> QED
    BY <2>2, <2>3
<1> QED
  BY <1>4, <1>5, SessionsKeep

\* A client's message is spawned as a call, or refused.
LEMMA ClientMessageKeepsGapFree ==
  ASSUME Around, NEW q \in Session, ClientMessage(q)
  PROVE  AllGapFree'
<1>1. UNCHANGED <<actor, mailbox, sessions, subs, topic, at, todo, consuming>>
  BY DEF ClientMessage, hub, consumers
<1>2. CASE UNCHANGED received
  <2>1. ASSUME NEW s \in Session PROVE Calm(s)
    BY <1>1, <1>2 DEF Calm, Live, Unsubscribed
  <2>2. ASSUME NEW s \in Session, NEW route \in Routes, NEW p \in Partition PROVE Kept(s, route, p)
    BY <1>1, <1>2, SameStreams DEF Around, AllGapFree, GapFree
  <2> QED
    BY <1>1, <2>1, <2>2, SessionsKeep
<1>3. CASE Write(q, [type |-> "Error"])
  <2>1. PICK x : x = [type |-> "Error"]
    OBVIOUS
  <2>2. x \in Message /\ x.type \notin Routes
    BY <2>1, Replies DEF Routes
  <2>3. received' = [received EXCEPT ![q] = Append(@, x)]
    BY <1>3, <2>1 DEF Write
  <2> QED
    BY <1>1, <2>2, <2>3, ReplyKeepsGapFree
<1> QED
  BY <1>2, <1>3 DEF ClientMessage

\* The hub's answer to a session.
LEMMA CallHubKeepsGapFree ==
  ASSUME Around, CallsTyped, NEW q \in Session, CallHub(q)
  PROVE  AllGapFree'
<1>1. UNCHANGED <<actor, mailbox, sessions, topic, at, todo, consuming>>
  BY DEF CallHub, consumers
<1>2. PICK ms \in SUBSET Market : ms = Head(spawned[q]).markets
  BY HeadIsCall DEF CallHub
<1>3. subs \in [Session -> SUBSET Market]
  BY DEF Around, HubInv, HubTypeOK
<1>4. CASE SubscribeMarkets(q, ms) /\ Write(q, [type |-> "Subscribed", markets |-> ms])
  <2>1. PICK x : x = [type |-> "Subscribed", markets |-> ms]
    OBVIOUS
  <2>2. x \in Message /\ x.type \notin Routes
    BY <2>1, Replies DEF Routes
  <2>3. received' = [received EXCEPT ![q] = Append(@, x)]
    BY <1>4, <2>1 DEF Write
  <2>4. /\ \A s \in Session : s # q => subs'[s] = subs[s]
        /\ \A m : m \in subs[q] => m \in subs'[q]
    BY <1>3, <1>4 DEF SubscribeMarkets
  <2> QED
    BY <1>1, <2>2, <2>3, <2>4, ReplyKeepsGapFree
<1>5. CASE UnsubscribeMarkets(q, ms) /\ Write(q, [type |-> "Unsubscribed", markets |-> ms])
  <2>1. PICK x : x = [type |-> "Unsubscribed", markets |-> ms]
    OBVIOUS
  <2>2. x \in Message /\ x.type \notin Routes /\ x.type = "Unsubscribed" /\ x.markets = ms
    BY <2>1, Replies DEF Routes
  <2>3. received' = [received EXCEPT ![q] = Append(@, x)]
    BY <1>5, <2>1 DEF Write
  <2>4. /\ \A s \in Session : s # q => subs'[s] = subs[s]
        /\ \A m : m \in subs[q] /\ m \notin subs'[q] => m \in ms
    BY <1>3, <1>5 DEF UnsubscribeMarkets
  <2> QED
    BY <1>1, <2>2, <2>3, <2>4, ReplyKeepsGapFree
<1> QED
  BY <1>2, <1>4, <1>5 DEF CallHub

\* A session that registers has got nothing yet.
LEMMA RegisterKeepsGapFree ==
  ASSUME Around, NEW q \in Session, Register(q)
  PROVE  AllGapFree'
<1>1. HubInv /\ HubInv' /\ StreamsOK /\ ConsumersOK /\ ConsumersOK' /\ AllGapFree /\ HubTypeOK
  BY DEF Around, ConfirmInv, HubInv
<1>2. PICK x : x = [type |-> "Welcome"]
  OBVIOUS
<1>3. /\ received' = [received EXCEPT ![q] = Append(@, x)]
      /\ UNCHANGED <<mailbox, topic, at, todo, consuming>>
      /\ actor[q] = "starting" /\ actor' = [actor EXCEPT ![q] = "ready"]
      /\ sessions' = sessions \cup {q} /\ subs' = [subs EXCEPT ![q] = {}]
  BY <1>2 DEF Register, Write, consumers
<1>4. x \in Message /\ x.type \notin Routes
  BY <1>2, Replies DEF Routes
<1> HIDE DEF Message
<1> SUFFICES ASSUME NEW s \in Session, NEW route \in Routes, NEW p \in Partition
             PROVE  GapFree(s, route, p)'
  BY DEF AllGapFree
<1>5. GapFree(s, route, p) /\ Ordered(s, route, p) /\ Fresh(s, route, p)
  BY <1>1 DEF AllGapFree, GapFree
<1>6. CASE s = q
  <2>1. received'[s] = Append(received[s], x) /\ mailbox'[s] = mailbox[s]
    BY <1>1, <1>3, <1>6 DEF StreamsOK
  <2>2. Kept(s, route, p)
    BY <1>1, <1>4, <1>5, <2>1, OwnMessage
  <2>3. Pushed(s, route, p)' = {} /\ Ordered(s, route, p)'
    BY <1>3, <1>5, <1>6, <2>2 DEF Kept, Fresh
  <2> QED
    BY <2>3 DEF GapFree, NotAhead, Contiguous, Current, Fresh, Listed
<1>7. CASE s # q
  <2>1. /\ received'[s] = received[s] /\ mailbox'[s] = mailbox[s]
        /\ actor'[s] = actor[s] /\ subs'[s] = subs[s]
    BY <1>1, <1>3, <1>7 DEF StreamsOK, HubTypeOK
  <2>2. Kept(s, route, p)
    BY <1>5, <2>1, SameStreams
  <2>3. \A m : Unsubscribed(s, m) => Unsubscribed(s, m)'
    BY <2>1 DEF Unsubscribed
  <2>4. Calm(s)
    BY <1>3, <1>7, <2>1, <2>3 DEF Calm, Live
  <2>5. Pending(s, route, p)' <=> Pending(s, route, p)
    BY <1>3 DEF Pending
  <2>6. at[p] <= at'[p] /\ at'[p] = at[p]
    BY <1>1, <1>3 DEF ConsumersOK
  <2> QED
    BY <1>1, <1>5, <2>2, <2>4, <2>5, <2>6, NothingNew DEF Kept
<1> QED
  BY <1>6, <1>7

\* A task begins with the record at its offset.
LEMMA BegunKeepsGapFree ==
  ASSUME Around, NEW p \in Partition, Idle(p),
         NEW r \in [users: SUBSET User, markets: SUBSET Market], Begin(p, r),
         \A s \in Session : Owed(s, "AccountEvent", p, at[p]) => UserOf[s] \in r.users,
         \A s \in Session : Owed(s, "MarketEvent", p, at[p]) => r.markets # {}
  PROVE  AllGapFree'
<1>1. HubInv /\ HubInv' /\ StreamsOK /\ ConsumersOK /\ ConsumersOK' /\ AllGapFree
  BY DEF Around, ConfirmInv
<1>2. /\ UNCHANGED <<actor, received, mailbox, sessions, subs, topic, consuming>>
      /\ todo' = [todo EXCEPT ![p] = r] /\ at' = [at EXCEPT ![p] = @ + 1]
  BY DEF Begin, actors, hub
<1> SUFFICES ASSUME NEW s \in Session, NEW route \in Routes, NEW o \in Partition
             PROVE  GapFree(s, route, o)'
  BY DEF AllGapFree
<1>3. Calm(s)
  BY <1>2 DEF Calm, Live, Unsubscribed
<1>4. GapFree(s, route, o) /\ Ordered(s, route, o)
  BY <1>1 DEF AllGapFree, GapFree
<1>5. Kept(s, route, o)
  BY <1>2, <1>4, SameStreams
<1>6. CASE o = p
  <2>1. at'[o] = at[o] + 1 /\ todo'[o] = r /\ todo[o] = Nothing
    BY <1>1, <1>2, <1>6 DEF ConsumersOK, Idle
  <2>2. ~Pending(s, route, o)
    BY <2>1 DEF Pending, Nothing
  <2>3. Owed(s, route, o, at[o]) => Pending(s, route, o)'
    BY <1>6, <2>1 DEF Pending, Routes
  <2> QED
    BY <1>1, <1>3, <1>4, <1>5, <2>1, <2>2, <2>3, RecordBegun
<1>7. CASE o # p
  <2>1. at'[o] = at[o] /\ todo'[o] = todo[o] /\ at[o] <= at'[o]
    BY <1>1, <1>2, <1>7 DEF ConsumersOK
  <2>2. Pending(s, route, o)' <=> Pending(s, route, o)
    BY <2>1 DEF Pending
  <2> QED
    BY <1>1, <1>3, <1>4, <1>5, <2>1, <2>2, NothingNew DEF Kept
<1> QED
  BY <1>6, <1>7

\* The record at hand.
LEMMA AtRecord ==
  ASSUME ConsumersOK, NEW p \in Partition, HasRecord(p)
  PROVE  RecordAt(p) \in Record /\ at[p] \in DOMAIN topic[p]
<1> HIDE DEF Record
<1>1. topic[p] \in Seq(Record) /\ at[p] \in Nat \ {0}
  BY DEF ConsumersOK
<1>2. at[p] \in 1 .. Len(topic[p])
  BY <1>1 DEF HasRecord
<1> QED
  BY <1>1, <1>2 DEF RecordAt

\* Whatever is routed goes to everyone it is owed to, and what is skipped is
\* owed to no one.
LEMMA RouteKeepsGapFree ==
  ASSUME Around, SeenIsRead, NEW p \in Partition,
         RouteEngineEvent(p) \/ RouteWalletEvent(p) \/ SkipRecord(p)
  PROVE  AllGapFree'
<1>1. ConsumersOK /\ Idle(p) /\ HasRecord(p)
  BY DEF Around, ConfirmInv, RouteEngineEvent, RouteWalletEvent, SkipRecord
<1>2. PICK e \in Record : e = RecordAt(p) /\ e = topic[p][at[p]]
  BY <1>1, AtRecord DEF RecordAt
<1>3. CASE RouteEngineEvent(p)
  <2>1. e.source = "engine" /\ Begin(p, [users |-> e.users, markets |-> {e.market}])
    BY <1>2, <1>3 DEF RouteEngineEvent
  <2>2. e.users \subseteq User /\ e.market \in Market
    BY <2>1 DEF Record
  <2>3. PICK r : r = [users |-> e.users, markets |-> {e.market}]
    OBVIOUS
  <2>4. r \in [users: SUBSET User, markets: SUBSET Market] /\ r.users = e.users /\ r.markets # {}
    BY <2>2, <2>3
  <2>5. \A s \in Session : Owed(s, "AccountEvent", p, at[p]) => UserOf[s] \in r.users
    BY <1>2, <2>1, <2>4 DEF Owed, Concerns
  <2> QED
    BY <1>1, <2>1, <2>3, <2>4, <2>5, BegunKeepsGapFree
<1>4. CASE RouteWalletEvent(p)
  <2>1. e.source = "wallet" /\ Begin(p, [users |-> {e.user}, markets |-> {}])
    BY <1>2, <1>4 DEF RouteWalletEvent
  <2>2. e.user \in User
    BY <2>1 DEF Record
  <2>3. PICK r : r = [users |-> {e.user}, markets |-> {}]
    OBVIOUS
  <2>4. r \in [users: SUBSET User, markets: SUBSET Market] /\ r.users = {e.user}
    BY <2>2, <2>3
  <2>5. \A s \in Session : Owed(s, "AccountEvent", p, at[p]) => UserOf[s] \in r.users
    BY <1>2, <2>1, <2>4 DEF Owed, Concerns
  <2>6. \A s \in Session : ~Owed(s, "MarketEvent", p, at[p])
    BY <1>2, <2>1 DEF Owed
  <2> QED
    BY <1>1, <2>1, <2>3, <2>4, <2>5, <2>6, BegunKeepsGapFree
<1>5. CASE SkipRecord(p)
  <2>1. Begin(p, Nothing) /\ e.source # "engine"
    BY <1>2, <1>5 DEF SkipRecord
  <2>2. e.source = "wallet" => IsCopy(p, at[p])
    <3> SUFFICES ASSUME e.source = "wallet" PROVE IsCopy(p, at[p])
      OBVIOUS
    <3>1. e.id \in Seen
      BY <1>2, <1>5 DEF SkipRecord
    <3>2. PICK q \in Partition : \E k \in DOMAIN topic[q] :
            topic[q][k].source = "wallet" /\ topic[q][k].id = e.id /\ k < at[q]
      BY <3>1 DEF SeenIsRead
    <3> QED
      BY <1>2, <3>1, <3>2 DEF SeenIsRead, IsCopy
  <2>3. \A s \in Session : ~Owed(s, "AccountEvent", p, at[p]) /\ ~Owed(s, "MarketEvent", p, at[p])
    BY <1>2, <2>1, <2>2 DEF Owed, Concerns
  <2>4. PICK r : r = Nothing
    OBVIOUS
  <2>5. r \in [users: SUBSET User, markets: SUBSET Market]
    BY <2>4 DEF Nothing
  <2> QED
    BY <1>1, <2>1, <2>3, <2>4, <2>5, BegunKeepsGapFree
<1> QED
  BY <1>3, <1>4, <1>5

\* The consumers fail, or the process ends: from then on nothing reaches a
\* session that was connected.
LEMMA FaultKeepsGapFree ==
  ASSUME Around, ConsumersFail \/ RestartGateway
  PROVE  AllGapFree'
<1>1. HubInv /\ HubInv' /\ StreamsOK /\ ConsumersOK /\ ConsumersOK' /\ AllGapFree /\ HubTypeOK
  BY DEF Around, ConfirmInv, HubInv
<1>2. /\ received' = received /\ topic' = topic
      /\ todo' = [p \in Partition |-> Nothing]
      /\ \A p \in Partition : at[p] <= at'[p]
      /\ \A s \in Session : mailbox'[s] \in {mailbox[s], <<>>} /\ ~Live(s)'
  <2>1. CASE ConsumersFail
    <3>1. \A p \in Partition : at[p] <= at[p]
      BY <1>1 DEF ConsumersOK
    <3> QED
      BY <2>1, <3>1 DEF ConsumersFail, actors, Live
  <2>2. CASE RestartGateway
    BY <2>2 DEF RestartGateway, Live
  <2> QED
    BY <2>1, <2>2
<1> SUFFICES ASSUME NEW s \in Session, NEW route \in Routes, NEW p \in Partition
             PROVE  GapFree(s, route, p)'
  BY DEF AllGapFree
<1>3. \A m : Unsubscribed(s, m)' <=> Unsubscribed(s, m)
  BY <1>2 DEF Unsubscribed
<1>4. Calm(s)
  <2>1. CASE ConsumersFail
    <3>1. UNCHANGED <<actor, sessions, subs>>
      BY <2>1 DEF ConsumersFail, actors, hub
    <3> QED
      BY <1>2, <1>3, <3>1 DEF Calm
  <2>2. CASE RestartGateway
    <3>1. sessions' = {} /\ actor'[s] = IF actor[s] = "none" THEN "none" ELSE "gone"
      BY <2>2 DEF RestartGateway
    <3> QED
      BY <1>2, <1>3, <3>1 DEF Calm
  <2> QED
    BY <2>1, <2>2
<1>5. GapFree(s, route, p) /\ Ordered(s, route, p)
  BY <1>1 DEF AllGapFree, GapFree
<1>6. /\ Ordered(s, route, p)'
      /\ Pushed(s, route, p)' \subseteq Pushed(s, route, p)
      /\ \A i \in Pushed(s, route, p)' : \A j \in Pushed(s, route, p) :
           j \notin Pushed(s, route, p)' => i < j
  <2>1. CASE mailbox'[s] = mailbox[s]
    <3>1. Kept(s, route, p)
      BY <1>2, <1>5, <2>1, SameStreams
    <3> QED
      BY <3>1 DEF Kept
  <2>2. CASE mailbox'[s] = <<>>
    BY <1>2, <1>5, <2>2, MailboxLost
  <2> QED
    BY <1>2, <2>1, <2>2
<1>7. ~Pending(s, route, p)'
  BY <1>2 DEF Pending, Nothing
<1> QED
  BY <1>1, <1>2, <1>4, <1>5, <1>6, <1>7, NothingNew

\* A broadcast: the sessions it goes to get it or are taken out of the hub, and
\* it is owed to no other session that is in the hub.
LEMMA BroadcastKeepsGapFree ==
  ASSUME Around, NEW p \in Partition, NEW way \in Routes, NEW targets,
         NEW x \in PushType, x = Push(p, way), SendToSessions(targets, x), consuming,
         UNCHANGED <<actor, received, topic, at, consuming>>,
         \A o \in Partition : o # p => todo'[o] = todo[o],
         \A s \in Session : s \in targets /\ s \in sessions =>
           /\ Pending(s, way, p) /\ ~Pending(s, way, p)'
           /\ way = "MarketEvent" => topic[p][at[p] - 1].market \in subs[s],
         \A s \in Session : Pending(s, way, p)' => Pending(s, way, p),
         \A s \in Session : s \in sessions /\ s \notin targets =>
           (Pending(s, way, p) /\ Due(s, way, p, at[p] - 1) => Pending(s, way, p)'),
         \A s \in Session, route \in Routes :
           route # way => (Pending(s, route, p)' <=> Pending(s, route, p))
  PROVE  AllGapFree'
<1>1. HubInv /\ HubInv' /\ StreamsOK /\ ConsumersOK /\ ConsumersOK' /\ AllGapFree
  BY DEF Around, ConfirmInv
<1>2. x.type = way /\ x.partition = p /\ x.offset = at[p] - 1
  BY DEF Push
<1> HIDE DEF PushType
<1> SUFFICES ASSUME NEW s \in Session, NEW route \in Routes, NEW o \in Partition
             PROVE  GapFree(s, route, o)'
  BY DEF AllGapFree
<1>3. PICK stale : stale = {q \in targets \cap sessions : ~Accepts(q)}
  OBVIOUS
<1>4. /\ mailbox'[s] = IF s \in (targets \cap sessions) \ stale
                         THEN Append(mailbox[s], x) ELSE mailbox[s]
      /\ sessions' = sessions \ stale
      /\ subs'[s] = IF s \in stale THEN {} ELSE subs[s]
  BY <1>3 DEF SendToSessions, RemoveSessions
<1>5. \A m : Unsubscribed(s, m)' <=> Unsubscribed(s, m)
  BY DEF Unsubscribed
<1>6. Calm(s)
  BY <1>4, <1>5 DEF Calm, Live
<1>7. GapFree(s, route, o) /\ Ordered(s, route, o) /\ NotAhead(s, route, o)
  BY <1>1 DEF AllGapFree, GapFree
<1>8. IsPush(x, route, o) <=> route = way /\ o = p
  BY <1>2 DEF IsPush
<1>9. at[o] <= at'[o] /\ at'[o] = at[o]
  BY <1>1 DEF ConsumersOK
<1>10. ASSUME ~(route = way /\ o = p) PROVE Pending(s, route, o)' <=> Pending(s, route, o)
  BY <1>10 DEF Pending
<1>11. CASE s \in (targets \cap sessions) \ stale
  <2>1. mailbox'[s] = Append(mailbox[s], x) /\ received'[s] = received[s]
    BY <1>4, <1>11
  <2>2. CASE route = way /\ o = p
    <3>1. Pending(s, route, o) /\ ~Pending(s, route, o)'
      BY <1>11, <2>2
    <3>2. \A n \in Pushed(s, route, o) : n < x.offset
      BY <1>2, <1>7, <2>2, <3>1 DEF NotAhead
    <3>3. /\ Ordered(s, route, o)'
          /\ Pushed(s, route, o)' = Pushed(s, route, o) \cup {at[o] - 1}
      BY <1>1, <1>2, <1>7, <1>8, <2>1, <2>2, <3>2, PushAccepted
    <3>4. Live(s) /\ actor'[s] \notin {"none", "starting"}
      BY <1>3, <1>11 DEF Live, Accepts
    <3>5. route = "MarketEvent" => topic[o][at[o] - 1].market \in subs'[s]
      BY <1>4, <1>11, <2>2
    <3> QED
      BY <1>1, <1>6, <1>7, <1>9, <3>1, <3>3, <3>4, <3>5, RecordPushed
  <2>3. CASE ~(route = way /\ o = p)
    <3>1. Ordered(s, route, o)' /\ Pushed(s, route, o)' = Pushed(s, route, o)
      BY <1>1, <1>7, <1>8, <2>1, <2>3, PushAccepted
    <3> QED
      BY <1>1, <1>6, <1>7, <1>9, <1>10, <2>3, <3>1, NothingNew
  <2> QED
    BY <2>2, <2>3
<1>12. CASE s \notin (targets \cap sessions) \ stale
  <2>1. mailbox'[s] = mailbox[s] /\ received'[s] = received[s]
    BY <1>4, <1>12
  <2>2. Ordered(s, route, o)' /\ Pushed(s, route, o)' = Pushed(s, route, o)
    BY <1>7, <2>1, SameStreams DEF Kept
  <2>3. CASE route = way /\ o = p
    <3>1. Live(s)' => s \in sessions /\ s \notin targets
      BY <1>4, <1>12 DEF Live
    <3>2. /\ Pending(s, route, o)' => Pending(s, route, o)
          /\ Live(s)' => (Pending(s, route, o) /\ Due(s, route, o, at[o] - 1) => Pending(s, route, o)')
      BY <2>3, <3>1
    <3> QED
      BY <1>1, <1>6, <1>7, <1>9, <2>2, <3>2, NothingNew
  <2>4. CASE ~(route = way /\ o = p)
    BY <1>1, <1>6, <1>7, <1>9, <1>10, <2>2, <2>4, NothingNew
  <2> QED
    BY <2>3, <2>4
<1> QED
  BY <1>11, <1>12

\* broadcast_account.
LEMMA AccountBroadcastKeepsGapFree ==
  ASSUME Around, NEW p \in Partition, BroadcastAccount(p)
  PROVE  AllGapFree'
<1>1. HubInv /\ ConsumersOK
  BY DEF Around, ConfirmInv
<1>2. PICK u \in todo[p].users :
        /\ consuming /\ SendToSessions(users[u], Push(p, "AccountEvent"))
        /\ todo' = [todo EXCEPT ![p].users = @ \ {u}]
        /\ UNCHANGED <<actor, received, topic, at, consuming>>
  BY DEF BroadcastAccount
<1>3. PICK x : x = Push(p, "AccountEvent")
  OBVIOUS
<1>4. at[p] \in Nat /\ todo[p] \in [users: SUBSET User, markets: SUBSET Market]
  BY <1>1 DEF ConsumersOK
<1>5. x \in PushType
  BY <1>3, <1>4 DEF Push, PushType
<1>6. /\ \A o \in Partition : o # p => todo'[o] = todo[o]
      /\ todo'[p].users = todo[p].users \ {u} /\ todo'[p].markets = todo[p].markets
  BY <1>1, <1>2, <1>4 DEF ConsumersOK
<1>7. \A s \in Session : s \in sessions => (s \in users[u] <=> UserOf[s] = u)
  BY <1>1, <1>2, <1>4 DEF HubInv, HubIndexesAgree
<1>8. \A s \in Session :
        /\ Pending(s, "AccountEvent", p) <=> UserOf[s] \in todo[p].users
        /\ Pending(s, "AccountEvent", p)' <=> UserOf[s] \in todo[p].users \ {u}
        /\ Pending(s, "MarketEvent", p)' <=> Pending(s, "MarketEvent", p)
  BY <1>6 DEF Pending
<1>9. PICK way \in Routes, targets \in {users[u]} : way = "AccountEvent"
  BY DEF Routes
<1>10. \A s \in Session : s \in targets /\ s \in sessions =>
         /\ Pending(s, way, p) /\ ~Pending(s, way, p)'
         /\ way = "MarketEvent" => topic[p][at[p] - 1].market \in subs[s]
  BY <1>2, <1>7, <1>8, <1>9
<1>11. \A s \in Session : Pending(s, way, p)' => Pending(s, way, p)
  BY <1>8, <1>9
<1>12. \A s \in Session : s \in sessions /\ s \notin targets =>
         (Pending(s, way, p) /\ Due(s, way, p, at[p] - 1) => Pending(s, way, p)')
  BY <1>7, <1>8, <1>9
<1>13. \A s \in Session, route \in Routes :
         route # way => (Pending(s, route, p)' <=> Pending(s, route, p))
  BY <1>8, <1>9 DEF Routes
<1> QED
  BY <1>2, <1>3, <1>5, <1>6, <1>9, <1>10, <1>11, <1>12, <1>13, BroadcastKeepsGapFree

\* broadcast_market.
LEMMA MarketBroadcastKeepsGapFree ==
  ASSUME Around, NEW p \in Partition, BroadcastMarket(p)
  PROVE  AllGapFree'
<1>1. HubInv /\ ConsumersOK /\ RoutesMatch
  BY DEF Around, ConfirmInv
<1>2. PICK m \in todo[p].markets : SendToSessions(markets[m], Push(p, "MarketEvent"))
  BY DEF BroadcastMarket
<1>3. /\ consuming /\ todo[p].users = {} /\ todo' = [todo EXCEPT ![p] = Nothing]
      /\ UNCHANGED <<actor, received, topic, at, consuming>>
  BY DEF BroadcastMarket
<1>4. PICK x : x = Push(p, "MarketEvent")
  OBVIOUS
<1>5. at[p] \in Nat /\ todo[p] \in [users: SUBSET User, markets: SUBSET Market]
  BY <1>1 DEF ConsumersOK
<1>6. x \in PushType
  BY <1>4, <1>5 DEF Push, PushType
<1>7. /\ \A o \in Partition : o # p => todo'[o] = todo[o]
      /\ todo'[p].users = {} /\ todo'[p].markets = {}
  BY <1>1, <1>3 DEF ConsumersOK, Nothing
<1>8. topic[p][at[p] - 1].market = m
  BY <1>1, <1>2 DEF RoutesMatch
<1>9. \A s \in Session : s \in sessions => (s \in markets[m] <=> m \in subs[s])
  BY <1>1, <1>2, <1>5 DEF HubInv, HubIndexesAgree
<1>10. \A s \in Session :
        /\ Pending(s, "MarketEvent", p) /\ ~Pending(s, "MarketEvent", p)'
        /\ Pending(s, "AccountEvent", p)' <=> Pending(s, "AccountEvent", p)
  BY <1>2, <1>3, <1>7 DEF Pending
<1>11. PICK way \in Routes, targets \in {markets[m]} : way = "MarketEvent"
  BY DEF Routes
<1>12. \A s \in Session : s \in targets /\ s \in sessions =>
         /\ Pending(s, way, p) /\ ~Pending(s, way, p)'
         /\ way = "MarketEvent" => topic[p][at[p] - 1].market \in subs[s]
  BY <1>8, <1>9, <1>10, <1>11
<1>13. \A s \in Session : Pending(s, way, p)' => Pending(s, way, p)
  BY <1>10, <1>11
<1>14. \A s \in Session : s \in sessions /\ s \notin targets =>
         (Pending(s, way, p) /\ Due(s, way, p, at[p] - 1) => Pending(s, way, p)')
  BY <1>8, <1>9, <1>11 DEF Due
<1>15. \A s \in Session, route \in Routes :
         route # way => (Pending(s, route, p)' <=> Pending(s, route, p))
  BY <1>10, <1>11 DEF Routes
<1> QED
  BY <1>2, <1>3, <1>4, <1>6, <1>7, <1>11, <1>12, <1>13, <1>14, <1>15, BroadcastKeepsGapFree

-----------------------------------------------------------------------------
\* A queue that gets an element and loses its first one.
LEMMA QueueFacts ==
  ASSUME NEW S, NEW d \in Seq(S), NEW x \in S, NEW l \in Nat, l = Len(d),
         NEW a, a = Append(d, x), NEW b, b = Tail(a)
  PROVE  /\ DOMAIN d = 1 .. l /\ a \in Seq(S) /\ b \in Seq(S)
         /\ DOMAIN a = 1 .. l + 1 /\ DOMAIN b = 1 .. l
         /\ \A i \in 1 .. l : a[i] = d[i] /\ b[i] = a[i + 1]
         /\ a[l + 1] = x
<1>1. /\ DOMAIN d = 1 .. l /\ a \in Seq(S) /\ Len(a) = l + 1 /\ DOMAIN a = 1 .. l + 1
      /\ \A i \in 1 .. l : a[i] = d[i]
      /\ a[l + 1] = x
  OBVIOUS
<1>2. b \in Seq(S) /\ Len(b) = l /\ DOMAIN b = 1 .. l
  BY <1>1
<1>3. \A i \in 1 .. l : b[i] = a[i + 1]
  BY <1>1, <1>2
<1> QED
  BY <1>1, <1>2, <1>3

\* Two sequences one after the other.
Joined(a, b, c, l, k) ==
  /\ DOMAIN a = 1 .. l /\ DOMAIN b = 1 .. k /\ DOMAIN c = 1 .. l + k
  /\ \A i \in 1 .. l : c[i] = a[i]
  /\ \A i \in 1 .. l + k : i > l => i - l \in 1 .. k /\ c[i] = b[i - l]

LEMMA JoinedFacts ==
  ASSUME NEW S, NEW a \in Seq(S), NEW b \in Seq(S)
  PROVE  Joined(a, b, a \o b, Len(a), Len(b))
<1> DEFINE l == Len(a)
           k == Len(b)
           c == a \o b
<1>0. l \in Nat /\ k \in Nat
  OBVIOUS
<1>1. DOMAIN a = 1 .. l /\ DOMAIN b = 1 .. k
  OBVIOUS
<1>2. /\ c \in Seq(S) /\ Len(c) = l + k
      /\ \A i \in 1 .. l + k : c[i] = IF i <= l THEN a[i] ELSE b[i - l]
  BY ConcatProperties, Zenon
<1> HIDE DEF l, k, c
<1>3. DOMAIN c = 1 .. l + k
  BY <1>0, <1>2
<1>4. \A i \in 1 .. l : i \in 1 .. l + k /\ c[i] = a[i]
  BY <1>0, <1>2
<1>5. \A i \in 1 .. l + k : i > l => i - l \in 1 .. k /\ c[i] = b[i - l]
  BY <1>0, <1>2
<1>6. Joined(a, b, c, l, k)
  BY <1>1, <1>3, <1>4, <1>5 DEF Joined
<1> QED
  BY <1>6 DEF l, k, c

\* What is remembered has been read.
LEMMA SeenStepInv ==
  ASSUME ConsumersOK, SeenIsRead, dedupe \in Seq(EventId \cup {NoId}), [Next]_vars
  PROVE  SeenIsRead' /\ dedupe' \in Seq(EventId \cup {NoId})
<1>1. ASSUME dedupe' = dedupe, topic' = topic, \A q \in Partition : at[q] <= at'[q],
             \A q \in Partition : at'[q] \in Nat
      PROVE  SeenIsRead' /\ dedupe' \in Seq(EventId \cup {NoId})
  <2>1. \A q \in Partition : at[q] \in Nat
    BY DEF ConsumersOK
  <2>2. Seen' = Seen
    BY <1>1 DEF Seen
  <2>3. \A q \in Partition : \A k \in DOMAIN topic[q] : k < at[q] => k < at'[q]
    <3> HIDE DEF Record
    <3>1. \A q \in Partition : topic[q] \in Seq(Record)
      BY DEF ConsumersOK
    <3>2. \A q \in Partition : \A k \in DOMAIN topic[q] : k \in Nat
      BY <3>1
    <3> QED
      BY <1>1, <2>1, <3>2
  <2> QED
    BY <1>1, <2>2, <2>3 DEF SeenIsRead
<1>2. ASSUME NEW p \in Partition, RouteEngineEvent(p) \/ SkipRecord(p)
      PROVE  SeenIsRead' /\ dedupe' \in Seq(EventId \cup {NoId})
  <2>1. dedupe' = dedupe /\ topic' = topic /\ at' = [at EXCEPT ![p] = @ + 1]
    BY <1>2 DEF RouteEngineEvent, SkipRecord, Begin
  <2>2. \A q \in Partition : at[q] <= at'[q] /\ at'[q] \in Nat
    BY <2>1 DEF ConsumersOK
  <2> QED
    BY <1>1, <2>1, <2>2
<1>3. ASSUME NEW p \in Partition, RouteWalletEvent(p)
      PROVE  SeenIsRead' /\ dedupe' \in Seq(EventId \cup {NoId})
  <2>1. topic' = topic /\ at' = [at EXCEPT ![p] = @ + 1] /\ HasRecord(p)
    BY <1>3 DEF RouteWalletEvent, Begin
  <2>2. PICK e \in Record : e = RecordAt(p) /\ e = topic[p][at[p]]
    BY <2>1, AtRecord DEF RecordAt
  <2>3. e.source = "wallet" /\ dedupe' = IF e.id = NoId THEN dedupe ELSE Remember(e.id)
    BY <1>3, <2>2 DEF RouteWalletEvent
  <2>4. e.id \in EventId \cup {NoId}
    BY <2>3 DEF Record
  <2>5. PICK id : id = e.id
    OBVIOUS
  <2>6. /\ dedupe' \in Seq(EventId \cup {NoId})
        /\ \A i \in DOMAIN dedupe' :
             \/ id # NoId /\ dedupe'[i] = id
             \/ \E j \in DOMAIN dedupe : dedupe'[i] = dedupe[j]
    <3>1. PICK S : S = EventId \cup {NoId}
      OBVIOUS
    <3>2. dedupe \in Seq(S) /\ id \in S
      BY <2>4, <2>5, <3>1
    <3>3. PICK l \in Nat : l = Len(dedupe)
      BY <3>2
    <3>4. PICK a, b : a = Append(dedupe, id) /\ b = Tail(a)
      OBVIOUS
    <3>9. /\ DOMAIN dedupe = 1 .. l /\ a \in Seq(S) /\ b \in Seq(S)
          /\ DOMAIN a = 1 .. l + 1 /\ DOMAIN b = 1 .. l
          /\ \A i \in 1 .. l : a[i] = dedupe[i] /\ b[i] = a[i + 1]
          /\ a[l + 1] = id
      BY <3>2, <3>3, <3>4, QueueFacts
    <3>5. dedupe' = dedupe \/ (id # NoId /\ dedupe' \in {a, b})
      BY <2>3, <2>5, <3>4 DEF Remember
    <3>6. ASSUME dedupe' = a, NEW i \in DOMAIN dedupe'
          PROVE  dedupe'[i] = id \/ \E j \in DOMAIN dedupe : dedupe'[i] = dedupe[j]
      BY <3>6, <3>9
    <3>7. ASSUME dedupe' = b, NEW i \in DOMAIN dedupe'
          PROVE  dedupe'[i] = id \/ \E j \in DOMAIN dedupe : dedupe'[i] = dedupe[j]
      <4>1. i \in 1 .. l /\ dedupe'[i] = a[i + 1]
        BY <3>7, <3>9
      <4>2. i = l \/ i + 1 \in 1 .. l
        BY <4>1
      <4> QED
        BY <3>9, <4>1, <4>2
    <3> QED
      BY <3>1, <3>2, <3>5, <3>6, <3>7, <3>9
  <2>7. \A x \in Seen' : x \in Seen \/ (x = id /\ id # NoId)
    BY <2>6 DEF Seen
  <2>8. \A q \in Partition : at[q] \in Nat /\ at[q] <= at'[q] /\ at'[q] \in Nat /\ at[p] < at'[p]
    BY <2>1 DEF ConsumersOK
  <2>9. at[p] \in DOMAIN topic[p]
    BY <2>1, AtRecord
  <2>10. \A q \in Partition : \A k \in DOMAIN topic[q] : k < at[q] => k < at'[q]
    <3> HIDE DEF Record
    <3>1. \A q \in Partition : topic[q] \in Seq(Record)
      BY DEF ConsumersOK
    <3>2. \A q \in Partition : \A k \in DOMAIN topic[q] : k \in Nat
      BY <3>1
    <3> QED
      BY <2>8, <3>2
  <2>11. ASSUME NEW x \in Seen'
         PROVE  /\ x # NoId
                /\ \E q \in Partition : \E k \in DOMAIN topic[q] :
                     topic[q][k].source = "wallet" /\ topic[q][k].id = x /\ k < at'[q]
    <3>1. CASE x \in Seen
      BY <2>10, <3>1 DEF SeenIsRead
    <3>2. CASE x = id /\ id # NoId
      <4>1. topic[p][at[p]].source = "wallet" /\ topic[p][at[p]].id = x /\ at[p] < at'[p]
        BY <2>2, <2>3, <2>5, <2>8, <3>2
      <4> QED
        BY <2>9, <3>2, <4>1
    <3> QED
      BY <2>7, <3>1, <3>2
  <2> QED
    BY <2>1, <2>6, <2>11 DEF SeenIsRead
<1>4. CASE RestartGateway
  BY <1>4 DEF RestartGateway, SeenIsRead, Seen
<1>5. ASSUME UNCHANGED <<topic, at, dedupe>>
      PROVE  SeenIsRead' /\ dedupe' \in Seq(EventId \cup {NoId})
  BY <1>1, <1>5 DEF ConsumersOK
<1>6. CASE ConsumersFail
  BY <1>5, <1>6 DEF ConsumersFail
<1>7. ASSUME NEW p \in Partition, BroadcastAccount(p) \/ BroadcastMarket(p) \/ FetchNothing(p)
      PROVE  SeenIsRead' /\ dedupe' \in Seq(EventId \cup {NoId})
  BY <1>5, <1>7 DEF BroadcastAccount, BroadcastMarket, FetchNothing, vars, consumers
<1>8. ASSUME NEW s \in Session, SessionStep(s) \/ Connect(s) \/ ClientMessage(s) \/ Stop(s)
      PROVE  SeenIsRead' /\ dedupe' \in Seq(EventId \cup {NoId})
  BY <1>5, <1>8 DEF SessionStep, Register, CallHub, HandlePush, Unregister, Connect,
     ClientMessage, Stop, consumers
<1>9. CASE UNCHANGED vars
  BY <1>5, <1>9 DEF vars, consumers
<1> QED
  BY <1>2, <1>3, <1>4, <1>6, <1>7, <1>8, <1>9 DEF Next, ConsumerStep

DedupeOK == dedupe \in Seq(EventId \cup {NoId}) /\ SeenIsRead

\* Nothing has been pushed in the beginning.
LEMMA GapInit == Init => AllGapFree /\ DedupeOK
<1> SUFFICES ASSUME Init PROVE AllGapFree /\ DedupeOK
  OBVIOUS
<1>1. ASSUME NEW s \in Session, NEW route \in Routes, NEW p \in Partition PROVE GapFree(s, route, p)
  <2>1. received[s] = <<>> /\ mailbox[s] = <<>>
    BY DEF Init
  <2>2. Written(s, route, p) = {} /\ Waiting(s, route, p) = {} /\ Pushed(s, route, p) = {}
    BY <2>1 DEF Written, Waiting, Pushed, OffsetsIn
  <2>3. Ordered(s, route, p)
    BY <2>1, <2>2 DEF Ordered, Sorted
  <2>4. route = "MarketEvent" => Listed(s, p)
    BY <2>2 DEF Listed
  <2> QED
    BY <2>2, <2>3, <2>4 DEF GapFree, NotAhead, Contiguous, Current, Fresh
<1>2. DedupeOK
  BY DEF Init, DedupeOK, SeenIsRead, Seen
<1> QED
  BY <1>1, <1>2 DEF AllGapFree

\* Every step keeps the streams without gaps.
LEMMA GapStepInv ==
  ASSUME Around, CallsTyped, SeenIsRead, [Next]_vars
  PROVE  AllGapFree'
<1>1. ASSUME UNCHANGED vars PROVE AllGapFree'
  <2>1. UNCHANGED <<actor, received, mailbox, sessions, subs, topic, at, todo, consuming>>
    BY <1>1 DEF vars, actors, hub, consumers
  <2>2. ASSUME NEW s \in Session PROVE Calm(s)
    BY <2>1 DEF Calm, Live, Unsubscribed
  <2>3. ASSUME NEW s \in Session, NEW route \in Routes, NEW p \in Partition PROVE Kept(s, route, p)
    BY <2>1, SameStreams DEF Around, AllGapFree, GapFree
  <2> QED
    BY <2>1, <2>2, <2>3, SessionsKeep
<1>2. ASSUME NEW s \in Session, SessionStep(s) \/ Connect(s) \/ ClientMessage(s) \/ Stop(s)
      PROVE  AllGapFree'
  BY <1>2, RegisterKeepsGapFree, CallHubKeepsGapFree, HandlePushKeepsGapFree, ConnectKeepsGapFree,
     ClientMessageKeepsGapFree, StopKeepsGapFree DEF SessionStep
<1>3. ASSUME NEW p \in Partition, ConsumerStep(p) \/ FetchNothing(p) PROVE AllGapFree'
  BY <1>1, <1>3, RouteKeepsGapFree, AccountBroadcastKeepsGapFree, MarketBroadcastKeepsGapFree
     DEF ConsumerStep, FetchNothing
<1> QED
  BY <1>1, <1>2, <1>3, FaultKeepsGapFree DEF Next

\* What is proved of written and waiting pushes is what is claimed of the stream.
LEMMA StreamOffsets ==
  ASSUME StreamsOK, AllGapFree, NEW s \in Session, NEW p \in Partition, NEW route \in Routes
  PROVE  InOrder(s, route, p) /\ Offsets(s, route, p) = Pushed(s, route, p)
<1>1. Ordered(s, route, p)
  BY DEF AllGapFree, GapFree
<1>2. PushType \subseteq Message
  BY DEF Message
<1> HIDE DEF Message, PushType
<1>3. received[s] \in Seq(Message) /\ mailbox[s] \in Seq(PushType)
  BY DEF StreamsOK
<1>4. PICK l \in Nat, k \in Nat : l = Len(received[s]) /\ k = Len(mailbox[s])
  BY <1>3
<1>5. /\ DOMAIN received[s] = 1 .. l /\ DOMAIN mailbox[s] = 1 .. k
      /\ DOMAIN Stream(s) = 1 .. l + k
      /\ \A i \in 1 .. l : Stream(s)[i] = received[s][i]
      /\ \A i \in 1 .. l + k : i > l => i - l \in 1 .. k /\ Stream(s)[i] = mailbox[s][i - l]
      /\ \A i \in 1 .. k : i + l \in 1 .. l + k /\ Stream(s)[i + l] = mailbox[s][i]
  <2>1. mailbox[s] \in Seq(Message)
    BY <1>2, <1>3
  <2> PICK a \in Seq(Message), b \in Seq(Message) : a = received[s] /\ b = mailbox[s]
    BY <1>3, <2>1
  <2>2. PICK c : c = Stream(s) /\ c = a \o b
    BY DEF Stream
  <2> HIDE DEF Stream
  <2>3. /\ DOMAIN received[s] = 1 .. l /\ DOMAIN mailbox[s] = 1 .. k /\ DOMAIN c = 1 .. l + k
        /\ \A i \in 1 .. l : c[i] = received[s][i]
        /\ \A i \in 1 .. l + k : i > l => i - l \in 1 .. k /\ c[i] = mailbox[s][i - l]
    <3>1. Joined(a, b, a \o b, Len(a), Len(b))
      BY JoinedFacts
    <3>2. Joined(a, b, c, l, k)
      BY <1>4, <2>2, <3>1
    <3> QED
      BY <3>2 DEF Joined
  <2>4. \A i \in 1 .. l + k : i > l => i - l \in 1 .. k /\ Stream(s)[i] = mailbox[s][i - l]
    BY <2>2, <2>3
  <2>5. ASSUME NEW i \in 1 .. k
        PROVE  i + l \in 1 .. l + k /\ Stream(s)[i + l] = mailbox[s][i]
    <3>1. i + l \in 1 .. l + k /\ i + l > l /\ (i + l) - l = i
      OBVIOUS
    <3> QED
      BY <2>4, <3>1
  <2> QED
    BY <2>2, <2>3, <2>4, <2>5
<1>6. ASSUME NEW o
      PROVE  /\ o \in Offsets(s, route, p) <=>
                  \E i \in 1 .. l + k : IsPush(Stream(s)[i], route, p) /\ o = Stream(s)[i].offset
             /\ o \in Written(s, route, p) <=>
                  \E i \in 1 .. l : IsPush(received[s][i], route, p) /\ o = received[s][i].offset
             /\ o \in Waiting(s, route, p) <=>
                  \E i \in 1 .. k : IsPush(mailbox[s][i], route, p) /\ o = mailbox[s][i].offset
  BY <1>5 DEF Offsets, Written, Waiting, OffsetsIn, IsPush
<1>7. ASSUME NEW o \in Offsets(s, route, p) PROVE o \in Pushed(s, route, p)
  <2>1. PICK i \in 1 .. l + k : IsPush(Stream(s)[i], route, p) /\ o = Stream(s)[i].offset
    BY <1>6
  <2>2. CASE i \in 1 .. l
    BY <1>5, <1>6, <2>1, <2>2 DEF Pushed
  <2>3. CASE i > l
    BY <1>5, <1>6, <2>1, <2>3 DEF Pushed
  <2> QED
    BY <2>2, <2>3
<1>8. ASSUME NEW o \in Pushed(s, route, p) PROVE o \in Offsets(s, route, p)
  <2>1. CASE o \in Written(s, route, p)
    <3>1. PICK i \in 1 .. l : IsPush(received[s][i], route, p) /\ o = received[s][i].offset
      BY <1>6, <2>1
    <3>2. i \in 1 .. l + k
      OBVIOUS
    <3> QED
      BY <1>5, <1>6, <3>1, <3>2
  <2>2. CASE o \in Waiting(s, route, p)
    <3>1. PICK i \in 1 .. k : IsPush(mailbox[s][i], route, p) /\ o = mailbox[s][i].offset
      BY <1>6, <2>2
    <3> QED
      BY <1>5, <1>6, <3>1
  <2> QED
    BY <2>1, <2>2 DEF Pushed
<1>9. InOrder(s, route, p)
  <2> SUFFICES ASSUME NEW i \in 1 .. l + k, NEW j \in 1 .. l + k, i < j,
                      IsPush(Stream(s)[i], route, p), IsPush(Stream(s)[j], route, p)
               PROVE  Stream(s)[i].offset < Stream(s)[j].offset
    BY <1>5 DEF InOrder, IsPush
  <2>1. CASE j <= l
    <3>1. i \in 1 .. l /\ j \in 1 .. l
      BY <2>1
    <3> QED
      BY <1>1, <1>5, <3>1 DEF Ordered, Sorted
  <2>2. CASE i > l
    <3>1. PICK a \in 1 .. k, b \in 1 .. k : a = i - l /\ b = j - l
      BY <1>5, <2>2
    <3>2. a < b /\ Stream(s)[i] = mailbox[s][a] /\ Stream(s)[j] = mailbox[s][b]
      BY <1>5, <2>2, <3>1
    <3> QED
      BY <1>1, <1>5, <3>2 DEF Ordered, Sorted
  <2>3. CASE i <= l /\ j > l
    <3>1. PICK b \in 1 .. k : b = j - l
      BY <1>5, <2>3
    <3>2. i \in 1 .. l /\ Stream(s)[i] = received[s][i] /\ Stream(s)[j] = mailbox[s][b]
      BY <1>5, <2>3, <3>1
    <3>3. received[s][i].offset \in Written(s, route, p) /\ mailbox[s][b].offset \in Waiting(s, route, p)
      BY <1>6, <3>2
    <3> QED
      BY <1>1, <3>2, <3>3 DEF Ordered
  <2> QED
    BY <2>1, <2>2, <2>3
<1> QED
  BY <1>7, <1>8, <1>9

LEMMA GapFreeImplies == StreamsOK /\ AllGapFree => NoGaps
<1> SUFFICES ASSUME StreamsOK, AllGapFree,
                    NEW s \in Session, NEW p \in Partition, NEW route \in Routes
             PROVE  /\ InOrder(s, route, p)
                    /\ \A first, last \in Offsets(s, route, p) : \A n \in first .. last :
                         Owed(s, route, p, n) /\ (route = "MarketEvent" => SameMarket(p, n, first))
                         => n \in Offsets(s, route, p)
  BY DEF NoGaps, Routes
<1>1. Contiguous(s, route, p)
  BY DEF AllGapFree, GapFree
<1> QED
  BY <1>1, StreamOffsets DEF Contiguous, Wanted

\* The gateway's invariants hold in every behaviour.
LEMMA GapAlways ==
  Spec => [](HubInv /\ ConfirmInv /\ CallsTyped /\ AllGapFree /\ DedupeOK)
<1>1. /\ HubInv /\ HubInv' /\ ConfirmInv /\ ConfirmInv' /\ CallsTyped
      /\ AllGapFree /\ DedupeOK /\ [Next]_vars
      => AllGapFree' /\ DedupeOK'
  <2> SUFFICES ASSUME HubInv, HubInv', ConfirmInv, ConfirmInv', CallsTyped,
                      AllGapFree, DedupeOK, [Next]_vars
               PROVE  AllGapFree' /\ DedupeOK'
    OBVIOUS
  <2>1. Around /\ SeenIsRead
    BY DEF Around, DedupeOK
  <2>2. AllGapFree'
    BY <2>1, GapStepInv
  <2>3. DedupeOK'
    BY SeenStepInv DEF DedupeOK, ConfirmInv
  <2> QED
    BY <2>2, <2>3
<1> QED
  BY <1>1, GapInit, HubInvariant, ConfirmInit, ConfirmStepInv, PTL DEF Spec

(***************************************************************************)
(* What a session is sent of a partition is in order, without repetition    *)
(* and without a gap, for any number of sessions, any history, any capacity *)
(* of mailboxes and of the dedupe cache: a session that does not accept a   *)
(* push gets no later one, because send_to_sessions_locked takes it out of  *)
(* the hub in the same step.                                                *)
(***************************************************************************)
THEOREM WsNoGaps == Spec => []NoGaps
<1>1. ConfirmInv /\ AllGapFree => NoGaps
  BY GapFreeImplies DEF ConfirmInv
<1> QED
  BY <1>1, GapAlways, PTL

-----------------------------------------------------------------------------
(***************************************************************************)
(* WalletEventsOnce.  A wallet event with an id, and a later copy of it.    *)
(***************************************************************************)
HasId(p, n) == topic[p][n].source = "wallet" /\ topic[p][n].id # NoId

CopyOf(p, n, k) ==
  HasId(p, n) /\ topic[p][k].source = "wallet" /\ topic[p][n].id = topic[p][k].id

(***************************************************************************)
(* Between the two, the ids of a full cache can have been routed.           *)
(***************************************************************************)
Far(p, n, k) == Cardinality(IdsBetween(p, n, k) \ {topic[p][n].id}) >= DedupeCapacity

(***************************************************************************)
(* The cache is within its capacity and holds no id twice.                  *)
(***************************************************************************)
CacheOK ==
  /\ dedupe \in Seq(EventId \cup {NoId}) /\ Len(dedupe) <= DedupeCapacity
  /\ \A i, j \in DOMAIN dedupe : dedupe[i] = dedupe[j] => i = j

(***************************************************************************)
(* The cache knows the event, and what it has learnt since then was routed  *)
(* after it; or it has learnt enough since then to forget it.               *)
(***************************************************************************)
Remembered(p, n) ==
  \E i \in DOMAIN dedupe :
    /\ dedupe[i] = topic[p][n].id
    /\ \A j \in DOMAIN dedupe : i < j => dedupe[j] \in IdsBetween(p, n, at[p])

Guarded(p, n) == HasId(p, n) => Remembered(p, n) \/ Far(p, n, at[p])

(***************************************************************************)
(* Events that a session of the hub has got are guarded, and so is the      *)
(* event at hand, of which no session has got a copy that is too close.     *)
(***************************************************************************)
AccountPushes(s, p) == Pushed(s, "AccountEvent", p)

PushesGuarded ==
  \A s \in sessions, p \in Partition : \A n \in AccountPushes(s, p) : Guarded(p, n)

RouteGuarded ==
  \A p \in Partition : todo[p].users # {} =>
    /\ Guarded(p, at[p] - 1)
    /\ \A s \in sessions : \A n \in AccountPushes(s, p) :
         n < at[p] - 1 /\ CopyOf(p, n, at[p] - 1) => Far(p, n, at[p] - 1)

CopiesFar ==
  \A s \in Session, p \in Partition : \A n, k \in AccountPushes(s, p) :
    n < k /\ CopyOf(p, n, k) => Far(p, n, k)

OnceInv == PushesGuarded /\ RouteGuarded /\ CopiesFar

-----------------------------------------------------------------------------
\* The positions of the topics.
LEMMA PositionFacts ==
  ASSUME ConsumersOK
  PROVE  /\ IsFiniteSet(Positions)
         /\ \A y \in Positions : y[1] \in Partition /\ y[2] \in DOMAIN topic[y[1]] /\ y[2] \in Nat
         /\ \A q \in Partition : \A j \in DOMAIN topic[q] : <<q, j>> \in Positions
<1> HIDE DEF Record
<1>1. \A q \in Partition : topic[q] \in Seq(Record) /\ DOMAIN topic[q] = 1 .. Len(topic[q])
        /\ Len(topic[q]) \in Nat
  BY DEF ConsumersOK
<1> DEFINE At(q) == {q} \X DOMAIN topic[q]
           S == {At(q) : q \in Partition}
           f == [q \in Partition |-> At(q)]
<1>2. ASSUME NEW q \in Partition PROVE IsFiniteSet(At(q))
  <2>1. PICK D : D = 1 .. Len(topic[q]) /\ D = DOMAIN topic[q]
    BY <1>1
  <2>2. IsFiniteSet(D)
    BY <1>1, <2>1, FS_Interval
  <2>3. IsFiniteSet({q})
    BY FS_Singleton
  <2> QED
    BY <2>1, <2>2, <2>3, FS_Product
<1>3. f \in Surjection(Partition, S)
  BY DEF Surjection
<1>4. IsFiniteSet(S)
  <2> HIDE DEF f, S, At
  <2> QED
    BY <1>3, PartitionsFinite, FS_Surjection
<1>5. \A T \in S : IsFiniteSet(T)
  BY <1>2
<1>6. IsFiniteSet(UNION S)
  <2> HIDE DEF S, At, f
  <2> QED
    BY <1>4, <1>5, FS_UNION
<1>7. Positions = UNION S
  BY DEF Positions
<1>8. ASSUME NEW y \in Positions
      PROVE  y[1] \in Partition /\ y[2] \in DOMAIN topic[y[1]] /\ y[2] \in Nat
  <2>1. PICK q \in Partition : y \in {q} \X DOMAIN topic[q]
    BY DEF Positions
  <2> QED
    BY <1>1, <2>1
<1>9. ASSUME NEW q \in Partition, NEW j \in DOMAIN topic[q] PROVE <<q, j>> \in Positions
  BY DEF Positions
<1> QED
  BY <1>6, <1>7, <1>8, <1>9

\* There are finitely many ids, no fewer up to a later record, and any wallet
\* record in between has its id among them.
LEMMA IdsFacts ==
  ASSUME ConsumersOK, NEW p, NEW n, NEW k
  PROVE  /\ IsFiniteSet(IdsBetween(p, n, k))
         /\ \A q \in Partition : \A j \in DOMAIN topic[q] :
              HasId(q, j) /\ (q = p => n < j /\ j < k) => topic[q][j].id \in IdsBetween(p, n, k)
<1> DEFINE Y == {y \in Positions : /\ topic[y[1]][y[2]].source = "wallet"
                                   /\ y[1] = p => n < y[2] /\ y[2] < k}
           X == {topic[x[1]][x[2]].id : x \in Y}
           f == [x \in Y |-> topic[x[1]][x[2]].id]
<1>1. IsFiniteSet(Y)
  <2>1. Y \in SUBSET Positions
    OBVIOUS
  <2> HIDE DEF Y
  <2> QED
    BY <2>1, PositionFacts, FS_Subset
<1>2. f \in Surjection(Y, X)
  BY DEF Surjection
<1>3. IsFiniteSet(X)
  <2> HIDE DEF X, Y, f
  <2> QED
    BY <1>1, <1>2, FS_Surjection
<1>4. IdsBetween(p, n, k) = X \ {NoId}
  BY DEF IdsBetween
<1>5. IsFiniteSet(X \ {NoId})
  <2> HIDE DEF X
  <2> QED
    BY <1>3, FS_RemoveElement
<1>6. ASSUME NEW q \in Partition, NEW j \in DOMAIN topic[q],
             HasId(q, j), q = p => n < j /\ j < k
      PROVE  topic[q][j].id \in IdsBetween(p, n, k)
  <2>1. PICK y : y = <<q, j>>
    OBVIOUS
  <2>2. y \in Positions /\ y[1] = q /\ y[2] = j
    BY <2>1, PositionFacts
  <2>3. y \in Y /\ topic[y[1]][y[2]].id = topic[q][j].id
    BY <1>6, <2>2 DEF HasId
  <2>4. topic[q][j].id \in X
    BY <2>3
  <2> QED
    BY <1>4, <1>6, <2>4 DEF HasId
<1> QED
  BY <1>4, <1>5, <1>6

LEMMA IdsGrow ==
  ASSUME ConsumersOK, topic' = topic, NEW p, NEW n, NEW k \in Int, NEW l \in Int, k <= l
  PROVE  IdsBetween(p, n, k) \subseteq IdsBetween(p, n, l)'
<1>1. ASSUME NEW id \in IdsBetween(p, n, k) PROVE id \in IdsBetween(p, n, l)'
  <2>1. id # NoId
    BY DEF IdsBetween
  <2>2. PICK y \in Positions : /\ topic[y[1]][y[2]].source = "wallet" /\ id = topic[y[1]][y[2]].id
                               /\ y[1] = p => n < y[2] /\ y[2] < k
    BY DEF IdsBetween
  <2>3. y[1] = p => n < y[2] /\ y[2] < l
    BY <2>2, PositionFacts
  <2>4. y \in Positions'
    BY DEF Positions
  <2> QED
    BY <2>1, <2>2, <2>3, <2>4 DEF IdsBetween
<1> QED
  BY <1>1

LEMMA FarStays ==
  ASSUME ConsumersOK, topic' = topic, NEW p, NEW n,
         NEW k \in Int, NEW l \in Int, k <= l, Far(p, n, k)
  PROVE  Far(p, n, l)'
<1> DEFINE A == IdsBetween(p, n, k) \ {topic[p][n].id}
           B == IdsBetween(p, n, l)' \ {topic[p][n].id}
<1>1. IsFiniteSet(IdsBetween(p, n, k)) /\ IsFiniteSet(IdsBetween(p, n, l)')
  <2>1. IsFiniteSet(IdsBetween(p, n, k))
    BY IdsFacts
  <2>2. IsFiniteSet(IdsBetween(p, n, l)')
    <3>1. IsFiniteSet(IdsBetween(p, n, l))
      BY IdsFacts
    <3>2. IdsBetween(p, n, l)' = IdsBetween(p, n, l)
      BY DEF IdsBetween, Positions
    <3> QED
      BY <3>1, <3>2
  <2> QED
    BY <2>1, <2>2
<1>2. IsFiniteSet(B) /\ A \in SUBSET B
  BY <1>1, IdsGrow, FS_RemoveElement
<1>3. IsFiniteSet(A) /\ Cardinality(A) <= Cardinality(B) /\ Cardinality(B) \in Nat
      /\ Cardinality(A) \in Nat
  <2> HIDE DEF A, B
  <2>1. IsFiniteSet(A) /\ Cardinality(A) <= Cardinality(B)
    BY <1>2, FS_Subset
  <2> QED
    BY <1>2, <2>1, FS_CardinalityType
<1>4. Cardinality(A) >= DedupeCapacity /\ DedupeCapacity \in Nat
  BY WsAssumption DEF Far
<1>5. Cardinality(B) >= DedupeCapacity
  BY <1>3, <1>4
<1> QED
  BY <1>5 DEF Far

\* Nothing that is guarded is lost while the cache stays as it is.
LEMMA GuardedStays ==
  ASSUME ConsumersOK, topic' = topic, dedupe' = dedupe, NEW p, at[p] \in Int, at'[p] \in Int,
         at[p] <= at'[p], NEW n, Guarded(p, n)
  PROVE  Guarded(p, n)'
<1> PICK k \in Int, l \in Int : k = at[p] /\ l = at'[p]
  OBVIOUS
<1> SUFFICES ASSUME HasId(p, n) PROVE Remembered(p, n)' \/ Far(p, n, l)'
  BY DEF Guarded, HasId
<1>1. CASE Far(p, n, k)
  BY <1>1, FarStays
<1>2. CASE Remembered(p, n)
  <2>1. IdsBetween(p, n, k) \subseteq IdsBetween(p, n, l)'
    BY IdsGrow
  <2> QED
    BY <1>2, <2>1 DEF Remembered
<1> QED
  BY <1>1, <1>2 DEF Guarded

\* A set with as many different elements as the cache has places.
LEMMA FullCache ==
  ASSUME NEW d, NEW c \in Nat, NEW T, IsFiniteSet(T), DOMAIN d = 1 .. c,
         \A j \in 1 .. c : d[j] \in T,
         \A i, j \in 1 .. c : d[i] = d[j] => i = j
  PROVE  Cardinality(T) >= c
<1> DEFINE f == [j \in 1 .. c |-> d[j]]
<1>1. f \in Injection(1 .. c, T)
  BY DEF Injection, IsInjective
<1>2. Cardinality(1 .. c) = c
  BY FS_Interval
<1>3. Cardinality(1 .. c) <= Cardinality(T) /\ Cardinality(T) \in Nat
  <2> HIDE DEF f
  <2> QED
    BY <1>1, FS_Injection, FS_CardinalityType
<1> QED
  BY <1>2, <1>3

\* What Remember makes of the cache.
LEMMA RememberFacts ==
  ASSUME CacheOK, NEW x \in EventId, x \notin Seen, dedupe' = Remember(x)
  PROVE  /\ CacheOK'
         /\ DedupeCapacity # 0 =>
              \E l \in Nat \ {0} : l <= DedupeCapacity /\ DOMAIN dedupe' = 1 .. l /\ dedupe'[l] = x
         /\ \E o \in {0, 1} :
              /\ o = 1 => DOMAIN dedupe' = 1 .. DedupeCapacity
              /\ \A j \in DOMAIN dedupe' :
                   \/ dedupe'[j] = x
                   \/ j + o \in DOMAIN dedupe /\ dedupe'[j] = dedupe[j + o]
              /\ \A i \in DOMAIN dedupe : i > o /\ DedupeCapacity # 0 =>
                   i - o \in DOMAIN dedupe' /\ dedupe'[i - o] = dedupe[i]
<1> PICK S \in {EventId \cup {NoId}} : TRUE
  OBVIOUS
<1>1. dedupe \in Seq(S) /\ x \in S /\ DedupeCapacity \in Nat
  BY WsAssumption DEF CacheOK
<1>2. PICK l \in Nat : l = Len(dedupe) /\ l <= DedupeCapacity
  BY <1>1 DEF CacheOK
<1>3. PICK a, b : a = Append(dedupe, x) /\ b = Tail(a)
  OBVIOUS
<1>4. /\ DOMAIN dedupe = 1 .. l /\ a \in Seq(S) /\ b \in Seq(S)
      /\ DOMAIN a = 1 .. l + 1 /\ DOMAIN b = 1 .. l
      /\ \A i \in 1 .. l : a[i] = dedupe[i] /\ b[i] = a[i + 1]
      /\ a[l + 1] = x
  BY <1>1, <1>2, <1>3, QueueFacts
<1>5. Len(a) = l + 1 /\ Len(b) = l
  BY <1>4
<1>6. /\ \A i, j \in 1 .. l : dedupe[i] = dedupe[j] => i = j
      /\ \A i \in 1 .. l : dedupe[i] # x
  BY <1>4 DEF CacheOK, Seen
<1>7. CASE DedupeCapacity = 0
  <2>1. dedupe' = dedupe
    BY <1>7 DEF Remember
  <2>2. l = 0 /\ DOMAIN dedupe' = {} /\ DOMAIN dedupe = {}
    BY <1>1, <1>2, <1>4, <1>7, <2>1
  <2>3. CacheOK'
    BY <2>1 DEF CacheOK
  <2>4. 0 \in {0, 1} /\ ~(0 = 1)
    OBVIOUS
  <2> QED
    BY <1>7, <2>2, <2>3, <2>4
<1>8. CASE DedupeCapacity # 0 /\ l + 1 <= DedupeCapacity
  <2>1. dedupe' = a
    BY <1>1, <1>2, <1>3, <1>8 DEF Remember
  <2>2. \A i, j \in 1 .. l + 1 : a[i] = a[j] => i = j
    BY <1>4, <1>6
  <2>3. CacheOK'
    BY <1>4, <1>5, <1>8, <2>1, <2>2 DEF CacheOK
  <2>4. l + 1 \in Nat \ {0} /\ dedupe'[l + 1] = x /\ DOMAIN dedupe' = 1 .. l + 1
    BY <1>4, <2>1
  <2>5. /\ \A j \in DOMAIN dedupe' :
             dedupe'[j] = x \/ (j + 0 \in DOMAIN dedupe /\ dedupe'[j] = dedupe[j + 0])
        /\ \A i \in DOMAIN dedupe : i - 0 \in DOMAIN dedupe' /\ dedupe'[i - 0] = dedupe[i]
    BY <1>4, <2>1, <2>4
  <2> QED
    BY <1>8, <2>3, <2>4, <2>5
<1>9. CASE DedupeCapacity # 0 /\ l = DedupeCapacity
  <2>1. dedupe' = b
    BY <1>1, <1>2, <1>3, <1>9 DEF Remember
  <2>2. /\ \A i \in 1 .. l - 1 : b[i] = dedupe[i + 1] /\ i + 1 \in 1 .. l
        /\ b[l] = x /\ l \in 1 .. l
    BY <1>1, <1>4, <1>9
  <2>3. \A i, j \in 1 .. l : b[i] = b[j] => i = j
    <3> SUFFICES ASSUME NEW i \in 1 .. l, NEW j \in 1 .. l, b[i] = b[j] PROVE i = j
      OBVIOUS
    <3>1. CASE i \in 1 .. l - 1 /\ j \in 1 .. l - 1
      <4>1. i + 1 = j + 1
        BY <1>6, <2>2, <3>1
      <4> QED
        BY <4>1
    <3>2. CASE i = l \/ j = l
      <4>1. i = l \/ i \in 1 .. l - 1
        OBVIOUS
      <4>2. j = l \/ j \in 1 .. l - 1
        OBVIOUS
      <4> QED
        BY <1>6, <2>2, <3>2, <4>1, <4>2
    <3> QED
      BY <3>1, <3>2
  <2>4. CacheOK'
    BY <1>2, <1>4, <1>5, <2>1, <2>3 DEF CacheOK
  <2>5. l \in Nat \ {0} /\ l <= DedupeCapacity /\ DOMAIN dedupe' = 1 .. l /\ dedupe'[l] = x
    BY <1>2, <1>4, <1>9, <2>1, <2>2
  <2>6. ASSUME NEW j \in DOMAIN dedupe'
        PROVE  dedupe'[j] = x \/ (j + 1 \in DOMAIN dedupe /\ dedupe'[j] = dedupe[j + 1])
    <3>1. j = l \/ j \in 1 .. l - 1
      BY <2>5
    <3> QED
      BY <1>4, <2>1, <2>2, <3>1
  <2>7. ASSUME NEW i \in DOMAIN dedupe, i > 1
        PROVE  i - 1 \in DOMAIN dedupe' /\ dedupe'[i - 1] = dedupe[i]
    <3>1. i - 1 \in 1 .. l - 1 /\ (i - 1) + 1 = i
      BY <1>4, <2>7
    <3>2. b[i - 1] = dedupe[(i - 1) + 1] /\ i - 1 \in 1 .. l
      BY <2>2, <3>1
    <3> QED
      BY <1>4, <2>1, <3>1, <3>2
  <2>8. 1 \in {0, 1} /\ DOMAIN dedupe' = 1 .. DedupeCapacity
    BY <1>9, <2>5
  <2> QED
    BY <1>9, <2>4, <2>5, <2>6, <2>7, <2>8
<1> QED
  BY <1>1, <1>2, <1>7, <1>8, <1>9

\* An id that the cache learns is one that was routed after what is guarded;
\* when it pushes out the guarded id, the cache is full of such ids.
LEMMA GuardedLearns ==
  ASSUME ConsumersOK, CacheOK, NEW q \in Partition, HasRecord(q), HasId(q, at[q]),
         topic[q][at[q]].id \in EventId, topic[q][at[q]].id \notin Seen,
         dedupe' = Remember(topic[q][at[q]].id), topic' = topic,
         at' = [at EXCEPT ![q] = @ + 1],
         NEW p \in Partition, NEW n \in Int, n < at[p], Guarded(p, n)
  PROVE  Guarded(p, n)'
<1>1. PICK x \in EventId : x = topic[q][at[q]].id
  OBVIOUS
<1>2. PICK k \in Int, l \in Int : k = at[p] /\ l = at'[p]
  BY DEF ConsumersOK
<1>3. k <= l /\ at[q] \in DOMAIN topic[q] /\ (q = p => n < at[q] /\ at[q] < l)
  BY <1>2, AtRecord DEF ConsumersOK
<1>4. PICK B : B = IdsBetween(p, n, l)' /\ B = IdsBetween(p, n, l)
  BY DEF IdsBetween, Positions
<1>5. IsFiniteSet(B) /\ x \in B /\ IdsBetween(p, n, k) \subseteq B
  <2>1. IsFiniteSet(IdsBetween(p, n, l)) /\ topic[q][at[q]].id \in IdsBetween(p, n, l)
    BY <1>3, IdsFacts
  <2>2. IdsBetween(p, n, k) \subseteq IdsBetween(p, n, l)'
    BY <1>2, <1>3, IdsGrow
  <2> QED
    BY <1>1, <1>4, <2>1, <2>2
<1>6. PICK y : y = topic[p][n].id /\ y = topic'[p][n].id
  OBVIOUS
<1> SUFFICES ASSUME HasId(p, n) PROVE Remembered(p, n)' \/ Far(p, n, l)'
  BY <1>2 DEF Guarded, HasId
<1>7. CASE Far(p, n, k)
  BY <1>2, <1>3, <1>7, FarStays
<1>8. CASE Remembered(p, n)
  <2>1. PICK i \in DOMAIN dedupe :
          dedupe[i] = y /\ \A j \in DOMAIN dedupe : i < j => dedupe[j] \in B
    BY <1>2, <1>5, <1>6, <1>8 DEF Remembered
  <2>2. y # x
    BY <1>1, <2>1 DEF Seen
  <2>3. CacheOK' /\ DedupeCapacity \in Nat
    BY <1>1, RememberFacts, WsAssumption
  <2>4. PICK o \in {0, 1} :
          /\ o = 1 => DOMAIN dedupe' = 1 .. DedupeCapacity
          /\ \A j \in DOMAIN dedupe' :
               dedupe'[j] = x \/ (j + o \in DOMAIN dedupe /\ dedupe'[j] = dedupe[j + o])
          /\ \A h \in DOMAIN dedupe : h > o /\ DedupeCapacity # 0 =>
               h - o \in DOMAIN dedupe' /\ dedupe'[h - o] = dedupe[h]
    BY <1>1, RememberFacts
  <2>5. i \in Nat \ {0} /\ DedupeCapacity # 0 /\ \A j \in DOMAIN dedupe' : j \in Nat \ {0}
    <3>1. PICK d \in Seq(EventId \cup {NoId}) : d = dedupe /\ Len(d) <= DedupeCapacity
      BY DEF CacheOK
    <3>2. i \in 1 .. Len(d) /\ Len(d) \in Nat
      BY <3>1
    <3>3. PICK e \in Seq(EventId \cup {NoId}) : e = dedupe'
      BY <2>3 DEF CacheOK
    <3>4. \A j \in DOMAIN e : j \in Nat \ {0}
      BY <3>3
    <3> QED
      BY <2>3, <3>1, <3>2, <3>3, <3>4
  <2>6. CASE i > o
    <3>1. i - o \in DOMAIN dedupe' /\ dedupe'[i - o] = y
      BY <2>1, <2>4, <2>5, <2>6
    <3>2. ASSUME NEW j \in DOMAIN dedupe', i - o < j PROVE dedupe'[j] \in B
      <4>1. CASE dedupe'[j] = x
        BY <1>5, <4>1
      <4>2. CASE j + o \in DOMAIN dedupe /\ dedupe'[j] = dedupe[j + o]
        <5>1. i < j + o
          BY <2>5, <3>2
        <5> QED
          BY <2>1, <4>2, <5>1
      <4> QED
        BY <2>4, <4>1, <4>2
    <3>3. Remembered(p, n)'
      BY <1>2, <1>4, <1>6, <3>1, <3>2 DEF Remembered
    <3> QED
      BY <3>3
  <2>7. CASE ~(i > o)
    <3>1. i = 1 /\ o = 1
      BY <2>5, <2>7
    <3>2. ASSUME NEW j \in DOMAIN dedupe' PROVE dedupe'[j] \in B \ {y}
      <4>1. CASE dedupe'[j] = x
        BY <1>5, <2>2, <4>1
      <4>2. CASE j + o \in DOMAIN dedupe /\ dedupe'[j] = dedupe[j + o]
        <5>1. i < j + o
          BY <2>5, <3>1
        <5>2. dedupe[j + o] # dedupe[i]
          BY <2>5, <4>2, <5>1 DEF CacheOK
        <5> QED
          BY <2>1, <4>2, <5>1, <5>2
      <4> QED
        BY <2>4, <4>1, <4>2
    <3>3. IsFiniteSet(B \ {y})
      BY <1>5, FS_RemoveElement
    <3>4. PICK d : d = dedupe'
      OBVIOUS
    <3>5. /\ DOMAIN d = 1 .. DedupeCapacity
          /\ \A j \in 1 .. DedupeCapacity : d[j] \in B \ {y}
          /\ \A h, j \in 1 .. DedupeCapacity : d[h] = d[j] => h = j
      BY <2>3, <2>4, <3>1, <3>2, <3>4 DEF CacheOK
    <3>6. Cardinality(B \ {y}) >= DedupeCapacity
      BY <2>3, <3>3, <3>5, FullCache
    <3>7. Far(p, n, l)'
      BY <1>4, <1>6, <3>6 DEF Far
    <3> QED
      BY <3>7
  <2> QED
    BY <2>6, <2>7
<1> QED
  BY <1>2, <1>7, <1>8 DEF Guarded

-----------------------------------------------------------------------------
\* What a session does with its streams, other than getting a push.
Quiet(s) ==
  \/ received'[s] = received[s] /\ mailbox'[s] \in {mailbox[s], <<>>}
  \/ /\ \E x \in Message : x.type \notin Routes /\ received'[s] = Append(received[s], x)
     /\ mailbox'[s] = mailbox[s]
  \/ /\ mailbox[s] # <<>> /\ mailbox'[s] = Tail(mailbox[s])
     /\ received'[s] = Append(received[s], Head(mailbox[s]))

LEMMA QuietPushes ==
  ASSUME StreamsOK, AllGapFree, NEW s \in Session, NEW p \in Partition, Quiet(s)
  PROVE  AccountPushes(s, p)' \subseteq AccountPushes(s, p)
<1>1. PICK route \in Routes : route = "AccountEvent"
  BY DEF Routes
<1>2. Ordered(s, route, p)
  BY DEF AllGapFree, GapFree
<1> SUFFICES Pushed(s, route, p)' \subseteq Pushed(s, route, p)
  BY <1>1 DEF AccountPushes
<1>3. CASE received'[s] = received[s] /\ mailbox'[s] = mailbox[s]
  BY <1>2, <1>3, SameStreams DEF Kept
<1>4. CASE received'[s] = received[s] /\ mailbox'[s] = <<>>
  BY <1>2, <1>4, MailboxLost
<1>5. CASE /\ \E x \in Message : x.type \notin Routes /\ received'[s] = Append(received[s], x)
           /\ mailbox'[s] = mailbox[s]
  BY <1>2, <1>5, OwnMessage DEF Kept
<1>6. CASE /\ mailbox[s] # <<>> /\ mailbox'[s] = Tail(mailbox[s])
           /\ received'[s] = Append(received[s], Head(mailbox[s]))
  BY <1>2, <1>6, PushHandled DEF Kept
<1> QED
  BY <1>3, <1>4, <1>5, <1>6 DEF Quiet

\* The steps of sessions and the faults push nothing.
LEMMA SessionsQuiet ==
  ASSUME StreamsOK, CallsTyped, NEW q \in Session,
         SessionStep(q) \/ Connect(q) \/ ClientMessage(q) \/ Stop(q), NEW s \in Session
  PROVE  Quiet(s)
<1> HIDE DEF Message
<1>1. ASSUME NEW x \in Message, x.type \notin Routes, mailbox' = mailbox, Write(q, x)
      PROVE  Quiet(s)
  <2>1. mailbox'[s] = mailbox[s] /\ received'[s] = IF s = q THEN Append(received[s], x) ELSE received[s]
    BY <1>1 DEF Write, StreamsOK
  <2> QED
    BY <1>1, <2>1 DEF Quiet
<1>2. ASSUME received' = received, mailbox' = mailbox PROVE Quiet(s)
  BY <1>2 DEF Quiet
<1>3. CASE Connect(q) \/ Unregister(q)
  BY <1>2, <1>3 DEF Connect, Unregister
<1>4. CASE Stop(q)
  <2>1. received' = received /\ mailbox' = [mailbox EXCEPT ![q] = <<>>]
    BY <1>4 DEF Stop
  <2>2. mailbox'[s] \in {mailbox[s], <<>>}
    BY <2>1 DEF StreamsOK
  <2> QED
    BY <2>1, <2>2 DEF Quiet
<1>5. CASE HandlePush(q)
  <2>1. /\ mailbox[q] # <<>> /\ mailbox' = [mailbox EXCEPT ![q] = Tail(@)]
        /\ received' = [received EXCEPT ![q] = Append(@, Head(mailbox[q]))]
    BY <1>5 DEF HandlePush, Write
  <2>2. \/ s = q /\ mailbox'[s] = Tail(mailbox[s]) /\ received'[s] = Append(received[s], Head(mailbox[s]))
        \/ s # q /\ mailbox'[s] = mailbox[s] /\ received'[s] = received[s]
    BY <2>1 DEF StreamsOK
  <2> QED
    BY <2>1, <2>2 DEF Quiet
<1>6. CASE Register(q)
  <2>1. PICK x : x = [type |-> "Welcome"]
    OBVIOUS
  <2>2. x \in Message /\ x.type \notin Routes
    BY <2>1, Replies DEF Routes
  <2> QED
    BY <1>1, <1>6, <2>1, <2>2 DEF Register
<1>7. CASE ClientMessage(q)
  <2>1. PICK x : x = [type |-> "Error"]
    OBVIOUS
  <2>2. x \in Message /\ x.type \notin Routes
    BY <2>1, Replies DEF Routes
  <2>3. mailbox' = mailbox /\ (received' = received \/ Write(q, x))
    BY <1>7, <2>1 DEF ClientMessage
  <2> QED
    BY <1>1, <1>2, <2>2, <2>3
<1>8. CASE CallHub(q)
  <2>1. PICK ms \in SUBSET Market : ms = Head(spawned[q]).markets
    BY <1>8, HeadIsCall DEF CallHub
  <2>2. PICK x, y : x = [type |-> "Subscribed", markets |-> ms]
                    /\ y = [type |-> "Unsubscribed", markets |-> ms]
    OBVIOUS
  <2>3. x \in Message /\ x.type \notin Routes /\ y \in Message /\ y.type \notin Routes
    BY <2>2, Replies DEF Routes
  <2>4. mailbox' = mailbox /\ (Write(q, x) \/ Write(q, y))
    BY <1>8, <2>1, <2>2 DEF CallHub
  <2> QED
    BY <1>1, <2>3, <2>4
<1> QED
  BY <1>3, <1>4, <1>5, <1>6, <1>7, <1>8 DEF SessionStep

LEMMA FaultsQuiet ==
  ASSUME ConsumersFail \/ RestartGateway, NEW s \in Session
  PROVE  Quiet(s)
<1>1. CASE ConsumersFail
  BY <1>1 DEF ConsumersFail, actors, Quiet
<1>2. CASE RestartGateway
  BY <1>2 DEF RestartGateway, Quiet
<1> QED
  BY <1>1, <1>2

\* A broadcast pushes the record at hand to sessions of the hub.
LEMMA BroadcastPushes ==
  ASSUME StreamsOK, ConsumersOK, AllGapFree, NEW o \in Partition,
         BroadcastAccount(o) \/ BroadcastMarket(o), NEW s \in Session, NEW p \in Partition
  PROVE  \/ AccountPushes(s, p)' \subseteq AccountPushes(s, p)
         \/ /\ s \in sessions /\ todo[p].users # {}
            /\ AccountPushes(s, p)' \subseteq AccountPushes(s, p) \cup {at[p] - 1}
<1> HIDE DEF PushType
<1>1. PICK targets, way :
        /\ way \in Routes /\ SendToSessions(targets, Push(o, way))
        /\ way = "AccountEvent" => todo[o].users # {}
  <2>1. CASE BroadcastAccount(o)
    <3>1. PICK u \in todo[o].users : SendToSessions(users[u], Push(o, "AccountEvent"))
      BY <2>1 DEF BroadcastAccount
    <3> QED
      BY <3>1 DEF Routes
  <2>2. CASE BroadcastMarket(o)
    <3>1. PICK m : SendToSessions(markets[m], Push(o, "MarketEvent"))
      BY <2>2 DEF BroadcastMarket
    <3> QED
      BY <3>1 DEF Routes
  <2> QED
    BY <2>1, <2>2
<1>2. received' = received
  BY DEF BroadcastAccount, BroadcastMarket
<1>3. PICK x : x = Push(o, way)
  OBVIOUS
<1>4. x \in PushType
  BY <1>1, <1>3 DEF ConsumersOK, Push, PushType, Routes
<1>5. mailbox'[s] = mailbox[s] \/ (s \in sessions /\ mailbox'[s] = Append(mailbox[s], x))
  BY <1>1, <1>3 DEF SendToSessions
<1>6. CASE mailbox'[s] = mailbox[s]
  <2>1. Quiet(s)
    BY <1>2, <1>6 DEF Quiet
  <2> QED
    BY <2>1, QuietPushes
<1>7. CASE s \in sessions /\ mailbox'[s] = Append(mailbox[s], x)
  <2>1. mailbox[s] \in Seq(PushType)
    BY DEF StreamsOK
  <2>2. PICK route : route = "AccountEvent"
    OBVIOUS
  <2>3. IsPush(x, route, p) <=> way = route /\ o = p
    BY <1>3 DEF IsPush, Push
  <2>4. /\ IsPush(x, route, p) =>
             OffsetsIn(mailbox'[s], route, p) = OffsetsIn(mailbox[s], route, p) \cup {x.offset}
        /\ ~IsPush(x, route, p) =>
             OffsetsIn(mailbox'[s], route, p) = OffsetsIn(mailbox[s], route, p)
    BY <1>4, <1>7, <2>1, AppendedOffsets
  <2>5. x.offset = at[o] - 1
    BY <1>3 DEF Push
  <2>6. OffsetsIn(received'[s], route, p) = OffsetsIn(received[s], route, p)
    BY <1>2
  <2>7. CASE IsPush(x, route, p)
    BY <1>1, <1>7, <2>2, <2>3, <2>4, <2>5, <2>6, <2>7 DEF AccountPushes, Pushed, Written, Waiting
  <2>8. CASE ~IsPush(x, route, p)
    BY <2>2, <2>4, <2>6, <2>8 DEF AccountPushes, Pushed, Written, Waiting
  <2> QED
    BY <2>7, <2>8
<1> QED
  BY <1>5, <1>6, <1>7

-----------------------------------------------------------------------------
\* A step that leaves offsets and cache alone: what is new at a session is the
\* record at hand.
LEMMA SameCacheKeepsOnce ==
  ASSUME ConsumersOK, AllGapFree, StreamsOK, OnceInv,
         UNCHANGED <<topic, at, dedupe>>,
         \A p \in Partition : todo'[p].users # {} => todo[p].users # {},
         sessions' \subseteq Session,
         \A s \in Session, p \in Partition :
           s \in sessions' /\ s \notin sessions => AccountPushes(s, p)' = {},
         \A s \in Session, p \in Partition :
           \/ AccountPushes(s, p)' \subseteq AccountPushes(s, p)
           \/ /\ s \in sessions /\ todo[p].users # {}
              /\ AccountPushes(s, p)' \subseteq AccountPushes(s, p) \cup {at[p] - 1}
  PROVE  OnceInv'
<1>1. \A p \in Partition : at[p] \in Nat
  BY DEF ConsumersOK
<1>2. ASSUME NEW p, NEW n PROVE Guarded(p, n)' <=> Guarded(p, n)
  BY DEF Guarded, HasId, Remembered, Far, IdsBetween, Positions
<1>3. ASSUME NEW p, NEW n, NEW k
      PROVE  (Far(p, n, k)' <=> Far(p, n, k)) /\ (CopyOf(p, n, k)' <=> CopyOf(p, n, k))
  BY DEF CopyOf, HasId, Far, IdsBetween, Positions
<1>4. ASSUME NEW s \in Session, NEW p \in Partition, NEW n \in AccountPushes(s, p)
      PROVE  n \in Int /\ n < at[p]
  <2>1. PICK route \in Routes : route = "AccountEvent"
    BY DEF Routes
  <2>2. n \in Pushed(s, route, p)
    BY <2>1 DEF AccountPushes
  <2>3. NotAhead(s, route, p) /\ Written(s, route, p) \subseteq Int /\ Waiting(s, route, p) \subseteq Int
    BY OffsetsTyped DEF AllGapFree, GapFree
  <2> QED
    BY <2>2, <2>3 DEF NotAhead, Pushed
<1>5. PushesGuarded'
  <2> SUFFICES ASSUME NEW s \in sessions', NEW p \in Partition, NEW n \in AccountPushes(s, p)'
               PROVE  Guarded(p, n)
    BY <1>2 DEF PushesGuarded
  <2>1. s \in sessions /\ s \in Session
    OBVIOUS
  <2>2. n \in AccountPushes(s, p) \/ (n = at[p] - 1 /\ todo[p].users # {})
    BY <2>1
  <2> QED
    BY <2>1, <2>2 DEF OnceInv, PushesGuarded, RouteGuarded
<1>6. RouteGuarded'
  <2> SUFFICES ASSUME NEW p \in Partition, todo'[p].users # {}
               PROVE  /\ Guarded(p, at[p] - 1)
                      /\ \A s \in sessions' : \A n \in AccountPushes(s, p)' :
                           n < at[p] - 1 /\ CopyOf(p, n, at[p] - 1) => Far(p, n, at[p] - 1)
    BY <1>2, <1>3 DEF RouteGuarded
  <2>1. todo[p].users # {}
    OBVIOUS
  <2>2. ASSUME NEW s \in sessions', NEW n \in AccountPushes(s, p)', n < at[p] - 1
        PROVE  s \in sessions /\ n \in AccountPushes(s, p)
    <3>1. s \in sessions /\ s \in Session
      BY <2>2
    <3>2. n \in AccountPushes(s, p) \/ n = at[p] - 1
      BY <2>2, <3>1
    <3> QED
      BY <1>1, <2>2, <3>1, <3>2
  <2> QED
    BY <2>1, <2>2 DEF OnceInv, RouteGuarded
<1>7. CopiesFar'
  <2> SUFFICES ASSUME NEW s \in Session, NEW p \in Partition,
                      NEW n \in AccountPushes(s, p)', NEW k \in AccountPushes(s, p)',
                      n < k, CopyOf(p, n, k)
               PROVE  Far(p, n, k)
    BY <1>3 DEF CopiesFar
  <2>1. CASE n \in AccountPushes(s, p) /\ k \in AccountPushes(s, p)
    BY <2>1 DEF OnceInv, CopiesFar
  <2>2. CASE k = at[p] - 1 /\ k \notin AccountPushes(s, p)
    <3>1. n \in AccountPushes(s, p) /\ s \in sessions /\ todo[p].users # {}
      BY <1>1, <2>2
    <3> QED
      BY <2>2, <3>1 DEF OnceInv, RouteGuarded
  <2>3. CASE n = at[p] - 1 /\ k \in AccountPushes(s, p)
    BY <1>1, <1>4, <2>3
  <2> QED
    BY <2>1, <2>2, <2>3
<1> QED
  BY <1>5, <1>6, <1>7 DEF OnceInv

\* A step that begins with a record: what is guarded stays so, and no copy of
\* the record that a session has got is too close to it.
LEMMA BegunKeepsOnce ==
  ASSUME ConsumersOK, AllGapFree, StreamsOK, OnceInv, NEW o \in Partition,
         UNCHANGED <<topic, sessions, received, mailbox>>, sessions \subseteq Session,
         at' = [at EXCEPT ![o] = @ + 1],
         \A p \in Partition : p # o => todo'[p] = todo[p],
         \A p \in Partition : \A n \in Int : n < at[p] /\ Guarded(p, n) => Guarded(p, n)',
         NEW h \in Int, h = at[o],
         todo'[o].users # {} =>
           /\ Guarded(o, h)'
           /\ \A n : Guarded(o, n) /\ CopyOf(o, n, h) => Far(o, n, h)
  PROVE  OnceInv'
<1>1. \A p \in Partition : at[p] \in Nat
  BY DEF ConsumersOK
<1>2. ASSUME NEW p, NEW n, NEW k
      PROVE  (Far(p, n, k)' <=> Far(p, n, k)) /\ (CopyOf(p, n, k)' <=> CopyOf(p, n, k))
  BY DEF CopyOf, HasId, Far, IdsBetween, Positions
<1>3. ASSUME NEW s \in Session, NEW p \in Partition, NEW n \in AccountPushes(s, p)
      PROVE  n \in Int /\ n < at[p]
  <2>1. PICK route \in Routes : route = "AccountEvent"
    BY DEF Routes
  <2>2. n \in Pushed(s, route, p)
    BY <2>1 DEF AccountPushes
  <2>3. NotAhead(s, route, p) /\ Written(s, route, p) \subseteq Int /\ Waiting(s, route, p) \subseteq Int
    BY OffsetsTyped DEF AllGapFree, GapFree
  <2> QED
    BY <2>2, <2>3 DEF NotAhead, Pushed
<1>4. ASSUME NEW s, NEW p PROVE AccountPushes(s, p)' = AccountPushes(s, p)
  BY DEF AccountPushes, Pushed, Written, Waiting
<1>5. PushesGuarded'
  <2> SUFFICES ASSUME NEW s \in sessions, NEW p \in Partition, NEW n \in AccountPushes(s, p)
               PROVE  Guarded(p, n)'
    BY <1>4 DEF PushesGuarded
  <2> QED
    BY <1>3 DEF OnceInv, PushesGuarded
<1>6. RouteGuarded'
  <2> SUFFICES ASSUME NEW p \in Partition, todo'[p].users # {},
                      NEW k \in Int, k = at'[p] - 1
               PROVE  /\ Guarded(p, k)'
                      /\ \A s \in sessions : \A n \in AccountPushes(s, p) :
                           n < k /\ CopyOf(p, n, k) => Far(p, n, k)
    <3>1. \A p \in Partition : at'[p] - 1 \in Int
      BY <1>1 DEF ConsumersOK
    <3> QED
      BY <1>2, <1>4, <3>1 DEF RouteGuarded
  <2>1. CASE p = o
    <3>1. k = h
      BY <1>1, <2>1 DEF ConsumersOK
    <3> QED
      BY <2>1, <3>1 DEF OnceInv, PushesGuarded
  <2>2. CASE p # o
    <3>1. k = at[p] - 1 /\ todo[p].users # {} /\ k < at[p]
      BY <1>1, <2>2
    <3> QED
      BY <3>1 DEF OnceInv, RouteGuarded
  <2> QED
    BY <2>1, <2>2
<1>7. CopiesFar'
  BY <1>2, <1>4 DEF OnceInv, CopiesFar
<1> QED
  BY <1>5, <1>6, <1>7 DEF OnceInv

\* Every step keeps copies of an event apart.
LEMMA OnceStepInv ==
  ASSUME Around, CallsTyped, SeenIsRead, CacheOK, OnceInv, [Next]_vars
  PROVE  OnceInv' /\ CacheOK'
<1>1. StreamsOK /\ ConsumersOK /\ AllGapFree /\ sessions \subseteq Session /\ sessions' \subseteq Session
  BY DEF Around, ConfirmInv, HubInv, HubTypeOK
<1>2. ASSUME dedupe' = dedupe PROVE CacheOK'
  BY <1>2 DEF CacheOK
<1>3. ASSUME NEW q \in Session, SessionStep(q) \/ Connect(q) \/ ClientMessage(q) \/ Stop(q)
      PROVE  OnceInv' /\ CacheOK'
  <2>1. UNCHANGED <<topic, at, todo, dedupe>>
    BY <1>3 DEF SessionStep, Register, CallHub, HandlePush, Unregister, Connect, ClientMessage,
       Stop, consumers
  <2>2. ASSUME NEW s \in Session, NEW p \in Partition
        PROVE  AccountPushes(s, p)' \subseteq AccountPushes(s, p)
    BY <1>1, <1>3, SessionsQuiet, QuietPushes
  <2>3. ASSUME NEW s \in Session, NEW p \in Partition, s \in sessions', s \notin sessions
        PROVE  AccountPushes(s, p)' = {}
    <3>1. s = q /\ Register(q)
      BY <1>3, <2>3 DEF SessionStep, Register, CallHub, HandlePush, Unregister, RemoveSessions,
         Connect, ClientMessage, Stop, hub
    <3>2. PICK route \in Routes : route = "AccountEvent"
      BY DEF Routes
    <3>3. Fresh(s, route, p) /\ actor[s] = "starting"
      BY <1>1, <3>1 DEF AllGapFree, GapFree, Register
    <3>4. AccountPushes(s, p) = {}
      BY <3>2, <3>3 DEF Fresh, AccountPushes
    <3> QED
      BY <2>2, <3>4
  <2> QED
    BY <1>1, <1>2, <2>1, <2>2, <2>3, SameCacheKeepsOnce
<1>4. CASE ConsumersFail
  <2>1. UNCHANGED <<topic, at, dedupe, sessions>> /\ \A p \in Partition : todo'[p].users = {}
    BY <1>4 DEF ConsumersFail, hub, Nothing
  <2>2. ASSUME NEW s \in Session, NEW p \in Partition
        PROVE  AccountPushes(s, p)' \subseteq AccountPushes(s, p)
    BY <1>1, <1>4, FaultsQuiet, QuietPushes
  <2> QED
    BY <1>1, <1>2, <2>1, <2>2, SameCacheKeepsOnce
<1>5. CASE RestartGateway
  <2>1. /\ topic' = topic /\ dedupe' = <<>> /\ sessions' = {}
        /\ \A p \in Partition : todo'[p].users = {}
    BY <1>5 DEF RestartGateway, Nothing
  <2>2. ASSUME NEW s \in Session, NEW p \in Partition
        PROVE  AccountPushes(s, p)' \subseteq AccountPushes(s, p)
    BY <1>1, <1>5, FaultsQuiet, QuietPushes
  <2>3. ASSUME NEW p, NEW n, NEW k
        PROVE  (Far(p, n, k)' <=> Far(p, n, k)) /\ (CopyOf(p, n, k)' <=> CopyOf(p, n, k))
    BY <2>1 DEF CopyOf, HasId, Far, IdsBetween, Positions
  <2>4. CopiesFar'
    BY <2>2, <2>3 DEF OnceInv, CopiesFar
  <2>5. PushesGuarded' /\ RouteGuarded'
    BY <2>1 DEF PushesGuarded, RouteGuarded
  <2>6. CacheOK'
    BY <2>1, WsAssumption DEF CacheOK
  <2> QED
    BY <2>4, <2>5, <2>6 DEF OnceInv
<1>6. ASSUME NEW o \in Partition, BroadcastAccount(o) \/ BroadcastMarket(o)
      PROVE  OnceInv' /\ CacheOK'
  <2>1. UNCHANGED <<topic, at, dedupe>> /\ sessions' \subseteq sessions
    BY <1>6 DEF BroadcastAccount, BroadcastMarket, SendToSessions, RemoveSessions
  <2>2. ASSUME NEW p \in Partition, todo'[p].users # {} PROVE todo[p].users # {}
    <3>1. todo[p] \in [users: SUBSET User, markets: SUBSET Market] /\ todo \in [Partition -> [users: SUBSET User, markets: SUBSET Market]]
      BY <1>1 DEF ConsumersOK
    <3>2. CASE BroadcastMarket(o)
      BY <2>2, <3>1, <3>2 DEF BroadcastMarket, Nothing
    <3>3. CASE BroadcastAccount(o)
      <4>1. PICK u \in todo[o].users : todo' = [todo EXCEPT ![o].users = @ \ {u}]
        BY <3>3 DEF BroadcastAccount
      <4> QED
        BY <2>2, <3>1, <4>1
    <3> QED
      BY <1>6, <3>2, <3>3
  <2>3. ASSUME NEW s \in Session, NEW p \in Partition
        PROVE  \/ AccountPushes(s, p)' \subseteq AccountPushes(s, p)
               \/ /\ s \in sessions /\ todo[p].users # {}
                  /\ AccountPushes(s, p)' \subseteq AccountPushes(s, p) \cup {at[p] - 1}
    BY <1>1, <1>6, BroadcastPushes
  <2> QED
    BY <1>1, <1>2, <2>1, <2>2, <2>3, SameCacheKeepsOnce
<1>7. ASSUME NEW o \in Partition, RouteEngineEvent(o) \/ RouteWalletEvent(o) \/ SkipRecord(o)
      PROVE  OnceInv' /\ CacheOK'
  <2>1. /\ UNCHANGED <<topic, sessions, received, mailbox>> /\ HasRecord(o)
        /\ at' = [at EXCEPT ![o] = @ + 1]
    BY <1>7 DEF RouteEngineEvent, RouteWalletEvent, SkipRecord, Begin, actors, hub
  <2>2. \A p \in Partition : p # o => todo'[p] = todo[p]
    BY <1>1, <1>7 DEF RouteEngineEvent, RouteWalletEvent, SkipRecord, Begin, ConsumersOK
  <2>3. PICK e \in Record : e = RecordAt(o) /\ e = topic[o][at[o]]
    BY <1>1, <2>1, AtRecord DEF RecordAt
  <2>4. \A p \in Partition : at[p] \in Int /\ at'[p] \in Int /\ at[p] <= at'[p]
    BY <1>1, <2>1 DEF ConsumersOK
  <2>5. CASE dedupe' = dedupe /\ (todo'[o].users # {} => ~HasId(o, at[o]))
    <3>1. \A p \in Partition : \A n \in Int : n < at[p] /\ Guarded(p, n) => Guarded(p, n)'
      BY <1>1, <2>1, <2>4, <2>5, GuardedStays
    <3> PICK k \in Int : k = at[o]
      BY <2>4
    <3>2. todo'[o].users # {} =>
            /\ Guarded(o, k)'
            /\ \A n : Guarded(o, n) /\ CopyOf(o, n, k) => Far(o, n, k)
      <4> SUFFICES ASSUME todo'[o].users # {}
                   PROVE  /\ Guarded(o, k)'
                          /\ \A n : Guarded(o, n) /\ CopyOf(o, n, k) => Far(o, n, k)
        OBVIOUS
      <4>2. ~HasId(o, k) /\ topic' = topic
        BY <2>1, <2>5
      <4>3. \A n : ~CopyOf(o, n, k)
        BY <4>2 DEF CopyOf, HasId
      <4> QED
        BY <4>2, <4>3 DEF Guarded, HasId
    <3> QED
      BY <1>1, <1>2, <2>1, <2>2, <2>5, <3>1, <3>2, BegunKeepsOnce
  <2>6. CASE RouteWalletEvent(o) /\ e.id # NoId
    <3>1. e.source = "wallet" /\ e.id \notin Seen /\ dedupe' = Remember(e.id)
      BY <2>3, <2>6 DEF RouteWalletEvent
    <3>2. PICK x \in EventId : x = e.id
      BY <2>6, <3>1 DEF Record
    <3>3. PICK k \in Int : k = at[o]
      BY <2>4
    <3>4. topic[o][k].id = x /\ HasId(o, k) /\ x \notin Seen /\ dedupe' = Remember(x)
      BY <2>3, <2>6, <3>1, <3>2, <3>3 DEF HasId
    <3>5. \A p \in Partition : \A n \in Int : n < at[p] /\ Guarded(p, n) => Guarded(p, n)'
      BY <1>1, <2>1, <3>3, <3>4, GuardedLearns
    <3>6. \A n : Guarded(o, n) /\ CopyOf(o, n, k) => Far(o, n, k)
      BY <3>3, <3>4 DEF Guarded, CopyOf, Remembered, Seen
    <3>7. Guarded(o, k)'
      <4>1. CASE DedupeCapacity = 0
        <5>1. PICK l \in Int : l = at'[o]
          BY <2>4
        <5>2. PICK B : B = IdsBetween(o, k, l)' /\ B = IdsBetween(o, k, l)
          BY <2>1 DEF IdsBetween, Positions
        <5>3. IsFiniteSet(B \ {x})
          BY <1>1, <5>2, IdsFacts, FS_RemoveElement
        <5>4. Cardinality(B \ {x}) >= 0
          BY <5>3, FS_CardinalityType
        <5>5. Far(o, k, l)'
          BY <2>1, <3>4, <4>1, <5>2, <5>4 DEF Far
        <5> QED
          BY <5>1, <5>5 DEF Guarded
      <4>2. CASE DedupeCapacity # 0
        <5>1. PICK l \in Nat \ {0} : DOMAIN dedupe' = 1 .. l /\ dedupe'[l] = x
          BY <3>4, <4>2, RememberFacts
        <5>2. l \in DOMAIN dedupe' /\ \A j \in DOMAIN dedupe' : ~(l < j)
          BY <5>1
        <5>3. Remembered(o, k)'
          BY <2>1, <3>4, <5>1, <5>2 DEF Remembered
        <5> QED
          BY <5>3 DEF Guarded
      <4> QED
        BY <4>1, <4>2
    <3>8. OnceInv'
      BY <1>1, <2>1, <2>2, <3>3, <3>5, <3>6, <3>7, BegunKeepsOnce
    <3>9. CacheOK'
      BY <3>4, RememberFacts
    <3> QED
      BY <3>8, <3>9
  <2>7. ASSUME ~(RouteWalletEvent(o) /\ e.id # NoId)
        PROVE  dedupe' = dedupe /\ (todo'[o].users # {} => ~HasId(o, at[o]))
    <3>1. CASE RouteEngineEvent(o)
      BY <2>3, <3>1 DEF RouteEngineEvent, HasId
    <3>2. CASE RouteWalletEvent(o)
      BY <2>3, <2>7, <3>2 DEF RouteWalletEvent, HasId
    <3>3. CASE SkipRecord(o)
      BY <1>1, <3>3 DEF SkipRecord, Begin, ConsumersOK, Nothing
    <3> QED
      BY <1>7, <3>1, <3>2, <3>3
  <2> QED
    BY <2>5, <2>6, <2>7
<1>8. ASSUME UNCHANGED vars PROVE OnceInv' /\ CacheOK'
  <2>1. UNCHANGED <<topic, at, todo, dedupe, sessions, received, mailbox>>
    BY <1>8 DEF vars, actors, hub, consumers
  <2>2. ASSUME NEW s \in Session, NEW p \in Partition
        PROVE  AccountPushes(s, p)' \subseteq AccountPushes(s, p)
    BY <2>1 DEF AccountPushes, Pushed, Written, Waiting
  <2> QED
    BY <1>1, <1>2, <2>1, <2>2, SameCacheKeepsOnce
<1>9. ASSUME NEW p \in Partition, FetchNothing(p) PROVE OnceInv' /\ CacheOK'
  BY <1>8, <1>9 DEF FetchNothing
<1> QED
  BY <1>3, <1>4, <1>5, <1>6, <1>7, <1>8, <1>9 DEF Next, ConsumerStep

(***************************************************************************)
(* The dedupe cache of is_duplicate keeps a wallet event with an id from    *)
(* being pushed to a session twice, for any number of sessions, any history *)
(* and any capacity, as long as fewer other ids than its capacity can have  *)
(* been routed between the two copies.                                      *)
(***************************************************************************)
THEOREM WsWalletEventsOnce == Spec => []WalletEventsOnce
<1>1. StreamsOK /\ AllGapFree /\ OnceInv => WalletEventsOnce
  <2> SUFFICES ASSUME StreamsOK, AllGapFree, OnceInv PROVE WalletEventsOnce
    OBVIOUS
  <2>1. ASSUME NEW s \in Session, NEW p \in Partition
        PROVE  Offsets(s, "AccountEvent", p) = AccountPushes(s, p)
    <3>1. PICK route \in Routes : route = "AccountEvent"
      BY DEF Routes
    <3> QED
      BY <3>1, StreamOffsets DEF AccountPushes
  <2> QED
    BY <2>1 DEF WalletEventsOnce, OnceInv, CopiesFar, CopyOf, HasId, Far
<1>2. /\ HubInv /\ HubInv' /\ ConfirmInv /\ ConfirmInv' /\ CallsTyped
      /\ AllGapFree /\ DedupeOK /\ CacheOK /\ OnceInv /\ [Next]_vars
      => OnceInv' /\ CacheOK'
  BY OnceStepInv DEF Around, DedupeOK
<1>3. ASSUME Init PROVE CacheOK /\ OnceInv
  <2>1. CacheOK
    BY <1>3, WsAssumption DEF Init, CacheOK
  <2>2. \A s \in Session, p \in Partition : AccountPushes(s, p) = {}
    BY <1>3 DEF Init, AccountPushes, Pushed, Written, Waiting, OffsetsIn
  <2>3. sessions = {} /\ \A p \in Partition : todo[p].users = {}
    BY <1>3 DEF Init, Nothing
  <2> QED
    BY <2>1, <2>2, <2>3 DEF OnceInv, PushesGuarded, RouteGuarded, CopiesFar
<1>4. ConfirmInv /\ AllGapFree /\ OnceInv => WalletEventsOnce
  BY <1>1 DEF ConfirmInv
<1> QED
  BY <1>2, <1>3, <1>4, GapAlways, PTL DEF Spec
-----------------------------------------------------------------------------
(***************************************************************************)
(* StitchedBook.  The gateway runs as before beside projector and client.   *)
(***************************************************************************)
\* A step of the feed is a step of the gateway or leaves it alone.
LEMMA FeedIsGateway == FeedSpec => Spec
<1>1. FeedInit => Init
  BY DEF FeedInit
<1>2. [FeedNext]_feedVars => [Next]_vars
  BY DEF FeedNext, feedVars, ProjectDelta, ReadState, ReadBids, ReadAsks, FetchFails
<1> QED
  BY <1>1, <1>2, PTL DEF FeedSpec, Spec

\* No step writes to a topic.
LEMMA TopicStays == [Next]_vars => topic' = topic
<1> SUFFICES ASSUME [Next]_vars PROVE topic' = topic
  OBVIOUS
<1> USE DEF consumers
<1>1. ASSUME NEW s \in Session, SessionStep(s) \/ Connect(s) \/ ClientMessage(s) \/ Stop(s)
      PROVE  topic' = topic
  BY <1>1 DEF SessionStep, Register, CallHub, HandlePush, Unregister, Connect, ClientMessage, Stop
<1>2. ASSUME NEW p \in Partition, ConsumerStep(p) \/ FetchNothing(p) PROVE topic' = topic
  BY <1>2 DEF ConsumerStep, RouteEngineEvent, RouteWalletEvent, SkipRecord, BroadcastAccount,
     BroadcastMarket, FetchNothing, Begin, vars
<1>3. ASSUME ConsumersFail \/ RestartGateway PROVE topic' = topic
  BY <1>3 DEF ConsumersFail, RestartGateway
<1>4. CASE UNCHANGED vars
  BY <1>4 DEF vars
<1> QED
  BY <1>1, <1>2, <1>3, <1>4 DEF Next

(***************************************************************************)
(* The last delta that names a level decides its quantity.                  *)
(***************************************************************************)
\* A finite set of numbers has a largest one.
LEMMA LargestOfFinite ==
  ASSUME NEW S, IsFiniteSet(S), S \subseteq Int, S # {}
  PROVE  \E m \in S : \A x \in S : x <= m
<1> DEFINE T == {U \in SUBSET S : U # {} /\ \A x \in S : \E y \in U : x <= y}
<1>1. S \in T
  OBVIOUS
<1>2. T \subseteq FiniteSubsetsOf(S)
  BY FS_Subset DEF FiniteSubsetsOf
<1>3. IsWellFoundedOn(StrictSubsetOrdering(S), FiniteSubsetsOf(S))
  BY FS_StrictSubsetOrderingWellFounded
<1>4. PICK U \in T : \A V \in T : <<V, U>> \notin StrictSubsetOrdering(S)
  <2> HIDE DEF T
  <2> QED BY <1>1, <1>2, <1>3, WFMin
<1>5. PICK m \in U : TRUE
  OBVIOUS
<1>6. \A x \in U : x <= m
  <2> SUFFICES ASSUME NEW z \in U, ~(z <= m) PROVE FALSE
    OBVIOUS
  <2>1. m < z /\ m \in Int /\ z \in Int
    OBVIOUS
  <2>2. PICK V : V = U \ {m}
    OBVIOUS
  <2>3. ASSUME NEW x \in S PROVE \E y \in V : x <= y
    <3>1. PICK y \in U : x <= y
      OBVIOUS
    <3>2. x \in Int /\ y \in Int
      BY <3>1
    <3>3. CASE y = m
      BY <2>1, <2>2, <3>1, <3>2, <3>3
    <3> QED
      BY <2>2, <3>1, <3>3
  <2>4. V \in T
    BY <2>1, <2>2, <2>3
  <2>5. <<V, U>> \in StrictSubsetOrdering(S)
    BY <2>2, <1>5 DEF StrictSubsetOrdering
  <2> QED
    BY <1>4, <2>4, <2>5
<1>7. m \in S /\ \A x \in S : \E y \in U : x <= y /\ y \in Int /\ x \in Int /\ m \in Int
  OBVIOUS
<1> QED
  BY <1>6, <1>7

\* The latest of the deltas that name a level gives its quantity.
LEMMA LastNamed ==
  ASSUME NEW D, NEW l, NEW z, NEW d \in Naming(D, l),
         \A e \in Naming(D, l) : e.id \in Int /\ e.id <= d.id,
         \A e \in Naming(D, l) : e.id = d.id => e = d
  PROVE  LastQuantity(D, l, z) = Quantity(d, l)
<1> PICK N : N = Naming(D, l)
  OBVIOUS
<1>1. PICK c : c = Latest(N)
  OBVIOUS
<1>2. c \in N /\ \A f \in N : f.id <= c.id
  BY <1>1 DEF Latest
<1>3. c.id \in Int /\ d.id \in Int /\ c.id <= d.id /\ d.id <= c.id
  BY <1>2
<1>4. c = d
  BY <1>2, <1>3
<1> QED
  BY <1>1, <1>4 DEF LastQuantity

-----------------------------------------------------------------------------
(***************************************************************************)
(* The history of the market, and what the projector has made of it.        *)
(***************************************************************************)
FromHistory == topic \in History
TopicOK == FromHistory /\ ConsumersOK

\* What is at the offset of a delta is an event of the market, with a number.
LEMMA DeltaTyped ==
  ASSUME TopicOK, NEW n \in DeltaOffsets
  PROVE  /\ DeltaAt(n) \in Delta /\ n \in Nat \ {0}
         /\ DeltaAt(n).id \in Nat \ {0} /\ DeltaAt(n).levels \subseteq Level \X Nat
         /\ topic[BookPartition][n].source = "engine"
         /\ topic[BookPartition][n].market = BookMarket
<1>1. topic[BookPartition] \in Seq(Record)
  BY BookAssumption DEF TopicOK, ConsumersOK
<1>2. PICK r : r = topic[BookPartition][n]
  OBVIOUS
<1>3. r \in Record /\ IsDelta(r) /\ n \in Nat \ {0}
  BY <1>1, <1>2 DEF DeltaOffsets
<1>4. r.payload \in Payload /\ r.source = "engine" /\ r.market = BookMarket
  BY <1>3 DEF IsDelta, Record
<1>5. r.payload \in Delta
  BY <1>3, <1>4, BookAssumption DEF IsDelta, Delta
<1> QED
  BY <1>2, <1>3, <1>4, <1>5 DEF DeltaAt, Delta

\* The deltas of a market are finitely many.
LEMMA DeltasFinite ==
  ASSUME TopicOK
  PROVE  IsFiniteSet(DeltaOffsets)
<1>1. topic[BookPartition] \in Seq(Record)
  BY BookAssumption DEF TopicOK, ConsumersOK
<1>2. PICK k \in Nat : DOMAIN topic[BookPartition] = 1 .. k
  BY <1>1
<1>3. IsFiniteSet(1 .. k)
  BY FS_Interval
<1>4. DeltaOffsets \subseteq 1 .. k
  BY <1>2 DEF DeltaOffsets
<1> QED
  BY <1>3, <1>4, FS_Subset

\* The deltas up to a number are finitely many.
LEMMA UpToTyped ==
  ASSUME TopicOK, NEW b
  PROVE  /\ IsFiniteSet(UpTo(b))
         /\ \A e \in UpTo(b) : e \in Delta /\ e.id \in Nat \ {0} /\ e.levels \subseteq Level \X Nat
<1>1. IsFiniteSet({DeltaAt(k) : k \in DeltaOffsets})
  <2>1. PICK S, T : S = DeltaOffsets /\ T = {DeltaAt(k) : k \in DeltaOffsets}
    OBVIOUS
  <2>2. PICK g : g = [k \in S |-> DeltaAt(k)]
    OBVIOUS
  <2>3. g \in Surjection(S, T)
    BY <2>1, <2>2 DEF Surjection
  <2>4. IsFiniteSet(T)
    BY <2>1, <2>3, DeltasFinite, FS_Surjection
  <2> QED
    BY <2>1, <2>4
<1>2. UpTo(b) \subseteq {DeltaAt(k) : k \in DeltaOffsets}
  BY DEF UpTo
<1>3. IsFiniteSet(UpTo(b))
  BY <1>1, <1>2, FS_Subset
<1> QED
  BY <1>2, <1>3, DeltaTyped

\* A number stands for one delta, and one that comes late has come before.
LEMMA SequenceFacts ==
  ASSUME TopicOK, NEW n \in DeltaOffsets, NEW k \in DeltaOffsets
  PROVE  /\ DeltaAt(n).id = DeltaAt(k).id => DeltaAt(n) = DeltaAt(k)
         /\ n < k /\ DeltaAt(k).id < DeltaAt(n).id =>
              \E j \in DeltaOffsets : j < n /\ DeltaAt(j) = DeltaAt(k)
<1>1. InSequence(topic[BookPartition])
  BY FeedInSequence DEF TopicOK, FromHistory
<1>2. topic[BookPartition] \in Seq(Record)
  BY BookAssumption DEF TopicOK, ConsumersOK
<1>3. PICK s : s = topic[BookPartition]
  OBVIOUS
<1>4. n \in DOMAIN s /\ k \in DOMAIN s /\ IsDelta(s[n]) /\ IsDelta(s[k])
  BY <1>3 DEF DeltaOffsets
<1>5. /\ s[n].payload.id = s[k].payload.id => s[n].payload = s[k].payload
      /\ n < k /\ s[k].payload.id < s[n].payload.id =>
           \E j \in 1 .. n - 1 : IsDelta(s[j]) /\ s[j].payload = s[k].payload
  BY <1>1, <1>3, <1>4 DEF InSequence
<1>6. ASSUME NEW j \in 1 .. n - 1, IsDelta(s[j]) PROVE j \in DeltaOffsets /\ j < n
  <2>1. j \in DOMAIN s /\ j < n
    BY <1>2, <1>3, <1>4
  <2> QED
    BY <1>3, <1>6, <2>1 DEF DeltaOffsets
<1> QED
  BY <1>3, <1>5, <1>6 DEF DeltaAt

\* What a delta says of a level is a quantity.
LEMMA QuantityTyped ==
  ASSUME NEW e, e.levels \subseteq Level \X Nat, NEW l, \E x \in e.levels : x[1] = l
  PROVE  Quantity(e, l) \in Nat
<1>1. PICK x : x = CHOOSE y \in e.levels : y[1] = l
  OBVIOUS
<1>2. x \in e.levels
  BY <1>1
<1> QED
  BY <1>1, <1>2 DEF Quantity

(***************************************************************************)
(* The projector's book is the engine's, after the delta that it has        *)
(* written last; every delta behind its offset is in it.                    *)
(***************************************************************************)
BookOK ==
  /\ projected \in Nat /\ bookSeq \in Nat
  /\ book \in [Level -> [quantity: Nat, seq: Nat]]
  /\ \A n \in DeltaOffsets : n <= projected => DeltaAt(n).id <= bookSeq
  /\ \A l \in Level :
       /\ book[l].seq <= bookSeq
       /\ book[l].quantity = EngineQuantity(l, bookSeq)
       /\ book[l].quantity = 0 => book[l] = NoLevel

\* Neither the projector nor the engine has a level in the beginning.
LEMMA BookInit == FeedInit /\ TopicOK => BookOK
<1> SUFFICES ASSUME FeedInit, TopicOK PROVE BookOK
  OBVIOUS
<1>1. projected = 0 /\ bookSeq = 0 /\ book = [l \in Level |-> NoLevel]
  BY DEF FeedInit
<1>2. UpTo(0) = {}
  <2> SUFFICES ASSUME NEW e \in UpTo(0) PROVE FALSE
    OBVIOUS
  <2>1. e.id \in Nat \ {0} /\ e.id <= 0
    BY UpToTyped DEF UpTo
  <2> QED
    BY <2>1
<1>3. \A l : EngineQuantity(l, 0) = 0
  BY <1>2 DEF EngineQuantity, LastQuantity, Naming
<1>4. \A n \in DeltaOffsets : ~(n <= projected)
  BY <1>1, DeltaTyped
<1> QED
  BY <1>1, <1>3, <1>4 DEF BookOK, NoLevel

\* project_orderbook_delta keeps the book in step with the engine's.
LEMMA NewDelta ==
  ASSUME TopicOK, BookOK, NEW n \in DeltaOffsets, projected < n,
         \A k \in DeltaOffsets : k < n => k <= projected, DeltaAt(n).id > bookSeq
  PROVE  UpTo(DeltaAt(n).id) = UpTo(bookSeq) \cup {DeltaAt(n)}
<1> PICK e : e = DeltaAt(n)
  OBVIOUS
<1>1. e.id \in Nat /\ n \in Nat /\ bookSeq \in Nat /\ projected \in Nat
  BY DeltaTyped DEF BookOK
<1>2. ASSUME NEW f \in UpTo(e.id), f # e PROVE f \in UpTo(bookSeq)
  <2>1. PICK k \in DeltaOffsets : f = DeltaAt(k)
    BY DEF UpTo
  <2>2. k \in Nat /\ f.id \in Nat /\ f.id <= e.id
    BY <2>1, DeltaTyped DEF UpTo
  <2>3. f.id < e.id /\ k # n
    BY <1>1, <1>2, <2>1, <2>2, SequenceFacts
  <2>4. PICK j \in DeltaOffsets : j < n /\ DeltaAt(j) = f
    <3>1. CASE k < n
      BY <2>1, <3>1
    <3>2. CASE n < k
      BY <2>1, <2>3, <3>2, SequenceFacts
    <3> QED
      BY <1>1, <2>2, <2>3, <3>1, <3>2
  <2>5. f.id <= bookSeq
    BY <2>4 DEF BookOK
  <2> QED
    BY <2>1, <2>5 DEF UpTo
<1>3. ASSUME NEW f \in UpTo(bookSeq) PROVE f \in UpTo(e.id)
  <2>1. f.id \in Nat /\ f.id <= bookSeq
    BY UpToTyped DEF UpTo
  <2> QED
    BY <1>1, <2>1 DEF UpTo
<1>4. e \in UpTo(e.id)
  BY <1>1 DEF UpTo
<1> QED
  BY <1>2, <1>3, <1>4

\* A level after one more delta, the latest of all.
LEMMA LevelWithDelta ==
  ASSUME NEW D, NEW e, NEW l, NEW z, e.id \in Int, \A f \in D : f.id \in Int /\ f.id < e.id,
         NEW E, E = D \cup {e}
  PROVE  /\ (\E x \in e.levels : x[1] = l) => LastQuantity(E, l, z) = Quantity(e, l)
         /\ ~(\E x \in e.levels : x[1] = l) => LastQuantity(E, l, z) = LastQuantity(D, l, z)
<1>1. CASE \E x \in e.levels : x[1] = l
  <2>1. e \in Naming(E, l)
    BY <1>1 DEF Naming
  <2>2. \A f \in Naming(E, l) : f.id \in Int /\ f.id <= e.id /\ (f.id = e.id => f = e)
    <3> SUFFICES ASSUME NEW f \in Naming(E, l)
                 PROVE  f.id \in Int /\ f.id <= e.id /\ (f.id = e.id => f = e)
      OBVIOUS
    <3>1. f \in D \/ f = e
      BY DEF Naming
    <3>2. CASE f \in D
      BY <3>2
    <3>3. CASE f = e
      BY <3>3
    <3> QED
      BY <3>1, <3>2, <3>3
  <2>3. LastQuantity(E, l, z) = Quantity(e, l)
    <3>1. \A f \in Naming(E, l) : f.id \in Int /\ f.id <= e.id
      BY <2>2
    <3>2. \A f \in Naming(E, l) : f.id = e.id => f = e
      BY <2>2
    <3> QED
      BY <2>1, <3>1, <3>2, LastNamed
  <2> QED
    BY <1>1, <2>3
<1>2. CASE ~\E x \in e.levels : x[1] = l
  <2>1. Naming(E, l) = Naming(D, l)
    BY <1>2 DEF Naming
  <2> QED
    BY <1>2, <2>1 DEF LastQuantity
<1> QED
  BY <1>1, <1>2

\* A delta above the stored sequence is the next one of the engine, any other
\* is in the book already.
LEMMA ProjectKeepsBook ==
  ASSUME TopicOK, BookOK, ProjectDelta
  PROVE  BookOK' /\ bookSeq <= bookSeq'
<1>1. PICK n \in DeltaOffsets :
        /\ projected < n /\ \A k \in DeltaOffsets : k < n => k <= projected
        /\ projected' = n
        /\ IF DeltaAt(n).id > bookSeq
             THEN /\ book' = [l \in Level |-> LevelAfter(book[l], l, DeltaAt(n))]
                  /\ bookSeq' = DeltaAt(n).id
             ELSE UNCHANGED <<book, bookSeq>>
  BY DEF ProjectDelta
<1>2. topic' = topic
  BY DEF ProjectDelta, vars, consumers
<1>3. PICK e : e = DeltaAt(n)
  OBVIOUS
<1>4. /\ e \in Delta /\ e.id \in Nat /\ e.levels \subseteq Level \X Nat /\ n \in Nat
      /\ bookSeq \in Nat /\ projected \in Nat
  BY <1>3, DeltaTyped DEF BookOK
<1>5. DeltaOffsets' = DeltaOffsets /\ \A k : DeltaAt(k)' = DeltaAt(k)
  BY <1>2 DEF DeltaOffsets, DeltaAt
<1>6. \A b : UpTo(b)' = UpTo(b)
  BY <1>2 DEF DeltaOffsets, DeltaAt, UpTo
<1>7. \A l, b : EngineQuantity(l, b)' = EngineQuantity(l, b)
  BY <1>2 DEF DeltaOffsets, DeltaAt, UpTo, EngineQuantity
<1>8. \A k \in DeltaOffsets : k \in Nat /\ DeltaAt(k).id \in Nat
  BY DeltaTyped
<1>9. bookSeq' \in Nat /\ bookSeq <= bookSeq' /\ e.id <= bookSeq'
  BY <1>1, <1>3, <1>4
<1>10. \A k \in DeltaOffsets : k <= n => DeltaAt(k).id <= bookSeq'
  <2> SUFFICES ASSUME NEW k \in DeltaOffsets, k <= n PROVE DeltaAt(k).id <= bookSeq'
    OBVIOUS
  <2>1. CASE k = n
    BY <1>3, <1>9, <2>1
  <2>2. CASE k < n
    <3>1. DeltaAt(k).id <= bookSeq
      BY <1>1, <2>2 DEF BookOK
    <3> QED
      BY <1>4, <1>8, <1>9, <3>1
  <2> QED
    BY <1>4, <1>8, <2>1, <2>2
<1>11. /\ book' \in [Level -> [quantity: Nat, seq: Nat]]
       /\ \A l \in Level :
            /\ book'[l].seq <= bookSeq'
            /\ book'[l].quantity = EngineQuantity(l, bookSeq')
            /\ book'[l].quantity = 0 => book'[l] = NoLevel
  <2>1. CASE ~(e.id > bookSeq)
    BY <1>1, <1>3, <2>1 DEF BookOK
  <2>2. CASE e.id > bookSeq
    <3>1. UpTo(e.id) = UpTo(bookSeq) \cup {e} /\ bookSeq' = e.id
      BY <1>1, <1>3, <2>2, NewDelta
    <3>2. \A f \in UpTo(bookSeq) : f.id \in Int /\ f.id < e.id
      <4> SUFFICES ASSUME NEW f \in UpTo(bookSeq) PROVE f.id \in Int /\ f.id < e.id
        OBVIOUS
      <4>1. f.id \in Nat /\ f.id <= bookSeq
        BY UpToTyped DEF UpTo
      <4> QED
        BY <1>4, <2>2, <4>1
    <3>3. ASSUME NEW l \in Level
          PROVE  /\ book'[l] \in [quantity: Nat, seq: Nat] /\ book'[l].seq <= e.id
                 /\ book'[l].quantity = EngineQuantity(l, e.id)
                 /\ book'[l].quantity = 0 => book'[l] = NoLevel
      <4>1. PICK row : row = book[l]
        OBVIOUS
      <4>2. /\ row \in [quantity: Nat, seq: Nat] /\ row.seq <= bookSeq
            /\ row.quantity = EngineQuantity(l, bookSeq)
            /\ row.quantity = 0 => row = NoLevel
        BY <4>1 DEF BookOK
      <4>3. book'[l] = LevelAfter(row, l, e)
        BY <1>1, <1>3, <2>2, <4>1
      <4>4. EngineQuantity(l, e.id) =
              IF \E x \in e.levels : x[1] = l THEN Quantity(e, l) ELSE row.quantity
        <5>1. PICK D : D = UpTo(bookSeq)
          OBVIOUS
        <5>2. LastQuantity(D \cup {e}, l, 0) =
                IF \E x \in e.levels : x[1] = l THEN Quantity(e, l) ELSE LastQuantity(D, l, 0)
          <6>1. e.id \in Int /\ \A f \in D : f.id \in Int /\ f.id < e.id
            BY <1>4, <3>2, <5>1
          <6>2. PICK E, z : E = D \cup {e} /\ z = 0
            OBVIOUS
          <6>3. /\ (\E x \in e.levels : x[1] = l) => LastQuantity(E, l, z) = Quantity(e, l)
                /\ ~(\E x \in e.levels : x[1] = l) => LastQuantity(E, l, z) = LastQuantity(D, l, z)
            BY <6>1, <6>2, LevelWithDelta
          <6> QED
            BY <6>2, <6>3
        <5>3. EngineQuantity(l, e.id) = LastQuantity(D \cup {e}, l, 0)
          BY <3>1, <5>1 DEF EngineQuantity
        <5>4. row.quantity = LastQuantity(D, l, 0)
          BY <4>2, <5>1 DEF EngineQuantity
        <5> QED
          BY <5>2, <5>3, <5>4
      <4>5. CASE \E x \in e.levels : x[1] = l
        <5>1. Quantity(e, l) \in Nat
          BY <1>4, <4>5, QuantityTyped
        <5>2. row.seq < e.id
          BY <1>4, <2>2, <4>2
        <5>3. PICK q \in Nat : q = Quantity(e, l)
          BY <5>1
        <5>4. LevelAfter(row, l, e) = [quantity |-> q, seq |-> IF q = 0 THEN 0 ELSE e.id]
          BY <4>5, <5>2, <5>3 DEF LevelAfter, Quantity
        <5> QED
          BY <1>4, <4>3, <4>4, <4>5, <5>3, <5>4 DEF NoLevel
      <4>6. CASE ~\E x \in e.levels : x[1] = l
        <5>1. book'[l] = row
          BY <4>3, <4>6 DEF LevelAfter
        <5> QED
          BY <1>4, <2>2, <4>2, <4>4, <4>6, <5>1
      <4> QED
        BY <4>5, <4>6
    <3>4. book' = [l \in Level |-> book'[l]]
      BY <1>1, <1>3, <2>2
    <3>5. book' \in [Level -> [quantity: Nat, seq: Nat]]
      BY <3>3, <3>4
    <3> QED
      BY <3>1, <3>3, <3>5
  <2> QED
    BY <2>1, <2>2
<1>12. BookOK'
  BY <1>1, <1>4, <1>5, <1>7, <1>9, <1>10, <1>11 DEF BookOK
<1> QED
  BY <1>9, <1>12

-----------------------------------------------------------------------------
(***************************************************************************)
(* The snapshot.  A level that is missing in it has Depth others before it, *)
(* all of them in the snapshot.                                             *)
(***************************************************************************)
Before(k, l) ==
  k.side = l.side /\ IF l.side = "BID" THEN k.price > l.price ELSE k.price < l.price

\* A level has a side and a price.
LEMMA LevelFacts ==
  ASSUME NEW k \in Level
  PROVE  k.side \in {"BID", "ASK"} /\ k.price \in Nat
  BY BookAssumption DEF Level

\* There are finitely many levels.
LEMMA LevelsFinite == IsFiniteSet(Level)
<1>1. PICK S, T : S = {"BID", "ASK"} \X Price /\ T = Level
  OBVIOUS
<1>2. IsFiniteSet({"BID", "ASK"}) /\ IsFiniteSet(Price)
  <2>1. IsFiniteSet({"BID"})
    BY FS_Singleton
  <2>2. IsFiniteSet({"BID"} \cup {"ASK"})
    BY <2>1, FS_AddElement
  <2>3. {"BID"} \cup {"ASK"} = {"BID", "ASK"}
    OBVIOUS
  <2> QED
    BY <2>2, <2>3, BookAssumption
<1>3. IsFiniteSet(S)
  BY <1>1, <1>2, FS_Product
<1>4. PICK g : g = [x \in S |-> [side |-> x[1], price |-> x[2]]]
  OBVIOUS
<1>5. g \in [S -> T]
  BY <1>1, <1>4 DEF Level
<1>6. ASSUME NEW l \in T PROVE \E x \in S : g[x] = l
  <2>1. l.side \in {"BID", "ASK"} /\ l.price \in Price /\ l = [side |-> l.side, price |-> l.price]
    BY <1>1 DEF Level
  <2>2. <<l.side, l.price>> \in S
    BY <1>1, <2>1
  <2> QED
    BY <1>4, <2>1, <2>2
<1>7. g \in Surjection(S, T)
  BY <1>5, <1>6 DEF Surjection
<1> QED
  BY <1>1, <1>3, <1>7, FS_Surjection

\* The first of some levels of a side, in the order in which they are read.
LEMMA FirstLevel ==
  ASSUME NEW A, A \subseteq Level, A # {}, NEW side, \A k \in A : k.side = side
  PROVE  \E x \in A : \A k \in A : ~Before(k, x)
<1>1. IsFiniteSet(A)
  BY LevelsFinite, FS_Subset
<1>2. PICK S : S = {IF side = "BID" THEN k.price ELSE 0 - k.price : k \in A}
  OBVIOUS
<1>3. PICK g : g = [k \in A |-> IF side = "BID" THEN k.price ELSE 0 - k.price]
  OBVIOUS
<1>4. g \in Surjection(A, S)
  BY <1>2, <1>3 DEF Surjection
<1>5. IsFiniteSet(S)
  BY <1>1, <1>4, FS_Surjection
<1>6. \A k \in A : k.price \in Nat
  BY LevelFacts
<1>7. S \subseteq Int /\ S # {}
  BY <1>2, <1>6
<1>8. PICK m \in S : \A y \in S : y <= m
  BY <1>5, <1>7, LargestOfFinite
<1>9. PICK x \in A : m = IF side = "BID" THEN x.price ELSE 0 - x.price
  BY <1>2, <1>8
<1>10. \A k \in A : (IF side = "BID" THEN k.price ELSE 0 - k.price) <= m
  BY <1>2, <1>8
<1> QED
  BY <1>6, <1>9, <1>10 DEF Before

\* If a level has at least depth rows before it, depth of them are among the
\* first depth of the side.
LEMMA FirstRows ==
  ASSUME NEW rows, DOMAIN rows = Level, NEW l \in Level, NEW depth \in Nat,
         Cardinality(Ahead(rows, l)) >= depth
  PROVE  Cardinality({k \in TopLevels(rows, l.side, depth) : Before(k, l)}) >= depth
<1>1. PICK A : A = Ahead(rows, l)
  OBVIOUS
<1>2. PICK T : T = {k \in TopLevels(rows, l.side, depth) : Before(k, l)}
  OBVIOUS
<1>3. /\ A \subseteq Level
      /\ \A k \in Level : k \in A <=> rows[k] # NoLevel /\ Before(k, l)
      /\ \A k \in A : k.side = l.side
  BY <1>1 DEF Ahead, Before
<1>4. \A k : k \in T <=> k \in A /\ Cardinality(Ahead(rows, k)) < depth
  BY <1>2, <1>3 DEF TopLevels, Before
<1>5. IsFiniteSet(A) /\ T \subseteq A
  BY <1>3, <1>4, LevelsFinite, FS_Subset
<1>6. /\ IsFiniteSet(T) /\ Cardinality(A) \in Nat /\ Cardinality(T) \in Nat
  BY <1>5, FS_Subset, FS_CardinalityType
<1> SUFFICES ASSUME Cardinality(T) < depth PROVE FALSE
  BY <1>2, <1>6
<1>7. A \ T # {}
  <2> SUFFICES ASSUME A \ T = {} PROVE FALSE
    OBVIOUS
  <2>1. A = T
    BY <1>5
  <2> QED
    BY <1>1, <1>6, <2>1
<1>8. PICK side : side = l.side
  OBVIOUS
<1>9. PICK R : R = A \ T
  OBVIOUS
<1>10. R \subseteq Level /\ R # {} /\ \A k \in R : k.side = side
  BY <1>3, <1>7, <1>8, <1>9
<1>11. PICK x \in R : \A k \in R : ~Before(k, x)
  BY <1>10, FirstLevel
<1>12. x \in Level /\ x \in A /\ x \notin T
  BY <1>9, <1>10, <1>11
<1>13. ASSUME NEW k \in Ahead(rows, x) PROVE k \in T
  <2>1. k \in Level /\ rows[k] # NoLevel /\ Before(k, x)
    BY <1>13 DEF Ahead, Before
  <2>2. Before(x, l)
    BY <1>3, <1>12
  <2>3. k.price \in Nat /\ x.price \in Nat /\ l.price \in Nat
    BY <1>12, <2>1, LevelFacts
  <2>4. Before(k, l)
    BY <2>1, <2>2, <2>3 DEF Before
  <2>5. k \in A
    BY <1>3, <2>1, <2>4
  <2> QED
    BY <1>9, <1>11, <2>1, <2>5
<1>14. Cardinality(Ahead(rows, x)) <= Cardinality(T)
  <2>1. PICK B : B = Ahead(rows, x)
    OBVIOUS
  <2>2. B \subseteq T
    BY <1>13, <2>1
  <2>3. Cardinality(B) <= Cardinality(T)
    BY <1>6, <2>2, FS_Subset
  <2> QED
    BY <2>1, <2>3
<1>15. Cardinality(Ahead(rows, x)) \in Nat
  <2>1. PICK B : B = Ahead(rows, x)
    OBVIOUS
  <2>2. B \subseteq Level
    BY <2>1 DEF Ahead
  <2>3. IsFiniteSet(B)
    BY <2>2, LevelsFinite, FS_Subset
  <2> QED
    BY <2>1, <2>3, FS_CardinalityType
<1>16. Cardinality(Ahead(rows, x)) < depth
  BY <1>6, <1>14, <1>15
<1> QED
  BY <1>4, <1>12, <1>16

(***************************************************************************)
(* A level of the snapshot is what it was in the engine's book after some   *)
(* delta b, or it was cut off.  A side is read as of one such b, not before *)
(* the snapshot's sequence was read.                                        *)
(***************************************************************************)
Shown(l, b) == snapshot[l] = EngineQuantity(l, b) \/ (snapshot[l] = 0 /\ CutOff(l))

SideShown(side, last) ==
  \E b \in snapSeq .. last : \A l \in Level : l.side = side => Shown(l, b)

SnapshotOK ==
  /\ fetch \in {"idle", "bids", "asks", "done"} /\ snapSeq \in Nat /\ readTo \in Nat
  /\ snapshot \in [Level -> Nat]
  /\ fetch # "idle" => snapSeq <= bookSeq
  /\ fetch \in {"idle", "bids"} => \A l \in Level : snapshot[l] = 0
  /\ fetch = "asks" => /\ SideShown("BID", bookSeq)
                       /\ \A l \in Level : l.side = "ASK" => snapshot[l] = 0
  /\ fetch = "done" => SideShown("BID", readTo) /\ SideShown("ASK", readTo)

\* What the engine's book was does not change.
LEMMA EngineStays ==
  ASSUME topic' = topic
  PROVE  \A l, b : EngineQuantity(l, b)' = EngineQuantity(l, b)
  BY DEF DeltaOffsets, DeltaAt, UpTo, EngineQuantity

\* Reading one side leaves the other alone.
LEMMA ShownStays ==
  ASSUME topic' = topic, NEW l \in Level, NEW b,
         \A k \in Level : k.side = l.side => snapshot'[k] = snapshot[k], Shown(l, b)
  PROVE  Shown(l, b)'
<1>1. EngineQuantity(l, b)' = EngineQuantity(l, b)
  BY EngineStays
<1>2. PICK G : G = {k \in Level : /\ k.side = l.side /\ snapshot[k] > 0
                                  /\ IF l.side = "BID" THEN k.price > l.price
                                     ELSE k.price < l.price}
  OBVIOUS
<1>3. G = {k \in Level : /\ k.side = l.side /\ snapshot'[k] > 0
                         /\ IF l.side = "BID" THEN k.price > l.price
                            ELSE k.price < l.price}
  BY <1>2
<1>4. CutOff(l) <=> Cardinality(G) >= Depth
  BY <1>2 DEF CutOff
<1>5. CutOff(l)' <=> Cardinality(G) >= Depth
  BY <1>3 DEF CutOff
<1> QED
  BY <1>1, <1>4, <1>5 DEF Shown

\* get_levels of one side.
LEMMA SideIsShown ==
  ASSUME TopicOK, BookOK, SnapshotOK, topic' = topic, NEW side,
         \A l \in Level : l.side = side => snapshot[l] = 0,
         snapshot' = SideRead(side), NEW b, b = bookSeq
  PROVE  /\ snapshot' \in [Level -> Nat]
         /\ \A l \in Level : l.side = side => Shown(l, b)'
         /\ \A l \in Level : l.side # side => snapshot'[l] = snapshot[l]
<1>1. PICK T : T = TopLevels(book, side, Depth)
  OBVIOUS
<1>2. book \in [Level -> [quantity: Nat, seq: Nat]] /\ snapshot \in [Level -> Nat]
  BY DEF BookOK, SnapshotOK
<1>3. /\ snapshot' = [l \in Level |-> IF l \in T THEN book[l].quantity ELSE snapshot[l]]
  BY <1>1 DEF SideRead
<1>4. \A k : k \in T <=> /\ k \in Level /\ k.side = side /\ book[k] # NoLevel
                         /\ Cardinality(Ahead(book, k)) < Depth
  BY <1>1, <1>2 DEF TopLevels
<1>5. snapshot' \in [Level -> Nat]
  BY <1>2, <1>3
<1>6. \A l \in Level : l.side # side => snapshot'[l] = snapshot[l]
  BY <1>3, <1>4
<1>7. ASSUME NEW l \in Level, l.side = side PROVE Shown(l, b)'
  <2>1. book[l].quantity = EngineQuantity(l, b)' /\ (book[l].quantity = 0 => book[l] = NoLevel)
    BY EngineStays DEF BookOK
  <2>2. CASE l \in T
    BY <1>3, <2>1, <2>2 DEF Shown
  <2>3. CASE l \notin T /\ book[l] = NoLevel
    BY <1>3, <1>7, <2>1, <2>3 DEF Shown, NoLevel
  <2>4. CASE l \notin T /\ book[l] # NoLevel
    <3>1. Depth \in Nat
      BY BookAssumption
    <3>2. Cardinality(Ahead(book, l)) \in Nat
      <4>1. PICK B : B = Ahead(book, l)
        OBVIOUS
      <4>2. B \subseteq Level
        BY <1>2, <4>1 DEF Ahead
      <4>3. IsFiniteSet(B)
        BY <4>2, LevelsFinite, FS_Subset
      <4> QED
        BY <4>1, <4>3, FS_CardinalityType
    <3>3. Cardinality(Ahead(book, l)) >= Depth
      BY <1>4, <1>7, <2>4, <3>1, <3>2
    <3>4. PICK F : F = {k \in TopLevels(book, l.side, Depth) : Before(k, l)}
      OBVIOUS
    <3>5. Cardinality(F) >= Depth
      <4>1. PICK rows : rows = book
        OBVIOUS
      <4>2. DOMAIN rows = Level
        BY <1>2, <4>1
      <4> QED
        BY <3>1, <3>3, <3>4, <4>1, <4>2, FirstRows
    <3>6. PICK G : G = {k \in Level : /\ k.side = l.side /\ snapshot'[k] > 0
                                      /\ IF l.side = "BID" THEN k.price > l.price
                                         ELSE k.price < l.price}
      OBVIOUS
    <3>7. F \subseteq G
      <4> SUFFICES ASSUME NEW k \in F PROVE k \in G
        OBVIOUS
      <4>1. k \in T /\ Before(k, l)
        BY <1>1, <1>7, <3>4
      <4>2. k \in Level /\ k.side = side /\ book[k] # NoLevel /\ book[k].quantity \in Nat
        BY <1>2, <1>4, <4>1
      <4>3. book[k].quantity # 0
        BY <4>2 DEF BookOK
      <4>4. snapshot'[k] > 0
        BY <1>3, <4>1, <4>2, <4>3
      <4> QED
        BY <3>6, <4>1, <4>2, <4>4 DEF Before
    <3>8. IsFiniteSet(G) /\ G \subseteq Level
      BY <3>6, LevelsFinite, FS_Subset
    <3>9. Cardinality(F) <= Cardinality(G) /\ Cardinality(G) \in Nat /\ Cardinality(F) \in Nat
      BY <3>7, <3>8, FS_Subset, FS_CardinalityType
    <3>10. Cardinality(G) >= Depth
      BY <3>1, <3>5, <3>9
    <3>11. CutOff(l)'
      BY <3>6, <3>10 DEF CutOff
    <3>12. snapshot'[l] = 0
      BY <1>3, <1>7, <2>4
    <3> QED
      BY <3>11, <3>12 DEF Shown
  <2> QED
    BY <2>2, <2>3, <2>4
<1> QED
  BY <1>5, <1>6, <1>7

\* The client has not asked yet.
LEMMA SnapshotInit == FeedInit => SnapshotOK
  BY DEF FeedInit, SnapshotOK, EmptyView

\* A step that leaves the client alone: the book only goes on.
LEMMA ClientAlone ==
  ASSUME BookOK, SnapshotOK, topic' = topic, UNCHANGED client, bookSeq' \in Nat, bookSeq <= bookSeq'
  PROVE  SnapshotOK'
<1>1. fetch' = fetch /\ snapSeq' = snapSeq /\ snapshot' = snapshot /\ readTo' = readTo
  BY DEF client
<1>2. bookSeq \in Nat /\ snapSeq \in Nat
  BY DEF BookOK, SnapshotOK
<1>3. ASSUME NEW side, NEW last, NEW further, SideShown(side, last),
             last \in Nat, further \in Nat, last <= further
      PROVE  SideShown(side, further)'
  <2>1. PICK b \in snapSeq .. last : \A l \in Level : l.side = side => Shown(l, b)
    BY <1>3 DEF SideShown
  <2>2. ASSUME NEW l \in Level, l.side = side PROVE Shown(l, b)'
    BY <1>1, <2>1, <2>2, ShownStays
  <2>3. b \in snapSeq' .. further
    BY <1>1, <1>2, <1>3, <2>1
  <2> QED
    BY <2>2, <2>3 DEF SideShown
<1>4. ASSUME fetch = "asks" PROVE SideShown("BID", bookSeq)'
  <2>1. PICK c, d : c = bookSeq' /\ d = bookSeq
    OBVIOUS
  <2>2. SideShown("BID", d)
    BY <1>4, <2>1 DEF SnapshotOK
  <2>3. SideShown("BID", c)'
    BY <1>2, <1>3, <2>1, <2>2
  <2> QED
    BY <2>1, <2>3 DEF SideShown
<1>5. ASSUME fetch = "done", NEW side \in {"BID", "ASK"} PROVE SideShown(side, readTo)'
  <2>1. PICK c : c = readTo
    OBVIOUS
  <2>2. SideShown(side, c) /\ c \in Nat
    BY <1>5, <2>1 DEF SnapshotOK
  <2>3. SideShown(side, c)'
    BY <1>3, <2>2
  <2> QED
    BY <1>1, <2>1, <2>3 DEF SideShown
<1> QED
  BY <1>1, <1>2, <1>4, <1>5 DEF SnapshotOK

\* The bids are read as of the sequence of the book, which is not below that of
\* the snapshot.
LEMMA ReadBidsKeeps ==
  ASSUME TopicOK, BookOK, SnapshotOK, ReadBids
  PROVE  SnapshotOK'
<1>1. /\ fetch = "bids" /\ fetch' = "asks" /\ snapshot' = SideRead("BID")
      /\ topic' = topic /\ bookSeq' = bookSeq /\ snapSeq' = snapSeq /\ readTo' = readTo
  BY DEF ReadBids, vars, consumers, bookTables
<1>2. PICK b, side : b = bookSeq /\ side = "BID"
  OBVIOUS
<1>3. \A l \in Level : snapshot[l] = 0
  BY <1>1 DEF SnapshotOK
<1>4. /\ snapshot' \in [Level -> Nat]
      /\ \A l \in Level : l.side = side => Shown(l, b)'
      /\ \A l \in Level : l.side # side => snapshot'[l] = snapshot[l]
  BY <1>1, <1>2, <1>3, SideIsShown
<1>5. b \in snapSeq' .. bookSeq' /\ snapSeq <= bookSeq
  BY <1>1, <1>2 DEF SnapshotOK, BookOK
<1>6. SideShown("BID", bookSeq)'
  BY <1>2, <1>4, <1>5 DEF SideShown
<1>7. \A l \in Level : l.side = "ASK" => snapshot'[l] = 0
  BY <1>2, <1>3, <1>4
<1> QED
  BY <1>1, <1>4, <1>5, <1>6, <1>7 DEF SnapshotOK

\* The asks are read as of the sequence that readTo records.
LEMMA ReadAsksKeeps ==
  ASSUME TopicOK, BookOK, SnapshotOK, ReadAsks
  PROVE  SnapshotOK'
<1>1. /\ fetch = "asks" /\ fetch' = "done" /\ snapshot' = SideRead("ASK")
      /\ topic' = topic /\ bookSeq' = bookSeq /\ snapSeq' = snapSeq /\ readTo' = bookSeq
  BY DEF ReadAsks, vars, consumers, bookTables
<1>2. PICK b, side : b = bookSeq /\ side = "ASK"
  OBVIOUS
<1>3. \A l \in Level : l.side = side => snapshot[l] = 0
  BY <1>1, <1>2 DEF SnapshotOK
<1>4. /\ snapshot' \in [Level -> Nat]
      /\ \A l \in Level : l.side = side => Shown(l, b)'
      /\ \A l \in Level : l.side # side => snapshot'[l] = snapshot[l]
  BY <1>1, <1>2, <1>3, SideIsShown
<1>5. b \in snapSeq' .. readTo' /\ snapSeq <= bookSeq /\ bookSeq \in Nat
  BY <1>1, <1>2 DEF SnapshotOK, BookOK
<1>6. SideShown("ASK", readTo)'
  BY <1>2, <1>4, <1>5 DEF SideShown
<1>7. SideShown("BID", readTo)'
  <2>1. PICK c \in snapSeq .. bookSeq : \A l \in Level : l.side = "BID" => Shown(l, c)
    BY <1>1 DEF SnapshotOK, SideShown
  <2>2. ASSUME NEW l \in Level, l.side = "BID" PROVE Shown(l, c)'
    <3>1. \A k \in Level : k.side = l.side => snapshot'[k] = snapshot[k]
      BY <1>2, <1>4, <2>2
    <3> QED
      BY <1>1, <2>1, <2>2, <3>1, ShownStays
  <2>3. c \in snapSeq' .. readTo'
    BY <1>1, <2>1
  <2> QED
    BY <2>2, <2>3 DEF SideShown
<1> QED
  BY <1>1, <1>4, <1>5, <1>6, <1>7 DEF SnapshotOK

\* A step of gateway, projector or client.
LEMMA FeedStepInv ==
  ASSUME TopicOK, BookOK, SnapshotOK, [FeedNext]_feedVars
  PROVE  BookOK' /\ SnapshotOK'
<1>1. topic' = topic
  BY TopicStays DEF FeedNext, feedVars, ProjectDelta, ReadState, ReadBids, ReadAsks, FetchFails
<1>2. ASSUME UNCHANGED bookTables PROVE BookOK' /\ bookSeq' = bookSeq
  <2>1. projected' = projected /\ bookSeq' = bookSeq /\ book' = book
    BY <1>2 DEF bookTables
  <2>2. \A l \in Level : EngineQuantity(l, bookSeq)' = EngineQuantity(l, bookSeq)
    BY <1>1, <2>1 DEF DeltaOffsets, DeltaAt, UpTo, EngineQuantity
  <2>3. DeltaOffsets' = DeltaOffsets /\ \A k : DeltaAt(k)' = DeltaAt(k)
    BY <1>1 DEF DeltaOffsets, DeltaAt
  <2> QED
    BY <2>1, <2>2, <2>3 DEF BookOK
<1>3. CASE UNCHANGED <<bookTables, client>>
  BY <1>1, <1>2, <1>3, ClientAlone DEF BookOK
<1>4. CASE ProjectDelta
  <2>1. BookOK' /\ bookSeq <= bookSeq'
    BY <1>4, ProjectKeepsBook
  <2>2. bookSeq' \in Nat /\ UNCHANGED client
    BY <1>4, <2>1 DEF BookOK, ProjectDelta
  <2> QED
    BY <1>1, <2>1, <2>2, ClientAlone
<1>5. CASE ReadState
  <2>1. /\ UNCHANGED bookTables /\ fetch = "idle" /\ fetch' = "bids" /\ snapSeq' = bookSeq
        /\ snapshot' = snapshot /\ readTo' = readTo
    BY <1>5 DEF ReadState
  <2> QED
    BY <1>2, <2>1 DEF SnapshotOK, BookOK
<1>6. CASE ReadBids
  BY <1>2, <1>6, ReadBidsKeeps DEF ReadBids
<1>7. CASE ReadAsks
  BY <1>2, <1>7, ReadAsksKeeps DEF ReadAsks
<1>8. CASE FetchFails
  <2>1. /\ UNCHANGED bookTables /\ fetch' = "idle" /\ snapSeq' = 0
        /\ snapshot' = EmptyView /\ readTo' = readTo
    BY <1>8 DEF FetchFails
  <2> QED
    BY <1>2, <2>1 DEF SnapshotOK, EmptyView
<1>9. CASE UNCHANGED feedVars
  BY <1>3, <1>9 DEF feedVars
<1> QED
  BY <1>3, <1>4, <1>5, <1>6, <1>7, <1>8, <1>9 DEF FeedNext

-----------------------------------------------------------------------------
(***************************************************************************)
(* What the client has got.                                                 *)
(***************************************************************************)
LEMMA GotIsWritten == GotOffsets = Written(Watcher, "MarketEvent", BookPartition)
  BY DEF GotOffsets, Written, OffsetsIn, IsPush

\* It has got finitely many deltas of those that were published.
LEMMA GotTyped ==
  ASSUME TopicOK, StreamsOK
  PROVE  /\ GotOffsets \subseteq Int /\ IsFiniteSet(Got)
         /\ Got \subseteq {DeltaAt(k) : k \in DeltaOffsets}
         /\ \A e \in Got : e.id \in Nat
<1>1. GotOffsets \subseteq Int
  BY GotIsWritten, OffsetsTyped, BookAssumption DEF Routes
<1>2. PICK S, T : S = GotOffsets \cap DeltaOffsets /\ T = Got
  OBVIOUS
<1>3. IsFiniteSet(S)
  BY <1>2, DeltasFinite, FS_Subset
<1>4. PICK g : g = [k \in S |-> DeltaAt(k)]
  OBVIOUS
<1>5. g \in Surjection(S, T)
  BY <1>2, <1>4 DEF Surjection, Got
<1>6. IsFiniteSet(Got)
  BY <1>2, <1>3, <1>5, FS_Surjection
<1>7. \A e \in Got : \E k \in DeltaOffsets : e = DeltaAt(k)
  BY DEF Got
<1> QED
  BY <1>1, <1>6, <1>7, DeltaTyped

\* A delta that lies between two events of the market that the client has got
\* has been got too.
LEMMA GotContiguous ==
  ASSUME TopicOK, StreamsOK, AllGapFree, ~Unsubscribed(Watcher, BookMarket),
         NEW k \in OfMarket, NEW j \in GotOffsets, NEW n \in DeltaOffsets, k <= n, n < j
  PROVE  n \in GotOffsets
<1>1. PICK s, p, route : s = Watcher /\ p = BookPartition /\ route = "MarketEvent"
  OBVIOUS
<1>2. s \in Session /\ p \in Partition /\ route \in Routes
  BY <1>1, BookAssumption DEF Routes
<1>3. Contiguous(s, route, p) /\ Ordered(s, route, p)
  BY <1>2 DEF AllGapFree, GapFree
<1>4. k \in Written(s, route, p) /\ j \in Written(s, route, p)
  BY <1>1, GotIsWritten DEF OfMarket
<1>5. k \in Int /\ j \in Int /\ n \in Int
  BY <1>2, <1>4, OffsetsTyped, DeltaTyped
<1>6. /\ topic[p][n].source = "engine" /\ topic[p][n].market = BookMarket
      /\ topic[p][k].market = BookMarket
  BY <1>1, DeltaTyped DEF OfMarket
<1>7. Wanted(s, route, p, n, k)
  BY <1>1, <1>6 DEF Wanted, Owed, SameMarket
<1>8. n \in Written(s, route, p) \cup Waiting(s, route, p)
  BY <1>3, <1>4, <1>5, <1>7 DEF Contiguous, Pushed
<1>9. n \notin Waiting(s, route, p)
  <2> SUFFICES ASSUME n \in Waiting(s, route, p) PROVE FALSE
    OBVIOUS
  <2>1. j < n
    BY <1>3, <1>4 DEF Ordered
  <2> QED
    BY <1>5, <2>1
<1> QED
  BY <1>1, <1>8, <1>9, GotIsWritten

\* The sequence of the client's book is that of the snapshot or of a delta
\* that it has got, and none is above it.
LEMMA ViewSeqFacts ==
  ASSUME TopicOK, StreamsOK, snapSeq \in Nat
  PROVE  /\ ViewSeq \in Nat /\ snapSeq <= ViewSeq
         /\ ViewSeq = snapSeq \/ \E e \in Got : ViewSeq = e.id
         /\ \A e \in Got : e.id <= ViewSeq
<1>1. PICK S : S = {snapSeq} \cup {e.id : e \in Got}
  OBVIOUS
<1>2. IsFiniteSet(S)
  <2>1. PICK G, T : G = Got /\ T = {e.id : e \in Got}
    OBVIOUS
  <2>2. PICK g : g = [e \in G |-> e.id]
    OBVIOUS
  <2>3. g \in Surjection(G, T)
    BY <2>1, <2>2 DEF Surjection
  <2>4. IsFiniteSet(T)
    BY <2>1, <2>3, GotTyped, FS_Surjection
  <2>5. IsFiniteSet(T \cup {snapSeq})
    BY <2>4, FS_AddElement
  <2>6. T \cup {snapSeq} = S
    BY <1>1, <2>1
  <2> QED
    BY <2>5, <2>6
<1>3. S \subseteq Int /\ S # {} /\ S \subseteq Nat
  BY <1>1, GotTyped
<1>4. \E m \in S : \A x \in S : x <= m
  BY <1>2, <1>3, LargestOfFinite
<1>5. ViewSeq = CHOOSE m \in S : \A x \in S : x <= m
  BY <1>1 DEF ViewSeq
<1>6. ViewSeq \in S /\ \A x \in S : x <= ViewSeq
  BY <1>4, <1>5
<1> QED
  BY <1>1, <1>3, <1>6

\* Unless one fell between the two readers, the client has got every delta
\* above the snapshot's sequence up to its own.
LEMMA NothingMissing ==
  ASSUME TopicOK, StreamsOK, AllGapFree, snapSeq \in Nat,
         ~Unsubscribed(Watcher, BookMarket), ~FellBetween
  PROVE  {e \in Got : e.id > snapSeq} = {e \in UpTo(ViewSeq) : e.id > snapSeq}
<1>1. /\ ViewSeq \in Nat /\ snapSeq <= ViewSeq
      /\ ViewSeq = snapSeq \/ \E e \in Got : ViewSeq = e.id
      /\ \A e \in Got : e.id <= ViewSeq
  BY ViewSeqFacts
<1>2. Got \subseteq {DeltaAt(k) : k \in DeltaOffsets}
  BY GotTyped
<1>3. Got \subseteq UpTo(ViewSeq)
  BY <1>1, <1>2 DEF UpTo
<1>4. ASSUME NEW d \in UpTo(ViewSeq), d.id > snapSeq, d \notin Got PROVE FALSE
  <2>1. PICK k \in DeltaOffsets : d = DeltaAt(k)
    BY DEF UpTo
  <2>2. d.id \in Nat /\ d.id <= ViewSeq
    BY <2>1, DeltaTyped DEF UpTo
  <2>3. PICK e \in Got : ViewSeq = e.id
    BY <1>1, <1>4, <2>2
  <2>4. PICK j \in GotOffsets \cap DeltaOffsets : e = DeltaAt(j)
    BY <2>3 DEF Got
  <2>5. k \in Nat /\ j \in Nat
    BY <2>1, <2>4, DeltaTyped
  <2>6. d.id < e.id /\ k # j
    <3>1. d # e
      BY <1>4, <2>3
    <3>2. d.id # e.id
      BY <2>1, <2>4, <3>1, SequenceFacts
    <3> QED
      BY <1>1, <2>1, <2>2, <2>3, <2>4, <3>1, <3>2
  <2>7. PICK n \in DeltaOffsets : n < j /\ DeltaAt(n) = d
    <3>1. CASE k < j
      BY <2>1, <3>1
    <3>2. CASE j < k
      BY <2>1, <2>4, <2>6, <3>2, SequenceFacts
    <3> QED
      BY <2>5, <2>6, <3>1, <3>2
  <2>8. j \in OfMarket
    BY <2>4, DeltaTyped DEF OfMarket
  <2>9. PICK i \in OfMarket : ~(n < i)
    BY <1>4, <2>7, <2>8 DEF FellBetween
  <2>10. i \in Int /\ n \in Nat
    BY <2>7, <2>9, GotTyped, DeltaTyped DEF OfMarket
  <2>11. n \in GotOffsets
    BY <2>4, <2>7, <2>9, <2>10, GotContiguous
  <2> QED
    BY <1>4, <2>7, <2>11 DEF Got
<1> QED
  BY <1>3, <1>4

\* A latest one of some deltas that name a level.
LEMMA LatestNamed ==
  ASSUME TopicOK, NEW D, D \subseteq {DeltaAt(k) : k \in DeltaOffsets}, IsFiniteSet(D), NEW l,
         Naming(D, l) # {}
  PROVE  \E d \in Naming(D, l) : \A e \in Naming(D, l) :
           e.id \in Int /\ e.id <= d.id /\ (e.id = d.id => e = d)
<1>1. PICK N : N = Naming(D, l)
  OBVIOUS
<1>2. N \subseteq D
  BY <1>1 DEF Naming
<1>3. IsFiniteSet(N)
  BY <1>2, FS_Subset
<1>4. \A e \in N : \E k \in DeltaOffsets : e = DeltaAt(k)
  BY <1>2
<1>5. \A e \in N : e.id \in Int
  BY <1>4, DeltaTyped
<1>6. PICK S : S = {e.id : e \in N}
  OBVIOUS
<1>7. PICK g : g = [e \in N |-> e.id]
  OBVIOUS
<1>8. g \in Surjection(N, S)
  BY <1>6, <1>7 DEF Surjection
<1>9. IsFiniteSet(S)
  BY <1>3, <1>8, FS_Surjection
<1>10. S \subseteq Int /\ S # {}
  BY <1>1, <1>5, <1>6
<1>11. PICK m \in S : \A x \in S : x <= m
  BY <1>9, <1>10, LargestOfFinite
<1>12. PICK d \in N : m = d.id
  BY <1>6, <1>11
<1>13. \A e \in N : e.id <= d.id
  BY <1>6, <1>11, <1>12
<1>14. \A e \in N : e.id = d.id => e = d
  BY <1>4, SequenceFacts
<1> QED
  BY <1>1, <1>5, <1>12, <1>13, <1>14

\* The client's book is the engine's.
LEMMA FeedImplies ==
  ASSUME TopicOK, StreamsOK, AllGapFree, BookOK, SnapshotOK
  PROVE  StitchedBook
<1> SUFFICES ASSUME fetch = "done", ViewSeq >= readTo, ~Unsubscribed(Watcher, BookMarket),
                    ~FellBetween, NEW l \in Level
             PROVE  View(l) = EngineQuantity(l, ViewSeq) \/ (View(l) = 0 /\ CutOff(l))
  BY DEF StitchedBook
<1>1. snapSeq \in Nat /\ readTo \in Nat /\ snapshot \in [Level -> Nat]
  BY DEF SnapshotOK
<1>2. PICK v : v = ViewSeq
  OBVIOUS
<1>3. v \in Nat /\ snapSeq <= v /\ readTo <= v
  BY <1>1, <1>2, ViewSeqFacts
<1>4. PICK M : M = {e \in UpTo(v) : e.id > snapSeq}
  OBVIOUS
<1>5. View(l) = LastQuantity(M, l, snapshot[l])
  BY <1>1, <1>2, <1>4, NothingMissing DEF View
<1>6. PICK b \in snapSeq .. readTo : Shown(l, b)
  <2>1. l.side \in {"BID", "ASK"}
    BY LevelFacts
  <2> QED
    BY <2>1 DEF SnapshotOK, SideShown
<1>7. b \in Nat /\ snapSeq <= b /\ b <= v
  BY <1>1, <1>3, <1>6
<1>8. \A e \in UpTo(v) : e.id \in Nat
  BY UpToTyped
<1>9. CASE Naming(M, l) = {}
  <2>1. ASSUME NEW e \in UpTo(v), e \notin UpTo(b) PROVE e \notin Naming(UpTo(v), l)
    <3>1. e.id > b /\ e.id \in Nat
      BY <1>7, <1>8, <2>1 DEF UpTo
    <3>2. e \in M
      BY <1>1, <1>4, <1>7, <3>1
    <3> QED
      BY <1>9, <3>2 DEF Naming
  <2>2. UpTo(b) \subseteq UpTo(v)
    <3> SUFFICES ASSUME NEW e \in UpTo(b) PROVE e \in UpTo(v)
      OBVIOUS
    <3>1. e.id \in Nat /\ e.id <= b
      BY UpToTyped DEF UpTo
    <3> QED
      BY <1>3, <1>7, <3>1 DEF UpTo
  <2>3. Naming(UpTo(v), l) = Naming(UpTo(b), l)
    BY <2>1, <2>2 DEF Naming
  <2>4. EngineQuantity(l, v) = EngineQuantity(l, b)
    BY <2>3 DEF EngineQuantity, LastQuantity
  <2>5. View(l) = snapshot[l]
    BY <1>5, <1>9 DEF LastQuantity
  <2> QED
    BY <1>2, <1>6, <2>4, <2>5 DEF Shown
<1>10. CASE Naming(M, l) # {}
  <2>1. M \subseteq UpTo(v) /\ IsFiniteSet(M)
    BY <1>4, UpToTyped, FS_Subset
  <2>2. M \subseteq {DeltaAt(k) : k \in DeltaOffsets}
    BY <2>1 DEF UpTo
  <2>3. PICK d \in Naming(M, l) : \A e \in Naming(M, l) :
          e.id \in Int /\ e.id <= d.id /\ (e.id = d.id => e = d)
    BY <1>10, <2>1, <2>2, LatestNamed
  <2>4. LastQuantity(M, l, snapshot[l]) = Quantity(d, l)
    <3>1. PICK z : z = snapshot[l]
      OBVIOUS
    <3>2. \A e \in Naming(M, l) : e.id \in Int /\ e.id <= d.id
      BY <2>3
    <3>3. \A e \in Naming(M, l) : e.id = d.id => e = d
      BY <2>3
    <3>4. LastQuantity(M, l, z) = Quantity(d, l)
      BY <3>2, <3>3, LastNamed
    <3> QED
      BY <3>1, <3>4
  <2>5. d \in M /\ d.id \in Nat /\ d.id > snapSeq
    BY <1>4, <1>8, <2>1 DEF Naming
  <2>6. PICK D : D = UpTo(v)
    OBVIOUS
  <2>7. d \in Naming(D, l)
    BY <2>1, <2>3, <2>6 DEF Naming
  <2>8. ASSUME NEW e \in Naming(D, l)
        PROVE  e.id \in Int /\ e.id <= d.id /\ (e.id = d.id => e = d)
    <3>1. e \in UpTo(v) /\ e.id \in Nat
      BY <1>8, <2>6 DEF Naming
    <3>2. CASE e.id > snapSeq
      <4>1. e \in Naming(M, l)
        BY <1>4, <3>1, <3>2 DEF Naming
      <4> QED
        BY <2>3, <4>1
    <3>3. CASE ~(e.id > snapSeq)
      BY <1>1, <2>5, <3>1, <3>3
    <3> QED
      BY <3>2, <3>3
  <2>9. LastQuantity(D, l, 0) = Quantity(d, l)
    <3>1. PICK z : z = 0
      OBVIOUS
    <3>2. \A e \in Naming(D, l) : e.id \in Int /\ e.id <= d.id
      BY <2>8
    <3>3. \A e \in Naming(D, l) : e.id = d.id => e = d
      BY <2>8
    <3>4. LastQuantity(D, l, z) = Quantity(d, l)
      BY <2>7, <3>2, <3>3, LastNamed
    <3> QED
      BY <3>1, <3>4
  <2> QED
    BY <1>2, <1>5, <2>4, <2>6, <2>9 DEF EngineQuantity
<1> QED
  BY <1>9, <1>10

(***************************************************************************)
(* A client that does what docs/websocket.md says has the engine's order    *)
(* book, levels cut off by the depth apart, from the sequence on at which   *)
(* get_orderbook_snapshot read the last level, unless a delta fell between  *)
(* gateway and projector: for any number of sessions, markets and prices,   *)
(* any depth and mailbox capacity, and any history in which the engine      *)
(* numbers its deltas in order (FeedInSequence), copies included.           *)
(***************************************************************************)
THEOREM FeedStitchedBook == FeedSpec => []StitchedBook
<1>1. FeedSpec => [](ConfirmInv /\ AllGapFree)
  BY FeedIsGateway, GapAlways, PTL
<1>2. FeedInit => FromHistory
  BY DEF FeedInit, Init, FromHistory
<1>3. FromHistory /\ [FeedNext]_feedVars => FromHistory'
  <2> SUFFICES ASSUME FromHistory, [FeedNext]_feedVars PROVE FromHistory'
    OBVIOUS
  <2>1. topic' = topic
    BY TopicStays
       DEF FeedNext, feedVars, ProjectDelta, ReadState, ReadBids, ReadAsks, FetchFails
  <2> QED
    BY <2>1 DEF FromHistory
<1>4. FeedSpec => []FromHistory
  BY <1>2, <1>3, PTL DEF FeedSpec
<1>5. FromHistory /\ ConfirmInv => TopicOK
  BY DEF TopicOK, ConfirmInv
<1>6. TopicOK /\ FeedInit => BookOK /\ SnapshotOK
  BY BookInit, SnapshotInit
<1>7. TopicOK /\ BookOK /\ SnapshotOK /\ [FeedNext]_feedVars => BookOK' /\ SnapshotOK'
  BY FeedStepInv
<1>8. TopicOK /\ ConfirmInv /\ AllGapFree /\ BookOK /\ SnapshotOK => StitchedBook
  BY FeedImplies DEF ConfirmInv
<1> QED
  BY <1>1, <1>4, <1>5, <1>6, <1>7, <1>8, PTL DEF FeedSpec
=============================================================================
