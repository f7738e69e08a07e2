----------------------------- MODULE WsProperties -----------------------------
(***************************************************************************)
(* What the WebSocket gateway promises to the clients that are connected.   *)
(***************************************************************************)
EXTENDS WsGateway, FiniteSets

(***************************************************************************)
(* The three maps of the hub agree on the sessions that the hub knows: a    *)
(* user's entry holds exactly the user's sessions, and a session is in a    *)
(* market's entry exactly when the market is in the session's own list, by  *)
(* which remove_session_locked finds it.  Only actors that run, or whose    *)
(* unregister is on its way, are known to the hub.                          *)
(***************************************************************************)
HubIndexesAgree ==
  /\ \A u \in User : users[u] = {s \in sessions : UserOf[s] = u}
  /\ \A s \in sessions :
       /\ actor[s] \in {"ready", "stopped"}
       /\ \A m \in Market : s \in markets[m] <=> m \in subs[s]

(***************************************************************************)
(* A session that is taken out of the hub, by unregister, by a push it does *)
(* not accept or by a restart, is out of every entry of the other two maps  *)
(* with that step.  A session that the hub does not know and that has no    *)
(* entry gets one in two ways only: by registering, and, while its actor    *)
(* runs, by a Subscribe of its own that subscribe_markets carries out after *)
(* the session was taken out.  Nothing removes the entry of the second way. *)
(***************************************************************************)
HasEntry(s) ==
  \/ \E u \in User : s \in users[u]
  \/ \E m \in Market : s \in markets[m]

LateSubscribe(s) ==
  actor[s] = "ready" /\ spawned[s] # <<>> /\ Head(spawned[s]).op = "Subscribe"

Forgets(s) ==
  /\ s \in sessions /\ s \notin sessions' => ~HasEntry(s)'
  /\ s \notin sessions /\ ~HasEntry(s) =>
       ~HasEntry(s)' \/ s \in sessions' \/ LateSubscribe(s)

HubForgets == [][\A s \in Session : Forgets(s)]_vars

(***************************************************************************)
(* What a session has written and what it is about to write.                *)
(***************************************************************************)
Stream(s) == received[s] \o mailbox[s]
RecordOf(push) == topic[push.partition][push.offset]
Concerns(record, user) ==
  \/ record.source = "engine" /\ user \in record.users
  \/ record.source = "wallet" /\ user = record.user

(***************************************************************************)
(* "Private account updates are sent to the authenticated user" only, and   *)
(* after Welcome; "market updates are sent only after subscribing", and not *)
(* before the client has been told Subscribed: no push overtakes the        *)
(* confirmation of the call that made it possible.                          *)
(***************************************************************************)
EventsFollowConfirmation ==
  \A s \in Session : \A i \in DOMAIN Stream(s) :
    LET message == Stream(s)[i]
    IN /\ message.type = "AccountEvent" =>
            /\ Concerns(RecordOf(message), UserOf[s])
            /\ \E j \in 1 .. i - 1 : Stream(s)[j].type = "Welcome"
       /\ message.type = "MarketEvent" =>
            \E j \in 1 .. i - 1 :
              /\ Stream(s)[j].type = "Subscribed"
              /\ RecordOf(message).market \in Stream(s)[j].markets

(***************************************************************************)
(* A session that the hub could not push to gets nothing more: what it      *)
(* streams of a partition is in order, without repetition and without a     *)
(* gap.  Copies of a wallet event may be left out, and so may the events of *)
(* markets that the client has unsubscribed from.                           *)
(* This holds whether or not the hub still knows the session.               *)
(***************************************************************************)
Offsets(s, route, p) ==
  {Stream(s)[i].offset : i \in {j \in DOMAIN Stream(s) :
     Stream(s)[j].type = route /\ Stream(s)[j].partition = p}}

IsCopy(p, n) ==
  /\ topic[p][n].source = "wallet"
  /\ topic[p][n].id # NoId
  /\ \E q \in Partition : \E k \in DOMAIN topic[q] :
       /\ topic[q][k].source = "wallet" /\ topic[q][k].id = topic[p][n].id
       /\ q = p => k < n

Unsubscribed(s, m) ==
  \E i \in DOMAIN received[s] :
    received[s][i].type = "Unsubscribed" /\ m \in received[s][i].markets

Owed(s, route, p, n) ==
  IF route = "AccountEvent"
    THEN Concerns(topic[p][n], UserOf[s]) /\ ~IsCopy(p, n)
    ELSE topic[p][n].source = "engine" /\ ~Unsubscribed(s, topic[p][n].market)

InOrder(s, route, p) ==
  \A i, j \in DOMAIN Stream(s) :
    /\ Stream(s)[i].type = route /\ Stream(s)[i].partition = p
    /\ Stream(s)[j].type = route /\ Stream(s)[j].partition = p
    /\ i < j
    => Stream(s)[i].offset < Stream(s)[j].offset

SameMarket(p, n, k) == topic[p][n].source = "engine" => topic[p][n].market = topic[p][k].market

NoGaps ==
  \A s \in Session, p \in Partition, route \in {"AccountEvent", "MarketEvent"} :
    /\ InOrder(s, route, p)
    /\ \A first, last \in Offsets(s, route, p) : \A n \in first .. last :
         Owed(s, route, p, n) /\ (route = "MarketEvent" => SameMarket(p, n, first))
         => n \in Offsets(s, route, p)

(***************************************************************************)
(* The dedupe cache keeps a wallet event with an id from being pushed to a  *)
(* session twice, as long as fewer other ids than its capacity can have     *)
(* been routed between the two copies.                                      *)
(***************************************************************************)
\* A topic has finitely many partitions.
ASSUME PartitionsFinite == IsFiniteSet(Partition)

Positions == UNION { {p} \X DOMAIN topic[p] : p \in Partition }

IdsBetween(p, n, k) ==
  {topic[x[1]][x[2]].id : x \in {y \in Positions :
     /\ topic[y[1]][y[2]].source = "wallet"
     /\ y[1] = p => n < y[2] /\ y[2] < k}} \ {NoId}

WalletEventsOnce ==
  \A s \in Session, p \in Partition : \A n, k \in Offsets(s, "AccountEvent", p) :
    /\ n < k /\ topic[p][n].source = "wallet" /\ topic[p][k].source = "wallet"
    /\ topic[p][n].id = topic[p][k].id /\ topic[p][n].id # NoId
    => Cardinality(IdsBetween(p, n, k) \ {topic[p][n].id}) >= DedupeCapacity
=============================================================================
