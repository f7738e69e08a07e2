----------------------------- MODULE AtLeastOnce -----------------------------
(***************************************************************************)
(* What the wallet's outbox promises at the publish boundary: a message is  *)
(* on its topic before it counts as published, it may be there more than    *)
(* once, and it is never sent again after it counts as published.           *)
(***************************************************************************)
EXTENDS Sequences

CONSTANTS Message, Partition

VARIABLES sent, acked, topic

vars == <<sent, acked, topic>>

OnTopic(m) == \E p \in Partition : \E n \in DOMAIN topic[p] : topic[p][n] = m

Init == sent = {} /\ acked = {} /\ topic = [p \in Partition |-> <<>>]

Send(m) ==
  /\ m \notin sent
  /\ sent' = sent \cup {m}
  /\ UNCHANGED <<acked, topic>>

Transfer(m) ==
  /\ m \in sent \ acked
  /\ \E p \in Partition : topic' = [topic EXCEPT ![p] = Append(@, m)]
  /\ UNCHANGED <<sent, acked>>

Ack(m) ==
  /\ m \in sent \ acked
  /\ OnTopic(m)
  /\ acked' = acked \cup {m}
  /\ UNCHANGED <<sent, topic>>

Next == \E m \in Message : Send(m) \/ Transfer(m) \/ Ack(m)

Delivery == Init /\ [][Next]_vars
=============================================================================
