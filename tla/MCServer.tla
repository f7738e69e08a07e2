------------------------------- MODULE MCServer -------------------------------
(***************************************************************************)
(* Small instances of the API server for TLC.                               *)
(***************************************************************************)
EXTENDS ServerProperties, TLC

CONSTANTS u1, u2, a, b

OwnerOfEach == a :> u1 @@ b :> u2
OwnerOfOne == a :> u1

\* An order and a withdrawal at a time, or one of the other requests.
Requests ==
  {a :> "place_order" @@ b :> "withdraw_balance"} \cup
  {a :> e @@ b :> "none" : e \in {"add_balance", "cancel_order", "close_position"}}
OneOrder == {a :> "place_order"}
=============================================================================
