-------------------------------- MODULE MCFlow --------------------------------
(***************************************************************************)
(* A small instance of the command flow for TLC.                            *)
(***************************************************************************)
EXTENDS CommandFlow, TLC

CONSTANTS u1, usdc, k1, k2, ref1, m1, w1, pc1, pe1, pi1

OneUserPartition == u1 :> pc1
OneMarketPartition == m1 :> pe1

FirstDeposit ==
  [type |-> "Deposit", user |-> u1, key |-> k1, asset |-> usdc, amount |-> 3, ref |-> ref1]
Commands == {FirstDeposit}

order(key, quantity, price, leverage, margin) ==
  [user |-> u1, key |-> key,
   form |-> [quantity |-> quantity, price |-> price, leverage |-> leverage,
             margin |-> margin]]

\* A limit order whose margin is rounded up to 2 and one without a price that
\* reuses its key; one with too little margin, and an order of its own.
Orders == {order(k1, 3, 1, 2, 3), order(k1, 1, 0, 1, 1), order(k1, 3, 1, 2, 1), order(k2, 1, 0, 1, 1)}
Cancels == {<<u1, k1>>}
OrderIds == {pc1} \X (1 .. MaxCommands)
=============================================================================
