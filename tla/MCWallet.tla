------------------------------- MODULE MCWallet -------------------------------
(***************************************************************************)
(* Small instances of the wallet for TLC.                                   *)
(***************************************************************************)
EXTENDS WalletProperties, TLC

CONSTANTS u1, usdc, sol, k1, k2, ref1, m1, f1, w1, pc1, pe1

deposit(u, k, n, r) ==
  [type |-> "Deposit", user |-> u, key |-> k, asset |-> usdc, amount |-> n, ref |-> r]
withdraw(u, k, n) ==
  [type |-> "Withdraw", user |-> u, key |-> k, asset |-> usdc, amount |-> n]
place(u, k, n) ==
  [type |-> "PlaceOrderIntent", user |-> u, key |-> k, asset |-> usdc, amount |-> n,
   market |-> m1]
cancel(u, k) == [type |-> "CancelOrderIntent", user |-> u, key |-> k, market |-> m1]

OneUserPartition == u1 :> pc1
OneMarketPartition == m1 :> pe1

\* One user: a deposit, one that reuses its reference under a key of its own, a
\* withdrawal and two orders that compete for the funds, a cancel, and retries.
CommandsOneUser ==
  {deposit(u1, k1, 2, ref1), deposit(u1, k2, 1, ref1), withdraw(u1, k1, 1),
   place(u1, k1, 2), place(u1, k2, 1), cancel(u1, k1)}

\* A funded order, and one that leaves funds to pay a fee with.
CommandsFunded == {deposit(u1, k1, 2, ref1), place(u1, k1, 2)}
CommandsWithRest == {deposit(u1, k1, 3, ref1), place(u1, k1, 2)}
=============================================================================
