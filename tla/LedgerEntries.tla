---------------------------- MODULE LedgerEntries ----------------------------
(***************************************************************************)
(* How the ledger turns a wallet event into accounting entries:             *)
(* ledger_record_from_wallet_event in apps/ledger/src/processor.rs.  An     *)
(* entry is a change of one account's total and locked funds.               *)
(***************************************************************************)
EXTENDS Integers

Entry(user, asset, kind, totalDelta, lockedDelta, ref) ==
  [user |-> user, asset |-> asset, kind |-> kind, totalDelta |-> totalDelta,
   lockedDelta |-> lockedDelta, ref |-> ref]

EntriesOf(e) ==
  CASE e.type = "FundsReserved" ->
         <<Entry(e.user, e.asset, "RESERVE", 0, e.amount, e.res)>>
    [] e.type = "FundsReleased" ->
         <<Entry(e.user, e.asset, "RELEASE", 0, -e.amount, e.res)>>
    [] e.type = "TradeSettled" ->
         <<Entry(e.user, e.debitAsset, "TRADE_DEBIT", -e.debitAmount, -e.debitAmount, e.fill),
           Entry(e.user, e.creditAsset, "TRADE_CREDIT", e.creditAmount, 0, e.fill)>>
    [] e.type = "DepositApplied" ->
         <<Entry(e.user, e.asset, "DEPOSIT", e.amount, 0, e.ref)>>
    [] e.type = "WithdrawalApplied" ->
         <<Entry(e.user, e.asset, "WITHDRAWAL", -e.amount, 0, e.req)>>
    [] e.type = "AccountDeltaApplied" ->
         <<Entry(e.user, e.asset, e.kind, e.totalDelta, e.lockedDelta, e.ref)>>
=============================================================================
