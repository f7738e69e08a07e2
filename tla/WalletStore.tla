----------------------------- MODULE WalletStore -----------------------------
(***************************************************************************)
(* The wallet's Postgres tables and the transactions of                     *)
(* apps/wallet/src/repository.rs that change them.                          *)
(*                                                                          *)
(*   total, locked   user_collaterals (an absent row is a row of zeros)     *)
(*   reservation     wallet_reservations; the uuid of a reservation is      *)
(*                   abstracted to its unique pair (user, idempotency key), *)
(*                   and status "NONE" means that no such row exists        *)
(*   idempotency     wallet_idempotency, NoReply where there is no row      *)
(*   walletLedger    wallet_ledger                                          *)
(*   outbox          wallet_outbox in outbox_id order (the relay's columns  *)
(*                   are in module OutboxRelay)                             *)
(*                                                                          *)
(* A transaction is described by its outcome, an operator that evaluates    *)
(* the checks in the order of the code, and by an action that is the        *)
(* transaction's commit when the outcome is "ok".  A rolled back            *)
(* transaction changes nothing.                                             *)
(***************************************************************************)
EXTENDS Int64, Sequences, FiniteSets

CONSTANTS User, Asset, Key, Ref, Market, Fill, Reason, DeltaKind

VARIABLES total, locked, reservation, idempotency, walletLedger, outbox

tables == <<total, locked, reservation, idempotency, walletLedger, outbox>>

Account == User \X Asset
ReservationId == User \X Key
Amount == Nat \ {0}

(***************************************************************************)
(* Commands.  Client commands carry an idempotency key; the commands that   *)
(* the wallet derives from engine events do not.                            *)
(***************************************************************************)
ClientCommandType ==
  {"Deposit", "Withdraw", "PlaceOrderIntent", "CancelOrderIntent"}

ClientCommand ==
       [type: {"Deposit"}, user: User, key: Key, asset: Asset, amount: Amount, ref: Ref]
  \cup [type: {"Withdraw"}, user: User, key: Key, asset: Asset, amount: Amount]
  \cup [type: {"PlaceOrderIntent"}, user: User, key: Key, asset: Asset,
        amount: Amount, market: Market]
  \cup [type: {"CancelOrderIntent"}, user: User, key: Key, market: Market]

EngineCommand ==
       [type: {"ReleaseReservation"}, res: ReservationId, amount: Amount, reason: Reason]
  \cup [type: {"SettleTrade"}, fill: Fill, res: ReservationId, debitAsset: Asset,
        debitAmount: Amount, creditAsset: Asset, creditAmount: Nat]
  \cup [type: {"ApplyAccountDelta"}, user: User, asset: Asset, totalDelta: Int,
        lockedDelta: Int, kind: DeltaKind, ref: Ref \cup (Fill \X Nat)]

Command == ClientCommand \cup EngineCommand

(***************************************************************************)
(* Rows.                                                                    *)
(***************************************************************************)
NoReservation ==
  [asset |-> CHOOSE a \in Asset : TRUE, amount |-> 0, remaining |-> 0, status |-> "NONE"]

ReservationRow ==
  [asset: Asset, amount: Nat, remaining: Nat,
   status: {"NONE", "ACTIVE", "RELEASED", "SETTLED"}]

NoReply == [type |-> "None"]

Reply ==
       [type: {"FundsReserved"}, res: ReservationId, amount: Amount]
  \cup [type: {"InsufficientFunds"}]
  \cup [type: {"BalanceUpdated"}, total: Nat, locked: Nat]
  \cup [type: {"CommandAccepted"}]

ReplyKey == User \X ClientCommandType \X Key

ReplyKeyOf(cmd) == <<cmd.user, cmd.type, cmd.key>>

\* INSERT INTO wallet_idempotency ... ON CONFLICT DO UPDATE of the request id
\* only: the payload of the first recorded reply stays.
RecordIdempotentReply(cmd, reply) ==
  IF idempotency[ReplyKeyOf(cmd)] = NoReply
    THEN [idempotency EXCEPT ![ReplyKeyOf(cmd)] = reply]
    ELSE idempotency

(***************************************************************************)
(* wallet_ledger: UNIQUE(user_id, asset, kind, reference_id).               *)
(***************************************************************************)
LedgerRow(user, asset, kind, ref, amount) ==
  [user |-> user, asset |-> asset, kind |-> kind, ref |-> ref, amount |-> amount]

InLedger(user, asset, kind, ref) ==
  \E row \in walletLedger :
    row.user = user /\ row.asset = asset /\ row.kind = kind /\ row.ref = ref

(***************************************************************************)
(* wallet_outbox.  A row is its dedupe key, topic, record key and payload.  *)
(* Enqueueing a row whose dedupe key is taken does nothing, unless the      *)
(* stored row differs: then the transaction fails.                          *)
(***************************************************************************)
WalletEventRow(dedupe, recordKey, event) ==
  [dedupe |-> dedupe, topic |-> "wallet.events", key |-> recordKey, payload |-> event]

EngineInputRow(dedupe, market, command) ==
  [dedupe |-> dedupe, topic |-> "engine.input", key |-> market, payload |-> command]

Enqueued(dedupe) == \E i \in DOMAIN outbox : outbox[i].dedupe = dedupe

OutboxConflict(row) ==
  \E i \in DOMAIN outbox : outbox[i].dedupe = row.dedupe /\ outbox[i] # row

Enqueue(box, row) ==
  IF Enqueued(row.dedupe) THEN box ELSE Append(box, row)

\* A total that does not fit in a BIGINT: the statement fails.
TooLarge(sum) == sum > I64Max

-----------------------------------------------------------------------------
(***************************************************************************)
(* apply_deposit_with_outbox.  req is the request the command came with.    *)
(* The account is updated before the ledger row is inserted.                *)
(***************************************************************************)
DepositApplied(cmd, req) ==
  WalletEventRow(
    <<"deposit-applied", cmd.user, cmd.key>>, cmd.user,
    [type |-> "DepositApplied", user |-> cmd.user, asset |-> cmd.asset,
     amount |-> cmd.amount, ref |-> cmd.ref, req |-> req,
     total |-> total[<<cmd.user, cmd.asset>>] + cmd.amount,
     locked |-> locked[<<cmd.user, cmd.asset>>]])

DepositReply(cmd) ==
  [type |-> "BalanceUpdated", total |-> total[<<cmd.user, cmd.asset>>] + cmd.amount,
   locked |-> locked[<<cmd.user, cmd.asset>>]]

DepositOutcome(cmd, req) ==
  IF TooLarge(total[<<cmd.user, cmd.asset>>] + cmd.amount) THEN "NumericOverflow"
  ELSE IF InLedger(cmd.user, cmd.asset, "DEPOSIT", cmd.ref) THEN "UniqueViolation"
  ELSE IF OutboxConflict(DepositApplied(cmd, req)) THEN "IdempotencyConflict"
  ELSE "ok"

ApplyDeposit(cmd, req) ==
  /\ total' = [total EXCEPT ![<<cmd.user, cmd.asset>>] = @ + cmd.amount]
  /\ walletLedger' = walletLedger \cup
       {LedgerRow(cmd.user, cmd.asset, "DEPOSIT", cmd.ref, cmd.amount)}
  /\ idempotency' = RecordIdempotentReply(cmd, DepositReply(cmd))
  /\ outbox' = Enqueue(outbox, DepositApplied(cmd, req))
  /\ UNCHANGED <<locked, reservation>>

(***************************************************************************)
(* apply_withdraw_with_outbox.                                              *)
(***************************************************************************)
Available(user, asset) == total[<<user, asset>>] - locked[<<user, asset>>]

WithdrawalApplied(cmd, req) ==
  WalletEventRow(
    <<"withdrawal-applied", cmd.user, cmd.key>>, cmd.user,
    [type |-> "WithdrawalApplied", user |-> cmd.user, asset |-> cmd.asset,
     amount |-> cmd.amount, req |-> req,
     total |-> total[<<cmd.user, cmd.asset>>] - cmd.amount,
     locked |-> locked[<<cmd.user, cmd.asset>>]])

WithdrawReply(cmd) ==
  [type |-> "BalanceUpdated", total |-> total[<<cmd.user, cmd.asset>>] - cmd.amount,
   locked |-> locked[<<cmd.user, cmd.asset>>]]

WithdrawOutcome(cmd, req) ==
  IF Available(cmd.user, cmd.asset) < cmd.amount THEN "InsufficientFunds"
  ELSE IF InLedger(cmd.user, cmd.asset, "WITHDRAW", cmd.key) THEN "UniqueViolation"
  ELSE IF OutboxConflict(WithdrawalApplied(cmd, req)) THEN "IdempotencyConflict"
  ELSE "ok"

ApplyWithdraw(cmd, req) ==
  /\ total' = [total EXCEPT ![<<cmd.user, cmd.asset>>] = @ - cmd.amount]
  /\ walletLedger' = walletLedger \cup
       {LedgerRow(cmd.user, cmd.asset, "WITHDRAW", cmd.key, -cmd.amount)}
  /\ idempotency' = RecordIdempotentReply(cmd, WithdrawReply(cmd))
  /\ outbox' = Enqueue(outbox, WithdrawalApplied(cmd, req))
  /\ UNCHANGED <<locked, reservation>>

(***************************************************************************)
(* reserve_funds_with_outbox: lock the margin, insert the reservation       *)
(* (UNIQUE(user_id, idempotency_key)), record the reply and enqueue the     *)
(* FundsReserved event and the engine's PlaceOrder input.                   *)
(***************************************************************************)
FundsReserved(cmd, req) ==
  WalletEventRow(
    <<"funds-reserved", <<cmd.user, cmd.key>> >>, cmd.user,
    [type |-> "FundsReserved", user |-> cmd.user, asset |-> cmd.asset,
     amount |-> cmd.amount, res |-> <<cmd.user, cmd.key>>, req |-> req])

PlaceOrder(cmd, req) ==
  EngineInputRow(
    <<"place-order", cmd.user, cmd.key>>, cmd.market,
    [type |-> "PlaceOrder", res |-> <<cmd.user, cmd.key>>, asset |-> cmd.asset,
     amount |-> cmd.amount, req |-> req])

ReserveReply(cmd) ==
  [type |-> "FundsReserved", res |-> <<cmd.user, cmd.key>>, amount |-> cmd.amount]

\* Mutant: no check of the available funds.
ReserveUncheckedMutant(cmd, req) ==
  IF reservation[<<cmd.user, cmd.key>>].status # "NONE" THEN "UniqueViolation" ELSE "ok"

ReserveOutcome(cmd, req) ==
  IF Available(cmd.user, cmd.asset) < cmd.amount THEN "InsufficientFunds"
  ELSE IF reservation[<<cmd.user, cmd.key>>].status # "NONE" THEN "UniqueViolation"
  ELSE IF OutboxConflict(FundsReserved(cmd, req)) \/ OutboxConflict(PlaceOrder(cmd, req))
       THEN "IdempotencyConflict"
  ELSE "ok"

\* Mutant: the reply is not recorded by the transaction that reserves.
ReserveFundsMutant(cmd, req) ==
  /\ locked' = [locked EXCEPT ![<<cmd.user, cmd.asset>>] = @ + cmd.amount]
  /\ reservation' = [reservation EXCEPT ![<<cmd.user, cmd.key>>] =
       [asset |-> cmd.asset, amount |-> cmd.amount, remaining |-> cmd.amount,
        status |-> "ACTIVE"]]
  /\ outbox' = Enqueue(Enqueue(outbox, FundsReserved(cmd, req)), PlaceOrder(cmd, req))
  /\ UNCHANGED <<total, walletLedger, idempotency>>

ReserveFunds(cmd, req) ==
  /\ locked' = [locked EXCEPT ![<<cmd.user, cmd.asset>>] = @ + cmd.amount]
  /\ reservation' = [reservation EXCEPT ![<<cmd.user, cmd.key>>] =
       [asset |-> cmd.asset, amount |-> cmd.amount, remaining |-> cmd.amount,
        status |-> "ACTIVE"]]
  /\ idempotency' = RecordIdempotentReply(cmd, ReserveReply(cmd))
  /\ outbox' = Enqueue(Enqueue(outbox, FundsReserved(cmd, req)), PlaceOrder(cmd, req))
  /\ UNCHANGED <<total, walletLedger>>

(***************************************************************************)
(* forward_cancel and record_idempotent_reply_with_outbox: a cancel moves   *)
(* no funds; its reply and the engine's CancelOrder input commit together.  *)
(***************************************************************************)
CancelOrder(cmd, req) ==
  EngineInputRow(
    <<"cancel-order", cmd.user, cmd.key>>, cmd.market,
    [type |-> "CancelOrder", user |-> cmd.user, req |-> req])

CancelReply == [type |-> "CommandAccepted"]

CancelOutcome(cmd, req) ==
  IF OutboxConflict(CancelOrder(cmd, req)) THEN "IdempotencyConflict" ELSE "ok"

ForwardCancel(cmd, req) ==
  /\ idempotency' = RecordIdempotentReply(cmd, CancelReply)
  /\ outbox' = Enqueue(outbox, CancelOrder(cmd, req))
  /\ UNCHANGED <<total, locked, reservation, walletLedger>>

(***************************************************************************)
(* record_reply: the InsufficientFunds answer is stored by a transaction of *)
(* its own, after the rejected one was rolled back.                         *)
(***************************************************************************)
InsufficientFunds == [type |-> "InsufficientFunds"]

\* Mutant: the rejection is answered and not stored.
RecordReplyMutant(cmd, reply) == UNCHANGED tables

RecordReply(cmd, reply) ==
  /\ idempotency' = RecordIdempotentReply(cmd, reply)
  /\ UNCHANGED <<total, locked, reservation, walletLedger, outbox>>

-----------------------------------------------------------------------------
(***************************************************************************)
(* release_reservation_with_outbox.  seen is the reservation row read by    *)
(* reservation_in_tx, a plain SELECT that takes no lock: the transaction    *)
(* computes with seen whatever the row holds when it writes.  The update of *)
(* user_collaterals has the condition locked >= amount, and the number of   *)
(* rows it changed is not looked at.                                        *)
(***************************************************************************)
Unlock(acct, amount) ==
  IF locked[acct] >= amount THEN [locked EXCEPT ![acct] = @ - amount] ELSE locked

FundsReleased(cmd, seen) ==
  WalletEventRow(
    <<"funds-released", cmd.res, cmd.reason, cmd.amount>>, cmd.res,
    [type |-> "FundsReleased", user |-> cmd.res[1], asset |-> seen.asset,
     amount |-> cmd.amount, res |-> cmd.res, reason |-> cmd.reason])

ReleaseOutcome(cmd, seen) ==
  IF seen.status = "NONE" THEN "ReservationNotFound"
  ELSE IF seen.status # "ACTIVE" \/ cmd.amount > seen.remaining
       THEN "InvalidReservationState"
  ELSE IF OutboxConflict(FundsReleased(cmd, seen)) THEN "IdempotencyConflict"
  ELSE "ok"

\* Mutants: a partial release or settlement leaves the remaining amount as it
\* was; it closes the reservation.
ConsumeNothingMutant(cmd, seen, amount, done) ==
  [reservation EXCEPT ![cmd.res].status =
     IF seen.remaining = amount THEN done ELSE "ACTIVE"]

ConsumeClosesMutant(cmd, seen, amount, done) ==
  [reservation EXCEPT ![cmd.res] =
     [@ EXCEPT !.remaining = seen.remaining - amount, !.status = done]]

Consume(cmd, seen, amount, done) ==
  [reservation EXCEPT ![cmd.res] =
     [@ EXCEPT !.remaining = seen.remaining - amount,
               !.status = IF seen.remaining = amount THEN done ELSE "ACTIVE"]]

ReleaseReservation(cmd, seen) ==
  /\ locked' = Unlock(<<cmd.res[1], seen.asset>>, cmd.amount)
  /\ reservation' = Consume(cmd, seen, cmd.amount, "RELEASED")
  /\ outbox' = Enqueue(outbox, FundsReleased(cmd, seen))
  /\ UNCHANGED <<total, idempotency, walletLedger>>

(***************************************************************************)
(* settle_trade_with_outbox.  A debit and a credit of the same asset and    *)
(* amount only unlock; any other settlement moves the debit out of locked   *)
(* and total and adds the credit to total.                                  *)
(***************************************************************************)
\* Mutant: the amounts are compared, the assets are not.
UnlocksReservedOnlyMutant(cmd) == cmd.debitAmount = cmd.creditAmount

UnlocksReservedOnly(cmd) ==
  cmd.debitAsset = cmd.creditAsset /\ cmd.debitAmount = cmd.creditAmount

Covers(acct, amount) == locked[acct] >= amount /\ total[acct] >= amount

TradeSettled(cmd) ==
  WalletEventRow(
    <<"trade-settled", cmd.fill, cmd.res>>, cmd.res,
    [type |-> "TradeSettled", user |-> cmd.res[1], res |-> cmd.res, fill |-> cmd.fill,
     debitAsset |-> cmd.debitAsset, debitAmount |-> cmd.debitAmount,
     creditAsset |-> cmd.creditAsset, creditAmount |-> cmd.creditAmount])

SettledTotal(cmd) ==
  LET debit == <<cmd.res[1], cmd.debitAsset>>
      credit == <<cmd.res[1], cmd.creditAsset>>
      debited == IF Covers(debit, cmd.debitAmount)
                   THEN [total EXCEPT ![debit] = @ - cmd.debitAmount]
                   ELSE total
  IN [debited EXCEPT ![credit] = @ + cmd.creditAmount]

CreditOverflows(cmd) ==
  /\ ~UnlocksReservedOnly(cmd)
  /\ TooLarge(SettledTotal(cmd)[<<cmd.res[1], cmd.creditAsset>>])

SettleOutcome(cmd, seen) ==
  IF seen.status = "NONE" THEN "ReservationNotFound"
  ELSE IF \/ seen.status # "ACTIVE"
          \/ seen.asset # cmd.debitAsset
          \/ cmd.debitAmount <= 0
          \/ cmd.debitAmount > seen.remaining
       THEN "InvalidReservationState"
  ELSE IF CreditOverflows(cmd) THEN "NumericOverflow"
  ELSE IF \/ InLedger(cmd.res[1], cmd.debitAsset, "TRADE_DEBIT", cmd.fill)
          \/ InLedger(cmd.res[1], cmd.creditAsset, "TRADE_CREDIT", cmd.fill)
       THEN "UniqueViolation"
  ELSE IF OutboxConflict(TradeSettled(cmd)) THEN "IdempotencyConflict"
  ELSE "ok"

SettleTrade(cmd, seen) ==
  LET debit == <<cmd.res[1], cmd.debitAsset>>
  IN /\ IF UnlocksReservedOnly(cmd)
          THEN /\ locked' = Unlock(debit, cmd.debitAmount)
               /\ total' = total
          ELSE /\ locked' = IF Covers(debit, cmd.debitAmount)
                              THEN [locked EXCEPT ![debit] = @ - cmd.debitAmount]
                              ELSE locked
               /\ total' = SettledTotal(cmd)
     /\ walletLedger' = walletLedger \cup
          {LedgerRow(cmd.res[1], cmd.debitAsset, "TRADE_DEBIT", cmd.fill, -cmd.debitAmount),
           LedgerRow(cmd.res[1], cmd.creditAsset, "TRADE_CREDIT", cmd.fill, cmd.creditAmount)}
     /\ reservation' = Consume(cmd, seen, cmd.debitAmount, "SETTLED")
     /\ outbox' = Enqueue(outbox, TradeSettled(cmd))
     /\ UNCHANGED idempotency

(***************************************************************************)
(* apply_account_delta_with_outbox.  The wallet_ledger row is the duplicate *)
(* check.  The balance is then changed by INSERT ... SELECT ... WHERE ...   *)
(* ON CONFLICT DO UPDATE ... WHERE ...: the first WHERE selects the row to  *)
(* insert, so a delta that fails it inserts nothing, conflicts with nothing *)
(* and updates nothing, whether or not the account has a row.  A delta that *)
(* passes it may fail in the sum of the second WHERE.                       *)
(***************************************************************************)
DeltaSelected(cmd) ==
  cmd.totalDelta >= 0 /\ cmd.lockedDelta >= 0 /\ cmd.lockedDelta <= cmd.totalDelta

DeltaFits(cmd) ==
  LET newTotal == total[<<cmd.user, cmd.asset>>] + cmd.totalDelta
      newLocked == locked[<<cmd.user, cmd.asset>>] + cmd.lockedDelta
  IN newTotal >= 0 /\ newLocked >= 0 /\ newLocked <= newTotal

AccountDeltaApplied(cmd) ==
  WalletEventRow(
    <<"account-delta-applied", cmd.kind, cmd.ref, cmd.user, cmd.asset>>, cmd.user,
    [type |-> "AccountDeltaApplied", user |-> cmd.user, asset |-> cmd.asset,
     totalDelta |-> cmd.totalDelta, lockedDelta |-> cmd.lockedDelta,
     kind |-> cmd.kind, ref |-> cmd.ref,
     total |-> total[<<cmd.user, cmd.asset>>] + cmd.totalDelta,
     locked |-> locked[<<cmd.user, cmd.asset>>] + cmd.lockedDelta])

\* Mutant: a delta is not looked up.
DeltaAgainMutant(cmd) ==
  IF cmd.totalDelta = 0 /\ cmd.lockedDelta = 0 THEN "nothing"
  ELSE IF ~(DeltaSelected(cmd) /\ DeltaFits(cmd)) THEN "InvalidAccountDelta"
  ELSE "ok"

DeltaOutcome(cmd) ==
  IF cmd.totalDelta = 0 /\ cmd.lockedDelta = 0 THEN "nothing"
  ELSE IF InLedger(cmd.user, cmd.asset, cmd.kind, cmd.ref) THEN "nothing"
  ELSE IF DeltaSelected(cmd) /\ TooLarge(total[<<cmd.user, cmd.asset>>] + cmd.totalDelta)
       THEN "NumericOverflow"
  ELSE IF ~(DeltaSelected(cmd) /\ DeltaFits(cmd)) THEN "InvalidAccountDelta"
  ELSE IF OutboxConflict(AccountDeltaApplied(cmd)) THEN "IdempotencyConflict"
  ELSE "ok"

ApplyAccountDelta(cmd) ==
  /\ total' = [total EXCEPT ![<<cmd.user, cmd.asset>>] = @ + cmd.totalDelta]
  /\ locked' = [locked EXCEPT ![<<cmd.user, cmd.asset>>] = @ + cmd.lockedDelta]
  /\ walletLedger' = walletLedger \cup
       {LedgerRow(cmd.user, cmd.asset, cmd.kind, cmd.ref, cmd.totalDelta)}
  /\ outbox' = Enqueue(outbox, AccountDeltaApplied(cmd))
  /\ UNCHANGED <<reservation, idempotency>>

-----------------------------------------------------------------------------
(***************************************************************************)
(* What processing a command comes to: WalletProcessor::process_command and *)
(* process_engine_command.  seen is the reservation read by the transaction *)
(* (NoReservation for commands that read none).                             *)
(***************************************************************************)
Outcome(cmd, req, seen) ==
  CASE cmd.type = "Deposit" -> DepositOutcome(cmd, req)
    [] cmd.type = "Withdraw" -> WithdrawOutcome(cmd, req)
    [] cmd.type = "PlaceOrderIntent" -> ReserveOutcome(cmd, req)
    [] cmd.type = "CancelOrderIntent" -> CancelOutcome(cmd, req)
    [] cmd.type = "ReleaseReservation" -> ReleaseOutcome(cmd, seen)
    [] cmd.type = "SettleTrade" -> SettleOutcome(cmd, seen)
    [] cmd.type = "ApplyAccountDelta" -> DeltaOutcome(cmd)

SuccessReply(cmd) ==
  CASE cmd.type = "Deposit" -> DepositReply(cmd)
    [] cmd.type = "Withdraw" -> WithdrawReply(cmd)
    [] cmd.type = "PlaceOrderIntent" -> ReserveReply(cmd)
    [] cmd.type = "CancelOrderIntent" -> CancelReply

Commit(cmd, req, seen) ==
  \/ cmd.type = "Deposit" /\ ApplyDeposit(cmd, req)
  \/ cmd.type = "Withdraw" /\ ApplyWithdraw(cmd, req)
  \/ cmd.type = "PlaceOrderIntent" /\ ReserveFunds(cmd, req)
  \/ cmd.type = "CancelOrderIntent" /\ ForwardCancel(cmd, req)
  \/ cmd.type = "ReleaseReservation" /\ ReleaseReservation(cmd, seen)
  \/ cmd.type = "SettleTrade" /\ SettleTrade(cmd, seen)
  \/ cmd.type = "ApplyAccountDelta" /\ ApplyAccountDelta(cmd)

EmptyTables ==
  /\ total = [a \in Account |-> 0]
  /\ locked = [a \in Account |-> 0]
  /\ reservation = [r \in ReservationId |-> NoReservation]
  /\ idempotency = [k \in ReplyKey |-> NoReply]
  /\ walletLedger = {}
  /\ outbox = <<>>
=============================================================================
